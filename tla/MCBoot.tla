------------------------------- MODULE MCBoot -------------------------------
(***************************************************************************)
(* TLC instance of Boot: modules that depend on each other, module files   *)
(* with every kind of relocation, machines with up to three processors one *)
(* of which may panic, and programs with arguments and an environment.     *)
(***************************************************************************)
EXTENDS Boot

MCExports == << [name |-> "malloc", address |-> 120, internal |-> FALSE],
                [name |-> "panic", address |-> 121, internal |-> TRUE],
                [name |-> "panic", address |-> 122, internal |-> FALSE],
                [name |-> "cores", address |-> 123, internal |-> TRUE] >>

\* Sections: none, .text, .data, and in either order .bss and .rela.text.
Bits(offset) == [type |-> "PROGBITS", offset |-> offset, size |-> 8, alloc |-> TRUE,
                 info |-> 0, entries |-> <<>>]
None0 == [Bits(0) EXCEPT !.type = "NULL", !.size = 0]
Bss(size, alloc) == [Bits(40) EXCEPT !.type = "NOBITS", !.size = size, !.alloc = alloc]
Rela(type, rels) == [Bits(24) EXCEPT !.type = type, !.alloc = FALSE, !.info = 1, !.entries = rels]
Rel(offset, sym, type) == [offset |-> offset, sym |-> sym, type |-> type, addend |-> 3]

Symbol(name, shndx, section, value, weak) ==
  [name |-> name, shndx |-> shndx, section |-> section, value |-> value, weak |-> weak]
Symbols(bss) ==
  << Symbol("", "undef", 0, 0, FALSE),
     Symbol("__module_info", "section", 2, 1, FALSE),
     Symbol("handler", "section", 1, 3, FALSE),
     Symbol("buffer", "section", bss, 2, FALSE),
     Symbol("malloc", "undef", 0, 0, FALSE),
     Symbol("panic", "undef", 0, 0, FALSE),
     Symbol("cores", "undef", 0, 0, FALSE),
     Symbol("cores", "undef", 0, 0, TRUE),
     Symbol("version", "abs", 0, 5, FALSE) >>

Image(sections, bss) ==
  [class |-> 64, type |-> "REL", sections |-> sections, symbols |-> Symbols(bss)]

BssFirst(type, rels) == Image(<<None0, Bits(0), Bits(8), Bss(4, TRUE), Rela(type, rels)>>, 3)
BssLast(type, rels) == Image(<<None0, Bits(0), Bits(8), Rela(type, rels), Bss(4, TRUE)>>, 4)
Plain == BssFirst("RELA", <<>>)

Relocations == {<<Rel(1, s, t), Rel(4, 2, "PC32")>> :
                  s \in 0 .. 8, t \in {"NONE", "64", "32", "PC32", "unknown"}}
Images ==
  {BssFirst(t, r) : t \in {"REL", "RELA"}, r \in Relocations}
  \union {BssLast("RELA", r) : r \in Relocations}
  \union {[Plain EXCEPT !.class = 32], [Plain EXCEPT !.type = "EXEC"],
          [Plain EXCEPT !.symbols = <<Symbols(3)[1]>>],
          Image(<<None0, Bits(0), Bits(8), Bss(0, TRUE), Bss(4, FALSE)>>, 3)}

Module(scopes, deps, result) ==
  [image |-> Plain, scopes |-> scopes, deps |-> deps, result |-> result]
Kinds ==
  {Module(<<"a">>, <<>>, 0), Module(<<"a">>, <<>>, 1), Module(<<"a">>, <<"b">>, 0),
   Module(<<"b">>, <<>>, 0), Module(<<"b">>, <<"a">>, 0), Module(<<"b", "a">>, <<>>, 0),
   Module(<<>>, <<"a">>, 0), Module(<<>>, <<"a", "b">>, 0), Module(<<>>, <<"b", "a">>, 0),
   Module(<<>>, <<"a", "">>, 0), [Module(<<"a">>, <<>>, 0) EXCEPT !.image.class = 32]}

Program(args, envs) == [ok |-> TRUE, args |-> args, envs |-> envs]
InitProgram == Program(<< <<"i", "n">> >>, <<>>)
NoProgram == [ok |-> FALSE, args |-> <<>>, envs |-> <<>>]
Texts == {<<>>, <<"x">>, <<"x", "y">>}
Lists == {<<>>} \union {<<s>> : s \in Texts} \union {<<s, t>> : s, t \in Texts}

Base == [modules |-> <<>>, lapics |-> <<1>>, boot |-> 1, madt |-> FALSE, response |-> FALSE,
         dies |-> {}, programs |-> <<InitProgram>>]
Machine(lapics, boot, dies) ==
  [Base EXCEPT !.lapics = lapics, !.boot = boot, !.dies = dies,
               !.madt = TRUE, !.response = TRUE]

ModuleSetups == {[Base EXCEPT !.modules = <<x, y, z>>] : x, y, z \in Kinds}
ImageSetups == {[Base EXCEPT !.modules = <<[Module(<<>>, <<>>, 0) EXCEPT !.image = i]>>] : i \in Images}
CoreSetups ==
  {Machine(<<0, 1, 2>>, 1, d) : d \in {{}, {1}, {2}, {3}}}
  \union {Machine(<<1, 2>>, 1, d) : d \in {{1}, {2}}}
  \union {Machine(<<1, 0, 2>>, 2, {})}
  \union {[Machine(<<0, 1>>, 1, {}) EXCEPT !.response = FALSE],
          [Machine(<<0, 1>>, 1, {}) EXCEPT !.programs = <<NoProgram>>],
          [Base EXCEPT !.dies = {1}]}
ProgramSetups ==
  {[Base EXCEPT !.programs = <<InitProgram, Program(a, e)>>] : a, e \in Lists}
  \union {[Base EXCEPT !.programs = <<InitProgram, NoProgram, InitProgram>>]}

MCSetups == ModuleSetups \union ImageSetups \union CoreSetups \union ProgramSetups
\* Files as the theorem about relocation (BootProof) takes them.
ASSUME SoundAssumption == SoundFiles
===============================================================================
