--------------------------------- MODULE Elf ---------------------------------
(***************************************************************************)
(* What the kernel makes of an ELF file (kernel/exec/elf.c, symbols.c), as *)
(* operators: the sections and relocations of a module, and the arguments  *)
(* on a new program's stack.  Sections and symbols are numbered from 0.    *)
(***************************************************************************)
EXTENDS Integers, SequencesExt

CONSTANTS
  ImageBase,       \* where the file was read to
  BssBase,         \* where the heap gives memory from; above any file
  AddressBits,     \* the width of an address
  HalfBits,        \* the width of a 32-bit field
  Exports,         \* the kernel's table of symbols: [name, address, internal]
  Word, Alignment  \* bytes in a pointer; what a stack pointer is aligned to

ASSUME ElfAssumption ==
  /\ {ImageBase, BssBase} \subseteq Nat /\ ImageBase < BssBase
  /\ {AddressBits, HalfBits, Word, Alignment} \subseteq Nat \ {0}
  /\ Exports \in Seq([name : STRING, address : Nat, internal : BOOLEAN])

\* The files there are: class, type, sections and symbols.
ElfEntry == [offset : Nat, sym : Nat,
             type : {"64", "32", "PC32", "NONE", "unknown"}, addend : Int]
ElfSection == [type : STRING, offset : Nat, size : Nat, alloc : BOOLEAN, info : Nat,
               entries : Seq(ElfEntry)]
ElfSymbol == [name : STRING, shndx : STRING, section : Nat, value : Nat, weak : BOOLEAN]
ElfImage == [class : Nat, type : STRING, sections : Seq(ElfSection), symbols : Seq(ElfSymbol)]

Failed == -1

\* k_lookup_symbol: internal symbols are not for modules.
Exported(name) == {i \in DOMAIN Exports : Exports[i].name = name /\ ~Exports[i].internal}
k_lookup_symbol(name) ==
  Exports[CHOOSE i \in Exported(name) : \A j \in Exported(name) : i <= j].address

Section(image, i) == image.sections[i + 1]
Sections(image) == 0 .. Len(image.sections) - 1

\* Sections without bits get memory when the loop comes to them.
Allocated(image, k) ==
  {i \in Sections(image) : i < k /\ Section(image, i).type = "NOBITS"
                             /\ Section(image, i).size > 0 /\ Section(image, i).alloc}

\* __k_elf_section_data, when the loop is at section k: in the file, or where
\* the heap had room behind the memory of the sections before.
SectionData(image, k, i) ==
  IF i \in Allocated(image, k)
  THEN BssBase + MapThenSumSet(LAMBDA j : Section(image, j).size, Allocated(image, i))
  ELSE ImageBase + Section(image, i).offset

\* __k_elf_symval
SymbolValue(image, k, s) ==
  LET sym == image.symbols[s + 1] IN
  CASE sym.shndx = "undef" ->
         IF Exported(sym.name) # {} THEN k_lookup_symbol(sym.name)
         ELSE IF sym.weak THEN 0 ELSE Failed
    [] sym.shndx = "abs" -> sym.value
    [] OTHER -> SectionData(image, k, sym.section) + sym.value

Place(image, k, rel) == SectionData(image, k, Section(image, k).info) + rel.offset

\* Mutant: a relative address is counted from the start of the section.
RelocatedFromSection(image, k, rel) ==
  LET symbol == IF rel.sym = 0 THEN 0 ELSE SymbolValue(image, k, rel.sym)
      sum == symbol + (IF Section(image, k).type = "REL" THEN 0 ELSE rel.addend) IN
  IF symbol = Failed \/ rel.type = "unknown" THEN Failed
  ELSE CASE rel.type = "64" -> sum % 2 ^ AddressBits
         [] rel.type = "32" -> sum % 2 ^ HalfBits
         [] rel.type = "PC32" -> (sum - Place(image, k, rel) + rel.offset) % 2 ^ HalfBits
         [] OTHER -> 0

\* __k_elf_relocate for an entry of section k: what is written, or Failed.
\* Symbol 0 is no symbol; entries of type REL have no addend; NONE writes nothing.
Relocated(image, k, rel) ==
  LET symbol == IF rel.sym = 0 THEN 0 ELSE SymbolValue(image, k, rel.sym)
      sum == symbol + (IF Section(image, k).type = "REL" THEN 0 ELSE rel.addend) IN
  IF symbol = Failed \/ rel.type = "unknown" THEN Failed
  ELSE CASE rel.type = "64" -> sum % 2 ^ AddressBits
         [] rel.type = "32" -> sum % 2 ^ HalfBits
         [] rel.type = "PC32" -> (sum - Place(image, k, rel)) % 2 ^ HalfBits
         [] OTHER -> 0

\* The loop of k_elf_load_module: the entries of the relocation sections in the
\* order of the sections, each with its section.
Entries(image) ==
  FlattenSeq([n \in DOMAIN image.sections |->
    IF image.sections[n].type \in {"REL", "RELA"}
    THEN [j \in DOMAIN image.sections[n].entries |->
            [at |-> n - 1, rel |-> image.sections[n].entries[j]]]
    ELSE <<>>])

\* k_elf_load_module: whether the file is a module, and what the places that were
\* relocated hold; the last entry for a place wins.
LoadImage(image) ==
  LET E == Entries(image)
      Writes == {i \in DOMAIN E : E[i].rel.type # "NONE"}
      At(i) == Place(image, E[i].at, E[i].rel)
  IN IF /\ image.class = 64 /\ image.type = "REL"
        /\ \A i \in DOMAIN E : Relocated(image, E[i].at, E[i].rel) # Failed
        /\ \E sym \in ToSet(image.symbols) : sym.name = "__module_info"
     THEN [ok |-> TRUE,
           memory |-> [a \in {At(i) : i \in Writes} |->
             LET i == Max({j \in Writes : At(j) = a}) IN Relocated(image, E[i].at, E[i].rel)]]
     ELSE [ok |-> FALSE, memory |-> <<>>]

----------------------------------------------------------------------------
(* The stack of a new program (k_elf_exec, and _start of crt0)              *)

Null == 0
EndOfString == "NUL"

\* A stack is what has been pushed, in bytes: the last of them lies lowest.  Each
\* byte of a pointer knows the part of it that it is.
StringBytes(s) ==
  <<[char |-> EndOfString]>> \o [k \in DOMAIN s |-> [char |-> s[Len(s) + 1 - k]]]
PointerBytes(p) == [k \in 1 .. Word |-> [pointer |-> p, part |-> Word - k]]
PointersBytes(pointers) ==
  FlattenSeq([k \in DOMAIN pointers |-> PointerBytes(pointers[Len(pointers) + 1 - k])])

\* The strings from the last to the first.
StringsBytes(strings) ==
  FlattenSeq([k \in DOMAIN strings |-> StringBytes(strings[Len(strings) + 1 - k])])
StringsAt(stack, strings, top) ==
  [i \in DOMAIN strings |->
     top - Len(stack) - Len(StringsBytes(SubSeq(strings, i, Len(strings))))]

\* Mutant: the arrays of pointers have no null pointer behind them.
PushedOpen(stack, strings, top) ==
  stack \o StringsBytes(strings) \o PointersBytes(StringsAt(stack, strings, top))

\* The strings, then the array of their addresses, which ends in null.
Pushed(stack, strings, top) ==
  stack \o StringsBytes(strings) \o PointersBytes(Append(StringsAt(stack, strings, top), Null))

\* argv, envp and the stack pointer, which is aligned upwards over what was
\* pushed last.
Arguments(args, envs, top) ==
  LET a == Pushed(<<>>, args, top)
      e == Pushed(a, envs, top)
      envp == top - Len(e)
  IN [argc |-> Len(args), argv |-> top - Len(a), envp |-> envp,
      sp |-> envp + ((-envp) % Alignment), stack |-> e]

\* _start pushes a null frame and calls __libc_init.
Started(stack, sp, top) ==
  SubSeq(stack, 1, top - sp) \o PointerBytes(Null) \o PointerBytes(Null)
    \o SubSeq(stack, top - sp + 2 * Word + 1, Len(stack))
=============================================================================
