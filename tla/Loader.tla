------------------------------- MODULE Loader -------------------------------
(***************************************************************************)
(* k_load_modules (kernel/exec/module.c): every file in /modules is        *)
(* prepared, then each is started after the modules whose scopes it        *)
(* depends on.  Only one core runs yet; a step is one turn of a loop.      *)
(***************************************************************************)
EXTENDS Elf, FiniteSets

CONSTANT Setups   \* bound: the machines and files to boot with

ASSUME LoaderAssumption ==
  \A s \in Setups :
    /\ Len(s.modules) \in Nat /\ DOMAIN s.modules = 1 .. Len(s.modules)
    /\ \A i \in DOMAIN s.modules : /\ {s.modules[i].scopes, s.modules[i].deps} \subseteq Seq(STRING)
                                   /\ s.modules[i].image \in ElfImage

VARIABLES
  setup,      \* modules: the files in /modules, each [image, scopes, deps, result]
  loading,    \* where k_load_modules is
  images,     \* of each file read so far, the prepared image
  to_load,    \* the list to_load: the modules that have not been tried
  loaded,     \* __loaded_modules
  calls,      \* the calls of __load_recursive: the module, its next dependency
  called      \* the modules whose load() was called, in order

loadvars == <<setup, loading, images, to_load, loaded, calls, called>>

Modules == DOMAIN setup.modules

LoaderInit ==
  /\ setup \in Setups
  /\ loading = "read" /\ images = <<>>
  /\ to_load = <<>> /\ loaded = <<>> /\ calls = <<>> /\ called = <<>>

Scopes(m) == setup.modules[m].scopes

\* list_find_cmp with __scope_comparator, whose loop over the scopes of a
\* module stays at the first: the first module with scopes decides.
Deciding(list) ==
  {i \in DOMAIN list : Scopes(list[i]) # <<>> /\ \A j \in 1 .. i - 1 : Scopes(list[j]) = <<>>}
Find(list, scope) ==
  IF Deciding(list) = {} THEN "none"
  ELSE IF \E i \in Deciding(list) : Head(Scopes(list[i])) = scope THEN "found" ELSE "hang"

\* __k_preload_module, for every file readdir delivers.
Preload ==
  /\ loading = "read"
  /\ LET m == Len(images) + 1 IN
     IF m \notin Modules THEN loading' = "choose" /\ UNCHANGED <<images, to_load>>
     ELSE LET image == LoadImage(setup.modules[m].image) IN
          /\ images' = Append(images, image)
          /\ to_load' = (IF image.ok THEN Append(to_load, m) ELSE to_load)
          /\ UNCHANGED loading
  /\ UNCHANGED <<setup, loaded, calls, called>>

\* __load_recursive begins: the module leaves the list whatever becomes of it.
Enter(i) ==
  /\ calls' = Append(calls, [module |-> to_load[i], dep |-> 1])
  /\ to_load' = RemoveAt(to_load, i)
  /\ loading' = "check"

Choose ==
  /\ loading = "choose"
  /\ IF to_load = <<>> THEN loading' = "done" /\ UNCHANGED <<to_load, calls>> ELSE Enter(1)
  /\ UNCHANGED <<setup, images, loaded, called>>

Top == calls[Len(calls)]
Advanced(st) == [st EXCEPT ![Len(st)].dep = @ + 1]

\* Mutant: the caller goes on with its next dependency.
FailOne ==
  /\ calls' = (IF Len(calls) > 1 THEN Advanced(Front(calls)) ELSE <<>>)
  /\ loading' = IF Len(calls) > 1 THEN "check" ELSE "choose"

\* A failure is returned through all the calls there are.
Fail == calls' = <<>> /\ loading' = "choose"

\* The dependency Top.dep is provided already, or by a module still in the list.
Check ==
  /\ loading = "check"
  /\ LET deps == setup.modules[Top.module].deps IN
     IF Top.dep > Len(deps) THEN loading' = "call" /\ UNCHANGED <<to_load, calls>>
     ELSE LET scope == deps[Top.dep] IN
          CASE Find(loaded, scope) = "found" ->
                 calls' = Advanced(calls) /\ UNCHANGED <<loading, to_load>>
            [] "hang" \in {Find(loaded, scope), Find(to_load, scope)} /\ Find(loaded, scope) # "found" ->
                 loading' = "hang" /\ UNCHANGED <<calls, to_load>>
            [] Find(loaded, scope) = "none" /\ Find(to_load, scope) = "found" ->
                 \E i \in Deciding(to_load) : Enter(i)
            [] OTHER -> Fail /\ UNCHANGED to_load
  /\ UNCHANGED <<setup, images, loaded, called>>

\* The module's load(), and the way back to the caller.
Call ==
  /\ loading = "call"
  /\ called' = Append(called, Top.module)
  /\ IF setup.modules[Top.module].result # 0 THEN Fail /\ UNCHANGED loaded
     ELSE /\ loaded' = Append(loaded, Top.module)
          /\ IF Len(calls) = 1 THEN calls' = <<>> /\ loading' = "choose"
             ELSE calls' = Advanced(Front(calls)) /\ loading' = "check"
  /\ UNCHANGED <<setup, images, to_load>>

LoadModules == Preload \/ Choose \/ Check \/ Call

----------------------------------------------------------------------------
\* The modules that can be started: the least set that has every module which is
\* prepared, willing, and has its dependencies provided by modules of the set.
Startable ==
  LET Provided(S) == UNION {ToSet(setup.modules[m].scopes) : m \in S}
      More(S) == {m \in Modules : /\ images[m].ok /\ setup.modules[m].result = 0
                                  /\ ToSet(setup.modules[m].deps) \subseteq Provided(S)}
  IN {m \in Modules : \A S \in SUBSET Modules : More(S) \subseteq S => m \in S}

OneProviderEach ==
  \A m, n \in Modules :
    m # n => ToSet(setup.modules[m].scopes) \cap ToSet(setup.modules[n].scopes) = {}

\* Each module once at most, after all that it depends on.
InOrder ==
  /\ IsInjective(called)
  /\ \A i \in DOMAIN called : \A scope \in ToSet(setup.modules[called[i]].deps) :
       \E j \in 1 .. i - 1 : /\ setup.modules[called[j]].result = 0
                            /\ scope \in ToSet(Scopes(called[j]))

(* A module is started once at most, after all that it depends on, and in   *)
(* the end exactly those are loaded that can be (if each scope has one      *)
(* provider), in whatever order the directory lists them, with missing and  *)
(* circular dependencies and modules that fail.                             *)
ModulesRight ==
  /\ InOrder
  /\ loading = "done" /\ OneProviderEach => ToSet(loaded) = Startable

\* What the value of a symbol has to be once all sections have their place.
Final(image) == Len(image.sections)
Meant(image, k, rel) ==
  LET sym == image.symbols[rel.sym + 1]
      Offers == {x \in ToSet(Exports) : x.name = sym.name /\ ~x.internal}
      value == CASE rel.sym = 0 -> 0
                 [] rel.sym # 0 /\ sym.shndx = "undef" /\ Offers = {} -> 0
                 [] rel.sym # 0 /\ sym.shndx = "undef" /\ Offers # {} ->
                      (CHOOSE x \in Offers : TRUE).address
                 [] rel.sym # 0 /\ sym.shndx = "abs" -> sym.value
                 [] OTHER -> SectionData(image, Final(image), sym.section) + sym.value
      addend == IF Section(image, k).type = "REL" THEN 0 ELSE rel.addend
      place == ImageBase + Section(image, Section(image, k).info).offset + rel.offset
  IN [place |-> place,
      bits |-> IF rel.type = "64" THEN AddressBits ELSE HalfBits,
      value |-> IF rel.type = "PC32" THEN (value + addend) - place ELSE value + addend]

\* Memory for .bss is found too late for relocations that come before it.
Early(image, e) ==
  LET i == image.symbols[e.rel.sym + 1].section IN
  i > e.at /\ Section(image, i).type = "NOBITS"

\* Files as compilers make them: relocations are for sections with bits, no two for
\* one place, their symbols exist; and the kernel exports a name once at most.
SoundFiles ==
  /\ \A x, y \in ToSet(Exports) : x.name = y.name /\ ~x.internal /\ ~y.internal => x = y
  /\ \A s \in Setups : \A m \in DOMAIN s.modules :
       LET image == s.modules[m].image
           E == Entries(image) IN
       /\ \A e \in ToSet(E) : /\ e.rel.sym < Len(image.symbols)
                             /\ Section(image, e.at).info \in Sections(image)
                             /\ Section(image, Section(image, e.at).info).type # "NOBITS"
       /\ \A i, j \in {n \in DOMAIN E : E[n].rel.type # "NONE"} :
            Place(image, E[i].at, E[i].rel) = Place(image, E[j].at, E[j].rel) => i = j

(* In a prepared module every place a relocation names holds the address of *)
(* what its symbol stands for where that finally is: in the file, in memory *)
(* for sections without bits (if they precede the relocations), in the      *)
(* kernel, or 0 if it is weak and absent; a module that needs a strong      *)
(* symbol which the kernel keeps to itself or does not have is refused.     *)
ImageRight ==
  \A m \in DOMAIN images :
    LET image == setup.modules[m].image IN
    images[m].ok => \A e \in ToSet(Entries(image)) :
      LET sym == image.symbols[e.rel.sym + 1]
          meant == Meant(image, e.at, e.rel) IN
      /\ e.rel.type # "NONE" /\ ~Early(image, e) =>
           images[m].memory[meant.place] = meant.value % 2 ^ meant.bits
      /\ e.rel.sym # 0 /\ sym.shndx = "undef" /\ ~sym.weak =>
           \E x \in ToSet(Exports) : x.name = sym.name /\ ~x.internal
=============================================================================
