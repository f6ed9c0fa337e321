------------------------------- MODULE MCFiles -------------------------------
(***************************************************************************)
(* A ram disk with a nested directory, an empty file, files that end at a  *)
(* block's end and inside one, and a member below /dev that the devices    *)
(* hide; blocks of two bytes.                                              *)
(***************************************************************************)
EXTENDS Files

Dir(path) == [name |-> path, dir |-> TRUE, size |-> 0]
File(path, bytes) == [name |-> path, dir |-> FALSE, size |-> bytes]

TarMembers ==
  << Dir(<<"bin">>), File(<<"bin", "init">>, 3), Dir(<<"bin", "log">>),
     File(<<"bin", "log", "init">>, 0), File(<<"bin", "ram0">>, 2),
     Dir(<<"dev">>), File(<<"dev", "init">>, 1), File(<<"init">>, 1) >>

BootDevices ==
  << [path |-> <<"dev", "log">>, kind |-> "log"],
     [path |-> <<"dev", "terminal">>, kind |-> "terminal"],
     [path |-> <<"dev", "null">>, kind |-> "null"],
     [path |-> <<"dev", "zero">>, kind |-> "zero"] >>

Ask(path, directory) == [path |-> path, dir |-> directory]

FewAsks == {Ask(<<"bin", "init">>, FALSE), Ask(<<"bin">>, TRUE)}
AllAsks ==
  {Ask(TarMembers[i].name, d) : i \in DOMAIN TarMembers, d \in BOOLEAN}
    \union {Ask(BootDevices[i].path, FALSE) : i \in DOMAIN BootDevices}
    \union {Ask(<<"dev", "ram0">>, FALSE), Ask(<<>>, TRUE), Ask(<<"dev", "log", "init">>, FALSE)}

InitAsks == [p \in Process |-> IF p = InitProcess THEN AllAsks ELSE FewAsks]
AskFew == [p \in Process |-> FewAsks]
OneEach == [p \in Process |-> IF p = InitProcess THEN 4 ELSE 1]
Offsets == {-1, 1}

ASSUME TarAssumption == TarOrder
===============================================================================
