------------------------------ MODULE MemoryMaps ------------------------------
(***************************************************************************)
(* How the injector finds a function in another process (maps.cpp and the  *)
(* lookups of inject/utils.cpp): it takes the address of the function in   *)
(* its own copy of the library and moves it by the distance of the two     *)
(* copies.                                                                 *)
(*                                                                         *)
(* A mapping keeps the file it comes from and the library name that the    *)
(* path ends with: the code knows only the latter, and two files may share *)
(* it (path.ends_with is not anchored at a slash).                         *)
(***************************************************************************)
EXTENDS Integers, Sequences

CONSTANTS
    Files,      \* mapped files
    Modules,    \* library names looked for: libc.so, libdl.so
    LibraryOf   \* the file that the linker loads for each of them

ASSUME MapsAssumption == LibraryOf \in [Modules -> Files]

Null == 0

Mappings == [file : Files, suffix : Modules, offset : Nat, exec : BOOLEAN, start : Nat \ {Null}]

\* MapInfo::Scan: a process that is gone has no mappings.
Scan(maps, alive) == IF alive THEN maps ELSE <<>>

\* Where the first of the matching mappings starts; Null without one.
FirstStart(maps, matching) ==
    LET first == {i \in matching : \A j \in matching : i <= j}
    IN  IF first = {} THEN Null ELSE maps[CHOOSE i \in first : TRUE].start

FindModuleBase(maps, module) ==
    FirstStart(maps, {i \in DOMAIN maps : maps[i].offset = 0 /\ maps[i].suffix = module})

\* A page of the library that cannot be executed: a function that returns
\* there faults at a known address.
FindModuleReturnAddr(maps, module) ==
    FirstStart(maps, {i \in DOMAIN maps : ~maps[i].exec /\ maps[i].suffix = module})

\* Where a symbol of the library really is: what dlsym says in the process.
SymbolAddr(maps, module, offset) ==
    LET image == FirstStart(maps, {i \in DOMAIN maps : maps[i].offset = 0 /\ maps[i].file = LibraryOf[module]})
    IN  IF image = Null THEN Null ELSE image + offset

FindFuncAddr(local, remote, module, offset) ==
    LET localBase  == FindModuleBase(local, module)
        remoteBase == FindModuleBase(remote, module)
    IN  IF Null \in {SymbolAddr(local, module, offset), localBase, remoteBase} THEN Null
        ELSE remoteBase + (SymbolAddr(local, module, offset) - localBase)
=============================================================================
