------------------------------ MODULE MCInjector ------------------------------
(* Small instances of Injector for TLC. *)
EXTENDS Injector

Lib(file, suffix, start) ==
    <<[file |-> file, suffix |-> suffix, offset |-> 0, exec |-> FALSE, start |-> start],
      [file |-> file, suffix |-> suffix, offset |-> 1, exec |-> TRUE, start |-> start + 1]>>

McModules   == {"libc.so", "libdl.so"}
McFiles     == {"libc", "libdl", "mylibc", "mylibdl"}
McLibraryOf == [m \in McModules |-> IF m = "libc.so" THEN "libc" ELSE "libdl"]

McLocalMap == Lib("libc", "libc.so", 10) \o Lib("libdl", "libdl.so", 20)

\* As usual; with a file before each library whose name ends like it; without
\* libdl.so; and unreadable.
McRemoteMaps ==
    {Lib("libdl", "libdl.so", 30) \o Lib("libc", "libc.so", 40),
     Lib("mylibc", "libc.so", 30) \o Lib("libc", "libc.so", 40) \o Lib("libdl", "libdl.so", 50),
     Lib("libc", "libc.so", 30) \o Lib("mylibdl", "libdl.so", 40) \o Lib("libdl", "libdl.so", 50),
     Lib("libc", "libc.so", 30),
     <<>>}

McOffset == [c \in LibcCalls \cup LibdlCalls |-> 1]
McAnyCall == Calls
=============================================================================
