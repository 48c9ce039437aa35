------------------------------- MODULE Injector -------------------------------
(***************************************************************************)
(* The injector (inject/main.cpp, inject/utils.cpp): it attaches to the    *)
(* main thread of keystore2 with ptrace, makes that thread call socket,    *)
(* bind, recvmsg, close, android_dlopen_ext, dlsym and the entry point of  *)
(* the library one after the other, restores its registers and detaches.   *)
(*                                                                         *)
(* A call is made by setting the registers and letting the thread run; it  *)
(* is over when the thread faults at the return address that it was given. *)
(* Other signals may stop the thread, and keystore2 may be killed, at any  *)
(* time.  remote_call returns 0 when it fails, as the called function may. *)
(*                                                                         *)
(* Of the values only what the code compares is kept: 0, -1 and others.    *)
(* Writing to the thread's stack fails only when the process is gone, and  *)
(* so do PTRACE_SETREGS and PTRACE_CONT on a stopped thread.  A call that  *)
(* goes to a wrong address may fault there or return any value; it is      *)
(* taken to leave the socket, the descriptor and the library alone.        *)
(***************************************************************************)
EXTENDS MemoryMaps

CONSTANTS
    None,
    LocalMap,     \* mappings of the injector
    RemoteMaps,   \* the mappings that keystore2 may have
    Offset,       \* of each called libc and libdl function in its library
    MaxSignals,   \* other signals that reach the thread while it is traced
    MayFail,      \* "local": a local system call; "send": sendmsg
    MayCrash      \* called functions that may fault or never return

VARIABLES
    pc,          \* next step of the injector
    waiting,     \* it waits in remote_post_call
    result,      \* what inject_library returns
    attached,    \* the thread is traced
    thread,      \* main thread of keystore2
    stop,        \* the signal that a stopped thread reports
    pendingStop, \* the SIGSTOP of PTRACE_ATTACH is still to be delivered
    regs,        \* whose registers the thread has: its own or a call's
    callee,      \* the function it executes for the injector
    wedged,      \* that function never returns: its signal comes again and again
    value,       \* what that function returned
    sock,        \* the socket that the injector had it open
    libFd,       \* it holds the descriptor of the library
    lib,         \* the library in its address space
    maps,        \* its mappings
    signals,     \* other signals that have stopped it
    crashed      \* calls that faulted before they returned

injectorVars == <<pc, waiting, result>>
threadVars   == <<attached, thread, stop, pendingStop, regs, callee, wedged>>
processVars  == <<value, sock, libFd, lib>>
vars         == <<injectorVars, threadVars, processVars, maps, signals, crashed>>

\* The calls, named by the function and, where it is called more than once,
\* by the place.
LibcCalls == {"socket", "socketErrno", "bind", "recvmsg", "errno", "closeSocket",
              "closeAbandoned", "closeLib", "strlen"}
LibdlCalls == {"dlopen", "dlsym", "dlerror"}
Calls == LibcCalls \cup LibdlCalls \cup {"entry"}

Steps == {"main", "attach", "wait", "prepare", "transfer", "sendmsg", "cmsg", "restore",
          "detach", "exit", "done"} \cup Calls

Values == {"zero", "error", "other"}    \* error is -1

Stops == {"SIGSTOP", "return", "crash", "signal"}   \* return and crash are SIGSEGV

ASSUME InjectorAssumption ==
    /\ LocalMap \in Seq(Mappings) /\ RemoteMaps \subseteq Seq(Mappings)
    /\ {"libc.so", "libdl.so"} \subseteq Modules
    /\ Offset \in [LibcCalls \cup LibdlCalls -> Nat]
    /\ MaxSignals \in Nat
    /\ MayFail \subseteq {"local", "send"}
    /\ MayCrash \subseteq Calls
    /\ None \notin BOOLEAN /\ None \notin Calls \cup Stops \cup Values

TypeOK ==
    /\ pc \in Steps
    /\ waiting \in BOOLEAN /\ (waiting => pc \in Calls)
    /\ result \in {TRUE, FALSE, None}
    /\ attached \in BOOLEAN
    /\ thread \in {"running", "stopped", "held", "dead"}
    /\ stop \in Stops \cup {None} /\ (thread = "stopped" <=> stop # None)
    /\ pendingStop \in BOOLEAN
    /\ regs \in {"own", "call"} /\ (callee # None => regs = "call")
    /\ callee \in Calls \cup {None}
    /\ wedged \in BOOLEAN /\ (wedged => callee # None)
    /\ value \in Values \cup {None}
    /\ sock \in {"none", "open", "bound", "full"}
    /\ libFd \in BOOLEAN
    /\ lib \in {"absent", "loaded", "hooked"}
    /\ maps \in RemoteMaps
    /\ signals \in 0..MaxSignals
    /\ crashed \subseteq Calls

-----------------------------------------------------------------------------
(* Resolving the functions *)

ModuleOf(c) == IF c \in LibdlCalls THEN "libdl.so" ELSE "libc.so"

\* The injector looks every function up in the maps it scanned first; the
\* entry point is what the target's own dlsym returned.
Resolved(c) == c \in DOMAIN Offset => FindFuncAddr(LocalMap, maps, ModuleOf(c), Offset[c]) # Null

Misdirected(c) ==
    /\ c \in DOMAIN Offset
    /\ FindFuncAddr(LocalMap, maps, ModuleOf(c), Offset[c]) # SymbolAddr(maps, ModuleOf(c), Offset[c])

\* The entry point that a misdirected dlsym returned is anything.
Astray(c) == Misdirected(c) \/ (c = "entry" /\ Misdirected("dlsym"))

-----------------------------------------------------------------------------
(* Attaching *)

Alive == thread # "dead"

\* get_regs and set_regs: ptrace reaches a stopped thread only.
RegsAccessible == thread = "stopped"

\* read_proc and write_proc: also while the thread runs.
MemoryAccessible == Alive

Goto(step) == pc' = step /\ UNCHANGED <<waiting, result>>

\* return false: the destructor of PtraceAttachment runs next.
ReturnFalse == pc' = "detach" /\ waiting' = FALSE /\ result' = FALSE

\* The arguments: pidof may have found no process, the library may be missing.
Main ==
    /\ pc = "main"
    /\ Goto("attach") \/ ReturnFalse
    /\ UNCHANGED <<threadVars, processVars, maps, signals, crashed>>

\* PTRACE_ATTACH sends SIGSTOP to the thread.
Attach ==
    /\ pc = "attach"
    /\ \/ /\ Alive
          /\ attached' = TRUE
          /\ pendingStop' = TRUE
          /\ Goto("wait")
       \/ ReturnFalse /\ UNCHANGED <<attached, pendingStop>>
    /\ UNCHANGED <<thread, stop, regs, callee, wedged, processVars, maps, signals, crashed>>

\* Mutant: waitpid does not wait (WNOHANG).
WaitNoHang ==
    /\ pc = "wait"
    /\ IF stop = "SIGSTOP" THEN Goto("prepare") ELSE ReturnFalse
    /\ UNCHANGED <<threadVars, processVars, maps, signals, crashed>>

\* wait_for_trace and the check of the signal: another one ends it.
WaitForStop ==
    /\ pc = "wait"
    /\ thread \in {"stopped", "dead"}
    /\ IF stop = "SIGSTOP" THEN Goto("prepare") ELSE ReturnFalse
    /\ UNCHANGED <<threadVars, processVars, maps, signals, crashed>>

\* Backing up the registers and scanning the maps.
Prepare ==
    /\ pc = "prepare"
    /\ IF RegsAccessible /\ FindModuleReturnAddr(Scan(maps, Alive), "libc.so") # Null
       THEN Goto("transfer") ELSE ReturnFalse
    /\ UNCHANGED <<threadVars, processVars, maps, signals, crashed>>

\* What transfer_fd_to_remote does before the first remote call; a failure of
\* setfilecon is only logged.
PrepareTransfer ==
    /\ pc = "transfer"
    /\ \/ Resolved("socket") /\ Goto("socket")
       \/ ~Resolved("socket") /\ ReturnFalse
       \/ "local" \in MayFail /\ ReturnFalse
    /\ UNCHANGED <<threadVars, processVars, maps, signals, crashed>>

-----------------------------------------------------------------------------
(* Remote calls *)

\* Where the injector goes on with the value of a call: detach is return
\* false.  Only socket, bind and recvmsg are checked against -1, only dlopen,
\* dlsym and dlerror against 0.
TransferFdToRemote ==
    [socket         |-> [zero |-> "bind",    error |-> "socketErrno", other |-> "bind"],
     socketErrno    |-> [v \in Values |-> "detach"],
     bind           |-> [zero |-> "recvmsg", error |-> "errno",       other |-> "recvmsg"],
     recvmsg        |-> [zero |-> "cmsg",    error |-> "errno",       other |-> "cmsg"],
     errno          |-> [v \in Values |-> "closeAbandoned"],
     closeAbandoned |-> [v \in Values |-> "detach"],
     closeSocket    |-> [v \in Values |-> "dlopen"]]

GetRemoteDlerror ==
    [dlerror |-> [zero |-> "detach", error |-> "strlen", other |-> "strlen"],
     strlen  |-> [v \in Values |-> "detach"]]

RemoteDlopen(v) == IF v = "zero" THEN "dlerror" ELSE "closeLib"

RemoteFindEntry(v) == IF v = "zero" THEN "dlerror" ELSE "entry"

RemoteCallEntry(v) == "restore"

Continuation(c, v) ==
    CASE c \in DOMAIN TransferFdToRemote -> TransferFdToRemote[c][v]
      [] c \in DOMAIN GetRemoteDlerror -> GetRemoteDlerror[c][v]
      [] c = "dlopen" -> RemoteDlopen(v)
      [] c = "closeLib" -> "dlsym"
      [] c = "dlsym" -> RemoteFindEntry(v)
      [] c = "entry" -> RemoteCallEntry(v)

\* Mutant: the results of dlopen and dlsym are used unchecked.
ContinueUnchecked(c, v) ==
    /\ pc' = Continuation(c, IF c \in {"dlopen", "dlsym"} THEN "other" ELSE v)
    /\ waiting' = FALSE
    /\ result' = IF pc' = "detach" THEN FALSE ELSE result

Continue(c, v) ==
    /\ pc' = Continuation(c, v)
    /\ waiting' = FALSE
    /\ result' = IF pc' = "detach" THEN FALSE ELSE result

\* remote_pre_call: recvmsg is not waited for, the message is sent first.
RemotePreCall(c) ==
    /\ pc = c /\ ~waiting
    /\ Resolved(c)
    /\ RegsAccessible
    /\ thread' = "running"
    /\ stop' = None
    /\ regs' = "call"
    /\ callee' = c
    /\ wedged' = FALSE
    /\ value' = None
    /\ IF c = "recvmsg" THEN Goto("sendmsg") ELSE pc' = c /\ waiting' = TRUE /\ UNCHANGED result
    /\ UNCHANGED <<attached, pendingStop, sock, libFd, lib, maps, signals, crashed>>

\* The thread is gone, or not stopped: the call counts as one that returned 0.
RemotePreCallFails(c) ==
    /\ pc = c /\ ~waiting
    /\ Resolved(c)
    /\ ~RegsAccessible
    /\ IF c = "recvmsg" THEN Goto("closeAbandoned") ELSE Continue(c, "zero")
    /\ UNCHANGED <<threadVars, processVars, maps, signals, crashed>>

\* remote_dlopen returns before any call when libdl.so is not mapped.
DlopenUnresolved ==
    /\ pc = "dlopen" /\ ~waiting
    /\ ~Resolved("dlopen")
    /\ ReturnFalse
    /\ UNCHANGED <<threadVars, processVars, maps, signals, crashed>>

\* remote_post_call, when the call is over one way or another.
RemotePostCall(c) ==
    /\ pc = c /\ waiting
    /\ thread = "dead" \/ stop \in {"return", "crash"}
    /\ Continue(c, IF stop = "return" THEN value ELSE "zero")
    /\ UNCHANGED <<threadVars, processVars, maps, signals, crashed>>

\* Mutant: the thread is continued and its last status looked at again.
SuppressWithoutWait(c) ==
    /\ pc = c /\ waiting
    /\ stop = "signal"
    /\ thread' = "running"
    /\ UNCHANGED <<injectorVars, stop, attached, pendingStop, regs, callee, wedged, processVars, maps, signals, crashed>>

\* Any other signal is suppressed, whatever it is.
SuppressSignal(c) ==
    /\ pc = c /\ waiting
    /\ stop = "signal"
    /\ thread' = "running"
    /\ stop' = None
    /\ UNCHANGED <<injectorVars, attached, pendingStop, regs, callee, wedged, processVars, maps, signals, crashed>>

SendMsg ==
    /\ pc = "sendmsg"
    /\ \/ /\ Alive /\ sock = "bound"
          /\ sock' = "full"
          /\ pc' = "recvmsg" /\ waiting' = TRUE /\ UNCHANGED result
       \/ /\ "send" \in MayFail \/ ~Alive \/ sock # "bound"
          /\ Goto("closeAbandoned")
          /\ UNCHANGED sock
    /\ UNCHANGED <<threadVars, value, libFd, lib, maps, signals, crashed>>

\* Mutant: the socket is closed on the failure paths only.
ReadKeepingSocket ==
    /\ pc = "cmsg"
    /\ Goto(IF MemoryAccessible /\ libFd THEN "dlopen" ELSE "closeAbandoned")
    /\ UNCHANGED <<threadVars, processVars, maps, signals, crashed>>

\* The control message must carry a descriptor.
ReadControlMessage ==
    /\ pc = "cmsg"
    /\ Goto(IF MemoryAccessible /\ libFd THEN "closeSocket" ELSE "closeAbandoned")
    /\ UNCHANGED <<threadVars, processVars, maps, signals, crashed>>

-----------------------------------------------------------------------------
(* Leaving *)

\* Mutant: the registers are not restored.
RestoreNothing ==
    /\ pc = "restore"
    /\ pc' = "detach" /\ waiting' = FALSE
    /\ result' = RegsAccessible
    /\ UNCHANGED <<threadVars, processVars, maps, signals, crashed>>

\* set_regs(backup_regs), on the way to success only.
Restore ==
    /\ pc = "restore"
    /\ pc' = "detach" /\ waiting' = FALSE
    /\ result' = RegsAccessible
    /\ regs' = IF RegsAccessible THEN "own" ELSE regs
    /\ callee' = IF RegsAccessible THEN None ELSE callee
    /\ UNCHANGED <<attached, thread, stop, pendingStop, wedged, processVars, maps, signals, crashed>>

\* PTRACE_DETACH fails on a thread that is not stopped.
Detach ==
    /\ pc = "detach"
    /\ Goto("exit")
    /\ \/ /\ thread = "stopped"
          /\ attached' = FALSE
          /\ thread' = "running"
          /\ stop' = None
       \/ thread # "stopped" /\ UNCHANGED <<attached, thread, stop>>
    /\ UNCHANGED <<pendingStop, regs, callee, wedged, processVars, maps, signals, crashed>>

\* The kernel detaches from what the injector still traces.
Exit ==
    /\ pc = "exit"
    /\ Goto("done")
    /\ attached' = FALSE
    /\ thread' = IF thread = "stopped" THEN "running" ELSE thread
    /\ stop' = None
    /\ UNCHANGED <<pendingStop, regs, callee, wedged, processVars, maps, signals, crashed>>

Inject ==
    \/ Main \/ Attach \/ WaitForStop \/ Prepare \/ PrepareTransfer
    \/ \E c \in Calls : RemotePreCall(c) \/ RemotePreCallFails(c) \/ RemotePostCall(c) \/ SuppressSignal(c)
    \/ DlopenUnresolved \/ SendMsg \/ ReadControlMessage
    \/ Restore \/ Detach \/ Exit

-----------------------------------------------------------------------------
(* keystore2 and the kernel *)

\* What the called functions do and return.  recvmsg blocks on a socket that
\* has no message; it may receive the message without the descriptor.
SocketFunction(c, v) ==
    \/ /\ c = "socket" /\ v \in {"other", "error"}
       /\ sock' = IF v = "other" THEN "open" ELSE sock
       /\ UNCHANGED <<libFd, lib>>
    \/ /\ c = "bind" /\ v \in {"error"} \cup IF sock = "open" THEN {"zero"} ELSE {}
       /\ sock' = IF v = "zero" THEN "bound" ELSE sock
       /\ UNCHANGED <<libFd, lib>>
    \/ /\ c = "recvmsg" /\ sock = "full"
       /\ \/ v = "zero" /\ libFd' \in BOOLEAN
          \/ v = "error" /\ UNCHANGED libFd
       /\ sock' = "bound"
       /\ UNCHANGED lib
    \/ /\ c = "recvmsg" /\ sock = "none" /\ v = "error"
       /\ UNCHANGED <<sock, libFd, lib>>

CloseFunction(c, v) ==
    /\ v = "zero"
    /\ \/ c \in {"closeSocket", "closeAbandoned"} /\ sock' = "none" /\ UNCHANGED libFd
       \/ c = "closeLib" /\ libFd' = FALSE /\ UNCHANGED sock
    /\ UNCHANGED lib

LinkerFunction(c, v) ==
    /\ \/ /\ c = "dlopen" /\ v \in {"zero"} \cup IF libFd THEN {"other"} ELSE {}
          /\ lib' = IF v = "other" THEN "loaded" ELSE lib
       \/ c \in {"dlsym", "dlerror", "strlen"} /\ v \in {"zero", "other"} /\ UNCHANGED lib
       \/ c \in {"socketErrno", "errno"} /\ v = "other" /\ UNCHANGED lib
    /\ UNCHANGED <<sock, libFd>>

\* entry and initializeBinderInterception: true when the hook is installed.
Entry(v) ==
    /\ v \in {"zero", "other"}
    /\ lib' = IF v = "other" THEN "hooked" ELSE lib
    /\ UNCHANGED <<sock, libFd>>

Executes(c, v) ==
    \/ SocketFunction(c, v) \/ CloseFunction(c, v) \/ LinkerFunction(c, v)
    \/ c = "entry" /\ Entry(v)

\* The thread reaches the return address, which it may not execute.
FunctionReturns ==
    /\ attached /\ thread = "running"
    /\ callee # None /\ ~wedged
    /\ \E v \in Values :
         /\ IF Astray(callee) THEN UNCHANGED <<sock, libFd, lib>> ELSE Executes(callee, v)
         /\ value' = v
    /\ thread' = "stopped"
    /\ stop' = "return"
    /\ callee' = None
    /\ UNCHANGED <<injectorVars, attached, pendingStop, regs, wedged, maps, signals, crashed>>

\* The entry point may have installed its hook before it faults.
Faulty(c) ==
    /\ c \in MayCrash \/ Astray(c)
    /\ lib' \in {lib} \cup IF c = "entry" /\ ~Astray(c) THEN {"hooked"} ELSE {}

\* SIGSEGV; without a tracer any signal of this kind kills keystore2.
FunctionCrashes ==
    /\ thread = "running"
    /\ callee # None
    /\ attached => ~wedged
    /\ Faulty(callee)
    /\ thread' = IF attached THEN "stopped" ELSE "dead"
    /\ stop' = IF attached THEN "crash" ELSE None
    /\ callee' = None
    /\ wedged' = FALSE
    /\ crashed' = crashed \cup {callee}
    /\ UNCHANGED <<injectorVars, attached, pendingStop, regs, value, sock, libFd, maps, signals>>

\* SIGILL or SIGBUS: the injector takes it for another signal and suppresses
\* it, the instruction is executed again, and so is the signal sent.
FunctionWedges ==
    /\ attached /\ thread = "running"
    /\ callee # None
    /\ Faulty(callee)
    /\ wedged' = TRUE
    /\ thread' = "stopped"
    /\ stop' = "signal"
    /\ UNCHANGED <<injectorVars, attached, pendingStop, regs, callee, value, sock, libFd, maps, signals, crashed>>

\* SIGSTOP stops a traced thread for its tracer, any other with its process.
StopDelivered ==
    /\ pendingStop /\ thread = "running"
    /\ pendingStop' = FALSE
    /\ thread' = IF attached THEN "stopped" ELSE "held"
    /\ stop' = IF attached THEN "SIGSTOP" ELSE None
    /\ UNCHANGED <<injectorVars, attached, regs, callee, wedged, processVars, maps, signals, crashed>>

SignalArrives ==
    /\ attached /\ thread = "running"
    /\ signals < MaxSignals
    /\ signals' = signals + 1
    /\ thread' = "stopped"
    /\ stop' = "signal"
    /\ UNCHANGED <<injectorVars, attached, pendingStop, regs, callee, wedged, processVars, maps, crashed>>

\* Left at the end of a call, the thread faults for good.
Doomed == ~attached /\ thread = "running" /\ regs = "call" /\ callee = None

Faults ==
    /\ Doomed
    /\ thread' = "dead"
    /\ UNCHANGED <<injectorVars, attached, stop, pendingStop, regs, callee, wedged, processVars, maps, signals, crashed>>

Killed ==
    /\ Alive
    /\ thread' = "dead"
    /\ stop' = None
    /\ UNCHANGED <<injectorVars, attached, pendingStop, regs, callee, wedged, processVars, maps, signals, crashed>>

Kernel == FunctionReturns \/ FunctionCrashes \/ FunctionWedges \/ StopDelivered \/ Faults

-----------------------------------------------------------------------------
Init ==
    /\ pc = "main" /\ waiting = FALSE /\ result = None
    /\ attached = FALSE /\ thread = "running" /\ stop = None /\ pendingStop = FALSE
    /\ regs = "own" /\ callee = None /\ wedged = FALSE
    /\ value = None /\ sock = "none" /\ libFd = FALSE /\ lib = "absent"
    /\ maps \in RemoteMaps
    /\ signals = 0 /\ crashed = {}

Next == Inject \/ Kernel \/ SignalArrives \/ Killed

\* The injector runs, and so does a thread that is not stopped.
Spec == Init /\ [][Next]_vars /\ WF_vars(Inject) /\ WF_vars(Kernel)

-----------------------------------------------------------------------------
(* Properties *)

\* The injector works on the thread and has not succeeded.
AtWork == attached /\ pc # "exit" /\ result # TRUE

\* The condition of keystore2, as InjectCommand names it.
TargetCondition ==
    CASE thread = "dead" -> "dead"
      [] Alive /\ regs = "own" /\ lib # "absent" -> lib
      [] Alive /\ ~(regs = "own" /\ lib # "absent") /\ AtWork ->
            IF wedged /\ waiting THEN "wedged" ELSE "busy"
      [] Alive /\ ~AtWork /\ regs = "own" /\ lib = "absent" ->
            IF pendingStop \/ thread = "held" THEN "held" ELSE "own"
      [] Alive /\ ~AtWork /\ regs = "call" ->
            IF callee # None THEN "stuck" ELSE "doomed"

ExitCode == IF pc # "done" THEN None ELSE IF result THEN 0 ELSE 1

Command == INSTANCE InjectCommand WITH
    target  <- TargetCondition,
    verdict <- result,
    exit    <- ExitCode

\* The injector implements InjectCommand: whatever call fails, crashes, goes
\* astray or is interrupted, and whenever keystore2 dies, it comes to an end
\* with one verdict unless it waits for a call that never returns, success
\* only with the thread back in its own code, failure only with keystore2
\* untouched, stopped or lost for good (main.cpp:357-437, utils.cpp:298-465).
ImplementsCommand == Command!InjectSpec

\* A failed injection that leaves keystore2 in its own code has left nothing
\* behind in it, although no failure path restores anything
\* (main.cpp:85-226, 394-433); a successful one closed its descriptors
\* (main.cpp:224, 409-415), unless the call to close faulted, which
\* remote_call does not tell from success (utils.cpp:429-443).
NothingLeftBehind ==
    /\ result = FALSE /\ regs = "own" => sock = "none" /\ ~libFd /\ lib = "absent"
    /\ result = TRUE => /\ sock = "none" \/ "closeSocket" \in crashed
                        /\ ~libFd \/ "closeLib" \in crashed

\* What success tells the daemon: the functions of libc were the ones meant,
\* for a call that goes astray cannot have bound the socket that sendmsg
\* reaches, and the library is loaded unless a file whose name ends like
\* libdl.so was taken for it.  Nothing checks that case: a wrong dlopen and a
\* wrong dlsym need only return something that is not 0 (utils.cpp:154-213,
\* main.cpp:224-226, 318-321).
SuccessMeansLoaded ==
    result = TRUE => /\ \A c \in LibcCalls : ~Misdirected(c)
                     /\ lib = "absent" => Misdirected("dlopen")

\* keystore2 is left stopped only when another signal reached the thread
\* before the SIGSTOP of PTRACE_ATTACH did (main.cpp:371-374).
HeldBySignalOnly == thread = "held" => signals > 0
=============================================================================
