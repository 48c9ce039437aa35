---------------------------- MODULE InjectorProofs ----------------------------
(***************************************************************************)
(* Proofs about Injector, for all mappings, offsets and numbers of         *)
(* signals, and whatever calls fail, fault or go astray: what an injection *)
(* leaves in keystore2, what a success means, and that every step is one   *)
(* of InjectCommand or none.                                               *)
(***************************************************************************)
EXTENDS Injector, TLAPS

\* The types of TypeOK, those of the truth values apart.
TruthValues ==
    /\ waiting \in BOOLEAN /\ attached \in BOOLEAN /\ pendingStop \in BOOLEAN /\ libFd \in BOOLEAN
    /\ wedged \in BOOLEAN
    /\ result \in {TRUE, FALSE, None}

Typed ==
    /\ pc \in Steps
    /\ waiting => pc \in Calls
    /\ thread \in {"running", "stopped", "held", "dead"}
    /\ stop \in Stops \cup {None}
    /\ thread = "stopped" <=> stop # None
    /\ regs \in {"own", "call"}
    /\ callee # None => regs = "call"
    /\ callee \in Calls \cup {None}
    /\ wedged => callee # None
    /\ value \in Values \cup {None}
    /\ sock \in {"none", "open", "bound", "full"}
    /\ lib \in {"absent", "loaded", "hooked"}
    /\ maps \in RemoteMaps
    /\ signals \in 0..MaxSignals
    /\ crashed \subseteq Calls

\* inject_library has not returned yet; it has returned true.
Unfinished == result = None
Succeeded  == result = TRUE

\* A call to the function of that name gets there.
Reached(c) == Resolved(c) /\ ~Misdirected(c)

\* The injector goes on with these only after the library was received, after
\* it was loaded, and after its descriptor was closed.
AfterReceipt == {"closeSocket", "dlopen", "closeLib", "dlsym", "entry", "restore"}
AfterLoading == {"closeLib", "dlsym", "entry", "restore"}
AfterClosing == {"dlsym", "entry", "restore"}

\* The thread is traced while the injector works on it; the result is there
\* when it leaves.
Phases ==
    /\ pc \in {"main", "attach", "done"} => ~attached
    /\ pc \notin {"main", "attach", "detach", "exit", "done"} => attached
    /\ thread = "stopped" => attached
    /\ Unfinished <=> pc \notin {"detach", "exit", "done"}
    /\ Succeeded => ~Unfinished

\* Until the first call the thread has its own registers; they come back only
\* with success, so a thread that has them in any other case was never used.
OwnRegisters ==
    /\ pc \in {"main", "attach", "wait", "prepare", "transfer"} => regs = "own"
    /\ regs = "own" =>
         /\ callee = None /\ ~waiting
         /\ \/ pc \in {"main", "attach", "wait", "prepare", "transfer", "socket", "detach", "exit", "done"}
            \/ ~Alive /\ pc \in {"bind", "recvmsg", "closeAbandoned"}
         /\ Succeeded \/ (sock = "none" /\ ~libFd /\ lib = "absent")

\* The SIGSTOP of PTRACE_ATTACH is outstanding only while the injector waits
\* for it, or after it gave up because of another signal or a death.
OutstandingStop ==
    /\ pendingStop =>
         /\ regs = "own" /\ ~Succeeded
         /\ pc \in {"wait", "detach", "exit", "done"}
         /\ attached /\ Alive => pc = "wait" \/ (pc = "detach" /\ thread = "stopped")
         /\ pc # "wait" => ~Alive \/ signals > 0
    /\ stop = "SIGSTOP" => ~pendingStop
    /\ stop = "signal" => signals > 0 \/ wedged
    /\ pc = "wait" => stop \in {None, "SIGSTOP", "signal"}
    /\ thread = "held" => ~attached /\ regs = "own" /\ signals > 0 /\ pc \in {"detach", "exit", "done"}

\* A traced thread runs only before its first stop or in a call.
RunsInCall ==
    attached /\ thread = "running" =>
        /\ regs = "own" => pc = "wait"
        /\ regs = "call" => callee # None
        /\ waiting \/ pc \in {"wait", "sendmsg", "closeAbandoned", "detach", "exit"}

\* A call that is over returned or faulted; the ones whose value is used have
\* had their effect.
CallEffect(c) ==
    /\ c = "closeSocket" => sock = "none"
    /\ c = "closeLib" => ~libFd
    /\ c = "dlopen" /\ value # "zero" => lib # "absent"

InCall(c) ==
    /\ Resolved(c)
    /\ Alive => \/ callee = c /\ (thread = "running" \/ stop = "signal")
                \/ callee = None /\ stop = "crash" /\ c \in crashed
                \/ callee = None /\ stop = "return" /\ (Astray(c) \/ CallEffect(c))

CallsInProgress ==
    /\ waiting => InCall(pc)
    /\ pc = "sendmsg" => InCall("recvmsg")
    /\ stop = "return" => value \in Values
    /\ callee # None => Resolved(callee)
    /\ callee # None /\ Alive =>
         \/ waiting /\ callee = pc
         \/ callee = "recvmsg" /\ pc \in {"sendmsg", "closeAbandoned", "detach", "exit", "done"}

\* What keystore2 holds shows which calls got there, and how far it came.
Progress ==
    /\ libFd => Reached("recvmsg")
    /\ pc \in AfterReceipt => Reached("recvmsg")
    /\ pc \in AfterReceipt \ {"closeSocket"} /\ Alive => sock = "none" \/ "closeSocket" \in crashed
    /\ pc \in AfterLoading /\ Alive => lib # "absent" \/ Misdirected("dlopen")
    /\ pc \in AfterClosing /\ Alive => ~libFd \/ "closeLib" \in crashed

\* Success: the thread has its registers, the descriptors are closed and the
\* library is there.
Success ==
    Succeeded =>
        /\ regs = "own"
        /\ sock = "none" \/ "closeSocket" \in crashed
        /\ ~libFd \/ "closeLib" \in crashed
        /\ Reached("recvmsg")
        /\ lib # "absent" \/ Misdirected("dlopen")

IInv ==
    /\ TruthValues /\ Typed /\ Phases /\ OwnRegisters /\ OutstandingStop /\ RunsInCall
    /\ CallsInProgress /\ Progress /\ Success

-----------------------------------------------------------------------------
(* Addresses and continuations *)

\* The place where a library starts is a number.
LEMMA FirstStartNat ==
    ASSUME NEW ms \in Seq(Mappings), NEW S \in SUBSET DOMAIN ms
    PROVE  FirstStart(ms, S) \in Nat
  <1> DEFINE first == {i \in S : \A j \in S : i <= j}
  <1>1. CASE first = {}
    BY <1>1 DEF FirstStart, Null
  <1>2. CASE first # {}
    <2>1. (CHOOSE i \in first : TRUE) \in DOMAIN ms
      BY <1>2
    <2>2. ms[CHOOSE i \in first : TRUE] \in Mappings
      BY <2>1
    <2>3. ms[CHOOSE i \in first : TRUE].start \in Nat
      BY <2>2 DEF Mappings
    <2> QED BY <2>3, <1>2 DEF FirstStart
  <1> QED BY <1>1, <1>2

\* Functions of one library are found or missed together: when one call gets
\* to the function it is meant for, so does every call into that library,
\* because find_func_addr moves all by the same distance (utils.cpp:168-213).
LEMMA SameDistance ==
    ASSUME Typed, NEW c \in LibcCalls \cup LibdlCalls, NEW d \in LibcCalls \cup LibdlCalls,
           ModuleOf(c) = ModuleOf(d), Reached(c)
    PROVE  Reached(d)
  <1> DEFINE m == ModuleOf(c)
             base(ms) == FindModuleBase(ms, m)
             image(ms) == FirstStart(ms, {i \in DOMAIN ms : ms[i].offset = 0 /\ ms[i].file = LibraryOf[m]})
  <1>1. LocalMap \in Seq(Mappings) /\ maps \in Seq(Mappings)
    BY InjectorAssumption DEF Typed
  <1>2. base(LocalMap) \in Nat /\ base(maps) \in Nat /\ image(LocalMap) \in Nat /\ image(maps) \in Nat
    BY <1>1, FirstStartNat DEF FindModuleBase
  <1>3. Offset[c] \in Nat /\ Offset[d] \in Nat /\ c \in DOMAIN Offset /\ d \in DOMAIN Offset
    BY InjectorAssumption
  <1>4. \A ms, o : SymbolAddr(ms, m, o) = IF image(ms) = Null THEN Null ELSE image(ms) + o
    BY DEF SymbolAddr
  <1>5. \A o : FindFuncAddr(LocalMap, maps, m, o) =
               IF Null \in {SymbolAddr(LocalMap, m, o), base(LocalMap), base(maps)} THEN Null
               ELSE base(maps) + (SymbolAddr(LocalMap, m, o) - base(LocalMap))
    BY DEF FindFuncAddr
  <1> HIDE DEF m, base, image
  <1>6. /\ FindFuncAddr(LocalMap, maps, m, Offset[c]) # Null
        /\ FindFuncAddr(LocalMap, maps, m, Offset[c]) = SymbolAddr(maps, m, Offset[c])
    BY <1>3 DEF Reached, Resolved, Misdirected, m
  <1>7. /\ image(LocalMap) > 0 /\ base(LocalMap) > 0 /\ base(maps) > 0 /\ image(maps) > 0
        /\ base(maps) + (image(LocalMap) - base(LocalMap)) = image(maps)
    BY <1>2, <1>3, <1>4, <1>5, <1>6 DEF Null
  <1>8. /\ FindFuncAddr(LocalMap, maps, m, Offset[d]) # Null
        /\ FindFuncAddr(LocalMap, maps, m, Offset[d]) = SymbolAddr(maps, m, Offset[d])
    BY <1>2, <1>3, <1>4, <1>5, <1>7 DEF Null
  <1> QED BY <1>8, <1>3 DEF Reached, Resolved, Misdirected, m

\* The truth values and the absence of a value differ.
LEMMA ResultCases ==
    /\ UNCHANGED result => (Succeeded' <=> Succeeded) /\ (Unfinished' <=> Unfinished)
    /\ result' = FALSE => ~Succeeded' /\ ~Unfinished'
    /\ result' = TRUE => Succeeded' /\ ~Unfinished'
  <1>1. None # TRUE /\ None # FALSE
    BY InjectorAssumption, Zenon
  <1>2. UNCHANGED result => (Succeeded' <=> Succeeded) /\ (Unfinished' <=> Unfinished)
    BY Zenon DEF Succeeded, Unfinished
  <1>3. result' = FALSE => ~Succeeded' /\ ~Unfinished'
    BY <1>1, Zenon DEF Succeeded, Unfinished
  <1>4. result' = TRUE => Succeeded' /\ ~Unfinished'
    BY <1>1, Zenon DEF Succeeded, Unfinished
  <1> QED BY <1>2, <1>3, <1>4, Zenon

\* What a call reaches depends on the mappings only.
LEMMA SameMaps ==
    ASSUME UNCHANGED maps
    PROVE  \A c : /\ (Resolved(c)' <=> Resolved(c)) /\ (Misdirected(c)' <=> Misdirected(c))
                  /\ Astray(c)' <=> Astray(c)
  BY DEF Resolved, Misdirected, Astray

\* Once the library was received, close is what it is taken for.
LEMMA ReachedAfterReceipt ==
    ASSUME Typed, Reached("recvmsg")
    PROVE  \A c \in LibcCalls : ~Misdirected(c) /\ ~Astray(c)
  <1> SUFFICES ASSUME NEW c \in LibcCalls PROVE ~Misdirected(c) /\ ~Astray(c)
    OBVIOUS
  <1>1. "recvmsg" \in LibcCalls /\ ModuleOf("recvmsg") = ModuleOf(c) /\ c # "entry"
    BY DEF ModuleOf, LibcCalls, LibdlCalls
  <1>2. Reached(c)
    BY <1>1, SameDistance
  <1> QED BY <1>1, <1>2 DEF Reached, Astray

\* Each continuation comes from few calls only, and the one that follows
\* dlopen only from a value that is not 0.
Follows(c, v, n) ==
    /\ n \in {"bind", "recvmsg", "socketErrno", "errno", "closeAbandoned", "cmsg", "dlopen", "closeLib",
              "dlsym", "entry", "restore", "dlerror", "strlen", "detach"}
    /\ n = "bind" => c = "socket"
    /\ n = "recvmsg" => c = "bind"
    /\ n = "cmsg" => c = "recvmsg"
    /\ n = "closeAbandoned" => c = "errno"
    /\ n = "dlopen" => c = "closeSocket"
    /\ n = "closeLib" => c = "dlopen" /\ v # "zero"
    /\ n = "dlsym" => c = "closeLib"
    /\ n = "entry" => c = "dlsym"
    /\ n = "restore" => c = "entry"
    /\ n = "socketErrno" => c = "socket" /\ v # "zero"
    /\ n = "strlen" => c = "dlerror" /\ v # "zero"
    /\ n = "dlerror" => c \in {"dlopen", "dlsym"}
    /\ n = "errno" => v # "zero"
    /\ c = "closeAbandoned" => n = "detach"

\* The tables of the code are those continuations (main.cpp:85-226, 229-356).
LEMMA ContinuationFollows ==
    ASSUME NEW c \in Calls, NEW v \in Values
    PROVE  Follows(c, v, Continuation(c, v))
  BY DEF Follows, Continuation, TransferFdToRemote, GetRemoteDlerror, RemoteDlopen, RemoteFindEntry, RemoteCallEntry,
         Calls, LibcCalls, LibdlCalls, Values

-----------------------------------------------------------------------------
(* The steps keep the invariant *)

\* The initial state satisfies the invariant.
LEMMA InitIInv == Init => IInv
  <1> SUFFICES ASSUME Init PROVE IInv
    OBVIOUS
  <1> USE InjectorAssumption DEF Init, Alive
  <1>0. ~Succeeded /\ Unfinished
    BY Zenon DEF Succeeded, Unfinished
  <1>b. TruthValues
    BY Zenon DEF TruthValues
  <1>1. Typed
    BY DEF Typed, Steps, Calls, LibcCalls, LibdlCalls, Stops
  <1>2. Phases /\ OwnRegisters /\ OutstandingStop
    BY <1>0 DEF Phases, OwnRegisters, OutstandingStop, Stops
  <1>3. RunsInCall /\ CallsInProgress
    BY DEF RunsInCall, CallsInProgress, Stops
  <1>4. Progress /\ Success
    BY <1>0 DEF Progress, Success, AfterReceipt, AfterLoading, AfterClosing
  <1> QED BY <1>b, <1>1, <1>2, <1>3, <1>4 DEF IInv

\* Nothing has happened to the thread yet.
LEMMA MainStep == ASSUME IInv, Main PROVE IInv'
  <1> USE InjectorAssumption DEF IInv, Alive, RegsAccessible, MemoryAccessible, Goto, ReturnFalse, injectorVars, threadVars,
          processVars, Main
  <1>0. \A d : (Resolved(d)' <=> Resolved(d)) /\ (Misdirected(d)' <=> Misdirected(d)) /\ (Astray(d)' <=> Astray(d))
    BY SameMaps
  <1>r. \/ pc' # "detach" /\ (Succeeded' <=> Succeeded) /\ (Unfinished' <=> Unfinished)
        \/ pc' = "detach" /\ ~Succeeded' /\ ~Unfinished'
    BY ResultCases, Zenon
  <1>b. TruthValues'
    BY Zenon DEF TruthValues
  <1>1. Typed'
    BY <1>0, <1>r DEF Typed, Phases, OwnRegisters, OutstandingStop, RunsInCall, Steps, Stops, Calls, LibcCalls, LibdlCalls
  <1>2. Phases'
    BY <1>0, <1>r DEF Phases, OwnRegisters, Typed, Stops, Calls, LibcCalls, LibdlCalls
  <1>3. OwnRegisters'
    BY <1>0, <1>r DEF OwnRegisters, Phases, RunsInCall, Typed, Stops, Calls, LibcCalls, LibdlCalls
  <1>4. OutstandingStop'
    BY <1>0, <1>r DEF OutstandingStop, OwnRegisters, Phases, RunsInCall, Typed, Stops, Calls, LibcCalls, LibdlCalls
  <1>5. RunsInCall'
    BY <1>0, <1>r DEF RunsInCall, CallsInProgress, InCall, Phases, OwnRegisters, OutstandingStop, Typed, Stops, Calls, LibcCalls, LibdlCalls
  <1>6. CallsInProgress'
    BY <1>0, <1>r DEF CallsInProgress, InCall, CallEffect, Phases, OwnRegisters, OutstandingStop,
       RunsInCall, Typed, Stops, Calls, LibcCalls, LibdlCalls
  <1>7. Progress'
    BY <1>0, <1>r DEF Progress, CallsInProgress, InCall, CallEffect, Reached, AfterReceipt, AfterLoading, AfterClosing,
       Phases, OwnRegisters, RunsInCall, OutstandingStop, Typed, Stops, Calls, LibcCalls, LibdlCalls
  <1>8. Success'
    BY <1>0, <1>r DEF Success, Progress, AfterReceipt, AfterLoading, AfterClosing, Reached, Phases, OwnRegisters, RunsInCall, Typed, Stops, Calls, LibcCalls, LibdlCalls
  <1> QED BY <1>b, <1>1, <1>2, <1>3, <1>4, <1>5, <1>6, <1>7, <1>8

\* The thread is traced, and a SIGSTOP is on its way.
LEMMA AttachStep == ASSUME IInv, Attach PROVE IInv'
  <1> USE InjectorAssumption DEF IInv, Alive, RegsAccessible, MemoryAccessible, Goto, ReturnFalse, injectorVars, threadVars,
          processVars, Attach
  <1>0. \A d : (Resolved(d)' <=> Resolved(d)) /\ (Misdirected(d)' <=> Misdirected(d)) /\ (Astray(d)' <=> Astray(d))
    BY SameMaps
  <1>r. \/ pc' # "detach" /\ (Succeeded' <=> Succeeded) /\ (Unfinished' <=> Unfinished)
        \/ pc' = "detach" /\ ~Succeeded' /\ ~Unfinished'
    BY ResultCases, Zenon
  <1>b. TruthValues'
    BY Zenon DEF TruthValues
  <1>1. Typed'
    BY <1>0, <1>r DEF Typed, Phases, OwnRegisters, OutstandingStop, RunsInCall, Steps, Stops, Calls, LibcCalls, LibdlCalls
  <1>2. Phases'
    BY <1>0, <1>r DEF Phases, OwnRegisters, Typed, Stops, Calls, LibcCalls, LibdlCalls
  <1>3. OwnRegisters'
    BY <1>0, <1>r DEF OwnRegisters, Phases, RunsInCall, Typed, Stops, Calls, LibcCalls, LibdlCalls
  <1>4. OutstandingStop'
    BY <1>0, <1>r DEF OutstandingStop, OwnRegisters, Phases, RunsInCall, Typed, Stops, Calls, LibcCalls, LibdlCalls
  <1>5. RunsInCall'
    BY <1>0, <1>r DEF RunsInCall, CallsInProgress, InCall, Phases, OwnRegisters, OutstandingStop, Typed, Stops, Calls, LibcCalls, LibdlCalls
  <1>6. CallsInProgress'
    BY <1>0, <1>r DEF CallsInProgress, InCall, CallEffect, Phases, OwnRegisters, OutstandingStop,
       RunsInCall, Typed, Stops, Calls, LibcCalls, LibdlCalls
  <1>7. Progress'
    BY <1>0, <1>r DEF Progress, CallsInProgress, InCall, CallEffect, Reached, AfterReceipt, AfterLoading, AfterClosing,
       Phases, OwnRegisters, RunsInCall, OutstandingStop, Typed, Stops, Calls, LibcCalls, LibdlCalls
  <1>8. Success'
    BY <1>0, <1>r DEF Success, Progress, AfterReceipt, AfterLoading, AfterClosing, Reached, Phases, OwnRegisters, RunsInCall, Typed, Stops, Calls, LibcCalls, LibdlCalls
  <1> QED BY <1>b, <1>1, <1>2, <1>3, <1>4, <1>5, <1>6, <1>7, <1>8

\* Another signal, or a death, ends the injection before it began.
LEMMA WaitForStopStep == ASSUME IInv, WaitForStop PROVE IInv'
  <1> USE InjectorAssumption DEF IInv, Alive, RegsAccessible, MemoryAccessible, Goto, ReturnFalse, injectorVars, threadVars,
          processVars, WaitForStop
  <1>0. \A d : (Resolved(d)' <=> Resolved(d)) /\ (Misdirected(d)' <=> Misdirected(d)) /\ (Astray(d)' <=> Astray(d))
    BY SameMaps
  <1>r. \/ pc' # "detach" /\ (Succeeded' <=> Succeeded) /\ (Unfinished' <=> Unfinished)
        \/ pc' = "detach" /\ ~Succeeded' /\ ~Unfinished'
    BY ResultCases, Zenon
  <1>b. TruthValues'
    BY Zenon DEF TruthValues
  <1>1. Typed'
    BY <1>0, <1>r DEF Typed, Phases, OwnRegisters, OutstandingStop, RunsInCall, Steps, Stops, Calls, LibcCalls, LibdlCalls
  <1>2. Phases'
    BY <1>0, <1>r DEF Phases, OwnRegisters, Typed, Stops, Calls, LibcCalls, LibdlCalls
  <1>3. OwnRegisters'
    BY <1>0, <1>r DEF OwnRegisters, Phases, RunsInCall, Typed, Stops, Calls, LibcCalls, LibdlCalls
  <1>4. OutstandingStop'
    BY <1>0, <1>r DEF OutstandingStop, OwnRegisters, Phases, RunsInCall, Typed, Stops, Calls, LibcCalls, LibdlCalls
  <1>5. RunsInCall'
    BY <1>0, <1>r DEF RunsInCall, CallsInProgress, InCall, Phases, OwnRegisters, OutstandingStop, Typed, Stops, Calls, LibcCalls, LibdlCalls
  <1>6. CallsInProgress'
    BY <1>0, <1>r DEF CallsInProgress, InCall, CallEffect, Phases, OwnRegisters, OutstandingStop,
       RunsInCall, Typed, Stops, Calls, LibcCalls, LibdlCalls
  <1>7. Progress'
    BY <1>0, <1>r DEF Progress, CallsInProgress, InCall, CallEffect, Reached, AfterReceipt, AfterLoading, AfterClosing,
       Phases, OwnRegisters, RunsInCall, OutstandingStop, Typed, Stops, Calls, LibcCalls, LibdlCalls
  <1>8. Success'
    BY <1>0, <1>r DEF Success, Progress, AfterReceipt, AfterLoading, AfterClosing, Reached, Phases, OwnRegisters, RunsInCall, Typed, Stops, Calls, LibcCalls, LibdlCalls
  <1> QED BY <1>b, <1>1, <1>2, <1>3, <1>4, <1>5, <1>6, <1>7, <1>8

\* The thread is as it was.
LEMMA PrepareStep == ASSUME IInv, Prepare \/ PrepareTransfer PROVE IInv'
  <1> USE InjectorAssumption DEF IInv, Alive, RegsAccessible, MemoryAccessible, Goto, ReturnFalse, injectorVars, threadVars,
          processVars, Prepare, PrepareTransfer
  <1>0. \A d : (Resolved(d)' <=> Resolved(d)) /\ (Misdirected(d)' <=> Misdirected(d)) /\ (Astray(d)' <=> Astray(d))
    BY SameMaps
  <1>r. \/ pc' # "detach" /\ (Succeeded' <=> Succeeded) /\ (Unfinished' <=> Unfinished)
        \/ pc' = "detach" /\ ~Succeeded' /\ ~Unfinished'
    BY ResultCases, Zenon
  <1>b. TruthValues'
    BY Zenon DEF TruthValues
  <1>1. Typed'
    <2>1. pc \in {"prepare", "transfer"} /\ ~waiting /\ pc' \in Steps
      BY DEF Typed, Steps, Calls, LibcCalls, LibdlCalls
    <2>2. waiting' = FALSE \/ waiting' = waiting
      BY Zenon
    <2>3. ~waiting'
      BY <2>1, <2>2, Zenon
    <2>4. UNCHANGED <<thread, stop, regs, callee, wedged, value, sock, lib, maps, signals, crashed>>
      BY Zenon
    <2> QED BY <2>1, <2>3, <2>4 DEF Typed
  <1>2. Phases'
    BY <1>0, <1>r DEF Phases, OwnRegisters, Typed, Stops, Calls, LibcCalls, LibdlCalls
  <1>3. OwnRegisters'
    BY <1>0, <1>r DEF OwnRegisters, Phases, RunsInCall, Typed, Stops, Calls, LibcCalls, LibdlCalls
  <1>4. OutstandingStop'
    BY <1>0, <1>r DEF OutstandingStop, OwnRegisters, Phases, RunsInCall, Typed, Stops, Calls, LibcCalls, LibdlCalls
  <1>5. RunsInCall'
    BY <1>0, <1>r DEF RunsInCall, CallsInProgress, InCall, Phases, OwnRegisters, OutstandingStop, Typed, Stops, Calls, LibcCalls, LibdlCalls
  <1>6. CallsInProgress'
    BY <1>0, <1>r DEF CallsInProgress, InCall, CallEffect, Phases, OwnRegisters, OutstandingStop,
       RunsInCall, Typed, Stops, Calls, LibcCalls, LibdlCalls
  <1>7. Progress'
    BY <1>0, <1>r DEF Progress, CallsInProgress, InCall, CallEffect, Reached, AfterReceipt, AfterLoading, AfterClosing,
       Phases, OwnRegisters, RunsInCall, OutstandingStop, Typed, Stops, Calls, LibcCalls, LibdlCalls
  <1>8. Success'
    BY <1>0, <1>r DEF Success, Progress, AfterReceipt, AfterLoading, AfterClosing, Reached, Phases, OwnRegisters, RunsInCall, Typed, Stops, Calls, LibcCalls, LibdlCalls
  <1> QED BY <1>b, <1>1, <1>2, <1>3, <1>4, <1>5, <1>6, <1>7, <1>8

\* A call replaces what the stopped thread was doing.
LEMMA RemotePreCallStep == ASSUME IInv, NEW c \in Calls, RemotePreCall(c) PROVE IInv'
  <1> USE InjectorAssumption DEF IInv, Alive, RegsAccessible, MemoryAccessible, Goto, ReturnFalse, injectorVars, threadVars,
          processVars, RemotePreCall
  <1>0. \A d : (Resolved(d)' <=> Resolved(d)) /\ (Misdirected(d)' <=> Misdirected(d)) /\ (Astray(d)' <=> Astray(d))
    BY SameMaps
  <1>r. (Succeeded' <=> Succeeded) /\ (Unfinished' <=> Unfinished)
    BY ResultCases, Zenon
  <1>b. TruthValues'
    BY Zenon DEF TruthValues
  <1>w. ~wedged'
    BY Zenon
  <1>1. Typed'
    BY <1>0, <1>r, <1>w DEF Typed, Phases, OwnRegisters, OutstandingStop, RunsInCall, Steps, Stops, Calls, LibcCalls, LibdlCalls
  <1>2. Phases'
    BY <1>0, <1>r DEF Phases, OwnRegisters, Typed, Stops, Calls, LibcCalls, LibdlCalls
  <1>3. OwnRegisters'
    BY <1>0, <1>r DEF OwnRegisters, Phases, RunsInCall, Typed, Stops, Calls, LibcCalls, LibdlCalls
  <1>4. OutstandingStop'
    BY <1>0, <1>r DEF OutstandingStop, OwnRegisters, Phases, RunsInCall, Typed, Stops, Calls, LibcCalls, LibdlCalls
  <1>5. RunsInCall'
    BY <1>0, <1>r DEF RunsInCall, CallsInProgress, InCall, Phases, OwnRegisters, OutstandingStop, Typed, Stops, Calls, LibcCalls, LibdlCalls
  <1>6. CallsInProgress'
    BY <1>0, <1>r DEF CallsInProgress, InCall, CallEffect, Phases, OwnRegisters, OutstandingStop,
       RunsInCall, Typed, Stops, Calls, LibcCalls, LibdlCalls
  <1>7. Progress'
    BY <1>0, <1>r DEF Progress, CallsInProgress, InCall, CallEffect, Reached, AfterReceipt, AfterLoading, AfterClosing,
       Phases, OwnRegisters, RunsInCall, OutstandingStop, Typed, Stops, Calls, LibcCalls, LibdlCalls
  <1>8. Success'
    BY <1>0, <1>r DEF Success, Progress, AfterReceipt, AfterLoading, AfterClosing, Reached, Phases, OwnRegisters, RunsInCall, Typed, Stops, Calls, LibcCalls, LibdlCalls
  <1> QED BY <1>b, <1>1, <1>2, <1>3, <1>4, <1>5, <1>6, <1>7, <1>8

\* A call that is not made is one of a dead thread, or the last one.
LEMMA RemotePreCallFailsStep == ASSUME IInv, NEW c \in Calls, RemotePreCallFails(c) PROVE IInv'
  <1> USE InjectorAssumption DEF IInv, Alive, RegsAccessible, MemoryAccessible, Goto, ReturnFalse, injectorVars, threadVars,
          processVars, RemotePreCallFails, Continue
  <1>0. \A d : (Resolved(d)' <=> Resolved(d)) /\ (Misdirected(d)' <=> Misdirected(d)) /\ (Astray(d)' <=> Astray(d))
    BY SameMaps
  <1>r. \/ pc' # "detach" /\ (Succeeded' <=> Succeeded) /\ (Unfinished' <=> Unfinished)
        \/ pc' = "detach" /\ ~Succeeded' /\ ~Unfinished'
    BY ResultCases, Zenon
  <1>a. ~Alive \/ (c = "closeAbandoned" /\ thread = "running")
    BY DEF Typed, Phases, OutstandingStop, RunsInCall, Calls, LibcCalls, LibdlCalls
  <1>n. (c = "recvmsg" /\ pc' = "closeAbandoned") \/ (c # "recvmsg" /\ Follows(c, "zero", pc'))
    <2>1. "zero" \in Values
      BY DEF Values
    <2> QED BY <2>1, ContinuationFollows
  <1>b. TruthValues'
    BY Zenon DEF TruthValues
  <1>1. Typed'
    <2>1. pc' \in Steps /\ ~waiting'
      BY <1>n DEF Follows, Steps, Calls, LibcCalls, LibdlCalls
    <2> QED BY <2>1 DEF Typed
  <1>2. Phases'
    BY <1>0, <1>r, <1>a, <1>n DEF Phases, OwnRegisters, Typed, Stops, Calls, LibcCalls, LibdlCalls, Follows
  <1>3. OwnRegisters'
    BY <1>0, <1>r, <1>a, <1>n DEF OwnRegisters, Phases, RunsInCall, Typed, Stops, Calls, LibcCalls, LibdlCalls, Follows
  <1>4. OutstandingStop'
    BY <1>0, <1>r, <1>a, <1>n DEF OutstandingStop, OwnRegisters, Phases, RunsInCall, Typed, Stops, Calls, LibcCalls, LibdlCalls, Follows
  <1>5. RunsInCall'
    BY <1>0, <1>r, <1>a, <1>n DEF RunsInCall, CallsInProgress, InCall, Phases, OwnRegisters, OutstandingStop, Typed, Stops, Calls, LibcCalls, LibdlCalls, Follows
  <1>6. CallsInProgress'
    BY <1>0, <1>r, <1>a, <1>n DEF CallsInProgress, InCall, CallEffect, Phases, OwnRegisters, OutstandingStop,
       RunsInCall, Typed, Stops, Calls, LibcCalls, LibdlCalls, Follows
  <1>7. Progress'
    BY <1>0, <1>r, <1>a, <1>n DEF Progress, CallsInProgress, InCall, CallEffect, Reached, AfterReceipt, AfterLoading, AfterClosing,
       Phases, OwnRegisters, RunsInCall, OutstandingStop, Typed, Stops, Calls, LibcCalls, LibdlCalls, Follows
  <1>8. Success'
    BY <1>0, <1>r, <1>a, <1>n DEF Success, Progress, AfterReceipt, AfterLoading, AfterClosing, Reached, Phases, OwnRegisters, RunsInCall, Typed, Stops, Calls, LibcCalls, LibdlCalls, Follows
  <1> QED BY <1>b, <1>1, <1>2, <1>3, <1>4, <1>5, <1>6, <1>7, <1>8

\* The library is not in keystore2 and its registers are a call's.
LEMMA DlopenUnresolvedStep == ASSUME IInv, DlopenUnresolved PROVE IInv'
  <1> USE InjectorAssumption DEF IInv, Alive, RegsAccessible, MemoryAccessible, Goto, ReturnFalse, injectorVars, threadVars,
          processVars, DlopenUnresolved
  <1>0. \A d : (Resolved(d)' <=> Resolved(d)) /\ (Misdirected(d)' <=> Misdirected(d)) /\ (Astray(d)' <=> Astray(d))
    BY SameMaps
  <1>r. ~Succeeded' /\ ~Unfinished'
    BY ResultCases, Zenon
  <1>b. TruthValues'
    BY Zenon DEF TruthValues
  <1>1. Typed'
    BY <1>0, <1>r DEF Typed, Phases, OwnRegisters, OutstandingStop, RunsInCall, Steps, Stops, Calls, LibcCalls, LibdlCalls
  <1>2. Phases'
    BY <1>0, <1>r DEF Phases, OwnRegisters, Typed, Stops, Calls, LibcCalls, LibdlCalls
  <1>3. OwnRegisters'
    BY <1>0, <1>r DEF OwnRegisters, Phases, RunsInCall, Typed, Stops, Calls, LibcCalls, LibdlCalls
  <1>4. OutstandingStop'
    BY <1>0, <1>r DEF OutstandingStop, OwnRegisters, Phases, RunsInCall, Typed, Stops, Calls, LibcCalls, LibdlCalls
  <1>5. RunsInCall'
    BY <1>0, <1>r DEF RunsInCall, CallsInProgress, InCall, Phases, OwnRegisters, OutstandingStop, Typed, Stops, Calls, LibcCalls, LibdlCalls
  <1>6. CallsInProgress'
    BY <1>0, <1>r DEF CallsInProgress, InCall, CallEffect, Phases, OwnRegisters, OutstandingStop,
       RunsInCall, Typed, Stops, Calls, LibcCalls, LibdlCalls
  <1>7. Progress'
    BY <1>0, <1>r DEF Progress, CallsInProgress, InCall, CallEffect, Reached, AfterReceipt, AfterLoading, AfterClosing,
       Phases, OwnRegisters, RunsInCall, OutstandingStop, Typed, Stops, Calls, LibcCalls, LibdlCalls
  <1>8. Success'
    BY <1>0, <1>r DEF Success, Progress, AfterReceipt, AfterLoading, AfterClosing, Reached, Phases, OwnRegisters, RunsInCall, Typed, Stops, Calls, LibcCalls, LibdlCalls
  <1> QED BY <1>b, <1>1, <1>2, <1>3, <1>4, <1>5, <1>6, <1>7, <1>8

\* The value of a call that returned tells its effect.
LEMMA RemotePostCallStep == ASSUME IInv, NEW c \in Calls, RemotePostCall(c) PROVE IInv'
  <1> USE InjectorAssumption DEF IInv, Alive, RegsAccessible, MemoryAccessible, Goto, ReturnFalse, injectorVars, threadVars,
          processVars, RemotePostCall, Continue
  <1>0. \A d : (Resolved(d)' <=> Resolved(d)) /\ (Misdirected(d)' <=> Misdirected(d)) /\ (Astray(d)' <=> Astray(d))
    BY SameMaps
  <1>r. \/ pc' # "detach" /\ (Succeeded' <=> Succeeded) /\ (Unfinished' <=> Unfinished)
        \/ pc' = "detach" /\ ~Succeeded' /\ ~Unfinished'
    BY ResultCases, Zenon
  <1>a. regs = "call" /\ (Alive => callee = None)
    BY DEF CallsInProgress, InCall, OwnRegisters, Typed, Stops
  <1>n. \/ stop = "return" /\ Alive /\ Follows(c, value, pc')
        \/ (~Alive \/ stop = "crash") /\ Follows(c, "zero", pc')
    <2>1. "zero" \in Values
      BY DEF Values
    <2>2. stop = "return" => Alive /\ value \in Values
      BY DEF CallsInProgress, Typed, Stops
    <2> QED BY <2>1, <2>2, ContinuationFollows DEF Typed, Stops
  <1>l. c \in {"closeSocket", "closeLib"} => ~Astray(c)
    BY ReachedAfterReceipt DEF Progress, AfterReceipt, LibcCalls
  <1>b. TruthValues'
    BY Zenon DEF TruthValues
  <1>1. Typed'
    BY <1>0, <1>r, <1>a, <1>n DEF Typed, Phases, OwnRegisters, OutstandingStop, RunsInCall, Steps, Stops, Calls, LibcCalls, LibdlCalls, Follows
  <1>2. Phases'
    BY <1>0, <1>r, <1>a, <1>n DEF Phases, OwnRegisters, Typed, Stops, Calls, LibcCalls, LibdlCalls, Follows
  <1>3. OwnRegisters'
    BY <1>0, <1>r, <1>a, <1>n DEF OwnRegisters, Phases, RunsInCall, Typed, Stops, Calls, LibcCalls, LibdlCalls, Follows
  <1>4. OutstandingStop'
    BY <1>0, <1>r, <1>a, <1>n DEF OutstandingStop, OwnRegisters, Phases, RunsInCall, Typed, Stops, Calls, LibcCalls, LibdlCalls, Follows
  <1>5. RunsInCall'
    BY <1>0, <1>r, <1>a, <1>n DEF RunsInCall, CallsInProgress, InCall, Phases, OwnRegisters, OutstandingStop, Typed, Stops, Calls, LibcCalls, LibdlCalls, Follows
  <1>6. CallsInProgress'
    BY <1>0, <1>r, <1>a, <1>n DEF CallsInProgress, InCall, CallEffect, Phases, OwnRegisters, OutstandingStop,
       RunsInCall, Typed, Stops, Calls, LibcCalls, LibdlCalls, Follows
  <1>7. Progress'
    BY <1>0, <1>r, <1>a, <1>n, <1>l DEF Progress, Astray, CallsInProgress, InCall, CallEffect, Reached, AfterReceipt, AfterLoading, AfterClosing,
       Phases, OwnRegisters, RunsInCall, OutstandingStop, Typed, Stops, Calls, LibcCalls, LibdlCalls, Follows
  <1>8. Success'
    BY <1>0, <1>r, <1>a, <1>n DEF Success, Progress, AfterReceipt, AfterLoading, AfterClosing, Reached, Phases, OwnRegisters, RunsInCall, Typed, Stops, Calls, LibcCalls, LibdlCalls, Follows
  <1> QED BY <1>b, <1>1, <1>2, <1>3, <1>4, <1>5, <1>6, <1>7, <1>8

\* The call goes on.
LEMMA SuppressSignalStep == ASSUME IInv, NEW c \in Calls, SuppressSignal(c) PROVE IInv'
  <1> USE InjectorAssumption DEF IInv, Alive, RegsAccessible, MemoryAccessible, Goto, ReturnFalse, injectorVars, threadVars,
          processVars, SuppressSignal
  <1>0. \A d : (Resolved(d)' <=> Resolved(d)) /\ (Misdirected(d)' <=> Misdirected(d)) /\ (Astray(d)' <=> Astray(d))
    BY SameMaps
  <1>r. (Succeeded' <=> Succeeded) /\ (Unfinished' <=> Unfinished)
    BY ResultCases, Zenon
  <1>b. TruthValues'
    BY Zenon DEF TruthValues
  <1>1. Typed'
    BY <1>0, <1>r DEF Typed, Phases, OwnRegisters, OutstandingStop, RunsInCall, Steps, Stops, Calls, LibcCalls, LibdlCalls
  <1>2. Phases'
    BY <1>0, <1>r DEF Phases, OwnRegisters, Typed, Stops, Calls, LibcCalls, LibdlCalls
  <1>3. OwnRegisters'
    BY <1>0, <1>r DEF OwnRegisters, Phases, RunsInCall, Typed, Stops, Calls, LibcCalls, LibdlCalls
  <1>4. OutstandingStop'
    BY <1>0, <1>r DEF OutstandingStop, OwnRegisters, Phases, RunsInCall, Typed, Stops, Calls, LibcCalls, LibdlCalls
  <1>5. RunsInCall'
    BY <1>0, <1>r DEF RunsInCall, CallsInProgress, InCall, Phases, OwnRegisters, OutstandingStop, Typed, Stops, Calls, LibcCalls, LibdlCalls
  <1>6. CallsInProgress'
    BY <1>0, <1>r DEF CallsInProgress, InCall, CallEffect, Phases, OwnRegisters, OutstandingStop,
       RunsInCall, Typed, Stops, Calls, LibcCalls, LibdlCalls
  <1>7. Progress'
    BY <1>0, <1>r DEF Progress, CallsInProgress, InCall, CallEffect, Reached, AfterReceipt, AfterLoading, AfterClosing,
       Phases, OwnRegisters, RunsInCall, OutstandingStop, Typed, Stops, Calls, LibcCalls, LibdlCalls
  <1>8. Success'
    BY <1>0, <1>r DEF Success, Progress, AfterReceipt, AfterLoading, AfterClosing, Reached, Phases, OwnRegisters, RunsInCall, Typed, Stops, Calls, LibcCalls, LibdlCalls
  <1> QED BY <1>b, <1>1, <1>2, <1>3, <1>4, <1>5, <1>6, <1>7, <1>8

\* recvmsg is in progress, whether the message is sent or not.
LEMMA SendMsgStep == ASSUME IInv, SendMsg PROVE IInv'
  <1> USE InjectorAssumption DEF IInv, Alive, RegsAccessible, MemoryAccessible, Goto, ReturnFalse, injectorVars, threadVars,
          processVars, SendMsg
  <1>0. \A d : (Resolved(d)' <=> Resolved(d)) /\ (Misdirected(d)' <=> Misdirected(d)) /\ (Astray(d)' <=> Astray(d))
    BY SameMaps
  <1>r. (Succeeded' <=> Succeeded) /\ (Unfinished' <=> Unfinished)
    BY ResultCases, Zenon
  <1>b. TruthValues'
    BY Zenon DEF TruthValues
  <1>1. Typed'
    BY <1>0, <1>r DEF Typed, Phases, OwnRegisters, OutstandingStop, RunsInCall, Steps, Stops, Calls, LibcCalls, LibdlCalls
  <1>2. Phases'
    BY <1>0, <1>r DEF Phases, OwnRegisters, Typed, Stops, Calls, LibcCalls, LibdlCalls
  <1>3. OwnRegisters'
    BY <1>0, <1>r DEF OwnRegisters, Phases, RunsInCall, Typed, Stops, Calls, LibcCalls, LibdlCalls
  <1>4. OutstandingStop'
    BY <1>0, <1>r DEF OutstandingStop, OwnRegisters, Phases, RunsInCall, Typed, Stops, Calls, LibcCalls, LibdlCalls
  <1>5. RunsInCall'
    BY <1>0, <1>r DEF RunsInCall, CallsInProgress, InCall, Phases, OwnRegisters, OutstandingStop, Typed, Stops, Calls, LibcCalls, LibdlCalls
  <1>6. CallsInProgress'
    BY <1>0, <1>r DEF CallsInProgress, InCall, CallEffect, Phases, OwnRegisters, OutstandingStop,
       RunsInCall, Typed, Stops, Calls, LibcCalls, LibdlCalls
  <1>7. Progress'
    BY <1>0, <1>r DEF Progress, CallsInProgress, InCall, CallEffect, Reached, AfterReceipt, AfterLoading, AfterClosing,
       Phases, OwnRegisters, RunsInCall, OutstandingStop, Typed, Stops, Calls, LibcCalls, LibdlCalls
  <1>8. Success'
    BY <1>0, <1>r DEF Success, Progress, AfterReceipt, AfterLoading, AfterClosing, Reached, Phases, OwnRegisters, RunsInCall, Typed, Stops, Calls, LibcCalls, LibdlCalls
  <1> QED BY <1>b, <1>1, <1>2, <1>3, <1>4, <1>5, <1>6, <1>7, <1>8

\* The descriptor in the message shows that recvmsg was reached.
LEMMA ReadControlMessageStep == ASSUME IInv, ReadControlMessage PROVE IInv'
  <1> USE InjectorAssumption DEF IInv, Alive, RegsAccessible, MemoryAccessible, Goto, ReturnFalse, injectorVars, threadVars,
          processVars, ReadControlMessage
  <1>0. \A d : (Resolved(d)' <=> Resolved(d)) /\ (Misdirected(d)' <=> Misdirected(d)) /\ (Astray(d)' <=> Astray(d))
    BY SameMaps
  <1>r. (Succeeded' <=> Succeeded) /\ (Unfinished' <=> Unfinished)
    BY ResultCases, Zenon
  <1>b. TruthValues'
    BY Zenon DEF TruthValues
  <1>1. Typed'
    BY <1>0, <1>r DEF Typed, Phases, OwnRegisters, OutstandingStop, RunsInCall, Steps, Stops, Calls, LibcCalls, LibdlCalls
  <1>2. Phases'
    BY <1>0, <1>r DEF Phases, OwnRegisters, Typed, Stops, Calls, LibcCalls, LibdlCalls
  <1>3. OwnRegisters'
    BY <1>0, <1>r DEF OwnRegisters, Phases, RunsInCall, Typed, Stops, Calls, LibcCalls, LibdlCalls
  <1>4. OutstandingStop'
    BY <1>0, <1>r DEF OutstandingStop, OwnRegisters, Phases, RunsInCall, Typed, Stops, Calls, LibcCalls, LibdlCalls
  <1>5. RunsInCall'
    BY <1>0, <1>r DEF RunsInCall, CallsInProgress, InCall, Phases, OwnRegisters, OutstandingStop, Typed, Stops, Calls, LibcCalls, LibdlCalls
  <1>6. CallsInProgress'
    BY <1>0, <1>r DEF CallsInProgress, InCall, CallEffect, Phases, OwnRegisters, OutstandingStop,
       RunsInCall, Typed, Stops, Calls, LibcCalls, LibdlCalls
  <1>7. Progress'
    BY <1>0, <1>r DEF Progress, CallsInProgress, InCall, CallEffect, Reached, AfterReceipt, AfterLoading, AfterClosing,
       Phases, OwnRegisters, RunsInCall, OutstandingStop, Typed, Stops, Calls, LibcCalls, LibdlCalls
  <1>8. Success'
    BY <1>0, <1>r DEF Success, Progress, AfterReceipt, AfterLoading, AfterClosing, Reached, Phases, OwnRegisters, RunsInCall, Typed, Stops, Calls, LibcCalls, LibdlCalls
  <1> QED BY <1>b, <1>1, <1>2, <1>3, <1>4, <1>5, <1>6, <1>7, <1>8

\* The registers of a stopped thread come back, all calls being over.
LEMMA RestoreStep == ASSUME IInv, Restore PROVE IInv'
  <1> USE InjectorAssumption DEF IInv, Alive, RegsAccessible, MemoryAccessible, Goto, ReturnFalse, injectorVars, threadVars,
          processVars, Restore
  <1>0. \A d : (Resolved(d)' <=> Resolved(d)) /\ (Misdirected(d)' <=> Misdirected(d)) /\ (Astray(d)' <=> Astray(d))
    BY SameMaps
  <1>r. \/ thread = "stopped" /\ Succeeded' /\ ~Unfinished'
        \/ thread # "stopped" /\ ~Succeeded' /\ ~Unfinished'
    BY ResultCases, Zenon
  <1>b. TruthValues'
    BY Zenon DEF TruthValues
  <1>w. thread = "stopped" => callee = None /\ ~wedged
    BY DEF CallsInProgress, Phases, Typed, Calls, LibcCalls, LibdlCalls
  <1>1. Typed'
    BY <1>0, <1>r, <1>w DEF Typed, Phases, OwnRegisters, OutstandingStop, RunsInCall, Steps, Stops, Calls, LibcCalls, LibdlCalls
  <1>2. Phases'
    BY <1>0, <1>r DEF Phases, OwnRegisters, Typed, Stops, Calls, LibcCalls, LibdlCalls
  <1>3. OwnRegisters'
    BY <1>0, <1>r DEF OwnRegisters, Phases, RunsInCall, Typed, Stops, Calls, LibcCalls, LibdlCalls
  <1>4. OutstandingStop'
    BY <1>0, <1>r DEF OutstandingStop, OwnRegisters, Phases, RunsInCall, Typed, Stops, Calls, LibcCalls, LibdlCalls
  <1>5. RunsInCall'
    BY <1>0, <1>r DEF RunsInCall, CallsInProgress, InCall, Phases, OwnRegisters, OutstandingStop, Typed, Stops, Calls, LibcCalls, LibdlCalls
  <1>6. CallsInProgress'
    BY <1>0, <1>r DEF CallsInProgress, InCall, CallEffect, Phases, OwnRegisters, OutstandingStop,
       RunsInCall, Typed, Stops, Calls, LibcCalls, LibdlCalls
  <1>7. Progress'
    BY <1>0, <1>r DEF Progress, CallsInProgress, InCall, CallEffect, Reached, AfterReceipt, AfterLoading, AfterClosing,
       Phases, OwnRegisters, RunsInCall, OutstandingStop, Typed, Stops, Calls, LibcCalls, LibdlCalls
  <1>8. Success'
    BY <1>0, <1>r DEF Success, Progress, AfterReceipt, AfterLoading, AfterClosing, Reached, Phases, OwnRegisters, RunsInCall, Typed, Stops, Calls, LibcCalls, LibdlCalls
  <1> QED BY <1>b, <1>1, <1>2, <1>3, <1>4, <1>5, <1>6, <1>7, <1>8

\* A stopped thread runs again as it is.
LEMMA DetachStep == ASSUME IInv, Detach PROVE IInv'
  <1> USE InjectorAssumption DEF IInv, Alive, RegsAccessible, MemoryAccessible, Goto, ReturnFalse, injectorVars, threadVars,
          processVars, Detach
  <1>0. \A d : (Resolved(d)' <=> Resolved(d)) /\ (Misdirected(d)' <=> Misdirected(d)) /\ (Astray(d)' <=> Astray(d))
    BY SameMaps
  <1>r. (Succeeded' <=> Succeeded) /\ (Unfinished' <=> Unfinished)
    BY ResultCases, Zenon
  <1>b. TruthValues'
    BY Zenon DEF TruthValues
  <1>1. Typed'
    BY <1>0, <1>r DEF Typed, Phases, OwnRegisters, OutstandingStop, RunsInCall, Steps, Stops, Calls, LibcCalls, LibdlCalls
  <1>2. Phases'
    BY <1>0, <1>r DEF Phases, OwnRegisters, Typed, Stops, Calls, LibcCalls, LibdlCalls
  <1>3. OwnRegisters'
    BY <1>0, <1>r DEF OwnRegisters, Phases, RunsInCall, Typed, Stops, Calls, LibcCalls, LibdlCalls
  <1>4. OutstandingStop'
    BY <1>0, <1>r DEF OutstandingStop, OwnRegisters, Phases, RunsInCall, Typed, Stops, Calls, LibcCalls, LibdlCalls
  <1>5. RunsInCall'
    BY <1>0, <1>r DEF RunsInCall, CallsInProgress, InCall, Phases, OwnRegisters, OutstandingStop, Typed, Stops, Calls, LibcCalls, LibdlCalls
  <1>6. CallsInProgress'
    BY <1>0, <1>r DEF CallsInProgress, InCall, CallEffect, Phases, OwnRegisters, OutstandingStop,
       RunsInCall, Typed, Stops, Calls, LibcCalls, LibdlCalls
  <1>7. Progress'
    BY <1>0, <1>r DEF Progress, CallsInProgress, InCall, CallEffect, Reached, AfterReceipt, AfterLoading, AfterClosing,
       Phases, OwnRegisters, RunsInCall, OutstandingStop, Typed, Stops, Calls, LibcCalls, LibdlCalls
  <1>8. Success'
    BY <1>0, <1>r DEF Success, Progress, AfterReceipt, AfterLoading, AfterClosing, Reached, Phases, OwnRegisters, RunsInCall, Typed, Stops, Calls, LibcCalls, LibdlCalls
  <1> QED BY <1>b, <1>1, <1>2, <1>3, <1>4, <1>5, <1>6, <1>7, <1>8

\* The kernel lets go of the thread.
LEMMA ExitStep == ASSUME IInv, Exit PROVE IInv'
  <1> USE InjectorAssumption DEF IInv, Alive, RegsAccessible, MemoryAccessible, Goto, ReturnFalse, injectorVars, threadVars,
          processVars, Exit
  <1>0. \A d : (Resolved(d)' <=> Resolved(d)) /\ (Misdirected(d)' <=> Misdirected(d)) /\ (Astray(d)' <=> Astray(d))
    BY SameMaps
  <1>r. (Succeeded' <=> Succeeded) /\ (Unfinished' <=> Unfinished)
    BY ResultCases, Zenon
  <1>b. TruthValues'
    BY Zenon DEF TruthValues
  <1>1. Typed'
    BY <1>0, <1>r DEF Typed, Phases, OwnRegisters, OutstandingStop, RunsInCall, Steps, Stops, Calls, LibcCalls, LibdlCalls
  <1>2. Phases'
    BY <1>0, <1>r DEF Phases, OwnRegisters, Typed, Stops, Calls, LibcCalls, LibdlCalls
  <1>3. OwnRegisters'
    BY <1>0, <1>r DEF OwnRegisters, Phases, RunsInCall, Typed, Stops, Calls, LibcCalls, LibdlCalls
  <1>4. OutstandingStop'
    BY <1>0, <1>r DEF OutstandingStop, OwnRegisters, Phases, RunsInCall, Typed, Stops, Calls, LibcCalls, LibdlCalls
  <1>5. RunsInCall'
    BY <1>0, <1>r DEF RunsInCall, CallsInProgress, InCall, Phases, OwnRegisters, OutstandingStop, Typed, Stops, Calls, LibcCalls, LibdlCalls
  <1>6. CallsInProgress'
    BY <1>0, <1>r DEF CallsInProgress, InCall, CallEffect, Phases, OwnRegisters, OutstandingStop,
       RunsInCall, Typed, Stops, Calls, LibcCalls, LibdlCalls
  <1>7. Progress'
    BY <1>0, <1>r DEF Progress, CallsInProgress, InCall, CallEffect, Reached, AfterReceipt, AfterLoading, AfterClosing,
       Phases, OwnRegisters, RunsInCall, OutstandingStop, Typed, Stops, Calls, LibcCalls, LibdlCalls
  <1>8. Success'
    BY <1>0, <1>r DEF Success, Progress, AfterReceipt, AfterLoading, AfterClosing, Reached, Phases, OwnRegisters, RunsInCall, Typed, Stops, Calls, LibcCalls, LibdlCalls
  <1> QED BY <1>b, <1>1, <1>2, <1>3, <1>4, <1>5, <1>6, <1>7, <1>8

\* The function had its effect.
LEMMA FunctionReturnsStep == ASSUME IInv, FunctionReturns PROVE IInv'
  <1> USE InjectorAssumption DEF IInv, Alive, RegsAccessible, MemoryAccessible, Goto, ReturnFalse, injectorVars, threadVars,
          processVars, FunctionReturns, Executes, SocketFunction, CloseFunction, LinkerFunction, Entry
  <1>0. \A d : (Resolved(d)' <=> Resolved(d)) /\ (Misdirected(d)' <=> Misdirected(d)) /\ (Astray(d)' <=> Astray(d))
    BY SameMaps
  <1>r. (Succeeded' <=> Succeeded) /\ (Unfinished' <=> Unfinished)
    BY ResultCases, Zenon
  <1>b. TruthValues'
    BY Zenon DEF TruthValues
  <1>1. Typed'
    BY <1>0, <1>r DEF Typed, Phases, OwnRegisters, OutstandingStop, RunsInCall, Steps, Stops, Calls, LibcCalls, LibdlCalls
  <1>2. Phases'
    BY <1>0, <1>r DEF Phases, OwnRegisters, Typed, Stops, Calls, LibcCalls, LibdlCalls
  <1>3. OwnRegisters'
    BY <1>0, <1>r DEF OwnRegisters, Phases, RunsInCall, Typed, Stops, Calls, LibcCalls, LibdlCalls
  <1>4. OutstandingStop'
    BY <1>0, <1>r DEF OutstandingStop, OwnRegisters, Phases, RunsInCall, Typed, Stops, Calls, LibcCalls, LibdlCalls
  <1>5. RunsInCall'
    BY <1>0, <1>r DEF RunsInCall, CallsInProgress, InCall, Phases, OwnRegisters, OutstandingStop, Typed, Stops, Calls, LibcCalls, LibdlCalls
  <1>6. CallsInProgress'
    BY <1>0, <1>r DEF CallsInProgress, InCall, CallEffect, Phases, OwnRegisters, OutstandingStop,
       RunsInCall, Typed, Stops, Calls, LibcCalls, LibdlCalls
  <1>7. Progress'
    BY <1>0, <1>r DEF Progress, Astray, CallsInProgress, InCall, CallEffect, Reached, AfterReceipt, AfterLoading, AfterClosing,
       Phases, OwnRegisters, RunsInCall, OutstandingStop, Typed, Stops, Calls, LibcCalls, LibdlCalls
  <1>8. Success'
    BY <1>0, <1>r DEF Success, Progress, AfterReceipt, AfterLoading, AfterClosing, Reached, Phases, OwnRegisters, RunsInCall, Typed, Stops, Calls, LibcCalls, LibdlCalls
  <1> QED BY <1>b, <1>1, <1>2, <1>3, <1>4, <1>5, <1>6, <1>7, <1>8

\* The fault is on record.
LEMMA FunctionCrashesStep == ASSUME IInv, FunctionCrashes PROVE IInv'
  <1> USE InjectorAssumption DEF IInv, Alive, RegsAccessible, MemoryAccessible, Goto, ReturnFalse, injectorVars, threadVars,
          processVars, FunctionCrashes, Faulty
  <1>0. \A d : (Resolved(d)' <=> Resolved(d)) /\ (Misdirected(d)' <=> Misdirected(d)) /\ (Astray(d)' <=> Astray(d))
    BY SameMaps
  <1>r. (Succeeded' <=> Succeeded) /\ (Unfinished' <=> Unfinished)
    BY ResultCases, Zenon
  <1>b. TruthValues'
    BY Zenon DEF TruthValues
  <1>1. Typed'
    BY DEF Typed, Stops
  <1>2. Phases'
    BY <1>0, <1>r DEF Phases, OwnRegisters, Typed, Stops, Calls, LibcCalls, LibdlCalls
  <1>3. OwnRegisters'
    BY <1>0, <1>r DEF OwnRegisters, Phases, RunsInCall, Typed, Stops, Calls, LibcCalls, LibdlCalls
  <1>4. OutstandingStop'
    BY <1>0, <1>r DEF OutstandingStop, OwnRegisters, Phases, RunsInCall, Typed, Stops, Calls, LibcCalls, LibdlCalls
  <1>5. RunsInCall'
    BY <1>0, <1>r DEF RunsInCall, CallsInProgress, InCall, Phases, OwnRegisters, OutstandingStop, Typed, Stops, Calls, LibcCalls, LibdlCalls
  <1>6. CallsInProgress'
    BY <1>0, <1>r DEF CallsInProgress, InCall, CallEffect, Phases, OwnRegisters, OutstandingStop,
       RunsInCall, Typed, Stops, Calls, LibcCalls, LibdlCalls
  <1>7. Progress'
    BY <1>0, <1>r DEF Progress, CallsInProgress, InCall, CallEffect, Reached, AfterReceipt, AfterLoading, AfterClosing,
       Phases, OwnRegisters, RunsInCall, OutstandingStop, Typed, Stops, Calls, LibcCalls, LibdlCalls
  <1>8. Success'
    BY <1>0, <1>r DEF Success, Progress, AfterReceipt, AfterLoading, AfterClosing, Reached, Phases, OwnRegisters, RunsInCall, Typed, Stops, Calls, LibcCalls, LibdlCalls
  <1> QED BY <1>b, <1>1, <1>2, <1>3, <1>4, <1>5, <1>6, <1>7, <1>8

\* The call goes on for ever.
LEMMA FunctionWedgesStep == ASSUME IInv, FunctionWedges PROVE IInv'
  <1> USE InjectorAssumption DEF IInv, Alive, RegsAccessible, MemoryAccessible, Goto, ReturnFalse, injectorVars, threadVars,
          processVars, FunctionWedges, Faulty
  <1>0. \A d : (Resolved(d)' <=> Resolved(d)) /\ (Misdirected(d)' <=> Misdirected(d)) /\ (Astray(d)' <=> Astray(d))
    BY SameMaps
  <1>r. (Succeeded' <=> Succeeded) /\ (Unfinished' <=> Unfinished)
    BY ResultCases, Zenon
  <1>b. TruthValues'
    BY Zenon DEF TruthValues
  <1>1. Typed'
    BY DEF Typed, Stops
  <1>2. Phases'
    BY <1>0, <1>r DEF Phases, OwnRegisters, Typed, Stops, Calls, LibcCalls, LibdlCalls
  <1>3. OwnRegisters'
    BY <1>0, <1>r DEF OwnRegisters, Phases, RunsInCall, Typed, Stops, Calls, LibcCalls, LibdlCalls
  <1>4. OutstandingStop'
    BY <1>0, <1>r DEF OutstandingStop, OwnRegisters, Phases, RunsInCall, Typed, Stops, Calls, LibcCalls, LibdlCalls
  <1>5. RunsInCall'
    BY <1>0, <1>r DEF RunsInCall, CallsInProgress, InCall, Phases, OwnRegisters, OutstandingStop, Typed, Stops, Calls, LibcCalls, LibdlCalls
  <1>6. CallsInProgress'
    BY <1>0, <1>r DEF CallsInProgress, InCall, CallEffect, Phases, OwnRegisters, OutstandingStop,
       RunsInCall, Typed, Stops, Calls, LibcCalls, LibdlCalls
  <1>7. Progress'
    BY <1>0, <1>r DEF Progress, CallsInProgress, InCall, CallEffect, Reached, AfterReceipt, AfterLoading, AfterClosing,
       Phases, OwnRegisters, RunsInCall, OutstandingStop, Typed, Stops, Calls, LibcCalls, LibdlCalls
  <1>8. Success'
    BY <1>0, <1>r DEF Success, Progress, AfterReceipt, AfterLoading, AfterClosing, Reached, Phases, OwnRegisters, RunsInCall, Typed, Stops, Calls, LibcCalls, LibdlCalls
  <1> QED BY <1>b, <1>1, <1>2, <1>3, <1>4, <1>5, <1>6, <1>7, <1>8

\* The SIGSTOP meets a thread that has its own registers.
LEMMA StopDeliveredStep == ASSUME IInv, StopDelivered PROVE IInv'
  <1> USE InjectorAssumption DEF IInv, Alive, RegsAccessible, MemoryAccessible, Goto, ReturnFalse, injectorVars, threadVars,
          processVars, StopDelivered
  <1>0. \A d : (Resolved(d)' <=> Resolved(d)) /\ (Misdirected(d)' <=> Misdirected(d)) /\ (Astray(d)' <=> Astray(d))
    BY SameMaps
  <1>r. (Succeeded' <=> Succeeded) /\ (Unfinished' <=> Unfinished)
    BY ResultCases, Zenon
  <1>b. TruthValues'
    BY Zenon DEF TruthValues
  <1>1. Typed'
    BY <1>0, <1>r DEF Typed, Phases, OwnRegisters, OutstandingStop, RunsInCall, Steps, Stops, Calls, LibcCalls, LibdlCalls
  <1>2. Phases'
    BY <1>0, <1>r DEF Phases, OwnRegisters, Typed, Stops, Calls, LibcCalls, LibdlCalls
  <1>3. OwnRegisters'
    BY <1>0, <1>r DEF OwnRegisters, Phases, RunsInCall, Typed, Stops, Calls, LibcCalls, LibdlCalls
  <1>4. OutstandingStop'
    BY <1>0, <1>r DEF OutstandingStop, OwnRegisters, Phases, RunsInCall, Typed, Stops, Calls, LibcCalls, LibdlCalls
  <1>5. RunsInCall'
    BY <1>0, <1>r DEF RunsInCall, CallsInProgress, InCall, Phases, OwnRegisters, OutstandingStop, Typed, Stops, Calls, LibcCalls, LibdlCalls
  <1>6. CallsInProgress'
    BY <1>0, <1>r DEF CallsInProgress, InCall, CallEffect, Phases, OwnRegisters, OutstandingStop,
       RunsInCall, Typed, Stops, Calls, LibcCalls, LibdlCalls
  <1>7. Progress'
    BY <1>0, <1>r DEF Progress, CallsInProgress, InCall, CallEffect, Reached, AfterReceipt, AfterLoading, AfterClosing,
       Phases, OwnRegisters, RunsInCall, OutstandingStop, Typed, Stops, Calls, LibcCalls, LibdlCalls
  <1>8. Success'
    BY <1>0, <1>r DEF Success, Progress, AfterReceipt, AfterLoading, AfterClosing, Reached, Phases, OwnRegisters, RunsInCall, Typed, Stops, Calls, LibcCalls, LibdlCalls
  <1> QED BY <1>b, <1>1, <1>2, <1>3, <1>4, <1>5, <1>6, <1>7, <1>8

\* A signal stops the thread where it is.
LEMMA SignalArrivesStep == ASSUME IInv, SignalArrives PROVE IInv'
  <1> USE InjectorAssumption DEF IInv, Alive, RegsAccessible, MemoryAccessible, Goto, ReturnFalse, injectorVars, threadVars,
          processVars, SignalArrives
  <1>0. \A d : (Resolved(d)' <=> Resolved(d)) /\ (Misdirected(d)' <=> Misdirected(d)) /\ (Astray(d)' <=> Astray(d))
    BY SameMaps
  <1>r. (Succeeded' <=> Succeeded) /\ (Unfinished' <=> Unfinished)
    BY ResultCases, Zenon
  <1>b. TruthValues'
    BY Zenon DEF TruthValues
  <1>1. Typed'
    BY <1>0, <1>r DEF Typed, Phases, OwnRegisters, OutstandingStop, RunsInCall, Steps, Stops, Calls, LibcCalls, LibdlCalls
  <1>2. Phases'
    BY <1>0, <1>r DEF Phases, OwnRegisters, Typed, Stops, Calls, LibcCalls, LibdlCalls
  <1>3. OwnRegisters'
    BY <1>0, <1>r DEF OwnRegisters, Phases, RunsInCall, Typed, Stops, Calls, LibcCalls, LibdlCalls
  <1>4. OutstandingStop'
    BY <1>0, <1>r DEF OutstandingStop, OwnRegisters, Phases, RunsInCall, Typed, Stops, Calls, LibcCalls, LibdlCalls
  <1>5. RunsInCall'
    BY <1>0, <1>r DEF RunsInCall, CallsInProgress, InCall, Phases, OwnRegisters, OutstandingStop, Typed, Stops, Calls, LibcCalls, LibdlCalls
  <1>6. CallsInProgress'
    BY <1>0, <1>r DEF CallsInProgress, InCall, CallEffect, Phases, OwnRegisters, OutstandingStop,
       RunsInCall, Typed, Stops, Calls, LibcCalls, LibdlCalls
  <1>7. Progress'
    BY <1>0, <1>r DEF Progress, CallsInProgress, InCall, CallEffect, Reached, AfterReceipt, AfterLoading, AfterClosing,
       Phases, OwnRegisters, RunsInCall, OutstandingStop, Typed, Stops, Calls, LibcCalls, LibdlCalls
  <1>8. Success'
    BY <1>0, <1>r DEF Success, Progress, AfterReceipt, AfterLoading, AfterClosing, Reached, Phases, OwnRegisters, RunsInCall, Typed, Stops, Calls, LibcCalls, LibdlCalls
  <1> QED BY <1>b, <1>1, <1>2, <1>3, <1>4, <1>5, <1>6, <1>7, <1>8

\* Of a dead thread nothing is claimed.
LEMMA DiesStep == ASSUME IInv, Faults \/ Killed PROVE IInv'
  <1> USE InjectorAssumption DEF IInv, Alive, RegsAccessible, MemoryAccessible, Goto, ReturnFalse, injectorVars, threadVars,
          processVars, Faults, Killed, Doomed
  <1>0. \A d : (Resolved(d)' <=> Resolved(d)) /\ (Misdirected(d)' <=> Misdirected(d)) /\ (Astray(d)' <=> Astray(d))
    BY SameMaps
  <1>r. (Succeeded' <=> Succeeded) /\ (Unfinished' <=> Unfinished)
    BY ResultCases, Zenon
  <1>b. TruthValues'
    BY Zenon DEF TruthValues
  <1>1. Typed'
    BY DEF Typed
  <1>2. Phases'
    BY <1>0, <1>r DEF Phases, OwnRegisters, Typed, Stops, Calls, LibcCalls, LibdlCalls
  <1>3. OwnRegisters'
    BY <1>0, <1>r DEF OwnRegisters, Phases, RunsInCall, Typed, Stops, Calls, LibcCalls, LibdlCalls
  <1>4. OutstandingStop'
    BY <1>0, <1>r DEF OutstandingStop, OwnRegisters, Phases, RunsInCall, Typed, Stops, Calls, LibcCalls, LibdlCalls
  <1>5. RunsInCall'
    BY <1>0, <1>r DEF RunsInCall, CallsInProgress, InCall, Phases, OwnRegisters, OutstandingStop, Typed, Stops, Calls, LibcCalls, LibdlCalls
  <1>6. CallsInProgress'
    BY <1>0, <1>r DEF CallsInProgress, InCall, CallEffect, Phases, OwnRegisters, OutstandingStop,
       RunsInCall, Typed, Stops, Calls, LibcCalls, LibdlCalls
  <1>7. Progress'
    BY <1>0, <1>r DEF Progress, CallsInProgress, InCall, CallEffect, Reached, AfterReceipt, AfterLoading, AfterClosing,
       Phases, OwnRegisters, RunsInCall, OutstandingStop, Typed, Stops, Calls, LibcCalls, LibdlCalls
  <1>8. Success'
    BY <1>0, <1>r DEF Success, Progress, AfterReceipt, AfterLoading, AfterClosing, Reached, Phases, OwnRegisters, RunsInCall, Typed, Stops, Calls, LibcCalls, LibdlCalls
  <1> QED BY <1>b, <1>1, <1>2, <1>3, <1>4, <1>5, <1>6, <1>7, <1>8

\* Every step keeps the invariant.
LEMMA NextIInv == ASSUME IInv, [Next]_vars PROVE IInv'
  <1>1. CASE UNCHANGED vars
    <2> USE <1>1 DEF vars, injectorVars, threadVars, processVars, IInv, Alive
    <2>0. \A d : (Resolved(d)' <=> Resolved(d)) /\ (Misdirected(d)' <=> Misdirected(d)) /\ (Astray(d)' <=> Astray(d))
      BY SameMaps
    <2>r. (Succeeded' <=> Succeeded) /\ (Unfinished' <=> Unfinished)
      BY ResultCases, Zenon
    <2>b. TruthValues'
      BY Zenon DEF TruthValues
    <2>1. Typed'
      BY DEF Typed
    <2>2. Phases' /\ OwnRegisters' /\ OutstandingStop' /\ RunsInCall'
      BY <2>r DEF Phases, OwnRegisters, OutstandingStop, RunsInCall
    <2>3. CallsInProgress' /\ Progress' /\ Success'
      BY <2>0, <2>r DEF CallsInProgress, InCall, CallEffect, Progress, Success, Reached
    <2> QED BY <2>b, <2>1, <2>2, <2>3
  <1>2. CASE Inject
    BY <1>2, MainStep, AttachStep, WaitForStopStep, PrepareStep, RemotePreCallStep, RemotePreCallFailsStep,
       RemotePostCallStep, SuppressSignalStep, DlopenUnresolvedStep, SendMsgStep, ReadControlMessageStep,
       RestoreStep, DetachStep, ExitStep
    DEF Inject
  <1>3. CASE Kernel \/ SignalArrives \/ Killed
    BY <1>3, FunctionReturnsStep, FunctionCrashesStep, FunctionWedgesStep, StopDeliveredStep, SignalArrivesStep, DiesStep
    DEF Kernel
  <1> QED BY <1>1, <1>2, <1>3 DEF Next

\* The invariant holds throughout.
LEMMA Invariant == Spec => []IInv
  BY InitIInv, NextIInv, PTL DEF Spec

-----------------------------------------------------------------------------
(* What the invariant says *)

\* The injector, the thread and keystore2 keep their types: it waits only in
\* a call, and a thread that reports a signal is stopped (utils.cpp:298-443).
THEOREM TypeCorrect == Spec => []TypeOK
  <1>1. IInv => TypeOK
    BY Zenon DEF IInv, TruthValues, Typed, TypeOK
  <1> QED BY <1>1, Invariant, PTL

\* Whatever fails, a failed injection that leaves the thread its registers
\* has left nothing in keystore2, and a successful one closed its descriptors
\* unless close itself faulted (main.cpp:85-226, 394-433).
THEOREM NothingLeftBehindTheorem == Spec => []NothingLeftBehind
  <1>1. IInv => NothingLeftBehind
    <2> SUFFICES ASSUME IInv PROVE NothingLeftBehind
      OBVIOUS
    <2>1. result = FALSE => ~Succeeded
      BY Zenon DEF Succeeded
    <2>2. result = FALSE /\ regs = "own" => sock = "none" /\ ~libFd /\ lib = "absent"
      BY <2>1 DEF IInv, OwnRegisters
    <2>3. Succeeded => /\ sock = "none" \/ "closeSocket" \in crashed
                       /\ ~libFd \/ "closeLib" \in crashed
      BY DEF IInv, Success
    <2> QED BY <2>2, <2>3, Zenon DEF NothingLeftBehind, Succeeded
  <1> QED BY <1>1, Invariant, PTL

\* For all mappings of the two processes, an injection that succeeds called
\* the functions of libc that it meant, for it saw a descriptor that only
\* recvmsg can have put there, and functions of one library are moved
\* together; its library is loaded unless dlopen was looked up in a wrong
\* file, when any value but 0 passes for success (utils.cpp:154-213,
\* main.cpp:224-226, 318-321).
THEOREM SuccessMeansLoadedTheorem == Spec => []SuccessMeansLoaded
  <1>1. IInv => SuccessMeansLoaded
    <2> SUFFICES ASSUME IInv, Succeeded
                 PROVE  /\ \A c \in LibcCalls : ~Misdirected(c)
                        /\ lib = "absent" => Misdirected("dlopen")
      BY Zenon DEF SuccessMeansLoaded, Succeeded
    <2>1. Typed /\ Reached("recvmsg") /\ (lib # "absent" \/ Misdirected("dlopen"))
      BY DEF IInv, Success
    <2> QED BY <2>1, ReachedAfterReceipt
  <1> QED BY <1>1, Invariant, PTL

\* Whatever fails, keystore2 is left stopped only when a signal other than the
\* SIGSTOP of PTRACE_ATTACH has reached the thread (main.cpp:371-374).
THEOREM HeldBySignalOnlyTheorem == Spec => []HeldBySignalOnly
  <1>1. IInv => HeldBySignalOnly
    BY DEF IInv, OutstandingStop, HeldBySignalOnly
  <1> QED BY <1>1, Invariant, PTL

-----------------------------------------------------------------------------
(* Refinement *)

\* A success ends the work on the thread.
LEMMA AtWorkIs == AtWork <=> attached /\ pc # "exit" /\ ~Succeeded
  BY Zenon DEF AtWork, Succeeded

\* The same of the next state.
LEMMA AtWorkIsNext == AtWork' <=> attached' /\ pc' # "exit" /\ ~Succeeded'
  BY Zenon DEF AtWork, Succeeded

\* The condition of keystore2, case by case.
TargetCases ==
    /\ ~Alive => TargetCondition = "dead"
    /\ Alive /\ regs = "own" /\ lib # "absent" => TargetCondition = lib
    /\ Alive /\ regs = "own" /\ lib = "absent" /\ AtWork =>
         TargetCondition = IF wedged /\ waiting THEN "wedged" ELSE "busy"
    /\ Alive /\ regs = "call" /\ AtWork =>
         TargetCondition = IF wedged /\ waiting THEN "wedged" ELSE "busy"
    /\ Alive /\ regs = "own" /\ lib = "absent" /\ ~AtWork =>
         TargetCondition = IF pendingStop \/ thread = "held" THEN "held" ELSE "own"
    /\ Alive /\ regs = "call" /\ ~AtWork => TargetCondition = IF callee # None THEN "stuck" ELSE "doomed"

\* The cases are those of the definition.
LEMMA TargetIs == TargetCases
  BY Zenon DEF TargetCases, TargetCondition, Alive

\* The same of the next state.
LEMMA TargetIsNext == TargetCases'
  BY TargetIs, PTL

\* What a step must look like to be one of InjectCommand.
LEMMA CommandSteps ==
    /\ UNCHANGED <<TargetCondition, result, ExitCode>> => UNCHANGED Command!injectVars
    /\ Unfinished /\ TargetCondition = "own" /\ TargetCondition' = "busy" /\ UNCHANGED <<result, ExitCode>>
         => Command!InjectNext
    /\ Unfinished /\ TargetCondition = "busy" /\ TargetCondition' = "wedged" /\ UNCHANGED <<result, ExitCode>>
         => Command!InjectNext
    /\ Unfinished /\ TargetCondition # "wedged" /\ result' = FALSE /\ UNCHANGED <<TargetCondition, ExitCode>>
         => Command!InjectNext
    /\ Unfinished /\ TargetCondition = "busy" /\ TargetCondition' \in {"own", "loaded", "hooked"}
         /\ result' = TRUE /\ UNCHANGED ExitCode
         => Command!InjectNext
    /\ result = FALSE /\ TargetCondition = "busy" /\ TargetCondition' \in {"own", "held", "stuck", "doomed"}
         /\ UNCHANGED <<result, ExitCode>>
         => Command!InjectNext
    /\ ~Unfinished /\ ExitCode = None /\ TargetCondition # "busy"
         /\ ExitCode' = (IF result THEN 0 ELSE 1) /\ UNCHANGED <<TargetCondition, result>>
         => Command!InjectNext
    /\ TargetCondition = "stuck" /\ TargetCondition' = "doomed" /\ UNCHANGED <<result, ExitCode>>
         => Command!InjectNext
    /\ TargetCondition # "dead" /\ TargetCondition' = "dead" /\ UNCHANGED <<result, ExitCode>>
         => Command!InjectNext
  <1> USE DEF Command!InjectNext, Command!Command, Unfinished
  <1>1. UNCHANGED <<TargetCondition, result, ExitCode>> => UNCHANGED Command!injectVars
    BY DEF Command!injectVars
  <1>2. Unfinished /\ TargetCondition = "own" /\ TargetCondition' = "busy" /\ UNCHANGED <<result, ExitCode>>
         => Command!InjectNext
    BY Zenon DEF Command!Hold
  <1>9. Unfinished /\ TargetCondition = "busy" /\ TargetCondition' = "wedged" /\ UNCHANGED <<result, ExitCode>>
         => Command!InjectNext
    BY Zenon DEF Command!Wedge
  <1>3. Unfinished /\ TargetCondition # "wedged" /\ result' = FALSE /\ UNCHANGED <<TargetCondition, ExitCode>>
         => Command!InjectNext
    BY Zenon DEF Command!Fail
  <1>4. Unfinished /\ TargetCondition = "busy" /\ TargetCondition' \in {"own", "loaded", "hooked"}
         /\ result' = TRUE /\ UNCHANGED ExitCode
         => Command!InjectNext
    BY Zenon DEF Command!Finish, Command!Running
  <1>5. result = FALSE /\ TargetCondition = "busy" /\ TargetCondition' \in {"own", "held", "stuck", "doomed"}
         /\ UNCHANGED <<result, ExitCode>>
         => Command!InjectNext
    BY Zenon DEF Command!Abandon
  <1>6. ~Unfinished /\ ExitCode = None /\ TargetCondition # "busy"
         /\ ExitCode' = (IF result THEN 0 ELSE 1) /\ UNCHANGED <<TargetCondition, result>>
         => Command!InjectNext
    BY Zenon DEF Command!Return
  <1>7. TargetCondition = "stuck" /\ TargetCondition' = "doomed" /\ UNCHANGED <<result, ExitCode>>
         => Command!InjectNext
    BY Zenon DEF Command!CallFaults
  <1>8. TargetCondition # "dead" /\ TargetCondition' = "dead" /\ UNCHANGED <<result, ExitCode>>
         => Command!InjectNext
    BY Zenon DEF Command!Die
  <1> QED BY <1>1, <1>2, <1>3, <1>4, <1>5, <1>6, <1>7, <1>8, <1>9, Zenon

\* The command ends with the last step of the injector only.
LEMMA ExitCodeSteps ==
    ASSUME pc # "done" \/ UNCHANGED result, pc' = "done" => pc = "done", pc = "done" => pc' = "done"
    PROVE  UNCHANGED ExitCode
  <1>1. CASE pc # "done"
    BY <1>1 DEF ExitCode
  <1>2. CASE pc = "done"
    <2>1. pc' = "done" /\ pc = "done" /\ result' = result
      BY <1>2
    <2> QED BY <2>1, Zenon DEF ExitCode
  <1> QED BY <1>1, <1>2

\* Before it has a result, the injector is at work on the thread, or has not
\* begun; a thread it has begun to use has no library and its own registers.
UnfinishedTarget ==
    TargetCondition = IF pc \in {"main", "attach"} THEN "own"
                      ELSE IF wedged /\ waiting THEN "wedged" ELSE "busy"

\* What is known of the target before there is a result.
LEMMA TargetWhileUnfinished ==
    ASSUME IInv, Unfinished, Alive
    PROVE  UnfinishedTarget
  <1>1. pc \notin {"detach", "exit", "done"} /\ ~Succeeded
    BY DEF IInv, Phases
  <1>2. regs = "call" \/ (regs = "own" /\ lib = "absent")
    BY <1>1 DEF IInv, OwnRegisters, Typed
  <1>3. pc \in {"main", "attach"} => regs = "own" /\ ~AtWork /\ ~pendingStop /\ thread # "held"
    BY <1>1, AtWorkIs DEF IInv, OwnRegisters, OutstandingStop, Phases
  <1>4. pc \notin {"main", "attach"} => AtWork
    BY <1>1, AtWorkIs DEF IInv, Phases
  <1> QED BY <1>2, <1>3, <1>4, TargetIs DEF TargetCases, UnfinishedTarget

\* Steps that leave the injection unfinished: the target stays as it is, is
\* held, or is held for good.
LEMMA UnfinishedSimulation ==
    ASSUME IInv, IInv', Unfinished, UNCHANGED result, Alive' <=> Alive,
           pc' \in {"main", "attach"} => pc \in {"main", "attach"},
           Alive /\ wedged /\ waiting => pc' \notin {"main", "attach"} /\ wedged' /\ waiting',
           pc \in {"main", "attach"} => ~(wedged' /\ waiting')
    PROVE  [Command!InjectNext]_(Command!injectVars)
  <1>1. Unfinished'
    BY ResultCases
  <1>2. Alive => UnfinishedTarget
    BY TargetWhileUnfinished
  <1>3. (Unfinished /\ IInv /\ Alive => UnfinishedTarget)'
    BY TargetWhileUnfinished, PTL
  <1>4. pc # "done" /\ pc' # "done"
    BY <1>1 DEF IInv, Phases
  <1>5. UNCHANGED ExitCode
    BY <1>4, ExitCodeSteps
  <1>6. pc \in {"main", "attach"} => ~(wedged /\ waiting)
    BY DEF IInv, Typed, Calls, LibcCalls, LibdlCalls
  <1>7. \/ TargetCondition' = TargetCondition
        \/ TargetCondition = "own" /\ TargetCondition' = "busy"
        \/ TargetCondition = "busy" /\ TargetCondition' = "wedged"
    <2>1. CASE ~Alive
      BY <2>1, TargetIs, TargetIsNext DEF TargetCases
    <2>2. CASE Alive
      BY <2>2, <1>1, <1>2, <1>3, <1>6 DEF UnfinishedTarget
    <2> QED BY <2>1, <2>2
  <1> QED BY <1>5, <1>7, CommandSteps

\* Steps that return false leave the target as it is.
LEMMA FailureSimulation ==
    ASSUME IInv, IInv', Unfinished, result' = FALSE, pc' = "detach", ~(Alive /\ wedged /\ waiting), ~waiting',
           UNCHANGED <<attached, thread, pendingStop, regs, callee, lib>>
    PROVE  [Command!InjectNext]_(Command!injectVars)
  <1>1. pc # "done" /\ pc # "exit" /\ ~Succeeded /\ ~Succeeded'
    BY ResultCases DEF IInv, Phases
  <1>2. UNCHANGED ExitCode
    BY <1>1, ExitCodeSteps
  <1>3. AtWork' <=> AtWork
    BY <1>1, AtWorkIs, AtWorkIsNext
  <1>4. Alive' <=> Alive
    BY DEF Alive
  <1>5. TargetCondition' = TargetCondition /\ TargetCondition # "wedged"
    BY <1>3, <1>4, TargetIs, TargetIsNext DEF TargetCases, IInv, Typed
  <1> QED BY <1>2, <1>5, CommandSteps

\* The injector's steps up to the result.
LEMMA InjectSimulation ==
    ASSUME IInv, IInv', Inject, ~Restore, ~Detach, ~Exit
    PROVE  [Command!InjectNext]_(Command!injectVars)
  <1> USE DEF injectorVars, threadVars, processVars, Goto, ReturnFalse
  <1>0. Unfinished
    BY DEF IInv, Phases, Calls, LibcCalls, LibdlCalls, Inject, Main, Attach, WaitForStop, Prepare, PrepareTransfer,
           RemotePreCall, RemotePreCallFails, RemotePostCall, SuppressSignal, DlopenUnresolved, SendMsg,
           ReadControlMessage
  <1>w. waiting => pc \in Calls
    BY DEF IInv, Typed
  <1>1. CASE Main \/ Attach \/ WaitForStop \/ Prepare \/ PrepareTransfer
    <2>1. \/ pc' = "detach" /\ result' = FALSE /\ waiting' = FALSE
             /\ UNCHANGED <<attached, thread, pendingStop, regs, callee, lib>>
          \/ UNCHANGED <<result, thread, waiting>> /\ (pc' \in {"main", "attach"} => pc \in {"main", "attach"})
      BY <1>1, Zenon DEF Main, Attach, WaitForStop, Prepare, PrepareTransfer
    <2>2. pc \in {"main", "attach", "wait", "prepare", "transfer"}
      BY <1>1, Zenon DEF Main, Attach, WaitForStop, Prepare, PrepareTransfer
    <2>3. ~waiting
      BY <2>2, <1>w DEF Calls, LibcCalls, LibdlCalls
    <2>4. ~waiting'
      BY <2>1, <2>3, Zenon
    <2> QED BY <2>1, <2>3, <2>4, <1>0, UnfinishedSimulation, FailureSimulation DEF Alive
  <1>2. ASSUME NEW c \in Calls, RemotePreCall(c) \/ SuppressSignal(c)
        PROVE  [Command!InjectNext]_(Command!injectVars)
    <2>1. UNCHANGED result /\ Alive /\ Alive' /\ pc' \notin {"main", "attach"} /\ pc \notin {"main", "attach"}
      BY <1>2, InjectorAssumption DEF RemotePreCall, SuppressSignal, RegsAccessible, Alive, IInv, Typed, Stops, Calls, LibcCalls, LibdlCalls
    <2>2. ~waiting \/ UNCHANGED <<wedged, waiting>>
      BY <1>2, Zenon DEF RemotePreCall, SuppressSignal
    <2>3. wedged /\ waiting => wedged' /\ waiting'
      BY <2>2, Zenon
    <2> QED BY <2>1, <2>3, <1>0, UnfinishedSimulation
  <1>3. ASSUME NEW c \in Calls, RemotePreCallFails(c) \/ RemotePostCall(c)
        PROVE  [Command!InjectNext]_(Command!injectVars)
    <2>1. UNCHANGED <<attached, thread, pendingStop, regs, callee, lib>>
      BY <1>3 DEF RemotePreCallFails, RemotePostCall
    <2>2. pc' \notin {"main", "attach"} /\ pc \notin {"main", "attach"}
      BY <1>0, <1>3, ResultCases DEF RemotePreCallFails, RemotePostCall, IInv, Phases, Calls, LibcCalls, LibdlCalls
    <2>3. UNCHANGED result \/ (pc' = "detach" /\ result' = FALSE)
      BY <1>3 DEF RemotePreCallFails, RemotePostCall, Continue
    <2>4. ~waiting'
      <3>1. waiting' = FALSE \/ (~waiting /\ UNCHANGED waiting)
        BY <1>3, Zenon DEF RemotePreCallFails, RemotePostCall, Continue
      <3> QED BY <3>1, Zenon
    <2>5. ~(Alive /\ wedged /\ waiting)
      <3>1. CASE RemotePreCallFails(c)
        BY <3>1, Zenon DEF RemotePreCallFails
      <3>2. CASE RemotePostCall(c)
        BY <3>2, InjectorAssumption DEF RemotePostCall, IInv, Typed, CallsInProgress, InCall, Alive, Stops
      <3> QED BY <1>3, <3>1, <3>2
    <2> QED BY <2>1, <2>2, <2>3, <2>4, <2>5, <1>0, UnfinishedSimulation, FailureSimulation DEF Alive
  <1>4. CASE DlopenUnresolved
    <2>1. ~waiting /\ ~waiting'
      BY <1>4, Zenon DEF DlopenUnresolved
    <2> QED BY <1>0, <1>4, <2>1, FailureSimulation DEF DlopenUnresolved
  <1>5. CASE SendMsg \/ ReadControlMessage
    <2>1. UNCHANGED <<result, thread>> /\ pc' \notin {"main", "attach"} /\ pc \notin {"main", "attach"} /\ pc \notin Calls
      BY <1>5 DEF SendMsg, ReadControlMessage, Calls, LibcCalls, LibdlCalls
    <2> QED BY <2>1, <1>0, <1>w, UnfinishedSimulation DEF Alive
  <1> QED BY <1>1, <1>2, <1>3, <1>4, <1>5 DEF Inject

\* Success is Finish; the thread is stopped, for it runs in no call.
LEMMA RestoreSimulation ==
    ASSUME IInv, IInv', Restore
    PROVE  [Command!InjectNext]_(Command!injectVars)
  <1>0. Unfinished /\ attached /\ pc = "restore" /\ pc' = "detach"
    BY DEF IInv, Phases, Restore
  <1>1. UNCHANGED ExitCode
    BY <1>0, ExitCodeSteps
  <1>2. CASE thread = "stopped"
    <2>1. Alive /\ Alive' /\ regs' = "own" /\ result' = TRUE /\ UNCHANGED lib
      BY <1>2, Zenon DEF Restore, RegsAccessible, Alive, processVars
    <2>2. lib \in {"absent", "loaded", "hooked"} /\ ~waiting
      BY <2>1, <1>0 DEF IInv, Typed, Calls, LibcCalls, LibdlCalls
    <2>3. ~AtWork' /\ ~pendingStop' /\ thread' # "held"
      <3>1. Succeeded'
        BY <2>1, Zenon DEF Succeeded
      <3>2. UNCHANGED thread
        BY DEF Restore
      <3> QED BY <3>1, <3>2, <1>2, AtWorkIsNext DEF IInv, OutstandingStop
    <2>5. TargetCondition' \in {"own", "loaded", "hooked"}
      BY <2>1, <2>2, <2>3, TargetIsNext DEF TargetCases
    <2>4. TargetCondition = "busy"
      BY <2>1, <2>2, <1>0, TargetWhileUnfinished DEF UnfinishedTarget
    <2> QED BY <2>1, <2>4, <2>5, <1>0, <1>1, CommandSteps
  <1>3. CASE thread # "stopped"
    <2>1. result' = FALSE /\ UNCHANGED <<attached, thread, pendingStop, regs, callee, lib>>
      BY <1>3, Zenon DEF Restore, RegsAccessible, processVars
    <2>2. ~waiting /\ pc' = "detach"
      BY <1>0 DEF IInv, Typed, Calls, LibcCalls, LibdlCalls
    <2>3. ~waiting'
      BY Zenon DEF Restore
    <2> QED BY <2>1, <2>2, <2>3, <1>0, FailureSimulation
  <1> QED BY <1>2, <1>3

\* Detaching leaves what the failure left: untouched, held, stuck or doomed.
LEMMA DetachSimulation ==
    ASSUME IInv, IInv', Detach
    PROVE  [Command!InjectNext]_(Command!injectVars)
  <1> USE DEF processVars
  <1>0. pc = "detach" /\ pc' = "exit" /\ ~Unfinished
    BY DEF IInv, Phases, Detach, Goto
  <1>1. UNCHANGED result /\ UNCHANGED ExitCode
    BY <1>0, ExitCodeSteps DEF Detach, Goto
  <1>2. UNCHANGED <<pendingStop, regs, callee, lib>> /\ (Alive' <=> Alive)
    BY DEF Detach, Alive
  <1>3. thread' = "held" <=> thread = "held"
    BY DEF Detach
  <1>4. CASE ~Alive
    BY <1>1, <1>2, <1>4, TargetIs, TargetIsNext, CommandSteps DEF TargetCases
  <1>5. CASE Alive /\ Succeeded
    <2>1. regs = "own" /\ ~AtWork /\ ~AtWork'
      BY <1>0, <1>1, <1>5, AtWorkIs, AtWorkIsNext, ResultCases DEF IInv, Success
    <2>2. TargetCondition' = TargetCondition
      BY <1>2, <1>3, <1>5, <2>1, TargetIs, TargetIsNext DEF TargetCases
    <2> QED BY <1>1, <2>2, CommandSteps
  <1>6. CASE Alive /\ ~Succeeded
    <2>1. result = FALSE
      BY <1>6, <1>0, Zenon DEF IInv, TruthValues, Succeeded, Unfinished
    <2>2. regs = "call" \/ (regs = "own" /\ lib = "absent")
      BY <1>6 DEF IInv, Typed, OwnRegisters
    <2>3. TargetCondition' \in {"own", "held", "stuck", "doomed"}
      BY <1>0, <1>2, <1>6, <2>2, TargetIsNext, AtWorkIsNext DEF TargetCases
    <2>6. ~waiting
      BY <1>0 DEF IInv, Typed, Calls, LibcCalls, LibdlCalls
    <2>4. CASE attached
      <3>1. TargetCondition = "busy"
        BY <1>0, <1>6, <2>2, <2>4, <2>6, TargetIs, AtWorkIs DEF TargetCases
      <3> QED BY <3>1, <2>1, <2>3, <1>1, CommandSteps
    <2>5. CASE ~attached
      <3>1. TargetCondition' = TargetCondition
        BY <1>0, <1>2, <1>3, <1>6, <2>2, <2>5, TargetIs, TargetIsNext, AtWorkIs, AtWorkIsNext DEF TargetCases
      <3> QED BY <3>1, <1>1, CommandSteps
    <2> QED BY <2>4, <2>5
  <1> QED BY <1>4, <1>5, <1>6

\* The exit of the injector is Return; it changes nothing that the thread,
\* once left, depends on.
LEMMA ExitSimulation ==
    ASSUME IInv, IInv', Exit
    PROVE  [Command!InjectNext]_(Command!injectVars)
  <1> USE DEF processVars
  <1>0. pc = "exit" /\ pc' = "done" /\ ~Unfinished
    BY DEF IInv, Phases, Exit, Goto
  <1>1. UNCHANGED result /\ ExitCode = None
    BY <1>0 DEF Exit, Goto, ExitCode
  <1>2. ExitCode' = IF result THEN 0 ELSE 1
    BY <1>0, <1>1, Zenon DEF ExitCode
  <1>3. UNCHANGED <<pendingStop, regs, callee, lib>> /\ (Alive' <=> Alive) /\ (thread' = "held" <=> thread = "held")
    BY DEF Exit, Alive
  <1>4. ~AtWork /\ ~AtWork' /\ regs \in {"own", "call"} /\ lib \in {"absent", "loaded", "hooked"}
    BY <1>0, AtWorkIs, AtWorkIsNext DEF IInv, Typed, Exit
  <1>5. TargetCondition' = TargetCondition /\ TargetCondition # "busy"
    BY <1>3, <1>4, TargetIs, TargetIsNext DEF TargetCases
  <1> QED BY <1>0, <1>1, <1>2, <1>5, CommandSteps

\* What keystore2 and the kernel do is seen only when it ends a call that
\* keystore2 was left in, or keystore2 itself.
LEMMA KernelSimulation ==
    ASSUME IInv, IInv', Kernel \/ SignalArrives \/ Killed
    PROVE  [Command!InjectNext]_(Command!injectVars)
  <1> USE DEF injectorVars, processVars
  <1>0. UNCHANGED <<pc, result, ExitCode>>
    <2>1. UNCHANGED <<pc, result>>
      BY DEF Kernel, SignalArrives, Killed, FunctionReturns, FunctionCrashes, FunctionWedges, StopDelivered, Faults
    <2> QED BY <2>1, ExitCodeSteps
  <1>w. UNCHANGED waiting
    BY Zenon DEF Kernel, SignalArrives, Killed, FunctionReturns, FunctionCrashes, FunctionWedges, StopDelivered, Faults
  <1>r. (Succeeded' <=> Succeeded) /\ (Unfinished' <=> Unfinished)
    BY <1>0, ResultCases
  <1>1. CASE Killed \/ Faults
    <2>1. Alive /\ ~Alive'
      BY <1>1 DEF Killed, Faults, Doomed, Alive
    <2>2. TargetCondition # "dead" /\ TargetCondition' = "dead"
      BY <2>1, TargetIs, TargetIsNext DEF TargetCases, IInv, Typed
    <2> QED BY <2>2, <1>0, CommandSteps
  <1>2. CASE SignalArrives
    <2>1. Alive /\ Alive' /\ thread # "held" /\ thread' # "held" /\ UNCHANGED <<attached, pendingStop, regs, callee, wedged, lib>>
      BY <1>2 DEF SignalArrives, Alive
    <2>3. AtWork' <=> AtWork
      BY <1>0, <1>r, <2>1, AtWorkIs, AtWorkIsNext
    <2>2. TargetCondition' = TargetCondition
      BY <1>0, <1>w, <2>1, <2>3, TargetIs, TargetIsNext DEF TargetCases, IInv, Typed
    <2> QED BY <2>2, <1>0, CommandSteps
  <1>3. CASE StopDelivered
    <2>1. regs = "own" /\ lib = "absent" /\ Alive /\ Alive' /\ UNCHANGED <<attached, regs, lib>>
      BY <1>3 DEF StopDelivered, IInv, OutstandingStop, OwnRegisters, Alive
    <2>4. AtWork' <=> AtWork
      BY <1>0, <1>r, <2>1, AtWorkIs, AtWorkIsNext
    <2>5. ~waiting /\ ~waiting'
      BY <1>w, <2>1, Zenon DEF IInv, OwnRegisters
    <2>2. CASE attached
      <3>1. pc = "wait"
        BY <1>3, <2>1, <2>2 DEF StopDelivered, IInv, OutstandingStop
      <3>2. TargetCondition' = TargetCondition
        BY <1>0, <2>1, <2>2, <2>4, <2>5, <3>1, TargetIs, TargetIsNext, AtWorkIs, ResultCases DEF TargetCases, IInv, OutstandingStop
      <3> QED BY <3>2, <1>0, CommandSteps
    <2>3. CASE ~attached
      <3>1. pendingStop /\ thread' = "held"
        BY <1>3, <2>3 DEF StopDelivered
      <3>2. TargetCondition' = TargetCondition
        BY <2>1, <2>3, <2>4, <3>1, TargetIs, TargetIsNext, AtWorkIs DEF TargetCases
      <3> QED BY <3>2, <1>0, CommandSteps
    <2> QED BY <2>2, <2>3
  <1>4. CASE FunctionReturns \/ FunctionCrashes
    <2>1. regs = "call" /\ regs' = "call" /\ callee # None /\ callee' = None /\ Alive /\ UNCHANGED attached
      BY <1>4 DEF FunctionReturns, FunctionCrashes, IInv, OwnRegisters, Typed, Alive
    <2>2. Alive' \/ ~attached
      BY <1>4 DEF FunctionReturns, FunctionCrashes, Alive
    <2>3. AtWork' <=> AtWork
      BY <1>0, <1>r, <2>1, AtWorkIs, AtWorkIsNext
    <2>4. CASE AtWork
      <3>1. attached /\ Alive'
        BY <2>2, <2>4, AtWorkIs
      <3>2. ~wedged
        BY <1>4, <3>1, Zenon DEF FunctionReturns, FunctionCrashes
      <3>3. ~wedged'
        BY <2>1 DEF IInv, Typed
      <3>4. TargetCondition' = TargetCondition
        BY <2>1, <2>3, <2>4, <3>1, <3>2, <3>3, TargetIs, TargetIsNext DEF TargetCases
      <3> QED BY <3>4, <1>0, CommandSteps
    <2>5. CASE ~AtWork
      <3>1. TargetCondition = "stuck" /\ TargetCondition' \in {"doomed", "dead"}
        BY <2>1, <2>3, <2>5, TargetIs, TargetIsNext DEF TargetCases
      <3> QED BY <3>1, <1>0, CommandSteps
    <2> QED BY <2>4, <2>5
  <1>5. CASE FunctionWedges
    <2>1. /\ regs = "call" /\ regs' = "call" /\ callee # None /\ Alive /\ Alive' /\ UNCHANGED <<attached, callee>>
          /\ wedged'
      BY <1>5 DEF FunctionWedges, IInv, OwnRegisters, Typed, Alive
    <2>2. AtWork' <=> AtWork
      BY <1>0, <1>r, <2>1, AtWorkIs, AtWorkIsNext
    <2>3. Unfinished \/ ~waiting
      BY DEF IInv, Phases, Typed, Calls, LibcCalls, LibdlCalls
    <2>4. \/ TargetCondition' = TargetCondition
          \/ Unfinished /\ TargetCondition = "busy" /\ TargetCondition' = "wedged"
      <3>1. CASE waiting /\ AtWork
        BY <3>1, <1>w, <2>1, <2>2, <2>3, TargetIs, TargetIsNext DEF TargetCases
      <3>2. CASE ~waiting \/ ~AtWork
        BY <3>2, <1>w, <2>1, <2>2, TargetIs, TargetIsNext DEF TargetCases
      <3> QED BY <3>1, <3>2
    <2> QED BY <2>4, <1>0, CommandSteps
  <1> QED BY <1>1, <1>2, <1>3, <1>4, <1>5 DEF Kernel

\* Every step of the injector and of keystore2 is a step of the command.
LEMMA StepSimulation ==
    ASSUME IInv, IInv', [Next]_vars
    PROVE  [Command!InjectNext]_(Command!injectVars)
  <1>1. CASE UNCHANGED vars
    <2>1. UNCHANGED <<TargetCondition, result, ExitCode>>
      BY <1>1 DEF vars, injectorVars, threadVars, processVars, TargetCondition, ExitCode, Alive, AtWork
    <2> QED BY <2>1, CommandSteps
  <1>2. CASE Inject
    BY <1>2, InjectSimulation, RestoreSimulation, DetachSimulation, ExitSimulation
  <1>3. CASE Kernel \/ SignalArrives \/ Killed
    BY <1>3, KernelSimulation
  <1> QED BY <1>1, <1>2, <1>3 DEF Next

\* The injector implements the steps of InjectCommand: one verdict and none
\* while a call never returns, success only with the thread back in its own
\* code, failure only with keystore2 untouched, stopped or lost for good, for
\* all mappings and all failures, faults, calls that go astray, signals and
\* deaths (main.cpp:357-437, utils.cpp:298-465).  That the command ends when
\* no call hangs is checked with TLC.
THEOREM ImplementsCommandSteps ==
    Spec => Command!InjectInit /\ [][Command!InjectNext]_(Command!injectVars)
  <1>1. Init => Command!InjectInit
    <2> SUFFICES ASSUME Init PROVE Command!InjectInit
      OBVIOUS
    <2>1. TargetCondition = "own"
      BY TargetIs, AtWorkIs DEF Init, TargetCases, Alive
    <2>2. ExitCode = None /\ result = None
      BY DEF Init, ExitCode
    <2> QED BY <2>1, <2>2 DEF Command!InjectInit
  <1> QED BY <1>1, Invariant, StepSimulation, PTL DEF Spec
=============================================================================
