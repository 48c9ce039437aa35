-------------------------- MODULE NativeInterceptor --------------------------
(***************************************************************************)
(* The library injected into keystore2 (binder_interceptor.cpp) and the    *)
(* daemon's end of its protocol (BinderInterceptor.kt).                    *)
(*                                                                         *)
(* The ioctl hook looks at every buffer that the kernel hands to a binder  *)
(* thread, one transaction after the other: it takes the lock of the       *)
(* registry for each.  A transaction to intercept is redirected to the     *)
(* stub, and what it was is pushed on a queue of the thread.  When         *)
(* libbinder later executes the transaction, the stub pops the queue, asks *)
(* the daemon (pre), calls the real object, asks the daemon again (post).  *)
(* While it waits for the daemon the thread may be given further           *)
(* transactions, which it executes before it goes on.                      *)
(*                                                                         *)
(* A transaction is an id; its target and what it is to the hook are drawn *)
(* when it arrives.  Parcels are not modelled: that copying one failed is  *)
(* a choice.  RESULT_OVERRIDE_DATA, which the daemon never sends, is left  *)
(* out.                                                                    *)
(***************************************************************************)
EXTENDS Integers, Sequences, SequencesExt

CONSTANTS
    Threads,     \* binder threads of keystore2
    Txns,        \* transactions
    Targets,     \* the service and its security levels
    None,
    MaxBatch,    \* transactions in one read buffer
    MaxDepth,    \* transactions a thread is serving at once
    MaxDaemons,  \* daemons started
    MayFail      \* "parcel": copying a parcel may fail; "target": targets may go

VARIABLES
    registry,   \* interceptor_registry_: the daemon registered for each target
    targets,    \* the targets that are still alive
    daemon,     \* the number of the current daemon, 0 before the first
    alive,      \* it runs
    mIn,        \* transactions a thread has read and not executed
    scanned,    \* how many of them the hook has looked at
    queue,      \* g_thread_transaction_queue
    stack,      \* the intercepted transactions a thread is serving
    executed,   \* how often the real object has executed each transaction
    answer,     \* what the caller of each transaction got
    lostPost    \* transactions whose post hook could not be asked

vars == <<registry, targets, daemon, alive, mIn, scanned, queue, stack, executed, answer, lostPost>>

\* backdoor: kBackdoorCode from root; hooked: a code of the target's
\* allow-list; other: any other code, kBackdoorCode from an application too.
Kinds == {"backdoor", "hooked", "other"}

Answers == {"REAL", "PRE_OVERRIDE", "POST_OVERRIDE", "BACKDOOR", "DEAD_OBJECT", "UNKNOWN_TRANSACTION"}

ASSUME NativeAssumption ==
    /\ None \notin Targets \cup Answers
    /\ MaxBatch \in Nat \ {0} /\ MaxDepth \in Nat \ {0} /\ MaxDaemons \in Nat
    /\ MayFail \subseteq {"parcel", "target"}

Commands == [id : Txns, target : Targets, kind : Kinds, redirected : BOOLEAN]

\* ThreadTransactionInfo, with the transaction it was pushed for.
Infos == [id : Txns, target : Targets \cup {None}]

Frames == [id : Txns, target : Targets, interceptor : 0..MaxDaemons, pc : {"pre", "post"}]

TypeOK ==
    /\ registry \in [Targets -> 0..MaxDaemons]
    /\ targets \subseteq Targets
    /\ daemon \in 0..MaxDaemons
    /\ alive \in BOOLEAN
    /\ mIn \in [Threads -> Seq(Commands)]
    /\ scanned \in [Threads -> Nat] /\ \A t \in Threads : scanned[t] <= Len(mIn[t])
    /\ queue \in [Threads -> Seq(Infos)]
    /\ stack \in [Threads -> Seq(Frames)]
    /\ executed \in [Txns -> 0..2]
    /\ answer \in [Txns -> Answers \cup {None}]
    /\ lostPost \subseteq Txns

-----------------------------------------------------------------------------
(* The ioctl hook *)

\* shouldInterceptTransaction; 0 stands for no registration.
ShouldIntercept(target, kind) == kind = "hooked" /\ target \in targets /\ registry[target] # 0

\* processBinderTransaction: the command with its target rewritten.
Redirect(cmd) ==
    [cmd EXCEPT !.redirected = cmd.kind = "backdoor" \/ ShouldIntercept(cmd.target, cmd.kind)]

InfoOf(cmd) == [id |-> cmd.id, target |-> IF cmd.kind = "backdoor" THEN None ELSE cmd.target]

\* Transactions that have reached no thread yet.
Arriving == {x \in Txns : /\ answer[x] = None
                          /\ executed[x] = 0
                          /\ \A t \in Threads : /\ \A i \in DOMAIN mIn[t] : mIn[t][i].id # x
                                                /\ \A i \in DOMAIN stack[t] : stack[t][i].id # x}

\* The original ioctl hands a buffer to the thread.  libbinder asks for it
\* only when it has executed what it had read: in the looper, or while it
\* waits for the daemon's reply.
Read(t, batch) ==
    /\ mIn[t] = <<>>
    /\ Len(stack[t]) < MaxDepth
    /\ mIn' = [mIn EXCEPT ![t] = batch]
    /\ UNCHANGED <<registry, targets, daemon, alive, scanned, queue, stack, executed, answer, lostPost>>

\* Mutant: the transaction is pushed as on a stack.
ProcessPushingFront(t) ==
    LET k   == scanned[t] + 1
        cmd == Redirect(mIn[t][k])
    IN  /\ k <= Len(mIn[t])
        /\ mIn' = [mIn EXCEPT ![t][k] = cmd]
        /\ scanned' = [scanned EXCEPT ![t] = k]
        /\ queue' = IF cmd.redirected THEN [queue EXCEPT ![t] = <<InfoOf(cmd)>> \o @] ELSE queue
        /\ UNCHANGED <<registry, targets, daemon, alive, stack, executed, answer, lostPost>>

\* One round of the loop of processBinderWriteRead.
ProcessBinderTransaction(t) ==
    LET k   == scanned[t] + 1
        cmd == Redirect(mIn[t][k])
    IN  /\ k <= Len(mIn[t])
        /\ mIn' = [mIn EXCEPT ![t][k] = cmd]
        /\ scanned' = [scanned EXCEPT ![t] = k]
        /\ queue' = IF cmd.redirected THEN [queue EXCEPT ![t] = Append(@, InfoOf(cmd))] ELSE queue
        /\ UNCHANGED <<registry, targets, daemon, alive, stack, executed, answer, lostPost>>

-----------------------------------------------------------------------------
(* Executing a transaction *)

Reply(x, a) == answer' = [answer EXCEPT ![x] = a]

\* The real object executes the transaction and its reply is the answer.
Forward(x) ==
    /\ executed' = [executed EXCEPT ![x] = @ + 1]
    /\ Reply(x, "REAL")

\* libbinder executes the first transaction of a buffer when ioctl returns.
Executing(t) ==
    /\ mIn[t] # <<>> /\ scanned[t] = Len(mIn[t])
    /\ mIn' = [mIn EXCEPT ![t] = Tail(@)]
    /\ scanned' = [scanned EXCEPT ![t] = @ - 1]

\* A transaction that was not redirected.
ExecuteReal(t) ==
    /\ Executing(t)
    /\ ~Head(mIn[t]).redirected
    /\ Forward(Head(mIn[t]).id)
    /\ UNCHANGED <<registry, targets, daemon, alive, queue, stack, lostPost>>

\* What the stub answers by itself, None when it serves the target.
StubAnswer(q) ==
    IF q = <<>> THEN "UNKNOWN_TRANSACTION"
    ELSE IF Head(q).target = None THEN "BACKDOOR"
    ELSE IF Head(q).target \notin targets THEN "DEAD_OBJECT"
    ELSE None

\* BinderStub::onTransact: it takes the transaction to be the one queued.
ExecuteStub(t) ==
    LET x == Head(mIn[t]).id
        q == queue[t]
    IN  /\ Executing(t)
        /\ Head(mIn[t]).redirected
        /\ queue' = [queue EXCEPT ![t] = IF @ = <<>> THEN @ ELSE Tail(@)]
        /\ \/ /\ StubAnswer(q) # None
              /\ Reply(x, StubAnswer(q))
              /\ UNCHANGED stack
           \/ /\ StubAnswer(q) = None
              /\ stack' = [stack EXCEPT ![t] = Append(@,
                    [id |-> x, target |-> Head(q).target, interceptor |-> registry[Head(q).target],
                     pc |-> "pre"])]
              /\ UNCHANGED answer
        /\ UNCHANGED <<registry, targets, daemon, alive, executed, lostPost>>

\* The innermost transaction a thread is serving, once it has nothing read.
Waiting(t, pc) == stack[t] # <<>> /\ mIn[t] = <<>> /\ Last(stack[t]).pc = pc

Reachable(f) == alive /\ f.interceptor = daemon

Pop(t) == stack' = [stack EXCEPT ![t] = Front(@)]

\* Mutant: the post hook is asked after OverrideReply too.
PreOverrideContinues(t) ==
    LET f == Last(stack[t])
    IN  /\ Waiting(t, "pre")
        /\ Reachable(f)
        /\ Reply(f.id, "PRE_OVERRIDE")
        /\ stack' = [stack EXCEPT ![t] = Append(Front(@), [f EXCEPT !.pc = "post"])]
        /\ UNCHANGED <<registry, targets, daemon, alive, mIn, scanned, queue, executed, lostPost>>

\* The pre hook answered; a hook that threw answers Skip.
PreReply(t) ==
    LET f == Last(stack[t])
    IN  /\ Waiting(t, "pre")
        /\ Reachable(f)
        /\ \/ /\ Forward(f.id)                             \* Skip
              /\ Pop(t)
           \/ /\ Reply(f.id, "PRE_OVERRIDE")               \* OverrideReply
              /\ Pop(t)
              /\ UNCHANGED executed
           \/ /\ executed' = [executed EXCEPT ![f.id] = @ + 1]   \* Continue
              /\ stack' = [stack EXCEPT ![t] = Append(Front(@), [f EXCEPT !.pc = "post"])]
              /\ UNCHANGED answer
        /\ UNCHANGED <<registry, targets, daemon, alive, mIn, scanned, queue, lostPost>>

\* Mutant: the stub waits for a daemon to register.
PreFailsWaits(t) ==
    LET f == Last(stack[t])
    IN  /\ Waiting(t, "pre")
        /\ alive /\ registry[f.target] = daemon
        /\ ~Reachable(f) \/ "parcel" \in MayFail
        /\ Forward(f.id)
        /\ Pop(t)
        /\ UNCHANGED <<registry, targets, daemon, alive, mIn, scanned, queue, lostPost>>

\* The daemon cannot be asked: the stub forwards.
PreFails(t) ==
    LET f == Last(stack[t])
    IN  /\ Waiting(t, "pre")
        /\ ~Reachable(f) \/ "parcel" \in MayFail
        /\ Forward(f.id)
        /\ Pop(t)
        /\ UNCHANGED <<registry, targets, daemon, alive, mIn, scanned, queue, lostPost>>

\* Mutant: Skip forwards after the real call as it does before it.
PostSkipForwards(t) ==
    LET f == Last(stack[t])
    IN  /\ Waiting(t, "post")
        /\ Reachable(f)
        /\ \/ Forward(f.id)
           \/ Reply(f.id, "POST_OVERRIDE") /\ UNCHANGED executed
        /\ Pop(t)
        /\ UNCHANGED <<registry, targets, daemon, alive, mIn, scanned, queue, lostPost>>

PostReply(t) ==
    LET f == Last(stack[t])
    IN  /\ Waiting(t, "post")
        /\ Reachable(f)
        /\ \E a \in {"REAL", "POST_OVERRIDE"} : Reply(f.id, a)
        /\ Pop(t)
        /\ UNCHANGED <<registry, targets, daemon, alive, mIn, scanned, queue, executed, lostPost>>

\* Mutant: the failed post hook is tried again after the real call.
PostFailsRetries(t) ==
    LET f == Last(stack[t])
    IN  /\ Waiting(t, "post")
        /\ ~Reachable(f) \/ "parcel" \in MayFail
        /\ Forward(f.id)
        /\ lostPost' = lostPost \cup {f.id}
        /\ UNCHANGED <<registry, targets, daemon, alive, mIn, scanned, queue, stack>>

\* The same failure path as before the call: the stub forwards again.
PostFails(t) ==
    LET f == Last(stack[t])
    IN  /\ Waiting(t, "post")
        /\ ~Reachable(f) \/ "parcel" \in MayFail
        /\ Forward(f.id)
        /\ lostPost' = lostPost \cup {f.id}
        /\ Pop(t)
        /\ UNCHANGED <<registry, targets, daemon, alive, mIn, scanned, queue>>

-----------------------------------------------------------------------------
(* The daemon and the targets *)

\* handleRegisterInterceptor, for a daemon that has obtained the backdoor.
Register(target) ==
    /\ alive
    /\ target \in targets
    /\ registry[target] # daemon
    /\ registry' = [registry EXCEPT ![target] = daemon]
    /\ UNCHANGED <<targets, daemon, alive, mIn, scanned, queue, stack, executed, answer, lostPost>>

DaemonStarts ==
    /\ ~alive
    /\ daemon < MaxDaemons
    /\ daemon' = daemon + 1
    /\ alive' = TRUE
    /\ UNCHANGED <<registry, targets, mIn, scanned, queue, stack, executed, answer, lostPost>>

DaemonDies ==
    /\ alive
    /\ alive' = FALSE
    /\ UNCHANGED <<registry, targets, daemon, mIn, scanned, queue, stack, executed, answer, lostPost>>

TargetGone(target) ==
    /\ "target" \in MayFail
    /\ target \in targets
    /\ targets' = targets \ {target}
    /\ UNCHANGED <<registry, daemon, alive, mIn, scanned, queue, stack, executed, answer, lostPost>>

-----------------------------------------------------------------------------
Init ==
    /\ registry = [target \in Targets |-> 0]
    /\ targets = Targets
    /\ daemon = 0
    /\ alive = FALSE
    /\ mIn = [t \in Threads |-> <<>>]
    /\ scanned = [t \in Threads |-> 0]
    /\ queue = [t \in Threads |-> <<>>]
    /\ stack = [t \in Threads |-> <<>>]
    /\ executed = [x \in Txns |-> 0]
    /\ answer = [x \in Txns |-> None]
    /\ lostPost = {}

\* Buffers of at most MaxBatch transactions that have just arrived.
Batches ==
    {b \in UNION {[1..n -> [id : Arriving, target : targets, kind : Kinds, redirected : {FALSE}]]
                     : n \in 1..MaxBatch} :
        \A i, j \in DOMAIN b : b[i].id = b[j].id => i = j}

Serve(t) ==
    \/ ProcessBinderTransaction(t)
    \/ ExecuteReal(t) \/ ExecuteStub(t)
    \/ PreReply(t) \/ PreFails(t)
    \/ PostReply(t) \/ PostFails(t)

Next ==
    \/ \E t \in Threads : Serve(t) \/ \E b \in Batches : Read(t, b)
    \/ \E target \in Targets : Register(target) \/ TargetGone(target)
    \/ DaemonStarts
    \/ DaemonDies

\* Binder threads run, and a daemon that is alive answers.
Spec == Init /\ [][Next]_vars /\ \A t \in Threads : WF_vars(Serve(t))

-----------------------------------------------------------------------------
(* Properties *)

\* The infos are those of the redirected commands, in their order.
Aligned(cmds, infos) ==
    LET redirected == {i \in DOMAIN cmds : cmds[i].redirected}
    IN  \E at \in [DOMAIN infos -> redirected] :
            /\ \A i \in redirected : \E j \in DOMAIN infos : at[j] = i
            /\ \A j, k \in DOMAIN infos : j < k => at[j] < at[k]
            /\ \A j \in DOMAIN infos : infos[j] = InfoOf(cmds[at[j]])

\* The queue of a thread holds exactly the infos of the redirected
\* transactions it has read and not executed, in their order, also when it is
\* given transactions while it waits for the daemon
\* (binder_interceptor.cpp:95, 106-107, 175): the stub never serves one
\* transaction with the target of another.
QueueAligned == \A t \in Threads : Aligned(mIn[t], queue[t])

\* An answered transaction was executed once by the real object, or never
\* when the stub or the pre hook answered it; twice exactly when the real call
\* was made and the post hook could then not be asked
\* (binder_interceptor.cpp:389-413 and 119-123), which the caller cannot tell.
ExecutedOnce ==
    \A x \in Txns :
        /\ executed[x] = 2 <=> x \in lostPost
        /\ answer[x] \in {"REAL", "POST_OVERRIDE"} => executed[x] >= 1
        /\ answer[x] \in Answers \ {"REAL", "POST_OVERRIDE"} => executed[x] = 0

\* Once its caller has an answer a transaction is neither executed nor
\* answered again, whatever the thread was serving around it
\* (binder_interceptor.cpp:97-129, 330-430).
AnsweredForGood ==
    [][\A x \in Txns : answer[x] # None => UNCHANGED <<answer[x], executed[x]>>]_vars

\* No transaction is left without an answer, whenever the daemon dies
\* (every failure of handleInterceptedTransaction forwards to the target).
EveryAnswered == \A x \in Txns : x \notin Arriving ~> answer[x] # None
=============================================================================
