---------------------------- MODULE TeeProbeProofs ----------------------------
(***************************************************************************)
(* Proofs about TeeProbe: the stored decision is the one the probe made,   *)
(* and the thread gives up late, for all devices, starts of the daemon and *)
(* races with the hooks.                                                   *)
(*                                                                         *)
(* DecisionFollowsState is not inductive: a later attempt could change a   *)
(* decided state.  IInv adds that attempts are made only while the state   *)
(* is UNKNOWN, and what the thread has slept at each point of its loop.    *)
(***************************************************************************)
EXTENDS TeeProbe, TLAPS

\* At least the sum of DelayMs(1) to DelayMs(n).
Schedule(n) ==
    IF n = 0 THEN 0 ELSE IF n = 1 THEN 2000 ELSE IF n = 2 THEN 6000 ELSE 15000 * n - 31000

\* A value that was stored or is about to be is the decision.
Followed(v) == v # None => state # "UNKNOWN" /\ v = (state = "BROKEN")

Undecided ==
    /\ pc \in {"down", "probe", "classify", "apply", "boot", "sleep"} => state = "UNKNOWN"
    /\ pc = "notify" => state \in {"WORKING", "BROKEN"}
    /\ pc = "classify" => outcome \in Errors \cup {"none"}
    /\ pc = "apply" => result \in {"WORKING", "TRANSIENT", "BROKEN"}

Rounds ==
    /\ pc \in {"probe", "classify", "apply", "notify"} =>
         attempt <= MaxAttempts /\ slept >= Schedule(attempt)
    /\ pc \in {"retry", "boot", "sleep", "done"} => attempt >= 1 /\ slept >= Schedule(attempt - 1)
    /\ pc \in {"boot", "sleep"} => attempt <= MaxAttempts
    /\ pc = "done" /\ state = "UNKNOWN" => attempt > MaxAttempts

Decisions == Followed(teeBroken) /\ Followed(hook)

IInv == TypeOK /\ Undecided /\ Rounds /\ Decisions

-----------------------------------------------------------------------------
\* The delay before attempt n, and what it adds to the schedule.
LEMMA Delays ==
    ASSUME NEW n \in Nat \ {0}
    PROVE  /\ DelayMs(n) \in Nat
           /\ Schedule(n - 1) \in Nat /\ Schedule(n) = Schedule(n - 1) + DelayMs(n)
<1>1. CASE n = 1
  <2>1. DelayMs(n) = 2000
    BY <1>1 DEF DelayMs
  <2> QED
    BY <1>1, <2>1 DEF Schedule
<1>2. CASE n = 2
  <2>1. DelayMs(n) = 4000
    BY <1>2 DEF DelayMs
  <2> QED
    BY <1>2, <2>1 DEF Schedule
<1>3. CASE n = 3
  <2>1. DelayMs(n) = 8000
    BY <1>3 DEF DelayMs
  <2> QED
    BY <1>3, <2>1 DEF Schedule
<1>4. CASE n >= 4
  <2> DEFINE shift == IF n - 1 > 3 THEN 3 ELSE n - 1
             delay == 2000 * 2^shift
  <2>1. shift = 3
    BY <1>4
  <2> HIDE DEF shift
  <2>2. delay = 16000
    BY <2>1
  <2> HIDE DEF delay
  <2>3. DelayMs(n) = IF delay > 15000 THEN 15000 ELSE delay
    BY DEF DelayMs, shift, delay
  <2>4. DelayMs(n) = 15000
    BY <2>2, <2>3
  <2> QED
    BY <1>4, <2>4 DEF Schedule
<1> QED
  BY <1>1, <1>2, <1>3, <1>4

-----------------------------------------------------------------------------
(* The steps *)

\* The variables that hold truth values, apart: they are reasoned about
\* without arithmetic.
TruthValues ==
    /\ capable \in BOOLEAN /\ booted \in BOOLEAN /\ provisioned \in BOOLEAN
    /\ teeBroken \in BOOLEAN \cup {None}
    /\ status \in BOOLEAN \cup {None}
    /\ hook \in BOOLEAN \cup {None}

Typed ==
    /\ pc \in PCs
    /\ attempt \in 0..(MaxAttempts + 1)
    /\ slept \in Nat
    /\ bootstrap \in {"pending", "ready", "failed"}
    /\ outcome \in Errors \cup {"none", None}
    /\ result \in {"WORKING", "TRANSIENT", "BROKEN", None}
    /\ state \in {"UNKNOWN", "WORKING", "BROKEN"}
    /\ starts \in 0..MaxStarts

LEMMA TypeParts == TypeOK <=> TruthValues /\ Typed
  BY Zenon DEF TypeOK, TruthValues, Typed

LEMMA TruthStep ==
    ASSUME TruthValues, [Next]_vars
    PROVE  TruthValues'
<1>1. CASE BootCompletes
  BY <1>1, Zenon DEF TruthValues, BootCompletes, deviceVars, loopVars, storeVars
<1>2. CASE Provisioned
  BY <1>2, Zenon DEF TruthValues, Provisioned, deviceVars, loopVars, storeVars
<1>3. CASE Bootstrap
  BY <1>3, Zenon DEF TruthValues, Bootstrap, deviceVars, loopVars, storeVars
<1>4. CASE ProbeUnavailable
  BY <1>4, Zenon DEF TruthValues, ProbeUnavailable, deviceVars, loopVars, storeVars
<1>5. CASE GenerateKeyPair
  BY <1>5, Zenon DEF TruthValues, GenerateKeyPair, Outcomes, Errors, deviceVars, loopVars, storeVars
<1>6. CASE ClassifyException
  BY <1>6, Zenon DEF TruthValues, ClassifyException, ClassifySignals, deviceVars, loopVars, storeVars
<1>7. CASE TransitionTo
  BY <1>7, Zenon DEF TruthValues, TransitionTo, ResolveState, deviceVars, loopVars, storeVars
<1>8. CASE StateListener
  BY <1>8, Zenon DEF TruthValues, StateListener, PersistTeeBroken, deviceVars, loopVars, storeVars
<1>9. CASE Retry
  BY <1>9, Zenon DEF TruthValues, Retry, ShouldContinueRetrying, deviceVars, loopVars, storeVars
<1>10. CASE WaitForBootCompleted
  BY <1>10, Zenon DEF TruthValues, WaitForBootCompleted, deviceVars, loopVars, storeVars
<1>11. CASE Sleep
  BY <1>11, Zenon DEF TruthValues, Sleep, deviceVars, loopVars, storeVars
<1>12. CASE HookReadsState
  BY <1>12, Zenon DEF TruthValues, HookReadsState, deviceVars, loopVars, storeVars
<1>13. CASE HookStoresStatus
  BY <1>13, Zenon DEF TruthValues, HookStoresStatus, PersistTeeBroken, deviceVars, loopVars, storeVars
<1>14. CASE Killed
  BY <1>14, Zenon DEF TruthValues, Killed, deviceVars, loopVars, storeVars
<1>15. CASE Start
  BY <1>15, Zenon DEF TruthValues, Start, deviceVars, loopVars, storeVars
<1>16. CASE UNCHANGED vars
  BY <1>16, Zenon DEF TruthValues, vars
<1> QED
  BY <1>1, <1>2, <1>3, <1>4, <1>5, <1>6, <1>7, <1>8, <1>9, <1>10, <1>11, <1>12, <1>13, <1>14, <1>15, <1>16 DEF Next, ProbeThread

LEMMA TypedStep ==
    ASSUME Typed, Undecided, Rounds, [Next]_vars
    PROVE  Typed'
<1>1. CASE BootCompletes
  BY <1>1, ProbeAssumption DEF Typed, Undecided, Rounds, PCs, BootCompletes, deviceVars, loopVars, storeVars
<1>2. CASE Provisioned
  BY <1>2, ProbeAssumption DEF Typed, Undecided, Rounds, PCs, Provisioned, deviceVars, loopVars, storeVars
<1>3. CASE Bootstrap
  BY <1>3, ProbeAssumption DEF Typed, Undecided, Rounds, PCs, Bootstrap, deviceVars, loopVars, storeVars
<1>4. CASE ProbeUnavailable
  BY <1>4, ProbeAssumption DEF Typed, Undecided, Rounds, PCs, ProbeUnavailable, deviceVars, loopVars, storeVars
<1>5. CASE GenerateKeyPair
  BY <1>5, ProbeAssumption DEF Typed, Undecided, Rounds, PCs, GenerateKeyPair, Outcomes, Errors, deviceVars, loopVars, storeVars
<1>6. CASE ClassifyException
  BY <1>6, ProbeAssumption DEF Typed, Undecided, Rounds, PCs, ClassifyException, ClassifySignals, deviceVars, loopVars, storeVars
<1>7. CASE TransitionTo
  BY <1>7, ProbeAssumption DEF Typed, Undecided, Rounds, PCs, TransitionTo, ResolveState, deviceVars, loopVars, storeVars
<1>8. CASE StateListener
  BY <1>8, ProbeAssumption DEF Typed, Undecided, Rounds, PCs, StateListener, PersistTeeBroken, deviceVars, loopVars, storeVars
<1>9. CASE Retry
  BY <1>9, ProbeAssumption DEF Typed, Undecided, Rounds, PCs, Retry, ShouldContinueRetrying, deviceVars, loopVars, storeVars
<1>10. CASE WaitForBootCompleted
  BY <1>10, ProbeAssumption DEF Typed, Undecided, Rounds, PCs, WaitForBootCompleted, deviceVars, loopVars, storeVars
<1>11. CASE Sleep
  BY <1>11, ProbeAssumption, Delays DEF Typed, Undecided, Rounds, PCs, Sleep, deviceVars, loopVars, storeVars
<1>12. CASE HookReadsState
  BY <1>12, ProbeAssumption DEF Typed, Undecided, Rounds, PCs, HookReadsState, deviceVars, loopVars, storeVars
<1>13. CASE HookStoresStatus
  BY <1>13, ProbeAssumption DEF Typed, Undecided, Rounds, PCs, HookStoresStatus, PersistTeeBroken, deviceVars, loopVars, storeVars
<1>14. CASE Killed
  BY <1>14, ProbeAssumption DEF Typed, Undecided, Rounds, PCs, Killed, deviceVars, loopVars, storeVars
<1>15. CASE Start
  BY <1>15, ProbeAssumption DEF Typed, Undecided, Rounds, PCs, Start, deviceVars, loopVars, storeVars
<1>16. CASE UNCHANGED vars
  BY <1>16, ProbeAssumption DEF Typed, Undecided, Rounds, PCs, vars
<1> QED
  BY <1>1, <1>2, <1>3, <1>4, <1>5, <1>6, <1>7, <1>8, <1>9, <1>10, <1>11, <1>12, <1>13, <1>14, <1>15, <1>16 DEF Next, ProbeThread

LEMMA UndecidedStep ==
    ASSUME Typed, Undecided, [Next]_vars
    PROVE  Undecided'
<1>1. CASE BootCompletes
  BY <1>1 DEF Typed, Undecided, BootCompletes, deviceVars, loopVars, storeVars
<1>2. CASE Provisioned
  BY <1>2 DEF Typed, Undecided, Provisioned, deviceVars, loopVars, storeVars
<1>3. CASE Bootstrap
  BY <1>3 DEF Typed, Undecided, Bootstrap, deviceVars, loopVars, storeVars
<1>4. CASE ProbeUnavailable
  BY <1>4 DEF Typed, Undecided, ProbeUnavailable, deviceVars, loopVars, storeVars
<1>5. CASE GenerateKeyPair
  BY <1>5 DEF Typed, Undecided, GenerateKeyPair, Outcomes, Errors, deviceVars, loopVars, storeVars
<1>6. CASE ClassifyException
  BY <1>6 DEF Typed, Undecided, ClassifyException, ClassifySignals, deviceVars, loopVars, storeVars
<1>7. CASE TransitionTo
  BY <1>7 DEF Typed, Undecided, TransitionTo, ResolveState, deviceVars, loopVars, storeVars
<1>8. CASE StateListener
  BY <1>8 DEF Typed, Undecided, StateListener, PersistTeeBroken, deviceVars, loopVars, storeVars
<1>9. CASE Retry
  BY <1>9 DEF Typed, Undecided, Retry, ShouldContinueRetrying, deviceVars, loopVars, storeVars
<1>10. CASE WaitForBootCompleted
  BY <1>10 DEF Typed, Undecided, WaitForBootCompleted, deviceVars, loopVars, storeVars
<1>11. CASE Sleep
  BY <1>11 DEF Typed, Undecided, Sleep, deviceVars, loopVars, storeVars
<1>12. CASE HookReadsState
  BY <1>12 DEF Typed, Undecided, HookReadsState, deviceVars, loopVars, storeVars
<1>13. CASE HookStoresStatus
  BY <1>13 DEF Typed, Undecided, HookStoresStatus, PersistTeeBroken, deviceVars, loopVars, storeVars
<1>14. CASE Killed
  BY <1>14 DEF Typed, Undecided, Killed, deviceVars, loopVars, storeVars
<1>15. CASE Start
  BY <1>15 DEF Typed, Undecided, Start, deviceVars, loopVars, storeVars
<1>16. CASE UNCHANGED vars
  BY <1>16 DEF Typed, Undecided, vars
<1> QED
  BY <1>1, <1>2, <1>3, <1>4, <1>5, <1>6, <1>7, <1>8, <1>9, <1>10, <1>11, <1>12, <1>13, <1>14, <1>15, <1>16 DEF Next, ProbeThread

LEMMA RoundsStep ==
    ASSUME Typed, Undecided, Rounds, [Next]_vars
    PROVE  Rounds'
<1>1. CASE BootCompletes
  BY <1>1, ProbeAssumption DEF Typed, Undecided, Rounds, BootCompletes, deviceVars, loopVars, storeVars
<1>2. CASE Provisioned
  BY <1>2, ProbeAssumption DEF Typed, Undecided, Rounds, Provisioned, deviceVars, loopVars, storeVars
<1>3. CASE Bootstrap
  BY <1>3, ProbeAssumption DEF Typed, Undecided, Rounds, Bootstrap, deviceVars, loopVars, storeVars
<1>4. CASE ProbeUnavailable
  BY <1>4, ProbeAssumption DEF Typed, Undecided, Rounds, ProbeUnavailable, deviceVars, loopVars, storeVars
<1>5. CASE GenerateKeyPair
  BY <1>5, ProbeAssumption DEF Typed, Undecided, Rounds, GenerateKeyPair, Outcomes, Errors, deviceVars, loopVars, storeVars
<1>6. CASE ClassifyException
  BY <1>6, ProbeAssumption DEF Typed, Undecided, Rounds, ClassifyException, ClassifySignals, deviceVars, loopVars, storeVars
<1>7. CASE TransitionTo
  BY <1>7, ProbeAssumption DEF Typed, Undecided, Rounds, TransitionTo, ResolveState, deviceVars, loopVars, storeVars
<1>8. CASE StateListener
  BY <1>8, ProbeAssumption DEF Typed, Undecided, Rounds, StateListener, PersistTeeBroken, deviceVars, loopVars, storeVars
<1>9. CASE Retry
  BY <1>9, ProbeAssumption DEF Typed, Undecided, Rounds, Retry, ShouldContinueRetrying, deviceVars, loopVars, storeVars
<1>10. CASE WaitForBootCompleted
  BY <1>10, ProbeAssumption DEF Typed, Undecided, Rounds, WaitForBootCompleted, deviceVars, loopVars, storeVars
<1>11. CASE Sleep
  BY <1>11, ProbeAssumption, Delays DEF Typed, Undecided, Rounds, Sleep, deviceVars, loopVars, storeVars
<1>12. CASE HookReadsState
  BY <1>12, ProbeAssumption DEF Typed, Undecided, Rounds, HookReadsState, deviceVars, loopVars, storeVars
<1>13. CASE HookStoresStatus
  BY <1>13, ProbeAssumption DEF Typed, Undecided, Rounds, HookStoresStatus, PersistTeeBroken, deviceVars, loopVars, storeVars
<1>14. CASE Killed
  BY <1>14, ProbeAssumption DEF Typed, Undecided, Rounds, Killed, deviceVars, loopVars, storeVars
<1>15. CASE Start
  BY <1>15, ProbeAssumption DEF Typed, Undecided, Rounds, Start, deviceVars, loopVars, storeVars, Schedule
<1>16. CASE UNCHANGED vars
  BY <1>16, ProbeAssumption DEF Typed, Undecided, Rounds, vars
<1> QED
  BY <1>1, <1>2, <1>3, <1>4, <1>5, <1>6, <1>7, <1>8, <1>9, <1>10, <1>11, <1>12, <1>13, <1>14, <1>15, <1>16 DEF Next, ProbeThread

LEMMA DecisionsStep ==
    ASSUME TruthValues, Typed, Undecided, Decisions, [Next]_vars
    PROVE  Decisions'
<1>1. CASE BootCompletes
  BY <1>1, Zenon DEF Decisions, Followed, Undecided, BootCompletes, deviceVars, loopVars, storeVars
<1>2. CASE Provisioned
  BY <1>2, Zenon DEF Decisions, Followed, Undecided, Provisioned, deviceVars, loopVars, storeVars
<1>3. CASE Bootstrap
  BY <1>3, Zenon DEF Decisions, Followed, Undecided, Bootstrap, deviceVars, loopVars, storeVars
<1>4. CASE ProbeUnavailable
  BY <1>4, Zenon DEF Decisions, Followed, Undecided, ProbeUnavailable, deviceVars, loopVars, storeVars
<1>5. CASE GenerateKeyPair
  BY <1>5, Zenon DEF Decisions, Followed, Undecided, GenerateKeyPair, Outcomes, Errors, deviceVars, loopVars, storeVars
<1>6. CASE ClassifyException
  BY <1>6, Zenon DEF Decisions, Followed, Undecided, ClassifyException, ClassifySignals, deviceVars, loopVars, storeVars
<1>7. CASE TransitionTo
  BY <1>7, Zenon DEF Decisions, Followed, Undecided, TransitionTo, ResolveState, deviceVars, loopVars, storeVars
<1>8. CASE StateListener
  BY <1>8, Zenon DEF Decisions, Followed, Undecided, StateListener, PersistTeeBroken, deviceVars, loopVars, storeVars
<1>9. CASE Retry
  BY <1>9, Zenon DEF Decisions, Followed, Undecided, Retry, ShouldContinueRetrying, deviceVars, loopVars, storeVars
<1>10. CASE WaitForBootCompleted
  BY <1>10, Zenon DEF Decisions, Followed, Undecided, WaitForBootCompleted, deviceVars, loopVars, storeVars
<1>11. CASE Sleep
  BY <1>11, Zenon DEF Decisions, Followed, Undecided, Sleep, deviceVars, loopVars, storeVars
<1>12. CASE HookReadsState
  BY <1>12, Zenon DEF Decisions, Followed, Undecided, HookReadsState, deviceVars, loopVars, storeVars
<1>13. CASE HookStoresStatus
  BY <1>13, Zenon DEF Decisions, Followed, Undecided, HookStoresStatus, PersistTeeBroken, deviceVars, loopVars, storeVars
<1>14. CASE Killed
  BY <1>14, Zenon DEF Decisions, Followed, Undecided, Killed, deviceVars, loopVars, storeVars
<1>15. CASE Start
  BY <1>15, Zenon DEF Decisions, Followed, Undecided, Start, deviceVars, loopVars, storeVars
<1>16. CASE UNCHANGED vars
  BY <1>16, Zenon DEF Decisions, Followed, Undecided, vars
<1> QED
  BY <1>1, <1>2, <1>3, <1>4, <1>5, <1>6, <1>7, <1>8, <1>9, <1>10, <1>11, <1>12, <1>13, <1>14, <1>15, <1>16 DEF Next, ProbeThread

LEMMA InitIInv == Init => IInv
<1> SUFFICES ASSUME Init PROVE IInv
  OBVIOUS
<1>1. TruthValues
  BY Zenon DEF Init, TruthValues
<1>2. Typed
  BY ProbeAssumption DEF Init, Typed, PCs
<1>3. Undecided /\ Rounds
  BY DEF Init, Undecided, Rounds
<1>4. Decisions
  BY Zenon DEF Init, Decisions, Followed
<1> QED
  BY <1>1, <1>2, <1>3, <1>4, TypeParts DEF IInv

LEMMA NextIInv == IInv /\ [Next]_vars => IInv'
<1> SUFFICES ASSUME IInv, [Next]_vars PROVE IInv'
  OBVIOUS
<1>1. TruthValues /\ Typed /\ Undecided /\ Rounds /\ Decisions
  BY TypeParts DEF IInv
<1>2. TruthValues' /\ Typed' /\ Undecided' /\ Rounds' /\ Decisions'
  BY <1>1, TruthStep, TypedStep, UndecidedStep, RoundsStep, DecisionsStep
<1>3. (TypeOK <=> TruthValues /\ Typed)'
  BY TypeParts, PTL
<1> QED
  BY <1>2, <1>3 DEF IInv

LEMMA Invariance == Spec => []IInv
  BY InitIInv, NextIInv, PTL DEF Spec

-----------------------------------------------------------------------------
(* Theorems *)

\* Every variable of the probe keeps its type: the retry counter stays in
\* bounds, and what a file or a hook stores is a decision.
THEOREM TypeCorrect == Spec => []TypeOK
<1>1. IInv => TypeOK
  BY DEF IInv
<1> QED
  BY <1>1, Invariance, PTL

\* A decision that was stored is the one the probe made in this run of the
\* daemon, whoever stored it and however late (Config.kt:76-99, 201 and
\* AttestUtils.kt:263-291).
THEOREM DecisionFollowsStateTheorem == Spec => []DecisionFollowsState
<1>1. IInv => DecisionFollowsState
  BY Zenon DEF IInv, Decisions, Followed, DecisionFollowsState
<1> QED
  BY <1>1, Invariance, PTL

\* With the nine retries of TeeRetryPolicy.kt (or more) the thread gives up on
\* an undecided device only after all of them and 104 seconds of delays.
THEOREM GivesUpLateTheorem == MaxAttempts >= 9 /\ Spec => []GivesUpLate
<1> DEFINE Late == IInv /\ MaxAttempts >= 9
<1>1. Init /\ MaxAttempts >= 9 => Late
  BY InitIInv
<1>2. Late /\ [Next]_vars => Late'
  BY NextIInv
<1>3. Late => GivesUpLate
  <2> SUFFICES ASSUME Late, pc = "done", state = "UNKNOWN"
               PROVE  attempt = MaxAttempts + 1 /\ slept >= 104000
    BY DEF GivesUpLate
  <2>1. attempt \in 0..(MaxAttempts + 1) /\ attempt > MaxAttempts /\ slept \in Nat
    BY DEF IInv, TypeOK, Rounds
  <2>2. attempt = MaxAttempts + 1 /\ attempt - 1 = MaxAttempts
    BY <2>1, ProbeAssumption
  <2>3. slept >= Schedule(MaxAttempts)
    BY <2>2 DEF IInv, Rounds
  <2>4. Schedule(MaxAttempts) >= 104000
    BY ProbeAssumption DEF Schedule
  <2> QED
    BY <2>1, <2>2, <2>3, <2>4, ProbeAssumption DEF Schedule
<1> HIDE DEF Late
<1> QED
  BY <1>1, <1>2, <1>3, PTL DEF Spec
=============================================================================
