------------------------- MODULE DaemonLifecycleProofs -------------------------
(***************************************************************************)
(* Proofs about DaemonLifecycle: one injection per keystore2 process, the  *)
(* causes of giving up and a maintenance mode that notices the death of    *)
(* its process, for all retry limits, security levels, numbers of waiting  *)
(* threads, failed registrations and deaths of keystore2.                  *)
(***************************************************************************)
EXTENDS DaemonLifecycle, TLAPS

\* The injector works only while the daemon waits for it, on a process whose
\* injection is counted.
AtWork ==
    /\ target = "busy" => pc = "inject" /\ verdict \in {None, FALSE} /\ exit = None
    /\ target = "wedged" => pc = "inject" /\ verdict = None /\ exit = None
    /\ target \in {"busy", "wedged", "loaded", "hooked"} => commands = 1
    /\ pc = "inject" /\ commands = 0 => verdict # None

\* The exit code tells the verdict, and a process that is left lost makes it
\* failure, after which the daemon does no more.
Verdicts ==
    /\ exit = 0 => verdict = TRUE
    /\ exit = 1 => verdict = FALSE
    /\ target \in {"held", "stuck", "doomed"} => verdict = FALSE /\ pc \in {"inject", "ended"}

\* As long as its process lives, success of the command means that it runs
\* its own code.
Outcome ==
    pc = "inject" /\ ~bereft =>
        /\ commands = 1
        /\ verdict = None => target \in {"own", "busy", "wedged"}
        /\ verdict = TRUE => target \in {"own", "loaded", "hooked"}

CommandPhase == AtWork /\ Verdicts /\ Outcome

\* The last process that may die of itself does not; only one that was left
\* at a bad address does, and the daemon has then failed.
LastGenerations ==
    \/ generation < MaxGenerations
    \/ generation = MaxGenerations /\ target # "dead"
    \/ generation = MaxGenerations /\ verdict = FALSE /\ pc \in {"inject", "ended"}
    \/ generation = MaxGenerations + 1 /\ target = "own" /\ verdict = FALSE /\ pc \in {"inject", "ended"}

\* A daemon that has not injected yet works on a process nobody injected, or
\* on none.
Uninjected ==
    /\ commands \in {0, 1}
    /\ pc = "loop" \/ (pc = "get" /\ ~injected) => commands = 0 \/ target = "dead"
    /\ pc \in {"ask", "missing"} /\ ~injected => commands = 0
    /\ linked => service = generation \/ commands = 0
    /\ pc = "inject" => ~injected

\* The service object belongs to a process that has run.  It is known while
\* the daemon works, and its death is noticed or recorded.
ServiceKnown ==
    /\ service \in 1..generation \cup {None}
    /\ pc \notin {"loop", "get"} => service # None
    /\ pc = "get" /\ (injected \/ bereft) => service # None
    /\ linked => pc \in {"TEE", "STRONGBOX", "ready"}
    /\ pc \in {"TEE", "STRONGBOX", "ready"} => linked
    /\ pc # "loop" /\ service # None /\ ~linked /\ ~ServiceAlive => bereft

\* Attempts are counted from the injection on, and each one that was not
\* answered met a waiting thread, if keystore2 is alive and hooked.
Attempts ==
    /\ ~injected => triedCount = 0 /\ missed = 0
    /\ missed <= triedCount
    /\ pc \in {"get", "ask"} /\ injected => missed < triedCount
    /\ pc \in {"get", "ask", "missing"} /\ injected /\ ~bereft =>
         commands = 1 /\ target \in {"own", "loaded", "hooked"}
    /\ pc \in {"get", "ask"} /\ injected /\ ~bereft /\ target = "hooked" => missed = triedCount - 1
    /\ pc = "missing" /\ injected /\ ~bereft /\ target = "hooked" => missed = triedCount

\* What a daemon that was granted the backdoor has set up it is registered
\* for, or it has logged the failure.
SetUp ==
    ServiceAlive =>
        /\ pc \in {"register", "link", "TEE", "STRONGBOX", "ready"} => target = "hooked"
        /\ pc \in {"link", "TEE", "STRONGBOX", "ready"} => "service" \in registry \cup failed
        /\ pc \in {"STRONGBOX", "ready"} => Levels \cap {"TEE"} \subseteq registry \cup failed
        /\ pc = "ready" => Levels \cap {"STRONGBOX"} \subseteq registry \cup failed

IInv ==
    /\ TypeOK /\ CommandPhase /\ LastGenerations /\ Uninjected
    /\ ServiceKnown /\ Attempts /\ SetUp /\ GivesUpForCause

-----------------------------------------------------------------------------

\* Nothing is confused with an exit code or a verdict.
LEMMA NoneDiffers == None # TRUE /\ None # FALSE /\ None # 0 /\ None # 1
  <1>1. None # 0 /\ None # 1
    BY LifecycleAssumption
  <1>2. None # TRUE /\ None # FALSE
    BY LifecycleAssumption, Zenon
  <1> QED BY <1>1, <1>2

\* The initial state satisfies the invariant.
LEMMA InitIInv == Init => IInv
  <1> SUFFICES ASSUME Init PROVE IInv
    OBVIOUS
  <1> USE LifecycleAssumption, NoneDiffers DEF Init, InjectInit
  <1>0. InjectTypeOK
    BY DEF InjectTypeOK, TargetStates, Running
  <1>b. injected \in BOOLEAN /\ linked \in BOOLEAN /\ bereft \in BOOLEAN
    BY Zenon
  <1>1. TypeOK
    BY <1>0, <1>b DEF TypeOK, Steps
  <1>2. CommandPhase
    BY DEF CommandPhase, AtWork, Verdicts, Outcome
  <1>3. LastGenerations /\ Uninjected /\ ServiceKnown
    BY DEF LastGenerations, Uninjected, ServiceKnown, ServiceAlive
  <1>4. Attempts /\ SetUp /\ GivesUpForCause
    BY DEF Attempts, SetUp, GivesUpForCause
  <1> QED BY <1>1, <1>2, <1>3, <1>4 DEF IInv

\* A new daemon meets a process that nobody injected, or none.
LEMMA StartStep == ASSUME IInv, Start PROVE IInv'
  <1> USE LifecycleAssumption DEF IInv, TypeOK, ServiceAlive, injectVars, processVars, daemonVars,
          Start
  <1>0. InjectTypeOK'
    BY DEF InjectTypeOK, TargetStates, Running
  <1>b. injected' \in BOOLEAN /\ linked' \in BOOLEAN /\ bereft' \in BOOLEAN
    BY Zenon
  <1>1. TypeOK'
    BY <1>0, <1>b DEF CommandPhase, AtWork, Verdicts, Outcome, LastGenerations, Uninjected, Attempts, ServiceKnown, Steps
  <1>2. CommandPhase'
    BY NoneDiffers DEF CommandPhase, AtWork, Verdicts, Outcome, Uninjected, Attempts, ServiceKnown
  <1>3. LastGenerations'
    BY DEF LastGenerations, CommandPhase, AtWork, Verdicts, Outcome, ServiceKnown
  <1>4. Uninjected'
    BY DEF Uninjected, CommandPhase, AtWork, Verdicts, Outcome, ServiceKnown
  <1>5. ServiceKnown'
    BY DEF ServiceKnown, CommandPhase, AtWork, Verdicts, Outcome, Uninjected
  <1>6. Attempts'
    BY DEF Attempts, CommandPhase, AtWork, Verdicts, Outcome, Uninjected, ServiceKnown
  <1>7. SetUp'
    BY DEF SetUp, CommandPhase, AtWork, Verdicts, Outcome, Uninjected, ServiceKnown
  <1>8. GivesUpForCause'
    BY DEF GivesUpForCause, CommandPhase, AtWork, Verdicts, Outcome, Uninjected, Attempts, ServiceKnown
  <1> QED BY <1>1, <1>2, <1>3, <1>4, <1>5, <1>6, <1>7, <1>8

\* The service object is of the living process.
LEMMA GetServiceStep == ASSUME IInv, GetService PROVE IInv'
  <1> USE LifecycleAssumption DEF IInv, TypeOK, ServiceAlive, injectVars, processVars, daemonVars,
          GetService
  <1>0. InjectTypeOK'
    BY DEF InjectTypeOK, TargetStates, Running
  <1>1. TypeOK'
    BY <1>0 DEF CommandPhase, AtWork, Verdicts, Outcome, LastGenerations, Uninjected, Attempts, ServiceKnown, Steps
  <1>2. CommandPhase'
    BY NoneDiffers DEF CommandPhase, AtWork, Verdicts, Outcome, Uninjected, Attempts, ServiceKnown
  <1>3. LastGenerations'
    BY DEF LastGenerations, CommandPhase, AtWork, Verdicts, Outcome, ServiceKnown
  <1>4. Uninjected'
    BY DEF Uninjected, CommandPhase, AtWork, Verdicts, Outcome, ServiceKnown
  <1>5. ServiceKnown'
    BY DEF ServiceKnown, CommandPhase, AtWork, Verdicts, Outcome, Uninjected
  <1>6. Attempts'
    BY DEF Attempts, CommandPhase, AtWork, Verdicts, Outcome, Uninjected, ServiceKnown
  <1>7. SetUp'
    BY DEF SetUp, CommandPhase, AtWork, Verdicts, Outcome, Uninjected, ServiceKnown
  <1>8. GivesUpForCause'
    BY DEF GivesUpForCause, CommandPhase, AtWork, Verdicts, Outcome, Uninjected, Attempts, ServiceKnown
  <1> QED BY <1>1, <1>2, <1>3, <1>4, <1>5, <1>6, <1>7, <1>8

\* Only a process that this daemon injected grants the backdoor.
LEMMA BackdoorStep == ASSUME IInv, BackdoorGranted \/ BackdoorMissed \/ BackdoorDenied PROVE IInv'
  <1> USE LifecycleAssumption DEF IInv, TypeOK, ServiceAlive, injectVars, processVars, daemonVars,
          BackdoorGranted, BackdoorMissed, BackdoorDenied
  <1>0. InjectTypeOK'
    BY DEF InjectTypeOK, TargetStates, Running
  <1>1. TypeOK'
    BY <1>0 DEF CommandPhase, AtWork, Verdicts, Outcome, LastGenerations, Uninjected, Attempts, ServiceKnown, Steps
  <1>2. CommandPhase'
    BY NoneDiffers DEF CommandPhase, AtWork, Verdicts, Outcome, Uninjected, Attempts, ServiceKnown
  <1>3. LastGenerations'
    BY DEF LastGenerations, CommandPhase, AtWork, Verdicts, Outcome, ServiceKnown
  <1>4. Uninjected'
    BY DEF Uninjected, CommandPhase, AtWork, Verdicts, Outcome, ServiceKnown
  <1>5. ServiceKnown'
    BY DEF ServiceKnown, CommandPhase, AtWork, Verdicts, Outcome, Uninjected
  <1>6. Attempts'
    BY DEF Attempts, CommandPhase, AtWork, Verdicts, Outcome, Uninjected, ServiceKnown
  <1>7. SetUp'
    BY DEF SetUp, CommandPhase, AtWork, Verdicts, Outcome, Uninjected, ServiceKnown
  <1>8. GivesUpForCause'
    BY DEF GivesUpForCause, CommandPhase, AtWork, Verdicts, Outcome, Uninjected, Attempts, ServiceKnown
  <1> QED BY <1>1, <1>2, <1>3, <1>4, <1>5, <1>6, <1>7, <1>8

\* The last attempt fails for a cause, the first one injects.
LEMMA HandleMissingBackdoorStep == ASSUME IInv, HandleMissingBackdoor PROVE IInv'
  <1> USE LifecycleAssumption DEF IInv, TypeOK, ServiceAlive, injectVars, processVars, daemonVars,
          HandleMissingBackdoor, ExitNonzero, StartInjection, Retry
  <1>0. InjectTypeOK'
    BY DEF InjectTypeOK, TargetStates, Running
  <1>1. TypeOK'
    BY <1>0 DEF CommandPhase, AtWork, Verdicts, Outcome, LastGenerations, Uninjected, Attempts, ServiceKnown, Steps
  <1>2. CommandPhase'
    <2>1. CASE UNCHANGED <<injectVars, processVars>> /\ pc' \in {"get", "ended"}
      <3>1. target # "busy" /\ target \notin {"held", "stuck", "doomed"}
        BY DEF CommandPhase, AtWork, Verdicts
      <3> QED BY <2>1, <3>1 DEF CommandPhase, AtWork, Verdicts, Outcome
    <2>2. CASE StartInjection /\ ~injected
      <3>1. commands = 0 /\ commands' = 1 /\ pc' = "inject" /\ target' = target
        BY <2>2 DEF Uninjected
      <3>2. target \in {"own", "dead"}
        BY <3>1, <2>2 DEF CommandPhase, AtWork, Verdicts, InjectTypeOK, TargetStates, Running
      <3>3. ~bereft => target = "own"
        BY <3>2, <2>2 DEF ServiceKnown
      <3>4. AtWork'
        BY <3>1, <3>2 DEF AtWork
      <3>6. Outcome'
        BY <3>1, <3>3, <2>2, NoneDiffers DEF Outcome
      <3>5. Verdicts'
        BY <3>1, <3>2, <2>2, NoneDiffers DEF Verdicts
      <3> QED BY <3>4, <3>5, <3>6 DEF CommandPhase
    <2> QED BY <2>1, <2>2
  <1>3. LastGenerations'
    BY DEF LastGenerations, CommandPhase, AtWork, Verdicts, Outcome, ServiceKnown
  <1>4. Uninjected'
    BY DEF Uninjected, CommandPhase, AtWork, Verdicts, Outcome, ServiceKnown
  <1>5. ServiceKnown'
    BY DEF ServiceKnown, CommandPhase, AtWork, Verdicts, Outcome, Uninjected
  <1>6. Attempts'
    BY DEF Attempts, CommandPhase, AtWork, Verdicts, Outcome, Uninjected, ServiceKnown
  <1>7. SetUp'
    BY DEF SetUp, CommandPhase, AtWork, Verdicts, Outcome, Uninjected, ServiceKnown
  <1>8. GivesUpForCause'
    BY DEF GivesUpForCause, CommandPhase, AtWork, Verdicts, Outcome, Uninjected, Attempts, ServiceKnown
  <1> QED BY <1>1, <1>2, <1>3, <1>4, <1>5, <1>6, <1>7, <1>8

\* The first attempt after the injection is the second of all.
LEMMA PerformInjectionStep == ASSUME IInv, PerformInjection PROVE IInv'
  <1> USE LifecycleAssumption DEF IInv, TypeOK, ServiceAlive, injectVars, processVars, daemonVars,
          PerformInjection, ExitNonzero, Retry
  <1>0. InjectTypeOK'
    BY DEF InjectTypeOK, TargetStates, Running
  <1>b. injected' \in BOOLEAN /\ linked' \in BOOLEAN /\ bereft' \in BOOLEAN
    BY Zenon
  <1>1. TypeOK'
    BY <1>0, <1>b DEF CommandPhase, AtWork, Verdicts, Outcome, LastGenerations, Uninjected, Attempts, ServiceKnown, Steps
  <1>2. CommandPhase'
    BY NoneDiffers DEF CommandPhase, AtWork, Verdicts, Outcome, Uninjected, Attempts, ServiceKnown
  <1>3. LastGenerations'
    BY DEF LastGenerations, CommandPhase, AtWork, Verdicts, Outcome, ServiceKnown
  <1>4. Uninjected'
    BY DEF Uninjected, CommandPhase, AtWork, Verdicts, Outcome, ServiceKnown
  <1>5. ServiceKnown'
    BY DEF ServiceKnown, CommandPhase, AtWork, Verdicts, Outcome, Uninjected
  <1>6. Attempts'
    BY DEF Attempts, CommandPhase, AtWork, Verdicts, Outcome, Uninjected, ServiceKnown
  <1>7. SetUp'
    BY DEF SetUp, CommandPhase, AtWork, Verdicts, Outcome, Uninjected, ServiceKnown
  <1>8. GivesUpForCause'
    BY DEF GivesUpForCause, CommandPhase, AtWork, Verdicts, Outcome, Uninjected, Attempts, ServiceKnown
  <1> QED BY <1>1, <1>2, <1>3, <1>4, <1>5, <1>6, <1>7, <1>8

\* The service is registered while its process lives.
LEMMA RegisterServiceStep == ASSUME IInv, RegisterService PROVE IInv'
  <1> USE LifecycleAssumption DEF IInv, TypeOK, ServiceAlive, injectVars, processVars, daemonVars,
          RegisterService, RegisterInterceptor, Interfaces
  <1>0. InjectTypeOK'
    BY DEF InjectTypeOK, TargetStates, Running
  <1>1. TypeOK'
    BY <1>0 DEF CommandPhase, AtWork, Verdicts, Outcome, LastGenerations, Uninjected, Attempts, ServiceKnown, Steps
  <1>2. CommandPhase'
    BY NoneDiffers DEF CommandPhase, AtWork, Verdicts, Outcome, Uninjected, Attempts, ServiceKnown
  <1>3. LastGenerations'
    BY DEF LastGenerations, CommandPhase, AtWork, Verdicts, Outcome, ServiceKnown
  <1>4. Uninjected'
    BY DEF Uninjected, CommandPhase, AtWork, Verdicts, Outcome, ServiceKnown
  <1>5. ServiceKnown'
    BY DEF ServiceKnown, CommandPhase, AtWork, Verdicts, Outcome, Uninjected
  <1>6. Attempts'
    BY DEF Attempts, CommandPhase, AtWork, Verdicts, Outcome, Uninjected, ServiceKnown
  <1>7. SetUp'
    BY DEF SetUp, CommandPhase, AtWork, Verdicts, Outcome, Uninjected, ServiceKnown
  <1>8. GivesUpForCause'
    BY DEF GivesUpForCause, CommandPhase, AtWork, Verdicts, Outcome, Uninjected, Attempts, ServiceKnown
  <1> QED BY <1>1, <1>2, <1>3, <1>4, <1>5, <1>6, <1>7, <1>8

\* A service that died before it was linked is on record.
LEMMA LinkToDeathStep == ASSUME IInv, LinkToDeath PROVE IInv'
  <1> USE LifecycleAssumption DEF IInv, TypeOK, ServiceAlive, injectVars, processVars, daemonVars,
          LinkToDeath, ExitNonzero
  <1>0. InjectTypeOK'
    BY DEF InjectTypeOK, TargetStates, Running
  <1>1. TypeOK'
    BY <1>0 DEF CommandPhase, AtWork, Verdicts, Outcome, LastGenerations, Uninjected, Attempts, ServiceKnown, Steps
  <1>2. CommandPhase'
    BY NoneDiffers DEF CommandPhase, AtWork, Verdicts, Outcome, Uninjected, Attempts, ServiceKnown
  <1>3. LastGenerations'
    BY DEF LastGenerations, CommandPhase, AtWork, Verdicts, Outcome, ServiceKnown
  <1>4. Uninjected'
    BY DEF Uninjected, CommandPhase, AtWork, Verdicts, Outcome, ServiceKnown
  <1>5. ServiceKnown'
    BY DEF ServiceKnown, CommandPhase, AtWork, Verdicts, Outcome, Uninjected
  <1>6. Attempts'
    BY DEF Attempts, CommandPhase, AtWork, Verdicts, Outcome, Uninjected, ServiceKnown
  <1>7. SetUp'
    BY DEF SetUp, CommandPhase, AtWork, Verdicts, Outcome, Uninjected, ServiceKnown
  <1>8. GivesUpForCause'
    BY DEF GivesUpForCause, CommandPhase, AtWork, Verdicts, Outcome, Uninjected, Attempts, ServiceKnown
  <1> QED BY <1>1, <1>2, <1>3, <1>4, <1>5, <1>6, <1>7, <1>8

\* Each level is registered while the process lives.
LEMMA SetupLevelsStep == ASSUME IInv, SetupLevel("TEE", "STRONGBOX") \/ SetupLevel("STRONGBOX", "ready") PROVE IInv'
  <1> USE LifecycleAssumption DEF IInv, TypeOK, ServiceAlive, injectVars, processVars, daemonVars,
          SetupLevel, RegisterInterceptor, Interfaces
  <1>0. InjectTypeOK'
    BY DEF InjectTypeOK, TargetStates, Running
  <1>1. TypeOK'
    BY <1>0 DEF CommandPhase, AtWork, Verdicts, Outcome, LastGenerations, Uninjected, Attempts, ServiceKnown, Steps
  <1>2. CommandPhase'
    BY NoneDiffers DEF CommandPhase, AtWork, Verdicts, Outcome, Uninjected, Attempts, ServiceKnown
  <1>3. LastGenerations'
    BY DEF LastGenerations, CommandPhase, AtWork, Verdicts, Outcome, ServiceKnown
  <1>4. Uninjected'
    BY DEF Uninjected, CommandPhase, AtWork, Verdicts, Outcome, ServiceKnown
  <1>5. ServiceKnown'
    BY DEF ServiceKnown, CommandPhase, AtWork, Verdicts, Outcome, Uninjected
  <1>6. Attempts'
    BY DEF Attempts, CommandPhase, AtWork, Verdicts, Outcome, Uninjected, ServiceKnown
  <1>7. SetUp'
    BY DEF SetUp, CommandPhase, AtWork, Verdicts, Outcome, Uninjected, ServiceKnown
  <1>8. GivesUpForCause'
    BY DEF GivesUpForCause, CommandPhase, AtWork, Verdicts, Outcome, Uninjected, Attempts, ServiceKnown
  <1> QED BY <1>1, <1>2, <1>3, <1>4, <1>5, <1>6, <1>7, <1>8

\* The daemon whose service died starts anew.
LEMMA BinderDiedStep == ASSUME IInv, BinderDied PROVE IInv'
  <1> USE LifecycleAssumption DEF IInv, TypeOK, ServiceAlive, injectVars, processVars, daemonVars,
          BinderDied
  <1>0. InjectTypeOK'
    BY DEF InjectTypeOK, TargetStates, Running
  <1>1. TypeOK'
    BY <1>0 DEF CommandPhase, AtWork, Verdicts, Outcome, LastGenerations, Uninjected, Attempts, ServiceKnown, Steps
  <1>2. CommandPhase'
    BY NoneDiffers DEF CommandPhase, AtWork, Verdicts, Outcome, Uninjected, Attempts, ServiceKnown
  <1>3. LastGenerations'
    BY DEF LastGenerations, CommandPhase, AtWork, Verdicts, Outcome, ServiceKnown
  <1>4. Uninjected'
    BY DEF Uninjected, CommandPhase, AtWork, Verdicts, Outcome, ServiceKnown
  <1>5. ServiceKnown'
    BY DEF ServiceKnown, CommandPhase, AtWork, Verdicts, Outcome, Uninjected
  <1>6. Attempts'
    BY DEF Attempts, CommandPhase, AtWork, Verdicts, Outcome, Uninjected, ServiceKnown
  <1>7. SetUp'
    BY DEF SetUp, CommandPhase, AtWork, Verdicts, Outcome, Uninjected, ServiceKnown
  <1>8. GivesUpForCause'
    BY DEF GivesUpForCause, CommandPhase, AtWork, Verdicts, Outcome, Uninjected, Attempts, ServiceKnown
  <1> QED BY <1>1, <1>2, <1>3, <1>4, <1>5, <1>6, <1>7, <1>8

\* The command keeps to the process it was started on.
LEMMA RunCommandStep == ASSUME IInv, RunCommand PROVE IInv'
  <1> USE LifecycleAssumption DEF IInv, TypeOK, ServiceAlive, injectVars, processVars, daemonVars,
          RunCommand, Hold, Wedge, Fail, Abandon, Return, Finish, Running
  <1>0. InjectTypeOK'
    BY DEF InjectTypeOK, TargetStates, Running
  <1>1. TypeOK'
    BY <1>0 DEF CommandPhase, AtWork, Verdicts, Outcome, LastGenerations, Uninjected, Attempts, ServiceKnown, Steps
  <1>r. Return => exit' = IF verdict = TRUE THEN 0 ELSE 1
    BY DEF InjectTypeOK
  <1>v. Return => verdict = TRUE \/ verdict = FALSE
    BY DEF InjectTypeOK
  <1>2. AtWork'
    <2>1. CASE Hold
      <3>1. exit = None
        BY <2>1, NoneDiffers DEF CommandPhase, Verdicts, InjectTypeOK
      <3> QED BY <2>1, <3>1 DEF CommandPhase, AtWork, Uninjected
    <2>2. CASE Fail
      BY <2>2, NoneDiffers DEF CommandPhase, AtWork
    <2>5. CASE Wedge
      BY <2>5, NoneDiffers DEF CommandPhase, AtWork, Verdicts, InjectTypeOK
    <2>3. CASE Abandon \/ Return
      BY <2>3 DEF CommandPhase, AtWork
    <2>4. CASE Finish
      BY <2>4, NoneDiffers DEF CommandPhase, AtWork
    <2> QED BY <2>1, <2>2, <2>3, <2>4, <2>5
  <1>w. Verdicts'
    <2>1. CASE Return
      BY <2>1, <1>r, <1>v DEF CommandPhase, Verdicts
    <2>2. CASE ~Return
      BY <2>2, NoneDiffers DEF CommandPhase, AtWork, Verdicts
    <2> QED BY <2>1, <2>2
  <1>o. Outcome'
    BY NoneDiffers DEF CommandPhase, Outcome
  <1>3. LastGenerations'
    BY DEF LastGenerations, CommandPhase, AtWork, Verdicts, Outcome, ServiceKnown
  <1>4. Uninjected'
    BY DEF Uninjected, CommandPhase, AtWork, Verdicts, Outcome, ServiceKnown
  <1>5. ServiceKnown'
    BY DEF ServiceKnown, CommandPhase, AtWork, Verdicts, Outcome, Uninjected
  <1>6. Attempts'
    BY DEF Attempts, CommandPhase, AtWork, Verdicts, Outcome, Uninjected, ServiceKnown
  <1>7. SetUp'
    BY DEF SetUp, CommandPhase, AtWork, Verdicts, Outcome, Uninjected, ServiceKnown
  <1>8. GivesUpForCause'
    BY DEF GivesUpForCause, CommandPhase, AtWork, Verdicts, Outcome, Uninjected, Attempts, ServiceKnown
  <1> QED BY <1>1, <1>2, <1>w, <1>o, <1>3, <1>4, <1>5, <1>6, <1>7, <1>8 DEF CommandPhase

\* A thread that comes under the hook changes no other state.
LEMMA ThreadReturnsStep == ASSUME IInv, ThreadReturns PROVE IInv'
  <1> USE LifecycleAssumption DEF IInv, TypeOK, ServiceAlive, injectVars, processVars, daemonVars,
          ThreadReturns
  <1>0. InjectTypeOK'
    BY DEF InjectTypeOK, TargetStates, Running
  <1>1. TypeOK'
    BY <1>0 DEF CommandPhase, AtWork, Verdicts, Outcome, LastGenerations, Uninjected, Attempts, ServiceKnown, Steps
  <1>2. CommandPhase'
    BY NoneDiffers DEF CommandPhase, AtWork, Verdicts, Outcome, Uninjected, Attempts, ServiceKnown
  <1>3. LastGenerations'
    BY DEF LastGenerations, CommandPhase, AtWork, Verdicts, Outcome, ServiceKnown
  <1>4. Uninjected'
    BY DEF Uninjected, CommandPhase, AtWork, Verdicts, Outcome, ServiceKnown
  <1>5. ServiceKnown'
    BY DEF ServiceKnown, CommandPhase, AtWork, Verdicts, Outcome, Uninjected
  <1>6. Attempts'
    BY DEF Attempts, CommandPhase, AtWork, Verdicts, Outcome, Uninjected, ServiceKnown
  <1>7. SetUp'
    BY DEF SetUp, CommandPhase, AtWork, Verdicts, Outcome, Uninjected, ServiceKnown
  <1>8. GivesUpForCause'
    BY DEF GivesUpForCause, CommandPhase, AtWork, Verdicts, Outcome, Uninjected, Attempts, ServiceKnown
  <1> QED BY <1>1, <1>2, <1>3, <1>4, <1>5, <1>6, <1>7, <1>8

\* A call that faults after it was abandoned is one of a failed injection.
LEMMA LeftCallFaultsStep == ASSUME IInv, LeftCallFaults PROVE IInv'
  <1> USE LifecycleAssumption DEF IInv, TypeOK, ServiceAlive, injectVars, processVars, daemonVars,
          LeftCallFaults, CallFaults
  <1>0. InjectTypeOK'
    BY DEF InjectTypeOK, TargetStates, Running
  <1>1. TypeOK'
    BY <1>0 DEF CommandPhase, AtWork, Verdicts, Outcome, LastGenerations, Uninjected, Attempts, ServiceKnown, Steps
  <1>2. CommandPhase'
    BY NoneDiffers DEF CommandPhase, AtWork, Verdicts, Outcome, Uninjected, Attempts, ServiceKnown
  <1>3. LastGenerations'
    BY DEF LastGenerations, CommandPhase, AtWork, Verdicts, Outcome, ServiceKnown
  <1>4. Uninjected'
    BY DEF Uninjected, CommandPhase, AtWork, Verdicts, Outcome, ServiceKnown
  <1>5. ServiceKnown'
    BY DEF ServiceKnown, CommandPhase, AtWork, Verdicts, Outcome, Uninjected
  <1>6. Attempts'
    BY DEF Attempts, CommandPhase, AtWork, Verdicts, Outcome, Uninjected, ServiceKnown
  <1>7. SetUp'
    BY DEF SetUp, CommandPhase, AtWork, Verdicts, Outcome, Uninjected, ServiceKnown
  <1>8. GivesUpForCause'
    BY DEF GivesUpForCause, CommandPhase, AtWork, Verdicts, Outcome, Uninjected, Attempts, ServiceKnown
  <1> QED BY <1>1, <1>2, <1>3, <1>4, <1>5, <1>6, <1>7, <1>8

\* A death before the link is recorded.
LEMMA Keystore2DiesStep == ASSUME IInv, Keystore2Dies PROVE IInv'
  <1> USE LifecycleAssumption DEF IInv, TypeOK, ServiceAlive, injectVars, processVars, daemonVars,
          Keystore2Dies, Die, Fault
  <1>0. InjectTypeOK'
    BY DEF InjectTypeOK, TargetStates, Running
  <1>1. TypeOK'
    BY <1>0 DEF CommandPhase, AtWork, Verdicts, Outcome, LastGenerations, Uninjected, Attempts, ServiceKnown, Steps
  <1>2. CommandPhase'
    BY NoneDiffers DEF CommandPhase, AtWork, Verdicts, Outcome, Uninjected, Attempts, ServiceKnown
  <1>3. LastGenerations'
    BY DEF LastGenerations, CommandPhase, AtWork, Verdicts, Outcome, ServiceKnown
  <1>4. Uninjected'
    BY DEF Uninjected, CommandPhase, AtWork, Verdicts, Outcome, ServiceKnown
  <1>5. ServiceKnown'
    BY DEF ServiceKnown, CommandPhase, AtWork, Verdicts, Outcome, Uninjected
  <1>6. Attempts'
    BY DEF Attempts, CommandPhase, AtWork, Verdicts, Outcome, Uninjected, ServiceKnown
  <1>7. SetUp'
    BY DEF SetUp, CommandPhase, AtWork, Verdicts, Outcome, Uninjected, ServiceKnown
  <1>8. GivesUpForCause'
    BY DEF GivesUpForCause, CommandPhase, AtWork, Verdicts, Outcome, Uninjected, Attempts, ServiceKnown
  <1> QED BY <1>1, <1>2, <1>3, <1>4, <1>5, <1>6, <1>7, <1>8

\* A new process has nothing of the old one.
LEMMA Keystore2StartsStep == ASSUME IInv, Keystore2Starts PROVE IInv'
  <1> USE LifecycleAssumption DEF IInv, TypeOK, ServiceAlive, injectVars, processVars, daemonVars,
          Keystore2Starts
  <1>0. InjectTypeOK'
    BY DEF InjectTypeOK, TargetStates, Running
  <1>1. TypeOK'
    BY <1>0 DEF CommandPhase, AtWork, Verdicts, Outcome, LastGenerations, Uninjected, Attempts, ServiceKnown, Steps
  <1>2. CommandPhase'
    BY NoneDiffers DEF CommandPhase, AtWork, Verdicts, Outcome, Uninjected, Attempts, ServiceKnown
  <1>3. LastGenerations'
    BY DEF LastGenerations, CommandPhase, AtWork, Verdicts, Outcome, ServiceKnown
  <1>4. Uninjected'
    BY DEF Uninjected, CommandPhase, AtWork, Verdicts, Outcome, ServiceKnown
  <1>5. ServiceKnown'
    BY DEF ServiceKnown, CommandPhase, AtWork, Verdicts, Outcome, Uninjected
  <1>6. Attempts'
    BY DEF Attempts, CommandPhase, AtWork, Verdicts, Outcome, Uninjected, ServiceKnown
  <1>7. SetUp'
    BY DEF SetUp, CommandPhase, AtWork, Verdicts, Outcome, Uninjected, ServiceKnown
  <1>8. GivesUpForCause'
    BY DEF GivesUpForCause, CommandPhase, AtWork, Verdicts, Outcome, Uninjected, Attempts, ServiceKnown
  <1> QED BY <1>1, <1>2, <1>3, <1>4, <1>5, <1>6, <1>7, <1>8

\* Every step keeps the invariant.
LEMMA NextIInv == ASSUME IInv, [Next]_vars PROVE IInv'
  <1>1. CASE UNCHANGED vars
    <2> USE <1>1 DEF vars, injectVars, processVars, daemonVars, IInv, ServiceAlive
    <2>1. TypeOK'
      BY Zenon DEF TypeOK, InjectTypeOK, Interfaces
    <2>2. CommandPhase' /\ LastGenerations'
      BY DEF CommandPhase, AtWork, Verdicts, Outcome, LastGenerations
    <2>3. Uninjected' /\ ServiceKnown' /\ Attempts' /\ SetUp' /\ GivesUpForCause'
      BY DEF Uninjected, ServiceKnown, Attempts, SetUp, GivesUpForCause
    <2> QED BY <2>1, <2>2, <2>3
  <1>2. CASE Daemon
    BY <1>2, StartStep, GetServiceStep, BackdoorStep, HandleMissingBackdoorStep, PerformInjectionStep,
       RegisterServiceStep, LinkToDeathStep, SetupLevelsStep
    DEF Daemon
  <1>3. CASE Next /\ ~Daemon
    BY <1>3, BinderDiedStep, RunCommandStep, ThreadReturnsStep, LeftCallFaultsStep, Keystore2DiesStep, Keystore2StartsStep
    DEF Next
  <1> QED BY <1>1, <1>2, <1>3

\* The invariant holds throughout.
LEMMA Invariant == Spec => []IInv
  BY InitIInv, NextIInv, PTL DEF Spec

-----------------------------------------------------------------------------

\* The state of the daemon and of keystore2 stays typed: registrations exist
\* only in a process with the hook, and the attempts, the waiting threads and
\* the processes stay within their bounds (InterceptorUtils.kt:57-96).
THEOREM TypeCorrect == Spec => []TypeOK
  <1>1. IInv => TypeOK
    BY DEF IInv
  <1> QED BY <1>1, Invariant, PTL

\* However often the daemon retries or is restarted, no keystore2 process is
\* injected twice (InterceptorUtils.kt:57-70).
THEOREM InjectedOnceTheorem == Spec => []InjectedOnce
  <1>1. IInv => InjectedOnce
    BY DEF IInv, Uninjected, InjectedOnce
  <1> QED BY <1>1, Invariant, PTL

\* For every retry limit, service.sh gives up only for one of the four causes
\* (InterceptorUtils.kt:57-70).
THEOREM GivesUpForCauseTheorem == Spec => []GivesUpForCause
  <1>1. IInv => GivesUpForCause
    BY DEF IInv
  <1> QED BY <1>1, Invariant, PTL

\* However often keystore2 dies and is replaced during the set-up, a daemon
\* in maintenance mode is linked to the death of its process, that process
\* has the hook while it lives, and an interface that the daemon is not
\* registered for is one it logged a failure for (InterceptorUtils.kt:46-55,
\* BinderInterceptor.kt:61-77).
THEOREM NeverStrandedTheorem == Spec => []NeverStranded
  <1>1. IInv => NeverStranded
    <2> SUFFICES ASSUME IInv, pc = "ready"
                 PROVE  linked /\ (ServiceAlive => target = "hooked" /\ Interfaces \ registry \subseteq failed)
      BY DEF NeverStranded
    <2>1. linked
      BY DEF IInv, ServiceKnown
    <2>2. ServiceAlive => target = "hooked" /\ "service" \in registry \cup failed
      BY DEF IInv, SetUp
    <2>3. ServiceAlive => Levels \subseteq registry \cup failed
      BY LifecycleAssumption DEF IInv, SetUp
    <2> QED BY <2>1, <2>2, <2>3 DEF Interfaces
  <1> QED BY <1>1, Invariant, PTL
=============================================================================
