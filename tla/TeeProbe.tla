------------------------------- MODULE TeeProbe -------------------------------
(***************************************************************************)
(* The background probe of the hardware keystore (AttestUtils.kt and tee/) *)
(* and the decision that PkgConfig keeps of it (teeBroken, tee_status).    *)
(*                                                                         *)
(* The probe thread makes one attempt at start and then retries while the  *)
(* state is UNKNOWN; the hooks store the decision too when they find none. *)
(* The device boots, its attestation keys become available, and the daemon *)
(* is killed and restarted meanwhile.  Reading the attestation data of a   *)
(* working device (CachedAttestData) is left out.                          *)
(*                                                                         *)
(* The device is capable, with attestation keys that are ready sooner or   *)
(* later, or broken.  An exception of the probe is the sort of error that  *)
(* the classifier finds in it; time is the delays slept.                   *)
(***************************************************************************)
EXTENDS Naturals

CONSTANTS
    None,
    MaxAttempts,   \* TeeRetryPolicy.MAX_ATTEMPTS
    MaxStarts      \* starts of the daemon

ASSUME ProbeAssumption ==
    /\ None \notin BOOLEAN
    /\ MaxAttempts \in Nat /\ MaxStarts \in Nat

VARIABLES
    capable,      \* the device has a working TEE
    booted,       \* sys.boot_completed
    provisioned,  \* attestation keys are available
    pc,           \* the probe thread, down when the daemon does not run
    attempt,      \* of runRetryLoop, 0 for the initial probe
    slept,        \* milliseconds slept between attempts
    bootstrap,    \* TeeProbeBootstrap
    outcome,      \* what the probe operation threw, "none" for success
    result,       \* TeeProbeResult
    state,        \* AttestUtils.state
    teeBroken,    \* PkgConfig.teeBroken
    status,       \* the file tee_status
    hook,         \* the decision a hook is about to store
    starts

vars == <<capable, booted, provisioned, pc, attempt, slept, bootstrap, outcome, result, state,
          teeBroken, status, hook, starts>>

deviceVars == <<capable, booted, provisioned>>
loopVars   == <<attempt, slept, starts>>
storeVars  == <<teeBroken, status, hook>>

\* Errors by the class the classifier puts them in.
Errors == {"transient", "permanent", "unprovisioned", "ambiguous"}

PCs == {"down", "probe", "classify", "apply", "notify", "retry", "boot", "sleep", "done", "dead"}

TypeOK ==
    /\ capable \in BOOLEAN /\ booted \in BOOLEAN /\ provisioned \in BOOLEAN
    /\ pc \in PCs
    /\ attempt \in 0..(MaxAttempts + 1)
    /\ slept \in Nat
    /\ bootstrap \in {"pending", "ready", "failed"}
    /\ outcome \in Errors \cup {"none", None}
    /\ result \in {"WORKING", "TRANSIENT", "BROKEN", None}
    /\ state \in {"UNKNOWN", "WORKING", "BROKEN"}
    /\ teeBroken \in BOOLEAN \cup {None}
    /\ status \in BOOLEAN \cup {None}
    /\ hook \in BOOLEAN \cup {None}
    /\ starts \in 0..MaxStarts

-----------------------------------------------------------------------------
(* The device (external) *)

BootCompletes ==
    /\ ~booted
    /\ booted' = TRUE
    /\ UNCHANGED <<capable, provisioned, pc, loopVars, bootstrap, outcome, result, state, storeVars>>

Provisioned ==
    /\ capable /\ ~provisioned
    /\ provisioned' = TRUE
    /\ UNCHANGED <<capable, booted, pc, loopVars, bootstrap, outcome, result, state, storeVars>>

\* A capable device is out of keys or busy until it is provisioned, and only
\* during boot calls its keys missing or KeyMint not configured.
Outcomes ==
    IF ~capable THEN Errors
    ELSE IF provisioned THEN {"none"}
    ELSE {"transient", "ambiguous"} \cup (IF booted THEN {} ELSE {"unprovisioned"})

-----------------------------------------------------------------------------
(* One attempt *)

\* The first bootstrap of the process decides for all attempts.  An Error,
\* caught only at the top of the thread, ends it.
Bootstrap ==
    /\ pc = "probe" /\ bootstrap = "pending"
    /\ \/ bootstrap' = "ready" /\ UNCHANGED pc
       \/ bootstrap' = "failed" /\ UNCHANGED pc
       \/ pc' = "dead" /\ UNCHANGED bootstrap
    /\ UNCHANGED <<deviceVars, loopVars, outcome, result, state, storeVars>>

\* runProbeAttempt returns, and the attempt is spent.
ProbeUnavailable ==
    /\ pc = "probe" /\ bootstrap = "failed"
    /\ pc' = "retry"
    /\ attempt' = attempt + 1
    /\ UNCHANGED <<deviceVars, slept, starts, bootstrap, outcome, result, state, storeVars>>

\* Mutant: every attempt runs the bootstrap again, which then throws.
GenerateKeyPairRebootstraps ==
    /\ pc = "probe" /\ bootstrap = "ready"
    /\ outcome' \in IF attempt > 0 THEN {"ambiguous"} ELSE Outcomes
    /\ pc' = "classify"
    /\ UNCHANGED <<deviceVars, loopVars, bootstrap, result, state, storeVars>>

\* probeHardwareAttestationOnce up to generateKeyPair; an Error passes its
\* catch block and ends the thread.
GenerateKeyPair ==
    /\ pc = "probe" /\ bootstrap = "ready"
    /\ \/ pc' = "classify" /\ outcome' \in Outcomes
       \/ pc' = "dead" /\ UNCHANGED outcome
    /\ UNCHANGED <<deviceVars, loopVars, bootstrap, result, state, storeVars>>

\* TeeProbeClassifier.classifySignals
ClassifySignals(error, bootCompleted) ==
    IF error = "permanent" \/ (error = "unprovisioned" /\ bootCompleted) THEN "BROKEN"
    ELSE "TRANSIENT"

\* The catch block reads boot_completed after the failure.
ClassifyException ==
    /\ pc = "classify"
    /\ result' = IF outcome = "none" THEN "WORKING" ELSE ClassifySignals(outcome, booted)
    /\ outcome' = None
    /\ pc' = "apply"
    /\ UNCHANGED <<deviceVars, loopVars, bootstrap, state, storeVars>>

ResolveState(r) == CASE r = "WORKING" -> "WORKING" [] r = "TRANSIENT" -> "UNKNOWN" [] r = "BROKEN" -> "BROKEN"

\* applyProbeResult and transitionTo; the listener runs outside the lock.
TransitionTo ==
    /\ pc = "apply"
    /\ state' = ResolveState(result)
    /\ result' = None
    /\ pc' = IF state' = state THEN "retry" ELSE "notify"
    /\ attempt' = IF state' = state THEN attempt + 1 ELSE attempt
    /\ UNCHANGED <<deviceVars, slept, starts, bootstrap, outcome, storeVars>>

\* persistTeeBroken; writing the file may fail.
PersistTeeBroken(broken) ==
    /\ teeBroken' = broken
    /\ status' \in {broken, status}

\* Mutant: the listener has the two decisions the wrong way round.
StateListenerInverted ==
    /\ pc = "notify"
    /\ PersistTeeBroken(state = "WORKING")
    /\ pc' = "retry"
    /\ attempt' = attempt + 1
    /\ UNCHANGED <<deviceVars, slept, starts, bootstrap, outcome, result, state, hook>>

\* The listener of installTeeStateListener; only a decided state is new.
StateListener ==
    /\ pc = "notify"
    /\ PersistTeeBroken(state = "BROKEN")
    /\ pc' = "retry"
    /\ attempt' = attempt + 1
    /\ UNCHANGED <<deviceVars, slept, starts, bootstrap, outcome, result, state, hook>>

-----------------------------------------------------------------------------
(* The retry loop *)

\* TeeRetryPolicy.delayMs
DelayMs(n) ==
    LET shift == IF n - 1 > 3 THEN 3 ELSE n - 1
        delay == 2000 * 2^shift
    IN  IF delay > 15000 THEN 15000 ELSE delay

\* Mutant: the last attempt is not made.
ShouldContinueBelow(s, n) == s = "UNKNOWN" /\ n < MaxAttempts

\* Mutant: an attempt more is made than the policy allows.
ShouldContinueBeyond(s, n) == s = "UNKNOWN" /\ n <= MaxAttempts + 1

ShouldContinueRetrying(s, n) == s = "UNKNOWN" /\ n <= MaxAttempts

Retry ==
    /\ pc = "retry"
    /\ pc' = IF ShouldContinueRetrying(state, attempt) THEN "boot" ELSE "done"
    /\ UNCHANGED <<deviceVars, loopVars, bootstrap, outcome, result, state, storeVars>>

\* Mutant: the wait for boot_completed has no deadline.
WaitForBootForever ==
    /\ pc = "boot" /\ booted
    /\ pc' = "sleep"
    /\ UNCHANGED <<deviceVars, loopVars, bootstrap, outcome, result, state, storeVars>>

\* waitForBootCompleted: until boot_completed or 90 seconds have passed.
WaitForBootCompleted ==
    /\ pc = "boot"
    /\ pc' = "sleep"
    /\ UNCHANGED <<deviceVars, loopVars, bootstrap, outcome, result, state, storeVars>>

Sleep ==
    /\ pc = "sleep"
    /\ slept' = slept + DelayMs(attempt)
    /\ pc' = "probe"
    /\ UNCHANGED <<deviceVars, attempt, starts, bootstrap, outcome, result, state, storeVars>>

-----------------------------------------------------------------------------
(* The hooks *)

\* checkNeed finds no decision and storeTEEStatus reads the state.
HookReadsState ==
    /\ pc # "down" /\ hook = None
    /\ teeBroken = None
    /\ state # "UNKNOWN"
    /\ hook' = (state = "BROKEN")
    /\ UNCHANGED <<deviceVars, pc, loopVars, bootstrap, outcome, result, state, teeBroken, status>>

HookStoresStatus ==
    /\ hook # None
    /\ PersistTeeBroken(hook)
    /\ hook' = None
    /\ UNCHANGED <<deviceVars, pc, loopVars, bootstrap, outcome, result, state>>

-----------------------------------------------------------------------------
(* The daemon *)

Killed ==
    /\ pc # "down"
    /\ starts < MaxStarts
    /\ pc' = "down"
    /\ state' = "UNKNOWN"
    /\ bootstrap' = "pending"
    /\ outcome' = None /\ result' = None
    /\ teeBroken' = None /\ hook' = None
    /\ UNCHANGED <<deviceVars, loopVars, status>>

\* startTeeStateInitialization
Start ==
    /\ pc = "down" /\ starts < MaxStarts
    /\ pc' = "probe"
    /\ attempt' = 0 /\ slept' = 0
    /\ starts' = starts + 1
    /\ UNCHANGED <<deviceVars, bootstrap, outcome, result, state, storeVars>>

-----------------------------------------------------------------------------
Init ==
    /\ capable \in BOOLEAN
    /\ booted = FALSE /\ provisioned = FALSE
    /\ pc = "down"
    /\ attempt = 0 /\ slept = 0
    /\ bootstrap = "pending"
    /\ outcome = None /\ result = None
    /\ state = "UNKNOWN"
    /\ teeBroken = None /\ status = None /\ hook = None
    /\ starts = 0

ProbeThread ==
    \/ Bootstrap \/ ProbeUnavailable \/ GenerateKeyPair \/ ClassifyException
    \/ TransitionTo \/ StateListener
    \/ Retry \/ WaitForBootCompleted \/ Sleep

Next ==
    \/ BootCompletes \/ Provisioned
    \/ ProbeThread
    \/ HookReadsState \/ HookStoresStatus
    \/ Killed \/ Start

\* The probe thread of a running daemon is scheduled and its sleeps end; a
\* hook that stores a decision goes on.
Spec == Init /\ [][Next]_vars /\ WF_vars(ProbeThread) /\ WF_vars(HookStoresStatus)

-----------------------------------------------------------------------------
(* Properties *)

\* A decision that was stored is the one the probe made in this run of the
\* daemon, whoever stored it, also when a hook stores what it read before
\* (Config.kt:76-99, 201 and AttestUtils.kt:263-291).
DecisionFollowsState ==
    /\ teeBroken # None => state # "UNKNOWN" /\ teeBroken = (state = "BROKEN")
    /\ hook # None => state # "UNKNOWN" /\ hook = (state = "BROKEN")

\* The thread gives up on an undecided device only after all retries, spread
\* over the 104 seconds that TeeRetryPolicy.kt computes for them.
GivesUpLate == pc = "done" /\ state = "UNKNOWN" => attempt = MaxAttempts + 1 /\ slept >= 104000

\* A capable device is not taken for a broken one: "without prematurely
\* classifying TEE as BROKEN" (docs/release-notes-next.md:13).
NotPrematurelyBroken == capable => state # "BROKEN"

\* A provisioned device is found to work when an attempt is still to come,
\* unless the bootstrap fails or the daemon ends.
EventuallyWorking ==
    provisioned /\ pc \in {"boot", "sleep", "probe"} ~>
        state = "WORKING" \/ bootstrap = "failed" \/ pc \in {"dead", "down"}

\* The probe thread ends, whatever the device does.
ProbeEnds == pc # "down" ~> pc \in {"done", "dead", "down"}
=============================================================================
