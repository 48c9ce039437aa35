---------------------------- MODULE InjectCommand ----------------------------
(***************************************************************************)
(* What the daemon may rely on when it runs ./inject on keystore2          *)
(* (performInjection of InterceptorUtils.kt): one verdict, the exit code   *)
(* that follows it, and the condition in which keystore2 is left.          *)
(*                                                                         *)
(* This is the abstract specification of the injector: Injector is shown   *)
(* to implement it, and DaemonLifecycle is built on it.                    *)
(***************************************************************************)
EXTENDS Naturals

CONSTANT None

VARIABLES
    target,    \* the keystore2 process
    verdict,   \* what inject_library returned
    exit       \* the exit code of the command

injectVars == <<target, verdict, exit>>

Running == {"own", "loaded", "hooked"}   \* executes its own code

\* busy: held by the injector; wedged: held for good, in a call that never
\* returns.  Left behind: held, stopped by SIGSTOP; stuck, in a call that
\* nobody waits for; doomed, at an address that faults.
TargetStates == Running \cup {"busy", "wedged", "held", "stuck", "doomed", "dead"}

InjectTypeOK ==
    /\ target \in TargetStates
    /\ verdict \in {TRUE, FALSE, None}
    /\ exit \in {0, 1, None}

InjectInit ==
    /\ target = "own"
    /\ verdict = None
    /\ exit = None

Hold ==
    /\ verdict = None
    /\ target = "own"
    /\ target' = "busy"
    /\ UNCHANGED <<verdict, exit>>

\* keystore2 runs its own code again; whether the library installed its hook,
\* or was loaded at all, is not looked at.
Finish ==
    /\ verdict = None
    /\ target = "busy"
    /\ target' \in Running
    /\ verdict' = TRUE
    /\ UNCHANGED exit

Fail ==
    /\ verdict = None
    /\ target # "wedged"
    /\ verdict' = FALSE
    /\ UNCHANGED <<target, exit>>

\* A call that keystore2 was made to do never returns, nor does the command.
Wedge ==
    /\ verdict = None
    /\ target = "busy"
    /\ target' = "wedged"
    /\ UNCHANGED <<verdict, exit>>

\* A failure leaves keystore2 as it was, or never to run its own code again
\* on the thread that was held: nothing in between.
Abandon ==
    /\ verdict = FALSE
    /\ target = "busy"
    /\ target' \in {"own", "held", "stuck", "doomed"}
    /\ UNCHANGED <<verdict, exit>>

Return ==
    /\ verdict # None
    /\ exit = None
    /\ target # "busy"
    /\ exit' = IF verdict THEN 0 ELSE 1
    /\ UNCHANGED <<target, verdict>>

Fault ==
    /\ target = "doomed"
    /\ target' = "dead"
    /\ UNCHANGED <<verdict, exit>>

\* A call that keystore2 was left in faults after all.
CallFaults ==
    /\ target = "stuck"
    /\ target' = "doomed"
    /\ UNCHANGED <<verdict, exit>>

Die ==
    /\ target # "dead"
    /\ target' = "dead"
    /\ UNCHANGED <<verdict, exit>>

Command == Hold \/ Finish \/ Fail \/ Abandon \/ Return

InjectNext == Command \/ Wedge \/ Fault \/ CallFaults \/ Die

\* The command comes to an end unless it waits for a call that never returns,
\* and a thread at a bad address faults.
InjectSpec == InjectInit /\ [][InjectNext]_injectVars /\ WF_injectVars(Command) /\ WF_injectVars(Fault)
=============================================================================
