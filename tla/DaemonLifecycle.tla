---------------------------- MODULE DaemonLifecycle ----------------------------
(***************************************************************************)
(* The daemon from its start to the registered hooks, and its restarts     *)
(* (Main.kt, InterceptorUtils.kt, getBinderBackdoor and                    *)
(* registerBinderInterceptor of BinderInterceptor.kt, the set-up of        *)
(* Keystore2Interceptor.kt, service.sh), over keystore2 processes that may *)
(* die at any time.                                                        *)
(*                                                                         *)
(* The injection is the command specified by InjectCommand, whose steps    *)
(* are taken here; target is the current keystore2 process.  A binder      *)
(* thread that was waiting in ioctl when the hook was installed serves one *)
(* more transaction without it: such threads are counted.                  *)
(***************************************************************************)
EXTENDS InjectCommand

CONSTANTS
    Levels,          \* security levels that the device has
    MaxRetries,      \* maxRetries
    MaxGenerations,  \* keystore2 processes that die of themselves, plus one
    MaxStale         \* binder threads waiting when the hook is installed

ASSUME LifecycleAssumption ==
    /\ MaxRetries \in Nat \ {0} /\ MaxGenerations \in Nat \ {0} /\ MaxStale \in Nat
    /\ Levels \subseteq {"TEE", "STRONGBOX"}
    /\ None \notin BOOLEAN /\ None \notin Nat

VARIABLES
    generation,  \* number of the current keystore2 process
    stale,       \* its binder threads that still wait in the original ioctl
    registry,    \* binder objects of it that the daemon is registered for
    commands,    \* injections started on it
    pc,          \* next step of the daemon
    service,     \* the process that the daemon's service object is in
    triedCount,
    injected,
    linked,      \* its death recipient is linked to the service object
    missed,      \* backdoor requests of this daemon that met a stale thread
    failed,      \* interfaces it did not get registered for: only logged
    bereft       \* keystore2 died before this daemon was linked to it

processVars == <<generation, stale, registry, commands>>
daemonVars  == <<pc, service, triedCount, injected, linked, missed, failed>>
vars        == <<injectVars, processVars, daemonVars, bereft>>

Interfaces == {"service"} \cup Levels

\* loop: service.sh sleeps before it starts the daemon again; ended: it has
\* left its loop.
Steps == {"loop", "get", "ask", "missing", "inject", "register", "link", "TEE", "STRONGBOX", "ready",
          "ended"}

TypeOK ==
    /\ InjectTypeOK
    /\ generation \in 1..MaxGenerations + 1
    /\ stale \in 0..MaxStale
    /\ registry \subseteq Interfaces /\ (registry # {} => target \in {"hooked", "dead"})
    /\ commands \in Nat
    /\ pc \in Steps
    /\ service \in 1..MaxGenerations + 1 \cup {None}
    /\ triedCount \in 0..MaxRetries
    /\ injected \in BOOLEAN
    /\ linked \in BOOLEAN
    /\ missed \in 0..MaxRetries + 1
    /\ failed \subseteq Interfaces
    /\ bereft \in BOOLEAN

ServiceAlive == service = generation /\ target # "dead"

-----------------------------------------------------------------------------
(* The daemon *)

\* service.sh starts the daemon: its state is new.
Start ==
    /\ pc = "loop"
    /\ pc' = "get"
    /\ service' = None
    /\ triedCount' = 0
    /\ injected' = FALSE
    /\ linked' = FALSE
    /\ missed' = 0
    /\ failed' = {}
    /\ bereft' = FALSE
    /\ UNCHANGED <<injectVars, processVars>>

\* getService; without a service the daemon sleeps and tries again.
GetService ==
    /\ pc = "get"
    /\ target # "dead"
    /\ service' = generation
    /\ pc' = "ask"
    /\ UNCHANGED <<injectVars, processVars, triedCount, injected, linked, missed, failed, bereft>>

\* getBinderBackdoor answered by the hook.
BackdoorGranted ==
    /\ pc = "ask"
    /\ ServiceAlive /\ target = "hooked"
    /\ pc' = "register"
    /\ UNCHANGED <<injectVars, processVars, service, triedCount, injected, linked, missed, failed, bereft>>

\* It met a thread that returns from the original ioctl: keystore2 refuses it.
BackdoorMissed ==
    /\ pc = "ask"
    /\ ServiceAlive /\ target = "hooked" /\ stale > 0
    /\ pc' = "missing"
    /\ stale' = stale - 1
    /\ missed' = missed + 1
    /\ UNCHANGED <<injectVars, generation, registry, commands, service, triedCount, injected, linked, failed, bereft>>

\* There is no hook, or the service object is dead.
BackdoorDenied ==
    /\ pc = "ask"
    /\ ~(ServiceAlive /\ target = "hooked")
    /\ pc' = "missing"
    /\ UNCHANGED <<injectVars, processVars, service, triedCount, injected, linked, missed, failed, bereft>>

\* exitProcess(1) or an exception: service.sh leaves its loop.
ExitNonzero == pc' = "ended" /\ UNCHANGED <<service, triedCount, injected, linked, missed, failed>>

\* handleMissingBackdoor: sh runs the injector on the process that pidof finds.
StartInjection ==
    /\ pc' = "inject"
    /\ verdict' = None /\ exit' = None
    /\ commands' = commands + 1
    /\ UNCHANGED <<target, generation, stale, registry, service, triedCount, injected, linked, missed, failed>>

\* Return false and try again after RETRY_DELAY_MS.
Retry ==
    /\ pc' = "get"
    /\ triedCount' = triedCount + 1

\* Mutant: one attempt more.
HandleMissingLate ==
    /\ pc = "missing"
    /\ \/ triedCount > MaxRetries /\ ExitNonzero /\ UNCHANGED <<injectVars, processVars>>
       \/ triedCount <= MaxRetries /\ ~injected /\ StartInjection
       \/ /\ triedCount <= MaxRetries /\ injected
          /\ Retry
          /\ UNCHANGED <<injectVars, processVars, service, injected, linked, missed, failed>>
    /\ UNCHANGED bereft

\* Mutant: the attempt before the injection counts as one after it.
HandleMissingEarly ==
    /\ pc = "missing"
    /\ \/ triedCount >= MaxRetries - 1 /\ ExitNonzero /\ UNCHANGED <<injectVars, processVars>>
       \/ triedCount < MaxRetries - 1 /\ ~injected /\ StartInjection
       \/ /\ triedCount < MaxRetries - 1 /\ injected
          /\ Retry
          /\ UNCHANGED <<injectVars, processVars, service, injected, linked, missed, failed>>
    /\ UNCHANGED bereft

\* Mutant: every attempt injects again.
HandleMissingReinjects ==
    /\ pc = "missing"
    /\ \/ triedCount >= MaxRetries /\ ExitNonzero /\ UNCHANGED <<injectVars, processVars>>
       \/ triedCount < MaxRetries /\ StartInjection
    /\ UNCHANGED bereft

HandleMissingBackdoor ==
    /\ pc = "missing"
    /\ \/ triedCount >= MaxRetries /\ ExitNonzero /\ UNCHANGED <<injectVars, processVars>>
       \/ triedCount < MaxRetries /\ ~injected /\ StartInjection
       \/ /\ triedCount < MaxRetries /\ injected
          /\ Retry
          /\ UNCHANGED <<injectVars, processVars, service, injected, linked, missed, failed>>
    /\ UNCHANGED bereft

\* performInjection has waited for the injector.
PerformInjection ==
    /\ pc = "inject"
    /\ \/ /\ exit = 0
          /\ injected' = TRUE
          /\ Retry
          /\ UNCHANGED <<service, linked, missed, failed>>
       \/ exit = 1 /\ ExitNonzero
    /\ UNCHANGED <<injectVars, processVars, bereft>>

\* registerBinderInterceptor: a transaction that fails, on a live service too,
\* is only logged.
RegisterInterceptor(interface) ==
    \/ /\ ServiceAlive /\ target = "hooked"
       /\ registry' = registry \cup {interface}
       /\ UNCHANGED failed
    \/ /\ failed' = failed \cup {interface}
       /\ UNCHANGED registry

RegisterService ==
    /\ pc = "register"
    /\ RegisterInterceptor("service")
    /\ pc' = "link"
    /\ UNCHANGED <<injectVars, generation, stale, commands, service, triedCount, injected, linked, missed, bereft>>

\* Mutant: the exception of linkToDeath is caught and logged.
LinkToDeathCaught ==
    /\ pc = "link"
    /\ linked' = ServiceAlive
    /\ pc' = "TEE"
    /\ UNCHANGED <<injectVars, processVars, service, triedCount, injected, missed, failed, bereft>>

\* linkToDeath throws when the service object is dead, which ends the daemon.
LinkToDeath ==
    /\ pc = "link"
    /\ \/ /\ ServiceAlive
          /\ linked' = TRUE
          /\ pc' = "TEE"
          /\ UNCHANGED <<service, triedCount, injected, missed, failed>>
       \/ ~ServiceAlive /\ ExitNonzero
    /\ UNCHANGED <<injectVars, processVars, bereft>>

\* setupSecurityLevelInterceptors: a level whose getSecurityLevel throws is
\* skipped like one that the device does not have.
SetupLevel(level, next) ==
    /\ pc = level
    /\ IF level \in Levels THEN RegisterInterceptor(level) ELSE UNCHANGED <<registry, failed>>
    /\ pc' = next
    /\ UNCHANGED <<injectVars, generation, stale, commands, service, triedCount, injected, linked, missed, bereft>>

\* Mutant: the death recipient only logs.
BinderDiedLogs ==
    /\ linked /\ ~ServiceAlive
    /\ linked' = FALSE
    /\ UNCHANGED <<injectVars, processVars, pc, service, triedCount, injected, missed, failed, bereft>>

\* The death recipient: exitProcess(0), and service.sh starts the daemon again.
BinderDied ==
    /\ linked /\ ~ServiceAlive
    /\ pc' = "loop"
    /\ linked' = FALSE
    /\ UNCHANGED <<injectVars, processVars, service, triedCount, injected, missed, failed, bereft>>

Daemon ==
    \/ Start \/ GetService
    \/ BackdoorGranted \/ BackdoorMissed \/ BackdoorDenied
    \/ HandleMissingBackdoor \/ PerformInjection
    \/ RegisterService \/ LinkToDeath
    \/ SetupLevel("TEE", "STRONGBOX") \/ SetupLevel("STRONGBOX", "ready")

-----------------------------------------------------------------------------
(* The injector and keystore2 *)

\* The steps of the command that the daemon waits for, for ever if a call of
\* the injector never returns.  The threads that wait when the hook is
\* installed stay in the original ioctl.
RunCommand ==
    /\ pc = "inject"
    /\ \/ (Hold \/ Wedge \/ Fail \/ Abandon \/ Return) /\ UNCHANGED stale
       \/ Finish /\ stale' \in IF target' = "hooked" THEN 0..MaxStale ELSE {0}
    /\ UNCHANGED <<generation, registry, commands, daemonVars, bereft>>

\* The transaction of an application brings a waiting thread under the hook.
ThreadReturns ==
    /\ stale > 0 /\ target = "hooked"
    /\ stale' = stale - 1
    /\ UNCHANGED <<injectVars, generation, registry, commands, daemonVars, bereft>>

Keystore2Dies ==
    /\ \/ Die /\ generation < MaxGenerations
       \/ Fault
    /\ bereft' = (bereft \/ (service # None /\ ~linked))
    /\ UNCHANGED <<processVars, daemonVars>>

\* A call that the injector left keystore2 in faults after all.
LeftCallFaults ==
    /\ CallFaults
    /\ UNCHANGED <<processVars, daemonVars, bereft>>

\* init starts keystore2 again.  A command that has no verdict yet has lost
\* its process: it can only fail.
Keystore2Starts ==
    /\ target = "dead"
    /\ target' = "own"
    /\ generation' = generation + 1
    /\ stale' = 0
    /\ registry' = {}
    /\ commands' = 0
    /\ verdict' = IF pc = "inject" /\ verdict = None THEN FALSE ELSE verdict
    /\ UNCHANGED <<exit, daemonVars, bereft>>

-----------------------------------------------------------------------------
Init ==
    /\ InjectInit
    /\ generation = 1 /\ stale = 0 /\ registry = {} /\ commands = 0
    /\ pc = "loop" /\ service = None /\ triedCount = 0 /\ injected = FALSE
    /\ linked = FALSE /\ missed = 0 /\ failed = {} /\ bereft = FALSE

Next ==
    \/ Daemon \/ BinderDied \/ RunCommand
    \/ ThreadReturns \/ LeftCallFaults \/ Keystore2Dies \/ Keystore2Starts

\* The daemon, its binder thread, the injector and init run.
Spec ==
    /\ Init /\ [][Next]_vars
    /\ WF_vars(Daemon) /\ WF_vars(BinderDied) /\ WF_vars(RunCommand) /\ WF_vars(Keystore2Starts)

-----------------------------------------------------------------------------
(* Properties *)

\* No keystore2 process is injected twice, over all attempts and restarts of
\* the daemon: a second run of entry would make the hook call itself
\* (InterceptorUtils.kt:57-70, binder_interceptor.cpp:486-515).
InjectedOnce == commands <= 1

\* service.sh gives up only when the injector failed, it reported success but
\* the library was not loaded or could not install its hook, keystore2 died
\* before the daemon was linked to it, or all requests after the injection met
\* threads that were waiting when the hook was installed
\* (InterceptorUtils.kt:57-70, service.sh).
GivesUpForCause ==
    pc = "ended" => \/ exit = 1
                    \/ commands = 1 /\ target \in {"own", "loaded"}
                    \/ bereft
                    \/ missed = MaxRetries

\* A daemon in maintenance mode works with the current keystore2 process or
\* will be told that its own is gone, wherever during the set-up that process
\* died and was replaced; the interfaces it does not intercept are those it
\* logged a failure for (InterceptorUtils.kt:46-55, BinderInterceptor.kt:61-77).
NeverStranded ==
    pc = "ready" => /\ linked
                    /\ ServiceAlive => target = "hooked" /\ Interfaces \ registry \subseteq failed

\* When keystore2 stops dying, the daemon ends up in maintenance mode with a
\* hooked process for good, or service.sh has given up, or the injector waits
\* for a call that never returns: otherwise the daemon neither waits forever
\* nor stays with a dead service (Main.kt:40-53, InterceptorUtils.kt:90-96).
SettlesDown ==
    <>[](\/ pc = "ended"
         \/ target = "wedged"
         \/ pc = "ready" /\ target = "hooked" /\ Interfaces \ registry \subseteq failed)
=============================================================================
