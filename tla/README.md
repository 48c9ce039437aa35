# TrickyStoreOSS: a TLA+ model

A verification development kept beside TrickyStoreOSS: modules that model the
daemon and the library it injects into keystore2, TLC configurations that check
them on small instances, and TLAPS proofs of the main invariants for every
instance. `PROJECT.json` maps each definition to the lines it models and lists
components, runs, mutants, findings, hazards and theorems.

## 1. The system

A root daemon (Kotlin) injects a library (C++) into the `keystore2` process. The
library hooks `ioctl`, redirects chosen binder transactions to a stub, and the
stub asks the daemon before (pre) and after (post) it calls the real object. The
daemon answers *Skip* (forward, no post hook), *Continue* (forward, then the post
hook) or *OverrideReply*. By `target.txt` a package is in one of three modes:
`AUTO` (forwarded and left alone), `LEAF_HACK` (real keys, their certificate
chain re-signed with a keybox), `GENERATE` (keys made in software).

| Component | State | Operations | Interacts with | What is hard |
|---|---|---|---|---|
| Ownership maps (`CertificateAliasCache.kt`, `PassthroughKeyRegistry.kt`) | `keys`, `patchedResponses`, `keysByNspace`, `grants`, `skipLeafHacks`; tracked passthrough keys and their index | resolve, promote, clear, relinquish, invalidate, cleanup | called by all hooks, from any binder thread | seven maps that must agree, without a common lock |
| Security-level hooks (`SecurityLevelInterceptor.kt`) | `pendingPassthroughKeys` | `generateKey`, `importKey`, `createOperation` | maps, `PkgConfig`, cryptography, persistence | a hook leaves the maps for seconds of cryptography |
| Service hooks (`Keystore2Interceptor.kt`) | none of its own | `deleteKey`, `updateSubcomponent`, `grant`, `ungrant`, `getKeyEntry`, `listEntries` | maps, `PkgConfig` | stale owners after mode changes; grants; calls that overlap |
| Configuration (`Config.kt`) | `packageModes`, `uidPackages`, `iPm`, `teeBroken`, keybox | file observers, `checkNeed`, `isPlainAuto`, `updateKeyBox` | wipes the maps when the keybox changes | caches that are empty or stale when read |
| Native interceptor (`binder_interceptor.cpp`, `BinderInterceptor.kt`) | `interceptor_registry_`, a queue per thread | ioctl hook, stub, pre, post, register | libbinder, the daemon | nested transactions; a daemon that dies in mid-call |
| Software operations (`SoftwareOperationBinder.kt`) | finalised flag, `usageRemaining` | create, update, updateAad, finish, abort | maps | the budget is charged at finish, the key may be gone by then |
| Key persistence (`PersistenceManager.kt`) | files, one executor thread | save, delete, clearAll, loadAll | maps, start-up | kills between any two steps |
| TEE probe (`AttestUtils.kt`, `tee/`) | probe state, one-shot bootstrap, `tee_status` | attempt, classify, retry with backoff | `PkgConfig` | boot and provisioning race the attempts |
| Daemon life cycle (`InterceptorUtils.kt`, `Main.kt`, `service.sh`) | `injected`, `triedCount` | inject, ask for the backdoor, register, link to death, exit, restart | injector, native library, keystore2 | death of keystore2 at any step; exit codes that end the loop |
| Legacy hooks (`KeystoreInterceptor.kt`) | key pairs by alias | get, generate, attest, export | Android 10/11 keystore | calls in a fixed order |
| Certificates (`CertificateGen.kt`, `CertificateHack.kt`, `KeyBoxUtils.kt`) | parsed keyboxes | synthesise, re-sign, parse | crypto libraries | failure and failover |
| Injector (`inject/`, `maps/`) | the traced thread: its stop, its registers, what it holds for the injector | attach, remote calls, restore, detach | run by the daemon on keystore2 | a sequence of calls in another process, which may fault, be signalled or die at each |
| Diagnostics (`logging/`), vendored headers and stubs | – | – | – | – |

What makes them correct:

* **Maps and hooks.** A caller that is plain `AUTO` gets unmodified chains; what
  is cached for an alias is the key that was last established; the maps agree
  with each other after whole hooks, hooks that overlap can tear the entries of
  their own key only, and a number never leads to another key; only the owner
  changes ownership.
* **Native.** The stub never takes one transaction for another; the real object
  executes each transaction once; every caller is answered, once.
* **Operations.** `USAGE_COUNT_LIMIT` is respected and the budget is exact.
* **Persistence.** Files and map agree; a saved key survives a restart.
* **Probe.** It ends, it gives up late, its stored decision is the one it made,
  a capable device is not declared broken.
* **Injector.** It ends with one verdict, unless a function it called never returns;
  success means that keystore2 runs its own code with the library in it, unless
  `dlopen` was looked up in a wrong file; failure that nothing was left in a
  keystore2 that goes on.
* **Daemon.** It ends up intercepting the current keystore2, every interface but
  those it logged a failure for, or gives up for a cause that can be named; no
  process is injected twice.

The hazards behind these properties are listed line by line in `PROJECT.json`.

## 2. The modules

    CertificateAliasCache          maps and their transitions (operators)
      KeystoreCalls                state of the hooks, routing, real keystore
        SecurityLevelInterceptor   generateKey, importKey
          Keystore2Interceptor     the other hooks, environment, Spec, properties
            MCKeystore             instances
            Keystore2InterceptorProofs   types, isolation, AUTO callers
    OwnershipWrites                the same maps, one map operation at a time
      MCOwnershipWrites            instances
      OwnershipWritesProofs
    NativeInterceptor              NativeInterceptorProofs
    SoftwareOperation              MCSoftwareOperation, SoftwareOperationProofs
    KeyPersistence                 MCPersistence, KeyPersistenceProofs
    TeeProbe                       TeeProbeProofs
    InjectCommand                  what ./inject promises (abstract)
      DaemonLifecycle              takes the steps of InjectCommand as its own
        DaemonLifecycleProofs
    MemoryMaps                     finding a function in another process (operators)
      Injector                     implements InjectCommand (INSTANCE ... WITH)
        MCInjector                 instances
        InjectorProofs

`InjectCommand` joins two components: the daemon is checked against what the
command promises, and the injector is shown to keep that promise.

An operator whose comment begins with "Mutant:" is no part of the model. It is a
plausible bug in the definition after it; substituted for that definition it
violates the property named in `PROJECT.json`.

### Ownership (CertificateAliasCache to Keystore2Interceptor)

The maps are one record `cache`; every function of the two Kotlin objects is an
operator from record to record, so a hook that makes several such calls is their
composition. `call[t]` is what binder thread `t` is serving, with a program
counter: pre hook, `real` (in the real keystore), `post`, and two points where a
hook is away doing cryptography, `synth` (`CertificateGen.generateKeyPair`) and
`resign` (`CertificateHack.hackCertificateChain`).

| Actions | Code |
|---|---|
| `GenerateKeyReject`, `GenerateKeyPre`, `GenerateKeyStore`, `GenerateKeyPost`, `GenerateKeyResign` | `SecurityLevelInterceptor` generateKey: all routes, `storeGeneratedKey`, post hook up to and after re-signing |
| `ImportKeyPre`, `ImportKeyPost` | importKey |
| `DeleteKeyPre/Post`, `UpdateSubcomponentPre/Post`, `GrantPre/Post`, `UngrantPre` | `Keystore2Interceptor` |
| `GetKeyEntryGrantPre`, `GetKeyEntryPre`, `GetKeyEntryNoKeybox`, `GetKeyEntryPost`, `GetKeyEntryResign` | getKeyEntry: grant shortcut, current-mode authority, missing keybox, post policy |
| `UpdateTargetPackages`, `UpdateKeyBox`, `PmDies`, `PmReturns` | `PkgConfig`: the file observers and the package manager |
| `RealCreate`, `RealDelete`, `RealUpdate`, `RealGrant`, `RealUngrant`, `RealGetKeyEntry`, `Return` | the real keystore, external: what the hooks rely on |

`truth` records, for the properties only, the entry that the last successful
call established for each alias; `call[t].auto` that the UID has been plain
`AUTO` since the call arrived.

Abstractions. Two random 64-bit numbers never collide. A certificate chain is the
number that names it. Within a hook, between its cryptographic pauses, the single
map operations and the re-reads of the configuration are one step, `buildResponse`
succeeds, and keys restored at start-up are left out: these three are the subject
of `OwnershipWrites`, so this module's properties of the maps (`CacheCurrent`,
`OwnershipConsistent`) are checked for hooks that do not overlap. A keybox
reload is one step (the code empties the parsed keyboxes first), a package
installed after its UID was cached is left out, and so is a failure to write a
reply parcel. `listEntries` changes no state and is left out. The budget of a key
and its file have modules of their own, at finer grain.

### OwnershipWrites

The code takes no lock around the maps. Here a hook is a program of single map
operations (`Program`), and the programs of different threads interleave at every
one: `hook[t].at` is the operation thread `t` is about to do, `hook[t].gone` the key
id that its `clearSyntheticCertificateState` read at the start and removes later.

| Program | Code |
|---|---|
| `cleanup`, `clear` | `cleanupKey`; `clearSyntheticCertificateState` alone, of a passthrough generateKey, of updateSubcomponent |
| `store` | `storeGeneratedKey` up to `saveKey`; `buildResponse` may throw (`Build`) |
| `leaf`, `promote` | the generateKey post hook: re-signing, which may throw (`Resign`), and promotion of a passthrough key |
| `patch` | a getKeyEntry that stores the re-signed response |
| `grant`, `ungrant` | the check of the key and the put of the grant; its removal |
| `load`, `reload` | one key of `loadPersistedKeys`; `cleanupAll` |

Which hook runs when is left open: any hook, on any key, at any time, except that
hooks that need a target UID come after `loadPersistedKeys` (`restoring`), because
`target.txt` is read after it. `removeIf` and `clear` are one operation. The ghosts:
`drawnFor` (the key a number was drawn for), `unsettled` (keys on which hooks
overlapped or `buildResponse` threw), `hook[t].cleans` (keys that a clearing hook has
had to itself since it started; when it returns they are settled again).

### NativeInterceptor

`Read` is the original ioctl returning a buffer, `mIn`. `ProcessBinderTransaction`
is one round of the hook's loop over it: the next transaction is redirected where
`shouldInterceptTransaction` says so, and its info pushed on `queue`
(`g_thread_transaction_queue`). The registry is locked for each look-up, not for
the buffer, so registrations may come between two rounds; `scanned` counts them.
`ExecuteReal` and `ExecuteStub` are libbinder executing the next command once the
hook has returned; the stub takes the head of the queue for what it was called
with. `PreReply`/`PreFails` and `PostReply`/`PostFails` are the
two exchanges with the daemon, successful or not. A thread that waits for the
daemon may be handed further transactions, which it serves first (`stack`).
`Register`, `DaemonStarts`, `DaemonDies`, `TargetGone` are the surroundings. A
failed parcel operation is a choice under `MayFail`.

### SoftwareOperation

`generateKey` writes `keys` and then `usageRemaining`, when it clears the old
state and when it stores the new; the writes are separate steps (`GenerateKey`,
`RemoveUsage`, `StoreKey`, `StoreUsage`; `ClearKey` for deletions). `op` are the
operation binders: `CreateOperation` (its usage key is the key itself, none for a
grantee, or another key when the number and the alias of the descriptor name
different ones), `UpdateAadThrows`, `Abort`, `Finish`, `Release`. `used` counts uses.
`bypassed` and `robbed` are the generations whose accounts the code does not keep
exactly: a use that was not charged to its key, and a charge for another
generation's use. `saved` is what was handed to persistence; `Restarted` brings any
of it back without its budget, as `loadPersistedKeys` does, and counts it as
bypassed.

### KeyPersistence

A hook changes the map (`StoreGeneratedKey`, `CleanupKey`, `ClearInMemory`,
`UpdateKeyBox`) and then queues a task (`Execute`); `PersistThread` runs tasks one
at a time, with failing saves, the copy that replaces a failed rename and its
torn result, failing deletions, and clearing that is partial or leaves files. `Killed`
and `Registered` start a new life of the daemon; loading is `ReadFile` for each file
of `loadAll` and `RestoreKey` for each key that is put into the map (`walk` is what is
left to do, `read` what was found), with early calls and their tasks in between;
then `Initialize`. `stale` marks the keys for which the code gives up agreement:
overlapping calls, in-memory clearing, a failed save or deletion, and a deletion
between the read of a file and the put of its key.

### TeeProbe

`pc` is the probe thread: `Bootstrap`, `ProbeUnavailable`, `GenerateKeyPair`,
`ClassifyException`, `TransitionTo`, `StateListener`, then `Retry`,
`WaitForBootCompleted`, `Sleep`; an `Error` thrown by the key generation ends the
thread (`dead`). `HookReadsState` and `HookStoresStatus` are a hook
that stores the decision concurrently. `capable` is drawn at the start; boot,
provisioning, `Killed` and `Start` come at any time. Delays are those of
`TeeRetryPolicy`, with the real `MAX_ATTEMPTS` of 9.

### InjectCommand, Injector and MemoryMaps

`pc` is the next step of the injector and names the remote call it is at; `waiting`
says that it waits in `remote_post_call`. `thread`, `stop`, `regs`, `callee` are the
main thread of keystore2 as ptrace sees it; `sock`, `libFd`, `lib` what the calls
have made in the process.

| Actions | Code |
|---|---|
| `Main`, `Attach`, `WaitForStop`, `Prepare` | `main`, `PtraceAttachment`, `inject_library` up to the first remote call |
| `PrepareTransfer`, `SendMsg`, `ReadControlMessage` | the local part of `transfer_fd_to_remote` |
| `RemotePreCall`, `RemotePreCallFails`, `RemotePostCall`, `SuppressSignal`, `DlopenUnresolved` | `remote_call` and its halves, for each of the calls |
| `TransferFdToRemote`, `GetRemoteDlerror`, `RemoteDlopen`, `RemoteFindEntry`, `RemoteCallEntry` | as tables: where the injector goes on for each result of a call |
| `Restore`, `Detach`, `Exit` | `set_regs(backup_regs)`, the destructor, the exit code |
| `FunctionReturns`, `FunctionCrashes`, `FunctionWedges`, `StopDelivered`, `SignalArrives`, `Faults`, `Killed` | the kernel and keystore2, external |

Of a result the code compares 0 and -1, so it is one of `zero`, `error`, `other`. A
failed `remote_call` yields `zero`, as in the code. Registers and memory are
accessible as ptrace and `process_vm_readv` make them (`RegsAccessible`,
`MemoryAccessible`). How arguments are laid out in registers and on the stack is
left out, and so is `RemoteLibraryHandle`, which nothing uses.

A function that was looked up in a wrong file, or an entry point that a wrong
`dlsym` returned, is `Astray`: it may return any value, fault, or never return, and
is taken to leave the socket, the descriptor and the library alone. A fault is
either SIGSEGV, which the injector takes for the end of the call
(`FunctionCrashes`), or SIGILL or SIGBUS, which it suppresses and which the
instruction then raises again, without end (`FunctionWedges`, `wedged`).

`MemoryMaps` keeps
what the lookups read of a mapping: start, offset, executable or not, and how its
path ends.

The refinement maps the thread to a condition of keystore2 (`TargetCondition`):
its own code, without the library, with it, with its hook; held by the injector
(`busy`); left stopped (`held`), in a call that does not return (`stuck`), at an
address that faults (`doomed`); in a call whose fault is suppressed for ever, with
the injector waiting for it (`wedged`); dead. The verdict is `result`, the exit code
follows from `pc`.

### DaemonLifecycle

`pc` goes from `loop` (service.sh) over `get`, `ask`, `missing`, `inject`,
`register`, `link` and the security levels to `ready`, or to `ended` when the exit
code makes service.sh leave its loop. `RunCommand` are the steps of
`InjectCommand` while the daemon waits for it; `target` is the current keystore2
process, `registry` what the daemon is registered for in it. `stale` counts its
binder threads that were waiting in the original `ioctl` when the hook was
installed: each serves one more transaction without the hook, possibly the
request for the backdoor (`BackdoorMissed`). `missed` and `bereft` record for
`GivesUpForCause` why the daemon could not succeed. A registration may fail and a
security level be skipped on a live keystore2 too; the code logs it and goes on,
and `failed` is what it logged. `HandleMissingBackdoor`,
`PerformInjection`, `LinkToDeath` and `BinderDied` have the exit codes of the code.

## 3. The runs

| Run | Instance | Shows |
|---|---|---|
| `serial` | 2 UIDs, 1 alias, 2 real and 2 forged numbers, 1 thread, mode changes at any point, keybox reloads between calls; 684k states | `AutoUnmodified`, `CacheCurrent`, `OwnershipConsistent`, `OwnerIsolation` |
| `environment` | 1 UID that is `AUTO` or shared by both other modes, 1 thread, 2 real and 2 forged numbers, all operations, attested and symmetric keys, grants with and without `UPDATE`, all environment events between any two steps, unloaded package lists; 268k states | `TypeOK`, `OwnershipConsistent` |
| `writes` | 2 keys, 2 key ids, 1 grant id, 2 threads that interleave at every map operation; 2.1M states | `TearsStayLocal`, `NumbersKeepTheirKey` |
| `native` | 2 threads, 3 transactions, buffers of 2, nesting 2, 2 daemons, parcel failures, dying target; 273k states | `TypeOK`, `QueueAligned`, `ExecutedOnce`, `EveryAnswered`, `AnsweredForGood` |
| `software` | 2 keys, 2 generations with limit 1 or none, 2 operations, 2 uses, restarts; 1.5M states | `TypeOK`, `UsageLimit`, `UsageExact` |
| `persistence` | 2 keys, 2 generations, 3 tasks, 3 starts; 93k states | `TypeOK`, `DiskAgrees` |
| `tee` | 9 attempts, 2 starts, capable and broken devices; 4k states | `TypeOK`, `DecisionFollowsState`, `GivesUpLate`, `EventuallyWorking`, `ProbeEnds` |
| `inject` | 5 memory maps (usual, a misleading libc, a misleading libdl, no libdl, unreadable), 2 other signals, every call may fail, fault, wedge or go astray, keystore2 killed at any point; 17.8k states | `TypeOK`, `NothingLeftBehind`, `SuccessMeansLoaded`, `HeldBySignalOnly`, and the refinement `ImplementsCommand` |
| `lifecycle` | 3 keystore2 processes that die, plus those that the injector loses, 4 waiting threads, `maxRetries` 3 as in the code, failing registrations; 2.7k states | `TypeOK`, `InjectedOnce`, `GivesUpForCause`, `NeverStranded`, `SettlesDown` |
| `auto_grant_unloaded` | violation of `AutoUnmodified` | the grant shortcut judges AUTO before the packages are loaded |
| `persisted_wiped` | violation of `KeptAvailable` | start-up with a keybox clears the keys it restored |
| `tee_premature` | violation of `NotPrematurelyBroken` | boot_completed is read after the failure it qualifies |

The three violations are disagreements between the code and a sentence of its docs
or comments; the findings in `PROJECT.json` quote them.

**Why the bounds are enough.** Ownership is per `(uid, alias)` and the aliases of a
UID do not interact except through key numbers, so one alias, with an owner and a
grantee, and two numbers of each sort (an old and a new key) give every conflict;
`writes` needs two threads because the maps are touched by two hooks at a time, and
two keys because a hook must not reach the other's.
A grant is a number of its own in the real keystore, so that a grantee reading a
key and its owner then updating it takes three real numbers: `serial` was also run
with three real and two forged ones (2.9M states, too long to repeat each time).
The proofs remove the bounds for the safety properties of all components except
`CacheCurrent` and `OwnershipConsistent`, for which they stay. In `native`
a buffer of two with a nested third is the smallest case in which the queue could
be popped in a wrong order. In `software` two generations of one alias give every
confusion of old and new budgets, and the second key is the one a descriptor
confuses it with. In `persistence`
three starts allow a kill during recovery from a kill. In `inject` one signal can
come before the SIGSTOP and one into a call; the sequence of calls has its real
length. In `lifecycle` four waiting threads are one more than the tries, and three
processes allow a death before and one after the set-up of the first. Named
bounds: `MaxBatch`, `MaxDepth`, `MaxDaemons`, `MaxGens`, `MaxUses`, `MaxPending`,
`MaxStarts`, `MaxSignals`, `MaxGenerations`, `MaxStale`.

**Symmetry** is used for threads and numbers (`MCKeystore`), keys, numbers and
threads (`MCOwnershipWrites`), handles and key ids;
not in the runs with liveness properties.

**Fairness.** `NativeInterceptor`: weak fairness of `Serve(t)` for each thread, that
is, the kernel schedules binder threads, and a daemon that is alive answers; the
failure actions cover one that is not. A hook can block in `waitForService`
(`Config.kt:311`) while the package manager is not published; fairness assumes that
this wait ends, and `EveryAnswered` does not hold of a device on which it does not.
Neither arrivals nor daemon starts are fair. `TeeProbe`: weak fairness of the
probe thread (a running thread is scheduled, `Thread.sleep` returns, and so does
`generateKeyPair` of the platform, for which the code has no timeout) and of
`HookStoresStatus`; boot and provisioning are not fair, so a device may never get
ready. `Injector`: the injector process runs, and so does a thread that is not
stopped, so that a function it is made to call returns, faults or wedges. The code
has no timeout: a wedged call, or a `dlopen` that hangs, hangs injector and daemon. Signals and kills are not
fair. `InjectCommand` has the fairness that `Injector` is shown to provide.
`DaemonLifecycle`: the daemon, its binder thread, the command and init (which
starts keystore2 again) run; deaths are not fair and bounded in number, which is
the premise of `SettlesDown`. The other specifications are checked for safety
only.

**Deadlock** is checked in the ownership runs that pass, `writes` included. The others
say `CHECK_DEADLOCK FALSE`: an instance ends when its numbers are drawn (nothing is
deleted in `auto_grant_unloaded`), its transactions are answered, its
generations made, its starts used up, the probe thread or the injector has
returned, or the daemon is in maintenance mode.

### Observations without a run of their own

Further instances of `Keystore2Interceptor` violate properties above; they
are reproduced by changing constants (three real numbers):

* *Overlapping key generation.* `AutoUnmodified` with two threads, one UID that is
  only `AUTO`, `Ops = {"generateKey"}`, `Env = {"overlap"}`: the calls share one
  `pendingPassthroughKeys` flag, and the second post hook re-signs the chain
  (`SecurityLevelInterceptor.kt:309` and `422`).
* *Package manager restart.* `AutoUnmodified` with one UID, modes `AUTO` and
  `GENERATE`, `Ops = {"generateKey", "getKeyEntry"}`, `Env = {"pmDies"}`: `checkNeed`
  is false for everybody (`Config.kt:197-200`), and the branch for untargeted
  callers serves the old software owner.
* *Symmetric regeneration.* `CacheCurrent` with a `LEAF_HACK` UID and
  `Kinds = {"attested", "symmetric"}`: the old response is cleared only when the
  reply carries a certificate (`SecurityLevelInterceptor.kt:490`).
* *A grantee's update.* `CacheCurrent` with two UIDs, `ModeSets <- LeafOwner`,
  `Ops = {"generateKey", "grant", "getKeyEntry", "updateSubcomponent"}` and a grant
  of `UPDATE`: `updateSubcomponent` through a grant invalidates
  `(callingUid, alias)`, the grantee's (`Keystore2Interceptor.kt:167`), and the
  owner keeps the chain that was replaced.

* *Keybox reload under a call.* `CacheCurrent` with the constants of `serial`, three
  real numbers and `Env = {"keyboxReload"}`: a grantee's getKeyEntry finds the owner
  of the reply in `keysByNspace`, the reload clears the maps (`Config.kt:62`), and
  the re-signed response is stored for the owner without an index entry
  (`Keystore2Interceptor.kt:618-631`). When the owner then updates the key by key id,
  `resolveKey` finds nothing to invalidate (`Keystore2Interceptor.kt:144`), and the
  old chain stays. Two real numbers are too few for it.
* *Rebinding past the cache.* `CacheCurrent` with one UID: an untargeted generateKey
  (`{}` in `ModeSets`), one whose synthesis failed (`synthFails`), one while the
  package manager is gone (`pmDies`) and deletion by key id (`deleteByNumber`) all
  leave the old response in the maps.

* *Replay during an update.* With a `LEAF_HACK` UID, two threads and
  `Env = {"overlap"}` the old chain can be in `patchedResponses` while an
  updateSubcomponent is in the real keystore, although its pre hook drops it "so
  getKeyEntry cannot replay stale synthetic/patched data while the TEE update is in
  flight" (`Keystore2Interceptor.kt:164-166`): a generateKey that was re-signing puts
  it there (`SecurityLevelInterceptor.kt:512`), and with a grant so does a grantee's
  getKeyEntry (`Keystore2Interceptor.kt:631`). The post hook of a successful update
  removes it again.

So `serial` is not a claim about overlapping calls, symmetric keys, updates by a
grantee, a restarting package manager, reloads under a call or deletion by key id;
`environment` covers these for `OwnershipConsistent`, with one thread and without
the grantee. `AutoTheorem` excludes overlapping calls, unloaded lists and a
restarting package manager by name (section 4).

What `writes` shows to happen, on a key that is `unsettled`:

* A promotion (`SecurityLevelInterceptor.kt:457-466`) between another thread's
  `PassthroughKeyRegistry.remove` and its put into `keys` (`546-555`) leaves a key
  that is software and tracked as passthrough.
* A cleanup between the check and the put of a grant
  (`Keystore2Interceptor.kt:192-207`) leaves a grant on a key that nobody serves.
* A `buildResponse` that throws leaves an index entry of a key that was not stored.

`TearsStayLocal` says that this never reaches another key and that the next
clearing hook that has the key to itself mends it.

What `inject` and `lifecycle` show to happen, allowed by their properties:

* A failure after the first remote call restores nothing: the thread is detached
  at the return address and keystore2 dies there (`main.cpp:394-433`, the condition
  `doomed`). `set_regs(backup_regs)` is on the way to success only.
* When `sendmsg` fails the thread is still in `recvmsg`; neither `close` can be
  called in it nor `PTRACE_DETACH` succeed, and it stays there (`main.cpp:195`,
  `stuck`).
* A signal that is delivered before the SIGSTOP of `PTRACE_ATTACH` makes the
  injector give up, and the pending SIGSTOP then stops keystore2
  (`main.cpp:371`, `held`).
* `remote_post_call` suppresses every signal but SIGSEGV, also those that are not
  the benign ones its comment names. A SIGILL or SIGBUS of the called function is
  raised again by the same instruction and suppressed again, without end
  (`utils.cpp:447-455`): the daemon waits for ever (`wedged`).
* When `dlopen` and `dlsym` were looked up in a wrong file, whatever runs there need
  only return something that is not 0; `entry` then faults, and the injection is
  reported as success without the library (`utils.cpp:154-213`, `main.cpp:318-321`).
* The result of `entry` is only logged (`main.cpp:318`): an injection whose hook
  was not installed is reported as success, and the daemon finds out by its three
  tries. The message "Tried injection $maxRetries times" then follows a single
  injection (`InterceptorUtils.kt:59`).
* A `socket` call that faulted counts as descriptor 0 (`utils.cpp:460`,
  `main.cpp:147`); the sequence fails later, at the control message.
* keystore2 dying between `getService` and `linkToDeath` ends the daemon with a
  non-zero code and thereby the loop of service.sh, as do three requests that all
  meet waiting threads (`InterceptorUtils.kt:51`, `58`).

## 4. The proofs

| Module | Theorem | Statement | Assumptions |
|---|---|---|---|
| `Keystore2InterceptorProofs` | `TypeCorrect` | `Spec => []TypeOK` | `CacheAssumption`, `HooksAssumption` |
| | `OwnerIsolationTheorem` | `Spec => OwnerIsolation` (an action property) | |
| | `AutoTheorem` | `AutoSetting /\ Spec => []AutoUnmodified` | |
| `OwnershipWritesProofs` | `TearsStayLocalTheorem`, `NumbersKeepTheirKeyTheorem` | `Spec => []TearsStayLocal`, `[]NumbersKeepTheirKey` | `WritesAssumption` |
| `SoftwareOperationProofs` | `TypeCorrect`, `UsageLimitTheorem`, `UsageExactTheorem` | `Spec => []TypeOK`, `[]UsageLimit`, `[]UsageExact` | `OperationAssumption` |
| `NativeInterceptorProofs` | `TypeCorrect`, `QueueAlignedTheorem`, `ExecutedOnceTheorem` | `Spec => []TypeOK`, `[]QueueAligned`, `[]ExecutedOnce` | `NativeAssumption` |
| | `AnsweredForGoodTheorem` | `Spec => AnsweredForGood` (an action property) | |
| `KeyPersistenceProofs` | `TypeCorrect`, `DiskAgreesTheorem` | `Spec => []TypeOK`, `[]DiskAgrees` | `PersistenceAssumption` |
| `TeeProbeProofs` | `TypeCorrect`, `DecisionFollowsStateTheorem` | `Spec => []TypeOK`, `[]DecisionFollowsState` | `ProbeAssumption` |
| | `GivesUpLateTheorem` | `MaxAttempts >= 9 /\ Spec => []GivesUpLate` | |
| `InjectorProofs` | `TypeCorrect`, `NothingLeftBehindTheorem`, `SuccessMeansLoadedTheorem`, `HeldBySignalOnlyTheorem` | `Spec => []TypeOK`, `[]NothingLeftBehind`, `[]SuccessMeansLoaded`, `[]HeldBySignalOnly` | `MapsAssumption`, `InjectorAssumption` |
| | `ImplementsCommandSteps` | `Spec` implies `InjectInit /\ [][InjectNext]` of `InjectCommand` under the refinement mapping | |
| `DaemonLifecycleProofs` | `TypeCorrect`, `InjectedOnceTheorem`, `GivesUpForCauseTheorem`, `NeverStrandedTheorem` | `Spec => []TypeOK`, `[]InjectedOnce`, `[]GivesUpForCause`, `[]NeverStranded` | `LifecycleAssumption` |

The assumptions give the types of the constants: `None` is no other value, real
and forged numbers are disjoint, the sets an instance may choose are subsets of
the full ones, bounds are natural numbers. The constants are otherwise arbitrary:
any sets, finite or not, and any bounds, so that the bounds that make an instance
finite (`MaxGens`, `MaxPending`, `MaxBatch`, `MaxDepth`, ...) do not limit the
theorems. `GivesUpLate` names the 104 seconds that nine attempts take; its theorem
is about nine or more, and `MAX_ATTEMPTS` is 9 in `TeeRetryPolicy.kt`.

Each proof has the same shape: an inductive invariant `IInv`, checked by TLC on the
run's instance before it was proved, one lemma per action (or per kind of step
that several actions share), and the theorems as consequences.

**Hooks.** `TypeOK` and `OwnerIsolation` depend on what the maps say: a hook
dereferences the number it found for an alias, and takes the owner of a reply from
the key-id index. `IInv` says what it finds there, for hooks as single steps:

* `CacheSound`: the maps are well formed, consistent, and software keys carry
  forged numbers that have been drawn;
* `CallsSound`: what a call carries at each step: real replies have real numbers,
  a call in `resign` has a reply, a generateKey in `resign` knows its key;
* `RealSound`: the real keystore has its own numbers and no grant on a missing key;
* `ConfigSound`: types of the configuration.

`Keystore2InterceptorProofs` has one lemma per transition of the maps (clear,
promote, patch, index, store, grant, ungrant, ...), each of the form "sound before,
sound after", and then shows for each hook that its step
is such a composition and keeps the shape of the calls. `OwnerIsolation` is proved
from the same invariant: `Alike(c, d, uid)` says that two states of the maps agree
on the owners of every key of another UID, each transition of the maps gives such
a pair for the UID it is called with, and every hook calls it with that of its
caller. `OwnershipConsistent` is part of `IInv`, but no theorem of its own: what the
code guarantees of the maps, hook against hook, is in the next paragraph.

**Single writes.** `TearsStayLocal` speaks of keys that no hook is on; while one is,
the maps may disagree on its key in the middle of its program. A hook *governs* a
key that it has had to itself. `IInv` says, for each key that a hook governs, what
it has achieved by the operation it is at (`Achieved`: which entries of the key are
gone or there) and what it relies on from before (`Relies`: programs that do not
clear everything keep the rest consistent), so that the maps agree when it returns.
`Exclusive` says that hooks that share a key leave it unsettled and none of them
governs it; `NumbersOwned` and `WellFormed` that every number in the maps and in a
hook's hands was drawn for its key, which is `NumbersKeepTheirKey` and the reason why
removing an index entry by number never hits another key; `NothingTracked` that
nothing is tracked during start-up, so that a restored key is not both. The frame
lemma `MoveStep` carries every other key and hook over an operation, and one lemma
per operation is left with the hook's own key; `StartStep` is for the start of a hook.

**AUTO callers.** `AutoUnmodified` is a promise to applications that wait for each
answer and whose packages are known; `AutoSetting` says so: no `overlap`, no
`pmDies`, `Loaded = Uids`. Each of the three is necessary (`auto_grant_unloaded` and
the first two observations). Mode changes and keybox reloads may come at any point.
The property speaks of answered calls; `AutoInv` of calls on their way, those of a
UID that has been plain AUTO since the call arrived:

* `AutoFine`: such a call is neither in synthesis nor in re-signing;
* `Flagged`: when it is a generateKey with a post hook to come, the
  `pendingPassthroughKeys` flag of its alias is set;
* `OneCreator`: one generateKey at a time on an alias, so that the post hook that
  takes the flag is that of the call whose pre hook set it;
* `PackagesLoaded`, from which `IsPlainAuto` answers for the modes.

**Usage.** `UsageLimit` speaks of uses only, and the code of the budget. `IInv`
connects the two: `Covered` (uses plus budget are at most the limit, and equal to
it unless robbed), `Unused` (a key whose budget is not written yet has no charged
use), `OneHome` (a generation is stored once, by one call), `Made` (only
generations that exist are stored or operated on). `UsageExact` follows from
`Covered`.

**Native interceptor.** `QueueAligned` relates the queue to the part of the buffer
that the hook has seen, and a step of the hook moves the border between the two:
`Untouched` says that nothing beyond it is redirected. `ExecutedOnce` counts
executions of answered transactions; `InFlight` says what the count of an
unanswered one is at each point (none before the pre hook has answered, one while
the post hook is waited for), and `OnePlace` that it is in one buffer or frame
only, so that serving one transaction cannot change the count of another. With
`InFlight` an action touches unanswered transactions only, which is
`AnsweredForGood`. `Aligned` is stated over sequences, and its lemmas say what
taking from and adding to buffer and queue does to it.

**Persistence.** `DiskAgrees` speaks of the moments without tasks. `Agreement` says
what leads there, for each key that is not stale: a task that is late is the only
one and carries what the map holds (`LateNewest`); without one the last task of the
queue on that key does (`QueueNewest`); without any the file does (`FileNewest`).
`HandAgreement` says the same of a key that has been read and not yet put into the
map, `NotYet` what is not there before the load. `Shapes` says what the tasks look
like, and `ClearsLate` that no clearing of the
directory is under way while the keys are being loaded, which would make any
file that was read obsolete.

**TEE probe.** `DecisionFollowsState` is not inductive, because a later attempt
could change a state that was decided: `Undecided` says that attempts are made only
while it is `UNKNOWN`. `Rounds` bounds what the thread has slept by `Schedule`, the
closed form of the sums of `DelayMs`, proved equal to the recurrence.

**Injector.** What is left in keystore2 depends on how far the sequence came, and a
failure can be anywhere. `IInv` says what the position of the injector tells about
the thread: `Phases`, `OwnRegisters` (a thread that has its own registers without
success was never used), `OutstandingStop`, `RunsInCall`, `CallsInProgress` (a call
that is over returned or faulted, one that was found had its effect, one that went
astray had none), `Progress` (each point of the sequence is reached only through
calls that had their effect, as far as the injector can tell), `Success`. An astray
`socket`, `bind` or `recvmsg` may return what the injector hopes for, but the
descriptor does not arrive, and the sequence fails; an astray `dlopen` is told from
the real one by nothing, which is the exception in `SuccessMeansLoaded`. It needs arithmetic about the maps: a
library that was mistaken for another has its functions at another distance from
its base (`SameDistance`), for all of its functions alike. The refinement uses
`IInv` in each step: the abstract conditions (`held`, `stuck`, `doomed`, `wedged`) are read off
the same facts. Its fairness part is left to TLC.

**Daemon.** `InjectedOnce` depends on what the daemon knows about the process, which
changes between two of its steps: `Uninjected` says that a daemon that has not
injected yet works on a process nobody injected, or on a dead one; `CommandPhase`
and `LastGenerations` follow the injector's work and the processes that die;
`ServiceKnown`, `Attempts` and `SetUp` say what each attempt has found out, and give
`GivesUpForCause` and `NeverStranded`.

**Only model-checked:** all liveness (`EveryAnswered`, `EventuallyWorking`, `ProbeEnds`,
`SettlesDown` and the fairness of `ImplementsCommand`): TLAPS does not reason about
fairness and `ENABLED`. And two invariants: `CacheCurrent`, which holds only where
the cases of the observations are excluded, and `OwnershipConsistent`, which is about
hooks that do not overlap and whose general form is `TearsStayLocal`. Every other
invariant and every action property of the passing runs is stated by a theorem. The
violated properties have none for their instances.

## 5. Not modelled

* The legacy hooks (`KeystoreInterceptor.kt`, Android 10 and 11): a separate
  protocol that shares no state with the Keystore2 hooks. Its hazard, an export
  between another export and `attestKey`, is listed without a property.
* A daemon that is killed: service.sh then leaves its loop, and nothing follows.
* What the certificates contain, cryptography and parcel layout: the hooks see
  steps that take time and may fail, and so do the modules.
* The layout of remote calls in registers and on the stack, and
  `RemoteLibraryHandle`, which is never used.
* Diagnostics, stubs and vendored code.
* `RESULT_OVERRIDE_DATA`, which the daemon never sends.

## 6. Plan

Done, in this order: the ownership maps and Keystore2 hooks (the promise the docs
make to users), the native protocol underneath, software operations, persistence,
the TEE probe; proofs of the ownership invariant and the usage limit; the
injector, its abstract specification and the daemon's life cycle on top of it;
proofs of the safety properties of all components; the single writes of the
ownership maps last.

Next:

1. An abstract specification of ownership (each alias is real, re-signed or
   software, and who may read it), implemented by `Keystore2Interceptor`.
2. The legacy keystore hooks.

## 7. Running

    tlc -workers 2 -config serial.cfg MCKeystore
    tlapm Keystore2InterceptorProofs.tla

The module of each configuration is in `PROJECT.json`.
