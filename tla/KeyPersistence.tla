---------------------------- MODULE KeyPersistence ----------------------------
(***************************************************************************)
(* The software keys on disk: PersistenceManager.kt, the calls that        *)
(* CertificateAliasCache and SecurityLevelInterceptor make to it, and the  *)
(* part of daemon start-up that restores the keys.                         *)
(*                                                                         *)
(* A hook changes the map of keys and then hands a task to the single      *)
(* persistence thread, so the map and the queue of tasks are two steps.    *)
(* The daemon may be killed between any two steps.                         *)
(*                                                                         *)
(* A file is the id of the key generation in it, or Torn when the copy     *)
(* that stands in for a failed rename was cut off; loadAll skips those and *)
(* the temporary files, which are therefore left out.  The fields of the   *)
(* file format and the security level of a key are left out.               *)
(***************************************************************************)
EXTENDS Naturals, Sequences, FiniteSets

CONSTANTS
    Keys,        \* (uid, alias) pairs
    Ids,         \* generations of keys
    None, Torn,
    MaxPending,  \* tasks not executed
    MaxStarts    \* starts of the daemon

ASSUME PersistenceAssumption ==
    /\ None \notin Ids /\ Torn \notin Ids /\ None # Torn
    /\ None \notin Keys
    /\ MaxPending \in Nat /\ MaxStarts \in Nat

VARIABLES
    keys,     \* CertificateAliasCache.keys
    late,     \* tasks of calls that have changed keys and not yet queued them
    queue,    \* persistExecutor
    copying,  \* the head of the queue is past the failed rename
    file,     \* fileFor(k)
    phase,    \* of the daemon: down, registered, restoring, loaded, ready
    walk,     \* the keys that loadPersistedKeys still has to read, or to put
    read,     \* what loadAll found in the files
    starts,
    keybox,   \* KeyBoxUtils holds a parsed keybox
    unused,   \* ids no key has had
    stale,    \* keys whose file may differ from the map, see DiskAgrees
    kept      \* the key of each alias that was saved and not cleared since

loading == <<walk, read>>

vars == <<keys, late, queue, copying, file, phase, loading, starts, keybox, unused, stale, kept>>

Tasks == [op : {"save", "delete", "clear"}, key : Keys \cup {None}, id : Ids \cup {None}]

TypeOK ==
    /\ keys \in [Keys -> Ids \cup {None}]
    /\ late \subseteq Tasks
    /\ queue \in Seq(Tasks)
    /\ copying \in BOOLEAN
    /\ file \in [Keys -> Ids \cup {None, Torn}]
    /\ phase \in {"down", "registered", "restoring", "loaded", "ready"}
    /\ walk \subseteq Keys
    /\ read \in [Keys -> Ids \cup {None}]
    /\ starts \in 0..MaxStarts
    /\ keybox \in BOOLEAN
    /\ unused \subseteq Ids
    /\ stale \subseteq Keys
    /\ kept \in [Keys -> Ids \cup {None}]

Save(k, id) == [op |-> "save", key |-> k, id |-> id]
Delete(k)   == [op |-> "delete", key |-> k, id |-> None]
ClearAll    == [op |-> "clear", key |-> None, id |-> None]

Pending == late \cup {queue[i] : i \in DOMAIN queue}

\* Another call on k is between its change of keys and its task.
Overlapped(k) == \E task \in late : task.key \in {k, None}

\* loadPersistedKeys has read the file of k and not yet put what it read.
InHand(k) ==
    \/ phase = "registered" /\ k \notin walk
    \/ phase = "restoring" /\ k \in walk

-----------------------------------------------------------------------------
(* Calls *)

Room == Cardinality(late) + Len(queue) < MaxPending

\* storeGeneratedKey, once the keybox and the modes are loaded.
StoreGeneratedKey(k, id) ==
    /\ phase = "ready" /\ keybox /\ Room
    /\ id \in unused
    /\ unused' = unused \ {id}
    /\ keys' = [keys EXCEPT ![k] = id]
    /\ late' = late \cup {Save(k, id)}
    /\ stale' = IF Overlapped(k) THEN stale \cup {k} ELSE stale \ {k}
    /\ kept' = [kept EXCEPT ![k] = None]
    /\ UNCHANGED <<queue, copying, file, phase, loading, starts, keybox>>

\* clearSyntheticCertificateState with includePersistence: deleteKey,
\* importKey, generateKey on real hardware, rejectHistoricalOwners.
CleanupKey(k) ==
    /\ phase # "down" /\ Room
    /\ Delete(k) \notin late
    /\ keys' = [keys EXCEPT ![k] = None]
    /\ late' = late \cup {Delete(k)}
    /\ stale' = IF Overlapped(k) \/ InHand(k) THEN stale \cup {k} ELSE stale \ {k}
    /\ kept' = [kept EXCEPT ![k] = None]
    /\ UNCHANGED <<queue, copying, file, phase, loading, starts, keybox, unused>>

\* clearSyntheticCertificateState without it: a re-signed or failed
\* generateKey, updateSubcomponent.
ClearInMemory(k) ==
    /\ phase # "down"
    /\ keys[k] # None
    /\ keys' = [keys EXCEPT ![k] = None]
    /\ stale' = stale \cup {k}
    /\ kept' = [kept EXCEPT ![k] = None]
    /\ UNCHANGED <<late, queue, copying, file, phase, loading, starts, keybox, unused>>

\* cleanupAll, for a keybox that was replaced or removed.
UpdateKeyBox(parsed) ==
    /\ phase = "ready" /\ Room
    /\ ClearAll \notin late
    /\ keybox' = parsed
    /\ keys' = [k \in Keys |-> None]
    /\ late' = late \cup {ClearAll}
    /\ stale' = {k \in Keys : Overlapped(k)}
    /\ kept' = [k \in Keys |-> None]
    /\ UNCHANGED <<queue, copying, file, phase, loading, starts, unused>>

\* persistExecutor.execute
Execute(task) ==
    /\ task \in late
    /\ late' = late \ {task}
    /\ queue' = Append(queue, task)
    /\ UNCHANGED <<keys, copying, file, phase, loading, starts, keybox, unused, stale, kept>>

-----------------------------------------------------------------------------
(* The persistence thread *)

Running(op) == queue # <<>> /\ Head(queue).op = op

Done == queue' = Tail(queue) /\ copying' = FALSE

Written(k, id) ==
    /\ file' = [file EXCEPT ![k] = id]
    /\ kept' = IF keys[k] = id THEN [kept EXCEPT ![k] = id] ELSE kept

\* saveKeySync: the rename, or the copy that replaces it.
SaveKey ==
    /\ Running("save")
    /\ Written(Head(queue).key, Head(queue).id)
    /\ Done
    /\ UNCHANGED <<keys, late, phase, loading, starts, keybox, unused, stale>>

RenameFails ==
    /\ Running("save") /\ ~copying
    /\ copying' = TRUE
    /\ file' = [file EXCEPT ![Head(queue).key] = Torn]
    /\ UNCHANGED <<keys, late, queue, phase, loading, starts, keybox, unused, stale, kept>>

\* An exception is logged, and the file is what it was.
SaveFails ==
    /\ Running("save")
    /\ stale' = stale \cup {Head(queue).key}
    /\ Done
    /\ UNCHANGED <<keys, late, file, phase, loading, starts, keybox, unused, kept>>

\* Mutant: the file of a deleted key is left.
DeleteNothing ==
    /\ Running("delete")
    /\ Done
    /\ UNCHANGED <<keys, late, file, phase, loading, starts, keybox, unused, stale, kept>>

DeleteKey ==
    /\ Running("delete")
    /\ file' = [file EXCEPT ![Head(queue).key] = None]
    /\ Done
    /\ UNCHANGED <<keys, late, phase, loading, starts, keybox, unused, stale, kept>>

\* delete returns false, or throws: the file stays and nobody is told.
DeleteFails ==
    /\ Running("delete")
    /\ stale' = stale \cup {Head(queue).key}
    /\ Done
    /\ UNCHANGED <<keys, late, file, phase, loading, starts, keybox, unused, kept>>

\* deleteRecursively goes from file to file, and past the ones it cannot delete.
ClearOne(k) ==
    /\ Running("clear")
    /\ file[k] # None
    /\ file' = [file EXCEPT ![k] = None]
    /\ UNCHANGED <<keys, late, queue, copying, phase, loading, starts, keybox, unused, stale, kept>>

ClearDone ==
    /\ Running("clear")
    /\ stale' = stale \cup {k \in Keys : file[k] # None}
    /\ Done
    /\ UNCHANGED <<keys, late, file, phase, loading, starts, keybox, unused, kept>>

-----------------------------------------------------------------------------
(* The daemon *)

\* The process ends: the map, the queue and the calls are gone.
Killed ==
    /\ phase # "down"
    /\ phase' = "down"
    /\ keys' = [k \in Keys |-> None]
    /\ late' = {}
    /\ queue' = <<>>
    /\ copying' = FALSE
    /\ keybox' = FALSE
    /\ walk' = {}
    /\ read' = [k \in Keys |-> None]
    /\ UNCHANGED <<file, starts, unused, stale, kept>>

\* registerBinderInterceptor: the hooks run from here on.
Registered ==
    /\ phase = "down" /\ starts < MaxStarts
    /\ phase' = "registered"
    /\ starts' = starts + 1
    /\ walk' = Keys
    /\ stale' = {}
    /\ UNCHANGED <<keys, late, queue, copying, file, read, keybox, unused, kept>>

\* A task on k that is on its way while its file is read.
ReadRaces(k) == \E task \in Pending : task.key = k

\* Mutant: what was read of a torn file is used.
ReadTornFile(k) ==
    /\ phase = "registered" /\ k \in walk
    /\ walk' = walk \ {k}
    /\ read' = [read EXCEPT ![k] = file[k]]
    /\ stale' = IF ReadRaces(k) THEN stale \cup {k} ELSE stale \ {k}
    /\ UNCHANGED <<keys, late, queue, copying, file, phase, starts, keybox, unused, kept>>

\* loadAll reads file after file, while early calls clean keys up.
ReadFile(k) ==
    /\ phase = "registered" /\ k \in walk
    /\ walk' = walk \ {k}
    /\ read' = [read EXCEPT ![k] = IF file[k] \in Ids THEN file[k] ELSE None]
    /\ stale' = IF ReadRaces(k) THEN stale \cup {k} ELSE stale \ {k}
    /\ UNCHANGED <<keys, late, queue, copying, file, phase, starts, keybox, unused, kept>>

LoadAllReturns ==
    /\ phase = "registered" /\ walk = {}
    /\ phase' = "restoring"
    /\ walk' = Keys
    /\ UNCHANGED <<keys, late, queue, copying, file, read, starts, keybox, unused, stale, kept>>

\* loadPersistedKeys puts what loadAll returned, key after key.
RestoreKey(k) ==
    /\ phase = "restoring" /\ k \in walk
    /\ walk' = walk \ {k}
    /\ keys' = IF read[k] = None THEN keys ELSE [keys EXCEPT ![k] = read[k]]
    /\ UNCHANGED <<late, queue, copying, file, phase, read, starts, keybox, unused, stale, kept>>

LoadPersistedKeysReturns ==
    /\ phase = "restoring" /\ walk = {}
    /\ phase' = "loaded"
    /\ UNCHANGED <<keys, late, queue, copying, file, loading, starts, keybox, unused, stale, kept>>

\* PkgConfig.initialize: reading keybox.xml, when there is one, is
\* updateKeyBox, cleanupAll included, whether it parses or not.
Initialize(exists, parsed) ==
    /\ phase = "loaded"
    /\ parsed => exists
    /\ phase' = "ready"
    /\ keybox' = parsed
    /\ keys' = IF exists THEN [k \in Keys |-> None] ELSE keys
    /\ late' = IF exists THEN late \cup {ClearAll} ELSE late
    /\ stale' = IF exists THEN {k \in Keys : Overlapped(k)} ELSE stale
    /\ UNCHANGED <<queue, copying, file, loading, starts, unused, kept>>

-----------------------------------------------------------------------------
Init ==
    /\ keys = [k \in Keys |-> None]
    /\ late = {}
    /\ queue = <<>>
    /\ copying = FALSE
    /\ file = [k \in Keys |-> None]
    /\ phase = "down"
    /\ walk = {}
    /\ read = [k \in Keys |-> None]
    /\ starts = 0
    /\ keybox = FALSE
    /\ unused = Ids
    /\ stale = {}
    /\ kept = [k \in Keys |-> None]

PersistThread ==
    \/ SaveKey \/ RenameFails \/ SaveFails
    \/ DeleteKey \/ DeleteFails
    \/ ClearDone \/ \E k \in Keys : ClearOne(k)

Next ==
    \/ \E k \in Keys : \/ \E id \in Ids : StoreGeneratedKey(k, id)
                       \/ CleanupKey(k) \/ ClearInMemory(k)
    \/ \E parsed \in BOOLEAN : UpdateKeyBox(parsed)
    \/ \E task \in late : Execute(task)
    \/ PersistThread
    \/ Killed \/ Registered
    \/ \E k \in Keys : ReadFile(k) \/ RestoreKey(k)
    \/ LoadAllReturns \/ LoadPersistedKeysReturns
    \/ \E exists, parsed \in BOOLEAN : Initialize(exists, parsed)

Spec == Init /\ [][Next]_vars

-----------------------------------------------------------------------------
(* Properties *)

\* A file that stands for no key.
Unreadable(k) == file[k] \in {None, Torn}

\* Once the tasks are done the files are the keys of the map, across kills,
\* torn copies and cut-off clearings (PersistenceManager.kt:29-31).  The
\* exceptions are the keys in stale: two calls on the alias overlapped between
\* map and queue, the key was cleared in memory only, its save or its deletion
\* failed, or it was cleaned up while loadPersistedKeys had it in hand.
DiskAgrees ==
    phase = "ready" /\ Pending = {} =>
        \A k \in Keys \ stale : IF keys[k] = None THEN Unreadable(k) ELSE file[k] = keys[k]

\* A key that was saved and that nobody cleared is there when the daemon is
\* ready, in this run or after a restart: upgrading.md:14 says that the files
\* "remain on disk until explicitly cleared or invalidated by policy".
KeptAvailable ==
    phase = "ready" => \A k \in Keys : kept[k] # None => keys[k] = kept[k]
=============================================================================
