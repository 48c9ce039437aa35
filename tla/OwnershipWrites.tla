--------------------------- MODULE OwnershipWrites ---------------------------
(***************************************************************************)
(* The ownership maps written one map operation at a time.  The daemon     *)
(* runs its hooks on several binder threads and takes no lock around the   *)
(* maps of CertificateAliasCache.kt and PassthroughKeyRegistry.kt, each a  *)
(* ConcurrentHashMap: a hook is a program of single operations, and the    *)
(* programs of different threads interleave at every operation.            *)
(* Keystore2Interceptor has the conditions under which each hook runs, and *)
(* takes a hook for one step; here a hook may run at any time and on any   *)
(* key, and what counts is the order of its writes.                        *)
(*                                                                         *)
(* Abstractions.  A key is a Key(uid, alias).  A response is the number in *)
(* its metadata, a grant the key it is for, and every reply has its        *)
(* number. removeIf and clear, which visit the entries one by one, are one *)
(* operation: an entry they miss is one that an overlapping hook has put,  *)
(* as if after them. keyPairs, usageRemaining and skipLeafHacks are        *)
(* written and cleared with keys and are not kept; the files are the       *)
(* subject of KeyPersistence.                                              *)
(***************************************************************************)
EXTENDS Naturals, Sequences

CONSTANTS
    Keys,      \* aliases of calling UIDs
    KeyIds,    \* 64-bit numbers drawn for keys, by the daemon or the keystore
    GrantIds,  \* and for grants; no two draws give the same
    Threads,   \* binder threads, the thread of Main, the file observer
    None       \* Kotlin's null

VARIABLES
    keys,              \* the key id of each generated key, or None
    keysByNspace,
    patchedResponses,
    grants,            \* the key that each grant id is for, or None
    tracked,           \* PassthroughKeyRegistry
    byNspace,          \* PassthroughKeyRegistry
    restoring,         \* loadPersistedKeys has not returned yet
    hook,              \* what each thread is executing
    drawnFor,          \* (ghost) the key each number was drawn for, or None
    unsettled          \* (ghost) keys left by hooks that overlapped or threw

maps == <<keys, keysByNspace, patchedResponses, grants, tracked, byNspace>>
vars == <<maps, restoring, hook, drawnFor, unsettled>>

-----------------------------------------------------------------------------
(* The programs *)

\* Mutant: the grants of the key are forgotten.
ClearKeepingGrants == <<"readKey", "unindexOwn", "unindex", "dropKey", "dropPatch">>

\* clearSyntheticCertificateState
Clear == <<"readKey", "unindexOwn", "unindex", "dropKey", "dropPatch", "dropGrants">>

\* PassthroughKeyRegistry.remove
Relinquish == <<"untrack", "unnumber">>

\* storeGeneratedKey, up to saveKey; buildResponse may throw.
StoreGeneratedKey == Relinquish \o Clear \o <<"index", "build", "putKey">>

\* The generateKey post hook for LEAF_HACK; hackCertificateChain may throw.
LeafForward == Relinquish \o Clear \o <<"resign", "putPatch", "index">>

\* The generateKey post hook for a passthrough key.
Promote == Clear \o <<"index", "track", "number">>

\* cleanupAll
ClearAll == <<"dropKey", "untrack", "unnumber", "dropPatch", "unindex", "dropGrants">>

Program ==
    [cleanup |-> Clear \o Relinquish,
     clear   |-> Clear,
     store   |-> StoreGeneratedKey,
     leaf    |-> LeafForward,
     promote |-> Promote,
     patch   |-> <<"resign", "putPatch">>,
     grant   |-> <<"check", "putGrant">>,
     ungrant |-> <<"dropGrant">>,
     load    |-> <<"putKey", "index">>,
     reload  |-> ClearAll]

Kinds == DOMAIN Program

\* The hooks that clear every map before they write.
Cleaning == {"cleanup", "store", "leaf", "reload"}

Ids == KeyIds \cup GrantIds

Hooks ==
    [kind   : Kinds,
     on     : SUBSET Keys,         \* the keys it works on
     n      : Ids \cup {None},     \* the number it stores
     at     : 1..11,               \* the operation it is about to do
     gone   : KeyIds \cup {None},  \* the key id that readKey found
     cleans : SUBSET Keys]         \* (ghost) keys it clears with nobody else on them

ASSUME WritesAssumption ==
    /\ KeyIds \cap GrantIds = {}
    /\ None \notin Keys \cup KeyIds \cup GrantIds
    /\ None \notin Hooks

TypeOK ==
    /\ keys \in [Keys -> KeyIds \cup {None}]
    /\ keysByNspace \in [KeyIds -> Keys \cup {None}]
    /\ patchedResponses \subseteq Keys
    /\ grants \in [GrantIds -> Keys \cup {None}]
    /\ tracked \subseteq Keys
    /\ byNspace \in [KeyIds -> Keys \cup {None}]
    /\ restoring \in BOOLEAN
    /\ hook \in [Threads -> Hooks \cup {None}]
    /\ drawnFor \in [Ids -> Keys \cup {None}]
    /\ unsettled \subseteq Keys

Generated == {k \in Keys : keys[k] # None}

On(t) == IF hook[t] = None THEN {} ELSE hook[t].on

InFlight == UNION {On(t) : t \in Threads}

-----------------------------------------------------------------------------
(* Starting a hook *)

Fresh == {n \in KeyIds : drawnFor[n] = None}

Start(t, kind, S, n) ==
    /\ hook[t] = None
    /\ hook' = [s \in Threads |->
         IF s = t
         THEN [kind |-> kind, on |-> S, n |-> n, at |-> 1, gone |-> None,
               cleans |-> IF kind \in Cleaning THEN S \ InFlight ELSE {}]
         ELSE IF hook[s] = None THEN None ELSE [hook[s] EXCEPT !.cleans = @ \ S]]
    /\ unsettled' = unsettled \cup (S \cap InFlight)
    /\ UNCHANGED <<maps, restoring>>

StartDrawing(t, kind, k, n) ==
    /\ Start(t, kind, {k}, n)
    /\ drawnFor' = [drawnFor EXCEPT ![n] = IF @ = None THEN k ELSE @]

\* deleteKey, pre and post; importKey and updateSubcomponent, post.
StartCleanup(t, k) == Start(t, "cleanup", {k}, None) /\ UNCHANGED drawnFor

\* generateKey pre for a passthrough key, updateSubcomponent pre, and
\* getKeyEntry pre for plain AUTO.
StartClear(t, k) == Start(t, "clear", {k}, None) /\ UNCHANGED drawnFor

StartUngrant(t, k) == Start(t, "ungrant", {k}, None) /\ UNCHANGED drawnFor

\* The hooks of target UIDs and of forged grants: nobody is a target and
\* there is no keybox before loadPersistedKeys has returned.

StartStore(t, k, n) ==
    /\ ~restoring
    /\ StartDrawing(t, "store", k, n)

StartLeaf(t, k, n) == ~restoring /\ StartDrawing(t, "leaf", k, n)

StartPromote(t, k, n) == ~restoring /\ StartDrawing(t, "promote", k, n)

\* getKeyEntry post has found the key by the key id of the reply.
StartPatch(t, k) ==
    /\ ~restoring
    /\ \E n \in KeyIds : keysByNspace[n] = k
    /\ Start(t, "patch", {k}, None)
    /\ UNCHANGED drawnFor

\* Mutant: the number of any grant to the grantee is used again.
GrantNumbersOfAny(k) == {n \in GrantIds : drawnFor[n] = None \/ grants[n] # None}

\* A new number, or the one an earlier grant of the key has.
GrantNumbers(k) == {n \in GrantIds : drawnFor[n] \in {None, k}}

\* grant, pre for a forged key and post for a real one.
StartGrant(t, k, n) ==
    /\ ~restoring
    /\ StartDrawing(t, "grant", k, n)

\* updateKeyBox, in Initialize and later by the file observer.
StartReload(t) == ~restoring /\ Start(t, "reload", Keys, None) /\ UNCHANGED drawnFor

Loading == \E t \in Threads : hook[t] # None /\ hook[t].kind = "load"

\* The next key of loadPersistedKeys: one thread, one key after the other.
StartLoad(t, k, n) ==
    /\ restoring
    /\ ~Loading
    /\ StartDrawing(t, "load", k, n)

LoadPersistedKeysReturns ==
    /\ restoring
    /\ ~Loading
    /\ restoring' = FALSE
    /\ UNCHANGED <<maps, hook, drawnFor, unsettled>>

-----------------------------------------------------------------------------
(* The operations of a hook *)

At(t, op) == hook[t] # None /\ Program[hook[t].kind][hook[t].at] = op

Return(t) ==
    /\ hook' = [hook EXCEPT ![t] = None]
    /\ unsettled' = unsettled \ hook[t].cleans

\* The next operation, or the end.
Advance(t) ==
    /\ IF hook[t].at = Len(Program[hook[t].kind]) THEN Return(t)
       ELSE /\ hook' = [hook EXCEPT ![t].at = @ + 1]
            /\ UNCHANGED unsettled
    /\ UNCHANGED <<restoring, drawnFor>>

\* A map from numbers without the entries for the keys in S.
Without(f, S) == [n \in DOMAIN f |-> IF f[n] \in S THEN None ELSE f[n]]

ReadKey(t) ==
    /\ At(t, "readKey")
    /\ \E k \in hook[t].on :
         hook' = [hook EXCEPT ![t].gone = keys[k], ![t].at = @ + 1]
    /\ UNCHANGED <<maps, restoring, drawnFor, unsettled>>

UnindexOwn(t) ==
    /\ At(t, "unindexOwn")
    /\ keysByNspace' = [n \in KeyIds |-> IF n = hook[t].gone THEN None ELSE keysByNspace[n]]
    /\ hook' = [hook EXCEPT ![t].gone = None, ![t].at = @ + 1]
    /\ UNCHANGED <<keys, patchedResponses, grants, tracked, byNspace,
                   restoring, drawnFor, unsettled>>

Unindex(t) ==
    /\ At(t, "unindex")
    /\ keysByNspace' = Without(keysByNspace, hook[t].on)
    /\ Advance(t)
    /\ UNCHANGED <<keys, patchedResponses, grants, tracked, byNspace>>

DropKey(t) ==
    /\ At(t, "dropKey")
    /\ keys' = [k \in Keys |-> IF k \in hook[t].on THEN None ELSE keys[k]]
    /\ Advance(t)
    /\ UNCHANGED <<keysByNspace, patchedResponses, grants, tracked, byNspace>>

DropPatch(t) ==
    /\ At(t, "dropPatch")
    /\ patchedResponses' = patchedResponses \ hook[t].on
    /\ Advance(t)
    /\ UNCHANGED <<keys, keysByNspace, grants, tracked, byNspace>>

DropGrants(t) ==
    /\ At(t, "dropGrants")
    /\ grants' = Without(grants, hook[t].on)
    /\ Advance(t)
    /\ UNCHANGED <<keys, keysByNspace, patchedResponses, tracked, byNspace>>

Untrack(t) ==
    /\ At(t, "untrack")
    /\ tracked' = tracked \ hook[t].on
    /\ Advance(t)
    /\ UNCHANGED <<keys, keysByNspace, patchedResponses, grants, byNspace>>

Unnumber(t) ==
    /\ At(t, "unnumber")
    /\ byNspace' = Without(byNspace, hook[t].on)
    /\ Advance(t)
    /\ UNCHANGED <<keys, keysByNspace, patchedResponses, grants, tracked>>

\* The grants of the key to one grantee.
DropGrant(t) ==
    /\ At(t, "dropGrant")
    /\ \E G \in SUBSET {n \in GrantIds : grants[n] \in hook[t].on} :
         grants' = [n \in GrantIds |-> IF n \in G THEN None ELSE grants[n]]
    /\ Advance(t)
    /\ UNCHANGED <<keys, keysByNspace, patchedResponses, tracked, byNspace>>

Index(t) ==
    /\ At(t, "index")
    /\ \E k \in hook[t].on : keysByNspace' = [keysByNspace EXCEPT ![hook[t].n] = k]
    /\ Advance(t)
    /\ UNCHANGED <<keys, patchedResponses, grants, tracked, byNspace>>

PutKey(t) ==
    /\ At(t, "putKey")
    /\ keys' = [k \in Keys |-> IF k \in hook[t].on THEN hook[t].n ELSE keys[k]]
    /\ Advance(t)
    /\ UNCHANGED <<keysByNspace, patchedResponses, grants, tracked, byNspace>>

PutPatch(t) ==
    /\ At(t, "putPatch")
    /\ patchedResponses' = patchedResponses \cup hook[t].on
    /\ Advance(t)
    /\ UNCHANGED <<keys, keysByNspace, grants, tracked, byNspace>>

Track(t) ==
    /\ At(t, "track")
    /\ tracked' = tracked \cup hook[t].on
    /\ Advance(t)
    /\ UNCHANGED <<keys, keysByNspace, patchedResponses, grants, byNspace>>

Number(t) ==
    /\ At(t, "number")
    /\ \E k \in hook[t].on : byNspace' = [byNspace EXCEPT ![hook[t].n] = k]
    /\ Advance(t)
    /\ UNCHANGED <<keys, keysByNspace, patchedResponses, grants, tracked>>

PutGrant(t) ==
    /\ At(t, "putGrant")
    /\ \E k \in hook[t].on : grants' = [grants EXCEPT ![hook[t].n] = k]
    /\ Advance(t)
    /\ UNCHANGED <<keys, keysByNspace, patchedResponses, tracked, byNspace>>

\* containsKey and isPatchedKey: no grant of a key nobody owns.
Check(t) ==
    /\ At(t, "check")
    /\ IF hook[t].on \subseteq Generated \cup patchedResponses THEN Advance(t)
       ELSE Return(t) /\ UNCHANGED <<restoring, drawnFor>>
    /\ UNCHANGED maps

\* The chain is re-signed and stored in the reply, or that threw.
Resign(t) ==
    /\ At(t, "resign")
    /\ \/ Advance(t)
       \/ Return(t) /\ UNCHANGED <<restoring, drawnFor>>
    /\ UNCHANGED maps

\* buildResponse returns, or throws and leaves the number in keysByNspace.
Build(t) ==
    /\ At(t, "build")
    /\ \/ Advance(t)
       \/ /\ hook' = [hook EXCEPT ![t] = None]
          /\ unsettled' = unsettled \cup hook[t].on
          /\ UNCHANGED <<restoring, drawnFor>>
    /\ UNCHANGED maps

-----------------------------------------------------------------------------
Init ==
    /\ keys = [k \in Keys |-> None]
    /\ keysByNspace = [n \in KeyIds |-> None]
    /\ patchedResponses = {}
    /\ grants = [n \in GrantIds |-> None]
    /\ tracked = {}
    /\ byNspace = [n \in KeyIds |-> None]
    /\ restoring = TRUE
    /\ hook = [t \in Threads |-> None]
    /\ drawnFor = [n \in Ids |-> None]
    /\ unsettled = {}

StartHook(t) ==
    \/ \E k \in Keys :
         \/ StartCleanup(t, k) \/ StartClear(t, k) \/ StartUngrant(t, k)
         \/ StartPatch(t, k)
         \/ \E n \in Fresh :
              \/ StartStore(t, k, n) \/ StartLeaf(t, k, n) \/ StartPromote(t, k, n)
              \/ StartLoad(t, k, n)
         \/ \E n \in GrantNumbers(k) : StartGrant(t, k, n)
    \/ StartReload(t)

Drop(t) ==
    \/ ReadKey(t) \/ UnindexOwn(t) \/ Unindex(t) \/ DropKey(t) \/ DropPatch(t)
    \/ DropGrants(t) \/ Untrack(t) \/ Unnumber(t) \/ DropGrant(t)

Put(t) ==
    \/ Index(t) \/ PutKey(t) \/ PutPatch(t) \/ Track(t) \/ Number(t) \/ PutGrant(t)

Next ==
    \/ \E t \in Threads : StartHook(t) \/ Drop(t) \/ Put(t) \/ Check(t) \/ Resign(t) \/ Build(t)
    \/ LoadPersistedKeysReturns

Spec == Init /\ [][Next]_vars

-----------------------------------------------------------------------------
(* Properties *)

\* What the maps say of one key agrees: no dangling grant or key-id index, no
\* key that is software and passthrough at once.
Consistent(k) ==
    /\ k \in Generated => k \notin tracked /\ keysByNspace[keys[k]] = k
    /\ \A n \in KeyIds :
         /\ keysByNspace[n] = k => k \in Generated \cup patchedResponses \cup tracked
         /\ byNspace[n] = k => k \in tracked
    /\ \A n \in GrantIds : grants[n] = k => k \in Generated \cup patchedResponses

\* Without a lock, hooks that overlap on a key can leave its entries torn
\* (SecurityLevelInterceptor.kt:457-466 against 546-555, a grant at
\* Keystore2Interceptor.kt:192-207 against a cleanup).  The tear never spreads
\* to a key whose own hooks do not overlap, whatever runs on the others, and
\* it lasts only until deleteKey, importKey, generateKey or a keybox reload
\* next runs undisturbed on the torn key.
TearsStayLocal == \A k \in Keys \ (unsettled \cup InFlight) : Consistent(k)

\* However hooks overlap, a key id or a grant id leads to the key it was drawn
\* for or to none, in every map that is looked up by number
\* (CertificateAliasCache.kt:58-98, PassthroughKeyRegistry.kt:41-50).
NumbersKeepTheirKey ==
    /\ \A n \in KeyIds : keysByNspace[n] \in {None, drawnFor[n]} /\ byNspace[n] \in {None, drawnFor[n]}
    /\ \A n \in GrantIds : grants[n] \in {None, drawnFor[n]}
=============================================================================
