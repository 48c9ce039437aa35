---------------------------- MODULE KeystoreCalls ----------------------------
(***************************************************************************)
(* The state that the Keystore2 hooks work on: the ownership maps of       *)
(* CertificateAliasCache, the routing predicates of PkgConfig, the calls   *)
(* that binder threads are serving, and the real keystore (external).      *)
(* The hooks are in SecurityLevelInterceptor and Keystore2Interceptor.     *)
(*                                                                         *)
(* A call of a thread is: the pre hook, which answers it or forwards it;   *)
(* the real transaction, if forwarded; the post hook, if the pre hook      *)
(* returned Continue (after Skip there is none).  A hook is one step,      *)
(* except where it leaves the maps to do cryptography and comes back:      *)
(* CertificateGen.generateKeyPair ("synth") and                            *)
(* CertificateHack.hackCertificateChain ("resign").                        *)
(***************************************************************************)
EXTENDS CertificateAliasCache, FiniteSets

CONSTANTS
    Threads,        \* binder threads
    Ops,            \* the calls the applications of this instance make
    Kinds,          \* the sorts of key they generate
    AccessVectors,  \* the access vectors they grant
    ModeSets,       \* what target.txt may say of the packages of each UID
    Loaded,         \* the UIDs whose packages are cached initially
    Env             \* what the environment of this instance does, see below

VARIABLES
    cache,               \* CertificateAliasCache and PassthroughKeyRegistry
    pendingPassthrough,  \* SecurityLevelInterceptor.pendingPassthroughKeys
    modes,               \* packageModes, per UID: the modes of its packages
    uidPackages,         \* the UIDs PkgConfig.uidPackages has an entry for
    pmAlive,             \* getPm() returns a live package manager
    hasKeyboxes,         \* KeyBoxUtils holds a parsed keybox
    call,                \* the call each thread is serving
    keystore,            \* the keys of the real keystore
    realGrants,          \* the grants of the real keystore
    free,                \* the numbers nobody has drawn yet
    truth                \* the entry last established for each alias

vars == <<cache, pendingPassthrough, modes, uidPackages, pmAlive, hasKeyboxes, call,
          keystore, realGrants, free, truth>>

configVars == <<modes, pmAlive, hasKeyboxes>>
realVars   == <<keystore, realGrants, free, truth>>

AllOps   == {"generateKey", "importKey", "deleteKey", "updateSubcomponent",
             "grant", "ungrant", "getKeyEntry"}
AllKinds == {"attested", "plain", "symmetric"}
AllModes == {"AUTO", "LEAF_HACK", "GENERATE"}

\* overlap: calls on one key overlap (else applications wait for each answer);
\* deleteByNumber: applications delete by key id, not only by alias;
\* synthFails: CertificateGen.generateKeyPair may return null;
\* pmDies: the package manager may be restarted;
\* keyboxReload: keybox.xml may be replaced or removed at any time;
\* idleReload: it may be while no call is in flight.
AllEnv == {"overlap", "deleteByNumber", "synthFails", "pmDies", "keyboxReload", "idleReload"}

\* What the caller gets: an error, a success without certificates, the real
\* keystore's own chain, a re-signed one, a software one.
Trust == {"ERROR", "OK", "REAL", "HYBRID", "SYNTHETIC"}

GrantRequests == [grantee : Uids, accessVector : SUBSET Permissions]

Calls ==
    [op    : Ops,
     uid   : Uids,
     desc  : Descriptors,
     kind  : Kinds \cup {None},                                \* generateKey
     to    : GrantRequests \cup {None},                         \* grant, ungrant
     skip  : BOOLEAN,        \* needHack as read by the generate route
     pc    : {"synth", "real", "post", "resign", "done"},
     post  : BOOLEAN,        \* Continue (TRUE) or Skip (FALSE)
     res   : Entries \cup {None},        \* the real reply, None an exception
     store : Keys \cup {None},           \* the key resign will write
     trust : Trust \cup {None},
     auto  : BOOLEAN]        \* the UID is plain AUTO since the call arrived

ASSUME HooksAssumption ==
    /\ Ops \subseteq AllOps
    /\ Kinds \subseteq AllKinds
    /\ AccessVectors \subseteq SUBSET Permissions
    /\ ModeSets \in [Uids -> SUBSET SUBSET AllModes]
    /\ Loaded \subseteq Uids
    /\ Env \subseteq AllEnv
    /\ None \notin Calls
    /\ None \notin GrantRequests

\* The maps, calls and real keys have the values that the hooks dereference
\* without a check: a cached response has a key id, a grant and an index entry
\* a key (CertificateAliasCache.kt:22-45).
TypeOK ==
    /\ cache \in Caches
    /\ pendingPassthrough \subseteq Keys
    /\ modes \in [Uids -> SUBSET AllModes]
    /\ uidPackages \subseteq Uids
    /\ pmAlive \in BOOLEAN
    /\ hasKeyboxes \in BOOLEAN
    /\ call \in [Threads -> Calls \cup {None}]
    /\ keystore \in [Keys -> Entries \cup {None}]
    /\ realGrants \in [RealIds -> Grants \cup {None}]
    /\ free \subseteq Ids
    /\ truth \in [Keys -> Entries \cup {None}]

-----------------------------------------------------------------------------
(* PkgConfig *)

\* uidPackages after checkNeed(uid): loaded on demand, not while PM is gone.
Load(uid) == IF pmAlive THEN uidPackages \cup {uid} ELSE uidPackages

\* checkNeed: the loaded packages' modes; autoPredicate is TRUE for needHack
\* and FALSE for needGenerate whatever the TEE probe found.
NeedHack(uid)     == uid \in Load(uid) /\ modes[uid] \cap {"LEAF_HACK", "AUTO"} # {}
NeedGenerate(uid) == uid \in Load(uid) /\ "GENERATE" \in modes[uid]

\* These read the cached packages P and never load them.
IsExplicitLeafHack(P, uid) == uid \in P /\ "LEAF_HACK" \in modes[uid]
IsPlainAuto(P, uid)        == uid \in P /\ modes[uid] = {"AUTO"}

-----------------------------------------------------------------------------
(* Calls in flight *)

\* The alias the caller means.
TargetKey(uid, d) ==
    IF d.alias # None THEN <<uid, d.alias>>
    ELSE IF \E k \in Keys : truth[k] # None /\ truth[k].ns = d.ns
    THEN CHOOSE k \in Keys : truth[k] # None /\ truth[k].ns = d.ns
    ELSE IF d.ns \in RealIds /\ realGrants[d.ns] # None THEN realGrants[d.ns].key
    ELSE IF cache.grants[d.ns] # None THEN cache.grants[d.ns].key
    ELSE None

Busy(k) ==
    \E t \in Threads : /\ call[t] # None
                       /\ call[t].pc # "done"
                       /\ TargetKey(call[t].uid, call[t].desc) = k

MayStart(t, op, uid, d) ==
    /\ call[t] = None
    /\ op \in Ops
    /\ d.alias = None <=> d.ns # None
    /\ "overlap" \in Env \/ ~Busy(TargetKey(uid, d))

NoDescriptor == [alias |-> None, ns |-> None]

NewCall(op, uid, d) ==
    [op |-> op, uid |-> uid, desc |-> d, kind |-> None, to |-> None, skip |-> FALSE,
     pc |-> "done", post |-> FALSE, res |-> None, store |-> None, trust |-> None,
     auto |-> modes[uid] = {"AUTO"}]

\* The call once answered: what the caller can tell of it.
Answered(c, trust) == [NewCall(c.op, c.uid, NoDescriptor) EXCEPT !.trust = trust, !.auto = c.auto]

\* What a pre hook does with a new call.
Answer(t, new, trust) == call' = [call EXCEPT ![t] = Answered(new, trust)]
Continue(t, new) == call' = [call EXCEPT ![t] = [new EXCEPT !.pc = "real", !.post = TRUE]]
Skip(t, new)     == call' = [call EXCEPT ![t] = [new EXCEPT !.pc = "real"]]

\* What a later step does with a call in progress.
Finish(t, trust) == call' = [call EXCEPT ![t] = Answered(@, trust)]

At(t, op, pc) == call[t] # None /\ call[t].op = op /\ call[t].pc = pc

KeyOf(t) == <<call[t].uid, call[t].desc.alias>>

ByAlias(alias) == [alias |-> alias, ns |-> None]
ByNumber(n)    == [alias |-> None, ns |-> n]

\* A number handed out by an earlier reply.
Drawn == Ids \ free

-----------------------------------------------------------------------------
(* The real keystore (external): what a forwarded transaction does.        *)

RealKey(uid, d, permission) ==
    LET own == {k \in Keys : /\ UidOf(k) = uid
                             /\ keystore[k] # None
                             /\ k[2] = d.alias \/ keystore[k].ns = d.ns}
        granted == {k \in Keys : /\ d.ns \in RealIds
                                 /\ realGrants[d.ns] # None
                                 /\ realGrants[d.ns].grantee = uid
                                 /\ permission \in realGrants[d.ns].accessVector
                                 /\ realGrants[d.ns].key = k}
    IN  IF own \cup granted = {} THEN None ELSE CHOOSE k \in own \cup granted : TRUE

\* The reply reaches the post hook, or the caller when there is none.
RealReply(t, res, trust) ==
    call' = [call EXCEPT ![t] =
        IF @.post THEN [@ EXCEPT !.pc = "post", !.res = res]
        ELSE Answered(@, IF res = None THEN "ERROR" ELSE trust)]

RealFails(t) ==
    /\ RealReply(t, None, "ERROR")
    /\ UNCHANGED realVars

RevokeGrants(k) ==
    [n \in RealIds |-> IF realGrants[n] # None /\ realGrants[n].key = k
                       THEN None ELSE realGrants[n]]

\* generateKey and importKey bind the alias to a new key.
RealCreate(t) ==
    /\ call[t] # None /\ call[t].pc = "real" /\ call[t].op \in {"generateKey", "importKey"}
    /\ \/ \E n \in free \cap RealIds :
            LET e == [ns |-> n, cert |-> IF call[t].kind = "symmetric" THEN None ELSE n]
            IN  /\ keystore' = [keystore EXCEPT ![KeyOf(t)] = e]
                /\ truth' = [truth EXCEPT ![KeyOf(t)] = e]
                /\ realGrants' = RevokeGrants(KeyOf(t))
                /\ free' = free \ {n}
                /\ RealReply(t, e, "REAL")
       \/ RealFails(t)
    /\ UNCHANGED <<cache, pendingPassthrough, uidPackages, configVars>>

RealDelete(t) ==
    LET k == RealKey(call[t].uid, call[t].desc, "DELETE")
    IN  /\ At(t, "deleteKey", "real")
        /\ IF k = None THEN RealFails(t)
           ELSE /\ keystore' = [keystore EXCEPT ![k] = None]
                /\ truth' = [truth EXCEPT ![k] = IF @ = keystore[k] THEN None ELSE @]
                /\ realGrants' = RevokeGrants(k)
                /\ RealReply(t, keystore[k], "OK")
                /\ UNCHANGED free
        /\ UNCHANGED <<cache, pendingPassthrough, uidPackages, configVars>>

RealUpdate(t) ==
    LET k == RealKey(call[t].uid, call[t].desc, "UPDATE")
    IN  /\ At(t, "updateSubcomponent", "real")
        /\ \/ RealFails(t)
           \/ /\ k # None
              /\ \E n \in free \cap RealIds :
                   LET e == [keystore[k] EXCEPT !.cert = n]
                   IN  /\ keystore' = [keystore EXCEPT ![k] = e]
                       /\ truth' = [truth EXCEPT ![k] = IF @ = keystore[k] THEN e ELSE @]
                       /\ free' = free \ {n}
                       /\ RealReply(t, e, "OK")
              /\ UNCHANGED realGrants
        /\ UNCHANGED <<cache, pendingPassthrough, uidPackages, configVars>>

\* A grant to the same grantee keeps its number.
RealGrant(t) ==
    LET k == RealKey(call[t].uid, call[t].desc, "GRANT")
        to == call[t].to
        old == {n \in RealIds : /\ realGrants[n] # None
                                /\ realGrants[n].key = k
                                /\ realGrants[n].grantee = to.grantee}
    IN  /\ At(t, "grant", "real")
        /\ \/ RealFails(t)
           \/ /\ k # None
              /\ \E n \in IF old = {} THEN free \cap RealIds ELSE old :
                   /\ realGrants' = [realGrants EXCEPT ![n] =
                        [grantee |-> to.grantee, key |-> k, accessVector |-> to.accessVector]]
                   /\ free' = free \ {n}
                   /\ RealReply(t, [ns |-> n, cert |-> None], "OK")
              /\ UNCHANGED <<keystore, truth>>
        /\ UNCHANGED <<cache, pendingPassthrough, uidPackages, configVars>>

RealUngrant(t) ==
    LET k == RealKey(call[t].uid, call[t].desc, "GRANT")
    IN  /\ At(t, "ungrant", "real")
        /\ IF k = None THEN RealFails(t)
           ELSE /\ realGrants' = [n \in RealIds |->
                     IF /\ realGrants[n] # None
                        /\ realGrants[n].key = k
                        /\ realGrants[n].grantee = call[t].to.grantee
                     THEN None ELSE realGrants[n]]
                /\ RealReply(t, keystore[k], "OK")
                /\ UNCHANGED <<keystore, truth, free>>
        /\ UNCHANGED <<cache, pendingPassthrough, uidPackages, configVars>>

RealGetKeyEntry(t) ==
    LET k == RealKey(call[t].uid, call[t].desc, "GET_INFO")
    IN  /\ At(t, "getKeyEntry", "real")
        /\ RealReply(t, IF k = None THEN None ELSE keystore[k], "REAL")
        /\ UNCHANGED realVars
        /\ UNCHANGED <<cache, pendingPassthrough, uidPackages, configVars>>
=============================================================================
