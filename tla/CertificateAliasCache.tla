------------------------ MODULE CertificateAliasCache ------------------------
(***************************************************************************)
(* The certificate-ownership maps of the daemon and the transitions on     *)
(* them: CertificateAliasCache.kt and PassthroughKeyRegistry.kt.           *)
(*                                                                         *)
(* The maps are one record, c, and every operation of the two objects is   *)
(* an operator from a record to a record, so that a hook that makes        *)
(* several of these calls is the composition of their operators.           *)
(*                                                                         *)
(* Abstractions.  A 64-bit key id or grant id is a member of Ids: RealIds  *)
(* are drawn by the real keystore, ForgedIds by SecureRandom in the        *)
(* daemon; no two draws of a behaviour give the same number.  A            *)
(* certificate chain is the id that names it.  keyPairs is written and     *)
(* cleared with keys and is not kept; usageRemaining is the subject of     *)
(* SoftwareOperation; leafAlgorithms belongs to the legacy keystore.       *)
(***************************************************************************)
EXTENDS Naturals

CONSTANTS
    Uids,        \* calling UIDs
    Aliases,     \* key aliases
    RealIds,     \* numbers drawn by the real keystore
    ForgedIds,   \* numbers drawn by the daemon
    None         \* Kotlin's null

Keys == Uids \X Aliases
Ids  == RealIds \cup ForgedIds

\* The bits of KeyPermission that the hooks test.
Permissions == {"GET_INFO", "UPDATE"}

\* GrantInfo: the owner's UID is the first component of the key.
Grants == [grantee : Uids, key : Keys, accessVector : SUBSET Permissions]

\* A cached KeyEntryResponse: the key id in its metadata and its chain.
Entries == [ns : Ids, cert : Ids \cup {None}]

\* A KeyDescriptor names a key by alias or by number (key id or grant id).
Descriptors == [alias : Aliases \cup {None}, ns : Ids \cup {None}]

ASSUME CacheAssumption ==
    /\ RealIds \cap ForgedIds = {}
    /\ None \notin Keys
    /\ None \notin Ids
    /\ None \notin Aliases
    /\ None \notin Grants
    /\ None \notin Entries

Caches ==
    [keys             : [Keys -> Entries \cup {None}],
     skipLeafHacks    : SUBSET Keys,
     keysByNspace     : [Ids -> Keys \cup {None}],
     patchedResponses : [Keys -> Entries \cup {None}],
     grants           : [Ids -> Grants \cup {None}],
     tracked          : SUBSET Keys,                \* PassthroughKeyRegistry
     byNspace         : [Ids -> Keys \cup {None}]]  \* PassthroughKeyRegistry

EmptyCache ==
    [keys             |-> [k \in Keys |-> None],
     skipLeafHacks    |-> {},
     keysByNspace     |-> [n \in Ids |-> None],
     patchedResponses |-> [k \in Keys |-> None],
     grants           |-> [n \in Ids |-> None],
     tracked          |-> {},
     byNspace         |-> [n \in Ids |-> None]]

UidOf(k) == k[1]

Generated(c) == {k \in Keys : c.keys[k] # None}
Patched(c)   == {k \in Keys : c.patchedResponses[k] # None}

-----------------------------------------------------------------------------
(* Lookups *)

IsPatchedKey(c, k) == k \in Generated(c) \cup Patched(c)

\* Mutant: the owner's UID is not compared.
NspaceKeyOfAnyUid(c, uid, n) == IF n \in Ids THEN c.keysByNspace[n] ELSE None

NspaceKey(c, uid, n) ==
    IF n \in Ids /\ c.keysByNspace[n] # None /\ UidOf(c.keysByNspace[n]) = uid
    THEN c.keysByNspace[n] ELSE None

GrantOf(c, uid, n) ==
    IF n \in Ids /\ c.grants[n] # None /\ c.grants[n].grantee = uid
    THEN c.grants[n] ELSE None

AliasKey(uid, alias) == IF alias = None THEN None ELSE <<uid, alias>>

ResolveOwnerKeys(c, uid, d) ==
    << NspaceKey(c, uid, d.ns),
       IF GrantOf(c, uid, d.ns) = None THEN None ELSE GrantOf(c, uid, d.ns).key,
       AliasKey(uid, d.alias) >>

\* The first owner candidate that is a member of the set of keys S.
FirstOwner(c, uid, d, S) ==
    LET o == ResolveOwnerKeys(c, uid, d)
    IN  IF \E i \in 1..3 : o[i] \in S
        THEN o[CHOOSE i \in 1..3 : o[i] \in S /\ \A j \in 1..(i-1) : o[j] \notin S]
        ELSE None

FindGeneratedKey(c, uid, d)       == FirstOwner(c, uid, d, Generated(c))
ResolvePatchedResponse(c, uid, d) == FirstOwner(c, uid, d, Patched(c))
ShouldSkipLeafHackFor(c, uid, d)  == FirstOwner(c, uid, d, c.skipLeafHacks) # None

\* Never through a grant.
ResolveKey(c, uid, d) ==
    IF NspaceKey(c, uid, d.ns) # None THEN NspaceKey(c, uid, d.ns)
    ELSE AliasKey(uid, d.alias)

\* PassthroughKeyRegistry.resolve, null when the descriptor is not tracked.
RegistryResolve(c, uid, d) ==
    IF /\ d.ns \in Ids
       /\ c.byNspace[d.ns] \in c.tracked
       /\ UidOf(c.byNspace[d.ns]) = uid
    THEN c.byNspace[d.ns]
    ELSE IF AliasKey(uid, d.alias) \in c.tracked THEN AliasKey(uid, d.alias) ELSE None

IsPassthroughDescriptor(c, uid, d) ==
    \/ RegistryResolve(c, uid, d) # None
    \/ \E i \in 1..3 : ResolveOwnerKeys(c, uid, d)[i] \in c.tracked

-----------------------------------------------------------------------------
(* Transitions *)

\* A map with every entry whose value is v removed.
WithoutValue(f, v) == [n \in DOMAIN f |-> IF f[n] = v THEN None ELSE f[n]]

WithoutGrants(c, k) ==
    [n \in Ids |-> IF c.grants[n] # None /\ c.grants[n].key = k THEN None ELSE c.grants[n]]

WithoutGrantTo(c, k, grantee) ==
    [n \in Ids |-> IF c.grants[n] # None /\ c.grants[n].key = k /\ c.grants[n].grantee = grantee
                   THEN None ELSE c.grants[n]]

\* keysByNspace without the id of k's generated response and without k.
WithoutIndex(c, k) ==
    [n \in Ids |-> IF \/ c.keysByNspace[n] = k
                      \/ c.keys[k] # None /\ n = c.keys[k].ns
                   THEN None ELSE c.keysByNspace[n]]

\* Mutant: the grants of the key are forgotten.
ClearKeepingGrants(c, k) ==
    [c EXCEPT !.keys = [@ EXCEPT ![k] = None],
              !.skipLeafHacks = @ \ {k},
              !.keysByNspace = WithoutIndex(c, k),
              !.patchedResponses = [@ EXCEPT ![k] = None]]

ClearSyntheticCertificateState(c, k) ==
    [c EXCEPT !.keys = [@ EXCEPT ![k] = None],
              !.skipLeafHacks = @ \ {k},
              !.keysByNspace = WithoutIndex(c, k),
              !.patchedResponses = [@ EXCEPT ![k] = None],
              !.grants = WithoutGrants(c, k)]

\* PassthroughKeyRegistry.remove
RelinquishPassthroughOwnership(c, k) ==
    [c EXCEPT !.tracked = @ \ {k}, !.byNspace = WithoutValue(@, k)]

CleanupKey(c, k) ==
    RelinquishPassthroughOwnership(ClearSyntheticCertificateState(c, k), k)

InvalidateCertificateResponseState(c, k, removePassthrough) ==
    IF removePassthrough THEN CleanupKey(c, k) ELSE ClearSyntheticCertificateState(c, k)

CleanupAll(c) == EmptyCache

\* PassthroughKeyRegistry.promote, with the key-id index the caller writes.
Promote(c, k, n) ==
    [c EXCEPT !.keysByNspace = [@ EXCEPT ![n] = k],
              !.tracked = @ \cup {k},
              !.byNspace = [@ EXCEPT ![n] = k]]

\* Mutant: where no patched response is cached, one without a key id is put.
UpdateOrPutCertChain(c, k, cert) ==
    LET WithChain(e) == IF e = None THEN None ELSE [e EXCEPT !.cert = cert]
        Put(e) == IF e = None THEN [ns |-> None, cert |-> cert] ELSE [e EXCEPT !.cert = cert]
    IN  [c EXCEPT !.keys = [@ EXCEPT ![k] = WithChain(c.keys[k])],
                  !.patchedResponses = [@ EXCEPT ![k] = Put(c.patchedResponses[k])],
                  !.skipLeafHacks = @ \ {k}]

UpdateKeyCertChain(c, k, cert) ==
    LET WithChain(e) == IF e = None THEN None ELSE [e EXCEPT !.cert = cert]
    IN  [c EXCEPT !.keys = [@ EXCEPT ![k] = WithChain(c.keys[k])],
                  !.patchedResponses = [@ EXCEPT ![k] = WithChain(c.patchedResponses[k])],
                  !.skipLeafHacks = @ \ {k}]

-----------------------------------------------------------------------------
(* What every transition keeps *)

\* A tracked grant refers to a key the daemon still answers for.
GrantsOwned(c) == \A n \in Ids : c.grants[n] # None => IsPatchedKey(c, c.grants[n].key)

\* A generated key can be found by the key id of its own response.
GeneratedIndexed(c) == \A k \in Generated(c) : c.keysByNspace[c.keys[k].ns] = k

\* The key-id indexes point only at keys that have an owner.
IndexOwned(c) ==
    \A n \in Ids : /\ c.keysByNspace[n] # None =>
                        c.keysByNspace[n] \in Generated(c) \cup Patched(c) \cup c.tracked
                   /\ c.byNspace[n] # None => c.byNspace[n] \in c.tracked

\* A key is not both a software key and a hardware passthrough key.
GeneratedOrTracked(c) == Generated(c) \cap c.tracked = {}

\* The leaf patch is suppressed only for generated keys.
SkipGenerated(c) == c.skipLeafHacks \subseteq Generated(c)

CacheInv(c) ==
    /\ GrantsOwned(c)
    /\ GeneratedIndexed(c)
    /\ IndexOwned(c)
    /\ GeneratedOrTracked(c)
    /\ SkipGenerated(c)
=============================================================================
