---------------------- MODULE Keystore2InterceptorProofs ----------------------
(***************************************************************************)
(* TypeOK, OwnerIsolation and AutoUnmodified hold of Spec for all sets of  *)
(* UIDs, aliases, numbers, threads and modes: the first two in every       *)
(* environment, the third in the one that AutoSetting states.  A hook is   *)
(* one step here; OwnershipWritesProofs is about their single writes.      *)
(*                                                                         *)
(* A hook dereferences what the maps and its call's record hold, so IInv   *)
(* says how the maps agree (CacheInv), that software keys carry drawn      *)
(* forged numbers, that real replies carry real ones, and what a call in   *)
(* flight must hold at each of its steps.                                  *)
(*                                                                         *)
(* AutoUnmodified speaks of answered calls only.  AutoInv adds what a call *)
(* of a plain AUTO UID is on its way to: never to synthesis or re-signing, *)
(* and, when generateKey has a post hook, to the passthrough flag that its *)
(* own pre hook left, because no second call creates the same alias.       *)
(***************************************************************************)
EXTENDS Keystore2Interceptor, TLAPS

-----------------------------------------------------------------------------
(* The ownership maps: what each transition of CertificateAliasCache keeps *)

\* A well-formed cache whose generated keys carry numbers of F.
Sound(c, F) ==
    /\ c \in Caches
    /\ CacheInv(c)
    /\ \A k \in Generated(c) : c.keys[k].ns \in F

\* Two caches with the same maps are the same cache.
LEMMA CachesExtensional ==
    ASSUME NEW x \in Caches, NEW y \in Caches,
           x.keys = y.keys, x.skipLeafHacks = y.skipLeafHacks,
           x.keysByNspace = y.keysByNspace, x.patchedResponses = y.patchedResponses,
           x.grants = y.grants, x.tracked = y.tracked, x.byNspace = y.byNspace
    PROVE  x = y
<1> DEFINE Copy(z) == [keys |-> z.keys, skipLeafHacks |-> z.skipLeafHacks,
                       keysByNspace |-> z.keysByNspace, patchedResponses |-> z.patchedResponses,
                       grants |-> z.grants, tracked |-> z.tracked, byNspace |-> z.byNspace]
<1>1. \A z \in Caches : z = Copy(z)
  BY DEF Caches
<1>2. Copy(x) = Copy(y)
  OBVIOUS
<1> HIDE DEF Copy
<1> QED  BY <1>1, <1>2

-----------------------------------------------------------------------------
(* Clearing *)

\* The empty maps of a fresh process or of cleanupAll are sound.
LEMMA EmptySound == \A F : Sound(EmptyCache, F)
BY DEF Sound, EmptyCache, Caches, CacheInv, GrantsOwned, GeneratedIndexed, IndexOwned,
       GeneratedOrTracked, SkipGenerated, Generated

\* clearSyntheticCertificateState on the fields it writes.
LEMMA ClearFields ==
    ASSUME NEW c \in Caches, NEW k \in Keys
    PROVE  LET d == ClearSyntheticCertificateState(c, k)
           IN  /\ d \in Caches
               /\ d.keys = [c.keys EXCEPT ![k] = None]
               /\ d.skipLeafHacks = c.skipLeafHacks \ {k}
               /\ d.keysByNspace = WithoutIndex(c, k)
               /\ d.patchedResponses = [c.patchedResponses EXCEPT ![k] = None]
               /\ d.grants = WithoutGrants(c, k)
               /\ d.tracked = c.tracked
               /\ d.byNspace = c.byNspace
BY DEF ClearSyntheticCertificateState, Caches, WithoutIndex, WithoutGrants

\* clearSyntheticCertificateState keeps the maps consistent, and afterwards
\* nothing refers to the key any more.
LEMMA ClearSound ==
    ASSUME NEW F, NEW c, Sound(c, F), NEW k \in Keys
    PROVE  LET d == ClearSyntheticCertificateState(c, k)
           IN  /\ Sound(d, F)
               /\ k \notin Generated(d)
               /\ k \notin Patched(d)
               /\ \A n \in Ids : d.keysByNspace[n] # k
<1> DEFINE d == ClearSyntheticCertificateState(c, k)
<1>c. c \in Caches /\ CacheInv(c)
  BY DEF Sound
<1>1. /\ d \in Caches
      /\ d.keys = [c.keys EXCEPT ![k] = None]
      /\ d.skipLeafHacks = c.skipLeafHacks \ {k}
      /\ d.keysByNspace = WithoutIndex(c, k)
      /\ d.patchedResponses = [c.patchedResponses EXCEPT ![k] = None]
      /\ d.grants = WithoutGrants(c, k)
      /\ d.tracked = c.tracked
      /\ d.byNspace = c.byNspace
  BY <1>c, ClearFields
<1> HIDE DEF d
<1>2. k \notin Generated(d) /\ k \notin Patched(d)
  BY <1>c, <1>1 DEF Generated, Patched, Caches
<1>3. \A j \in Keys : j # k => d.keys[j] = c.keys[j] /\ d.patchedResponses[j] = c.patchedResponses[j]
  BY <1>c, <1>1 DEF Caches
<1>4. \A n \in Ids : d.keysByNspace[n] # k
  BY <1>c, <1>1, CacheAssumption DEF Caches, WithoutIndex
<1>5. GrantsOwned(d)
  BY <1>c, <1>1, <1>3 DEF CacheInv, GrantsOwned, IsPatchedKey, Generated, Patched, WithoutGrants, Caches, Grants
<1>6. GeneratedIndexed(d)
  BY <1>c, <1>1, <1>2, <1>3 DEF CacheInv, GeneratedIndexed, Generated, WithoutIndex, Caches, Entries
<1>7. IndexOwned(d)
  BY <1>c, <1>1, <1>3 DEF CacheInv, IndexOwned, Generated, Patched, WithoutIndex, Caches
<1>8. GeneratedOrTracked(d) /\ SkipGenerated(d)
  BY <1>c, <1>1, <1>2, <1>3 DEF CacheInv, GeneratedOrTracked, SkipGenerated, Generated
<1>9. \A j \in Generated(d) : d.keys[j].ns \in F
  BY <1>2, <1>3 DEF Sound, Generated
<1> QED
  BY <1>1, <1>2, <1>4, <1>5, <1>6, <1>7, <1>8, <1>9 DEF Sound, CacheInv, d

\* PassthroughKeyRegistry.remove and clearSyntheticCertificateState may run in
\* either order: they write different maps.
LEMMA ClearRelinquishCommute ==
    ASSUME NEW c \in Caches, NEW k \in Keys
    PROVE  ClearSyntheticCertificateState(RelinquishPassthroughOwnership(c, k), k) = CleanupKey(c, k)
<1> DEFINE r == RelinquishPassthroughOwnership(c, k)
           d == ClearSyntheticCertificateState(c, k)
<1>1. /\ r \in Caches
      /\ r.keys = c.keys /\ r.skipLeafHacks = c.skipLeafHacks
      /\ r.keysByNspace = c.keysByNspace /\ r.patchedResponses = c.patchedResponses
      /\ r.grants = c.grants
      /\ r.tracked = c.tracked \ {k} /\ r.byNspace = WithoutValue(c.byNspace, k)
  BY DEF RelinquishPassthroughOwnership, WithoutValue, Caches
<1>2. WithoutIndex(r, k) = WithoutIndex(c, k) /\ WithoutGrants(r, k) = WithoutGrants(c, k)
  BY <1>1 DEF WithoutIndex, WithoutGrants
<1>3. /\ d \in Caches
      /\ d.tracked = c.tracked /\ d.byNspace = c.byNspace
      /\ d.keys = [c.keys EXCEPT ![k] = None]
      /\ d.skipLeafHacks = c.skipLeafHacks \ {k}
      /\ d.keysByNspace = WithoutIndex(c, k)
      /\ d.patchedResponses = [c.patchedResponses EXCEPT ![k] = None]
      /\ d.grants = WithoutGrants(c, k)
  BY ClearFields
<1> DEFINE x == ClearSyntheticCertificateState(r, k)
           y == RelinquishPassthroughOwnership(d, k)
<1>4. /\ x \in Caches
      /\ x.keys = [r.keys EXCEPT ![k] = None]
      /\ x.skipLeafHacks = r.skipLeafHacks \ {k}
      /\ x.keysByNspace = WithoutIndex(r, k)
      /\ x.patchedResponses = [r.patchedResponses EXCEPT ![k] = None]
      /\ x.grants = WithoutGrants(r, k)
      /\ x.tracked = r.tracked
      /\ x.byNspace = r.byNspace
  <2> HIDE DEF r
  <2> QED  BY <1>1, ClearFields
<1>5. /\ y \in Caches
      /\ y.keys = d.keys /\ y.skipLeafHacks = d.skipLeafHacks
      /\ y.keysByNspace = d.keysByNspace /\ y.patchedResponses = d.patchedResponses
      /\ y.grants = d.grants
      /\ y.tracked = d.tracked \ {k} /\ y.byNspace = WithoutValue(d.byNspace, k)
  <2> HIDE DEF d
  <2> QED  BY <1>3 DEF RelinquishPassthroughOwnership, WithoutValue, Caches
<1>6. x = y
  <2> HIDE DEF x, y, r, d
  <2>1. /\ x.keys = y.keys /\ x.skipLeafHacks = y.skipLeafHacks
        /\ x.keysByNspace = y.keysByNspace /\ x.patchedResponses = y.patchedResponses
        /\ x.grants = y.grants /\ x.tracked = y.tracked /\ x.byNspace = y.byNspace
    BY <1>1, <1>2, <1>3, <1>4, <1>5
  <2> QED  BY <1>4, <1>5, <2>1, CachesExtensional
<1> QED  BY <1>6 DEF CleanupKey

\* cleanupKey keeps the maps consistent: the passthrough mark goes after the
\* key-id index that it justified.
LEMMA CleanupSound ==
    ASSUME NEW F, NEW c, Sound(c, F), NEW k \in Keys
    PROVE  /\ Sound(CleanupKey(c, k), F)
           /\ k \notin Generated(CleanupKey(c, k))
           /\ k \notin CleanupKey(c, k).tracked
<1> DEFINE d == ClearSyntheticCertificateState(c, k)
           e == RelinquishPassthroughOwnership(d, k)
<1>1. Sound(d, F) /\ k \notin Generated(d) /\ \A n \in Ids : d.keysByNspace[n] # k
  BY ClearSound
<1> HIDE DEF d
<1>c. d \in Caches /\ CacheInv(d)
  BY <1>1 DEF Sound
<1>2. /\ e \in Caches
      /\ e.keys = d.keys /\ e.skipLeafHacks = d.skipLeafHacks
      /\ e.keysByNspace = d.keysByNspace /\ e.patchedResponses = d.patchedResponses
      /\ e.grants = d.grants
      /\ e.tracked = d.tracked \ {k} /\ e.byNspace = WithoutValue(d.byNspace, k)
  BY <1>c DEF RelinquishPassthroughOwnership, WithoutValue, Caches
<1> HIDE DEF e
<1>3. Generated(e) = Generated(d) /\ Patched(e) = Patched(d)
  BY <1>2 DEF Generated, Patched
<1>4. GrantsOwned(e) /\ GeneratedIndexed(e) /\ GeneratedOrTracked(e) /\ SkipGenerated(e)
  BY <1>c, <1>2, <1>3 DEF CacheInv, GrantsOwned, IsPatchedKey, GeneratedIndexed, GeneratedOrTracked, SkipGenerated
<1>5. IndexOwned(e)
  BY <1>c, <1>1, <1>2, <1>3 DEF CacheInv, IndexOwned, WithoutValue, Caches
<1>6. Sound(e, F) /\ k \notin Generated(e) /\ k \notin e.tracked
  BY <1>1, <1>2, <1>3, <1>4, <1>5 DEF Sound, CacheInv
<1> QED  BY <1>6 DEF CleanupKey, d, e

-----------------------------------------------------------------------------
(* Storing *)

\* promote keeps the maps consistent for a key that is not a software key,
\* under a number that no software key carries.
LEMMA PromoteSound ==
    ASSUME NEW F, NEW c, Sound(c, F), NEW k \in Keys \ Generated(c), NEW n \in Ids \ F
    PROVE  Sound(Promote(c, k, n), F)
<1> DEFINE d == Promote(c, k, n)
<1>c. c \in Caches /\ CacheInv(c)
  BY DEF Sound
<1>1. /\ d \in Caches
      /\ d.keys = c.keys /\ d.skipLeafHacks = c.skipLeafHacks
      /\ d.keysByNspace = [c.keysByNspace EXCEPT ![n] = k]
      /\ d.patchedResponses = c.patchedResponses /\ d.grants = c.grants
      /\ d.tracked = c.tracked \cup {k}
      /\ d.byNspace = [c.byNspace EXCEPT ![n] = k]
  BY <1>c DEF Promote, Caches
<1> HIDE DEF d
<1>2. Generated(d) = Generated(c) /\ Patched(d) = Patched(c)
  BY <1>1 DEF Generated, Patched
<1>3. GrantsOwned(d) /\ GeneratedOrTracked(d) /\ SkipGenerated(d)
  BY <1>c, <1>1, <1>2 DEF CacheInv, GrantsOwned, IsPatchedKey, GeneratedOrTracked, SkipGenerated
<1>4. GeneratedIndexed(d)
  BY <1>c, <1>1, <1>2 DEF Sound, CacheInv, GeneratedIndexed, Caches
<1>5. IndexOwned(d)
  BY <1>c, <1>1, <1>2 DEF CacheInv, IndexOwned, Caches
<1> QED  BY <1>1, <1>2, <1>3, <1>4, <1>5 DEF Sound, CacheInv, d

\* Caching a re-signed response of a key that the index knows.
LEMMA PatchOnlySound ==
    ASSUME NEW F, NEW c, Sound(c, F), NEW k \in Keys, NEW e \in Entries
    PROVE  Sound([c EXCEPT !.patchedResponses = [@ EXCEPT ![k] = e]], F)
<1> DEFINE d == [c EXCEPT !.patchedResponses = [@ EXCEPT ![k] = e]]
<1>c. c \in Caches /\ CacheInv(c)
  BY DEF Sound
<1>1. /\ d \in Caches
      /\ d.keys = c.keys /\ d.skipLeafHacks = c.skipLeafHacks
      /\ d.keysByNspace = c.keysByNspace
      /\ d.patchedResponses = [c.patchedResponses EXCEPT ![k] = e]
      /\ d.grants = c.grants /\ d.tracked = c.tracked /\ d.byNspace = c.byNspace
  BY <1>c DEF Caches
<1> HIDE DEF d
<1>2. Generated(d) = Generated(c) /\ Patched(c) \cup {k} = Patched(d)
  BY <1>c, <1>1, CacheAssumption DEF Generated, Patched, Caches
<1>3. /\ GrantsOwned(d) /\ GeneratedIndexed(d) /\ IndexOwned(d)
      /\ GeneratedOrTracked(d) /\ SkipGenerated(d)
  BY <1>c, <1>1, <1>2 DEF CacheInv, GrantsOwned, IsPatchedKey, GeneratedIndexed, IndexOwned,
                          GeneratedOrTracked, SkipGenerated
<1> QED  BY <1>1, <1>2, <1>3 DEF Sound, CacheInv, d

\* Adding the key-id index of a key that has an owner.
LEMMA IndexSound ==
    ASSUME NEW F, NEW c, Sound(c, F), NEW k \in Generated(c) \cup Patched(c), NEW n \in Ids \ F
    PROVE  Sound([c EXCEPT !.keysByNspace = [@ EXCEPT ![n] = k]], F)
<1> DEFINE d == [c EXCEPT !.keysByNspace = [@ EXCEPT ![n] = k]]
<1>c. c \in Caches /\ CacheInv(c) /\ k \in Keys
  BY DEF Sound, Generated, Patched
<1>1. /\ d \in Caches
      /\ d.keys = c.keys /\ d.skipLeafHacks = c.skipLeafHacks
      /\ d.keysByNspace = [c.keysByNspace EXCEPT ![n] = k]
      /\ d.patchedResponses = c.patchedResponses
      /\ d.grants = c.grants /\ d.tracked = c.tracked /\ d.byNspace = c.byNspace
  BY <1>c DEF Caches
<1> HIDE DEF d
<1>2. Generated(d) = Generated(c) /\ Patched(d) = Patched(c)
  BY <1>1 DEF Generated, Patched
<1>3. GrantsOwned(d) /\ GeneratedOrTracked(d) /\ SkipGenerated(d)
  BY <1>c, <1>1, <1>2 DEF CacheInv, GrantsOwned, IsPatchedKey, GeneratedOrTracked, SkipGenerated
<1>4. GeneratedIndexed(d)
  BY <1>c, <1>1, <1>2 DEF Sound, CacheInv, GeneratedIndexed, Caches
<1>5. IndexOwned(d)
  BY <1>c, <1>1, <1>2 DEF CacheInv, IndexOwned, Caches
<1> QED  BY <1>1, <1>2, <1>3, <1>4, <1>5 DEF Sound, CacheInv, d

\* Storing a generated response under a number that no other generated key
\* carries, after the key was cleaned up.
LEMMA GeneratedSound ==
    ASSUME NEW F, NEW c, Sound(c, F), NEW k \in Keys, k \notin c.tracked,
           NEW n \in Ids \ F, NEW S \in SUBSET {k}
    PROVE  Sound([c EXCEPT !.keysByNspace = [@ EXCEPT ![n] = k],
                           !.keys = [@ EXCEPT ![k] = [ns |-> n, cert |-> n]],
                           !.skipLeafHacks = @ \cup S], F \cup {n})
<1> DEFINE d == [c EXCEPT !.keysByNspace = [@ EXCEPT ![n] = k],
                          !.keys = [@ EXCEPT ![k] = [ns |-> n, cert |-> n]],
                          !.skipLeafHacks = @ \cup S]
           e == [ns |-> n, cert |-> n]
<1>c. c \in Caches /\ CacheInv(c)
  BY DEF Sound
<1>e. e \in Entries /\ e.ns = n /\ e # None
  BY CacheAssumption DEF Entries
<1> HIDE DEF e
<1>1. /\ d \in Caches
      /\ d.keys = [c.keys EXCEPT ![k] = e]
      /\ d.skipLeafHacks = c.skipLeafHacks \cup S
      /\ d.keysByNspace = [c.keysByNspace EXCEPT ![n] = k]
      /\ d.patchedResponses = c.patchedResponses
      /\ d.grants = c.grants /\ d.tracked = c.tracked /\ d.byNspace = c.byNspace
  <2> DEFINE d2 == [c EXCEPT !.keysByNspace = [@ EXCEPT ![n] = k],
                             !.keys = [@ EXCEPT ![k] = e],
                             !.skipLeafHacks = @ \cup S]
  <2>1. d = d2
    BY DEF e
  <2>2. /\ d2 \in Caches
        /\ d2.keys = [c.keys EXCEPT ![k] = e]
        /\ d2.skipLeafHacks = c.skipLeafHacks \cup S
        /\ d2.keysByNspace = [c.keysByNspace EXCEPT ![n] = k]
        /\ d2.patchedResponses = c.patchedResponses
        /\ d2.grants = c.grants /\ d2.tracked = c.tracked /\ d2.byNspace = c.byNspace
    BY <1>c, <1>e DEF Caches
  <2> HIDE DEF d, d2
  <2> QED  BY <2>1, <2>2
<1> HIDE DEF d
<1>2. Generated(d) = Generated(c) \cup {k} /\ Patched(d) = Patched(c)
  BY <1>c, <1>e, <1>1 DEF Generated, Patched, Caches
<1>3. /\ d.keys[k] = e
      /\ \A j \in Keys : j # k => d.keys[j] = c.keys[j]
  BY <1>c, <1>1 DEF Caches
<1>4. GrantsOwned(d) /\ GeneratedOrTracked(d) /\ SkipGenerated(d)
  BY <1>c, <1>1, <1>2 DEF CacheInv, GrantsOwned, IsPatchedKey, GeneratedOrTracked, SkipGenerated
<1>5. GeneratedIndexed(d)
  <2> SUFFICES ASSUME NEW j \in Generated(d)
               PROVE  d.keysByNspace[d.keys[j].ns] = j
    BY DEF GeneratedIndexed
  <2>1. CASE j = k
    BY <1>c, <1>e, <1>1, <1>3, <2>1 DEF Caches
  <2>2. CASE j # k
    BY <1>c, <1>1, <1>2, <1>3, <2>2 DEF Sound, CacheInv, GeneratedIndexed, Generated, Caches
  <2> QED  BY <2>1, <2>2
<1>6. IndexOwned(d)
  BY <1>c, <1>1, <1>2 DEF CacheInv, IndexOwned, Caches
<1>7. \A j \in Generated(d) : d.keys[j].ns \in F \cup {n}
  BY <1>e, <1>2, <1>3 DEF Sound, Generated
<1> QED  BY <1>1, <1>4, <1>5, <1>6, <1>7 DEF Sound, CacheInv, d

\* updateKeyCertChain changes the chain of a generated key and not its number.
LEMMA ChainSound ==
    ASSUME NEW F, NEW c, Sound(c, F), NEW k \in Generated(c), NEW n \in Ids
    PROVE  Sound(UpdateKeyCertChain(c, k, n), F)
<1> DEFINE d == UpdateKeyCertChain(c, k, n)
           e == [c.keys[k] EXCEPT !.cert = n]
           p == IF c.patchedResponses[k] = None THEN None
                ELSE [c.patchedResponses[k] EXCEPT !.cert = n]
<1>c. c \in Caches /\ CacheInv(c) /\ k \in Keys /\ c.keys[k] \in Entries
  BY DEF Sound, Generated, Caches
<1>e. e \in Entries /\ e.ns = c.keys[k].ns /\ e # None
  BY <1>c, CacheAssumption DEF Entries
<1>p. p \in Entries \cup {None} /\ (p = None <=> c.patchedResponses[k] = None)
  BY <1>c, CacheAssumption DEF Entries, Caches
<1>0. d = [c EXCEPT !.keys = [c.keys EXCEPT ![k] = e],
                    !.patchedResponses = [c.patchedResponses EXCEPT ![k] = p],
                    !.skipLeafHacks = c.skipLeafHacks \ {k}]
  BY <1>c, CacheAssumption DEF UpdateKeyCertChain, Caches
<1> HIDE DEF e, p
<1>1. /\ d \in Caches
      /\ d.keys = [c.keys EXCEPT ![k] = e]
      /\ d.skipLeafHacks = c.skipLeafHacks \ {k}
      /\ d.patchedResponses = [c.patchedResponses EXCEPT ![k] = p]
      /\ d.keysByNspace = c.keysByNspace
      /\ d.grants = c.grants /\ d.tracked = c.tracked /\ d.byNspace = c.byNspace
  <2> HIDE DEF d
  <2> QED  BY <1>0, <1>c, <1>e, <1>p DEF Caches
<1> HIDE DEF d
<1>2. Generated(d) = Generated(c) /\ Patched(d) = Patched(c)
  BY <1>c, <1>e, <1>p, <1>1 DEF Generated, Patched, Caches
<1>3. \A j \in Generated(c) : d.keys[j].ns = c.keys[j].ns
  BY <1>c, <1>e, <1>1 DEF Generated, Caches
<1>4. /\ GrantsOwned(d) /\ IndexOwned(d) /\ GeneratedIndexed(d)
      /\ GeneratedOrTracked(d) /\ SkipGenerated(d)
  BY <1>c, <1>1, <1>2, <1>3 DEF CacheInv, GrantsOwned, IsPatchedKey, IndexOwned, GeneratedIndexed,
                                GeneratedOrTracked, SkipGenerated
<1> QED  BY <1>1, <1>2, <1>3, <1>4 DEF Sound, CacheInv, d

-----------------------------------------------------------------------------
(* Grants and the leaf mark *)

\* Any change of the grants that leaves only grants of owned keys.
LEMMA GrantsSound ==
    ASSUME NEW F, NEW c, Sound(c, F), NEW G \in [Ids -> Grants \cup {None}],
           \A n \in Ids : G[n] # None => IsPatchedKey(c, G[n].key)
    PROVE  Sound([c EXCEPT !.grants = G], F)
<1> DEFINE d == [c EXCEPT !.grants = G]
<1>c. c \in Caches /\ CacheInv(c)
  BY DEF Sound
<1>1. /\ d \in Caches
      /\ d.keys = c.keys /\ d.skipLeafHacks = c.skipLeafHacks
      /\ d.keysByNspace = c.keysByNspace /\ d.patchedResponses = c.patchedResponses
      /\ d.grants = G /\ d.tracked = c.tracked /\ d.byNspace = c.byNspace
  BY <1>c DEF Caches
<1> HIDE DEF d
<1>2. Generated(d) = Generated(c) /\ Patched(d) = Patched(c)
  BY <1>1 DEF Generated, Patched
<1>3. /\ GrantsOwned(d) /\ GeneratedIndexed(d) /\ IndexOwned(d)
      /\ GeneratedOrTracked(d) /\ SkipGenerated(d)
  BY <1>c, <1>1, <1>2 DEF CacheInv, GrantsOwned, IsPatchedKey, GeneratedIndexed, IndexOwned,
                          GeneratedOrTracked, SkipGenerated
<1> QED  BY <1>1, <1>2, <1>3 DEF Sound, CacheInv, d

\* ungrant
LEMMA UngrantSound ==
    ASSUME NEW F, NEW c, Sound(c, F), NEW k \in Keys, NEW grantee \in Uids
    PROVE  Sound([c EXCEPT !.grants = WithoutGrantTo(c, k, grantee)], F)
<1> DEFINE G == WithoutGrantTo(c, k, grantee)
<1>c. c \in Caches /\ GrantsOwned(c)
  BY DEF Sound, CacheInv
<1>1. /\ G \in [Ids -> Grants \cup {None}]
      /\ \A n \in Ids : G[n] # None => G[n] = c.grants[n]
  BY <1>c DEF WithoutGrantTo, Caches
<1> HIDE DEF G
<1>2. \A n \in Ids : G[n] # None => IsPatchedKey(c, G[n].key)
  BY <1>c, <1>1 DEF GrantsOwned
<1>3. Sound([c EXCEPT !.grants = G], F)
  BY <1>1, <1>2, GrantsSound
<1> QED  BY <1>3 DEF G

\* skipLeafHacks.remove
LEMMA SkipSound ==
    ASSUME NEW F, NEW c, Sound(c, F), NEW k \in Keys
    PROVE  Sound([c EXCEPT !.skipLeafHacks = @ \ {k}], F)
<1> DEFINE d == [c EXCEPT !.skipLeafHacks = @ \ {k}]
<1>c. c \in Caches /\ CacheInv(c)
  BY DEF Sound
<1>1. /\ d \in Caches
      /\ d.keys = c.keys /\ d.skipLeafHacks = c.skipLeafHacks \ {k}
      /\ d.keysByNspace = c.keysByNspace /\ d.patchedResponses = c.patchedResponses
      /\ d.grants = c.grants /\ d.tracked = c.tracked /\ d.byNspace = c.byNspace
  BY <1>c DEF Caches
<1> HIDE DEF d
<1>2. Generated(d) = Generated(c) /\ Patched(d) = Patched(c)
  BY <1>1 DEF Generated, Patched
<1>3. /\ GrantsOwned(d) /\ GeneratedIndexed(d) /\ IndexOwned(d)
      /\ GeneratedOrTracked(d) /\ SkipGenerated(d)
  BY <1>c, <1>1, <1>2 DEF CacheInv, GrantsOwned, IsPatchedKey, GeneratedIndexed, IndexOwned,
                          GeneratedOrTracked, SkipGenerated
<1> QED  BY <1>1, <1>2, <1>3 DEF Sound, CacheInv, d

-----------------------------------------------------------------------------
(* What the lookups return *)

\* resolveKey and the key-id index give a key or null.
LEMMA ResolvedType ==
    ASSUME NEW c \in Caches, NEW uid \in Uids, NEW d \in Descriptors
    PROVE  /\ NspaceKey(c, uid, d.ns) \in Keys \cup {None}
           /\ ResolveKey(c, uid, d) \in Keys \cup {None}
<1>1. NspaceKey(c, uid, d.ns) \in Keys \cup {None}
  BY DEF NspaceKey, Caches
<1>2. AliasKey(uid, d.alias) \in Keys \cup {None}
  BY DEF AliasKey, Descriptors, Keys
<1> QED  BY <1>1, <1>2 DEF ResolveKey

-----------------------------------------------------------------------------
(* The invariant *)

\* The forged numbers already drawn.
Used == ForgedIds \ free

\* The ownership maps agree, and software keys carry drawn numbers.
CacheSound == Sound(cache, Used)

\* A call carries what its next step needs.
CallShape(c) ==
    /\ c.pc # "done" /\ c.op \in {"generateKey", "importKey"} => c.desc.alias \in Aliases
    /\ c.pc # "done" /\ c.op \in {"grant", "ungrant"} => c.to # None
    /\ c.res # None => c.res.ns \in RealIds
    /\ c.pc = "resign" => c.res # None
    /\ c.pc = "resign" /\ c.op = "generateKey" => c.store \in Keys

\* Every call in flight does.
CallsSound ==
    /\ call \in [Threads -> Calls \cup {None}]
    /\ \A t \in Threads : call[t] # None => CallShape(call[t])

\* The real keystore answers with its own numbers and keeps no grant of a
\* deleted key.
RealSound ==
    /\ keystore \in [Keys -> Entries \cup {None}]
    /\ \A k \in Keys : keystore[k] # None => keystore[k].ns \in RealIds
    /\ realGrants \in [RealIds -> Grants \cup {None}]
    /\ \A n \in RealIds : realGrants[n] # None => keystore[realGrants[n].key] # None
    /\ free \subseteq Ids
    /\ truth \in [Keys -> Entries \cup {None}]

\* The types of what the configuration keeps.
ConfigSound ==
    /\ pendingPassthrough \subseteq Keys
    /\ modes \in [Uids -> SUBSET AllModes]
    /\ uidPackages \subseteq Uids
    /\ pmAlive \in BOOLEAN
    /\ hasKeyboxes \in BOOLEAN

\* The inductive invariant of TypeOK and of OwnerIsolation.
IInv == CacheSound /\ CallsSound /\ RealSound /\ ConfigSound

-----------------------------------------------------------------------------
(* Calls *)

\* A new call that may be forwarded.
Ready(x) ==
    /\ x \in Calls
    /\ x.res = None
    /\ x.op \in {"generateKey", "importKey"} => x.desc.alias \in Aliases
    /\ x.op \in {"grant", "ungrant"} => x.to # None

\* The call a pre hook builds from its arguments is well formed.
LEMMA NewCallType ==
    ASSUME NEW op \in Ops, NEW uid \in Uids, NEW d \in Descriptors
    PROVE  LET x == NewCall(op, uid, d)
           IN  /\ x \in Calls
               /\ x.op = op /\ x.uid = uid /\ x.desc = d /\ x.res = None /\ x.pc = "done"
BY DEF NewCall, Calls

\* Descriptors by alias and by number are descriptors.
LEMMA DescriptorType ==
    /\ \A a \in Aliases : ByAlias(a) \in Descriptors /\ ByAlias(a).alias = a
    /\ \A n \in Ids : ByNumber(n) \in Descriptors
    /\ NoDescriptor \in Descriptors
    /\ \A d \in CallDescriptors : d \in Descriptors
<1>1. /\ \A a \in Aliases : ByAlias(a) \in Descriptors /\ ByAlias(a).alias = a
      /\ \A n \in Ids : ByNumber(n) \in Descriptors
      /\ NoDescriptor \in Descriptors
  BY DEF ByAlias, ByNumber, NoDescriptor, Descriptors
<1>2. \A d \in CallDescriptors : d \in Descriptors
  BY <1>1 DEF CallDescriptors, Drawn
<1> QED  BY <1>1, <1>2

\* The calls that are ready to be forwarded.
LEMMA ReadyCalls ==
    ASSUME NEW uid \in Uids, NEW d \in Descriptors, NEW op \in Ops
    PROVE  /\ op \notin {"generateKey", "importKey", "grant", "ungrant"} => Ready(NewCall(op, uid, d))
           /\ op = "importKey" /\ d.alias \in Aliases => Ready(NewCall(op, uid, d))
           /\ op = "generateKey" /\ d.alias \in Aliases =>
                \A kind \in Kinds : Ready([NewCall(op, uid, d) EXCEPT !.kind = kind])
           /\ op \in {"grant", "ungrant"} =>
                \A to \in GrantRequests :
                    Ready([NewCall(op, uid, d) EXCEPT !.to = to])
<1> DEFINE x == NewCall(op, uid, d)
<1>1. x \in Calls /\ x.op = op /\ x.uid = uid /\ x.desc = d /\ x.res = None
  BY NewCallType
<1> HIDE DEF x
<1>2. \A kind \in Kinds : LET y == [x EXCEPT !.kind = kind]
                          IN  y \in Calls /\ y.op = op /\ y.desc = d /\ y.res = None
  BY <1>1 DEF Calls
<1>3. \A to \in GrantRequests :
          LET y == [x EXCEPT !.to = to]
          IN  y \in Calls /\ y.op = op /\ y.desc = d /\ y.res = None /\ y.to = to
  BY <1>1 DEF Calls
<1>4. op \notin {"generateKey", "importKey", "grant", "ungrant"} => Ready(x)
  BY <1>1 DEF Ready
<1>5. op = "importKey" /\ d.alias \in Aliases => Ready(x)
  BY <1>1 DEF Ready
<1>6. op = "generateKey" /\ d.alias \in Aliases =>
                \A kind \in Kinds : Ready([x EXCEPT !.kind = kind])
  BY <1>2 DEF Ready
<1>7. op \in {"grant", "ungrant"} =>
                \A to \in GrantRequests :
                    Ready([x EXCEPT !.to = to])
  BY <1>3, HooksAssumption DEF Ready
<1> QED  BY <1>4, <1>5, <1>6, <1>7 DEF x

\* An answered call is well formed.
LEMMA AnsweredType ==
    ASSUME NEW c \in Calls, NEW trust \in Trust
    PROVE  Answered(c, trust) \in Calls /\ CallShape(Answered(c, trust))
<1> DEFINE x == NewCall(c.op, c.uid, NoDescriptor)
           y == [x EXCEPT !.trust = trust, !.auto = c.auto]
<1>0. c.op \in Ops /\ c.uid \in Uids /\ c.auto \in BOOLEAN
  BY DEF Calls
<1>1. x \in Calls /\ x.res = None /\ x.pc = "done"
  BY <1>0, NewCallType, DescriptorType
<1> HIDE DEF x
<1>2. y \in Calls /\ y.res = None /\ y.pc = "done"
  BY <1>0, <1>1 DEF Calls
<1> HIDE DEF y
<1>3. y \in Calls /\ CallShape(y)
  BY <1>2 DEF CallShape
<1> QED  BY <1>3 DEF Answered, x, y

\* One thread's call is replaced by a well-formed one.
LEMMA CallStep ==
    ASSUME CallsSound, NEW t \in Threads, NEW x \in Calls \cup {None}, x # None => CallShape(x),
           call' = [call EXCEPT ![t] = x]
    PROVE  CallsSound'
BY DEF CallsSound, CallShape

\* What a pre hook does with a new call.
LEMMA ReadyStep ==
    ASSUME CallsSound, NEW t \in Threads, NEW x, Ready(x),
           \/ Continue(t, x)
           \/ Skip(t, x)
           \/ \E trust \in Trust : Answer(t, x, trust)
    PROVE  CallsSound'
<1>1. CASE Continue(t, x)
  <2> DEFINE y == [x EXCEPT !.pc = "real", !.post = TRUE]
  <2>1. y \in Calls /\ y.op = x.op /\ y.desc = x.desc /\ y.res = None /\ y.to = x.to /\ y.pc = "real"
    BY DEF Ready, Calls
  <2>2. call' = [call EXCEPT ![t] = y]
    BY <1>1 DEF Continue
  <2> HIDE DEF y
  <2>3. CallShape(y)
    BY <2>1 DEF CallShape, Ready
  <2> QED  BY <2>1, <2>2, <2>3, CallStep
<1>2. CASE Skip(t, x)
  <2> DEFINE y == [x EXCEPT !.pc = "real"]
  <2>1. y \in Calls /\ y.op = x.op /\ y.desc = x.desc /\ y.res = None /\ y.to = x.to /\ y.pc = "real"
    BY DEF Ready, Calls
  <2>2. call' = [call EXCEPT ![t] = y]
    BY <1>2 DEF Skip
  <2> HIDE DEF y
  <2>3. CallShape(y)
    BY <2>1 DEF CallShape, Ready
  <2> QED  BY <2>1, <2>2, <2>3, CallStep
<1>3. ASSUME NEW trust \in Trust, Answer(t, x, trust)
      PROVE  CallsSound'
  <2>1. Answered(x, trust) \in Calls /\ CallShape(Answered(x, trust))
    BY AnsweredType DEF Ready
  <2> QED  BY <1>3, <2>1, CallStep DEF Answer
<1> QED  BY <1>1, <1>2, <1>3

\* A later step of a call answers it.
LEMMA FinishStep ==
    ASSUME CallsSound, NEW t \in Threads, call[t] # None, NEW trust \in Trust, Finish(t, trust)
    PROVE  CallsSound'
<1>1. call[t] \in Calls /\ call' = [call EXCEPT ![t] = Answered(call[t], trust)]
  BY DEF CallsSound, Finish
<1>2. Answered(call[t], trust) \in Calls /\ CallShape(Answered(call[t], trust))
  BY <1>1, AnsweredType
<1> QED  BY <1>1, <1>2, CallStep

\* The real keystore replies.
LEMMA ReplyStep ==
    ASSUME CallsSound, NEW t \in Threads, call[t] # None, call[t].pc = "real",
           NEW res \in Entries \cup {None}, res # None => res.ns \in RealIds,
           NEW trust \in Trust, RealReply(t, res, trust)
    PROVE  CallsSound'
<1>1. call[t] \in Calls /\ CallShape(call[t])
  BY DEF CallsSound
<1>2. CASE call[t].post
  <2> DEFINE y == [call[t] EXCEPT !.pc = "post", !.res = res]
  <2>1. /\ y \in Calls /\ y.op = call[t].op /\ y.desc = call[t].desc
        /\ y.res = res /\ y.to = call[t].to /\ y.pc = "post"
    BY <1>1 DEF Calls
  <2>2. call' = [call EXCEPT ![t] = y]
    BY <1>2 DEF RealReply
  <2> HIDE DEF y
  <2>3. CallShape(y)
    BY <1>1, <2>1 DEF CallShape
  <2> QED  BY <2>1, <2>2, <2>3, CallStep
<1>3. CASE ~call[t].post
  <2> DEFINE tr == IF res = None THEN "ERROR" ELSE trust
             y == Answered(call[t], tr)
  <2>1. tr \in Trust
    BY DEF Trust
  <2>2. call' = [call EXCEPT ![t] = y]
    BY <1>3 DEF RealReply
  <2> HIDE DEF tr
  <2>3. y \in Calls /\ CallShape(y)
    BY <1>1, <2>1, AnsweredType
  <2> HIDE DEF y
  <2> QED  BY <2>2, <2>3, CallStep
<1> QED  BY <1>2, <1>3

-----------------------------------------------------------------------------
(* The real keystore *)

\* A key the real keystore finds for a caller exists.
LEMMA RealKeyExists ==
    ASSUME RealSound, NEW uid, NEW d, NEW permission
    PROVE  LET k == RealKey(uid, d, permission)
           IN  k # None => k \in Keys /\ keystore[k] \in Entries /\ keystore[k].ns \in RealIds
<1> DEFINE own == {k \in Keys : /\ UidOf(k) = uid
                                /\ keystore[k] # None
                                /\ k[2] = d.alias \/ keystore[k].ns = d.ns}
           granted == {k \in Keys : /\ d.ns \in RealIds
                                    /\ realGrants[d.ns] # None
                                    /\ realGrants[d.ns].grantee = uid
                                    /\ permission \in realGrants[d.ns].accessVector
                                    /\ realGrants[d.ns].key = k}
           k == RealKey(uid, d, permission)
<1>1. k = IF own \cup granted = {} THEN None ELSE CHOOSE j \in own \cup granted : TRUE
  BY DEF RealKey
<1>2. \A j \in own \cup granted : j \in Keys /\ keystore[j] # None
  BY DEF RealSound
<1> HIDE DEF own, granted, k
<1>3. k # None => k \in own \cup granted
  BY <1>1
<1>4. k # None => k \in Keys /\ keystore[k] \in Entries /\ keystore[k].ns \in RealIds
  BY <1>2, <1>3 DEF RealSound
<1> QED  BY <1>4 DEF k

\* Every reply of the real keystore is well formed.
LEMMA RealCalls ==
    ASSUME CallsSound, RealSound, NEW t \in Threads,
           \/ RealCreate(t) \/ RealDelete(t) \/ RealUpdate(t)
           \/ RealGrant(t) \/ RealUngrant(t) \/ RealGetKeyEntry(t)
    PROVE  CallsSound'
<1> USE DEF Trust
<1>f. ASSUME RealFails(t), call[t] # None, call[t].pc = "real" PROVE CallsSound'
  BY <1>f, ReplyStep DEF RealFails
<1>1. CASE RealCreate(t)
  <2>1. call[t] # None /\ call[t].pc = "real"
    BY <1>1 DEF RealCreate
  <2>2. ASSUME NEW n \in free \cap RealIds,
               RealReply(t, [ns |-> n, cert |-> IF call[t].kind = "symmetric" THEN None ELSE n], "REAL")
        PROVE  CallsSound'
    <3> DEFINE e == [ns |-> n, cert |-> IF call[t].kind = "symmetric" THEN None ELSE n]
    <3>1. e \in Entries /\ e.ns \in RealIds
      BY DEF Entries, Ids
    <3> HIDE DEF e
    <3>2. RealReply(t, e, "REAL")
      BY <2>2 DEF e
    <3> QED  BY <2>1, <3>1, <3>2, ReplyStep
  <2> QED  BY <1>1, <1>f, <2>1, <2>2 DEF RealCreate
<1>2. CASE RealDelete(t)
  BY <1>2, <1>f, RealKeyExists, ReplyStep DEF RealDelete, At
<1>3. CASE RealUpdate(t)
  <2> DEFINE k == RealKey(call[t].uid, call[t].desc, "UPDATE")
  <2>1. call[t] # None /\ call[t].pc = "real"
    BY <1>3 DEF RealUpdate, At
  <2>2. ASSUME k # None, NEW n \in free \cap RealIds, RealReply(t, [keystore[k] EXCEPT !.cert = n], "OK")
        PROVE  CallsSound'
    <3>1. k \in Keys /\ keystore[k] \in Entries /\ keystore[k].ns \in RealIds
      BY <2>2, RealKeyExists
    <3> DEFINE e == [keystore[k] EXCEPT !.cert = n]
    <3> HIDE DEF k
    <3>2. e \in Entries /\ e.ns \in RealIds
      BY <3>1 DEF Entries, Ids
    <3>3. RealReply(t, e, "OK")
      BY <2>2
    <3> HIDE DEF e
    <3> QED  BY <2>1, <3>2, <3>3, ReplyStep
  <2>3. RealFails(t) \/ (k # None /\ \E n \in free \cap RealIds : RealReply(t, [keystore[k] EXCEPT !.cert = n], "OK"))
    BY <1>3 DEF RealUpdate
  <2> QED  BY <1>f, <2>1, <2>2, <2>3
<1>4. CASE RealGrant(t)
  <2>1. call[t] # None /\ call[t].pc = "real"
    BY <1>4 DEF RealGrant, At
  <2>2. ASSUME NEW n \in RealIds, RealReply(t, [ns |-> n, cert |-> None], "OK")
        PROVE  CallsSound'
    <3> DEFINE e == [ns |-> n, cert |-> None]
    <3>1. e \in Entries /\ e.ns \in RealIds
      BY DEF Entries, Ids
    <3>2. RealReply(t, e, "OK")
      BY <2>2
    <3> HIDE DEF e
    <3> QED  BY <2>1, <3>1, <3>2, ReplyStep
  <2>3. RealFails(t) \/ \E n \in RealIds : RealReply(t, [ns |-> n, cert |-> None], "OK")
    BY <1>4 DEF RealGrant
  <2> QED  BY <1>f, <2>1, <2>2, <2>3
<1>5. CASE RealUngrant(t)
  BY <1>5, <1>f, RealKeyExists, ReplyStep DEF RealUngrant, At
<1>6. CASE RealGetKeyEntry(t)
  BY <1>6, RealKeyExists, ReplyStep DEF RealGetKeyEntry, At
<1> QED  BY <1>1, <1>2, <1>3, <1>4, <1>5, <1>6

-----------------------------------------------------------------------------
(* The calls after each hook *)

\* The pre hooks of generateKey and importKey.
LEMMA CreatePreCalls ==
    ASSUME CallsSound, ConfigSound, NEW t \in Threads, NEW uid \in Uids, NEW alias \in Aliases,
           \/ GenerateKeyReject(t, uid, alias)
           \/ \E kind \in Kinds : GenerateKeyPre(t, uid, alias, kind)
           \/ ImportKeyPre(t, uid, alias)
    PROVE  CallsSound'
<1>d. ByAlias(alias) \in Descriptors /\ ByAlias(alias).alias \in Aliases
  BY DescriptorType
<1>1. CASE GenerateKeyReject(t, uid, alias)
  <2> DEFINE x == NewCall("generateKey", uid, ByAlias(alias))
  <2>1. x \in Calls /\ x.op = "generateKey" /\ x.desc = ByAlias(alias) /\ x.res = None
    BY <1>1, <1>d, NewCallType DEF GenerateKeyReject, MayStart
  <2>2. Answer(t, x, "ERROR")
    BY <1>1 DEF GenerateKeyReject
  <2> HIDE DEF x
  <2>3. Ready(x)
    BY <1>d, <2>1 DEF Ready
  <2> QED  BY <2>2, <2>3, ReadyStep DEF Trust
<1>2. ASSUME NEW kind \in Kinds, GenerateKeyPre(t, uid, alias, kind)
      PROVE  CallsSound'
  <2> DEFINE x == [NewCall("generateKey", uid, ByAlias(alias)) EXCEPT !.kind = kind]
             y == [x EXCEPT !.pc = "synth", !.skip = NeedHack(uid)]
  <2>1. Ready(x)
    BY <1>2, <1>d, ReadyCalls DEF GenerateKeyPre, MayStart
  <2>2. Continue(t, x) \/ Skip(t, x) \/ call' = [call EXCEPT ![t] = y]
    BY <1>2 DEF GenerateKeyPre
  <2>3. NeedHack(uid) \in BOOLEAN
    BY DEF NeedHack
  <2> HIDE DEF x
  <2>4. /\ y \in Calls /\ y.op = x.op /\ y.desc = x.desc /\ y.to = x.to
        /\ y.res = None /\ y.pc = "synth"
    BY <2>1, <2>3 DEF Ready, Calls
  <2> HIDE DEF y
  <2>5. CallShape(y)
    BY <2>1, <2>4 DEF CallShape, Ready
  <2> QED  BY <2>1, <2>2, <2>4, <2>5, ReadyStep, CallStep
<1>3. CASE ImportKeyPre(t, uid, alias)
  <2> DEFINE x == NewCall("importKey", uid, ByAlias(alias))
  <2>1. Ready(x)
    BY <1>3, <1>d, ReadyCalls DEF ImportKeyPre, MayStart
  <2>2. Continue(t, x) \/ Skip(t, x)
    BY <1>3 DEF ImportKeyPre
  <2> HIDE DEF x
  <2> QED  BY <2>1, <2>2, ReadyStep
<1> QED  BY <1>1, <1>2, <1>3

\* The pre hooks of Keystore2Interceptor.
LEMMA ServicePreCalls ==
    ASSUME CallsSound, NEW t \in Threads, NEW uid \in Uids, NEW d \in Descriptors,
           \/ DeleteKeyPre(t, uid, d)
           \/ UpdateSubcomponentPre(t, uid, d)
           \/ GetKeyEntryGrantPre(t, uid, d)
           \/ GetKeyEntryPre(t, uid, d)
           \/ GetKeyEntryNoKeybox(t, uid, d)
           \/ \E to \in GrantArgs : GrantPre(t, uid, d, to)
           \/ \E grantee \in Uids : UngrantPre(t, uid, d, [grantee |-> grantee, accessVector |-> {}])
    PROVE  CallsSound'
<1> USE DEF Trust
<1>1. CASE DeleteKeyPre(t, uid, d)
  <2> DEFINE x == NewCall("deleteKey", uid, d)
  <2>1. Ready(x)
    BY <1>1, ReadyCalls DEF DeleteKeyPre, MayStart
  <2>2. Continue(t, x) \/ Answer(t, x, "OK")
    BY <1>1 DEF DeleteKeyPre
  <2> HIDE DEF x
  <2> QED  BY <2>1, <2>2, ReadyStep
<1>2. CASE UpdateSubcomponentPre(t, uid, d)
  <2> DEFINE x == NewCall("updateSubcomponent", uid, d)
  <2>1. Ready(x)
    BY <1>2, ReadyCalls DEF UpdateSubcomponentPre, MayStart
  <2>2. Continue(t, x) \/ Answer(t, x, "OK") \/ Answer(t, x, "ERROR")
    BY <1>2 DEF UpdateSubcomponentPre
  <2> HIDE DEF x
  <2> QED  BY <2>1, <2>2, ReadyStep
<1>3. CASE \/ GetKeyEntryGrantPre(t, uid, d)
           \/ GetKeyEntryPre(t, uid, d)
           \/ GetKeyEntryNoKeybox(t, uid, d)
  <2> DEFINE x == NewCall("getKeyEntry", uid, d)
  <2>1. Ready(x)
    BY <1>3, ReadyCalls DEF GetKeyEntryGrantPre, GetKeyEntryPre, GetKeyEntryNoKeybox, MayStart
  <2>2. \/ Continue(t, x) \/ Skip(t, x) \/ Answer(t, x, "ERROR")
        \/ Answer(t, x, "SYNTHETIC") \/ Answer(t, x, "HYBRID")
    BY <1>3 DEF GetKeyEntryGrantPre, GetKeyEntryPre, GetKeyEntryNoKeybox, ServeOwnerOrSkip,
                ServeLeafOrContinue
  <2> HIDE DEF x
  <2> QED  BY <2>1, <2>2, ReadyStep
<1>4. ASSUME NEW to \in GrantArgs, GrantPre(t, uid, d, to)
      PROVE  CallsSound'
  <2> DEFINE x == [NewCall("grant", uid, d) EXCEPT !.to = to]
  <2>0. to \in GrantRequests
    BY HooksAssumption DEF GrantArgs, GrantRequests
  <2>1. Ready(x)
    BY <1>4, <2>0, ReadyCalls DEF GrantPre, MayStart
  <2>2. Continue(t, x) \/ Skip(t, x) \/ Answer(t, x, "OK")
    BY <1>4 DEF GrantPre
  <2> HIDE DEF x
  <2> QED  BY <2>1, <2>2, ReadyStep
<1>5. ASSUME NEW grantee \in Uids, UngrantPre(t, uid, d, [grantee |-> grantee, accessVector |-> {}])
      PROVE  CallsSound'
  <2> DEFINE to == [grantee |-> grantee, accessVector |-> {}]
             x == [NewCall("ungrant", uid, d) EXCEPT !.to = to]
  <2>0. to \in GrantRequests
    BY DEF GrantRequests
  <2>a. UngrantPre(t, uid, d, to)
    BY <1>5
  <2> HIDE DEF to
  <2>1. Ready(x)
    BY <2>a, <2>0, ReadyCalls DEF UngrantPre, MayStart
  <2>2. Skip(t, x) \/ Answer(t, x, "OK")
    BY <2>a DEF UngrantPre
  <2> HIDE DEF x
  <2> QED  BY <2>1, <2>2, ReadyStep
<1> QED  BY <1>1, <1>2, <1>3, <1>4, <1>5

\* The post hooks and the steps after cryptography.
LEMMA PostCalls ==
    ASSUME CallsSound, CacheSound, NEW t \in Threads,
           \/ GenerateKeyStore(t) \/ GenerateKeyPost(t) \/ GenerateKeyResign(t)
           \/ ImportKeyPost(t) \/ DeleteKeyPost(t) \/ UpdateSubcomponentPost(t)
           \/ GrantPost(t) \/ GetKeyEntryPost(t) \/ GetKeyEntryResign(t)
           \/ Return(t)
    PROVE  CallsSound'
<1> USE DEF Trust
<1>0. call[t] # None /\ call[t] \in Calls /\ CallShape(call[t])
  BY DEF CallsSound, GenerateKeyStore, GenerateKeyPost, GenerateKeyResign, ImportKeyPost,
         DeleteKeyPost, UpdateSubcomponentPost, GrantPost, GetKeyEntryPost, GetKeyEntryResign,
         Return, At
<1>f. ASSUME NEW trust \in Trust, Finish(t, trust) PROVE CallsSound'
  BY <1>0, <1>f, FinishStep
<1>1. CASE GenerateKeyStore(t)
  <2> DEFINE y == [call[t] EXCEPT !.pc = "real"]
  <2>1. Finish(t, "SYNTHETIC") \/ call' = [call EXCEPT ![t] = y]
    BY <1>1 DEF GenerateKeyStore
  <2>2. call[t].pc = "synth"
    BY <1>1 DEF GenerateKeyStore, At
  <2>3. /\ y \in Calls /\ y.op = call[t].op /\ y.desc = call[t].desc /\ y.to = call[t].to
        /\ y.res = call[t].res /\ y.pc = "real"
    BY <1>0 DEF Calls
  <2> HIDE DEF y
  <2>4. CallShape(y)
    BY <1>0, <2>2, <2>3 DEF CallShape
  <2> QED  BY <1>f, <2>1, <2>3, <2>4, CallStep
<1>2. CASE GenerateKeyPost(t)
  <2> DEFINE k == KeyOf(t)
             y == [call[t] EXCEPT !.pc = "resign", !.store = k]
  <2>1. \/ Finish(t, "ERROR") \/ Finish(t, "REAL")
        \/ call[t].res # None /\ call' = [call EXCEPT ![t] = y]
    BY <1>2 DEF GenerateKeyPost
  <2>2. call[t].pc = "post" /\ call[t].op = "generateKey"
    BY <1>2 DEF GenerateKeyPost, At
  <2>3. k \in Keys
    BY <1>0, <2>2 DEF KeyOf, Keys, Calls, CallShape
  <2> HIDE DEF k
  <2>4. /\ y \in Calls /\ y.op = call[t].op /\ y.desc = call[t].desc /\ y.to = call[t].to
        /\ y.res = call[t].res /\ y.pc = "resign" /\ y.store = k
    BY <1>0, <2>3 DEF Calls
  <2> HIDE DEF y
  <2>5. call[t].res # None => CallShape(y)
    BY <1>0, <2>2, <2>3, <2>4 DEF CallShape
  <2> QED  BY <1>f, <2>1, <2>4, <2>5, CallStep
<1>3. CASE \/ GenerateKeyResign(t) \/ ImportKeyPost(t) \/ DeleteKeyPost(t)
           \/ UpdateSubcomponentPost(t) \/ GrantPost(t) \/ GetKeyEntryResign(t)
  <2>1. \E trust \in Trust : Finish(t, trust)
    BY <1>3 DEF GenerateKeyResign, ImportKeyPost, DeleteKeyPost, UpdateSubcomponentPost,
                GrantPost, GetKeyEntryResign
  <2> QED  BY <1>f, <2>1
<1>4. CASE GetKeyEntryPost(t)
  <2> DEFINE k == cache.keysByNspace[call[t].res.ns]
             y == [call[t] EXCEPT !.pc = "resign", !.store = k]
  <2>1. \/ \E trust \in Trust : Finish(t, trust)
        \/ call[t].res # None /\ call' = [call EXCEPT ![t] = y]
    BY <1>4 DEF GetKeyEntryPost
  <2>2. call[t].pc = "post" /\ call[t].op = "getKeyEntry"
    BY <1>4 DEF GetKeyEntryPost, At
  <2>3. call[t].res # None => k \in Keys \cup {None}
    BY <1>0, <2>2 DEF CallShape, CacheSound, Sound, Caches, Ids
  <2> HIDE DEF k
  <2>4. call[t].res # None =>
          /\ y \in Calls /\ y.op = call[t].op /\ y.desc = call[t].desc /\ y.to = call[t].to
          /\ y.res = call[t].res /\ y.pc = "resign" /\ y.store = k
    BY <1>0, <2>3 DEF Calls
  <2> HIDE DEF y
  <2>5. call[t].res # None => CallShape(y)
    BY <1>0, <2>2, <2>3, <2>4 DEF CallShape
  <2> QED  BY <1>f, <2>1, <2>4, <2>5, CallStep
<1>5. CASE Return(t)
  BY <1>5, CallStep DEF Return
<1> QED  BY <1>1, <1>2, <1>3, <1>4, <1>5

\* A new target.txt only clears the auto mark of calls in flight.
LEMMA TargetCalls ==
    ASSUME CallsSound, NEW uid \in Uids, NEW m, UpdateTargetPackages(uid, m)
    PROVE  CallsSound'
<1>0. call' = [s \in Threads |->
                  IF call[s] # None /\ call[s].uid = uid /\ m # {"AUTO"}
                  THEN [call[s] EXCEPT !.auto = FALSE] ELSE call[s]]
  BY DEF UpdateTargetPackages
<1> SUFFICES ASSUME NEW t \in Threads
             PROVE  /\ call'[t] \in Calls \cup {None}
                    /\ call'[t] # None => CallShape(call'[t])
  BY <1>0 DEF CallsSound, CallShape
<1> DEFINE y == [call[t] EXCEPT !.auto = FALSE]
<1>1. call'[t] = call[t] \/ (call[t] # None /\ call'[t] = y)
  BY <1>0
<1>2. call[t] # None =>
        /\ y \in Calls /\ y.op = call[t].op /\ y.desc = call[t].desc /\ y.to = call[t].to
        /\ y.res = call[t].res /\ y.pc = call[t].pc /\ y.store = call[t].store
  BY DEF CallsSound, Calls
<1> HIDE DEF y
<1>3. call[t] # None => CallShape(y)
  BY <1>2 DEF CallsSound, CallShape
<1> QED  BY <1>1, <1>2, <1>3 DEF CallsSound

-----------------------------------------------------------------------------
(* The real keystore, the numbers and the configuration after each step *)

\* Revoking the grants of a key, and changing the key, leaves the others.
LEMMA RevokeSound ==
    ASSUME RealSound, NEW k \in Keys, NEW e \in Entries \cup {None}, e # None => e.ns \in RealIds,
           keystore' = [keystore EXCEPT ![k] = e], realGrants' = RevokeGrants(k),
           free' \subseteq free, truth' \in [Keys -> Entries \cup {None}]
    PROVE  RealSound'
<1>1. /\ realGrants' \in [RealIds -> Grants \cup {None}]
      /\ \A n \in RealIds : realGrants'[n] # None => realGrants'[n] = realGrants[n] /\ realGrants[n].key # k
  BY DEF RealSound, RevokeGrants
<1>2. \A n \in RealIds : realGrants'[n] # None => realGrants'[n].key \in Keys
  BY <1>1 DEF Grants
<1>3. \A n \in RealIds : realGrants'[n] # None => keystore'[realGrants'[n].key] # None
  BY <1>1, <1>2 DEF RealSound
<1>4. /\ keystore' \in [Keys -> Entries \cup {None}]
      /\ \A j \in Keys : keystore'[j] # None => keystore'[j].ns \in RealIds
      /\ free' \subseteq Ids
  BY DEF RealSound
<1> QED  BY <1>1, <1>3, <1>4 DEF RealSound

\* What the real keystore does keeps its own state sound.
LEMMA RealKept ==
    ASSUME CallsSound, RealSound, NEW t \in Threads,
           \/ RealCreate(t) \/ RealDelete(t) \/ RealUpdate(t)
           \/ RealGrant(t) \/ RealUngrant(t) \/ RealGetKeyEntry(t)
    PROVE  RealSound' /\ free' \subseteq free /\ free \cap ForgedIds \subseteq free'
<1>f. ASSUME UNCHANGED realVars
      PROVE  RealSound' /\ free' \subseteq free /\ free \cap ForgedIds \subseteq free'
  BY <1>f DEF realVars, RealSound
<1>0. call[t] # None => call[t] \in Calls /\ CallShape(call[t])
  BY DEF CallsSound
<1>1. CASE RealCreate(t)
  <2>1. KeyOf(t) \in Keys
    BY <1>0, <1>1 DEF RealCreate, KeyOf, Keys, Calls, CallShape
  <2>2. ASSUME NEW n \in free \cap RealIds,
               keystore' = [keystore EXCEPT ![KeyOf(t)] = [ns |-> n, cert |-> IF call[t].kind = "symmetric" THEN None ELSE n]],
               truth' = [truth EXCEPT ![KeyOf(t)] = [ns |-> n, cert |-> IF call[t].kind = "symmetric" THEN None ELSE n]],
               realGrants' = RevokeGrants(KeyOf(t)),
               free' = free \ {n}
        PROVE  RealSound' /\ free' \subseteq free /\ free \cap ForgedIds \subseteq free'
    <3> DEFINE e == [ns |-> n, cert |-> IF call[t].kind = "symmetric" THEN None ELSE n]
    <3>1. e \in Entries /\ e.ns \in RealIds
      BY DEF Entries, Ids
    <3>2. keystore' = [keystore EXCEPT ![KeyOf(t)] = e] /\ truth' = [truth EXCEPT ![KeyOf(t)] = e]
      BY <2>2
    <3> HIDE DEF e
    <3>3. truth' \in [Keys -> Entries \cup {None}]
      BY <2>1, <3>1, <3>2 DEF RealSound
    <3>4. RealSound'
      BY <2>1, <2>2, <3>1, <3>2, <3>3, RevokeSound
    <3> QED  BY <2>2, <3>4, CacheAssumption
  <2> QED  BY <1>1, <1>f, <2>2 DEF RealCreate, RealFails
<1>2. CASE RealDelete(t)
  <2> DEFINE k == RealKey(call[t].uid, call[t].desc, "DELETE")
  <2>1. \/ UNCHANGED realVars
        \/ /\ k # None
           /\ keystore' = [keystore EXCEPT ![k] = None]
           /\ truth' = [truth EXCEPT ![k] = IF @ = keystore[k] THEN None ELSE @]
           /\ realGrants' = RevokeGrants(k)
           /\ free' = free
    BY <1>2 DEF RealDelete, RealFails
  <2>2. k # None => k \in Keys
    BY RealKeyExists
  <2> HIDE DEF k
  <2>3. k # None /\ truth' = [truth EXCEPT ![k] = IF @ = keystore[k] THEN None ELSE @]
            => truth' \in [Keys -> Entries \cup {None}]
    BY <2>2 DEF RealSound
  <2> QED  BY <1>f, <2>1, <2>2, <2>3, RevokeSound
<1>3. CASE RealUpdate(t)
  <2> DEFINE k == RealKey(call[t].uid, call[t].desc, "UPDATE")
  <2>1. \/ UNCHANGED realVars
        \/ /\ k # None
           /\ \E n \in free \cap RealIds :
                /\ keystore' = [keystore EXCEPT ![k] = [keystore[k] EXCEPT !.cert = n]]
                /\ truth' = [truth EXCEPT ![k] = IF @ = keystore[k] THEN [keystore[k] EXCEPT !.cert = n] ELSE @]
                /\ free' = free \ {n}
           /\ realGrants' = realGrants
    BY <1>3 DEF RealUpdate, RealFails
  <2>2. k # None => k \in Keys /\ keystore[k] \in Entries /\ keystore[k].ns \in RealIds
    BY RealKeyExists
  <2> HIDE DEF k
  <2>3. ASSUME k # None, realGrants' = realGrants, NEW n \in free \cap RealIds,
               keystore' = [keystore EXCEPT ![k] = [keystore[k] EXCEPT !.cert = n]],
               truth' = [truth EXCEPT ![k] = IF @ = keystore[k] THEN [keystore[k] EXCEPT !.cert = n] ELSE @],
               free' = free \ {n}
        PROVE  RealSound' /\ free' \subseteq free /\ free \cap ForgedIds \subseteq free'
    <3> DEFINE e == [keystore[k] EXCEPT !.cert = n]
    <3>1. e \in Entries /\ e.ns \in RealIds /\ e # None
      BY <2>2, <2>3, CacheAssumption DEF Entries, Ids
    <3>2. /\ keystore' = [keystore EXCEPT ![k] = e]
          /\ truth' = [truth EXCEPT ![k] = IF truth[k] = keystore[k] THEN e ELSE truth[k]]
      BY <2>2, <2>3 DEF RealSound
    <3> HIDE DEF e
    <3>3. /\ keystore' \in [Keys -> Entries \cup {None}]
          /\ truth' \in [Keys -> Entries \cup {None}]
          /\ \A j \in Keys : keystore'[j] # None => keystore'[j].ns \in RealIds
          /\ \A j \in Keys : keystore[j] # None => keystore'[j] # None
      BY <2>2, <2>3, <3>1, <3>2 DEF RealSound
    <3>4. \A i \in RealIds : realGrants[i] # None => keystore'[realGrants[i].key] # None
      BY <3>3 DEF RealSound, Grants
    <3> QED  BY <2>3, <3>3, <3>4, CacheAssumption DEF RealSound
  <2> QED  BY <1>f, <2>1, <2>3
<1>4. CASE RealGrant(t)
  <2> DEFINE k == RealKey(call[t].uid, call[t].desc, "GRANT")
             to == call[t].to
             g == [grantee |-> to.grantee, key |-> k, accessVector |-> to.accessVector]
  <2>1. \/ UNCHANGED realVars
        \/ /\ k # None
           /\ \E n \in RealIds : realGrants' = [realGrants EXCEPT ![n] = g] /\ free' = free \ {n}
           /\ keystore' = keystore /\ truth' = truth
    BY <1>4 DEF RealGrant, RealFails
  <2>2. k # None => k \in Keys /\ keystore[k] # None
    BY RealKeyExists, CacheAssumption
  <2>3. to \in GrantRequests
    BY <1>0, <1>4 DEF RealGrant, At, Calls, CallShape
  <2> HIDE DEF k, to
  <2>4. k # None => g \in Grants /\ g.key = k
    BY <2>2, <2>3 DEF Grants, GrantRequests
  <2> HIDE DEF g
  <2>5. ASSUME k # None, keystore' = keystore, truth' = truth, NEW n \in RealIds,
               realGrants' = [realGrants EXCEPT ![n] = g], free' = free \ {n}
        PROVE  RealSound' /\ free' \subseteq free /\ free \cap ForgedIds \subseteq free'
    BY <2>2, <2>4, <2>5, CacheAssumption DEF RealSound
  <2> QED  BY <1>f, <2>1, <2>5
<1>5. CASE RealUngrant(t)
  <2>1. \/ UNCHANGED realVars
        \/ /\ \E k \in Keys :
                realGrants' = [n \in RealIds |->
                     IF /\ realGrants[n] # None
                        /\ realGrants[n].key = k
                        /\ realGrants[n].grantee = call[t].to.grantee
                     THEN None ELSE realGrants[n]]
           /\ keystore' = keystore /\ truth' = truth /\ free' = free
    BY <1>5, RealKeyExists DEF RealUngrant, RealFails
  <2> QED  BY <1>f, <2>1 DEF RealSound
<1>6. CASE RealGetKeyEntry(t)
  BY <1>6, <1>f DEF RealGetKeyEntry
<1> QED  BY <1>1, <1>2, <1>3, <1>4, <1>5, <1>6

\* Drawing numbers keeps a cache sound.
LEMMA SoundMonotone ==
    ASSUME NEW c, NEW F, NEW G, Sound(c, F), F \subseteq G
    PROVE  Sound(c, G)
BY DEF Sound

\* What a step that leaves the real keystore alone has to show.
LEMMA HookStep ==
    ASSUME RealSound, Sound(cache', Used), UNCHANGED realVars
    PROVE  CacheSound' /\ RealSound'
BY DEF CacheSound, RealSound, realVars, Used

\* The configuration after a hook that loads the caller's packages.
LEMMA LoadStep ==
    ASSUME ConfigSound, NEW uid \in Uids, uidPackages' \in {uidPackages, Load(uid)},
           pendingPassthrough' \subseteq Keys, UNCHANGED configVars
    PROVE  ConfigSound'
BY DEF ConfigSound, Load, configVars

\* The pre hooks of generateKey and importKey.
LEMMA CreatePreKept ==
    ASSUME CacheSound, RealSound, ConfigSound,
           NEW t \in Threads, NEW uid \in Uids, NEW alias \in Aliases,
           \/ GenerateKeyReject(t, uid, alias)
           \/ \E kind \in Kinds : GenerateKeyPre(t, uid, alias, kind)
           \/ ImportKeyPre(t, uid, alias)
    PROVE  CacheSound' /\ RealSound' /\ ConfigSound'
<1> DEFINE k == <<uid, alias>>
<1>k. k \in Keys
  BY DEF Keys
<1>1. /\ UNCHANGED <<configVars, realVars>>
      /\ uidPackages' \in {uidPackages, Load(uid)}
      /\ pendingPassthrough' \in {pendingPassthrough, pendingPassthrough \cup {k}}
      /\ cache' \in {cache, ClearSyntheticCertificateState(cache, k),
                     [cache EXCEPT !.skipLeafHacks = @ \ {k}]}
  BY DEF GenerateKeyReject, GenerateKeyPre, ImportKeyPre
<1> HIDE DEF k
<1>2. pendingPassthrough' \subseteq Keys
  BY <1>1, <1>k DEF ConfigSound
<1>3. Sound(cache', Used)
  BY <1>1, <1>k, ClearSound, SkipSound DEF CacheSound
<1> QED  BY <1>1, <1>2, <1>3, HookStep, LoadStep

\* storeGeneratedKey, with a number that was free.
LEMMA StoreSound ==
    ASSUME CacheSound, NEW k \in Keys, NEW n \in free \cap ForgedIds, NEW skip \in BOOLEAN
    PROVE  Sound(StoreGeneratedKey(cache, k, n, skip), Used \cup {n})
<1> DEFINE c == CleanupKey(cache, k)
           S == IF skip THEN {k} ELSE {}
<1>1. ClearSyntheticCertificateState(RelinquishPassthroughOwnership(cache, k), k) = c
  BY ClearRelinquishCommute DEF CacheSound, Sound
<1>2. Sound(c, Used) /\ k \notin c.tracked
  BY CleanupSound DEF CacheSound
<1>3. StoreGeneratedKey(cache, k, n, skip) =
        [c EXCEPT !.keysByNspace = [@ EXCEPT ![n] = k],
                  !.keys = [@ EXCEPT ![k] = [ns |-> n, cert |-> n]],
                  !.skipLeafHacks = IF skip THEN @ \cup {k} ELSE @]
  BY <1>1 DEF StoreGeneratedKey
<1> HIDE DEF c
<1>4. (IF skip THEN c.skipLeafHacks \cup {k} ELSE c.skipLeafHacks) = c.skipLeafHacks \cup S
  OBVIOUS
<1>5. StoreGeneratedKey(cache, k, n, skip) =
        [c EXCEPT !.keysByNspace = [@ EXCEPT ![n] = k],
                  !.keys = [@ EXCEPT ![k] = [ns |-> n, cert |-> n]],
                  !.skipLeafHacks = @ \cup S]
  BY <1>3, <1>4
<1>6. S \in SUBSET {k} /\ n \in Ids \ Used
  BY DEF Used, Ids
<1> HIDE DEF S
<1>7. Sound([c EXCEPT !.keysByNspace = [@ EXCEPT ![n] = k],
                     !.keys = [@ EXCEPT ![k] = [ns |-> n, cert |-> n]],
                     !.skipLeafHacks = @ \cup S], Used \cup {n})
  BY <1>2, <1>6, GeneratedSound
<1> QED  BY <1>5, <1>7

\* The synthetic key is stored, or the call goes on to the real keystore.
LEMMA StoreKept ==
    ASSUME CacheSound, CallsSound, RealSound, ConfigSound, NEW t \in Threads, GenerateKeyStore(t)
    PROVE  CacheSound' /\ RealSound' /\ ConfigSound'
<1>0. /\ call[t] \in Calls /\ CallShape(call[t])
      /\ call[t].op = "generateKey" /\ call[t].pc = "synth"
  BY DEF CallsSound, GenerateKeyStore, At
<1>k. KeyOf(t) \in Keys /\ call[t].skip \in BOOLEAN
  BY <1>0 DEF KeyOf, Keys, Calls, CallShape
<1>1. ConfigSound'
  BY DEF GenerateKeyStore, ConfigSound, configVars
<1>2. ASSUME NEW n \in free \cap ForgedIds,
             cache' = StoreGeneratedKey(cache, KeyOf(t), n, call[t].skip),
             truth' = [truth EXCEPT ![KeyOf(t)] = [ns |-> n, cert |-> n]],
             free' = free \ {n},
             UNCHANGED <<keystore, realGrants>>
      PROVE  CacheSound' /\ RealSound'
  <2>1. Sound(cache', Used \cup {n})
    BY <1>2, <1>k, StoreSound
  <2>2. Used' = Used \cup {n}
    BY <1>2 DEF Used
  <2>3. [ns |-> n, cert |-> n] \in Entries
    BY DEF Entries, Ids
  <2>4. RealSound'
    BY <1>2, <1>k, <2>3 DEF RealSound
  <2> QED  BY <2>1, <2>2, <2>4 DEF CacheSound
<1>3. CASE UNCHANGED <<cache, realVars>>
  BY <1>1, <1>3, HookStep DEF CacheSound
<1> QED  BY <1>1, <1>2, <1>3 DEF GenerateKeyStore

\* The other steps of generateKey and importKey.
LEMMA CreatePostKept ==
    ASSUME CacheSound, CallsSound, RealSound, ConfigSound, NEW t \in Threads,
           GenerateKeyPost(t) \/ GenerateKeyResign(t) \/ ImportKeyPost(t)
    PROVE  CacheSound' /\ RealSound' /\ ConfigSound'
<1> DEFINE k == KeyOf(t)
<1>0. /\ call[t] \in Calls /\ CallShape(call[t])
      /\ call[t].op \in {"generateKey", "importKey"} /\ call[t].pc # "done"
  BY DEF CallsSound, GenerateKeyPost, GenerateKeyResign, ImportKeyPost, At
<1>k. k \in Keys
  BY <1>0 DEF KeyOf, Keys, Calls, CallShape
<1>r. call[t].res # None => call[t].res \in Entries /\ call[t].res.ns \in Ids \ Used
  BY <1>0, CacheAssumption DEF Calls, CallShape, Ids, Used
<1>1. ConfigSound' /\ UNCHANGED realVars
  BY DEF GenerateKeyPost, GenerateKeyResign, ImportKeyPost, ConfigSound, configVars
<1>2. CASE GenerateKeyPost(t)
  <2>1. \/ cache' = cache
        \/ call[t].res # None /\ cache' = Promote(ClearSyntheticCertificateState(cache, k), k, call[t].res.ns)
        \/ cache' = ClearSyntheticCertificateState(RelinquishPassthroughOwnership(cache, k), k)
    BY <1>2 DEF GenerateKeyPost
  <2> HIDE DEF k
  <2>2. ClearSyntheticCertificateState(RelinquishPassthroughOwnership(cache, k), k) = CleanupKey(cache, k)
    BY <1>k, ClearRelinquishCommute DEF CacheSound, Sound
  <2>3. Sound(CleanupKey(cache, k), Used)
    BY <1>k, CleanupSound DEF CacheSound
  <2>4. call[t].res # None => Sound(Promote(ClearSyntheticCertificateState(cache, k), k, call[t].res.ns), Used)
    BY <1>k, <1>r, ClearSound, PromoteSound DEF CacheSound
  <2>5. Sound(cache', Used)
    BY <2>1, <2>2, <2>3, <2>4 DEF CacheSound
  <2> QED  BY <1>1, <2>5, HookStep
<1>3. CASE GenerateKeyResign(t)
  <2> DEFINE j == call[t].store
             e == call[t].res
             c == [cache EXCEPT !.patchedResponses = [@ EXCEPT ![j] = e]]
  <2>1. cache' = cache \/ cache' = PatchGenerated(cache, j, e)
    BY <1>3 DEF GenerateKeyResign
  <2>2. j \in Keys /\ e # None /\ e \in Entries /\ e.ns \in Ids \ Used
    BY <1>0, <1>3, <1>r DEF GenerateKeyResign, At, CallShape
  <2> HIDE DEF j, e
  <2>3. Sound(c, Used)
    BY <2>2, PatchOnlySound DEF CacheSound
  <2>4. j \in Patched(c)
    BY <2>2 DEF CacheSound, Sound, Caches, Patched
  <2>5. PatchGenerated(cache, j, e) = [c EXCEPT !.keysByNspace = [@ EXCEPT ![e.ns] = j]]
    BY <2>2 DEF PatchGenerated, CacheSound, Sound, Caches
  <2> HIDE DEF c
  <2>6. Sound(cache', Used)
    BY <2>1, <2>2, <2>3, <2>4, <2>5, IndexSound DEF CacheSound
  <2> QED  BY <1>1, <2>6, HookStep
<1>4. CASE ImportKeyPost(t)
  <2>1. cache' \in {cache, CleanupKey(cache, k)}
    BY <1>4 DEF ImportKeyPost
  <2> HIDE DEF k
  <2>2. Sound(cache', Used)
    BY <1>k, <2>1, CleanupSound DEF CacheSound
  <2> QED  BY <1>1, <2>2, HookStep
<1> QED  BY <1>2, <1>3, <1>4

\* deleteKey
LEMMA DeleteKept ==
    ASSUME CacheSound, CallsSound, RealSound, ConfigSound, NEW t \in Threads,
           \/ DeleteKeyPost(t)
           \/ \E uid \in Uids, d \in Descriptors : DeleteKeyPre(t, uid, d)
    PROVE  CacheSound' /\ RealSound' /\ ConfigSound'
<1>1. CASE DeleteKeyPost(t)
  <2>0. call[t] \in Calls
    BY <1>1 DEF CallsSound, DeleteKeyPost, At
  <2>1. UNCHANGED realVars /\ ConfigSound'
    BY <1>1 DEF DeleteKeyPost, ConfigSound, configVars
  <2>2. \/ cache' = cache
        \/ call[t].desc.alias # None /\ cache' = CleanupKey(cache, KeyOf(t))
    BY <1>1 DEF DeleteKeyPost
  <2>3. call[t].desc.alias # None => KeyOf(t) \in Keys
    BY <2>0 DEF KeyOf, Keys, Calls, Descriptors
  <2>4. Sound(cache', Used)
    BY <2>2, <2>3, CleanupSound DEF CacheSound
  <2> QED  BY <2>1, <2>4, HookStep
<1>2. ASSUME NEW uid \in Uids, NEW d \in Descriptors, DeleteKeyPre(t, uid, d)
      PROVE  CacheSound' /\ RealSound' /\ ConfigSound'
  <2> DEFINE k == <<uid, d.alias>>
  <2>1. d.alias # None => k \in Keys
    BY DEF Keys, Descriptors
  <2>2. UNCHANGED <<keystore, realGrants, free>> /\ ConfigSound'
    BY <1>2 DEF DeleteKeyPre, ConfigSound, configVars
  <2>3. \/ UNCHANGED <<cache, truth>>
        \/ /\ d.alias # None
           /\ cache' = CleanupKey(cache, k)
           /\ truth' = [truth EXCEPT ![k] = IF k \in Generated(cache) THEN None ELSE @]
    BY <1>2 DEF DeleteKeyPre
  <2> HIDE DEF k
  <2>4. Sound(cache', Used)
    BY <2>1, <2>3, CleanupSound DEF CacheSound
  <2>5. truth' \in [Keys -> Entries \cup {None}]
    BY <2>1, <2>3 DEF RealSound
  <2> QED  BY <2>2, <2>4, <2>5 DEF CacheSound, RealSound, Used
<1> QED  BY <1>1, <1>2

\* updateSubcomponent
LEMMA UpdateKept ==
    ASSUME CacheSound, CallsSound, RealSound, ConfigSound, NEW t \in Threads,
           \/ UpdateSubcomponentPost(t)
           \/ \E uid \in Uids, d \in Descriptors : UpdateSubcomponentPre(t, uid, d)
    PROVE  CacheSound' /\ RealSound' /\ ConfigSound'
<1>c. cache \in Caches
  BY DEF CacheSound, Sound
<1>1. CASE UpdateSubcomponentPost(t)
  <2> DEFINE k == IF call[t].desc.alias # None THEN KeyOf(t)
                  ELSE NspaceKey(cache, call[t].uid, call[t].desc.ns)
  <2>0. call[t] \in Calls /\ call[t].desc \in Descriptors /\ call[t].uid \in Uids
    BY <1>1 DEF CallsSound, UpdateSubcomponentPost, At, Calls
  <2>1. UNCHANGED realVars /\ ConfigSound'
    BY <1>1 DEF UpdateSubcomponentPost, ConfigSound, configVars
  <2>2. \/ cache' = cache
        \/ k # None /\ cache' = InvalidateCertificateResponseState(cache, k, TRUE)
    BY <1>1 DEF UpdateSubcomponentPost
  <2>3. k \in Keys \cup {None}
    BY <1>c, <2>0, ResolvedType DEF KeyOf, Keys, Descriptors
  <2> HIDE DEF k
  <2>4. Sound(cache', Used)
    BY <2>2, <2>3, CleanupSound DEF CacheSound, InvalidateCertificateResponseState
  <2> QED  BY <2>1, <2>4, HookStep
<1>2. ASSUME NEW uid \in Uids, NEW d \in Descriptors, UpdateSubcomponentPre(t, uid, d)
      PROVE  CacheSound' /\ RealSound' /\ ConfigSound'
  <2> DEFINE own == ResolveKey(cache, uid, d)
             grant == IF own = None THEN GrantOf(cache, uid, d.ns) ELSE None
             key == IF grant # None /\ IsPatchedKey(cache, grant.key) THEN grant.key ELSE own
  <2>1. key \in Keys \cup {None}
    BY <1>c, ResolvedType DEF IsPatchedKey, Generated, Patched
  <2>2. UNCHANGED <<keystore, realGrants>> /\ ConfigSound'
    BY <1>2 DEF UpdateSubcomponentPre, ConfigSound, configVars
  <2>3. \/ UNCHANGED <<cache, truth, free>>
        \/ /\ key \in Generated(cache)
           /\ \E n \in free \cap ForgedIds :
                /\ cache' = UpdateKeyCertChain(cache, key, n)
                /\ truth' = [truth EXCEPT ![key] =
                                IF @ = cache.keys[key] THEN [@ EXCEPT !.cert = n] ELSE @]
                /\ free' = free \ {n}
        \/ /\ key # None
           /\ cache' = InvalidateCertificateResponseState(cache, <<uid, key[2]>>, FALSE)
           /\ UNCHANGED <<truth, free>>
    BY <1>2 DEF UpdateSubcomponentPre
  <2> HIDE DEF key
  <2>4. CASE UNCHANGED <<cache, truth, free>>
    BY <2>2, <2>4 DEF CacheSound, RealSound, Used
  <2>5. ASSUME key \in Generated(cache), NEW n \in free \cap ForgedIds,
               cache' = UpdateKeyCertChain(cache, key, n),
               truth' = [truth EXCEPT ![key] =
                            IF @ = cache.keys[key] THEN [@ EXCEPT !.cert = n] ELSE @],
               free' = free \ {n}
        PROVE  CacheSound' /\ RealSound'
    <3>1. n \in Ids
      BY DEF Ids
    <3>2. Sound(cache', Used)
      BY <2>5, <3>1, ChainSound DEF CacheSound
    <3>3. Used \subseteq Used' /\ free' \subseteq Ids
      BY <2>5 DEF Used, RealSound
    <3> DEFINE e == [truth[key] EXCEPT !.cert = n]
    <3>4. key \in Keys /\ cache.keys[key] \in Entries
      BY <1>c, <2>5 DEF Generated, Caches
    <3>5. truth[key] = cache.keys[key] => e \in Entries
      BY <3>1, <3>4 DEF Entries
    <3>6. truth' = [truth EXCEPT ![key] = IF truth[key] = cache.keys[key] THEN e ELSE truth[key]]
      BY <2>5, <3>4 DEF RealSound
    <3> HIDE DEF e
    <3>7. truth' \in [Keys -> Entries \cup {None}]
      BY <3>4, <3>5, <3>6 DEF RealSound
    <3>8. RealSound'
      BY <2>2, <3>3, <3>7 DEF RealSound
    <3> QED  BY <3>2, <3>3, <3>8, SoundMonotone DEF CacheSound
  <2>6. ASSUME key # None, cache' = InvalidateCertificateResponseState(cache, <<uid, key[2]>>, FALSE),
               UNCHANGED <<truth, free>>
        PROVE  CacheSound' /\ RealSound'
    <3>1. <<uid, key[2]>> \in Keys
      BY <2>1, <2>6 DEF Keys
    <3>2. Sound(cache', Used)
      BY <2>6, <3>1, ClearSound DEF CacheSound, InvalidateCertificateResponseState
    <3> QED  BY <2>2, <2>6, <3>2 DEF CacheSound, RealSound, Used
  <2> QED  BY <2>2, <2>3, <2>4, <2>5, <2>6
<1> QED  BY <1>1, <1>2

\* grant and ungrant
LEMMA GrantKept ==
    ASSUME CacheSound, CallsSound, RealSound, ConfigSound, NEW t \in Threads,
           \/ GrantPost(t)
           \/ \E uid \in Uids, d \in Descriptors :
                \/ \E to \in GrantArgs : GrantPre(t, uid, d, to)
                \/ \E grantee \in Uids :
                     UngrantPre(t, uid, d, [grantee |-> grantee, accessVector |-> {}])
    PROVE  CacheSound' /\ RealSound' /\ ConfigSound'
<1>c. cache \in Caches
  BY DEF CacheSound, Sound
<1>g. ASSUME NEW n \in Ids, NEW to \in GrantRequests, NEW k \in Keys, IsPatchedKey(cache, k)
      PROVE  Sound(WithGrant(cache, n, to, k), Used)
  <2> DEFINE g == [grantee |-> to.grantee, key |-> k, accessVector |-> to.accessVector]
             G == [cache.grants EXCEPT ![n] = g]
  <2>1. g \in Grants /\ g.key = k
    BY DEF Grants, GrantRequests
  <2>2. WithGrant(cache, n, to, k) = [cache EXCEPT !.grants = G]
    BY DEF WithGrant
  <2> HIDE DEF g
  <2>3. G \in [Ids -> Grants \cup {None}] /\ \A i \in Ids : G[i] # None => IsPatchedKey(cache, G[i].key)
    BY <1>c, <1>g, <2>1 DEF CacheSound, Sound, CacheInv, GrantsOwned, Caches
  <2> HIDE DEF G
  <2> QED  BY <2>2, <2>3, GrantsSound DEF CacheSound
<1>1. CASE GrantPost(t)
  <2> DEFINE k == ResolveKey(cache, call[t].uid, call[t].desc)
  <2>0. /\ call[t] \in Calls /\ CallShape(call[t]) /\ call[t].desc \in Descriptors
        /\ call[t].uid \in Uids /\ call[t].to \in GrantRequests
    BY <1>1 DEF CallsSound, GrantPost, At, Calls, CallShape
  <2>1. UNCHANGED realVars /\ ConfigSound'
    BY <1>1 DEF GrantPost, ConfigSound, configVars
  <2>2. \/ cache' = cache
        \/ /\ call[t].res # None /\ k # None /\ IsPatchedKey(cache, k)
           /\ cache' = WithGrant(cache, call[t].res.ns, call[t].to, k)
    BY <1>1 DEF GrantPost
  <2>3. k \in Keys \cup {None}
    BY <1>c, <2>0, ResolvedType
  <2>4. call[t].res # None => call[t].res.ns \in Ids
    BY <2>0 DEF CallShape, Ids
  <2> HIDE DEF k
  <2>5. Sound(cache', Used)
    BY <1>g, <2>0, <2>2, <2>3, <2>4 DEF CacheSound
  <2> QED  BY <2>1, <2>5, HookStep
<1>2. ASSUME NEW uid \in Uids, NEW d \in Descriptors, NEW to \in GrantArgs, GrantPre(t, uid, d, to)
      PROVE  CacheSound' /\ RealSound' /\ ConfigSound'
  <2> DEFINE k == ResolveKey(cache, uid, d)
  <2>1. to \in GrantRequests
    BY HooksAssumption DEF GrantArgs, GrantRequests
  <2>2. UNCHANGED <<keystore, realGrants, truth>> /\ ConfigSound'
    BY <1>2 DEF GrantPre, ConfigSound, configVars
  <2>3. \/ UNCHANGED <<cache, free>>
        \/ /\ k \in Generated(cache)
           /\ \E n \in Ids : cache' = WithGrant(cache, n, to, k) /\ free' = free \ {n}
    BY <1>2 DEF GrantPre, Ids
  <2> HIDE DEF k
  <2>4. ASSUME k \in Generated(cache), NEW n \in Ids, cache' = WithGrant(cache, n, to, k), free' = free \ {n}
        PROVE  CacheSound' /\ RealSound'
    <3>1. k \in Keys /\ IsPatchedKey(cache, k)
      BY <2>4 DEF IsPatchedKey, Generated
    <3>2. Sound(cache', Used)
      BY <1>g, <2>1, <2>4, <3>1
    <3>3. Used \subseteq Used' /\ free' \subseteq Ids
      BY <2>4 DEF Used, RealSound
    <3> QED  BY <2>2, <3>2, <3>3, SoundMonotone DEF CacheSound, RealSound
  <2>5. CASE UNCHANGED <<cache, free>>
    BY <2>2, <2>5 DEF CacheSound, RealSound, Used
  <2> QED  BY <2>2, <2>3, <2>4, <2>5
<1>3. ASSUME NEW uid \in Uids, NEW d \in Descriptors, NEW grantee \in Uids,
             UngrantPre(t, uid, d, [grantee |-> grantee, accessVector |-> {}])
      PROVE  CacheSound' /\ RealSound' /\ ConfigSound'
  <2> DEFINE k == ResolveKey(cache, uid, d)
  <2>1. UNCHANGED realVars /\ ConfigSound'
    BY <1>3 DEF UngrantPre, ConfigSound, configVars
  <2>2. cache' = cache \/ (k # None /\ cache' = [cache EXCEPT !.grants = WithoutGrantTo(cache, k, grantee)])
    BY <1>3 DEF UngrantPre
  <2>3. k \in Keys \cup {None}
    BY <1>c, ResolvedType
  <2> HIDE DEF k
  <2>4. Sound(cache', Used)
    BY <2>2, <2>3, UngrantSound DEF CacheSound
  <2> QED  BY <2>1, <2>4, HookStep
<1> QED  BY <1>1, <1>2, <1>3

\* getKeyEntry
LEMMA GetKeyEntryKept ==
    ASSUME CacheSound, CallsSound, RealSound, ConfigSound, NEW t \in Threads,
           \/ GetKeyEntryPost(t) \/ GetKeyEntryResign(t)
           \/ \E uid \in Uids, d \in Descriptors :
                \/ GetKeyEntryGrantPre(t, uid, d)
                \/ GetKeyEntryPre(t, uid, d)
                \/ GetKeyEntryNoKeybox(t, uid, d)
    PROVE  CacheSound' /\ RealSound' /\ ConfigSound'
<1>1. CASE GetKeyEntryPost(t)
  <2>1. call[t].uid \in Uids
    BY <1>1 DEF CallsSound, GetKeyEntryPost, At, Calls
  <2>2. /\ UNCHANGED <<cache, realVars, configVars, pendingPassthrough>>
        /\ uidPackages' \in {uidPackages, Load(call[t].uid)}
    BY <1>1 DEF GetKeyEntryPost
  <2>3. pendingPassthrough' \subseteq Keys /\ Sound(cache', Used)
    BY <2>2 DEF ConfigSound, CacheSound
  <2> QED  BY <2>1, <2>2, <2>3, HookStep, LoadStep
<1>2. CASE GetKeyEntryResign(t)
  <2> DEFINE k == call[t].store
             e == call[t].res
  <2>1. UNCHANGED realVars /\ ConfigSound'
    BY <1>2 DEF GetKeyEntryResign, ConfigSound, configVars
  <2>2. k \in Keys \cup {None} /\ e \in Entries
    BY <1>2 DEF GetKeyEntryResign, At, CallsSound, CallShape, Calls
  <2>3. \/ cache' = cache
        \/ k # None /\ cache' = [cache EXCEPT !.patchedResponses = [@ EXCEPT ![k] = e]]
    BY <1>2 DEF GetKeyEntryResign
  <2> HIDE DEF k, e
  <2>4. Sound(cache', Used)
    BY <2>2, <2>3, PatchOnlySound DEF CacheSound
  <2> QED  BY <2>1, <2>4, HookStep
<1>3. ASSUME NEW uid \in Uids, NEW d \in Descriptors,
             \/ GetKeyEntryGrantPre(t, uid, d)
             \/ GetKeyEntryPre(t, uid, d)
             \/ GetKeyEntryNoKeybox(t, uid, d)
      PROVE  CacheSound' /\ RealSound' /\ ConfigSound'
  <2>1. /\ UNCHANGED <<realVars, configVars, pendingPassthrough>>
        /\ uidPackages' \in {uidPackages, Load(uid)}
        /\ cache' \in {cache, RejectHistoricalOwners(cache, uid, d)}
    BY <1>3 DEF GetKeyEntryGrantPre, GetKeyEntryPre, GetKeyEntryNoKeybox
  <2>2. d.alias # None => <<uid, d.alias>> \in Keys
    BY DEF Keys, Descriptors
  <2>3. Sound(RejectHistoricalOwners(cache, uid, d), Used)
    BY <2>2, ClearSound DEF CacheSound, RejectHistoricalOwners
  <2>4. pendingPassthrough' \subseteq Keys /\ Sound(cache', Used)
    BY <2>1, <2>3 DEF ConfigSound, CacheSound
  <2> QED  BY <2>1, <2>4, HookStep, LoadStep
<1> QED  BY <1>1, <1>2, <1>3

\* target.txt, keybox.xml, the package manager, and the end of a call.
LEMMA ConfigKept ==
    ASSUME IInv,
           \/ \E t \in Threads : Return(t)
           \/ \E uid \in Uids : \E m \in ModeSets[uid] : UpdateTargetPackages(uid, m)
           \/ \E parsed \in BOOLEAN : UpdateKeyBox(parsed)
           \/ PmDies
           \/ PmReturns
    PROVE  IInv'
<1> USE DEF IInv
<1>1. ASSUME NEW t \in Threads, Return(t) PROVE IInv'
  <2>1. CallsSound'
    BY <1>1, PostCalls
  <2> QED  BY <1>1, <2>1 DEF Return, CacheSound, RealSound, ConfigSound, realVars, configVars, Used
<1>2. ASSUME NEW uid \in Uids, NEW m \in ModeSets[uid], UpdateTargetPackages(uid, m) PROVE IInv'
  <2>1. CallsSound'
    BY <1>2, TargetCalls
  <2>2. m \in SUBSET AllModes
    BY HooksAssumption
  <2>3. modes' \in [Uids -> SUBSET AllModes]
    BY <1>2, <2>2 DEF UpdateTargetPackages, ConfigSound
  <2> QED  BY <1>2, <2>1, <2>3 DEF UpdateTargetPackages, CacheSound, RealSound, ConfigSound, realVars, Used
<1>3. ASSUME NEW parsed \in BOOLEAN, UpdateKeyBox(parsed) PROVE IInv'
  <2>1. cache' = EmptyCache /\ UNCHANGED realVars /\ UNCHANGED call
    BY <1>3 DEF UpdateKeyBox, CleanupAll
  <2>2. CacheSound' /\ RealSound'
    BY <2>1, EmptySound, HookStep
  <2>3. ConfigSound'
    BY <1>3 DEF UpdateKeyBox, ConfigSound
  <2>4. CallsSound'
    BY <2>1 DEF CallsSound, CallShape
  <2> QED  BY <2>2, <2>3, <2>4
<1>4. ASSUME PmDies \/ PmReturns PROVE IInv'
  <2>1. UNCHANGED realVars /\ UNCHANGED call /\ UNCHANGED cache
    BY <1>4 DEF PmDies, PmReturns
  <2>2. ConfigSound'
    BY <1>4 DEF PmDies, PmReturns, ConfigSound
  <2> QED  BY <2>1, <2>2 DEF CacheSound, CallsSound, CallShape, RealSound, realVars, Used
<1> QED  BY <1>1, <1>2, <1>3, <1>4

-----------------------------------------------------------------------------
(* The theorems *)

\* IInv holds initially: nothing is cached and nothing is in flight.
LEMMA InitInv == Init => IInv
<1> SUFFICES ASSUME Init PROVE IInv
  OBVIOUS
<1>1. CacheSound
  BY EmptySound DEF Init, CacheSound
<1>2. CallsSound /\ RealSound
  BY DEF Init, CallsSound, RealSound
<1>3. ConfigSound
  BY HooksAssumption DEF Init, ConfigSound
<1> QED  BY <1>1, <1>2, <1>3 DEF IInv

\* Every step keeps IInv.
LEMMA NextInv == IInv /\ [Next]_vars => IInv'
<1> SUFFICES ASSUME IInv, [Next]_vars PROVE IInv'
  OBVIOUS
<1>0. CacheSound /\ CallsSound /\ RealSound /\ ConfigSound
  BY DEF IInv
<1>1. ASSUME NEW t \in Threads, NEW uid \in Uids, NEW alias \in Aliases,
             \/ GenerateKeyReject(t, uid, alias)
             \/ \E kind \in Kinds : GenerateKeyPre(t, uid, alias, kind)
             \/ ImportKeyPre(t, uid, alias)
      PROVE  IInv'
  BY <1>0, <1>1, CreatePreCalls, CreatePreKept DEF IInv
<1>2. ASSUME NEW t \in Threads, NEW uid \in Uids, NEW d \in CallDescriptors,
             \/ DeleteKeyPre(t, uid, d)
             \/ UpdateSubcomponentPre(t, uid, d)
             \/ GetKeyEntryGrantPre(t, uid, d)
             \/ GetKeyEntryPre(t, uid, d)
             \/ GetKeyEntryNoKeybox(t, uid, d)
             \/ \E to \in GrantArgs : GrantPre(t, uid, d, to)
             \/ \E grantee \in Uids :
                  UngrantPre(t, uid, d, [grantee |-> grantee, accessVector |-> {}])
      PROVE  IInv'
  <2>1. d \in Descriptors
    BY DescriptorType
  <2>2. CallsSound'
    BY <1>0, <1>2, <2>1, ServicePreCalls
  <2>3. CacheSound' /\ RealSound' /\ ConfigSound'
    BY <1>0, <1>2, <2>1, DeleteKept, UpdateKept, GrantKept, GetKeyEntryKept
  <2> QED  BY <2>2, <2>3 DEF IInv
<1>3. ASSUME NEW t \in Threads,
             \/ RealCreate(t) \/ RealDelete(t) \/ RealUpdate(t)
             \/ RealGrant(t) \/ RealUngrant(t) \/ RealGetKeyEntry(t)
      PROVE  IInv'
  <2>1. CallsSound' /\ RealSound' /\ free' \subseteq free
    BY <1>0, <1>3, RealCalls, RealKept
  <2>2. UNCHANGED <<cache, pendingPassthrough, uidPackages, configVars>>
    BY <1>3 DEF RealCreate, RealDelete, RealUpdate, RealGrant, RealUngrant, RealGetKeyEntry
  <2>3. ConfigSound'
    BY <1>0, <2>2 DEF ConfigSound, configVars
  <2>4. Used \subseteq Used'
    BY <2>1 DEF Used
  <2>5. CacheSound'
    BY <1>0, <2>2, <2>4, SoundMonotone DEF CacheSound
  <2> QED  BY <2>1, <2>3, <2>5 DEF IInv
<1>4. ASSUME NEW t \in Threads,
             \/ GenerateKeyStore(t) \/ GenerateKeyPost(t) \/ GenerateKeyResign(t)
             \/ ImportKeyPost(t) \/ DeleteKeyPost(t) \/ UpdateSubcomponentPost(t)
             \/ GrantPost(t) \/ GetKeyEntryPost(t) \/ GetKeyEntryResign(t)
      PROVE  IInv'
  BY <1>0, <1>4, PostCalls, StoreKept, CreatePostKept, DeleteKept, UpdateKept, GrantKept,
     GetKeyEntryKept DEF IInv
<1>5. ASSUME \/ \E t \in Threads : Return(t)
             \/ \E uid \in Uids : \E m \in ModeSets[uid] : UpdateTargetPackages(uid, m)
             \/ \E parsed \in BOOLEAN : UpdateKeyBox(parsed)
             \/ PmDies
             \/ PmReturns
      PROVE  IInv'
  BY <1>5, ConfigKept
<1>6. CASE UNCHANGED vars
  BY <1>0, <1>6 DEF IInv, vars, CacheSound, CallsSound, CallShape, RealSound, ConfigSound, Used
<1> QED  BY <1>1, <1>2, <1>3, <1>4, <1>5, <1>6 DEF Next

-----------------------------------------------------------------------------
(* Whose calls may change an owner *)

\* The keys of the other UIDs have the same owner in the two states of the maps.
Alike(c, d, uid) ==
    \A k \in Keys : UidOf(k) # uid =>
        /\ k \in Generated(c) <=> k \in Generated(d)
        /\ k \in c.tracked <=> k \in d.tracked

\* What OwnerIsolation asks of a step.
Isolated ==
    \A k \in Keys :
        \/ (k \in Generated(cache)) = (k \in Generated(cache'))
           /\ (k \in cache.tracked) = (k \in cache'.tracked)
        \/ cache' = EmptyCache
        \/ \E t \in Threads : /\ call'[t] # call[t]
                              /\ call'[t] # None
                              /\ call'[t].uid = UidOf(k)

\* Clearing and storing change the owner of one key.
LEMMA AlikeOps ==
    ASSUME NEW c \in Caches, NEW k \in Keys
    PROVE  /\ Alike(c, ClearSyntheticCertificateState(c, k), UidOf(k))
           /\ Alike(c, RelinquishPassthroughOwnership(c, k), UidOf(k))
           /\ RelinquishPassthroughOwnership(c, k) \in Caches
           /\ \A n \in Ids : Alike(c, Promote(c, k, n), UidOf(k))
<1>1. Alike(c, ClearSyntheticCertificateState(c, k), UidOf(k))
  <2> DEFINE d == ClearSyntheticCertificateState(c, k)
  <2>1. d.keys = [c.keys EXCEPT ![k] = None] /\ d.tracked = c.tracked
    BY ClearFields
  <2> HIDE DEF d
  <2>2. Alike(c, d, UidOf(k))
    BY <2>1 DEF Alike, Generated, Caches
  <2> QED  BY <2>2 DEF d
<1>2. /\ Alike(c, RelinquishPassthroughOwnership(c, k), UidOf(k))
      /\ RelinquishPassthroughOwnership(c, k) \in Caches
  <2> DEFINE d == RelinquishPassthroughOwnership(c, k)
  <2>1. d.keys = c.keys /\ d.tracked = c.tracked \ {k} /\ d \in Caches
    BY DEF RelinquishPassthroughOwnership, WithoutValue, Caches
  <2> HIDE DEF d
  <2>2. Alike(c, d, UidOf(k)) /\ d \in Caches
    BY <2>1 DEF Alike, Generated
  <2> QED  BY <2>2 DEF d
<1>3. ASSUME NEW n \in Ids PROVE Alike(c, Promote(c, k, n), UidOf(k))
  <2> DEFINE d == Promote(c, k, n)
  <2>1. d.keys = c.keys /\ d.tracked = c.tracked \cup {k}
    BY DEF Promote, Caches
  <2> HIDE DEF d
  <2>2. Alike(c, d, UidOf(k))
    BY <2>1 DEF Alike, Generated
  <2> QED  BY <2>2 DEF d
<1> QED  BY <1>1, <1>2, <1>3

\* Alike is transitive.
LEMMA AlikeTransitive ==
    ASSUME NEW c, NEW d, NEW e, NEW uid, Alike(c, d, uid), Alike(d, e, uid)
    PROVE  Alike(c, e, uid)
BY DEF Alike

\* The compositions the hooks make of these.
LEMMA AlikeHooks ==
    ASSUME NEW c \in Caches, NEW k \in Keys
    PROVE  /\ Alike(c, CleanupKey(c, k), UidOf(k))
           /\ Alike(c, ClearSyntheticCertificateState(RelinquishPassthroughOwnership(c, k), k), UidOf(k))
           /\ \A n \in Ids : Alike(c, Promote(ClearSyntheticCertificateState(c, k), k, n), UidOf(k))
           /\ \A n \in Ids, skip \in BOOLEAN : Alike(c, StoreGeneratedKey(c, k, n, skip), UidOf(k))
<1> DEFINE cleared == ClearSyntheticCertificateState(c, k)
           given == RelinquishPassthroughOwnership(c, k)
           both == ClearSyntheticCertificateState(given, k)
<1>1. cleared \in Caches /\ Alike(c, cleared, UidOf(k))
  BY ClearFields, AlikeOps
<1>2. given \in Caches /\ Alike(c, given, UidOf(k))
  BY AlikeOps
<1> HIDE DEF cleared, given
<1>3. both \in Caches /\ Alike(given, both, UidOf(k))
  BY <1>2, ClearFields, AlikeOps
<1>4. Alike(c, both, UidOf(k))
  BY <1>2, <1>3, AlikeTransitive
<1>5. Alike(c, CleanupKey(c, k), UidOf(k))
  <2>1. Alike(cleared, RelinquishPassthroughOwnership(cleared, k), UidOf(k))
    BY <1>1, AlikeOps
  <2>2. Alike(c, RelinquishPassthroughOwnership(cleared, k), UidOf(k))
    BY <2>1, <1>1, AlikeTransitive
  <2> QED  BY <2>2 DEF CleanupKey, cleared
<1>6. \A n \in Ids : Alike(c, Promote(cleared, k, n), UidOf(k))
  BY <1>1, AlikeOps, AlikeTransitive
<1> HIDE DEF both
<1>7. ASSUME NEW n \in Ids, NEW skip \in BOOLEAN
      PROVE  Alike(c, StoreGeneratedKey(c, k, n, skip), UidOf(k))
  <2> DEFINE d == [both EXCEPT !.keysByNspace = [@ EXCEPT ![n] = k],
                               !.keys = [@ EXCEPT ![k] = [ns |-> n, cert |-> n]],
                               !.skipLeafHacks = IF skip THEN @ \cup {k} ELSE @]
  <2>1. StoreGeneratedKey(c, k, n, skip) = d
    BY DEF StoreGeneratedKey, both, given
  <2>2. d.tracked = both.tracked /\ d.keys = [both.keys EXCEPT ![k] = [ns |-> n, cert |-> n]]
    BY <1>3 DEF Caches
  <2> HIDE DEF d
  <2>3. Alike(both, d, UidOf(k))
    BY <2>2, <1>3 DEF Alike, Generated, Caches
  <2> QED  BY <2>1, <2>3, <1>4, AlikeTransitive
<1> QED  BY <1>4, <1>5, <1>6, <1>7 DEF cleared, both, given

\* A step of a call of uid that changes owners of keys of uid only.
LEMMA CallIsolated ==
    ASSUME CallsSound, NEW t \in Threads, NEW uid, NEW x \in Calls,
           x.uid = uid, x # call[t], call' = [call EXCEPT ![t] = x],
           Alike(cache, cache', uid)
    PROVE  Isolated
<1>1. call'[t] = x /\ x # None
  BY HooksAssumption DEF CallsSound
<1>2. ASSUME NEW k \in Keys, UidOf(k) # uid
      PROVE  (k \in Generated(cache)) = (k \in Generated(cache'))
             /\ (k \in cache.tracked) = (k \in cache'.tracked)
  BY <1>2 DEF Alike
<1>3. ASSUME NEW k \in Keys, UidOf(k) = uid
      PROVE  \E s \in Threads : call'[s] # call[s] /\ call'[s] # None /\ call'[s].uid = UidOf(k)
  BY <1>1, <1>3
<1> QED  BY <1>2, <1>3 DEF Isolated

\* A step that changes no owner.
LEMMA UnownedIsolated ==
    ASSUME Generated(cache') = Generated(cache), cache'.tracked = cache.tracked
    PROVE  Isolated
BY DEF Isolated

\* A pre hook that clears keys of its caller.
LEMMA PreIsolated ==
    ASSUME CallsSound, NEW t \in Threads, NEW x \in Calls, call[t] = None,
           \/ Continue(t, x)
           \/ Skip(t, x)
           \/ \E trust \in Trust : Answer(t, x, trust),
           Alike(cache, cache', x.uid)
    PROVE  Isolated
<1>1. CASE Continue(t, x)
  <2> DEFINE y == [x EXCEPT !.pc = "real", !.post = TRUE]
  <2>1. y \in Calls /\ y.uid = x.uid /\ call' = [call EXCEPT ![t] = y]
    BY <1>1 DEF Calls, Continue
  <2> HIDE DEF y
  <2>2. y # call[t]
    BY <2>1, HooksAssumption
  <2> QED  BY <2>1, <2>2, CallIsolated
<1>2. CASE Skip(t, x)
  <2> DEFINE y == [x EXCEPT !.pc = "real"]
  <2>1. y \in Calls /\ y.uid = x.uid /\ call' = [call EXCEPT ![t] = y]
    BY <1>2 DEF Calls, Skip
  <2> HIDE DEF y
  <2>2. y # call[t]
    BY <2>1, HooksAssumption
  <2> QED  BY <2>1, <2>2, CallIsolated
<1>3. ASSUME NEW trust \in Trust, Answer(t, x, trust) PROVE Isolated
  <2> DEFINE y == Answered(x, trust)
  <2>1. y \in Calls /\ call' = [call EXCEPT ![t] = y]
    BY <1>3, AnsweredType DEF Answer
  <2>2. y.uid = x.uid
    BY DEF Answered, NewCall
  <2> HIDE DEF y
  <2>3. y # call[t]
    BY <2>1, HooksAssumption
  <2> QED  BY <2>1, <2>2, <2>3, CallIsolated
<1> QED  BY <1>1, <1>2, <1>3

\* A later step of a call that clears or stores keys of its caller.
LEMMA FinishIsolated ==
    ASSUME CallsSound, NEW t \in Threads, call[t] # None, call[t].pc # "done",
           NEW trust \in Trust, Finish(t, trust),
           Alike(cache, cache', call[t].uid)
    PROVE  Isolated
<1> DEFINE y == Answered(call[t], trust)
<1>1. call[t] \in Calls
  BY DEF CallsSound
<1>2. y \in Calls /\ call' = [call EXCEPT ![t] = y]
  BY <1>1, AnsweredType DEF Finish
<1>3. y.uid = call[t].uid /\ y.pc = "done"
  BY DEF Answered, NewCall
<1> HIDE DEF y
<1>4. y # call[t]
  BY <1>3
<1> QED  BY <1>2, <1>3, <1>4, CallIsolated

\* generateKey and importKey.
LEMMA CreateIsolated ==
    ASSUME IInv, NEW t \in Threads,
           \/ \E uid \in Uids, alias \in Aliases, kind \in Kinds : GenerateKeyPre(t, uid, alias, kind)
           \/ GenerateKeyStore(t) \/ GenerateKeyPost(t) \/ GenerateKeyResign(t) \/ ImportKeyPost(t)
    PROVE  Isolated
<1> DEFINE k == KeyOf(t)
<1>0. CallsSound /\ cache \in Caches /\ free \subseteq Ids
  BY DEF IInv, CacheSound, Sound, RealSound
<1>a. ASSUME call[t] # None, call[t].pc # "done", call[t].op \in {"generateKey", "importKey"}
      PROVE  /\ k \in Keys /\ UidOf(k) = call[t].uid /\ call[t].skip \in BOOLEAN
             /\ call[t].res # None => call[t].res.ns \in Ids
  BY <1>0, <1>a DEF CallsSound, CallShape, Calls, KeyOf, Keys, UidOf, Ids
<1> HIDE DEF k
<1>1. ASSUME NEW uid \in Uids, NEW alias \in Aliases, NEW kind \in Kinds, GenerateKeyPre(t, uid, alias, kind)
      PROVE  Isolated
  <2> DEFINE new == [NewCall("generateKey", uid, ByAlias(alias)) EXCEPT !.kind = kind]
             j == <<uid, alias>>
  <2>1. Ready(new)
    BY <1>1, DescriptorType, ReadyCalls DEF GenerateKeyPre, MayStart
  <2>2. new \in Calls /\ new.uid = uid /\ call[t] = None
    BY <1>1, <2>1 DEF Ready, NewCall, GenerateKeyPre, MayStart
  <2>3. \/ UNCHANGED cache
        \/ cache' = ClearSyntheticCertificateState(cache, j) /\ Continue(t, new)
        \/ cache' = [cache EXCEPT !.skipLeafHacks = cache.skipLeafHacks \ {j}]
    BY <1>1 DEF GenerateKeyPre
  <2>4. j \in Keys /\ UidOf(j) = uid
    BY DEF Keys, UidOf
  <2> HIDE DEF new, j
  <2>5. CASE UNCHANGED cache
    BY <2>5, UnownedIsolated
  <2>6. CASE cache' = ClearSyntheticCertificateState(cache, j) /\ Continue(t, new)
    BY <2>2, <2>4, <2>6, <1>0, AlikeOps, PreIsolated
  <2>7. CASE cache' = [cache EXCEPT !.skipLeafHacks = cache.skipLeafHacks \ {j}]
    <3>1. cache'.keys = cache.keys /\ cache'.tracked = cache.tracked
      BY <2>7, <1>0 DEF Caches
    <3> QED  BY <3>1, UnownedIsolated DEF Generated
  <2> QED  BY <2>3, <2>5, <2>6, <2>7
<1>2. CASE GenerateKeyStore(t)
  <2>1. call[t] # None /\ call[t].op = "generateKey" /\ call[t].pc = "synth"
    BY <1>2 DEF GenerateKeyStore, At
  <2>2. ASSUME NEW n \in free \cap ForgedIds, cache' = StoreGeneratedKey(cache, k, n, call[t].skip),
               Finish(t, "SYNTHETIC")
        PROVE  Isolated
    <3>1. k \in Keys /\ UidOf(k) = call[t].uid /\ call[t].skip \in BOOLEAN /\ n \in Ids
      BY <2>1, <1>a, <1>0
    <3>2. Alike(cache, cache', call[t].uid)
      BY <2>2, <3>1, <1>0, AlikeHooks
    <3> QED  BY <2>1, <2>2, <3>2, <1>0, FinishIsolated DEF Trust
  <2>3. CASE UNCHANGED cache
    BY <2>3, UnownedIsolated
  <2> QED  BY <1>2, <2>2, <2>3 DEF GenerateKeyStore, k
<1>3. CASE GenerateKeyPost(t)
  <2> DEFINE res == call[t].res
             y == [call[t] EXCEPT !.pc = "resign", !.store = k]
  <2>1. call[t] # None /\ call[t].op = "generateKey" /\ call[t].pc = "post" /\ call[t] \in Calls
    BY <1>0, <1>3 DEF GenerateKeyPost, At, CallsSound
  <2>2. k \in Keys /\ UidOf(k) = call[t].uid /\ (res # None => res.ns \in Ids)
    BY <2>1, <1>a
  <2>3. \/ UNCHANGED cache
        \/ /\ res # None /\ cache' = Promote(ClearSyntheticCertificateState(cache, k), k, res.ns)
           /\ Finish(t, "REAL")
        \/ /\ cache' = ClearSyntheticCertificateState(RelinquishPassthroughOwnership(cache, k), k)
           /\ call' = [call EXCEPT ![t] = y]
    BY <1>3 DEF GenerateKeyPost, k
  <2>4. y \in Calls /\ y.uid = call[t].uid /\ y.pc = "resign"
    BY <2>1, <2>2 DEF Calls
  <2> HIDE DEF res, y
  <2>5. CASE UNCHANGED cache
    BY <2>5, UnownedIsolated
  <2>6. CASE /\ res # None /\ cache' = Promote(ClearSyntheticCertificateState(cache, k), k, res.ns)
             /\ Finish(t, "REAL")
    <3>1. Alike(cache, cache', call[t].uid)
      BY <2>2, <2>6, <1>0, AlikeHooks
    <3> QED  BY <2>1, <2>6, <3>1, <1>0, FinishIsolated DEF Trust
  <2>7. CASE /\ cache' = ClearSyntheticCertificateState(RelinquishPassthroughOwnership(cache, k), k)
             /\ call' = [call EXCEPT ![t] = y]
    <3>1. Alike(cache, cache', call[t].uid)
      BY <2>2, <2>7, <1>0, AlikeHooks
    <3>2. y # call[t]
      BY <2>1, <2>4
    <3> QED  BY <2>4, <2>7, <3>1, <3>2, <1>0, CallIsolated
  <2> QED  BY <2>3, <2>5, <2>6, <2>7
<1>4. CASE GenerateKeyResign(t)
  <2>1. cache' = cache \/ cache' = PatchGenerated(cache, call[t].store, call[t].res)
    BY <1>4 DEF GenerateKeyResign
  <2>2. cache'.keys = cache.keys /\ cache'.tracked = cache.tracked
    BY <2>1, <1>0 DEF PatchGenerated, Caches
  <2> QED  BY <2>2, UnownedIsolated DEF Generated
<1>5. CASE ImportKeyPost(t)
  <2>1. /\ call[t] # None /\ call[t].op = "importKey" /\ call[t].pc = "post"
        /\ Finish(t, "ERROR") \/ Finish(t, "REAL")
        /\ cache' = cache \/ cache' = CleanupKey(cache, k)
    BY <1>5 DEF ImportKeyPost, At, k
  <2>2. CASE cache' = cache
    BY <2>2, UnownedIsolated
  <2>3. CASE cache' = CleanupKey(cache, k)
    <3>1. k \in Keys /\ UidOf(k) = call[t].uid
      BY <2>1, <1>a
    <3>2. Alike(cache, cache', call[t].uid)
      BY <2>3, <3>1, <1>0, AlikeHooks
    <3> QED  BY <2>1, <3>2, <1>0, FinishIsolated DEF Trust
  <2> QED  BY <2>1, <2>2, <2>3
<1> QED  BY <1>1, <1>2, <1>3, <1>4, <1>5

\* deleteKey and updateSubcomponent.
LEMMA ServiceIsolated ==
    ASSUME IInv, NEW t \in Threads,
           \/ DeleteKeyPost(t) \/ UpdateSubcomponentPost(t)
           \/ \E uid \in Uids, d \in Descriptors :
                DeleteKeyPre(t, uid, d) \/ UpdateSubcomponentPre(t, uid, d)
    PROVE  Isolated
<1>0. CallsSound /\ cache \in Caches
  BY DEF IInv, CacheSound, Sound
<1>1. CASE DeleteKeyPost(t)
  <2>1. /\ call[t] # None /\ call[t].pc = "post" /\ call[t] \in Calls
        /\ Finish(t, "ERROR") \/ Finish(t, "OK")
        /\ cache' = cache \/ (call[t].desc.alias # None /\ cache' = CleanupKey(cache, KeyOf(t)))
    BY <1>0, <1>1 DEF DeleteKeyPost, At, CallsSound
  <2>2. CASE cache' = cache
    BY <2>2, UnownedIsolated
  <2>3. CASE call[t].desc.alias # None /\ cache' = CleanupKey(cache, KeyOf(t))
    <3>1. KeyOf(t) \in Keys /\ UidOf(KeyOf(t)) = call[t].uid
      BY <2>1, <2>3 DEF KeyOf, Keys, UidOf, Calls, Descriptors
    <3>2. Alike(cache, cache', call[t].uid)
      BY <2>3, <3>1, <1>0, AlikeHooks
    <3> QED  BY <2>1, <3>2, <1>0, FinishIsolated DEF Trust
  <2> QED  BY <2>1, <2>2, <2>3
<1>2. CASE UpdateSubcomponentPost(t)
  <2> DEFINE key == IF call[t].desc.alias # None THEN KeyOf(t)
                    ELSE NspaceKey(cache, call[t].uid, call[t].desc.ns)
  <2>1. /\ call[t] # None /\ call[t].pc = "post" /\ call[t] \in Calls
        /\ Finish(t, "ERROR") \/ Finish(t, "OK")
        /\ cache' = cache \/ (key # None /\ cache' = CleanupKey(cache, key))
    BY <1>0, <1>2 DEF UpdateSubcomponentPost, At, CallsSound, InvalidateCertificateResponseState
  <2>2. key # None => key \in Keys /\ UidOf(key) = call[t].uid
    <3>1. call[t].uid \in Uids /\ call[t].desc \in Descriptors
      BY <2>1 DEF Calls
    <3>2. call[t].desc.alias # None => KeyOf(t) \in Keys /\ UidOf(KeyOf(t)) = call[t].uid
      BY <3>1 DEF KeyOf, Keys, UidOf, Descriptors
    <3>3. NspaceKey(cache, call[t].uid, call[t].desc.ns) \in Keys \cup {None}
      BY <3>1, <1>0, ResolvedType
    <3>4. LET n == NspaceKey(cache, call[t].uid, call[t].desc.ns)
          IN  n # None => UidOf(n) = call[t].uid
      BY DEF NspaceKey
    <3> QED  BY <3>2, <3>3, <3>4
  <2> HIDE DEF key
  <2>3. CASE cache' = cache
    BY <2>3, UnownedIsolated
  <2>4. CASE key # None /\ cache' = CleanupKey(cache, key)
    <3>1. Alike(cache, cache', call[t].uid)
      BY <2>2, <2>4, <1>0, AlikeHooks
    <3> QED  BY <2>1, <3>1, <1>0, FinishIsolated DEF Trust
  <2> QED  BY <2>1, <2>3, <2>4
<1>3. ASSUME NEW uid \in Uids, NEW d \in Descriptors, DeleteKeyPre(t, uid, d)
      PROVE  Isolated
  <2> DEFINE new == NewCall("deleteKey", uid, d)
             j == <<uid, d.alias>>
  <2>1. new \in Calls /\ new.uid = uid /\ call[t] = None
    BY <1>3, NewCallType DEF DeleteKeyPre, MayStart
  <2>2. \/ UNCHANGED cache
        \/ /\ d.alias # None /\ cache' = CleanupKey(cache, j)
           /\ Answer(t, new, "OK") \/ Continue(t, new)
    BY <1>3 DEF DeleteKeyPre
  <2>3. d.alias # None => j \in Keys /\ UidOf(j) = uid
    BY DEF Keys, UidOf, Descriptors
  <2> HIDE DEF new, j
  <2>4. CASE UNCHANGED cache
    BY <2>4, UnownedIsolated
  <2>5. CASE /\ d.alias # None /\ cache' = CleanupKey(cache, j)
             /\ Answer(t, new, "OK") \/ Continue(t, new)
    <3>1. Alike(cache, cache', uid)
      BY <2>3, <2>5, <1>0, AlikeHooks
    <3> QED  BY <2>1, <2>5, <3>1, <1>0, PreIsolated DEF Trust
  <2> QED  BY <2>2, <2>4, <2>5
<1>4. ASSUME NEW uid \in Uids, NEW d \in Descriptors, UpdateSubcomponentPre(t, uid, d)
      PROVE  Isolated
  <2> DEFINE new == NewCall("updateSubcomponent", uid, d)
             own == ResolveKey(cache, uid, d)
             grant == IF own = None THEN GrantOf(cache, uid, d.ns) ELSE None
             key == IF grant # None /\ IsPatchedKey(cache, grant.key) THEN grant.key ELSE own
             j == <<uid, key[2]>>
  <2>0. call[t] = None /\ "updateSubcomponent" \in Ops
    BY <1>4 DEF UpdateSubcomponentPre, MayStart
  <2>1. new \in Calls /\ new.uid = uid /\ call[t] = None
    BY <2>0, NewCallType
  <2>2. \/ UNCHANGED cache
        \/ key \in Generated(cache) /\ \E n \in free \cap ForgedIds : cache' = UpdateKeyCertChain(cache, key, n)
        \/ /\ key # None /\ cache' = ClearSyntheticCertificateState(cache, j)
           /\ Continue(t, new)
    BY <1>4 DEF UpdateSubcomponentPre, InvalidateCertificateResponseState
  <2>3. key # None => j \in Keys /\ UidOf(j) = uid
    <3>1. own \in Keys \cup {None}
      BY <1>0, ResolvedType
    <3>2. \A k \in Generated(cache) \cup Patched(cache) : k \in Keys
      BY DEF Generated, Patched
    <3>3. key # None => key \in Keys
      BY <3>1, <3>2 DEF IsPatchedKey
    <3> HIDE DEF key
    <3> QED  BY <3>3 DEF Keys, UidOf
  <2> HIDE DEF new, key, j
  <2>4. CASE UNCHANGED cache
    BY <2>4, UnownedIsolated
  <2>5. ASSUME key \in Generated(cache), NEW n \in free \cap ForgedIds, cache' = UpdateKeyCertChain(cache, key, n)
        PROVE  Isolated
    <3> DEFINE e == [cache.keys[key] EXCEPT !.cert = n]
    <3>1. key \in Keys /\ cache.keys[key] # None /\ cache.keys[key] \in Entries
      BY <2>5, <1>0 DEF Generated, Caches
    <3>2. e \in Entries /\ e # None
      BY <3>1, CacheAssumption DEF Entries, Ids
    <3>3. cache'.tracked = cache.tracked /\ cache'.keys = [cache.keys EXCEPT ![key] = e]
      BY <2>5, <3>1, <1>0 DEF UpdateKeyCertChain, Caches
    <3> HIDE DEF e
    <3>4. Generated(cache') = Generated(cache)
      BY <3>1, <3>2, <3>3, <1>0 DEF Generated, Caches
    <3> QED  BY <3>3, <3>4, UnownedIsolated
  <2>6. CASE /\ key # None /\ cache' = ClearSyntheticCertificateState(cache, j)
             /\ Continue(t, new)
    <3>1. Alike(cache, cache', uid)
      BY <2>3, <2>6, <1>0, AlikeOps
    <3> QED  BY <2>1, <2>6, <3>1, <1>0, PreIsolated
  <2> QED  BY <2>2, <2>4, <2>5, <2>6
<1> QED  BY <1>1, <1>2, <1>3, <1>4

\* grant, ungrant and getKeyEntry.
LEMMA LookupIsolated ==
    ASSUME IInv, NEW t \in Threads,
           \/ GrantPost(t) \/ GetKeyEntryResign(t)
           \/ \E uid \in Uids, d \in Descriptors :
                \/ \E to \in GrantArgs : GrantPre(t, uid, d, to)
                \/ \E grantee \in Uids :
                     UngrantPre(t, uid, d, [grantee |-> grantee, accessVector |-> {}])
                \/ GetKeyEntryPre(t, uid, d)
    PROVE  Isolated
<1>0. CallsSound /\ cache \in Caches
  BY DEF IInv, CacheSound, Sound
<1>g. ASSUME NEW G, cache' = [cache EXCEPT !.grants = G] PROVE Isolated
  <2>1. cache'.keys = cache.keys /\ cache'.tracked = cache.tracked
    BY <1>g, <1>0 DEF Caches
  <2> QED  BY <2>1, UnownedIsolated DEF Generated
<1>u. ASSUME UNCHANGED cache PROVE Isolated
  BY <1>u, UnownedIsolated
<1>1. CASE GrantPost(t)
  BY <1>1, <1>g, <1>u DEF GrantPost, WithGrant
<1>2. CASE GetKeyEntryResign(t)
  <2>1. cache' = cache \/ cache' = [cache EXCEPT !.patchedResponses = [cache.patchedResponses EXCEPT ![call[t].store] = call[t].res]]
    BY <1>2 DEF GetKeyEntryResign
  <2>2. cache'.keys = cache.keys /\ cache'.tracked = cache.tracked
    BY <2>1, <1>0 DEF Caches
  <2> QED  BY <2>2, UnownedIsolated DEF Generated
<1>3. ASSUME NEW uid \in Uids, NEW d \in Descriptors, NEW to \in GrantArgs, GrantPre(t, uid, d, to)
      PROVE  Isolated
  BY <1>3, <1>g, <1>u DEF GrantPre, WithGrant
<1>4. ASSUME NEW uid \in Uids, NEW d \in Descriptors, NEW to, UngrantPre(t, uid, d, to)
      PROVE  Isolated
  BY <1>4, <1>g, <1>u DEF UngrantPre
<1>5. ASSUME NEW uid \in Uids, NEW d \in Descriptors, GetKeyEntryPre(t, uid, d)
      PROVE  Isolated
  <2> DEFINE new == NewCall("getKeyEntry", uid, d)
             j == <<uid, d.alias>>
  <2>1. new \in Calls /\ new.uid = uid /\ call[t] = None
    BY <1>5, NewCallType DEF GetKeyEntryPre, MayStart
  <2>2. \/ UNCHANGED cache
        \/ cache' = RejectHistoricalOwners(cache, uid, d) /\ Continue(t, new)
    BY <1>5 DEF GetKeyEntryPre
  <2>3. \/ UNCHANGED cache
        \/ d.alias # None /\ cache' = ClearSyntheticCertificateState(cache, j) /\ Continue(t, new)
    BY <2>2 DEF RejectHistoricalOwners
  <2>4. d.alias # None => j \in Keys /\ UidOf(j) = uid
    BY DEF Keys, UidOf, Descriptors
  <2> HIDE DEF new, j
  <2>5. CASE d.alias # None /\ cache' = ClearSyntheticCertificateState(cache, j) /\ Continue(t, new)
    <3>1. Alike(cache, cache', uid)
      BY <2>4, <2>5, <1>0, AlikeOps
    <3> QED  BY <2>1, <2>5, <3>1, <1>0, PreIsolated
  <2> QED  BY <2>3, <2>5, <1>u
<1> QED  BY <1>1, <1>2, <1>3, <1>4, <1>5

\* Every step of every hook.
LEMMA NextIsolated == IInv /\ [Next]_vars => Isolated
<1> SUFFICES ASSUME IInv, [Next]_vars PROVE Isolated
  OBVIOUS
<1>u. ASSUME UNCHANGED cache PROVE Isolated
  BY <1>u, UnownedIsolated
<1>1. ASSUME NEW t \in Threads, NEW uid \in Uids, NEW alias \in Aliases,
             \/ GenerateKeyReject(t, uid, alias)
             \/ \E kind \in Kinds : GenerateKeyPre(t, uid, alias, kind)
             \/ ImportKeyPre(t, uid, alias)
      PROVE  Isolated
  BY <1>1, <1>u, CreateIsolated DEF GenerateKeyReject, ImportKeyPre
<1>2. ASSUME NEW t \in Threads, NEW uid \in Uids, NEW d \in CallDescriptors,
             \/ DeleteKeyPre(t, uid, d)
             \/ UpdateSubcomponentPre(t, uid, d)
             \/ GetKeyEntryGrantPre(t, uid, d)
             \/ GetKeyEntryPre(t, uid, d)
             \/ GetKeyEntryNoKeybox(t, uid, d)
             \/ \E to \in GrantArgs : GrantPre(t, uid, d, to)
             \/ \E grantee \in Uids :
                  UngrantPre(t, uid, d, [grantee |-> grantee, accessVector |-> {}])
      PROVE  Isolated
  <2>1. d \in Descriptors
    BY DescriptorType
  <2>2. CASE GetKeyEntryGrantPre(t, uid, d) \/ GetKeyEntryNoKeybox(t, uid, d)
    BY <2>2, <1>u DEF GetKeyEntryGrantPre, GetKeyEntryNoKeybox
  <2> QED  BY <1>2, <2>1, <2>2, ServiceIsolated, LookupIsolated
<1>3. ASSUME NEW t \in Threads,
             \/ RealCreate(t) \/ RealDelete(t) \/ RealUpdate(t)
             \/ RealGrant(t) \/ RealUngrant(t) \/ RealGetKeyEntry(t)
             \/ GetKeyEntryPost(t) \/ Return(t)
      PROVE  Isolated
  BY <1>3, <1>u DEF RealCreate, RealDelete, RealUpdate, RealGrant, RealUngrant, RealGetKeyEntry,
     GetKeyEntryPost, Return
<1>4. ASSUME NEW t \in Threads,
             \/ GenerateKeyStore(t) \/ GenerateKeyPost(t) \/ GenerateKeyResign(t)
             \/ ImportKeyPost(t) \/ DeleteKeyPost(t) \/ UpdateSubcomponentPost(t)
             \/ GrantPost(t) \/ GetKeyEntryResign(t)
      PROVE  Isolated
  BY <1>4, CreateIsolated, ServiceIsolated, LookupIsolated
<1>5. ASSUME NEW parsed, UpdateKeyBox(parsed) PROVE Isolated
  BY <1>5 DEF UpdateKeyBox, CleanupAll, Isolated
<1>6. ASSUME \/ \E uid \in Uids : \E m \in ModeSets[uid] : UpdateTargetPackages(uid, m)
             \/ PmDies \/ PmReturns \/ UNCHANGED vars
      PROVE  Isolated
  BY <1>6, <1>u DEF UpdateTargetPackages, PmDies, PmReturns, vars
<1> QED  BY <1>1, <1>2, <1>3, <1>4, <1>5, <1>6 DEF Next

-----------------------------------------------------------------------------
(* Theorems *)

\* Every variable of the Keystore2 hooks keeps its type (KeystoreCalls), in
\* particular every null that a hook dereferences has been excluded before.
THEOREM TypeCorrect == Spec => []TypeOK
<1>1. IInv => TypeOK
  BY DEF IInv, CacheSound, CallsSound, RealSound, ConfigSound, Sound, TypeOK
<1> QED  BY <1>1, InitInv, NextInv, PTL DEF Spec

\* Software and passthrough ownership of a key changes only in a call of the
\* UID that owns it or with the keybox: every hook clears and stores under
\* callingUid, whatever grants, numbers and aliases name the key.
THEOREM OwnerIsolationTheorem == Spec => OwnerIsolation
<1>1. IInv /\ [Next]_vars =>
        [ \A k \in Keys :
            \/ (k \in Generated(cache)) = (k \in Generated(cache'))
               /\ (k \in cache.tracked) = (k \in cache'.tracked)
            \/ cache' = EmptyCache
            \/ \E t \in Threads : /\ call'[t] # call[t]
                                  /\ call'[t] # None
                                  /\ call'[t].uid = UidOf(k) ]_vars
  BY NextIsolated DEF Isolated
<1> QED  BY <1>1, InitInv, NextInv, PTL DEF Spec, OwnerIsolation

-----------------------------------------------------------------------------
(* The AUTO trust invariant *)

\* The setting AutoUnmodified is claimed for: applications wait for each
\* answer on a key, and the packages of every UID are and stay loaded.
AutoSetting ==
    /\ "overlap" \notin Env
    /\ "pmDies" \notin Env
    /\ Loaded = Uids

\* The package lists of every UID are cached.
PackagesLoaded == uidPackages = Uids /\ pmAlive = TRUE

\* A call of a UID that is plain AUTO since the call arrived.
AutoFine(c) ==
    c.auto => /\ modes[c.uid] = {"AUTO"}
              /\ c.pc \notin {"synth", "resign"}
              /\ c.pc = "done" => c.trust \notin {"HYBRID", "SYNTHETIC"}

\* A generateKey call in flight.
Creates(c) == c # None /\ c.op = "generateKey" /\ c.pc # "done"

\* The key that the alias of a call names.
AliasOf(c) == <<c.uid, c.desc.alias>>

\* Its post hook, if it has one, will find the passthrough flag.
Flagged(c, P) ==
    /\ Creates(c) /\ c.auto
    /\ c.pc = "post" \/ (c.pc = "real" /\ c.post)
    => AliasOf(c) \in P

\* Applications wait: at most one generateKey call per alias.
OneCreator ==
    \A s, t \in Threads :
        Creates(call[s]) /\ Creates(call[t]) /\ AliasOf(call[s]) = AliasOf(call[t]) => s = t

\* Every call in flight keeps AUTO callers away from the modified routes.
AutoCalls ==
    \A t \in Threads : call[t] # None => AutoFine(call[t]) /\ Flagged(call[t], pendingPassthrough)

\* The inductive invariant of AutoUnmodified.
AutoInv == AutoSetting /\ PackagesLoaded /\ OneCreator /\ AutoCalls

\* What can be told of an answered call.
LEMMA AnsweredFields ==
    ASSUME NEW c \in Calls, NEW trust \in Trust
    PROVE  LET x == Answered(c, trust)
           IN  /\ x \in Calls /\ x # None
               /\ x.op = c.op /\ x.uid = c.uid /\ x.pc = "done" /\ x.trust = trust
               /\ x.auto = c.auto /\ x.res = None
<1>1. LET x == Answered(c, trust)
      IN  /\ x.op = c.op /\ x.uid = c.uid /\ x.pc = "done" /\ x.trust = trust
          /\ x.auto = c.auto /\ x.res = None
  BY DEF Answered, NewCall
<1>2. Answered(c, trust) \in Calls
  BY AnsweredType
<1> QED  BY <1>1, <1>2, HooksAssumption

\* One thread's call is replaced.
LEMMA AutoStep ==
    ASSUME AutoInv, CallsSound, NEW t \in Threads, NEW x \in Calls \cup {None},
           call' = [call EXCEPT ![t] = x],
           modes' = modes, pmAlive' = pmAlive, uidPackages' = Uids,
           x # None => AutoFine(x) /\ Flagged(x, pendingPassthrough'),
           \A s \in Threads \ {t} :
               Creates(call[s]) => /\ Creates(x) => AliasOf(call[s]) # AliasOf(x)
                                   /\ AliasOf(call[s]) \in pendingPassthrough
                                        => AliasOf(call[s]) \in pendingPassthrough'
    PROVE  AutoInv'
<1>0. call \in [Threads -> Calls \cup {None}]
  BY DEF CallsSound
<1>1. call'[t] = x /\ \A s \in Threads \ {t} : call'[s] = call[s]
  BY <1>0
<1>2. PackagesLoaded'
  BY DEF PackagesLoaded, AutoInv
<1>3. OneCreator'
  <2> SUFFICES ASSUME NEW r \in Threads, NEW s \in Threads, r # s,
                      Creates(call'[r]), Creates(call'[s])
               PROVE  AliasOf(call'[r]) # AliasOf(call'[s])
    BY DEF OneCreator, Creates, AliasOf
  <2>1. CASE r # t /\ s # t
    BY <2>1, <1>1 DEF OneCreator, AutoInv
  <2>2. CASE r = t
    BY <2>2, <1>1
  <2>3. CASE s = t
    BY <2>3, <1>1
  <2> QED  BY <2>1, <2>2, <2>3
<1>4. ASSUME NEW s \in Threads, call'[s] # None
      PROVE  AutoFine(call[s])' /\ Flagged(call[s], pendingPassthrough)'
  <2>1. CASE s = t
    BY <2>1, <1>1, <1>4 DEF AutoFine, Flagged, Creates, AliasOf
  <2>2. CASE s # t
    <3>1. call'[s] = call[s] /\ AutoFine(call[s]) /\ Flagged(call[s], pendingPassthrough)
      BY <2>2, <1>1, <1>4 DEF AutoInv, AutoCalls
    <3>2. Creates(call[s]) /\ AliasOf(call[s]) \in pendingPassthrough
             => AliasOf(call[s]) \in pendingPassthrough'
      BY <2>2
    <3> QED  BY <3>1, <3>2 DEF AutoFine, Flagged, Creates, AliasOf
  <2> QED  BY <2>1, <2>2
<1> QED  BY <1>2, <1>3, <1>4 DEF AutoInv, AutoSetting, AutoCalls

\* A call in progress goes on or is answered.
LEMMA AutoProgress ==
    ASSUME AutoInv, CallsSound, NEW t \in Threads, call[t] # None, NEW x \in Calls,
           call' = [call EXCEPT ![t] = x],
           modes' = modes, pmAlive' = pmAlive, uidPackages' = Uids,
           AutoFine(x), Flagged(x, pendingPassthrough'),
           \/ pendingPassthrough' = pendingPassthrough
           \/ Creates(call[t]) /\ pendingPassthrough' = pendingPassthrough \ {AliasOf(call[t])},
           \/ x.pc = "done"
           \/ call[t].pc # "done" /\ x.op = call[t].op /\ x.uid = call[t].uid /\ x.desc = call[t].desc
    PROVE  AutoInv'
<1>1. ASSUME NEW s \in Threads \ {t}, Creates(call[s])
      PROVE  /\ Creates(x) => AliasOf(call[s]) # AliasOf(x)
             /\ AliasOf(call[s]) \in pendingPassthrough => AliasOf(call[s]) \in pendingPassthrough'
  <2>1. Creates(call[t]) => AliasOf(call[s]) # AliasOf(call[t])
    BY <1>1 DEF AutoInv, OneCreator
  <2> QED  BY <2>1 DEF Creates, AliasOf
<1> QED  BY <1>1, AutoStep

\* A call in progress is answered.
LEMMA AutoFinish ==
    ASSUME AutoInv, CallsSound, NEW t \in Threads, call[t] # None, call[t].pc # "done",
           NEW trust \in Trust, Finish(t, trust),
           call[t].auto => trust \notin {"HYBRID", "SYNTHETIC"},
           modes' = modes, pmAlive' = pmAlive, uidPackages' = Uids,
           \/ pendingPassthrough' = pendingPassthrough
           \/ Creates(call[t]) /\ pendingPassthrough' = pendingPassthrough \ {AliasOf(call[t])}
    PROVE  AutoInv'
<1> DEFINE x == Answered(call[t], trust)
<1>1. call[t] \in Calls /\ AutoFine(call[t])
  BY DEF CallsSound, AutoInv, AutoCalls
<1>2. /\ x \in Calls /\ x.uid = call[t].uid /\ x.pc = "done"
      /\ x.trust = trust /\ x.auto = call[t].auto
  BY <1>1, AnsweredFields
<1>3. call' = [call EXCEPT ![t] = x]
  BY DEF Finish
<1> HIDE DEF x
<1>4. AutoFine(x) /\ Flagged(x, pendingPassthrough')
  BY <1>1, <1>2 DEF AutoFine, Flagged, Creates
<1> QED  BY <1>2, <1>3, <1>4, AutoProgress

\* The real keystore replies.
LEMMA AutoReply ==
    ASSUME AutoInv, CallsSound, NEW t \in Threads, call[t] # None, call[t].pc = "real",
           NEW res \in Entries \cup {None}, NEW trust \in {"OK", "REAL", "ERROR"}, RealReply(t, res, trust),
           UNCHANGED <<modes, pmAlive, uidPackages, pendingPassthrough>>
    PROVE  AutoInv'
<1>1. call[t] \in Calls /\ AutoFine(call[t]) /\ Flagged(call[t], pendingPassthrough)
  BY DEF CallsSound, AutoInv, AutoCalls
<1>u. /\ uidPackages' = Uids /\ modes' = modes /\ pmAlive' = pmAlive
      /\ \/ pendingPassthrough' = pendingPassthrough
         \/ Creates(call[t]) /\ pendingPassthrough' = pendingPassthrough \ {AliasOf(call[t])}
  BY DEF AutoInv, PackagesLoaded
<1>2. CASE call[t].post
  <2> DEFINE y == [call[t] EXCEPT !.pc = "post", !.res = res]
  <2>1. /\ y \in Calls /\ y.op = call[t].op /\ y.desc = call[t].desc /\ y.uid = call[t].uid
        /\ y.post = call[t].post /\ y.auto = call[t].auto /\ y.pc = "post"
    BY <1>1 DEF Calls
  <2>2. call' = [call EXCEPT ![t] = y]
    BY <1>2 DEF RealReply
  <2> HIDE DEF y
  <2>3. AutoFine(y) /\ Flagged(y, pendingPassthrough')
    BY <1>1, <1>2, <2>1, HooksAssumption DEF AutoFine, Flagged, Creates, AliasOf
  <2>4. call[t].pc # "done"
    OBVIOUS
  <2> QED  BY <2>1, <2>2, <2>3, <2>4, <1>u, AutoProgress
<1>3. CASE ~call[t].post
  <2> DEFINE tr == IF res = None THEN "ERROR" ELSE trust
  <2>1. tr \in {"OK", "REAL", "ERROR"}
    OBVIOUS
  <2>2. Finish(t, tr)
    BY <1>3 DEF RealReply, Finish
  <2> HIDE DEF tr
  <2>3. call[t].pc # "done" /\ tr \in Trust /\ tr \notin {"HYBRID", "SYNTHETIC"}
    BY <2>1 DEF Trust
  <2> QED  BY <2>2, <2>3, <1>u, AutoFinish
<1> QED  BY <1>2, <1>3

\* The fields of a new call.
Fresh(x, op, uid, d) ==
    /\ x \in Calls /\ x.op = op /\ x.uid = uid /\ x.desc = d
    /\ x.post = FALSE /\ x.res = None
    /\ x.auto <=> modes[uid] = {"AUTO"}

\* NewCall, with the arguments of generateKey and of grant, is a new call.
LEMMA FreshCalls ==
    ASSUME NEW op \in Ops, NEW uid \in Uids, NEW d \in Descriptors
    PROVE  /\ Fresh(NewCall(op, uid, d), op, uid, d)
           /\ \A kind \in Kinds : /\ Fresh([NewCall(op, uid, d) EXCEPT !.kind = kind], op, uid, d)
                                  /\ [NewCall(op, uid, d) EXCEPT !.kind = kind].kind = kind
           /\ \A to \in GrantRequests : /\ Fresh([NewCall(op, uid, d) EXCEPT !.to = to], op, uid, d)
                                        /\ [NewCall(op, uid, d) EXCEPT !.to = to].to = to
<1> DEFINE x == NewCall(op, uid, d)
<1>1. Fresh(x, op, uid, d)
  BY DEF NewCall, Calls, Fresh
<1> HIDE DEF x
<1>2. ASSUME NEW kind \in Kinds
      PROVE  Fresh([x EXCEPT !.kind = kind], op, uid, d) /\ [x EXCEPT !.kind = kind].kind = kind
  BY <1>1 DEF Calls, Fresh
<1>3. ASSUME NEW to \in GrantRequests
      PROVE  Fresh([x EXCEPT !.to = to], op, uid, d) /\ [x EXCEPT !.to = to].to = to
  BY <1>1 DEF Calls, Fresh
<1> QED  BY <1>1, <1>2, <1>3 DEF x

\* No other generateKey of the alias is in flight when one starts.
LEMMA AutoStart ==
    ASSUME AutoInv, CallsSound, NEW t \in Threads, NEW op, NEW uid \in Uids, NEW d \in Descriptors,
           MayStart(t, op, uid, d), op = "generateKey" => d.alias \in Aliases,
           NEW x \in Calls, x.op = op, x.uid = uid, x.pc = "done" \/ x.desc = d,
           call' = [call EXCEPT ![t] = x],
           modes' = modes, pmAlive' = pmAlive, uidPackages' = Uids,
           AutoFine(x), Flagged(x, pendingPassthrough'),
           pendingPassthrough \subseteq pendingPassthrough'
    PROVE  AutoInv'
<1>1. ASSUME NEW s \in Threads \ {t}, Creates(call[s]), Creates(x)
      PROVE  AliasOf(call[s]) # AliasOf(x)
  <2>1. x.desc = d /\ d.alias \in Aliases /\ AliasOf(x) = <<uid, d.alias>>
    BY <1>1 DEF Creates, AliasOf
  <2>2. TargetKey(uid, d) = <<uid, d.alias>>
    BY <2>1, CacheAssumption DEF TargetKey
  <2>3. call[s].desc.alias \in Aliases
    BY <1>1 DEF CallsSound, CallShape, Creates
  <2>4. TargetKey(call[s].uid, call[s].desc) = AliasOf(call[s])
    BY <2>3, CacheAssumption DEF TargetKey, AliasOf
  <2>5. ~Busy(TargetKey(uid, d))
    BY DEF MayStart, AutoInv, AutoSetting
  <2>6. TargetKey(call[s].uid, call[s].desc) # TargetKey(uid, d)
    BY <2>5, <1>1 DEF Busy, Creates
  <2> QED  BY <2>1, <2>2, <2>4, <2>6
<1>2. x # None
  BY HooksAssumption
<1> QED  BY <1>1, <1>2, AutoStep

\* A pre hook answers a new call or forwards it.
LEMMA AutoPre ==
    ASSUME AutoInv, CallsSound, NEW t \in Threads, NEW op, NEW uid \in Uids, NEW d \in Descriptors,
           MayStart(t, op, uid, d), op = "generateKey" => d.alias \in Aliases,
           NEW new, Fresh(new, op, uid, d),
           \/ \E trust \in Trust : /\ Answer(t, new, trust)
                                   /\ modes[uid] = {"AUTO"} => trust \notin {"HYBRID", "SYNTHETIC"}
           \/ /\ Continue(t, new)
              /\ op = "generateKey" /\ modes[uid] = {"AUTO"} => <<uid, d.alias>> \in pendingPassthrough'
           \/ Skip(t, new),
           modes' = modes, pmAlive' = pmAlive, uidPackages' = Uids,
           pendingPassthrough \subseteq pendingPassthrough'
    PROVE  AutoInv'
<1>1. ASSUME NEW trust \in Trust, Answer(t, new, trust),
             modes[uid] = {"AUTO"} => trust \notin {"HYBRID", "SYNTHETIC"}
      PROVE  AutoInv'
  <2> DEFINE x == Answered(new, trust)
  <2>1. /\ x \in Calls /\ x.op = op /\ x.uid = uid /\ x.pc = "done"
        /\ x.trust = trust /\ (x.auto <=> modes[uid] = {"AUTO"})
    BY AnsweredFields DEF Fresh
  <2>2. call' = [call EXCEPT ![t] = x]
    BY <1>1 DEF Answer
  <2> HIDE DEF x
  <2>3. AutoFine(x) /\ Flagged(x, pendingPassthrough')
    BY <1>1, <2>1 DEF AutoFine, Flagged, Creates
  <2> QED  BY <2>1, <2>2, <2>3, AutoStart
<1>2. CASE /\ Continue(t, new)
           /\ op = "generateKey" /\ modes[uid] = {"AUTO"} => <<uid, d.alias>> \in pendingPassthrough'
  <2> DEFINE x == [new EXCEPT !.pc = "real", !.post = TRUE]
  <2>1. /\ x \in Calls /\ x.op = op /\ x.uid = uid /\ x.desc = d /\ x.pc = "real"
        /\ (x.auto <=> modes[uid] = {"AUTO"})
    BY DEF Calls, Fresh
  <2>2. call' = [call EXCEPT ![t] = x]
    BY <1>2 DEF Continue
  <2> HIDE DEF x
  <2>3. AutoFine(x)
    BY <2>1 DEF AutoFine
  <2>4. Flagged(x, pendingPassthrough')
    BY <1>2, <2>1 DEF Flagged, Creates, AliasOf
  <2> QED  BY <2>1, <2>2, <2>3, <2>4, AutoStart
<1>3. CASE Skip(t, new)
  <2> DEFINE x == [new EXCEPT !.pc = "real"]
  <2>1. /\ x \in Calls /\ x.op = op /\ x.uid = uid /\ x.desc = d /\ x.pc = "real"
        /\ (x.auto <=> modes[uid] = {"AUTO"}) /\ x.post = FALSE
    BY DEF Calls, Fresh
  <2>2. call' = [call EXCEPT ![t] = x]
    BY <1>3 DEF Skip
  <2> HIDE DEF x
  <2>3. AutoFine(x) /\ Flagged(x, pendingPassthrough')
    BY <2>1 DEF AutoFine, Flagged
  <2> QED  BY <2>1, <2>2, <2>3, AutoStart
<1> QED  BY <1>1, <1>2, <1>3

\* How plain AUTO is routed when its packages are loaded.
LEMMA AutoRoute ==
    ASSUME AutoInv, NEW uid \in Uids
    PROVE  /\ Load(uid) = Uids /\ uidPackages = Uids
           /\ modes[uid] = {"AUTO"} => /\ NeedHack(uid) /\ ~NeedGenerate(uid)
                                       /\ IsPlainAuto(Uids, uid) /\ ~IsExplicitLeafHack(Uids, uid)
<1>1. uidPackages = Uids /\ Load(uid) = Uids
  BY DEF AutoInv, PackagesLoaded, Load
<1> QED  BY <1>1 DEF NeedHack, NeedGenerate, IsPlainAuto, IsExplicitLeafHack

\* The pre hooks of generateKey and importKey.
LEMMA AutoCreatePre ==
    ASSUME AutoInv, CallsSound, NEW t \in Threads, NEW uid \in Uids, NEW alias \in Aliases,
           \/ GenerateKeyReject(t, uid, alias)
           \/ \E kind \in Kinds : GenerateKeyPre(t, uid, alias, kind)
           \/ ImportKeyPre(t, uid, alias)
    PROVE  AutoInv'
<1> USE DEF configVars, Trust
<1>d. ByAlias(alias) \in Descriptors /\ ByAlias(alias).alias = alias
  BY DescriptorType
<1>r. /\ Load(uid) = Uids /\ uidPackages = Uids
      /\ modes[uid] = {"AUTO"} => NeedHack(uid) /\ ~NeedGenerate(uid) /\ ~IsExplicitLeafHack(Uids, uid)
  BY AutoRoute
<1>1. CASE GenerateKeyReject(t, uid, alias)
  <2> DEFINE new == NewCall("generateKey", uid, ByAlias(alias))
  <2>1. MayStart(t, "generateKey", uid, ByAlias(alias)) /\ Answer(t, new, "ERROR")
    BY <1>1 DEF GenerateKeyReject
  <2>2. Fresh(new, "generateKey", uid, ByAlias(alias))
    BY <2>1, <1>d, FreshCalls DEF MayStart
  <2>3. modes' = modes /\ pmAlive' = pmAlive /\ uidPackages' = Uids /\ pendingPassthrough \subseteq pendingPassthrough'
    BY <1>1, <1>r DEF GenerateKeyReject
  <2> HIDE DEF new
  <2> QED  BY <2>1, <2>2, <2>3, <1>d, AutoPre
<1>2. ASSUME NEW kind \in Kinds, GenerateKeyPre(t, uid, alias, kind) PROVE AutoInv'
  <2> DEFINE base == NewCall("generateKey", uid, ByAlias(alias))
             new == [base EXCEPT !.kind = kind]
             route == SelectTopLevelRoute(Load(uid), uid)
  <2>1. MayStart(t, "generateKey", uid, ByAlias(alias))
    BY <1>2 DEF GenerateKeyPre
  <2>2. Fresh(new, "generateKey", uid, ByAlias(alias))
    BY <2>1, <1>d, FreshCalls DEF MayStart
  <2>3. modes' = modes /\ pmAlive' = pmAlive /\ uidPackages' = Uids /\ pendingPassthrough \subseteq pendingPassthrough'
    BY <1>2, <1>r DEF GenerateKeyPre
  <2>4. modes[uid] = {"AUTO"} => route = "passthrough-real-tee"
    BY <1>r DEF SelectTopLevelRoute
  <2>5. \/ route = "generate" /\ call' = [call EXCEPT ![t] = [new EXCEPT !.pc = "synth", !.skip = NeedHack(uid)]]
        \/ route = "generate" /\ Continue(t, new)
        \/ route = "passthrough-real-tee" /\ Continue(t, new) /\ <<uid, alias>> \in pendingPassthrough'
        \/ route = "leaf-forward" /\ Continue(t, new)
        \/ route = "skip" /\ Skip(t, new)
    BY <1>2 DEF GenerateKeyPre
  <2> HIDE DEF new, route
  <2>6. CASE route = "generate" /\ call' = [call EXCEPT ![t] = [new EXCEPT !.pc = "synth", !.skip = NeedHack(uid)]]
    <3> DEFINE x == [new EXCEPT !.pc = "synth", !.skip = NeedHack(uid)]
    <3>0. NeedHack(uid) \in BOOLEAN
      BY DEF NeedHack
    <3>1. /\ x \in Calls /\ x.op = "generateKey" /\ x.uid = uid /\ x.desc = ByAlias(alias)
          /\ x.pc = "synth" /\ (x.auto <=> modes[uid] = {"AUTO"})
      BY <2>2, <3>0 DEF Calls, Fresh
    <3>2. call' = [call EXCEPT ![t] = x]
      BY <2>6
    <3> HIDE DEF x
    <3>3. AutoFine(x) /\ Flagged(x, pendingPassthrough')
      BY <3>1, <2>4, <2>6 DEF AutoFine, Flagged
    <3> QED  BY <2>1, <2>3, <3>1, <3>2, <3>3, <1>d, AutoStart
  <2>7. \/ Continue(t, new) /\ (modes[uid] = {"AUTO"} => <<uid, ByAlias(alias).alias>> \in pendingPassthrough')
        \/ Skip(t, new)
        \/ route = "generate" /\ call' = [call EXCEPT ![t] = [new EXCEPT !.pc = "synth", !.skip = NeedHack(uid)]]
    BY <2>4, <2>5, <1>d
  <2> QED  BY <2>1, <2>2, <2>3, <2>6, <2>7, <1>d, AutoPre
<1>3. CASE ImportKeyPre(t, uid, alias)
  <2> DEFINE new == NewCall("importKey", uid, ByAlias(alias))
  <2>1. MayStart(t, "importKey", uid, ByAlias(alias)) /\ (Continue(t, new) \/ Skip(t, new))
    BY <1>3 DEF ImportKeyPre
  <2>2. Fresh(new, "importKey", uid, ByAlias(alias))
    BY <2>1, <1>d, FreshCalls DEF MayStart
  <2>3. modes' = modes /\ pmAlive' = pmAlive /\ uidPackages' = Uids /\ pendingPassthrough \subseteq pendingPassthrough'
    BY <1>3, <1>r DEF ImportKeyPre
  <2> HIDE DEF new
  <2> QED  BY <2>1, <2>2, <2>3, <1>d, AutoPre
<1> QED  BY <1>1, <1>2, <1>3

\* The pre hooks of the keystore service.
LEMMA AutoServicePre ==
    ASSUME AutoInv, CallsSound, NEW t \in Threads, NEW uid \in Uids, NEW d \in Descriptors,
           \/ DeleteKeyPre(t, uid, d)
           \/ UpdateSubcomponentPre(t, uid, d)
           \/ GetKeyEntryGrantPre(t, uid, d)
           \/ GetKeyEntryPre(t, uid, d)
           \/ GetKeyEntryNoKeybox(t, uid, d)
           \/ \E to \in GrantRequests : GrantPre(t, uid, d, to) \/ UngrantPre(t, uid, d, to)
    PROVE  AutoInv'
<1> USE DEF configVars
<1>r. /\ Load(uid) = Uids /\ uidPackages = Uids
      /\ modes[uid] = {"AUTO"} => NeedHack(uid) /\ ~NeedGenerate(uid) /\ IsPlainAuto(Uids, uid)
  BY AutoRoute
<1>p. ASSUME NEW op \in Ops, op # "generateKey", MayStart(t, op, uid, d),
             NEW new, Fresh(new, op, uid, d),
             \/ \E trust \in Trust : /\ Answer(t, new, trust)
                                     /\ modes[uid] = {"AUTO"} => trust \notin {"HYBRID", "SYNTHETIC"}
             \/ Continue(t, new)
             \/ Skip(t, new),
             modes' = modes, pmAlive' = pmAlive, uidPackages' = Uids,
             pendingPassthrough' = pendingPassthrough
      PROVE  AutoInv'
  BY <1>p, AutoPre
<1>e. "OK" \in Trust /\ "ERROR" \in Trust /\ "HYBRID" \in Trust /\ "SYNTHETIC" \in Trust
      /\ "OK" \notin {"HYBRID", "SYNTHETIC"} /\ "ERROR" \notin {"HYBRID", "SYNTHETIC"}
  BY DEF Trust
<1>1. CASE DeleteKeyPre(t, uid, d)
  <2> DEFINE new == NewCall("deleteKey", uid, d)
  <2>1. MayStart(t, "deleteKey", uid, d) /\ "deleteKey" \in Ops
    BY <1>1 DEF DeleteKeyPre, MayStart
  <2>2. Fresh(new, "deleteKey", uid, d)
    BY <2>1, FreshCalls
  <2>3. modes' = modes /\ pmAlive' = pmAlive /\ uidPackages' = Uids /\ pendingPassthrough' = pendingPassthrough
    BY <1>1, <1>r DEF DeleteKeyPre
  <2>4. Answer(t, new, "OK") \/ Continue(t, new)
    BY <1>1 DEF DeleteKeyPre
  <2> HIDE DEF new
  <2> QED  BY <2>1, <2>2, <2>3, <2>4, <1>p, <1>e
<1>2. CASE UpdateSubcomponentPre(t, uid, d)
  <2> DEFINE new == NewCall("updateSubcomponent", uid, d)
  <2>1. MayStart(t, "updateSubcomponent", uid, d) /\ "updateSubcomponent" \in Ops
    BY <1>2 DEF UpdateSubcomponentPre, MayStart
  <2>2. Fresh(new, "updateSubcomponent", uid, d)
    BY <2>1, FreshCalls
  <2>3. modes' = modes /\ pmAlive' = pmAlive /\ uidPackages' = Uids /\ pendingPassthrough' = pendingPassthrough
    BY <1>2, <1>r DEF UpdateSubcomponentPre
  <2>4. Answer(t, new, "OK") \/ Answer(t, new, "ERROR") \/ Continue(t, new)
    BY <1>2 DEF UpdateSubcomponentPre
  <2> HIDE DEF new
  <2> QED  BY <2>1, <2>2, <2>3, <2>4, <1>p, <1>e
<1>3. ASSUME NEW to \in GrantRequests, GrantPre(t, uid, d, to) PROVE AutoInv'
  <2> DEFINE base == NewCall("grant", uid, d)
             new == [base EXCEPT !.to = to]
  <2>1. MayStart(t, "grant", uid, d) /\ "grant" \in Ops
    BY <1>3 DEF GrantPre, MayStart
  <2>2. Fresh(new, "grant", uid, d)
    BY <2>1, FreshCalls
  <2>3. modes' = modes /\ pmAlive' = pmAlive /\ uidPackages' = Uids /\ pendingPassthrough' = pendingPassthrough
    BY <1>3, <1>r DEF GrantPre
  <2>4. Answer(t, new, "OK") \/ Skip(t, new) \/ Continue(t, new)
    BY <1>3 DEF GrantPre
  <2> HIDE DEF new
  <2> QED  BY <2>1, <2>2, <2>3, <2>4, <1>p, <1>e
<1>4. ASSUME NEW to \in GrantRequests, UngrantPre(t, uid, d, to) PROVE AutoInv'
  <2> DEFINE base == NewCall("ungrant", uid, d)
             new == [base EXCEPT !.to = to]
  <2>1. MayStart(t, "ungrant", uid, d) /\ "ungrant" \in Ops
    BY <1>4 DEF UngrantPre, MayStart
  <2>2. Fresh(new, "ungrant", uid, d)
    BY <2>1, FreshCalls
  <2>3. modes' = modes /\ pmAlive' = pmAlive /\ uidPackages' = Uids /\ pendingPassthrough' = pendingPassthrough
    BY <1>4, <1>r DEF UngrantPre
  <2>4. Answer(t, new, "OK") \/ Skip(t, new)
    BY <1>4 DEF UngrantPre
  <2> HIDE DEF new
  <2> QED  BY <2>1, <2>2, <2>3, <2>4, <1>p, <1>e
<1>5. CASE \/ GetKeyEntryGrantPre(t, uid, d)
           \/ GetKeyEntryPre(t, uid, d)
           \/ GetKeyEntryNoKeybox(t, uid, d)
  <2> DEFINE new == NewCall("getKeyEntry", uid, d)
  <2>1. MayStart(t, "getKeyEntry", uid, d) /\ "getKeyEntry" \in Ops
    BY <1>5 DEF GetKeyEntryGrantPre, GetKeyEntryPre, GetKeyEntryNoKeybox, MayStart
  <2>2. Fresh(new, "getKeyEntry", uid, d)
    BY <2>1, FreshCalls
  <2>3. modes' = modes /\ pmAlive' = pmAlive /\ uidPackages' = Uids /\ pendingPassthrough' = pendingPassthrough
    BY <1>5, <1>r DEF GetKeyEntryGrantPre, GetKeyEntryPre, GetKeyEntryNoKeybox
  <2>4. \/ Answer(t, new, "ERROR")
        \/ modes[uid] # {"AUTO"} /\ Answer(t, new, "SYNTHETIC")
        \/ modes[uid] # {"AUTO"} /\ Answer(t, new, "HYBRID")
        \/ Continue(t, new)
        \/ Skip(t, new)
    <3>1. CASE GetKeyEntryGrantPre(t, uid, d)
      BY <3>1, <1>r DEF GetKeyEntryGrantPre, IsPlainAuto
    <3>2. CASE GetKeyEntryPre(t, uid, d)
      <4> HIDE DEF new
      <4>1. \/ Continue(t, new)
            \/ (NeedGenerate(uid) \/ ~NeedHack(uid)) /\ ServeOwnerOrSkip(t, new, uid, d)
            \/ ~IsPlainAuto(Uids, uid) /\ ServeLeafOrContinue(t, new, uid, d)
        BY <3>2, <1>r DEF GetKeyEntryPre, new
      <4> QED  BY <4>1, <1>r DEF ServeOwnerOrSkip, ServeLeafOrContinue
    <3>3. CASE GetKeyEntryNoKeybox(t, uid, d)
      BY <3>3 DEF GetKeyEntryNoKeybox
    <3> QED  BY <1>5, <3>1, <3>2, <3>3
  <2> HIDE DEF new
  <2> QED  BY <2>1, <2>2, <2>3, <2>4, <1>p, <1>e
<1> QED  BY <1>1, <1>2, <1>3, <1>4, <1>5

\* Every transaction of the real keystore ends in a reply.
LEMMA RealReplies ==
    ASSUME RealSound, NEW t \in Threads,
           \/ RealCreate(t) \/ RealDelete(t) \/ RealUpdate(t)
           \/ RealGrant(t) \/ RealUngrant(t) \/ RealGetKeyEntry(t)
    PROVE  /\ call[t] # None /\ call[t].pc = "real"
           /\ \E res \in Entries \cup {None} : \E trust \in {"OK", "REAL", "ERROR"} : RealReply(t, res, trust)
<1>0. call[t] # None /\ call[t].pc = "real"
  BY DEF RealCreate, RealDelete, RealUpdate, RealGrant, RealUngrant, RealGetKeyEntry, At
<1> DEFINE Replies == \E res \in Entries \cup {None} : \E trust \in {"OK", "REAL", "ERROR"} : RealReply(t, res, trust)
<1>a. ASSUME NEW res \in Entries \cup {None}, NEW trust \in {"OK", "REAL", "ERROR"}, RealReply(t, res, trust)
      PROVE  Replies
  BY <1>a
<1> HIDE DEF Replies
<1>f. RealFails(t) => Replies
  BY <1>a DEF RealFails
<1>1. ASSUME RealCreate(t) PROVE Replies
  <2>1. \A n \in free \cap RealIds : [ns |-> n, cert |-> IF call[t].kind = "symmetric" THEN None ELSE n] \in Entries
    BY DEF Entries, Ids
  <2> QED  BY <1>1, <1>a, <1>f, <2>1 DEF RealCreate
<1>2. ASSUME RealUpdate(t) PROVE Replies
  <2> DEFINE k == RealKey(call[t].uid, call[t].desc, "UPDATE")
  <2>1. RealFails(t) \/ (k # None /\ \E n \in free \cap RealIds : RealReply(t, [keystore[k] EXCEPT !.cert = n], "OK"))
    BY <1>2 DEF RealUpdate
  <2>2. k # None => keystore[k] \in Entries
    BY RealKeyExists
  <2> HIDE DEF k
  <2>3. k # None => \A n \in RealIds : [keystore[k] EXCEPT !.cert = n] \in Entries
    BY <2>2 DEF Entries, Ids
  <2> QED  BY <2>1, <2>3, <1>a, <1>f
<1>3. ASSUME RealGrant(t) PROVE Replies
  <2>1. \A n \in RealIds : [ns |-> n, cert |-> None] \in Entries
    BY DEF Entries, Ids
  <2>2. RealFails(t) \/ \E n \in RealIds : RealReply(t, [ns |-> n, cert |-> None], "OK")
    BY <1>3 DEF RealGrant
  <2> QED  BY <2>1, <2>2, <1>a, <1>f
<1>4. ASSUME RealDelete(t) PROVE Replies
  BY <1>4, <1>a, <1>f, RealKeyExists DEF RealDelete
<1>5. ASSUME RealUngrant(t) PROVE Replies
  BY <1>5, <1>a, <1>f, RealKeyExists DEF RealUngrant
<1>6. ASSUME RealGetKeyEntry(t) PROVE Replies
  BY <1>6, <1>a, RealKeyExists DEF RealGetKeyEntry
<1> QED  BY <1>0, <1>1, <1>2, <1>3, <1>4, <1>5, <1>6 DEF Replies

\* The post hooks and the steps after cryptography.
LEMMA AutoPost ==
    ASSUME AutoInv, CallsSound, CacheSound, NEW t \in Threads,
           \/ GenerateKeyStore(t) \/ GenerateKeyPost(t) \/ GenerateKeyResign(t)
           \/ ImportKeyPost(t) \/ DeleteKeyPost(t) \/ UpdateSubcomponentPost(t)
           \/ GrantPost(t) \/ GetKeyEntryPost(t) \/ GetKeyEntryResign(t)
    PROVE  AutoInv'
<1> USE DEF configVars
<1>0. /\ call[t] # None /\ call[t] \in Calls /\ CallShape(call[t]) /\ call[t].pc # "done"
      /\ AutoFine(call[t]) /\ Flagged(call[t], pendingPassthrough) /\ call[t].uid \in Uids
  BY DEF CallsSound, AutoInv, AutoCalls, Calls, GenerateKeyStore, GenerateKeyPost, GenerateKeyResign,
         ImportKeyPost, DeleteKeyPost, UpdateSubcomponentPost, GrantPost, GetKeyEntryPost,
         GetKeyEntryResign, At
<1>1. modes' = modes /\ pmAlive' = pmAlive
  BY DEF GenerateKeyStore, GenerateKeyPost, GenerateKeyResign, ImportKeyPost, DeleteKeyPost,
         UpdateSubcomponentPost, GrantPost, GetKeyEntryPost, GetKeyEntryResign
<1>2. uidPackages = Uids /\ Load(call[t].uid) = Uids
  BY <1>0, AutoRoute
<1>3. uidPackages' = Uids
  BY <1>2 DEF GenerateKeyStore, GenerateKeyPost, GenerateKeyResign, ImportKeyPost, DeleteKeyPost,
         UpdateSubcomponentPost, GrantPost, GetKeyEntryPost, GetKeyEntryResign
<1>4. \/ pendingPassthrough' = pendingPassthrough
      \/ Creates(call[t]) /\ pendingPassthrough' = pendingPassthrough \ {AliasOf(call[t])}
  BY <1>0 DEF GenerateKeyStore, GenerateKeyPost, GenerateKeyResign, ImportKeyPost, DeleteKeyPost,
         UpdateSubcomponentPost, GrantPost, GetKeyEntryPost, GetKeyEntryResign, Creates, AliasOf, KeyOf, At
<1>f. ASSUME NEW trust \in Trust, Finish(t, trust), call[t].auto => trust \notin {"HYBRID", "SYNTHETIC"}
      PROVE  AutoInv'
  BY <1>0, <1>1, <1>3, <1>4, <1>f, AutoFinish
<1>e. {"OK", "ERROR", "REAL", "HYBRID", "SYNTHETIC"} \subseteq Trust
  BY DEF Trust
<1>r. call[t].auto /\ call[t].pc \in {"synth", "resign"} => FALSE
  BY <1>0 DEF AutoFine
<1>5. CASE GenerateKeyStore(t)
  <2>1. call[t].pc = "synth" /\ ~call[t].auto
    BY <1>5, <1>r DEF GenerateKeyStore, At
  <2> DEFINE y == [call[t] EXCEPT !.pc = "real"]
  <2>2. Finish(t, "SYNTHETIC") \/ call' = [call EXCEPT ![t] = y]
    BY <1>5 DEF GenerateKeyStore
  <2>3. /\ y \in Calls /\ y.op = call[t].op /\ y.desc = call[t].desc /\ y.uid = call[t].uid
        /\ y.auto = call[t].auto
    BY <1>0 DEF Calls
  <2> HIDE DEF y
  <2>4. AutoFine(y) /\ Flagged(y, pendingPassthrough')
    BY <2>1, <2>3 DEF AutoFine, Flagged
  <2>5. CASE call' = [call EXCEPT ![t] = y]
    BY <2>3, <2>4, <2>5, <1>0, <1>1, <1>3, <1>4, AutoProgress
  <2> QED  BY <2>1, <2>2, <2>5, <1>f, <1>e
<1>6. CASE GenerateKeyPost(t)
  <2> DEFINE y == [call[t] EXCEPT !.pc = "resign", !.store = KeyOf(t)]
  <2>1. call[t].pc = "post" /\ call[t].op = "generateKey"
    BY <1>6 DEF GenerateKeyPost, At
  <2>2. \/ Finish(t, "ERROR") \/ Finish(t, "REAL")
        \/ KeyOf(t) \notin pendingPassthrough /\ call' = [call EXCEPT ![t] = y]
    BY <1>6 DEF GenerateKeyPost
  <2>3. CASE KeyOf(t) \notin pendingPassthrough /\ call' = [call EXCEPT ![t] = y]
    <3>1. KeyOf(t) \in Keys
      BY <1>0, <2>1 DEF KeyOf, Keys, Calls, CallShape
    <3>2. ~call[t].auto
      BY <2>1, <2>3, <1>0 DEF Flagged, Creates, AliasOf, KeyOf
    <3>3. /\ y \in Calls /\ y.op = call[t].op /\ y.desc = call[t].desc /\ y.uid = call[t].uid
          /\ y.auto = call[t].auto /\ y.pc = "resign"
      BY <1>0, <3>1 DEF Calls
    <3> HIDE DEF y
    <3>4. call' = [call EXCEPT ![t] = y]
      BY <2>3
    <3>6. AutoFine(y) /\ Flagged(y, pendingPassthrough')
      BY <3>2, <3>3 DEF AutoFine, Flagged
    <3> QED  BY <3>3, <3>4, <3>6, <1>0, <1>1, <1>3, <1>4, AutoProgress
  <2> QED  BY <2>2, <2>3, <1>f, <1>e
<1>7. CASE GenerateKeyResign(t) \/ GetKeyEntryResign(t)
  <2>1. call[t].pc = "resign" /\ (Finish(t, "HYBRID") \/ Finish(t, "REAL"))
    BY <1>7 DEF GenerateKeyResign, GetKeyEntryResign, At
  <2> QED  BY <2>1, <1>f, <1>e, <1>r
<1>8. CASE ImportKeyPost(t) \/ DeleteKeyPost(t) \/ UpdateSubcomponentPost(t) \/ GrantPost(t)
  <2>1. Finish(t, "ERROR") \/ Finish(t, "OK") \/ Finish(t, "REAL")
    BY <1>8 DEF ImportKeyPost, DeleteKeyPost, UpdateSubcomponentPost, GrantPost
  <2> QED  BY <2>1, <1>f, <1>e
<1>9. CASE GetKeyEntryPost(t)
  <2> DEFINE n == cache.keysByNspace[call[t].res.ns]
             y == [call[t] EXCEPT !.pc = "resign", !.store = n]
  <2>1. call[t].auto => IsPlainAuto(uidPackages, call[t].uid)
    BY <1>0, <1>2 DEF AutoFine, IsPlainAuto
  <2>2. \/ Finish(t, "ERROR") \/ Finish(t, "REAL")
        \/ ~IsPlainAuto(uidPackages, call[t].uid) /\ Finish(t, "HYBRID")
        \/ ~IsPlainAuto(uidPackages, call[t].uid) /\ Finish(t, "SYNTHETIC")
        \/ /\ ~IsPlainAuto(uidPackages, call[t].uid) /\ call[t].res # None
           /\ call' = [call EXCEPT ![t] = y]
    BY <1>9 DEF GetKeyEntryPost, Decide
  <2>3. CASE /\ ~IsPlainAuto(uidPackages, call[t].uid) /\ call[t].res # None
             /\ call' = [call EXCEPT ![t] = y]
    <3>1. n \in Keys \cup {None}
      BY <1>0, <2>3 DEF CallShape, CacheSound, Sound, Caches, Ids
    <3> HIDE DEF n
    <3>2. /\ y \in Calls /\ y.op = call[t].op /\ y.desc = call[t].desc /\ y.uid = call[t].uid
          /\ y.auto = call[t].auto
      BY <1>0, <3>1 DEF Calls
    <3> HIDE DEF y
    <3>3. AutoFine(y) /\ Flagged(y, pendingPassthrough')
      BY <2>1, <2>3, <3>2 DEF AutoFine, Flagged
    <3> QED  BY <2>3, <3>2, <3>3, <1>0, <1>1, <1>3, <1>4, AutoProgress
  <2> QED  BY <2>1, <2>2, <2>3, <1>f, <1>e
<1> QED  BY <1>5, <1>6, <1>7, <1>8, <1>9

\* target.txt, keybox.xml, the package manager, and the end of a call.
LEMMA AutoConfig ==
    ASSUME AutoInv, CallsSound, ConfigSound,
           \/ \E t \in Threads : Return(t)
           \/ \E uid \in Uids : \E m \in ModeSets[uid] : UpdateTargetPackages(uid, m)
           \/ \E parsed \in BOOLEAN : UpdateKeyBox(parsed)
           \/ PmDies
           \/ PmReturns
    PROVE  AutoInv'
<1>0. uidPackages = Uids /\ pmAlive = TRUE /\ "pmDies" \notin Env /\ call \in [Threads -> Calls \cup {None}]
  BY DEF AutoInv, AutoSetting, PackagesLoaded, CallsSound
<1>1. ASSUME NEW t \in Threads, Return(t) PROVE AutoInv'
  <2>1. call' = [call EXCEPT ![t] = None] /\ UNCHANGED <<pendingPassthrough, uidPackages, configVars>>
    BY <1>1 DEF Return
  <2>2. ~Creates(None)
    BY DEF Creates
  <2>3. modes' = modes /\ pmAlive' = pmAlive /\ uidPackages' = Uids /\ pendingPassthrough' = pendingPassthrough
    BY <2>1, <1>0 DEF configVars
  <2> QED  BY <2>1, <2>2, <2>3, AutoStep
<1>2. ASSUME NEW uid \in Uids, NEW m \in ModeSets[uid], UpdateTargetPackages(uid, m) PROVE AutoInv'
  <2>1. /\ call' = [s \in Threads |->
                       IF call[s] # None /\ call[s].uid = uid /\ m # {"AUTO"}
                       THEN [call[s] EXCEPT !.auto = FALSE] ELSE call[s]]
        /\ modes' = [modes EXCEPT ![uid] = m]
        /\ UNCHANGED <<pendingPassthrough, uidPackages, pmAlive>>
    BY <1>2 DEF UpdateTargetPackages
  <2>2. ASSUME NEW t \in Threads, call'[t] # None
        PROVE  /\ call[t] # None
               /\ call'[t].op = call[t].op /\ call'[t].uid = call[t].uid /\ call'[t].desc = call[t].desc
               /\ call'[t].pc = call[t].pc /\ call'[t].trust = call[t].trust /\ call'[t].post = call[t].post
               /\ call'[t].auto => call[t].auto /\ (call[t].uid = uid => m = {"AUTO"})
    <3> DEFINE y == [call[t] EXCEPT !.auto = FALSE]
    <3>1. call[t] # None =>
            /\ y.op = call[t].op /\ y.desc = call[t].desc /\ y.uid = call[t].uid
            /\ y.pc = call[t].pc /\ y.trust = call[t].trust /\ y.post = call[t].post /\ y.auto = FALSE
      BY <1>0 DEF Calls
    <3>2. \/ call[t] # None /\ call'[t] = y
          \/ ~(call[t] # None /\ call[t].uid = uid /\ m # {"AUTO"}) /\ call'[t] = call[t]
      BY <2>1
    <3> HIDE DEF y
    <3> QED  BY <2>2, <3>1, <3>2
  <2>3. ASSUME NEW t \in Threads, call'[t] # None
        PROVE  AutoFine(call[t])' /\ Flagged(call[t], pendingPassthrough)'
    <3>1. AutoFine(call[t]) /\ Flagged(call[t], pendingPassthrough) /\ call[t] # None /\ call[t].uid \in Uids
      BY <2>2, <2>3, <1>0 DEF AutoInv, AutoCalls, Calls
    <3>2. call'[t].auto => modes'[call[t].uid] = {"AUTO"}
      BY <2>1, <2>2, <2>3, <3>1 DEF AutoFine, ConfigSound
    <3>3. AutoFine(call[t])'
      BY <3>1, <3>2, <2>2, <2>3 DEF AutoFine
    <3>4. Flagged(call[t], pendingPassthrough)'
      BY <3>1, <2>1, <2>2, <2>3 DEF Flagged, Creates, AliasOf
    <3> QED  BY <3>3, <3>4
  <2>4. OneCreator'
    <3>1. \A t \in Threads : Creates(call'[t]) => Creates(call[t]) /\ AliasOf(call'[t]) = AliasOf(call[t])
      BY <2>2 DEF Creates, AliasOf
    <3>2. \A s, t \in Threads :
            Creates(call'[s]) /\ Creates(call'[t]) /\ AliasOf(call'[s]) = AliasOf(call'[t]) => s = t
      BY <3>1 DEF AutoInv, OneCreator
    <3> QED  BY <3>2 DEF OneCreator, Creates, AliasOf
  <2>5. PackagesLoaded'
    BY <2>1, <1>0 DEF PackagesLoaded
  <2> QED  BY <2>3, <2>4, <2>5 DEF AutoInv, AutoSetting, AutoCalls
<1>3. ASSUME NEW parsed \in BOOLEAN, UpdateKeyBox(parsed) PROVE AutoInv'
  BY <1>3 DEF UpdateKeyBox, AutoInv, AutoSetting, PackagesLoaded, OneCreator, AutoCalls, AutoFine, Flagged, Creates, AliasOf
<1>4. ~PmDies /\ ~PmReturns
  BY <1>0 DEF PmDies, PmReturns
<1> QED  BY <1>1, <1>2, <1>3, <1>4

\* Every step keeps AutoInv.
LEMMA AutoNext == IInv /\ AutoInv /\ [Next]_vars => AutoInv'
<1> SUFFICES ASSUME IInv, AutoInv, [Next]_vars PROVE AutoInv'
  OBVIOUS
<1>0. CacheSound /\ CallsSound /\ RealSound /\ ConfigSound
  BY DEF IInv
<1>1. ASSUME NEW t \in Threads, NEW uid \in Uids, NEW alias \in Aliases,
             \/ GenerateKeyReject(t, uid, alias)
             \/ \E kind \in Kinds : GenerateKeyPre(t, uid, alias, kind)
             \/ ImportKeyPre(t, uid, alias)
      PROVE  AutoInv'
  BY <1>0, <1>1, AutoCreatePre
<1>2. ASSUME NEW t \in Threads, NEW uid \in Uids, NEW d \in CallDescriptors,
             \/ DeleteKeyPre(t, uid, d)
             \/ UpdateSubcomponentPre(t, uid, d)
             \/ GetKeyEntryGrantPre(t, uid, d)
             \/ GetKeyEntryPre(t, uid, d)
             \/ GetKeyEntryNoKeybox(t, uid, d)
             \/ \E to \in GrantArgs : GrantPre(t, uid, d, to)
             \/ \E grantee \in Uids :
                  UngrantPre(t, uid, d, [grantee |-> grantee, accessVector |-> {}])
      PROVE  AutoInv'
  <2>1. d \in Descriptors
    BY DescriptorType
  <2>2. GrantArgs \subseteq GrantRequests
    BY HooksAssumption DEF GrantArgs, GrantRequests
  <2>3. \A grantee \in Uids : [grantee |-> grantee, accessVector |-> {}] \in GrantRequests
    BY DEF GrantRequests
  <2> QED  BY <1>0, <1>2, <2>1, <2>2, <2>3, AutoServicePre
<1>3. ASSUME NEW t \in Threads,
             \/ RealCreate(t) \/ RealDelete(t) \/ RealUpdate(t)
             \/ RealGrant(t) \/ RealUngrant(t) \/ RealGetKeyEntry(t)
      PROVE  AutoInv'
  <2>1. /\ call[t] # None /\ call[t].pc = "real"
        /\ \E res \in Entries \cup {None} : \E trust \in {"OK", "REAL", "ERROR"} : RealReply(t, res, trust)
    BY <1>0, <1>3, RealReplies
  <2>2. UNCHANGED <<modes, pmAlive, uidPackages, pendingPassthrough>>
    BY <1>3 DEF RealCreate, RealDelete, RealUpdate, RealGrant, RealUngrant, RealGetKeyEntry, configVars
  <2> QED  BY <1>0, <2>1, <2>2, AutoReply
<1>4. ASSUME NEW t \in Threads,
             \/ GenerateKeyStore(t) \/ GenerateKeyPost(t) \/ GenerateKeyResign(t)
             \/ ImportKeyPost(t) \/ DeleteKeyPost(t) \/ UpdateSubcomponentPost(t)
             \/ GrantPost(t) \/ GetKeyEntryPost(t) \/ GetKeyEntryResign(t)
      PROVE  AutoInv'
  BY <1>0, <1>4, AutoPost
<1>5. ASSUME \/ \E t \in Threads : Return(t)
             \/ \E uid \in Uids : \E m \in ModeSets[uid] : UpdateTargetPackages(uid, m)
             \/ \E parsed \in BOOLEAN : UpdateKeyBox(parsed)
             \/ PmDies
             \/ PmReturns
      PROVE  AutoInv'
  BY <1>0, <1>5, AutoConfig
<1>6. CASE UNCHANGED vars
  BY <1>6 DEF vars, AutoInv, AutoSetting, PackagesLoaded, OneCreator, AutoCalls, AutoFine, Flagged, Creates, AliasOf
<1> QED  BY <1>1, <1>2, <1>3, <1>4, <1>5, <1>6 DEF Next

\* While the packages of every UID are loaded and the applications wait for
\* each answer on a key, a UID that is plain AUTO throughout a call never
\* gets a re-signed or a software chain from it: the generate route is not
\* taken, every cached owner is passed over, and the passthrough flag that
\* the pre hook of generateKey leaves is still there for its post hook.
THEOREM AutoTheorem == AutoSetting /\ Spec => []AutoUnmodified
<1>1. AutoSetting /\ Init => AutoInv
  BY DEF Init, AutoInv, AutoSetting, PackagesLoaded, OneCreator, AutoCalls, Creates
<1>2. AutoInv => AutoUnmodified
  BY DEF AutoInv, AutoCalls, AutoFine, AutoUnmodified
<1> QED  BY <1>1, <1>2, InitInv, NextInv, AutoNext, PTL DEF Spec
==============================================================================
