------------------------ MODULE OwnershipWritesProofs ------------------------
(***************************************************************************)
(* TearsStayLocal and NumbersKeepTheirKey hold of Spec for all sets of     *)
(* keys, numbers and threads, with the hooks of all threads interleaving   *)
(* at every map operation.                                                 *)
(*                                                                         *)
(* Neither property speaks of hooks in flight.  IInv adds what a hook has  *)
(* achieved so far on every key it governs, that is, a key that no other   *)
(* hook is on and that was consistent when it started or that it clears    *)
(* itself; that a governed key has no second hook; and that every number a *)
(* hook holds was drawn for its own key.  An operation then changes what   *)
(* the maps say of the hook's own keys only, which no other hook governs.  *)
(***************************************************************************)
EXTENDS OwnershipWrites, TLAPS

-----------------------------------------------------------------------------
(* The inductive invariant *)

\* The hooks that run Clear, and how many operations come before it.
Clearing == {"cleanup", "clear", "promote", "store", "leaf"}
Lead(kind) == IF kind \in {"store", "leaf"} THEN 2 ELSE 0

\* h has done operation i of Clear, or operation j of cleanupAll.
Past(h, i, j) ==
    \/ h.kind \in Clearing /\ h.at > i + Lead(h.kind)
    \/ h.kind = "reload" /\ h.at > j

Indexed(h) ==
    \/ h.kind = "promote" /\ h.at > 7
    \/ h.kind = "store" /\ h.at > 9

Untracked(h) ==
    \/ h.kind \in {"store", "leaf"} /\ h.at > 1
    \/ h.kind = "cleanup" /\ h.at > 7
    \/ h.kind = "reload" /\ h.at > 2

Unnumbered(h) ==
    \/ h.kind \in {"store", "leaf"} /\ h.at > 2
    \/ h.kind = "reload" /\ h.at > 3

\* What the hook h has achieved on the key k.
Achieved(h, k) ==
    /\ Past(h, 3, 5) /\ ~Indexed(h) => \A n \in KeyIds : keysByNspace[n] # k
    /\ Indexed(h) => keysByNspace[h.n] = k
    /\ Past(h, 4, 1) => keys[k] = None
    /\ Past(h, 5, 4) /\ ~(h.kind = "leaf" /\ h.at = 11) => k \notin patchedResponses
    /\ h.kind = "leaf" /\ h.at = 11 => k \in patchedResponses
    /\ Past(h, 6, 6) => \A n \in GrantIds : grants[n] # k
    /\ Untracked(h) => k \notin tracked
    /\ h.kind = "promote" /\ h.at > 8 => k \in tracked
    /\ Unnumbered(h) => \A n \in KeyIds : byNspace[n] # k

\* What a hook that does not clear everything relies on.
Relies(h, k) ==
    /\ h.kind \in {"clear", "promote", "load"} => \A n \in KeyIds : byNspace[n] = k => k \in tracked
    /\ h.kind \in {"patch", "grant", "ungrant"} => Consistent(k)
    /\ h.kind = "grant" /\ h.at = 2 => k \in Generated \cup patchedResponses
    /\ h.kind = "load" /\ h.at = 1 => Consistent(k)
    /\ h.kind = "load" /\ h.at = 2 => keys[k] = h.n

Governs(t, k) == k \in hook[t].cleans \/ (k \in hook[t].on /\ k \notin unsettled)

HooksOnTrack ==
    \A t \in Threads : hook[t] # None =>
        \A k \in Keys : Governs(t, k) => Achieved(hook[t], k) /\ Relies(hook[t], k)

\* A hook and the numbers it holds.
WellFormed(h) ==
    /\ h.at <= Len(Program[h.kind])
    /\ h.cleans \subseteq h.on
    /\ h.kind = "reload" => h.on = Keys
    /\ h.kind # "reload" => \E k \in Keys : h.on = {k}
    /\ h.kind \in {"store", "leaf", "promote", "load"} => h.n \in KeyIds /\ drawnFor[h.n] \in h.on
    /\ h.kind = "grant" => h.n \in GrantIds /\ drawnFor[h.n] \in h.on
    /\ h.gone # None => drawnFor[h.gone] \in h.on
    /\ h.kind = "load" => restoring
    /\ h.kind = "promote" => ~restoring
    /\ IF h.kind \in Cleaning THEN h.on \ h.cleans \subseteq unsettled ELSE h.cleans = {}

HooksWellFormed == \A t \in Threads : hook[t] # None => WellFormed(hook[t])

\* Hooks that share a key leave it unsettled, and neither will settle it.
Exclusive ==
    \A s, t \in Threads : s # t => \A k \in On(s) \cap On(t) : k \in unsettled /\ k \notin hook[t].cleans

NumbersOwned ==
    /\ NumbersKeepTheirKey
    /\ \A k \in Generated : drawnFor[keys[k]] = k

NothingTracked == restoring => tracked = {}

IInv ==
    /\ TypeOK
    /\ HooksWellFormed
    /\ Exclusive
    /\ NumbersOwned
    /\ NothingTracked
    /\ HooksOnTrack
    /\ TearsStayLocal

-----------------------------------------------------------------------------
(* The programs, spelled out *)

LEMMA Lengths ==
    /\ Kinds = {"cleanup", "clear", "store", "leaf", "promote", "patch", "grant", "ungrant",
                "load", "reload"}
    /\ Len(Program["cleanup"]) = 8 /\ Len(Program["clear"]) = 6
    /\ Len(Program["store"]) = 11 /\ Len(Program["leaf"]) = 11
    /\ Len(Program["promote"]) = 9 /\ Len(Program["patch"]) = 2
    /\ Len(Program["grant"]) = 2 /\ Len(Program["ungrant"]) = 1
    /\ Len(Program["load"]) = 2 /\ Len(Program["reload"]) = 6
<1>1. Kinds = {"cleanup", "clear", "store", "leaf", "promote", "patch", "grant", "ungrant",
               "load", "reload"}
  BY DEF Kinds, Program
<1>2. Len(Program["cleanup"]) = 8 /\ Len(Program["clear"]) = 6 /\ Len(Program["promote"]) = 9
  BY DEF Program, Clear, Relinquish, Promote
<1>3. Len(Program["store"]) = 11 /\ Len(Program["leaf"]) = 11
  BY DEF Program, Clear, Relinquish, StoreGeneratedKey, LeafForward
<1>4. /\ Len(Program["patch"]) = 2 /\ Len(Program["grant"]) = 2 /\ Len(Program["ungrant"]) = 1
      /\ Len(Program["load"]) = 2 /\ Len(Program["reload"]) = 6
  BY DEF Program, ClearAll
<1> QED  BY <1>1, <1>2, <1>3, <1>4

\* The last operation of a hook of that kind.
Last(kind) ==
    IF kind \in {"store", "leaf"} THEN 11 ELSE IF kind = "promote" THEN 9
    ELSE IF kind = "cleanup" THEN 8 ELSE IF kind \in {"clear", "reload"} THEN 6
    ELSE IF kind = "ungrant" THEN 1 ELSE 2

LEMMA LastIsLength == ASSUME NEW kind \in Kinds PROVE Len(Program[kind]) = Last(kind)
BY Lengths DEF Last

\* Operation i of a hook of that kind is op.
Place(kind, i, op) ==
    CASE op = "readKey"    -> kind \in Clearing /\ i = 1 + Lead(kind)
      [] op = "unindexOwn" -> kind \in Clearing /\ i = 2 + Lead(kind)
      [] op = "unindex"    -> \/ kind \in Clearing /\ i = 3 + Lead(kind)
                              \/ kind = "reload" /\ i = 5
      [] op = "dropKey"    -> \/ kind \in Clearing /\ i = 4 + Lead(kind)
                              \/ kind = "reload" /\ i = 1
      [] op = "dropPatch"  -> \/ kind \in Clearing /\ i = 5 + Lead(kind)
                              \/ kind = "reload" /\ i = 4
      [] op = "dropGrants" -> \/ kind \in Clearing /\ i = 6 + Lead(kind)
                              \/ kind = "reload" /\ i = 6
      [] op = "untrack"    -> \/ kind \in {"store", "leaf"} /\ i = 1
                              \/ kind = "cleanup" /\ i = 7
                              \/ kind = "reload" /\ i = 2
      [] op = "unnumber"   -> \/ kind \in {"store", "leaf"} /\ i = 2
                              \/ kind = "cleanup" /\ i = 8
                              \/ kind = "reload" /\ i = 3
      [] op = "index"      -> \/ kind = "store" /\ i = 9
                              \/ kind = "leaf" /\ i = 11
                              \/ kind = "promote" /\ i = 7
                              \/ kind = "load" /\ i = 2
      [] op = "build"      -> kind = "store" /\ i = 10
      [] op = "putKey"     -> (kind = "store" /\ i = 11) \/ (kind = "load" /\ i = 1)
      [] op = "resign"     -> (kind = "leaf" /\ i = 9) \/ (kind = "patch" /\ i = 1)
      [] op = "putPatch"   -> (kind = "leaf" /\ i = 10) \/ (kind = "patch" /\ i = 2)
      [] op = "track"      -> kind = "promote" /\ i = 8
      [] op = "number"     -> kind = "promote" /\ i = 9
      [] op = "check"      -> kind = "grant" /\ i = 1
      [] op = "putGrant"   -> kind = "grant" /\ i = 2
      [] op = "dropGrant"  -> kind = "ungrant" /\ i = 1
      [] OTHER             -> FALSE

\* Where each operation stands in the programs.
LEMMA Places ==
    ASSUME NEW kind \in Kinds, NEW i \in Nat, 1 <= i, i <= Len(Program[kind])
    PROVE  Place(kind, i, Program[kind][i])
<1> USE DEF Place, Clearing, Lead
<1>1. CASE kind = "cleanup"
  <2>1. i \in 1..8  BY <1>1, Lengths
  <2> QED  BY <1>1, <2>1 DEF Program, Clear, Relinquish
<1>2. CASE kind = "clear"
  <2>1. i \in 1..6  BY <1>2, Lengths
  <2> QED  BY <1>2, <2>1 DEF Program, Clear
<1>3. CASE kind = "store"
  <2>1. \/ i = 1 \/ i = 2 \/ i = 3 \/ i = 4 \/ i = 5 \/ i = 6
        \/ i = 7 \/ i = 8 \/ i = 9 \/ i = 10 \/ i = 11
    BY <1>3, Lengths
  <2>2. /\ Program["store"][1] = "untrack" /\ Program["store"][2] = "unnumber"
        /\ Program["store"][3] = "readKey" /\ Program["store"][4] = "unindexOwn"
    BY DEF Program, StoreGeneratedKey, Clear, Relinquish
  <2>3. /\ Program["store"][5] = "unindex" /\ Program["store"][6] = "dropKey"
        /\ Program["store"][7] = "dropPatch" /\ Program["store"][8] = "dropGrants"
    BY DEF Program, StoreGeneratedKey, Clear, Relinquish
  <2>4. /\ Program["store"][9] = "index" /\ Program["store"][10] = "build"
        /\ Program["store"][11] = "putKey"
    BY DEF Program, StoreGeneratedKey, Clear, Relinquish
  <2>5. CASE i = 1 \/ i = 2 \/ i = 3 \/ i = 4
    BY <1>3, <2>2, <2>5
  <2>6. CASE i = 5 \/ i = 6 \/ i = 7 \/ i = 8
    BY <1>3, <2>3, <2>6
  <2>7. CASE i = 9 \/ i = 10 \/ i = 11
    BY <1>3, <2>4, <2>7
  <2> QED  BY <2>1, <2>5, <2>6, <2>7
<1>4. CASE kind = "leaf"
  <2>1. \/ i = 1 \/ i = 2 \/ i = 3 \/ i = 4 \/ i = 5 \/ i = 6
        \/ i = 7 \/ i = 8 \/ i = 9 \/ i = 10 \/ i = 11
    BY <1>4, Lengths
  <2>2. /\ Program["leaf"][1] = "untrack" /\ Program["leaf"][2] = "unnumber"
        /\ Program["leaf"][3] = "readKey" /\ Program["leaf"][4] = "unindexOwn"
    BY DEF Program, LeafForward, Clear, Relinquish
  <2>3. /\ Program["leaf"][5] = "unindex" /\ Program["leaf"][6] = "dropKey"
        /\ Program["leaf"][7] = "dropPatch" /\ Program["leaf"][8] = "dropGrants"
    BY DEF Program, LeafForward, Clear, Relinquish
  <2>4. /\ Program["leaf"][9] = "resign" /\ Program["leaf"][10] = "putPatch"
        /\ Program["leaf"][11] = "index"
    BY DEF Program, LeafForward, Clear, Relinquish
  <2>5. CASE i = 1 \/ i = 2 \/ i = 3 \/ i = 4
    BY <1>4, <2>2, <2>5
  <2>6. CASE i = 5 \/ i = 6 \/ i = 7 \/ i = 8
    BY <1>4, <2>3, <2>6
  <2>7. CASE i = 9 \/ i = 10 \/ i = 11
    BY <1>4, <2>4, <2>7
  <2> QED  BY <2>1, <2>5, <2>6, <2>7
<1>5. CASE kind = "promote"
  <2>1. i \in 1..9  BY <1>5, Lengths
  <2> QED  BY <1>5, <2>1 DEF Program, Promote, Clear
<1>6. CASE kind \in {"patch", "grant", "ungrant", "load"}
  <2>1. CASE kind = "patch"
    BY <2>1, Lengths DEF Program
  <2>2. CASE kind = "grant"
    BY <2>2, Lengths DEF Program
  <2>3. CASE kind = "ungrant"
    BY <2>3, Lengths DEF Program
  <2>4. CASE kind = "load"
    BY <2>4, Lengths DEF Program
  <2> QED  BY <1>6, <2>1, <2>2, <2>3, <2>4
<1>7. CASE kind = "reload"
  <2>1. i \in 1..6  BY <1>7, Lengths
  <2> QED  BY <1>7, <2>1 DEF Program, ClearAll
<1> QED  BY <1>1, <1>2, <1>3, <1>4, <1>5, <1>6, <1>7, Lengths

-----------------------------------------------------------------------------
(* A step of one hook, seen from the others *)

\* The maps say the same of k before and after the step.
SameFor(k) ==
    /\ keys'[k] = keys[k]
    /\ k \in patchedResponses' <=> k \in patchedResponses
    /\ k \in tracked' <=> k \in tracked
    /\ \A n \in KeyIds : (keysByNspace'[n] = k) <=> (keysByNspace[n] = k)
    /\ \A n \in KeyIds : (byNspace'[n] = k) <=> (byNspace[n] = k)
    /\ \A n \in GrantIds : (grants'[n] = k) <=> (grants[n] = k)

\* Then k is as consistent as it was.
LEMMA SameConsistent ==
    ASSUME TypeOK, TypeOK', NEW k \in Keys, SameFor(k), Consistent(k)
    PROVE  Consistent(k)'
BY WritesAssumption DEF TypeOK, SameFor, Consistent, Generated

\* And a hook on k that does not move has achieved what it had.
LEMMA SameOnTrack ==
    ASSUME TypeOK, TypeOK', NEW k \in Keys, SameFor(k),
           NEW t \in Threads, hook[t] # None, hook'[t] # None,
           hook'[t].kind = hook[t].kind, hook'[t].at = hook[t].at, hook'[t].n = hook[t].n,
           WellFormed(hook[t]),
           Achieved(hook[t], k), Relies(hook[t], k)
    PROVE  Achieved(hook[t], k)' /\ Relies(hook[t], k)'
<1>1. Consistent(k) => Consistent(k)'
  BY SameConsistent
<1>2. Relies(hook[t], k)'
  BY <1>1 DEF Relies, SameFor, Generated
<1>3. Indexed(hook[t]) => hook[t].n \in KeyIds
  BY DEF Indexed, WellFormed
<1>4. Achieved(hook[t], k)'
  BY <1>3 DEF Achieved, Past, Indexed, Untracked, Unnumbered, SameFor
<1> QED  BY <1>2, <1>4

\* Thread t does one operation of its hook, and perhaps returns.
Moves(t) ==
    /\ hook' = [hook EXCEPT ![t] = hook'[t]]
    /\ hook'[t] \in Hooks \cup {None}
    /\ hook'[t] # None =>
         /\ hook'[t].kind = hook[t].kind /\ hook'[t].on = hook[t].on
         /\ hook'[t].n = hook[t].n /\ hook'[t].cleans = hook[t].cleans
         /\ hook'[t].at = hook[t].at + 1 /\ hook[t].at < Len(Program[hook[t].kind])
         /\ hook'[t].gone # None => drawnFor[hook'[t].gone] \in hook[t].on
         /\ unsettled' = unsettled
    /\ hook'[t] = None =>
         /\ unsettled' \subseteq Keys
         /\ \A k \in hook[t].on : k \in unsettled' \/ Governs(t, k)
         /\ \A k \in Keys \ hook[t].on : k \in unsettled' <=> k \in unsettled
    /\ UNCHANGED <<restoring, drawnFor>>

\* The maps after a step are maps.
MapsType ==
    /\ keys \in [Keys -> KeyIds \cup {None}]
    /\ keysByNspace \in [KeyIds -> Keys \cup {None}]
    /\ patchedResponses \subseteq Keys
    /\ grants \in [GrantIds -> Keys \cup {None}]
    /\ tracked \subseteq Keys
    /\ byNspace \in [KeyIds -> Keys \cup {None}]

\* A hook's operation keeps the invariant when it tells nothing new of other
\* keys, keeps the numbers, and leaves its own governed keys on track.
LEMMA MoveStep ==
    ASSUME IInv, NEW t \in Threads, hook[t] # None, Moves(t), MapsType',
           \A k \in Keys \ hook[t].on : SameFor(k),
           NumbersOwned', NothingTracked',
           \A k \in hook[t].on : Governs(t, k) =>
               IF hook'[t] = None THEN Consistent(k)' \/ k \in unsettled'
               ELSE Achieved(hook[t], k)' /\ Relies(hook[t], k)'
    PROVE  IInv'
<1>0. /\ TypeOK /\ HooksWellFormed /\ Exclusive /\ HooksOnTrack /\ TearsStayLocal
      /\ WellFormed(hook[t]) /\ hook[t] \in Hooks
  BY DEF IInv, HooksWellFormed, TypeOK
<1>1. TypeOK'
  BY <1>0 DEF TypeOK, Moves, MapsType
<1>2. \A s \in Threads : s # t => hook'[s] = hook[s]
  BY <1>0 DEF Moves, TypeOK
<1>3. hook[t].on \subseteq Keys /\ hook[t].cleans \subseteq hook[t].on
  BY <1>0 DEF Hooks, WellFormed
<1>4. \A s \in Threads : s # t => \A k \in On(s) \cap hook[t].on :
          k \in unsettled /\ k \in unsettled' /\ k \notin hook[s].cleans /\ ~Governs(t, k)
  <2> SUFFICES ASSUME NEW s \in Threads, s # t, NEW k \in On(s) \cap hook[t].on
               PROVE  k \in unsettled /\ k \in unsettled' /\ k \notin hook[s].cleans /\ ~Governs(t, k)
    OBVIOUS
  <2>1. On(t) = hook[t].on
    BY DEF On
  <2>2. k \in unsettled /\ k \notin hook[s].cleans /\ k \notin hook[t].cleans
    BY <1>0, <2>1 DEF Exclusive
  <2>3. ~Governs(t, k)
    BY <2>2 DEF Governs
  <2> QED  BY <2>2, <2>3 DEF Moves
<1>5. HooksWellFormed'
  <2> SUFFICES ASSUME NEW s \in Threads, hook'[s] # None PROVE WellFormed(hook[s])'
    BY DEF HooksWellFormed
  <2>1. CASE s = t
    <3>1. hook'[t].at \in Nat /\ hook[t].at \in Nat
      BY <1>0, <2>1 DEF Moves, Hooks
    <3>2. hook[t].kind \in Kinds /\ Len(Program[hook[t].kind]) \in Nat
      BY <1>0, Lengths DEF Hooks
    <3> QED  BY <1>0, <2>1, <3>1, <3>2 DEF Moves, WellFormed
  <2>2. CASE s # t
    <3>1. hook'[s] = hook[s] /\ WellFormed(hook[s]) /\ hook[s] \in Hooks
      BY <1>0, <1>2, <2>2 DEF HooksWellFormed, TypeOK
    <3>2. On(s) = hook[s].on /\ hook[s].on \subseteq Keys
      BY <1>2, <2>2, <3>1 DEF On, Hooks
    <3>3. \A k \in hook[s].on : k \in unsettled => k \in unsettled' \/ k \in hook[s].cleans
      <4> SUFFICES ASSUME NEW k \in hook[s].on, k \in unsettled PROVE k \in unsettled'
        OBVIOUS
      <4>1. CASE k \in hook[t].on
        BY <1>4, <2>2, <3>2, <4>1
      <4>2. CASE k \notin hook[t].on
        BY <3>2, <4>2 DEF Moves
      <4> QED  BY <4>1, <4>2
    <3> QED  BY <3>1, <3>3 DEF WellFormed, Moves
  <2> QED  BY <2>1, <2>2
<1>6. \A s \in Threads : On(s)' \subseteq On(s) /\ (s # t => On(s)' = On(s))
  BY <1>2 DEF On, Moves
<1>7. \A k \in Keys : k \in unsettled /\ k \notin hook[t].on => k \in unsettled'
  BY DEF Moves
<1>8. Exclusive'
  <2> SUFFICES ASSUME NEW r \in Threads, NEW s \in Threads, r # s, NEW k \in On(r)' \cap On(s)'
               PROVE  k \in unsettled' /\ k \notin hook'[s].cleans
    BY DEF Exclusive
  <2>1. k \in On(r) \cap On(s) /\ k \in unsettled /\ k \notin hook[s].cleans
    BY <1>0, <1>6 DEF Exclusive
  <2>2. hook'[s] # None /\ hook'[r] # None
    BY DEF On
  <2>3. hook'[s].cleans = hook[s].cleans
    BY <1>2, <2>2 DEF Moves
  <2>4. k \in Keys
    BY <1>0, <2>1 DEF On, TypeOK, Hooks
  <2>5. CASE k \in hook[t].on
    <3>1. CASE s = t
      BY <1>4, <2>1, <2>3, <2>5, <3>1
    <3>2. CASE s # t
      BY <1>4, <2>1, <2>3, <2>5, <3>2
    <3> QED  BY <3>1, <3>2
  <2>6. CASE k \notin hook[t].on
    BY <1>7, <2>1, <2>3, <2>4, <2>6
  <2> QED  BY <2>5, <2>6
<1>9. HooksOnTrack'
  <2> SUFFICES ASSUME NEW s \in Threads, hook'[s] # None, NEW k \in Keys, Governs(s, k)'
               PROVE  Achieved(hook[s], k)' /\ Relies(hook[s], k)'
    BY DEF HooksOnTrack
  <2>1. CASE s = t
    <3>1. Governs(t, k) /\ k \in hook[t].on
      BY <1>3, <2>1 DEF Governs, Moves
    <3> QED  BY <2>1, <3>1
  <2>2. CASE s # t
    <3>1. hook'[s] = hook[s] /\ WellFormed(hook[s])
      BY <1>0, <1>2, <2>2 DEF HooksWellFormed
    <3>2. On(s) = hook[s].on /\ k \in hook[s].on
      BY <3>1 DEF On, Governs, WellFormed
    <3>3. k \notin hook[t].on
      BY <1>4, <2>2, <3>1, <3>2 DEF Governs
    <3>4. Governs(s, k)
      BY <3>1, <3>3 DEF Governs, Moves
    <3>5. Achieved(hook[s], k) /\ Relies(hook[s], k)
      BY <1>0, <3>1, <3>4 DEF HooksOnTrack
    <3> QED  BY <1>0, <1>1, <3>1, <3>3, <3>5, SameOnTrack
  <2> QED  BY <2>1, <2>2
<1>10. TearsStayLocal'
  <2> SUFFICES ASSUME NEW k \in Keys, k \notin unsettled', k \notin InFlight' PROVE Consistent(k)'
    BY DEF TearsStayLocal
  <2>1. CASE k \in hook[t].on
    <3>1. hook'[t] = None
      BY <2>1 DEF InFlight, On, Moves
    <3>2. Governs(t, k)
      BY <2>1, <3>1 DEF Moves
    <3> QED  BY <2>1, <3>1, <3>2
  <2>2. CASE k \notin hook[t].on
    <3>1. k \notin unsettled
      BY <1>7, <2>2
    <3>2. k \notin InFlight
      BY <1>6, <2>2 DEF InFlight, On
    <3> QED  BY <1>0, <1>1, <2>2, <3>1, <3>2, SameConsistent DEF TearsStayLocal
  <2> QED  BY <2>1, <2>2
<1> QED  BY <1>1, <1>5, <1>8, <1>9, <1>10 DEF IInv

-----------------------------------------------------------------------------
(* The operations *)

\* A hook at an operation, and where its program has it.
LEMMA AtPlace ==
    ASSUME IInv, NEW t \in Threads, NEW op, At(t, op)
    PROVE  /\ hook[t] # None /\ hook[t] \in Hooks /\ WellFormed(hook[t])
           /\ hook[t].on \subseteq Keys
           /\ Place(hook[t].kind, hook[t].at, op)
           /\ \A k \in hook[t].on : Governs(t, k) => Achieved(hook[t], k) /\ Relies(hook[t], k)
<1>1. hook[t] # None /\ hook[t] \in Hooks /\ WellFormed(hook[t]) /\ hook[t].on \subseteq Keys
  BY DEF IInv, TypeOK, HooksWellFormed, Hooks, At
<1>2. hook[t].kind \in Kinds /\ hook[t].at \in Nat /\ 1 <= hook[t].at
  BY <1>1 DEF Hooks
<1>3. hook[t].at <= Len(Program[hook[t].kind])
  BY <1>1 DEF WellFormed
<1>4. Place(hook[t].kind, hook[t].at, Program[hook[t].kind][hook[t].at])
  BY <1>2, <1>3, Places
<1> QED  BY <1>1, <1>4 DEF At, IInv, HooksOnTrack

\* The end of a hook, early or not, is a move.
LEMMA ReturnMoves ==
    ASSUME IInv, NEW t \in Threads, hook[t] # None, Return(t), UNCHANGED <<restoring, drawnFor>>
    PROVE  Moves(t) /\ hook'[t] = None
<1>1. hook \in [Threads -> Hooks \cup {None}] /\ unsettled \subseteq Keys /\ WellFormed(hook[t])
  BY DEF IInv, TypeOK, HooksWellFormed
<1>2. hook'[t] = None /\ hook' = [hook EXCEPT ![t] = hook'[t]]
  BY <1>1 DEF Return
<1> QED  BY <1>1, <1>2 DEF Return, Moves, Governs, WellFormed

\* So is the next operation.
LEMMA AdvanceMoves ==
    ASSUME IInv, NEW t \in Threads, hook[t] # None, Advance(t)
    PROVE  /\ Moves(t)
           /\ hook'[t] = None <=> hook[t].at = Len(Program[hook[t].kind])
<1>1. hook \in [Threads -> Hooks \cup {None}] /\ WellFormed(hook[t]) /\ hook[t] \in Hooks
  BY DEF IInv, TypeOK, HooksWellFormed
<1>2. CASE hook[t].at = Len(Program[hook[t].kind])
  BY <1>2, ReturnMoves DEF Advance
<1>3. CASE hook[t].at # Len(Program[hook[t].kind])
  <2> DEFINE h == [hook[t] EXCEPT !.at = @ + 1]
  <2>1. hook' = [hook EXCEPT ![t] = h] /\ unsettled' = unsettled /\ UNCHANGED <<restoring, drawnFor>>
    BY <1>3, Zenon DEF Advance
  <2>2. hook[t].kind \in Kinds /\ hook[t].at \in 1..11
    BY <1>1 DEF Hooks
  <2>3. hook[t].at < Len(Program[hook[t].kind]) /\ hook[t].at + 1 \in 1..11
    <3>1. Len(Program[hook[t].kind]) \in 1..11
      BY <2>2, Lengths
    <3>2. hook[t].at <= Len(Program[hook[t].kind])
      BY <1>1 DEF WellFormed
    <3>3. \A a, l \in 1..11 : a # l /\ a <= l => a < l /\ a + 1 \in 1..11
      OBVIOUS
    <3> QED  BY <1>3, <2>2, <3>1, <3>2, <3>3
  <2>4. /\ h \in Hooks
        /\ h.kind = hook[t].kind /\ h.on = hook[t].on /\ h.n = hook[t].n
        /\ h.cleans = hook[t].cleans /\ h.gone = hook[t].gone /\ h.at = hook[t].at + 1
    BY <1>1, <2>3 DEF Hooks
  <2>5. h # None
    BY <2>4, WritesAssumption
  <2> HIDE DEF h
  <2>6. hook'[t] = h
    BY <1>1, <2>1
  <2> QED  BY <1>1, <1>3, <2>1, <2>3, <2>4, <2>5, <2>6 DEF Moves, WellFormed
<1> QED  BY <1>2, <1>3

\* What is known of a hook that does an operation.
LEMMA Operation ==
    ASSUME IInv, NEW t \in Threads, NEW op, At(t, op), Advance(t)
    PROVE  /\ Moves(t) /\ hook[t] # None /\ hook[t] \in Hooks /\ WellFormed(hook[t])
           /\ hook[t].on \subseteq Keys /\ hook[t].at \in 1..11
           /\ Place(hook[t].kind, hook[t].at, op)
           /\ hook'[t] = None <=> hook[t].at = Last(hook[t].kind)
           /\ hook'[t] # None => /\ hook'[t].kind = hook[t].kind /\ hook'[t].n = hook[t].n
                                 /\ hook'[t].at = hook[t].at + 1
           /\ UNCHANGED <<restoring, drawnFor>>
           /\ \A k \in hook[t].on : Governs(t, k) => Achieved(hook[t], k) /\ Relies(hook[t], k)
<1>1. hook[t] # None
  BY DEF At
<1>2. Moves(t) /\ (hook'[t] = None <=> hook[t].at = Len(Program[hook[t].kind]))
  BY <1>1, AdvanceMoves
<1>3. /\ hook[t] \in Hooks /\ WellFormed(hook[t]) /\ hook[t].on \subseteq Keys
      /\ Place(hook[t].kind, hook[t].at, op)
      /\ \A k \in hook[t].on : Governs(t, k) => Achieved(hook[t], k) /\ Relies(hook[t], k)
  BY AtPlace
<1>4. hook[t].at \in 1..11 /\ hook[t].kind \in Kinds
  BY <1>3 DEF Hooks
<1> QED  BY <1>1, <1>2, <1>3, <1>4, LastIsLength DEF Moves

LEMMA DropKeyKeeps ==
    ASSUME IInv, NEW t \in Threads, DropKey(t)
    PROVE  IInv'
<1> DEFINE op == "dropKey"
<1>1. At(t, op) /\ Advance(t)
  BY DEF DropKey
<1>2. /\ Moves(t) /\ hook[t] # None /\ WellFormed(hook[t]) /\ hook[t].on \subseteq Keys
      /\ UNCHANGED <<restoring, drawnFor>>
  BY <1>1, Operation
<1>3. TypeOK /\ NumbersOwned /\ NothingTracked
  BY DEF IInv
<1>4. MapsType'
  BY <1>3 DEF DropKey, TypeOK, MapsType
<1>5. \A k \in Keys \ hook[t].on : SameFor(k)
  BY <1>3 DEF DropKey, SameFor, TypeOK
<1>6. NumbersOwned'
  BY <1>2, <1>3 DEF DropKey, NumbersOwned, NumbersKeepTheirKey, Generated, TypeOK
<1>7. NothingTracked'
  BY <1>2, <1>3 DEF DropKey, NothingTracked
<1>8. ASSUME NEW k \in hook[t].on, Governs(t, k)
      PROVE  IF hook'[t] = None THEN Consistent(k)' \/ k \in unsettled'
             ELSE Achieved(hook[t], k)' /\ Relies(hook[t], k)'
  <2>1. Achieved(hook[t], k) /\ Relies(hook[t], k) /\ k \in Keys
    BY <1>1, <1>2, <1>8, Operation
  <2>2. Place(hook[t].kind, hook[t].at, op) /\ hook[t].at \in 1..11
    BY <1>1, Operation
  <2>3. hook'[t] # None
    <3>1. hook[t].at # Last(hook[t].kind)
      BY <2>2 DEF Place, Clearing, Lead, Last
    <3> QED  BY <1>1, <3>1, Operation
  <2>4. hook'[t].kind = hook[t].kind /\ hook'[t].n = hook[t].n /\ hook'[t].at = hook[t].at + 1
    BY <1>1, <2>3, Operation
  <2>5. Achieved(hook[t], k)'
    BY <1>3, <2>1, <2>2, <2>4 DEF DropKey, Place, Achieved, Past, Indexed, Untracked, Unnumbered, Clearing, Lead, TypeOK
  <2>6. Relies(hook[t], k)'
    BY <1>3, <2>1, <2>2, <2>4 DEF DropKey, Place, Relies, Clearing, Lead, TypeOK
  <2> QED  BY <2>3, <2>5, <2>6
<1> QED  BY <1>2, <1>4, <1>5, <1>6, <1>7, <1>8, MoveStep

LEMMA UnindexKeeps ==
    ASSUME IInv, NEW t \in Threads, Unindex(t)
    PROVE  IInv'
<1>1. At(t, "unindex") /\ Advance(t)
  BY DEF Unindex
<1>2. /\ Moves(t) /\ hook[t] # None /\ WellFormed(hook[t]) /\ hook[t].on \subseteq Keys
      /\ UNCHANGED <<restoring, drawnFor>>
      /\ Place(hook[t].kind, hook[t].at, "unindex") /\ hook[t].at \in 1..11
  BY <1>1, Operation
<1>3. TypeOK /\ NumbersOwned /\ NothingTracked
  BY DEF IInv
<1>4. MapsType'
  BY <1>2, <1>3 DEF Unindex, Without, TypeOK, MapsType, WellFormed, Place
<1>5. \A k \in Keys \ hook[t].on : SameFor(k)
  BY <1>2, <1>3, WritesAssumption
     DEF Unindex, Without, SameFor, TypeOK
<1>6. NumbersOwned'
  BY <1>2, <1>3 DEF Unindex, Without, NumbersOwned, NumbersKeepTheirKey, Generated, TypeOK, WellFormed, Place
<1>7. NothingTracked'
  BY <1>2, <1>3 DEF Unindex, Without, NothingTracked, WellFormed, Place
<1>8. ASSUME NEW k \in hook[t].on, Governs(t, k)
      PROVE  IF hook'[t] = None THEN Consistent(k)' \/ k \in unsettled'
             ELSE Achieved(hook[t], k)' /\ Relies(hook[t], k)'
  <2>1. Achieved(hook[t], k) /\ Relies(hook[t], k) /\ k \in Keys
    BY <1>1, <1>2, <1>8, Operation
  <2>2. hook'[t] # None
    <3>1. hook[t].at # Last(hook[t].kind)
      BY <1>2 DEF Place, Clearing, Lead, Last
    <3> QED  BY <1>1, <3>1, Operation
  <2>3. hook'[t].kind = hook[t].kind /\ hook'[t].n = hook[t].n /\ hook'[t].at = hook[t].at + 1
    BY <1>1, <2>2, Operation
  <2>4. Achieved(hook[t], k)'
    BY <1>2, <1>3, <2>1, <2>3, WritesAssumption
       DEF Unindex, Without, Place, Achieved, Past, Indexed, Untracked, Unnumbered, Clearing, Lead, TypeOK
  <2>5. Relies(hook[t], k)'
    BY <1>2, <1>3, <2>1, <2>3 DEF Unindex, Without, Place, Relies, Clearing, Lead, TypeOK
  <2> QED  BY <2>2, <2>4, <2>5
<1> QED  BY <1>2, <1>4, <1>5, <1>6, <1>7, <1>8, MoveStep

LEMMA DropPatchKeeps ==
    ASSUME IInv, NEW t \in Threads, DropPatch(t)
    PROVE  IInv'
<1>1. At(t, "dropPatch") /\ Advance(t)
  BY DEF DropPatch
<1>2. /\ Moves(t) /\ hook[t] # None /\ WellFormed(hook[t]) /\ hook[t].on \subseteq Keys
      /\ UNCHANGED <<restoring, drawnFor>>
      /\ Place(hook[t].kind, hook[t].at, "dropPatch") /\ hook[t].at \in 1..11
  BY <1>1, Operation
<1>3. TypeOK /\ NumbersOwned /\ NothingTracked
  BY DEF IInv
<1>4. MapsType'
  BY <1>2, <1>3 DEF DropPatch, TypeOK, MapsType, WellFormed, Place
<1>5. \A k \in Keys \ hook[t].on : SameFor(k)
  BY <1>2, <1>3, WritesAssumption
     DEF DropPatch, SameFor, TypeOK
<1>6. NumbersOwned'
  BY <1>2, <1>3 DEF DropPatch, NumbersOwned, NumbersKeepTheirKey, Generated, TypeOK, WellFormed, Place
<1>7. NothingTracked'
  BY <1>2, <1>3 DEF DropPatch, NothingTracked, WellFormed, Place
<1>8. ASSUME NEW k \in hook[t].on, Governs(t, k)
      PROVE  IF hook'[t] = None THEN Consistent(k)' \/ k \in unsettled'
             ELSE Achieved(hook[t], k)' /\ Relies(hook[t], k)'
  <2>1. Achieved(hook[t], k) /\ Relies(hook[t], k) /\ k \in Keys
    BY <1>1, <1>2, <1>8, Operation
  <2>2. hook'[t] # None
    <3>1. hook[t].at # Last(hook[t].kind)
      BY <1>2 DEF Place, Clearing, Lead, Last
    <3> QED  BY <1>1, <3>1, Operation
  <2>3. hook'[t].kind = hook[t].kind /\ hook'[t].n = hook[t].n /\ hook'[t].at = hook[t].at + 1
    BY <1>1, <2>2, Operation
  <2>4. Achieved(hook[t], k)'
    BY <1>2, <1>3, <2>1, <2>3, WritesAssumption
       DEF DropPatch, Place, Achieved, Past, Indexed, Untracked, Unnumbered, Clearing, Lead, TypeOK
  <2>5. Relies(hook[t], k)'
    BY <1>2, <1>3, <2>1, <2>3 DEF DropPatch, Place, Relies, Clearing, Lead, TypeOK
  <2> QED  BY <2>2, <2>4, <2>5
<1> QED  BY <1>2, <1>4, <1>5, <1>6, <1>7, <1>8, MoveStep

LEMMA DropGrantsKeeps ==
    ASSUME IInv, NEW t \in Threads, DropGrants(t)
    PROVE  IInv'
<1>1. At(t, "dropGrants") /\ Advance(t)
  BY DEF DropGrants
<1>2. /\ Moves(t) /\ hook[t] # None /\ WellFormed(hook[t]) /\ hook[t].on \subseteq Keys
      /\ UNCHANGED <<restoring, drawnFor>>
      /\ Place(hook[t].kind, hook[t].at, "dropGrants") /\ hook[t].at \in 1..11
  BY <1>1, Operation
<1>3. TypeOK /\ NumbersOwned /\ NothingTracked
  BY DEF IInv
<1>4. MapsType'
  BY <1>2, <1>3 DEF DropGrants, Without, TypeOK, MapsType, WellFormed, Place
<1>5. \A k \in Keys \ hook[t].on : SameFor(k)
  BY <1>2, <1>3, WritesAssumption
     DEF DropGrants, Without, SameFor, TypeOK
<1>6. NumbersOwned'
  BY <1>2, <1>3 DEF DropGrants, Without, NumbersOwned, NumbersKeepTheirKey, Generated, TypeOK, WellFormed, Place
<1>7. NothingTracked'
  BY <1>2, <1>3 DEF DropGrants, Without, NothingTracked, WellFormed, Place
<1>8. ASSUME NEW k \in hook[t].on, Governs(t, k)
      PROVE  IF hook'[t] = None THEN Consistent(k)' \/ k \in unsettled'
             ELSE Achieved(hook[t], k)' /\ Relies(hook[t], k)'
  <2>1. Achieved(hook[t], k) /\ Relies(hook[t], k) /\ k \in Keys
    BY <1>1, <1>2, <1>8, Operation
  <2>2. CASE hook'[t] # None
    <3>1. /\ hook'[t].kind = hook[t].kind /\ hook'[t].n = hook[t].n
          /\ hook'[t].at = hook[t].at + 1 /\ hook[t].at # Last(hook[t].kind)
      BY <1>1, <2>2, Operation
    <3>2. Achieved(hook[t], k)'
      BY <1>2, <1>3, <2>1, <3>1, WritesAssumption
         DEF DropGrants, Without, Place, Last, Achieved, Past, Indexed, Untracked, Unnumbered, Clearing, Lead, TypeOK
    <3>3. Relies(hook[t], k)'
      BY <1>2, <1>3, <2>1, <3>1
         DEF DropGrants, Without, Place, Last, Relies, Consistent, Generated, Clearing, Lead, TypeOK
    <3> QED  BY <2>2, <3>2, <3>3
  <2>3. CASE hook'[t] = None
    <3>1. hook[t].at = Last(hook[t].kind)
      BY <1>1, <2>3, Operation
    <3>2. Consistent(k)'
      BY <1>2, <1>3, <2>1, <3>1, WritesAssumption
         DEF DropGrants, Without, Place, Last, Achieved, Past, Indexed, Untracked, Unnumbered, Clearing, Lead,
             Relies, Consistent, Generated, TypeOK, WellFormed
    <3> QED  BY <2>3, <3>2
  <2> QED  BY <2>2, <2>3
<1> QED  BY <1>2, <1>4, <1>5, <1>6, <1>7, <1>8, MoveStep

LEMMA UntrackKeeps ==
    ASSUME IInv, NEW t \in Threads, Untrack(t)
    PROVE  IInv'
<1>1. At(t, "untrack") /\ Advance(t)
  BY DEF Untrack
<1>2. /\ Moves(t) /\ hook[t] # None /\ WellFormed(hook[t]) /\ hook[t].on \subseteq Keys
      /\ UNCHANGED <<restoring, drawnFor>>
      /\ Place(hook[t].kind, hook[t].at, "untrack") /\ hook[t].at \in 1..11
  BY <1>1, Operation
<1>3. TypeOK /\ NumbersOwned /\ NothingTracked
  BY DEF IInv
<1>4. MapsType'
  BY <1>2, <1>3 DEF Untrack, TypeOK, MapsType, WellFormed, Place
<1>5. \A k \in Keys \ hook[t].on : SameFor(k)
  BY <1>2, <1>3, WritesAssumption
     DEF Untrack, SameFor, TypeOK
<1>6. NumbersOwned'
  BY <1>2, <1>3 DEF Untrack, NumbersOwned, NumbersKeepTheirKey, Generated, TypeOK, WellFormed, Place
<1>7. NothingTracked'
  BY <1>2, <1>3 DEF Untrack, NothingTracked, WellFormed, Place
<1>8. ASSUME NEW k \in hook[t].on, Governs(t, k)
      PROVE  IF hook'[t] = None THEN Consistent(k)' \/ k \in unsettled'
             ELSE Achieved(hook[t], k)' /\ Relies(hook[t], k)'
  <2>1. Achieved(hook[t], k) /\ Relies(hook[t], k) /\ k \in Keys
    BY <1>1, <1>2, <1>8, Operation
  <2>2. hook'[t] # None
    <3>1. hook[t].at # Last(hook[t].kind)
      BY <1>2 DEF Place, Clearing, Lead, Last
    <3> QED  BY <1>1, <3>1, Operation
  <2>3. hook'[t].kind = hook[t].kind /\ hook'[t].n = hook[t].n /\ hook'[t].at = hook[t].at + 1
    BY <1>1, <2>2, Operation
  <2>4. Achieved(hook[t], k)'
    BY <1>2, <1>3, <2>1, <2>3, WritesAssumption
       DEF Untrack, Place, Achieved, Past, Indexed, Untracked, Unnumbered, Clearing, Lead, TypeOK
  <2>5. Relies(hook[t], k)'
    BY <1>2, <1>3, <2>1, <2>3 DEF Untrack, Place, Relies, Clearing, Lead, TypeOK
  <2> QED  BY <2>2, <2>4, <2>5
<1> QED  BY <1>2, <1>4, <1>5, <1>6, <1>7, <1>8, MoveStep

LEMMA UnnumberKeeps ==
    ASSUME IInv, NEW t \in Threads, Unnumber(t)
    PROVE  IInv'
<1>1. At(t, "unnumber") /\ Advance(t)
  BY DEF Unnumber
<1>2. /\ Moves(t) /\ hook[t] # None /\ WellFormed(hook[t]) /\ hook[t].on \subseteq Keys
      /\ UNCHANGED <<restoring, drawnFor>>
      /\ Place(hook[t].kind, hook[t].at, "unnumber") /\ hook[t].at \in 1..11
  BY <1>1, Operation
<1>3. TypeOK /\ NumbersOwned /\ NothingTracked
  BY DEF IInv
<1>4. MapsType'
  BY <1>2, <1>3 DEF Unnumber, Without, TypeOK, MapsType, WellFormed, Place
<1>5. \A k \in Keys \ hook[t].on : SameFor(k)
  BY <1>2, <1>3, WritesAssumption
     DEF Unnumber, Without, SameFor, TypeOK
<1>6. NumbersOwned'
  BY <1>2, <1>3 DEF Unnumber, Without, NumbersOwned, NumbersKeepTheirKey, Generated, TypeOK, WellFormed, Place
<1>7. NothingTracked'
  BY <1>2, <1>3 DEF Unnumber, Without, NothingTracked, WellFormed, Place
<1>8. ASSUME NEW k \in hook[t].on, Governs(t, k)
      PROVE  IF hook'[t] = None THEN Consistent(k)' \/ k \in unsettled'
             ELSE Achieved(hook[t], k)' /\ Relies(hook[t], k)'
  <2>1. Achieved(hook[t], k) /\ Relies(hook[t], k) /\ k \in Keys
    BY <1>1, <1>2, <1>8, Operation
  <2>2. CASE hook'[t] # None
    <3>1. /\ hook'[t].kind = hook[t].kind /\ hook'[t].n = hook[t].n
          /\ hook'[t].at = hook[t].at + 1 /\ hook[t].at # Last(hook[t].kind)
      BY <1>1, <2>2, Operation
    <3>2. Achieved(hook[t], k)'
      BY <1>2, <1>3, <2>1, <3>1, WritesAssumption
         DEF Unnumber, Without, Place, Last, Achieved, Past, Indexed, Untracked, Unnumbered, Clearing, Lead, TypeOK
    <3>3. Relies(hook[t], k)'
      BY <1>2, <1>3, <2>1, <3>1
         DEF Unnumber, Without, Place, Last, Relies, Consistent, Generated, Clearing, Lead, TypeOK
    <3> QED  BY <2>2, <3>2, <3>3
  <2>3. CASE hook'[t] = None
    <3>1. hook[t].at = Last(hook[t].kind)
      BY <1>1, <2>3, Operation
    <3>2. Consistent(k)'
      BY <1>2, <1>3, <2>1, <3>1, WritesAssumption
         DEF Unnumber, Without, Place, Last, Achieved, Past, Indexed, Untracked, Unnumbered, Clearing, Lead,
             Relies, Consistent, Generated, TypeOK, WellFormed
    <3> QED  BY <2>3, <3>2
  <2> QED  BY <2>2, <2>3
<1> QED  BY <1>2, <1>4, <1>5, <1>6, <1>7, <1>8, MoveStep

LEMMA DropGrantKeeps ==
    ASSUME IInv, NEW t \in Threads, DropGrant(t)
    PROVE  IInv'
<1>1. At(t, "dropGrant") /\ Advance(t)
  BY DEF DropGrant
<1>2. /\ Moves(t) /\ hook[t] # None /\ WellFormed(hook[t]) /\ hook[t].on \subseteq Keys
      /\ UNCHANGED <<restoring, drawnFor>>
      /\ Place(hook[t].kind, hook[t].at, "dropGrant") /\ hook[t].at \in 1..11
  BY <1>1, Operation
<1>3. TypeOK /\ NumbersOwned /\ NothingTracked
  BY DEF IInv
<1>4. MapsType'
  BY <1>2, <1>3 DEF DropGrant, TypeOK, MapsType, WellFormed, Place
<1>5. \A k \in Keys \ hook[t].on : SameFor(k)
  BY <1>2, <1>3, WritesAssumption
     DEF DropGrant, SameFor, TypeOK
<1>6. NumbersOwned'
  BY <1>2, <1>3 DEF DropGrant, NumbersOwned, NumbersKeepTheirKey, Generated, TypeOK, WellFormed, Place
<1>7. NothingTracked'
  BY <1>2, <1>3 DEF DropGrant, NothingTracked, WellFormed, Place
<1>8. ASSUME NEW k \in hook[t].on, Governs(t, k)
      PROVE  IF hook'[t] = None THEN Consistent(k)' \/ k \in unsettled'
             ELSE Achieved(hook[t], k)' /\ Relies(hook[t], k)'
  <2>1. Achieved(hook[t], k) /\ Relies(hook[t], k) /\ k \in Keys
    BY <1>1, <1>2, <1>8, Operation
  <2>2. hook'[t] = None
    <3>1. hook[t].at = Last(hook[t].kind)
      BY <1>2 DEF Place, Last
    <3> QED  BY <1>1, <3>1, Operation
  <2>3. Consistent(k)'
    BY <1>2, <1>3, <2>1, WritesAssumption
       DEF DropGrant, Place, Achieved, Past, Indexed, Untracked, Unnumbered, Clearing, Lead,
           Relies, Consistent, Generated, TypeOK, WellFormed
  <2> QED  BY <2>2, <2>3
<1> QED  BY <1>2, <1>4, <1>5, <1>6, <1>7, <1>8, MoveStep

LEMMA IndexKeeps ==
    ASSUME IInv, NEW t \in Threads, Index(t)
    PROVE  IInv'
<1>1. At(t, "index") /\ Advance(t)
  BY DEF Index
<1>2. /\ Moves(t) /\ hook[t] # None /\ WellFormed(hook[t]) /\ hook[t].on \subseteq Keys
      /\ UNCHANGED <<restoring, drawnFor>>
      /\ Place(hook[t].kind, hook[t].at, "index") /\ hook[t].at \in 1..11
  BY <1>1, Operation
<1>3. TypeOK /\ NumbersOwned /\ NothingTracked
  BY DEF IInv
<1>4. MapsType'
  BY <1>2, <1>3 DEF Index, TypeOK, MapsType, WellFormed, Place
<1>5. \A k \in Keys \ hook[t].on : SameFor(k)
  BY <1>2, <1>3, WritesAssumption
     DEF Index, SameFor, TypeOK, WellFormed, Place, NumbersOwned, NumbersKeepTheirKey
<1>6. NumbersOwned'
  BY <1>2, <1>3 DEF Index, NumbersOwned, NumbersKeepTheirKey, Generated, TypeOK, WellFormed, Place
<1>7. NothingTracked'
  BY <1>2, <1>3 DEF Index, NothingTracked, WellFormed, Place
<1>8. ASSUME NEW k \in hook[t].on, Governs(t, k)
      PROVE  IF hook'[t] = None THEN Consistent(k)' \/ k \in unsettled'
             ELSE Achieved(hook[t], k)' /\ Relies(hook[t], k)'
  <2>1. Achieved(hook[t], k) /\ Relies(hook[t], k) /\ k \in Keys
    BY <1>1, <1>2, <1>8, Operation
  <2>2. /\ hook[t].kind \in {"store", "leaf", "promote", "load"} /\ hook[t].n \in KeyIds
        /\ hook[t].on = {k} /\ keysByNspace' = [keysByNspace EXCEPT ![hook[t].n] = k]
        /\ UNCHANGED <<keys, patchedResponses, grants, tracked, byNspace>>
    <3>1. hook[t].kind \in {"store", "leaf", "promote", "load"}
      BY <1>2 DEF Place
    <3>2. hook[t].n \in KeyIds /\ hook[t].on = {k}
      BY <1>2, <1>8, <3>1 DEF WellFormed
    <3> QED  BY <3>1, <3>2 DEF Index
  <2>3. keysByNspace'[hook[t].n] = k
    BY <1>3, <2>2 DEF TypeOK
  <2>4. CASE hook'[t] # None
    <3>1. /\ hook'[t].kind = hook[t].kind /\ hook'[t].n = hook[t].n
          /\ hook'[t].at = hook[t].at + 1 /\ hook[t].at # Last(hook[t].kind)
      BY <1>1, <2>4, Operation
    <3>2. (hook[t].kind = "store" /\ hook[t].at = 9) \/ (hook[t].kind = "promote" /\ hook[t].at = 7)
      BY <1>2, <3>1 DEF Place, Last
    <3>3. Achieved(hook[t], k)'
      BY <2>1, <2>2, <2>3, <3>1, <3>2
         DEF Achieved, Past, Indexed, Untracked, Unnumbered, Clearing, Lead
    <3>4. Relies(hook[t], k)'
      BY <2>1, <2>2, <3>1, <3>2 DEF Relies
    <3> QED  BY <2>4, <3>3, <3>4
  <2>5. CASE hook'[t] = None
    <3>1. hook[t].at = Last(hook[t].kind)
      BY <1>1, <2>5, Operation
    <3>2. (hook[t].kind = "leaf" /\ hook[t].at = 11) \/ (hook[t].kind = "load" /\ hook[t].at = 2)
      BY <1>2, <3>1 DEF Place, Last
    <3>3. CASE hook[t].kind = "leaf" /\ hook[t].at = 11
      <4>1. /\ keys[k] = None /\ k \in patchedResponses /\ k \notin tracked
            /\ \A n \in GrantIds : grants[n] # k
            /\ \A n \in KeyIds : byNspace[n] # k
        BY <2>1, <3>3 DEF Achieved, Past, Untracked, Unnumbered, Clearing, Lead
      <4>2. Consistent(k)'
        BY <2>1, <2>2, <4>1 DEF Consistent, Generated
      <4> QED  BY <2>5, <4>2
    <3>4. CASE hook[t].kind = "load" /\ hook[t].at = 2
      <4>1. keys[k] = hook[t].n /\ \A n \in KeyIds : byNspace[n] = k => k \in tracked
        BY <2>1, <3>4 DEF Relies
      <4>2. tracked = {}
        BY <1>2, <1>3, <3>4 DEF NothingTracked, WellFormed
      <4>3. k \in Generated
        BY <2>1, <2>2, <4>1, WritesAssumption DEF Generated
      <4>4. Consistent(k)'
        BY <2>1, <2>2, <2>3, <4>1, <4>2, <4>3 DEF Consistent, Generated
      <4> QED  BY <2>5, <4>4
    <3> QED  BY <2>5, <3>2, <3>3, <3>4
  <2> QED  BY <2>4, <2>5
<1> QED  BY <1>2, <1>4, <1>5, <1>6, <1>7, <1>8, MoveStep

LEMMA PutKeyKeeps ==
    ASSUME IInv, NEW t \in Threads, PutKey(t)
    PROVE  IInv'
<1>1. At(t, "putKey") /\ Advance(t)
  BY DEF PutKey
<1>2. /\ Moves(t) /\ hook[t] # None /\ WellFormed(hook[t]) /\ hook[t].on \subseteq Keys
      /\ UNCHANGED <<restoring, drawnFor>>
      /\ Place(hook[t].kind, hook[t].at, "putKey") /\ hook[t].at \in 1..11
  BY <1>1, Operation
<1>3. TypeOK /\ NumbersOwned /\ NothingTracked
  BY DEF IInv
<1>4. MapsType'
  BY <1>2, <1>3 DEF PutKey, TypeOK, MapsType, WellFormed, Place
<1>5. \A k \in Keys \ hook[t].on : SameFor(k)
  BY <1>2, <1>3, WritesAssumption
     DEF PutKey, SameFor, TypeOK
<1>6. NumbersOwned'
  BY <1>2, <1>3 DEF PutKey, NumbersOwned, NumbersKeepTheirKey, Generated, TypeOK, WellFormed, Place
<1>7. NothingTracked'
  BY <1>2, <1>3 DEF PutKey, NothingTracked, WellFormed, Place
<1>8. ASSUME NEW k \in hook[t].on, Governs(t, k)
      PROVE  IF hook'[t] = None THEN Consistent(k)' \/ k \in unsettled'
             ELSE Achieved(hook[t], k)' /\ Relies(hook[t], k)'
  <2>1. Achieved(hook[t], k) /\ Relies(hook[t], k) /\ k \in Keys
    BY <1>1, <1>2, <1>8, Operation
  <2>2. CASE hook'[t] # None
    <3>1. /\ hook'[t].kind = hook[t].kind /\ hook'[t].n = hook[t].n
          /\ hook'[t].at = hook[t].at + 1 /\ hook[t].at # Last(hook[t].kind)
      BY <1>1, <2>2, Operation
    <3>2. Achieved(hook[t], k)'
      BY <1>2, <1>3, <2>1, <3>1, WritesAssumption
         DEF PutKey, Place, Last, Achieved, Past, Indexed, Untracked, Unnumbered, Clearing, Lead, TypeOK
    <3>3. Relies(hook[t], k)'
      BY <1>2, <1>3, <2>1, <3>1
         DEF PutKey, Place, Last, Relies, Consistent, Generated, Clearing, Lead, TypeOK
    <3> QED  BY <2>2, <3>2, <3>3
  <2>3. CASE hook'[t] = None
    <3>1. hook[t].at = Last(hook[t].kind)
      BY <1>1, <2>3, Operation
    <3>2. Consistent(k)'
      BY <1>2, <1>3, <2>1, <3>1, WritesAssumption
         DEF PutKey, Place, Last, Achieved, Past, Indexed, Untracked, Unnumbered, Clearing, Lead,
             Relies, Consistent, Generated, TypeOK, WellFormed
    <3> QED  BY <2>3, <3>2
  <2> QED  BY <2>2, <2>3
<1> QED  BY <1>2, <1>4, <1>5, <1>6, <1>7, <1>8, MoveStep

LEMMA PutPatchKeeps ==
    ASSUME IInv, NEW t \in Threads, PutPatch(t)
    PROVE  IInv'
<1>1. At(t, "putPatch") /\ Advance(t)
  BY DEF PutPatch
<1>2. /\ Moves(t) /\ hook[t] # None /\ WellFormed(hook[t]) /\ hook[t].on \subseteq Keys
      /\ UNCHANGED <<restoring, drawnFor>>
      /\ Place(hook[t].kind, hook[t].at, "putPatch") /\ hook[t].at \in 1..11
  BY <1>1, Operation
<1>3. TypeOK /\ NumbersOwned /\ NothingTracked
  BY DEF IInv
<1>4. MapsType'
  BY <1>2, <1>3 DEF PutPatch, TypeOK, MapsType, WellFormed, Place
<1>5. \A k \in Keys \ hook[t].on : SameFor(k)
  BY <1>2, <1>3, WritesAssumption
     DEF PutPatch, SameFor, TypeOK
<1>6. NumbersOwned'
  BY <1>2, <1>3 DEF PutPatch, NumbersOwned, NumbersKeepTheirKey, Generated, TypeOK, WellFormed, Place
<1>7. NothingTracked'
  BY <1>2, <1>3 DEF PutPatch, NothingTracked, WellFormed, Place
<1>8. ASSUME NEW k \in hook[t].on, Governs(t, k)
      PROVE  IF hook'[t] = None THEN Consistent(k)' \/ k \in unsettled'
             ELSE Achieved(hook[t], k)' /\ Relies(hook[t], k)'
  <2>1. Achieved(hook[t], k) /\ Relies(hook[t], k) /\ k \in Keys
    BY <1>1, <1>2, <1>8, Operation
  <2>2. CASE hook'[t] # None
    <3>1. /\ hook'[t].kind = hook[t].kind /\ hook'[t].n = hook[t].n
          /\ hook'[t].at = hook[t].at + 1 /\ hook[t].at # Last(hook[t].kind)
      BY <1>1, <2>2, Operation
    <3>2. Achieved(hook[t], k)'
      BY <1>2, <1>3, <2>1, <3>1, WritesAssumption
         DEF PutPatch, Place, Last, Achieved, Past, Indexed, Untracked, Unnumbered, Clearing, Lead, TypeOK
    <3>3. Relies(hook[t], k)'
      BY <1>2, <1>3, <2>1, <3>1
         DEF PutPatch, Place, Last, Relies, Consistent, Generated, Clearing, Lead, TypeOK
    <3> QED  BY <2>2, <3>2, <3>3
  <2>3. CASE hook'[t] = None
    <3>1. hook[t].at = Last(hook[t].kind)
      BY <1>1, <2>3, Operation
    <3>2. Consistent(k)'
      BY <1>2, <1>3, <2>1, <3>1, WritesAssumption
         DEF PutPatch, Place, Last, Achieved, Past, Indexed, Untracked, Unnumbered, Clearing, Lead,
             Relies, Consistent, Generated, TypeOK, WellFormed
    <3> QED  BY <2>3, <3>2
  <2> QED  BY <2>2, <2>3
<1> QED  BY <1>2, <1>4, <1>5, <1>6, <1>7, <1>8, MoveStep

LEMMA TrackKeeps ==
    ASSUME IInv, NEW t \in Threads, Track(t)
    PROVE  IInv'
<1>1. At(t, "track") /\ Advance(t)
  BY DEF Track
<1>2. /\ Moves(t) /\ hook[t] # None /\ WellFormed(hook[t]) /\ hook[t].on \subseteq Keys
      /\ UNCHANGED <<restoring, drawnFor>>
      /\ Place(hook[t].kind, hook[t].at, "track") /\ hook[t].at \in 1..11
  BY <1>1, Operation
<1>3. TypeOK /\ NumbersOwned /\ NothingTracked
  BY DEF IInv
<1>4. MapsType'
  BY <1>2, <1>3 DEF Track, TypeOK, MapsType, WellFormed, Place
<1>5. \A k \in Keys \ hook[t].on : SameFor(k)
  BY <1>2, <1>3, WritesAssumption
     DEF Track, SameFor, TypeOK
<1>6. NumbersOwned'
  BY <1>2, <1>3 DEF Track, NumbersOwned, NumbersKeepTheirKey, Generated, TypeOK, WellFormed, Place
<1>7. NothingTracked'
  BY <1>2, <1>3 DEF Track, NothingTracked, WellFormed, Place
<1>8. ASSUME NEW k \in hook[t].on, Governs(t, k)
      PROVE  IF hook'[t] = None THEN Consistent(k)' \/ k \in unsettled'
             ELSE Achieved(hook[t], k)' /\ Relies(hook[t], k)'
  <2>1. Achieved(hook[t], k) /\ Relies(hook[t], k) /\ k \in Keys
    BY <1>1, <1>2, <1>8, Operation
  <2>2. hook'[t] # None
    <3>1. hook[t].at # Last(hook[t].kind)
      BY <1>2 DEF Place, Clearing, Lead, Last
    <3> QED  BY <1>1, <3>1, Operation
  <2>3. hook'[t].kind = hook[t].kind /\ hook'[t].n = hook[t].n /\ hook'[t].at = hook[t].at + 1
    BY <1>1, <2>2, Operation
  <2>4. Achieved(hook[t], k)'
    BY <1>2, <1>3, <2>1, <2>3, WritesAssumption
       DEF Track, Place, Achieved, Past, Indexed, Untracked, Unnumbered, Clearing, Lead, TypeOK
  <2>5. Relies(hook[t], k)'
    BY <1>2, <1>3, <2>1, <2>3 DEF Track, Place, Relies, Clearing, Lead, TypeOK
  <2> QED  BY <2>2, <2>4, <2>5
<1> QED  BY <1>2, <1>4, <1>5, <1>6, <1>7, <1>8, MoveStep

LEMMA NumberKeeps ==
    ASSUME IInv, NEW t \in Threads, Number(t)
    PROVE  IInv'
<1>1. At(t, "number") /\ Advance(t)
  BY DEF Number
<1>2. /\ Moves(t) /\ hook[t] # None /\ WellFormed(hook[t]) /\ hook[t].on \subseteq Keys
      /\ UNCHANGED <<restoring, drawnFor>>
      /\ Place(hook[t].kind, hook[t].at, "number") /\ hook[t].at \in 1..11
  BY <1>1, Operation
<1>3. TypeOK /\ NumbersOwned /\ NothingTracked
  BY DEF IInv
<1>4. MapsType'
  BY <1>2, <1>3 DEF Number, TypeOK, MapsType, WellFormed, Place
<1>5. \A k \in Keys \ hook[t].on : SameFor(k)
  BY <1>2, <1>3, WritesAssumption
     DEF Number, SameFor, TypeOK, WellFormed, Place, NumbersOwned, NumbersKeepTheirKey
<1>6. NumbersOwned'
  BY <1>2, <1>3 DEF Number, NumbersOwned, NumbersKeepTheirKey, Generated, TypeOK, WellFormed, Place
<1>7. NothingTracked'
  BY <1>2, <1>3 DEF Number, NothingTracked, WellFormed, Place
<1>8. ASSUME NEW k \in hook[t].on, Governs(t, k)
      PROVE  IF hook'[t] = None THEN Consistent(k)' \/ k \in unsettled'
             ELSE Achieved(hook[t], k)' /\ Relies(hook[t], k)'
  <2>1. Achieved(hook[t], k) /\ Relies(hook[t], k) /\ k \in Keys
    BY <1>1, <1>2, <1>8, Operation
  <2>2. hook'[t] = None
    <3>1. hook[t].at = Last(hook[t].kind)
      BY <1>2 DEF Place, Last
    <3> QED  BY <1>1, <3>1, Operation
  <2>3. Consistent(k)'
    BY <1>2, <1>3, <2>1, WritesAssumption
       DEF Number, Place, Achieved, Past, Indexed, Untracked, Unnumbered, Clearing, Lead,
           Relies, Consistent, Generated, TypeOK, WellFormed
  <2> QED  BY <2>2, <2>3
<1> QED  BY <1>2, <1>4, <1>5, <1>6, <1>7, <1>8, MoveStep

LEMMA PutGrantKeeps ==
    ASSUME IInv, NEW t \in Threads, PutGrant(t)
    PROVE  IInv'
<1>1. At(t, "putGrant") /\ Advance(t)
  BY DEF PutGrant
<1>2. /\ Moves(t) /\ hook[t] # None /\ WellFormed(hook[t]) /\ hook[t].on \subseteq Keys
      /\ UNCHANGED <<restoring, drawnFor>>
      /\ Place(hook[t].kind, hook[t].at, "putGrant") /\ hook[t].at \in 1..11
  BY <1>1, Operation
<1>3. TypeOK /\ NumbersOwned /\ NothingTracked
  BY DEF IInv
<1>4. MapsType'
  BY <1>2, <1>3 DEF PutGrant, TypeOK, MapsType, WellFormed, Place
<1>5. \A k \in Keys \ hook[t].on : SameFor(k)
  BY <1>2, <1>3, WritesAssumption
     DEF PutGrant, SameFor, TypeOK, WellFormed, Place, NumbersOwned, NumbersKeepTheirKey
<1>6. NumbersOwned'
  BY <1>2, <1>3 DEF PutGrant, NumbersOwned, NumbersKeepTheirKey, Generated, TypeOK, WellFormed, Place
<1>7. NothingTracked'
  BY <1>2, <1>3 DEF PutGrant, NothingTracked, WellFormed, Place
<1>8. ASSUME NEW k \in hook[t].on, Governs(t, k)
      PROVE  IF hook'[t] = None THEN Consistent(k)' \/ k \in unsettled'
             ELSE Achieved(hook[t], k)' /\ Relies(hook[t], k)'
  <2>1. Achieved(hook[t], k) /\ Relies(hook[t], k) /\ k \in Keys
    BY <1>1, <1>2, <1>8, Operation
  <2>2. hook'[t] = None
    <3>1. hook[t].at = Last(hook[t].kind)
      BY <1>2 DEF Place, Last
    <3> QED  BY <1>1, <3>1, Operation
  <2>3. Consistent(k)'
    BY <1>2, <1>3, <2>1, WritesAssumption
       DEF PutGrant, Place, Achieved, Past, Indexed, Untracked, Unnumbered, Clearing, Lead,
           Relies, Consistent, Generated, TypeOK, WellFormed
  <2> QED  BY <2>2, <2>3
<1> QED  BY <1>2, <1>4, <1>5, <1>6, <1>7, <1>8, MoveStep

LEMMA CheckKeeps ==
    ASSUME IInv, NEW t \in Threads, Check(t)
    PROVE  IInv'
<1>1. /\ hook[t] # None /\ hook[t].on \subseteq Keys /\ hook[t].kind = "grant" /\ hook[t].at = 1
      /\ \A k \in hook[t].on : Governs(t, k) => Achieved(hook[t], k) /\ Relies(hook[t], k)
  BY AtPlace DEF Check, Place
<1>2. /\ TypeOK /\ NumbersOwned /\ NothingTracked
      /\ UNCHANGED maps /\ UNCHANGED <<restoring, drawnFor>>
  BY DEF IInv, Check, Advance
<1>3. \A k \in Keys : SameFor(k)
  BY <1>2 DEF maps, SameFor
<1>4. MapsType' /\ NumbersOwned' /\ NothingTracked'
  BY <1>2 DEF maps, MapsType, TypeOK, NumbersOwned, NumbersKeepTheirKey, Generated, NothingTracked
<1>5. \A k \in hook[t].on : Governs(t, k) => Consistent(k)'
  BY <1>1, <1>2 DEF maps, Relies, Consistent, Generated
<1>6. CASE hook[t].on \subseteq Generated \cup patchedResponses /\ Advance(t)
  <2>1. At(t, "check")
    BY DEF Check
  <2>2. Moves(t) /\ hook'[t] # None /\ hook'[t].kind = "grant" /\ hook'[t].at = 2
    BY <1>1, <1>6, <2>1, Operation DEF Last
  <2>3. \A k \in hook[t].on : Governs(t, k) => Achieved(hook[t], k)' /\ Relies(hook[t], k)'
    BY <1>1, <1>2, <1>5, <1>6, <2>2
       DEF maps, Achieved, Past, Indexed, Untracked, Unnumbered, Clearing, Relies, Generated
  <2> QED  BY <1>1, <1>3, <1>4, <2>2, <2>3, MoveStep
<1>7. CASE Return(t)
  <2>1. Moves(t) /\ hook'[t] = None
    BY <1>1, <1>2, <1>7, ReturnMoves
  <2> QED  BY <1>1, <1>3, <1>4, <1>5, <2>1, MoveStep
<1> QED  BY <1>6, <1>7 DEF Check

LEMMA ResignKeeps ==
    ASSUME IInv, NEW t \in Threads, Resign(t)
    PROVE  IInv'
<1>1. /\ hook[t] # None /\ hook[t].on \subseteq Keys
      /\ (hook[t].kind = "leaf" /\ hook[t].at = 9) \/ (hook[t].kind = "patch" /\ hook[t].at = 1)
      /\ \A k \in hook[t].on : Governs(t, k) => Achieved(hook[t], k) /\ Relies(hook[t], k)
  BY AtPlace DEF Resign, Place
<1>2. /\ TypeOK /\ NumbersOwned /\ NothingTracked
      /\ UNCHANGED maps /\ UNCHANGED <<restoring, drawnFor>>
  BY DEF IInv, Resign, Advance
<1>3. \A k \in Keys : SameFor(k)
  BY <1>2 DEF maps, SameFor
<1>4. MapsType' /\ NumbersOwned' /\ NothingTracked'
  BY <1>2 DEF maps, MapsType, TypeOK, NumbersOwned, NumbersKeepTheirKey, Generated, NothingTracked
<1>5. \A k \in hook[t].on : Governs(t, k) => Consistent(k)'
  BY <1>1, <1>2 DEF maps, Relies, Achieved, Past, Indexed, Untracked, Unnumbered, Clearing, Lead,
                    Consistent, Generated
<1>6. CASE Advance(t)
  <2>1. At(t, "resign")
    BY DEF Resign
  <2>2. /\ Moves(t) /\ hook'[t] # None /\ hook'[t].kind = hook[t].kind
        /\ hook'[t].n = hook[t].n /\ hook'[t].at = hook[t].at + 1
    BY <1>1, <1>6, <2>1, Operation DEF Last
  <2>3. \A k \in hook[t].on : Governs(t, k) => Achieved(hook[t], k)'
    BY <1>1, <1>2, <2>2 DEF maps, Achieved, Past, Indexed, Untracked, Unnumbered, Clearing, Lead
  <2>4. \A k \in hook[t].on : Governs(t, k) => Relies(hook[t], k)'
    BY <1>1, <1>5, <2>2 DEF Relies
  <2> QED  BY <1>1, <1>3, <1>4, <2>2, <2>3, <2>4, MoveStep
<1>7. CASE Return(t)
  <2>1. Moves(t) /\ hook'[t] = None
    BY <1>1, <1>2, <1>7, ReturnMoves
  <2> QED  BY <1>1, <1>3, <1>4, <1>5, <2>1, MoveStep
<1> QED  BY <1>6, <1>7 DEF Resign

LEMMA BuildKeeps ==
    ASSUME IInv, NEW t \in Threads, Build(t)
    PROVE  IInv'
<1>1. /\ hook[t] # None /\ hook[t].on \subseteq Keys /\ hook[t].kind = "store" /\ hook[t].at = 10
      /\ \A k \in hook[t].on : Governs(t, k) => Achieved(hook[t], k) /\ Relies(hook[t], k)
  BY AtPlace DEF Build, Place
<1>2. /\ TypeOK /\ NumbersOwned /\ NothingTracked
      /\ UNCHANGED maps /\ UNCHANGED <<restoring, drawnFor>>
  BY DEF IInv, Build, Advance
<1>3. \A k \in Keys : SameFor(k)
  BY <1>2 DEF maps, SameFor
<1>4. MapsType' /\ NumbersOwned' /\ NothingTracked'
  BY <1>2 DEF maps, MapsType, TypeOK, NumbersOwned, NumbersKeepTheirKey, Generated, NothingTracked
<1>5. CASE Advance(t)
  <2>1. At(t, "build")
    BY DEF Build
  <2>2. /\ Moves(t) /\ hook'[t] # None /\ hook'[t].kind = hook[t].kind
        /\ hook'[t].n = hook[t].n /\ hook'[t].at = hook[t].at + 1
    BY <1>1, <1>5, <2>1, Operation DEF Last
  <2>3. \A k \in hook[t].on : Governs(t, k) => Achieved(hook[t], k)'
    BY <1>1, <1>2, <2>2 DEF maps, Achieved, Past, Indexed, Untracked, Unnumbered, Clearing, Lead
  <2>4. \A k \in hook[t].on : Governs(t, k) => Relies(hook[t], k)'
    BY <1>1, <2>2 DEF Relies
  <2> QED  BY <1>1, <1>3, <1>4, <2>2, <2>3, <2>4, MoveStep
<1>6. CASE hook' = [hook EXCEPT ![t] = None] /\ unsettled' = unsettled \cup hook[t].on
  <2>1. hook'[t] = None /\ hook' = [hook EXCEPT ![t] = hook'[t]] /\ unsettled' \subseteq Keys
    BY <1>1, <1>2, <1>6 DEF TypeOK
  <2>2. Moves(t)
    BY <1>2, <1>6, <2>1 DEF Moves
  <2> QED  BY <1>1, <1>3, <1>4, <1>6, <2>1, <2>2, MoveStep
<1> QED  BY <1>5, <1>6 DEF Build

\* The two operations that keep the key id which readKey found.
LEMMA ReadKeyMoves ==
    ASSUME IInv, NEW t \in Threads, NEW op, At(t, op), op \in {"readKey", "unindexOwn"},
           NEW g \in KeyIds \cup {None}, g # None => drawnFor[g] \in hook[t].on,
           hook' = [hook EXCEPT ![t].gone = g, ![t].at = @ + 1],
           UNCHANGED <<restoring, drawnFor, unsettled>>
    PROVE  /\ Moves(t) /\ hook'[t] # None
           /\ hook'[t].kind = hook[t].kind /\ hook'[t].n = hook[t].n
           /\ hook'[t].at = hook[t].at + 1
<1>1. /\ hook[t] # None /\ hook[t] \in Hooks /\ WellFormed(hook[t])
      /\ Place(hook[t].kind, hook[t].at, op)
  BY AtPlace
<1>2. hook \in [Threads -> Hooks \cup {None}]
  BY DEF IInv, TypeOK
<1> DEFINE h == [hook[t] EXCEPT !.gone = g, !.at = @ + 1]
<1>3. hook' = [hook EXCEPT ![t] = h]
  OBVIOUS
<1>4. hook[t].kind \in Kinds /\ hook[t].at \in 1..11
  BY <1>1 DEF Hooks
<1>5. hook[t].at < Last(hook[t].kind) /\ hook[t].at + 1 \in 1..11
  BY <1>1, <1>4 DEF Place, Clearing, Lead, Last
<1>6. /\ h \in Hooks
      /\ h.kind = hook[t].kind /\ h.on = hook[t].on /\ h.n = hook[t].n
      /\ h.cleans = hook[t].cleans /\ h.gone = g /\ h.at = hook[t].at + 1
  BY <1>1, <1>5 DEF Hooks
<1>7. h # None
  BY <1>6, WritesAssumption
<1> HIDE DEF h
<1>8. hook'[t] = h
  BY <1>2, <1>3
<1>9. hook[t].at < Len(Program[hook[t].kind])
  BY <1>4, <1>5, LastIsLength
<1> QED  BY <1>3, <1>6, <1>7, <1>8, <1>9 DEF Moves

LEMMA ReadKeyKeeps ==
    ASSUME IInv, NEW t \in Threads, ReadKey(t)
    PROVE  IInv'
<1>1. /\ hook[t] # None /\ hook[t].on \subseteq Keys
      /\ hook[t].kind \in Clearing /\ hook[t].at = 1 + Lead(hook[t].kind)
      /\ \A k \in hook[t].on : Governs(t, k) => Achieved(hook[t], k) /\ Relies(hook[t], k)
  BY AtPlace DEF ReadKey, Place
<1>2. /\ TypeOK /\ NumbersOwned /\ NothingTracked
      /\ UNCHANGED maps /\ UNCHANGED <<restoring, drawnFor, unsettled>>
  BY DEF IInv, ReadKey
<1>3. PICK k \in hook[t].on : hook' = [hook EXCEPT ![t].gone = keys[k], ![t].at = @ + 1]
  BY DEF ReadKey
<1>4. keys[k] \in KeyIds \cup {None} /\ (keys[k] # None => drawnFor[keys[k]] \in hook[t].on)
  BY <1>1, <1>2 DEF TypeOK, NumbersOwned, Generated
<1>5. /\ Moves(t) /\ hook'[t] # None /\ hook'[t].kind = hook[t].kind
      /\ hook'[t].n = hook[t].n /\ hook'[t].at = hook[t].at + 1
  BY <1>2, <1>3, <1>4, ReadKeyMoves DEF ReadKey
<1>6. \A l \in Keys : SameFor(l)
  BY <1>2 DEF maps, SameFor
<1>7. MapsType' /\ NumbersOwned' /\ NothingTracked'
  BY <1>2 DEF maps, MapsType, TypeOK, NumbersOwned, NumbersKeepTheirKey, Generated, NothingTracked
<1>8. \A l \in hook[t].on : Governs(t, l) => Achieved(hook[t], l)'
  BY <1>1, <1>2, <1>5 DEF maps, Achieved, Past, Indexed, Untracked, Unnumbered, Clearing, Lead
<1>9. \A l \in hook[t].on : Governs(t, l) => Relies(hook[t], l)'
  BY <1>1, <1>2, <1>5 DEF maps, Relies, Clearing
<1> QED  BY <1>1, <1>5, <1>6, <1>7, <1>8, <1>9, MoveStep

LEMMA UnindexOwnKeeps ==
    ASSUME IInv, NEW t \in Threads, UnindexOwn(t)
    PROVE  IInv'
<1>1. /\ hook[t] # None /\ hook[t].on \subseteq Keys /\ WellFormed(hook[t])
      /\ hook[t].kind \in Clearing /\ hook[t].at = 2 + Lead(hook[t].kind)
      /\ \A k \in hook[t].on : Governs(t, k) => Achieved(hook[t], k) /\ Relies(hook[t], k)
  BY AtPlace DEF UnindexOwn, Place
<1>2. /\ TypeOK /\ NumbersOwned /\ NothingTracked
      /\ UNCHANGED <<keys, patchedResponses, grants, tracked, byNspace>>
      /\ UNCHANGED <<restoring, drawnFor, unsettled>>
  BY DEF IInv, UnindexOwn
<1>3. /\ Moves(t) /\ hook'[t] # None /\ hook'[t].kind = hook[t].kind
      /\ hook'[t].n = hook[t].n /\ hook'[t].at = hook[t].at + 1
  BY <1>2, ReadKeyMoves DEF UnindexOwn
<1>4. \A l \in Keys \ hook[t].on : SameFor(l)
  BY <1>1, <1>2, WritesAssumption
     DEF UnindexOwn, SameFor, TypeOK, WellFormed, NumbersOwned, NumbersKeepTheirKey
<1>5. MapsType' /\ NumbersOwned' /\ NothingTracked'
  BY <1>2 DEF UnindexOwn, MapsType, TypeOK, NumbersOwned, NumbersKeepTheirKey, Generated, NothingTracked
<1>6. \A l \in hook[t].on : Governs(t, l) => Achieved(hook[t], l)'
  BY <1>1, <1>2, <1>3 DEF Achieved, Past, Indexed, Untracked, Unnumbered, Clearing, Lead
<1>7. \A l \in hook[t].on : Governs(t, l) => Relies(hook[t], l)'
  BY <1>1, <1>2, <1>3 DEF Relies, Clearing
<1> QED  BY <1>1, <1>3, <1>4, <1>5, <1>6, <1>7, MoveStep

-----------------------------------------------------------------------------
(* Starting a hook *)

\* A hook that starts changes no map.  It takes the keys it shares with
\* others from them, and governs the others.
LEMMA StartStep ==
    ASSUME IInv, NEW t \in Threads, NEW kind \in Kinds, NEW S \in SUBSET Keys,
           NEW n \in Ids \cup {None}, Start(t, kind, S, n),
           drawnFor' \in [Ids -> Keys \cup {None}],
           \A m \in Ids : drawnFor[m] # None => drawnFor'[m] = drawnFor[m],
           kind = "reload" => S = Keys,
           kind # "reload" => \E k \in Keys : S = {k},
           kind \in {"store", "leaf", "promote", "load"} => n \in KeyIds /\ drawnFor'[n] \in S,
           kind = "grant" => n \in GrantIds /\ drawnFor'[n] \in S,
           kind = "load" => restoring,
           kind = "promote" => ~restoring
    PROVE  IInv'
<1> DEFINE h == [kind |-> kind, on |-> S, n |-> n, at |-> 1, gone |-> None,
                 cleans |-> IF kind \in Cleaning THEN S \ InFlight ELSE {}]
<1>0. /\ TypeOK /\ HooksWellFormed /\ Exclusive /\ NumbersOwned /\ NothingTracked /\ HooksOnTrack
      /\ TearsStayLocal /\ hook[t] = None
  BY DEF IInv, Start
<1>1. /\ h \in Hooks /\ h # None
      /\ h.kind = kind /\ h.on = S /\ h.n = n /\ h.at = 1 /\ h.gone = None
      /\ h.cleans = IF kind \in Cleaning THEN S \ InFlight ELSE {}
  <2>1. h \in Hooks
    BY DEF Hooks, Ids
  <2>2. h # None
    BY <2>1, WritesAssumption
  <2> QED  BY <2>1, <2>2
<1> HIDE DEF h
<1>2. /\ hook' = [s \in Threads |->
            IF s = t THEN h ELSE IF hook[s] = None THEN None ELSE [hook[s] EXCEPT !.cleans = @ \ S]]
      /\ unsettled' = unsettled \cup (S \cap InFlight)
      /\ UNCHANGED maps /\ UNCHANGED restoring
  BY DEF Start, h
<1>3. hook'[t] = h
  BY <1>2
<1>4. \A s \in Threads : s # t /\ hook[s] # None =>
          /\ hook'[s] \in Hooks /\ hook'[s] # None /\ hook[s] \in Hooks
          /\ hook'[s].kind = hook[s].kind /\ hook'[s].on = hook[s].on /\ hook'[s].n = hook[s].n
          /\ hook'[s].at = hook[s].at /\ hook'[s].gone = hook[s].gone
          /\ hook'[s].cleans = hook[s].cleans \ S
  <2> SUFFICES ASSUME NEW s \in Threads, s # t, hook[s] # None
               PROVE  /\ hook'[s] \in Hooks /\ hook'[s] # None /\ hook[s] \in Hooks
                      /\ hook'[s].kind = hook[s].kind /\ hook'[s].on = hook[s].on
                      /\ hook'[s].n = hook[s].n
                      /\ hook'[s].at = hook[s].at /\ hook'[s].gone = hook[s].gone
                      /\ hook'[s].cleans = hook[s].cleans \ S
    OBVIOUS
  <2>1. hook[s] \in Hooks /\ hook'[s] = [hook[s] EXCEPT !.cleans = hook[s].cleans \ S]
    BY <1>0, <1>2 DEF TypeOK
  <2>2. hook'[s] \in Hooks
    BY <2>1 DEF Hooks
  <2> QED  BY <2>1, <2>2, WritesAssumption DEF Hooks
<1>5. \A s \in Threads : s # t /\ hook[s] = None => hook'[s] = None
  BY <1>2
<1>6. On(t)' = S /\ On(t) = {} /\ \A s \in Threads : s # t => On(s)' = On(s)
  BY <1>0, <1>1, <1>3, <1>4, <1>5 DEF On
<1>7. TypeOK'
  <2>1. hook' \in [Threads -> Hooks \cup {None}]
    BY <1>1, <1>2, <1>3, <1>4, <1>5
  <2> QED  BY <1>0, <1>2, <2>1 DEF TypeOK, maps
<1>8. \A k \in Keys : SameFor(k)
  BY <1>2 DEF maps, SameFor
<1>9. \A s \in Threads : On(s) \subseteq InFlight
  BY DEF InFlight
<1>10. HooksWellFormed'
  <2> SUFFICES ASSUME NEW s \in Threads, hook'[s] # None PROVE WellFormed(hook[s])'
    BY DEF HooksWellFormed
  <2>1. CASE s = t
    <3>1. 1 <= Len(Program[kind])
      BY LastIsLength DEF Last
    <3>2. S \ (S \ InFlight) \subseteq unsettled'
      BY <1>2
    <3> QED  BY <1>1, <1>2, <1>3, <2>1, <3>1, <3>2 DEF WellFormed
  <2>2. CASE s # t
    <3>1. hook[s] # None /\ WellFormed(hook[s])
      BY <1>0, <1>5, <2>2 DEF HooksWellFormed
    <3>2. hook[s].on \subseteq InFlight /\ hook[s].on \subseteq Keys
      BY <1>4, <1>9, <2>2, <3>1 DEF On, Hooks
    <3>3. hook[s].kind \in Cleaning => hook[s].on \ (hook[s].cleans \ S) \subseteq unsettled'
      BY <1>2, <3>1, <3>2 DEF WellFormed
    <3>4. \A m \in Ids : drawnFor[m] \in hook[s].on => drawnFor'[m] \in hook[s].on
      BY <3>2, WritesAssumption
    <3>5. hook[s].gone \in KeyIds \cup {None}
      BY <1>4, <2>2, <3>1 DEF Hooks
    <3>6. /\ hook[s].gone # None => drawnFor'[hook[s].gone] \in hook[s].on
          /\ hook[s].kind \in {"store", "leaf", "promote", "load", "grant"} =>
               drawnFor'[hook[s].n] \in hook[s].on
      BY <3>1, <3>4, <3>5 DEF WellFormed, Ids
    <3>7. /\ hook'[s].kind = hook[s].kind /\ hook'[s].on = hook[s].on /\ hook'[s].n = hook[s].n
          /\ hook'[s].at = hook[s].at /\ hook'[s].gone = hook[s].gone
          /\ hook'[s].cleans = hook[s].cleans \ S /\ restoring' = restoring
      BY <1>2, <1>4, <2>2, <3>1
    <3> QED  BY <3>1, <3>3, <3>6, <3>7 DEF WellFormed
  <2> QED  BY <2>1, <2>2
<1>11. Exclusive'
  <2> SUFFICES ASSUME NEW r \in Threads, NEW s \in Threads, r # s, NEW k \in On(r)' \cap On(s)'
               PROVE  k \in unsettled' /\ k \notin hook'[s].cleans
    BY DEF Exclusive
  <2>1. CASE s = t
    BY <1>1, <1>2, <1>3, <1>6, <1>9, <2>1
  <2>2. CASE s # t
    <3>1. k \in On(s) /\ hook[s] # None
      BY <1>6, <2>2 DEF On
    <3>2. hook'[s].cleans = hook[s].cleans \ S
      BY <1>4, <2>2, <3>1
    <3>3. CASE r = t
      BY <1>2, <1>6, <1>9, <3>1, <3>2, <3>3
    <3>4. CASE r # t
      BY <1>0, <1>2, <1>6, <3>1, <3>2, <3>4 DEF Exclusive
    <3> QED  BY <3>3, <3>4
  <2> QED  BY <2>1, <2>2
<1>12. NumbersOwned' /\ NothingTracked'
  BY <1>0, <1>2, WritesAssumption
     DEF maps, NumbersOwned, NumbersKeepTheirKey, NothingTracked, Generated, TypeOK, Ids
<1>13. HooksOnTrack'
  <2> SUFFICES ASSUME NEW s \in Threads, hook'[s] # None, NEW k \in Keys, Governs(s, k)'
               PROVE  Achieved(hook[s], k)' /\ Relies(hook[s], k)'
    BY DEF HooksOnTrack
  <2>1. CASE s = t
    <3>1. kind \notin Cleaning => k \notin unsettled /\ k \notin InFlight
      BY <1>1, <1>2, <1>3, <2>1 DEF Governs
    <3>2. kind \notin Cleaning => Consistent(k)'
      BY <1>0, <1>2, <3>1 DEF TearsStayLocal, maps, Consistent, Generated
    <3>3. Achieved(hook[s], k)'
      BY <1>1, <1>3, <2>1 DEF Achieved, Past, Indexed, Untracked, Unnumbered, Lead
    <3>4. Relies(hook[s], k)'
      BY <1>1, <1>3, <2>1, <3>2 DEF Relies, Cleaning, Consistent
    <3> QED  BY <3>3, <3>4
  <2>2. CASE s # t
    <3>1. hook[s] # None /\ WellFormed(hook[s])
      BY <1>0, <1>5, <2>2 DEF HooksWellFormed
    <3>2. Governs(s, k)
      BY <1>2, <1>4, <2>2, <3>1 DEF Governs
    <3>3. Achieved(hook[s], k) /\ Relies(hook[s], k)
      BY <1>0, <3>1, <3>2 DEF HooksOnTrack
    <3>4. hook'[s].kind = hook[s].kind /\ hook'[s].at = hook[s].at /\ hook'[s].n = hook[s].n
      BY <1>4, <2>2, <3>1
    <3> QED  BY <1>0, <1>7, <1>8, <3>1, <3>3, <3>4, SameOnTrack
  <2> QED  BY <2>1, <2>2
<1>14. TearsStayLocal'
  <2> SUFFICES ASSUME NEW k \in Keys, k \notin unsettled', k \notin InFlight' PROVE Consistent(k)'
    BY DEF TearsStayLocal
  <2>1. k \notin unsettled
    BY <1>2
  <2>2. k \notin InFlight
    BY <1>6 DEF InFlight
  <2> QED  BY <1>0, <1>7, <1>8, <2>1, <2>2, SameConsistent DEF TearsStayLocal
<1> QED  BY <1>7, <1>10, <1>11, <1>12, <1>13, <1>14 DEF IInv

\* A number that is drawn for the key a hook starts on.
LEMMA DrawStep ==
    ASSUME IInv, NEW t \in Threads, NEW kind \in {"store", "leaf", "promote", "load", "grant"},
           NEW k \in Keys, NEW n \in Ids, StartDrawing(t, kind, k, n),
           drawnFor[n] \in {None, k},
           IF kind = "grant" THEN n \in GrantIds ELSE n \in KeyIds,
           kind = "load" => restoring,
           kind = "promote" => ~restoring
    PROVE  IInv'
<1>1. drawnFor \in [Ids -> Keys \cup {None}] /\ drawnFor' = [drawnFor EXCEPT ![n] = IF @ = None THEN k ELSE @]
  BY DEF IInv, TypeOK, StartDrawing
<1>2. drawnFor' \in [Ids -> Keys \cup {None}] /\ drawnFor'[n] = k
  BY <1>1
<1>3. \A m \in Ids : drawnFor[m] # None => drawnFor'[m] = drawnFor[m]
  BY <1>1
<1>4. kind \in Kinds /\ Start(t, kind, {k}, n)
  BY Lengths DEF StartDrawing
<1> QED  BY <1>2, <1>3, <1>4, StartStep

LEMMA StartHookKeeps ==
    ASSUME IInv, NEW t \in Threads, StartHook(t)
    PROVE  IInv'
<1>0. drawnFor \in [Ids -> Keys \cup {None}]
  BY DEF IInv, TypeOK
<1>1. ASSUME NEW k \in Keys, NEW kind \in {"cleanup", "clear", "ungrant", "patch"},
             Start(t, kind, {k}, None), UNCHANGED drawnFor
      PROVE  IInv'
  <2>1. kind \in Kinds
    BY Lengths
  <2> QED  BY <1>0, <1>1, <2>1, StartStep
<1>2. ASSUME NEW k \in Keys, StartCleanup(t, k) \/ StartClear(t, k) \/ StartUngrant(t, k) \/ StartPatch(t, k)
      PROVE  IInv'
  BY <1>1, <1>2 DEF StartCleanup, StartClear, StartUngrant, StartPatch
<1>3. ASSUME NEW k \in Keys, NEW n \in Fresh,
             StartStore(t, k, n) \/ StartLeaf(t, k, n) \/ StartPromote(t, k, n) \/ StartLoad(t, k, n)
      PROVE  IInv'
  <2>1. n \in KeyIds /\ n \in Ids /\ drawnFor[n] = None
    BY DEF Fresh, Ids
  <2> QED  BY <1>3, <2>1, DrawStep DEF StartStore, StartLeaf, StartPromote, StartLoad
<1>4. ASSUME NEW k \in Keys, NEW n \in GrantNumbers(k), StartGrant(t, k, n)
      PROVE  IInv'
  <2>1. n \in GrantIds /\ n \in Ids /\ drawnFor[n] \in {None, k}
    BY DEF GrantNumbers, Ids
  <2> QED  BY <1>4, <2>1, DrawStep DEF StartGrant
<1>5. CASE StartReload(t)
  <2>1. Start(t, "reload", Keys, None) /\ UNCHANGED drawnFor /\ "reload" \in Kinds
    BY <1>5, Lengths DEF StartReload
  <2> QED  BY <1>0, <2>1, StartStep
<1> QED  BY <1>2, <1>3, <1>4, <1>5 DEF StartHook

LEMMA LoadReturnsKeeps ==
    ASSUME IInv, LoadPersistedKeysReturns
    PROVE  IInv'
<1>1. /\ UNCHANGED maps /\ UNCHANGED <<hook, drawnFor, unsettled>> /\ restoring' = FALSE /\ restoring
      /\ \A t \in Threads : hook[t] # None => hook[t].kind # "load"
  BY DEF LoadPersistedKeysReturns, Loading
<1>2. /\ TypeOK /\ HooksWellFormed /\ Exclusive /\ NumbersOwned /\ NothingTracked /\ HooksOnTrack
      /\ TearsStayLocal
  BY DEF IInv
<1>3. TypeOK'
  BY <1>1, <1>2 DEF TypeOK, maps
<1>4. HooksWellFormed'
  BY <1>1, <1>2 DEF HooksWellFormed, WellFormed
<1>5. Exclusive' /\ NumbersOwned' /\ NothingTracked'
  BY <1>1, <1>2 DEF Exclusive, On, NumbersOwned, NumbersKeepTheirKey, Generated, NothingTracked, maps
<1>6. \A k \in Keys : SameFor(k)
  BY <1>1 DEF maps, SameFor
<1>7. HooksOnTrack'
  BY <1>1, <1>2, <1>3, <1>6, SameOnTrack DEF HooksOnTrack, HooksWellFormed, Governs
<1>8. TearsStayLocal'
  BY <1>1, <1>2, <1>3, <1>6, SameConsistent DEF TearsStayLocal, InFlight, On
<1> QED  BY <1>3, <1>4, <1>5, <1>7, <1>8 DEF IInv

-----------------------------------------------------------------------------
(* The theorems *)

LEMMA InitInv == Init => IInv
<1> SUFFICES ASSUME Init PROVE IInv
  OBVIOUS
<1>1. TypeOK /\ NumbersOwned /\ NothingTracked
  BY DEF Init, TypeOK, NumbersOwned, NumbersKeepTheirKey, NothingTracked, Generated, Ids
<1>2. \A t \in Threads : hook[t] = None
  BY DEF Init
<1>3. HooksWellFormed /\ Exclusive /\ HooksOnTrack
  BY <1>2 DEF HooksWellFormed, Exclusive, On, HooksOnTrack
<1>4. TearsStayLocal
  BY WritesAssumption DEF Init, TearsStayLocal, Consistent, Generated
<1> QED  BY <1>1, <1>3, <1>4 DEF IInv

LEMMA NextInv == IInv /\ [Next]_vars => IInv'
<1> SUFFICES ASSUME IInv, [Next]_vars PROVE IInv'
  OBVIOUS
<1>1. ASSUME NEW t \in Threads, Drop(t) PROVE IInv'
  BY <1>1, ReadKeyKeeps, UnindexOwnKeeps, UnindexKeeps, DropKeyKeeps, DropPatchKeeps,
     DropGrantsKeeps, UntrackKeeps, UnnumberKeeps, DropGrantKeeps DEF Drop
<1>2. ASSUME NEW t \in Threads, Put(t) PROVE IInv'
  BY <1>2, IndexKeeps, PutKeyKeeps, PutPatchKeeps, TrackKeeps, NumberKeeps, PutGrantKeeps DEF Put
<1>3. CASE UNCHANGED vars
  <2>1. /\ TypeOK' <=> TypeOK
        /\ HooksWellFormed' <=> HooksWellFormed
        /\ Exclusive' <=> Exclusive
        /\ NumbersOwned' <=> NumbersOwned
        /\ NothingTracked' <=> NothingTracked
    BY <1>3 DEF vars, maps, TypeOK, HooksWellFormed, WellFormed, Exclusive, On, NumbersOwned,
                NumbersKeepTheirKey, Generated, NothingTracked
  <2>2. TypeOK /\ HooksWellFormed /\ HooksOnTrack /\ TearsStayLocal
    BY DEF IInv
  <2>3. \A k \in Keys : SameFor(k)
    BY <1>3 DEF vars, maps, SameFor
  <2>4. HooksOnTrack'
    BY <1>3, <2>1, <2>2, <2>3, SameOnTrack DEF vars, HooksOnTrack, HooksWellFormed, Governs
  <2>5. TearsStayLocal'
    BY <1>3, <2>1, <2>2, <2>3, SameConsistent DEF vars, TearsStayLocal, InFlight, On
  <2> QED  BY <2>1, <2>4, <2>5 DEF IInv
<1> QED  BY <1>1, <1>2, <1>3, StartHookKeeps, CheckKeeps, ResignKeeps, BuildKeeps, LoadReturnsKeeps DEF Next

\* However the hooks of any number of threads interleave at their single map
\* operations, the maps of CertificateAliasCache.kt and
\* PassthroughKeyRegistry.kt agree on every key that no hook is on, except one
\* that overlapping hooks or a throwing buildResponse left and that no
\* clearing hook has since had to itself.
THEOREM TearsStayLocalTheorem == Spec => []TearsStayLocal
<1>1. IInv => TearsStayLocal
  BY DEF IInv
<1> QED  BY <1>1, InitInv, NextInv, PTL DEF Spec

\* In every such interleaving, a key id or a grant id leads to the key it was
\* drawn for or to none, in all maps that are looked up by number.
THEOREM NumbersKeepTheirKeyTheorem == Spec => []NumbersKeepTheirKey
<1>1. IInv => NumbersKeepTheirKey
  BY DEF IInv, NumbersOwned
<1> QED  BY <1>1, InitInv, NextInv, PTL DEF Spec
=============================================================================
