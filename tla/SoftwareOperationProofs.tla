----------------------- MODULE SoftwareOperationProofs -----------------------
(***************************************************************************)
(* Proofs about SoftwareOperation: the usage limit and the exact budget    *)
(* hold for all keys, limits, handles and interleavings.                   *)
(***************************************************************************)
EXTENDS SoftwareOperation, TLAPS

\* Only generations that were made are stored, written or operated on.
Made ==
    /\ \A k \in Keys : keys[k] # NoKey => params[keys[k]] # None
    /\ \A w \in writing : w.gen # NoKey => params[w.gen] # None
    /\ \A h \in Handles : op[h] # None => params[op[h].gen] # None
    /\ \A k \in Keys : saved[k] # NoKey => params[saved[k]] # None
    /\ \A g \in Gens : params[g] = None => used[g] = 0

\* A generation is stored under one alias, by one call, and while that call
\* has not stored the key nobody else has.
OneHome ==
    /\ \A k1, k2 \in Keys : keys[k1] # NoKey /\ keys[k1] = keys[k2] => k1 = k2
    /\ \A w1, w2 \in writing : w1.gen # NoKey /\ w1.gen = w2.gen => w1 = w2
    /\ \A w \in writing, k \in Keys :
         w.gen # NoKey /\ keys[k] = w.gen => k = w.key /\ w.pc = "usage"
    /\ \A w \in writing : w.gen = NoKey => w.pc = "remove"
    /\ \A k1, k2 \in Keys : saved[k1] # NoKey /\ saved[k1] \in {saved[k2], keys[k2]} => k1 = k2
    /\ \A w \in writing, k \in Keys : saved[k] # NoKey => saved[k] # w.gen

\* A generation that is still being stored has no charged use.
Unused == \A w \in writing : w.gen # NoKey => used[w.gen] = 0 \/ w.gen \in bypassed

\* The budget covers what the limit leaves, exactly unless it was robbed.
Covered ==
    \A k \in Keys :
        LET g == keys[k]
        IN  /\ g # NoKey
            /\ LimitOf(g) > 0
            /\ [key |-> k, gen |-> g, pc |-> "usage"] \notin writing
            /\ g \notin bypassed
            => /\ usageRemaining[k] # None
               /\ used[g] + usageRemaining[k] <= LimitOf(g)
               /\ g \notin robbed => used[g] + usageRemaining[k] = LimitOf(g)

IInv == TypeOK /\ Made /\ OneHome /\ Unused /\ Covered /\ UsageLimit

-----------------------------------------------------------------------------

\* The limit of a generation that was made is a number.
LEMMA LimitNat ==
    ASSUME TypeOK, NEW g \in Gens, params[g] # None
    PROVE  LimitOf(g) \in Nat
  BY OperationAssumption DEF TypeOK, LimitOf

\* The initial state satisfies the invariant.
LEMMA InitIInv == Init => IInv
  BY OperationAssumption
     DEF Init, IInv, TypeOK, Made, OneHome, Unused, Covered, UsageLimit, Gens, NoKey

-----------------------------------------------------------------------------

\* Clearing keeps the invariant: the alias has no key left to account for.
LEMMA ClearKeyStep == ASSUME IInv, NEW k \in Keys, ClearKey(k) PROVE IInv'
  <1> USE DEF NoKey, Gens
  <1>1. TypeOK'
    BY DEF ClearKey, IInv, TypeOK, Writes
  <1>2. Made'
    BY DEF ClearKey, IInv, TypeOK, Made
  <1>3. OneHome'
    BY DEF ClearKey, IInv, TypeOK, OneHome
  <1>4. Unused' /\ UsageLimit'
    BY DEF ClearKey, IInv, TypeOK, Unused, UsageLimit, LimitOf
  <1>5. Covered'
    BY DEF ClearKey, IInv, TypeOK, Covered, LimitOf
  <1> QED BY <1>1, <1>2, <1>3, <1>4, <1>5 DEF IInv

\* A new generation has no use, and no alias holds it yet.
LEMMA GenerateKeyStep ==
    ASSUME IInv, NEW k \in Keys, NEW g \in Gens, NEW p \in KeyParams, GenerateKey(k, g, p)
    PROVE  IInv'
  <1> USE DEF NoKey
  <1>0. /\ g # 0
        /\ used[g] = 0
        /\ \A j \in Keys : keys[j] # g /\ saved[j] # g
        /\ \A w \in writing : w.gen # g
        /\ \A h \in Handles : op[h] # None => op[h].gen # g
    BY DEF GenerateKey, IInv, TypeOK, Made, Gens
  <1>00. \A h \in Gens : h # g => LimitOf(h)' = LimitOf(h)
    BY DEF GenerateKey, IInv, TypeOK, LimitOf
  <1>1. TypeOK'
    BY DEF GenerateKey, IInv, TypeOK, Writes
  <1>2. Made'
    BY <1>0, OperationAssumption DEF GenerateKey, IInv, TypeOK, Made, Writes, Operations
  <1>3. OneHome'
    BY <1>0 DEF GenerateKey, IInv, TypeOK, OneHome, Writes
  <1>4. Unused'
    BY <1>0 DEF GenerateKey, IInv, TypeOK, Unused, Writes
  <1>5. Covered'
    BY <1>0, <1>00 DEF GenerateKey, IInv, TypeOK, Covered
  <1>6. UsageLimit'
    BY <1>0, <1>00, <1>1, LimitNat, OperationAssumption DEF GenerateKey, IInv, TypeOK, UsageLimit, LimitOf
  <1> QED BY <1>1, <1>2, <1>3, <1>4, <1>5, <1>6 DEF IInv

\* The key whose budget entry is removed is gone, or is marked.
LEMMA RemoveUsageStep == ASSUME IInv, NEW w \in writing, RemoveUsage(w) PROVE IInv'
  <1> USE DEF NoKey
  <1>0. w \in Writes
    BY DEF IInv, TypeOK
  <1>1. TypeOK'
    BY <1>0 DEF RemoveUsage, IInv, TypeOK, Writes, Victim
  <1>2. Made'
    BY <1>0 DEF RemoveUsage, IInv, TypeOK, Made, Writes
  <1>3. OneHome'
    BY <1>0 DEF RemoveUsage, IInv, TypeOK, OneHome, Writes
  <1>4. Unused' /\ UsageLimit'
    BY <1>0 DEF RemoveUsage, IInv, TypeOK, Unused, UsageLimit, LimitOf, Writes
  <1>5. Covered'
    <2> SUFFICES ASSUME NEW k \in Keys, keys[k] # NoKey, LimitOf(keys[k]) > 0,
                        [key |-> k, gen |-> keys[k], pc |-> "usage"] \notin writing',
                        keys[k] \notin bypassed'
                 PROVE  /\ usageRemaining'[k] # None
                        /\ used[keys[k]] + usageRemaining'[k] <= LimitOf(keys[k])
                        /\ keys[k] \notin robbed =>
                             used[keys[k]] + usageRemaining'[k] = LimitOf(keys[k])
      BY DEF RemoveUsage, Covered, LimitOf
    <2>1. [key |-> k, gen |-> keys[k], pc |-> "usage"] \notin writing
      BY <1>0 DEF RemoveUsage, Writes
    <2>2. k # w.key
      BY <1>0 DEF RemoveUsage, Victim, IInv, OneHome
    <2> QED BY <2>1, <2>2, <1>0 DEF RemoveUsage, IInv, Covered, TypeOK, Writes
  <1> QED BY <1>1, <1>2, <1>3, <1>4, <1>5 DEF IInv

\* The key is stored; its budget is still to come.
LEMMA StoreKeyStep == ASSUME IInv, NEW w \in writing, StoreKey(w) PROVE IInv'
  <1> USE DEF NoKey
  <1>0. w \in Writes /\ w.gen \in Gens /\ w.gen # 0
    BY DEF IInv, TypeOK, OneHome, StoreKey, Writes, Gens
  <1>1. TypeOK'
    BY <1>0 DEF StoreKey, IInv, TypeOK, Writes
  <1>2. Made'
    BY <1>0 DEF StoreKey, IInv, TypeOK, Made, Writes
  <1>3. OneHome'
    BY <1>0 DEF StoreKey, IInv, TypeOK, OneHome, Writes
  <1>4. Unused' /\ UsageLimit'
    BY <1>0 DEF StoreKey, IInv, TypeOK, Unused, UsageLimit, LimitOf, Writes
  <1>5. Covered'
    BY <1>0 DEF StoreKey, IInv, TypeOK, Covered, LimitOf, Writes
  <1> QED BY <1>1, <1>2, <1>3, <1>4, <1>5 DEF IInv

\* The budget starts at the limit while the key is unused, or the key whose
\* budget is replaced is marked.
LEMMA StoreUsageStep == ASSUME IInv, NEW w \in writing, StoreUsage(w) PROVE IInv'
  <1> USE DEF NoKey
  <1>0. w \in Writes /\ w.gen \in Gens /\ w.gen # 0 /\ params[w.gen] # None
    BY DEF IInv, TypeOK, OneHome, Made, StoreUsage, Writes, Gens
  <1>00. LimitOf(w.gen) \in Nat
    BY <1>0, LimitNat DEF IInv
  <1>1. TypeOK'
    BY <1>0, <1>00 DEF StoreUsage, IInv, TypeOK, Writes, Victim
  <1>2. Made'
    BY <1>0 DEF StoreUsage, IInv, TypeOK, Made, Writes
  <1>3. OneHome'
    BY <1>0 DEF StoreUsage, IInv, TypeOK, OneHome, Writes
  <1>4. Unused' /\ UsageLimit'
    BY <1>0 DEF StoreUsage, IInv, TypeOK, Unused, UsageLimit, LimitOf, Writes, Victim
  <1>5. Covered'
    <2> SUFFICES ASSUME NEW k \in Keys, keys[k] # NoKey, LimitOf(keys[k]) > 0,
                        [key |-> k, gen |-> keys[k], pc |-> "usage"] \notin writing',
                        keys[k] \notin bypassed'
                 PROVE  /\ usageRemaining'[k] # None
                        /\ used[keys[k]] + usageRemaining'[k] <= LimitOf(keys[k])
                        /\ keys[k] \notin robbed =>
                             used[keys[k]] + usageRemaining'[k] = LimitOf(keys[k])
      BY DEF StoreUsage, Covered, LimitOf
    <2>1. CASE keys[k] = w.gen
      <3>1. k = w.key
        BY <2>1 DEF IInv, OneHome
      <3>2. used[w.gen] = 0
        BY <1>0, <2>1 DEF IInv, Unused, StoreUsage
      <3>3. usageRemaining'[k] = LimitOf(w.gen)
        BY <2>1, <3>1, <1>0 DEF StoreUsage, IInv, TypeOK
      <3> QED BY <2>1, <3>2, <3>3, <1>00, OperationAssumption
    <2>2. CASE keys[k] # w.gen
      <3>1. [key |-> k, gen |-> keys[k], pc |-> "usage"] \notin writing
        BY <2>2, <1>0 DEF StoreUsage, Writes
      <3>2. LimitOf(w.gen) > 0 => k # w.key
        BY <2>2 DEF StoreUsage, Victim
      <3>3. usageRemaining'[k] = usageRemaining[k]
        BY <3>2, <1>0 DEF StoreUsage, IInv, TypeOK
      <3>4. keys[k] \notin bypassed
        BY DEF StoreUsage
      <3> QED BY <3>1, <3>3, <3>4 DEF IInv, Covered
    <2> QED BY <2>1, <2>2
  <1> QED BY <1>1, <1>2, <1>3, <1>4, <1>5 DEF IInv

\* A restored key has no budget, and is marked.
LEMMA RestartedStep ==
    ASSUME IInv, NEW restored \in SUBSET Keys, Restarted(restored)
    PROVE  IInv'
  <1> USE DEF NoKey
  <1>0. \A k \in restored : saved[k] \in Gens /\ saved[k] \in bypassed'
    BY DEF Restarted, IInv, TypeOK
  <1>1. TypeOK'
    BY <1>0 DEF Restarted, IInv, TypeOK
  <1>2. Made'
    BY DEF Restarted, IInv, TypeOK, Made
  <1>3. OneHome'
    BY DEF Restarted, IInv, TypeOK, OneHome
  <1>4. Unused' /\ UsageLimit'
    BY DEF Restarted, IInv, TypeOK, Unused, UsageLimit, LimitOf
  <1>5. Covered'
    BY <1>0 DEF Restarted, Covered
  <1> QED BY <1>1, <1>2, <1>3, <1>4, <1>5 DEF IInv

\* Operations are handed out and ended without touching the accounting.
LEMMA HandleStep ==
    ASSUME IInv, NEW h \in Handles,
           \/ \E k \in Keys, usageKey \in Keys \cup {None} : CreateOperation(h, k, usageKey)
           \/ UpdateAadThrows(h) \/ Abort(h) \/ Release(h)
    PROVE  IInv'
  <1> USE DEF NoKey
  <1>1. UNCHANGED <<keys, params, usageRemaining, writing, saved, used, bypassed, robbed>>
    BY DEF CreateOperation, UpdateAadThrows, Abort, Release
  <1>2. /\ op' \in [Handles -> Operations \cup {None}]
        /\ \A j \in Handles : op'[j] # None => params[op'[j].gen] # None
    <2>1. CASE UpdateAadThrows(h) \/ Abort(h)
      <3>1. op[h] # None /\ op' = [op EXCEPT ![h] = [op[h] EXCEPT !.active = FALSE]]
        BY <2>1 DEF UpdateAadThrows, Abort, Active, Deactivated
      <3>2. op \in [Handles -> Operations \cup {None}] /\ op[h] \in Operations
        BY <3>1 DEF IInv, TypeOK
      <3>3. [op[h] EXCEPT !.active = FALSE] \in Operations /\ [op[h] EXCEPT !.active = FALSE].gen = op[h].gen
        BY <3>2 DEF Operations
      <3>4. \A j \in Handles : op[j] # None => params[op[j].gen] # None
        BY DEF IInv, Made
      <3> QED BY <3>1, <3>2, <3>3, <3>4
    <2>2. CASE Release(h)
      BY <2>2 DEF Release, IInv, TypeOK, Made
    <2>3. CASE \E k \in Keys, usageKey \in Keys \cup {None} : CreateOperation(h, k, usageKey)
      <3>1. PICK k \in Keys, u \in Keys \cup {None} : CreateOperation(h, k, u)
        BY <2>3
      <3>2. keys[k] \in Gens /\ params[keys[k]] # None
        BY <3>1 DEF CreateOperation, IInv, TypeOK, Made
      <3>3. [gen |-> keys[k], usageKey |-> u, active |-> TRUE] \in Operations
        BY <3>2 DEF Operations
      <3> QED BY <3>1, <3>2, <3>3 DEF CreateOperation, IInv, TypeOK, Made
    <2> QED BY <2>1, <2>2, <2>3
  <1>3. TypeOK' /\ Made'
    BY <1>1, <1>2 DEF IInv, TypeOK, Made
  <1>4. OneHome' /\ Unused' /\ Covered' /\ UsageLimit'
    BY <1>1 DEF IInv, OneHome, Unused, Covered, UsageLimit, LimitOf
  <1> QED BY <1>3, <1>4 DEF IInv

\* A use is charged to its own key, or marks the key it bypasses and the key
\* it robs.
LEMMA FinishStep == ASSUME IInv, NEW h \in Handles, Finish(h) PROVE IInv'
  <1> USE DEF NoKey
  <1> DEFINE o == op[h]
  <1>0. /\ o \in Operations
        /\ o.gen \in Gens /\ params[o.gen] # None
        /\ LimitOf(o.gen) \in Nat
    <2>1. o \in Operations /\ params[o.gen] # None
      BY DEF Finish, Active, IInv, TypeOK, Made
    <2> QED BY <2>1, LimitNat DEF IInv, Operations
  <1>00. \A g \in Gens : LimitOf(g)' = LimitOf(g)
    BY DEF Finish, LimitOf
  <1>b. Limited(o) => Budget(o) \in Nat /\ Budget(o) > 0 /\ o.usageKey \in Keys
    BY <1>0 DEF Finish, Limited, Budget, IInv, TypeOK, Operations
  <1>1. TypeOK'
    <2>1. usageRemaining' \in [Keys -> Nat \cup {None}]
      BY <1>b DEF Finish, ConsumeUsage, IInv, TypeOK
    <2>2. op' \in [Handles -> Operations \cup {None}]
      BY <1>0 DEF Finish, Deactivated, IInv, TypeOK, Operations
    <2>3. used' \in [Gens -> Nat] /\ bypassed' \subseteq Gens
      BY <1>0 DEF Finish, IInv, TypeOK
    <2>4. robbed' \subseteq Gens
      BY <1>b DEF Finish, IInv, TypeOK
    <2> QED BY <2>1, <2>2, <2>3, <2>4 DEF Finish, IInv, TypeOK
  <1>2. Made'
    BY <1>0 DEF Finish, Deactivated, IInv, TypeOK, Made, Operations
  <1>3. OneHome'
    BY DEF Finish, IInv, OneHome
  <1>u. \A g \in Gens : g # o.gen => used'[g] = used[g]
    BY DEF Finish, IInv, TypeOK
  <1>u2. used'[o.gen] = used[o.gen] + 1 /\ used[o.gen] \in Nat
    BY <1>0 DEF Finish, IInv, TypeOK
  <1>m. bypassed \subseteq bypassed' /\ robbed \subseteq robbed'
    BY DEF Finish
  <1>4. Unused'
    <2> SUFFICES ASSUME NEW w \in writing, w.gen # 0
                 PROVE  used'[w.gen] = 0 \/ w.gen \in bypassed'
      BY DEF Finish, Unused
    <2>0. w \in Writes
      BY DEF IInv, TypeOK
    <2>1. CASE w.gen # o.gen
      BY <2>0, <2>1, <1>u, <1>m DEF IInv, Unused, Writes
    <2>2. CASE w.gen = o.gen
      <3>1. Bypasses(o)
        <4> SUFFICES ASSUME o.usageKey # None, keys[o.usageKey] = o.gen
                     PROVE  w = [key |-> o.usageKey, gen |-> o.gen, pc |-> "usage"]
          BY DEF Bypasses
        <4>1. o.usageKey \in Keys
          BY <1>0 DEF Operations
        <4>2. o.usageKey = w.key /\ w.pc = "usage"
          BY <4>1, <2>2 DEF IInv, OneHome
        <4> QED BY <4>2, <2>2, <2>0 DEF Writes
      <3> QED BY <3>1, <2>2 DEF Finish
    <2> QED BY <2>1, <2>2
  <1>5. Covered'
    <2> SUFFICES ASSUME NEW k \in Keys, keys[k] # 0, LimitOf(keys[k]) > 0,
                        [key |-> k, gen |-> keys[k], pc |-> "usage"] \notin writing,
                        keys[k] \notin bypassed'
                 PROVE  /\ usageRemaining'[k] # None
                        /\ used'[keys[k]] + usageRemaining'[k] <= LimitOf(keys[k])
                        /\ keys[k] \notin robbed' =>
                             used'[keys[k]] + usageRemaining'[k] = LimitOf(keys[k])
      BY <1>00 DEF Finish, Covered, LimitOf
    <2>1. /\ keys[k] \in Gens
          /\ usageRemaining[k] # None /\ usageRemaining[k] \in Nat
          /\ used[keys[k]] \in Nat /\ LimitOf(keys[k]) \in Nat
          /\ used[keys[k]] + usageRemaining[k] <= LimitOf(keys[k])
          /\ keys[k] \notin robbed => used[keys[k]] + usageRemaining[k] = LimitOf(keys[k])
      BY <1>m, LimitNat DEF IInv, Covered, TypeOK, Made
    <2>2. CASE keys[k] = o.gen
      <3>1. ~Bypasses(o)
        BY <2>2 DEF Finish
      <3>2. o.usageKey = k
        BY <3>1, <2>2, <1>0 DEF Bypasses, IInv, OneHome, Operations
      <3>3. Limited(o) /\ Budget(o) = usageRemaining[k]
        BY <3>2, <2>1, <2>2, <3>1 DEF Limited, Budget, Bypasses
      <3>4. usageRemaining'[k] = usageRemaining[k] - 1 /\ usageRemaining[k] > 0
        BY <3>2, <3>3, <1>b DEF Finish, ConsumeUsage, IInv, TypeOK
      <3>5. robbed' = robbed
        BY <3>2, <2>2 DEF Finish
      <3> QED BY <3>4, <3>5, <2>1, <2>2, <1>u2, OperationAssumption
    <2>3. CASE keys[k] # o.gen /\ Limited(o) /\ o.usageKey = k
      <3>1. Budget(o) = usageRemaining[k]
        BY <2>1, <2>3 DEF Budget
      <3>2. usageRemaining'[k] = usageRemaining[k] - 1 /\ usageRemaining[k] > 0
        BY <2>3, <3>1, <1>b DEF Finish, ConsumeUsage, IInv, TypeOK
      <3>3. keys[k] \in robbed'
        BY <2>3 DEF Finish
      <3> QED BY <3>2, <3>3, <2>1, <2>3, <1>u, OperationAssumption
    <2>4. CASE keys[k] # o.gen /\ ~(Limited(o) /\ o.usageKey = k)
      <3>1. usageRemaining'[k] = usageRemaining[k]
        BY <2>4 DEF Finish, ConsumeUsage, IInv, TypeOK
      <3> QED BY <3>1, <2>1, <2>4, <1>u, <1>m
    <2> QED BY <2>2, <2>3, <2>4
  <1>6. UsageLimit'
    <2> SUFFICES ASSUME NEW g \in Gens, params[g] # None, LimitOf(g) > 0, g \notin bypassed'
                 PROVE  used'[g] <= LimitOf(g)
      BY <1>00 DEF Finish, UsageLimit
    <2>1. CASE g # o.gen
      BY <2>1, <1>u, <1>m DEF IInv, UsageLimit
    <2>2. CASE g = o.gen
      <3>1. ~Bypasses(o) /\ o.usageKey \in Keys /\ keys[o.usageKey] = g
        BY <2>2, <1>0 DEF Finish, Bypasses, Operations
      <3>2. g # 0 /\ [key |-> o.usageKey, gen |-> g, pc |-> "usage"] \notin writing
        BY <3>1, <2>2 DEF Bypasses, Gens
      <3>3. /\ usageRemaining'[o.usageKey] # None
            /\ used'[g] + usageRemaining'[o.usageKey] <= LimitOf(g)
        BY <1>5, <1>00, <3>1, <3>2 DEF Covered, Finish
      <3>4. usageRemaining'[o.usageKey] \in Nat /\ used'[g] \in Nat /\ LimitOf(g) \in Nat
        BY <1>1, <3>1, <3>3, <2>2, <1>0 DEF TypeOK
      <3> QED BY <3>3, <3>4
    <2> QED BY <2>1, <2>2
  <1> QED BY <1>1, <1>2, <1>3, <1>4, <1>5, <1>6 DEF IInv

\* Every step keeps the invariant.
LEMMA NextIInv == ASSUME IInv, [Next]_vars PROVE IInv'
  <1>1. CASE UNCHANGED vars
    BY <1>1 DEF vars, IInv, TypeOK, Made, OneHome, Unused, Covered, UsageLimit, LimitOf
  <1>2. CASE Next
    BY <1>2, ClearKeyStep, GenerateKeyStep, RemoveUsageStep, StoreKeyStep, StoreUsageStep,
       RestartedStep, HandleStep, FinishStep
    DEF Next
  <1> QED BY <1>1, <1>2

\* The invariant gives the exact budget.
LEMMA ExactBudget == IInv => UsageExact
  <1> SUFFICES ASSUME IInv, NEW k \in Keys, keys[k] # NoKey, LimitOf(keys[k]) > 0,
                      [key |-> k, gen |-> keys[k], pc |-> "usage"] \notin writing,
                      keys[k] \notin bypassed \cup robbed
               PROVE  usageRemaining[k] = LimitOf(keys[k]) - used[keys[k]]
    BY DEF UsageExact
  <1>1. used[keys[k]] + usageRemaining[k] = LimitOf(keys[k]) /\ usageRemaining[k] # None
    BY DEF IInv, Covered
  <1>2. used[keys[k]] \in Nat /\ usageRemaining[k] \in Nat /\ LimitOf(keys[k]) \in Nat
    BY <1>1, LimitNat DEF IInv, TypeOK, Made, NoKey
  <1> QED BY <1>1, <1>2

-----------------------------------------------------------------------------

\* The maps keep their types; above all no interleaving takes a budget below
\* zero: consumeUsage denies the use first
\* (SoftwareOperationBinder.kt:263-274).
THEOREM TypeCorrect == Spec => []TypeOK
  <1>1. IInv => TypeOK
    BY DEF IInv
  <1> QED BY <1>1, InitIInv, NextIInv, PTL DEF Spec

\* A key is not used beyond its limit by uses that are charged to it, for
\* any keys, limits, handles and any interleaving of the map writes of
\* generateKey and deletion with consumeUsage (SoftwareOperationBinder.kt:263-274).
THEOREM UsageLimitTheorem == Spec => []UsageLimit
  <1>1. IInv => UsageLimit
    BY DEF IInv
  <1> QED BY <1>1, InitIInv, NextIInv, PTL DEF Spec

\* The budget of a stored key is its limit less its uses until another key's
\* operation is charged to it (SecurityLevelInterceptor.kt:552-554).
THEOREM UsageExactTheorem == Spec => []UsageExact
  BY InitIInv, NextIInv, ExactBudget, PTL DEF Spec
=============================================================================
