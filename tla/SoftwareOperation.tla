-------------------------- MODULE SoftwareOperation --------------------------
(***************************************************************************)
(* Operations on software keys: the createOperation hook of                *)
(* SecurityLevelInterceptor.kt and SoftwareOperationBinder.kt, with the    *)
(* usage budget of USAGE_COUNT_LIMIT in CertificateAliasCache.             *)
(*                                                                         *)
(* A generateKey call makes a new generation of its alias.  It writes keys *)
(* and usageRemaining one after the other, when it clears the old state    *)
(* and when it stores the new; operations, deletions and other generateKey *)
(* calls come in between.  The methods of an operation are synchronized,   *)
(* and usageRemaining.compute is atomic.                                   *)
(*                                                                         *)
(* Requests that are refused change nothing and are not actions.  Of       *)
(* authorizeOperation only the purpose is kept: the dates, the nonce and   *)
(* the digest, padding and mode lists can only refuse more requests.  What *)
(* the cryptographic engines compute is left out; that they throw is not.  *)
(***************************************************************************)
EXTENDS Naturals

CONSTANTS
    Keys,        \* (uid, alias) pairs
    KeyParams,   \* the parameters applications generate keys with
    Handles,     \* operation binders
    MaxGens,     \* generateKey calls
    MaxUses,     \* uses of one key that are counted
    None

Algorithms == {"EC", "RSA", "AES", "HMAC"}
Purposes   == {"SIGN", "VERIFY", "ENCRYPT", "DECRYPT", "AGREE_KEY"}
Gens       == 1..MaxGens
NoKey      == 0

ASSUME OperationAssumption ==
    /\ MaxGens \in Nat /\ MaxUses \in Nat
    /\ KeyParams \subseteq [algorithm : Algorithms, purpose : SUBSET Purposes, usageCountLimit : Nat]
    /\ None \notin Keys \cup KeyParams \cup Nat

VARIABLES
    keys,            \* CertificateAliasCache.keys: the generation of each alias
    params,          \* Info.params of the generations made so far
    usageRemaining,  \* CertificateAliasCache.usageRemaining
    writing,         \* generateKey and clearing calls between their writes
    saved,           \* the generation last handed to PersistenceManager.saveKey
    op,              \* the operation binders handed out
    used,            \* how often each generation has been used
    bypassed,        \* generations some use of which was not charged to them
    robbed           \* generations that were charged for another one's use

vars == <<keys, params, usageRemaining, writing, saved, op, used, bypassed, robbed>>

Writes == [key : Keys, gen : Gens \cup {NoKey}, pc : {"remove", "key", "usage"}]

Operations == [gen : Gens, usageKey : Keys \cup {None}, active : BOOLEAN]

TypeOK ==
    /\ keys \in [Keys -> Gens \cup {NoKey}]
    /\ params \in [Gens -> KeyParams \cup {None}]
    /\ usageRemaining \in [Keys -> Nat \cup {None}]
    /\ writing \subseteq Writes
    /\ saved \in [Keys -> Gens \cup {NoKey}]
    /\ op \in [Handles -> Operations \cup {None}]
    /\ used \in [Gens -> Nat]
    /\ bypassed \subseteq Gens
    /\ robbed \subseteq Gens

LimitOf(g) == params[g].usageCountLimit

-----------------------------------------------------------------------------
(* Keys *)

\* clearSyntheticCertificateState, up to the removal from keys.
ClearKey(k) ==
    /\ keys[k] # NoKey
    /\ keys' = [keys EXCEPT ![k] = NoKey]
    /\ writing' = writing \cup {[key |-> k, gen |-> NoKey, pc |-> "remove"]}
    /\ UNCHANGED <<params, usageRemaining, saved, op, used, bypassed, robbed>>

\* storeGeneratedKey starts in the same way.
GenerateKey(k, g, p) ==
    /\ params[g] = None
    /\ \A h \in Gens : h < g => params[h] # None
    /\ params' = [params EXCEPT ![g] = p]
    /\ keys' = [keys EXCEPT ![k] = NoKey]
    /\ writing' = writing \cup {[key |-> k, gen |-> g, pc |-> "remove"]}
    /\ UNCHANGED <<usageRemaining, saved, op, used, bypassed, robbed>>

\* The generation whose budget a write by w replaces, if it is not w's own.
Victim(w) == {keys[w.key]} \ {w.gen, NoKey}

\* usageRemaining.remove: the end of the clearing.
RemoveUsage(w) ==
    /\ w \in writing /\ w.pc = "remove"
    /\ usageRemaining' = [usageRemaining EXCEPT ![w.key] = None]
    /\ bypassed' = bypassed \cup Victim(w)
    /\ writing' = (writing \ {w}) \cup (IF w.gen = NoKey THEN {} ELSE {[w EXCEPT !.pc = "key"]})
    /\ UNCHANGED <<keys, params, saved, op, used, robbed>>

StoreKey(w) ==
    /\ w \in writing /\ w.pc = "key"
    /\ keys' = [keys EXCEPT ![w.key] = w.gen]
    /\ writing' = (writing \ {w}) \cup {[w EXCEPT !.pc = "usage"]}
    /\ UNCHANGED <<params, usageRemaining, saved, op, used, bypassed, robbed>>

\* The budget is stored and, at the end of storeGeneratedKey, the key saved.
StoreUsage(w) ==
    /\ w \in writing /\ w.pc = "usage"
    /\ IF LimitOf(w.gen) > 0
       THEN /\ usageRemaining' = [usageRemaining EXCEPT ![w.key] = LimitOf(w.gen)]
            /\ bypassed' = bypassed \cup Victim(w)
       ELSE UNCHANGED <<usageRemaining, bypassed>>
    /\ writing' = writing \ {w}
    /\ saved' = [saved EXCEPT ![w.key] = w.gen]
    /\ UNCHANGED <<keys, params, op, used, robbed>>

\* The daemon is killed and started again.  loadPersistedKeys puts keys and
\* no budget.  Whether a save or a deletion was still executed, and whether
\* the file can be read, is KeyPersistence's: here any saved key may be
\* restored, or none.
Restarted(restored) ==
    /\ \A k \in restored : saved[k] # NoKey
    /\ keys' = [k \in Keys |-> IF k \in restored THEN saved[k] ELSE NoKey]
    /\ usageRemaining' = [k \in Keys |-> None]
    /\ bypassed' = bypassed \cup {saved[k] : k \in restored}
    /\ writing' = {}
    /\ op' = [h \in Handles |-> None]
    /\ UNCHANGED <<params, saved, used, robbed>>

-----------------------------------------------------------------------------
(* createOperation *)

\* authorizeOperation
Authorized(p, purpose) ==
    /\ p.algorithm \in {"EC", "RSA"} => purpose \notin {"VERIFY", "ENCRYPT"}
    /\ purpose = "AGREE_KEY" => p.algorithm = "EC"
    /\ purpose \in p.purpose

\* SoftwareOperationBinder.create; without an engine it throws, and the
\* request goes on to the real keystore.
HasEngine(p, purpose) ==
    \/ p.algorithm = "HMAC" /\ purpose \in {"SIGN", "VERIFY"}
    \/ p.algorithm = "EC"   /\ purpose \in {"SIGN", "VERIFY", "AGREE_KEY"}
    \/ p.algorithm = "RSA"  /\ purpose \in {"SIGN", "VERIFY", "ENCRYPT", "DECRYPT"}
    \/ p.algorithm = "AES"  /\ purpose \in {"ENCRYPT", "DECRYPT"}

\* usageKey is what resolveKey returns: the key itself for its owner, null
\* for a grantee, whom the budget does not concern, and another key of the
\* owner when the descriptor's number and alias name different keys.
CreateOperation(h, k, usageKey) ==
    LET g == keys[k]
    IN  /\ op[h] = None
        /\ g # NoKey
        /\ usageKey # None /\ LimitOf(g) > 0 => usageRemaining[usageKey] # 0
        /\ \E purpose \in Purposes : Authorized(params[g], purpose) /\ HasEngine(params[g], purpose)
        /\ op' = [op EXCEPT ![h] = [gen |-> g, usageKey |-> usageKey, active |-> TRUE]]
        /\ UNCHANGED <<keys, params, usageRemaining, writing, saved, used, bypassed, robbed>>

-----------------------------------------------------------------------------
(* The methods of an operation *)

Active(h) == op[h] # None /\ op[h].active

Deactivated(h) == [op EXCEPT ![h].active = FALSE]

\* update changes nothing here, whether it throws or not; updateAad ends the
\* operation when it throws.
UpdateAadThrows(h) ==
    /\ Active(h)
    /\ op' = Deactivated(h)
    /\ UNCHANGED <<keys, params, usageRemaining, writing, saved, used, bypassed, robbed>>

Abort(h) ==
    /\ op[h] # None
    /\ op' = Deactivated(h)
    /\ UNCHANGED <<keys, params, usageRemaining, writing, saved, used, bypassed, robbed>>

\* Mutant: the absent entry of an exhausted budget is not told from a full one.
BudgetUnsigned(o) == IF usageRemaining[o.usageKey] \in {None, 0} THEN LimitOf(o.gen)
                     ELSE usageRemaining[o.usageKey]

\* consumeUsage: what is left for the operation, and the map once it is
\* charged.  An absent entry counts as a full budget.
Budget(o) == IF usageRemaining[o.usageKey] = None THEN LimitOf(o.gen)
             ELSE usageRemaining[o.usageKey]

Limited(o) == LimitOf(o.gen) > 0 /\ o.usageKey # None

ConsumeUsage(o) ==
    IF Limited(o) THEN [usageRemaining EXCEPT ![o.usageKey] = Budget(o) - 1] ELSE usageRemaining

\* The budget that is charged is not, or not yet, that of the operation's key.
Bypasses(o) ==
    \/ o.usageKey = None
    \/ keys[o.usageKey] # o.gen
    \/ [key |-> o.usageKey, gen |-> o.gen, pc |-> "usage"] \in writing

\* Mutant: the budget is charged only when the engine has a result.
FinishChargesResult(h) ==
    LET o == op[h]
    IN  /\ Active(h)
        /\ Limited(o) => Budget(o) > 0
        /\ used[o.gen] < MaxUses
        /\ used' = [used EXCEPT ![o.gen] = @ + 1]
        /\ bypassed' = IF Bypasses(o) THEN bypassed \cup {o.gen} ELSE bypassed
        /\ robbed' = IF Limited(o) /\ keys[o.usageKey] # o.gen
                     THEN robbed \cup ({keys[o.usageKey]} \ {NoKey}) ELSE robbed
        /\ \E throws \in BOOLEAN :
             usageRemaining' = IF throws THEN usageRemaining ELSE ConsumeUsage(o)
        /\ op' = Deactivated(h)
        /\ UNCHANGED <<keys, params, writing, saved>>

\* Mutant: the operation is charged and not denied.
FinishUndenied(h) ==
    LET o == op[h]
    IN  /\ Active(h)
        /\ used[o.gen] < MaxUses
        /\ usageRemaining' = ConsumeUsage(o)
        /\ used' = [used EXCEPT ![o.gen] = @ + 1]
        /\ bypassed' = IF Bypasses(o) THEN bypassed \cup {o.gen} ELSE bypassed
        /\ robbed' = IF Limited(o) /\ keys[o.usageKey] # o.gen
                     THEN robbed \cup ({keys[o.usageKey]} \ {NoKey}) ELSE robbed
        /\ op' = Deactivated(h)
        /\ UNCHANGED <<keys, params, writing, saved>>

\* finish.  A denied one leaves the operation active and writes back the
\* budget it found, which is no change: Budget is 0 only for a present entry.
\* The use is charged, and the operation over, also when the engine throws.
Finish(h) ==
    LET o == op[h]
    IN  /\ Active(h)
        /\ Limited(o) => Budget(o) > 0
        /\ used[o.gen] < MaxUses
        /\ usageRemaining' = ConsumeUsage(o)
        /\ used' = [used EXCEPT ![o.gen] = @ + 1]
        /\ bypassed' = IF Bypasses(o) THEN bypassed \cup {o.gen} ELSE bypassed
        /\ robbed' = IF Limited(o) /\ keys[o.usageKey] # o.gen
                     THEN robbed \cup ({keys[o.usageKey]} \ {NoKey}) ELSE robbed
        /\ op' = Deactivated(h)
        /\ UNCHANGED <<keys, params, writing, saved>>

\* The binder is released.
Release(h) ==
    /\ op[h] # None
    /\ op' = [op EXCEPT ![h] = None]
    /\ UNCHANGED <<keys, params, usageRemaining, writing, saved, used, bypassed, robbed>>

-----------------------------------------------------------------------------
Init ==
    /\ keys = [k \in Keys |-> NoKey]
    /\ params = [g \in Gens |-> None]
    /\ usageRemaining = [k \in Keys |-> None]
    /\ writing = {}
    /\ saved = [k \in Keys |-> NoKey]
    /\ op = [h \in Handles |-> None]
    /\ used = [g \in Gens |-> 0]
    /\ bypassed = {}
    /\ robbed = {}

Next ==
    \/ \E k \in Keys : ClearKey(k) \/ \E g \in Gens, p \in KeyParams : GenerateKey(k, g, p)
    \/ \E w \in writing : RemoveUsage(w) \/ StoreKey(w) \/ StoreUsage(w)
    \/ \E restored \in SUBSET Keys : Restarted(restored)
    \/ \E h \in Handles :
         \/ \E k \in Keys, usageKey \in Keys \cup {None} : CreateOperation(h, k, usageKey)
         \/ UpdateAadThrows(h) \/ Abort(h) \/ Finish(h) \/ Release(h)

Spec == Init /\ [][Next]_vars

-----------------------------------------------------------------------------
(* Properties *)

\* A key with USAGE_COUNT_LIMIT is never used more often than the limit,
\* however its operations, its deletion and new generateKey calls interleave
\* (SoftwareOperationBinder.kt:263-274), as long as every use was charged to
\* it: not by a grantee, not through a descriptor that also names another
\* key, not after the key was cleared or replaced, not before its budget was
\* written, and neither a restart nor a late write of another call replaced or
\* removed the budget.
UsageLimit ==
    \A g \in Gens : params[g] # None /\ LimitOf(g) > 0 /\ g \notin bypassed => used[g] <= LimitOf(g)

\* The budget of a stored key is exactly its limit less its uses: no use is
\* lost to it either, unless an operation of a replaced key was charged to
\* it (SecurityLevelInterceptor.kt:552-554, SoftwareOperationBinder.kt:265-272).
UsageExact ==
    \A k \in Keys :
        LET g == keys[k]
        IN  /\ g # NoKey
            /\ LimitOf(g) > 0
            /\ [key |-> k, gen |-> g, pc |-> "usage"] \notin writing
            /\ g \notin bypassed \cup robbed
            => usageRemaining[k] = LimitOf(g) - used[g]
=============================================================================
