------------------------- MODULE Keystore2Interceptor -------------------------
(***************************************************************************)
(* The hooks of Keystore2Interceptor.kt, the configuration events of       *)
(* PkgConfig, and the specification that runs all Keystore2 hooks.         *)
(***************************************************************************)
EXTENDS SecurityLevelInterceptor

CallDescriptors == {ByAlias(a) : a \in Aliases} \cup {ByNumber(n) : n \in Drawn}

-----------------------------------------------------------------------------
(* deleteKey *)

DeleteKeyPre(t, uid, d) ==
    LET new == NewCall("deleteKey", uid, d)
        k   == <<uid, d.alias>>
        isSoftware == k \in Generated(cache) \ cache.skipLeafHacks
    IN  /\ MayStart(t, "deleteKey", uid, d)
        /\ d.alias = None => "deleteByNumber" \in Env
        /\ \/ /\ d.alias = None
              /\ Continue(t, new)
              /\ UNCHANGED <<cache, truth>>
           \/ /\ d.alias # None
              /\ cache' = CleanupKey(cache, k)
              /\ truth' = [truth EXCEPT ![k] = IF k \in Generated(cache) THEN None ELSE @]
              /\ IF isSoftware THEN Answer(t, new, "OK") ELSE Continue(t, new)
        /\ UNCHANGED <<pendingPassthrough, uidPackages, configVars, keystore, realGrants, free>>

\* Runs on any reply: resultCode is the binder status, not the exception.
DeleteKeyPost(t) ==
    /\ At(t, "deleteKey", "post")
    /\ cache' = IF call[t].desc.alias = None THEN cache ELSE CleanupKey(cache, KeyOf(t))
    /\ Finish(t, IF call[t].res = None THEN "ERROR" ELSE "OK")
    /\ UNCHANGED <<pendingPassthrough, uidPackages, configVars, realVars>>

-----------------------------------------------------------------------------
(* updateSubcomponent *)

UpdateSubcomponentPre(t, uid, d) ==
    LET new   == NewCall("updateSubcomponent", uid, d)
        own   == ResolveKey(cache, uid, d)
        grant == IF own = None THEN GrantOf(cache, uid, d.ns) ELSE None
        key   == IF grant # None /\ IsPatchedKey(cache, grant.key) THEN grant.key ELSE own
        denied == grant # None /\ "UPDATE" \notin grant.accessVector
    IN  /\ MayStart(t, "updateSubcomponent", uid, d)
        /\ \/ /\ denied
              /\ Answer(t, new, "ERROR")
              /\ UNCHANGED <<cache, truth, free>>
           \/ /\ ~denied /\ key \in Generated(cache)     \* swallowed
              /\ \E n \in free \cap ForgedIds :
                   /\ cache' = UpdateKeyCertChain(cache, key, n)
                   /\ truth' = [truth EXCEPT ![key] =
                                   IF @ = cache.keys[key] THEN [@ EXCEPT !.cert = n] ELSE @]
                   /\ free' = free \ {n}
              /\ Answer(t, new, "OK")
           \/ /\ ~denied /\ key # None /\ key \notin Generated(cache)
              /\ cache' = InvalidateCertificateResponseState(cache, <<uid, key[2]>>, FALSE)
              /\ Continue(t, new)
              /\ UNCHANGED <<truth, free>>
           \/ /\ ~denied /\ key = None
              /\ Continue(t, new)
              /\ UNCHANGED <<cache, truth, free>>
        /\ UNCHANGED <<pendingPassthrough, uidPackages, configVars, keystore, realGrants>>

UpdateSubcomponentPost(t) ==
    LET key == IF call[t].desc.alias # None THEN KeyOf(t)
               ELSE NspaceKey(cache, call[t].uid, call[t].desc.ns)
    IN  /\ At(t, "updateSubcomponent", "post")
        /\ cache' = IF key = None THEN cache
                    ELSE InvalidateCertificateResponseState(cache, key, TRUE)
        /\ Finish(t, IF call[t].res = None THEN "ERROR" ELSE "OK")
        /\ UNCHANGED <<pendingPassthrough, uidPackages, configVars, realVars>>

-----------------------------------------------------------------------------
(* grant and ungrant *)

WithGrant(c, n, to, k) ==
    [c EXCEPT !.grants = [@ EXCEPT ![n] =
        [grantee |-> to.grantee, key |-> k, accessVector |-> to.accessVector]]]

GrantPre(t, uid, d, to) ==
    LET new == [NewCall("grant", uid, d) EXCEPT !.to = to]
        key == ResolveKey(cache, uid, d)
        existing == {n \in Ids : /\ cache.grants[n] # None
                                 /\ cache.grants[n].key = key
                                 /\ cache.grants[n].grantee = to.grantee}
    IN  /\ MayStart(t, "grant", uid, d)
        /\ \/ /\ hasKeyboxes /\ key \in Generated(cache)   \* forged
              /\ \E n \in IF existing = {} THEN free \cap ForgedIds ELSE existing :
                   /\ cache' = WithGrant(cache, n, to, key)
                   /\ free' = free \ {n}
              /\ Answer(t, new, "OK")
           \/ /\ hasKeyboxes /\ key \in Patched(cache) \ Generated(cache)
              /\ Continue(t, new)
              /\ UNCHANGED <<cache, free>>
           \/ /\ ~hasKeyboxes \/ key \notin Generated(cache) \cup Patched(cache)
              /\ Skip(t, new)
              /\ UNCHANGED <<cache, free>>
        /\ UNCHANGED <<pendingPassthrough, uidPackages, configVars, keystore, realGrants, truth>>

\* Tracks the real grant of a key that is (still, or by now) owned.
GrantPost(t) ==
    LET key == ResolveKey(cache, call[t].uid, call[t].desc)
    IN  /\ At(t, "grant", "post")
        /\ cache' = IF hasKeyboxes /\ call[t].res # None /\ key # None /\ IsPatchedKey(cache, key)
                    THEN WithGrant(cache, call[t].res.ns, call[t].to, key)
                    ELSE cache
        /\ Finish(t, IF call[t].res = None THEN "ERROR" ELSE "OK")
        /\ UNCHANGED <<pendingPassthrough, uidPackages, configVars, realVars>>

UngrantPre(t, uid, d, to) ==
    LET new == [NewCall("ungrant", uid, d) EXCEPT !.to = to]
        key == ResolveKey(cache, uid, d)
    IN  /\ MayStart(t, "ungrant", uid, d)
        /\ cache' = IF key = None THEN cache
                    ELSE [cache EXCEPT !.grants = WithoutGrantTo(cache, key, to.grantee)]
        /\ IF key \in Generated(cache) THEN Answer(t, new, "OK") ELSE Skip(t, new)
        /\ UNCHANGED <<pendingPassthrough, uidPackages, configVars, realVars>>

-----------------------------------------------------------------------------
(* getKeyEntry *)

\* GetKeyEntryCurrentModeAuthority.rejectHistoricalOwners
RejectHistoricalOwners(c, uid, d) ==
    IF d.alias # None /\ \/ FindGeneratedKey(c, uid, d) # None
                         \/ ResolvePatchedResponse(c, uid, d) # None
    THEN ClearSyntheticCertificateState(c, <<uid, d.alias>>)
    ELSE c

\* The grant shortcut.  It comes before any checkNeed, so plain AUTO is
\* judged on packages that may not have been loaded.
GetKeyEntryGrantPre(t, uid, d) ==
    LET new   == NewCall("getKeyEntry", uid, d)
        grant == GrantOf(cache, uid, d.ns)
    IN  /\ MayStart(t, "getKeyEntry", uid, d)
        /\ hasKeyboxes
        /\ grant # None
        /\ \/ /\ "GET_INFO" \notin grant.accessVector
              /\ Answer(t, new, "ERROR")
           \/ /\ "GET_INFO" \in grant.accessVector
              /\ ~IsPlainAuto(uidPackages, uid)
              /\ grant.key \in Generated(cache)
              /\ Answer(t, new, "SYNTHETIC")
           \/ /\ "GET_INFO" \in grant.accessVector
              /\ ~IsPlainAuto(uidPackages, uid)
              /\ grant.key \in Patched(cache) \ Generated(cache)
              /\ Answer(t, new, "HYBRID")
        /\ UNCHANGED <<cache, pendingPassthrough, uidPackages, configVars, realVars>>

\* The shortcut has nothing to say.
GrantFallsThrough(uid, d) ==
    LET grant == GrantOf(cache, uid, d.ns)
    IN  grant # None =>
            /\ "GET_INFO" \in grant.accessVector
            /\ IsPlainAuto(uidPackages, uid) \/ ~IsPatchedKey(cache, grant.key)

\* The answer of the needGenerate branch and of the non-target branch.
ServeOwnerOrSkip(t, new, uid, d) ==
    LET generated == FindGeneratedKey(cache, uid, d)
        patched   == ResolvePatchedResponse(cache, uid, d)
    IN  \/ generated # None /\ Answer(t, new, "SYNTHETIC")
        \/ generated = None /\ patched # None /\ Answer(t, new, "HYBRID")
        \/ generated = None /\ patched = None /\ Skip(t, new)

\* The needHack branch for explicit leaf mode.
ServeLeafOrContinue(t, new, uid, d) ==
    LET skipLeafHack == ShouldSkipLeafHackFor(cache, uid, d)
        generated == FindGeneratedKey(cache, uid, d)
        patched   == ResolvePatchedResponse(cache, uid, d)
    IN  \/ skipLeafHack /\ generated # None /\ Answer(t, new, "SYNTHETIC")
        \/ ~skipLeafHack /\ patched # None /\ Answer(t, new, "HYBRID")
        \/ (IF skipLeafHack THEN generated ELSE patched) = None /\ Continue(t, new)

GetKeyEntryPre(t, uid, d) ==
    LET new == NewCall("getKeyEntry", uid, d)
        passthrough == IsPassthroughDescriptor(cache, uid, d)
        target == NeedGenerate(uid) \/ NeedHack(uid)
    IN  /\ MayStart(t, "getKeyEntry", uid, d)
        /\ hasKeyboxes
        /\ GrantFallsThrough(uid, d)
        /\ uidPackages' = Load(uid)
        /\ \/ /\ target /\ passthrough
              /\ Continue(t, new)
              /\ UNCHANGED cache
           \/ /\ NeedGenerate(uid) /\ ~passthrough
              /\ ServeOwnerOrSkip(t, new, uid, d)
              /\ UNCHANGED cache
           \/ /\ ~NeedGenerate(uid) /\ NeedHack(uid) /\ ~passthrough
              /\ IsPlainAuto(uidPackages', uid)
              /\ cache' = RejectHistoricalOwners(cache, uid, d)
              /\ Continue(t, new)
           \/ /\ ~NeedGenerate(uid) /\ NeedHack(uid) /\ ~passthrough
              /\ ~IsPlainAuto(uidPackages', uid)
              /\ ServeLeafOrContinue(t, new, uid, d)
              /\ UNCHANGED cache
           \/ /\ ~target
              /\ ServeOwnerOrSkip(t, new, uid, d)
              /\ UNCHANGED cache
        /\ UNCHANGED <<pendingPassthrough, configVars, realVars>>

GetKeyEntryNoKeybox(t, uid, d) ==
    /\ MayStart(t, "getKeyEntry", uid, d)
    /\ ~hasKeyboxes
    /\ Skip(t, NewCall("getKeyEntry", uid, d))
    /\ UNCHANGED <<cache, pendingPassthrough, uidPackages, configVars, realVars>>

\* Mutant: cached owners are looked at before the current mode.
DecideHistoryFirst(passthrough, plainAuto, cachedPatch, generatedOwner, explicitLeaf, autoPreserve) ==
    IF passthrough THEN "PASSTHROUGH_UNMODIFIED"
    ELSE IF cachedPatch \/ generatedOwner THEN "SERVE_CACHED_PATCH"
    ELSE IF plainAuto \/ (~explicitLeaf /\ autoPreserve) THEN "PASSTHROUGH_UNMODIFIED"
    ELSE "PATCH_LEAF"

\* GetKeyEntryPostPolicy.decide
Decide(passthrough, plainAuto, cachedPatch, generatedOwner, explicitLeaf, autoPreserve) ==
    IF passthrough \/ plainAuto THEN "PASSTHROUGH_UNMODIFIED"
    ELSE IF cachedPatch \/ generatedOwner THEN "SERVE_CACHED_PATCH"
    ELSE IF ~explicitLeaf /\ autoPreserve THEN "PASSTHROUGH_UNMODIFIED"
    ELSE "PATCH_LEAF"

GetKeyEntryPost(t) ==
    LET uid == call[t].uid
        d   == call[t].desc
        res == call[t].res
        cachedKey == ResolveKey(cache, uid, d)
        generated == FindGeneratedKey(cache, uid, d)
        explicitLeaf == IsExplicitLeafHack(uidPackages, uid)
        action == Decide(IsPassthroughDescriptor(cache, uid, d),
                         IsPlainAuto(uidPackages, uid),
                         cachedKey \in Patched(cache),
                         generated # None,
                         explicitLeaf,
                         NeedHack(uid) /\ ~NeedGenerate(uid) /\ ~explicitLeaf)
    IN  /\ At(t, "getKeyEntry", "post")
        /\ uidPackages' = IF res = None THEN uidPackages ELSE Load(uid)
        /\ \/ /\ res = None
              /\ Finish(t, "ERROR")
           \/ /\ res # None /\ action = "PASSTHROUGH_UNMODIFIED"
              /\ Finish(t, "REAL")
           \/ /\ res # None /\ action = "SERVE_CACHED_PATCH"
              /\ IF cachedKey \in Patched(cache) THEN Finish(t, "HYBRID")
                 ELSE Finish(t, "SYNTHETIC")
           \/ /\ res # None /\ action = "PATCH_LEAF" /\ res.cert = None
              /\ Finish(t, "REAL")
           \/ /\ res # None /\ action = "PATCH_LEAF" /\ res.cert # None
              /\ call' = [call EXCEPT ![t] = [@ EXCEPT !.pc = "resign",
                                                       !.store = cache.keysByNspace[res.ns]]]
        /\ UNCHANGED <<cache, pendingPassthrough, configVars, realVars>>

\* The chain is re-signed; it is cached under the owner read before.
GetKeyEntryResign(t) ==
    LET k == call[t].store
    IN  /\ At(t, "getKeyEntry", "resign")
        /\ \/ /\ cache' = IF k = None THEN cache
                          ELSE [cache EXCEPT !.patchedResponses = [@ EXCEPT ![k] = call[t].res]]
              /\ Finish(t, "HYBRID")
           \/ /\ Finish(t, "REAL")                 \* putCertificateChain threw
              /\ UNCHANGED cache
        /\ UNCHANGED <<pendingPassthrough, uidPackages, configVars, realVars>>

-----------------------------------------------------------------------------
(* Configuration events *)

\* updateTargetPackages: the map is swapped at once.
UpdateTargetPackages(uid, m) ==
    /\ modes[uid] # m
    /\ modes' = [modes EXCEPT ![uid] = m]
    /\ call' = [t \in Threads |->
                   IF call[t] # None /\ call[t].uid = uid /\ m # {"AUTO"}
                   THEN [call[t] EXCEPT !.auto = FALSE] ELSE call[t]]
    /\ UNCHANGED <<cache, pendingPassthrough, uidPackages, pmAlive, hasKeyboxes, realVars>>

\* updateKeyBox: with the new keybox, or with none when the file was removed
\* or does not parse.
UpdateKeyBox(parsed) ==
    /\ \/ "keyboxReload" \in Env
       \/ "idleReload" \in Env /\ \A t \in Threads : call[t] # None => call[t].pc = "done"
    /\ hasKeyboxes' = parsed
    /\ cache' = CleanupAll(cache)
    /\ UNCHANGED <<pendingPassthrough, modes, uidPackages, pmAlive, call, realVars>>

\* binderDied
PmDies ==
    /\ "pmDies" \in Env /\ pmAlive
    /\ pmAlive' = FALSE
    /\ uidPackages' = {}
    /\ UNCHANGED <<cache, pendingPassthrough, modes, hasKeyboxes, call, realVars>>

PmReturns ==
    /\ ~pmAlive
    /\ pmAlive' = TRUE
    /\ UNCHANGED <<cache, pendingPassthrough, modes, uidPackages, hasKeyboxes, call, realVars>>

\* The caller has its answer.
Return(t) ==
    /\ call[t] # None /\ call[t].pc = "done"
    /\ call' = [call EXCEPT ![t] = None]
    /\ UNCHANGED <<cache, pendingPassthrough, uidPackages, configVars, realVars>>

-----------------------------------------------------------------------------
Init ==
    /\ cache = EmptyCache
    /\ pendingPassthrough = {}
    /\ modes \in {m \in [Uids -> SUBSET AllModes] : \A uid \in Uids : m[uid] \in ModeSets[uid]}
    /\ uidPackages = Loaded
    /\ pmAlive = TRUE
    /\ hasKeyboxes = TRUE
    /\ call = [t \in Threads |-> None]
    /\ keystore = [k \in Keys |-> None]
    /\ realGrants = [n \in RealIds |-> None]
    /\ free = Ids
    /\ truth = [k \in Keys |-> None]

GrantArgs == [grantee : Uids, accessVector : AccessVectors]

Next ==
    \/ \E t \in Threads, uid \in Uids :
         \/ \E alias \in Aliases :
              \/ GenerateKeyReject(t, uid, alias)
              \/ \E kind \in Kinds : GenerateKeyPre(t, uid, alias, kind)
              \/ ImportKeyPre(t, uid, alias)
         \/ \E d \in CallDescriptors :
              \/ DeleteKeyPre(t, uid, d)
              \/ UpdateSubcomponentPre(t, uid, d)
              \/ GetKeyEntryGrantPre(t, uid, d)
              \/ GetKeyEntryPre(t, uid, d)
              \/ GetKeyEntryNoKeybox(t, uid, d)
              \/ \E to \in GrantArgs : GrantPre(t, uid, d, to)
              \/ \E grantee \in Uids :
                   UngrantPre(t, uid, d, [grantee |-> grantee, accessVector |-> {}])
    \/ \E t \in Threads :
         \/ RealCreate(t) \/ RealDelete(t) \/ RealUpdate(t)
         \/ RealGrant(t) \/ RealUngrant(t) \/ RealGetKeyEntry(t)
         \/ GenerateKeyStore(t) \/ GenerateKeyPost(t) \/ GenerateKeyResign(t)
         \/ ImportKeyPost(t) \/ DeleteKeyPost(t) \/ UpdateSubcomponentPost(t)
         \/ GrantPost(t) \/ GetKeyEntryPost(t) \/ GetKeyEntryResign(t)
         \/ Return(t)
    \/ \E uid \in Uids : \E m \in ModeSets[uid] : UpdateTargetPackages(uid, m)
    \/ \E parsed \in BOOLEAN : UpdateKeyBox(parsed)
    \/ PmDies
    \/ PmReturns

Spec == Init /\ [][Next]_vars

-----------------------------------------------------------------------------
(* Properties *)

\* However many calls, mode changes and keybox reloads follow one another, the
\* ownership maps agree (CertificateAliasCache.kt:115-174): no dangling grant
\* or key-id index, no key that is software and passthrough at once.  Hooks
\* are whole steps here; OwnershipWrites has what their single writes may tear.
OwnershipConsistent == CacheInv(cache)

\* A UID that is plain AUTO throughout a call never receives a re-signed or
\* a software chain from it (the AUTO trust invariant of trust-model.md;
\* Keystore2Interceptor.kt:256-373 and 547-646).
AutoUnmodified ==
    \A t \in Threads :
        call[t] # None /\ call[t].pc = "done" /\ call[t].auto
            => call[t].trust \notin {"HYBRID", "SYNTHETIC"}

\* When no call on an alias is in flight, a cached response for it shows the
\* key and the chain that the last successful generateKey, importKey or
\* updateSubcomponent established, and none is left after deleteKey.
CacheCurrent ==
    \A k \in Keys : ~Busy(k) =>
        /\ cache.keys[k] # None => cache.keys[k] = truth[k]
        /\ cache.patchedResponses[k] # None => cache.patchedResponses[k] = truth[k]

\* Software and passthrough ownership of a key changes only in a call of the
\* UID that owns the key, or when the keybox is replaced: every hook clears
\* and stores under callingUid.
OwnerIsolation ==
    [][ \A k \in Keys :
          \/ (k \in Generated(cache)) = (k \in Generated(cache'))
             /\ (k \in cache.tracked) = (k \in cache'.tracked)
          \/ cache' = EmptyCache
          \/ \E t \in Threads : /\ call'[t] # call[t]
                                /\ call'[t] # None
                                /\ call'[t].uid = UidOf(k) ]_vars
=============================================================================
