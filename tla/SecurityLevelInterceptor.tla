----------------------- MODULE SecurityLevelInterceptor -----------------------
(***************************************************************************)
(* The generateKey and importKey hooks of SecurityLevelInterceptor.kt.     *)
(* The createOperation hook is in SoftwareOperation.                       *)
(***************************************************************************)
EXTENDS KeystoreCalls

\* An oversized challenge, a caller-supplied CREATION_DATETIME, device-id
\* attestation without the permission.
GenerateKeyReject(t, uid, alias) ==
    /\ MayStart(t, "generateKey", uid, ByAlias(alias))
    /\ Answer(t, NewCall("generateKey", uid, ByAlias(alias)), "ERROR")
    /\ UNCHANGED <<cache, pendingPassthrough, uidPackages, configVars, realVars>>

\* computeForceForge is needGenerate; the two leaf routes differ in logging.
SelectTopLevelRoute(P, uid) ==
    IF NeedGenerate(uid) THEN "generate"
    ELSE IF ~NeedHack(uid) THEN "skip"
    ELSE IF IsExplicitLeafHack(P, uid) THEN "leaf-forward"
    ELSE "passthrough-real-tee"

GenerateKeyPre(t, uid, alias, kind) ==
    LET k   == <<uid, alias>>
        new == [NewCall("generateKey", uid, ByAlias(alias)) EXCEPT !.kind = kind]
        route == SelectTopLevelRoute(Load(uid), uid)
    IN  /\ MayStart(t, "generateKey", uid, ByAlias(alias))
        /\ uidPackages' = Load(uid)
        /\ \/ /\ route = "generate" /\ kind = "attested"
              /\ call' = [call EXCEPT ![t] =
                    [new EXCEPT !.pc = "synth", !.skip = NeedHack(uid)]]
              /\ UNCHANGED <<cache, pendingPassthrough>>
           \/ /\ route = "generate" /\ kind # "attested"
              /\ Continue(t, new)
              /\ UNCHANGED <<cache, pendingPassthrough>>
           \/ /\ route = "passthrough-real-tee"
              /\ pendingPassthrough' = pendingPassthrough \cup {k}
              /\ cache' = ClearSyntheticCertificateState(cache, k)
              /\ Continue(t, new)
           \/ /\ route = "leaf-forward"
              /\ cache' = [cache EXCEPT !.skipLeafHacks = @ \ {k}]
              /\ Continue(t, new)
              /\ UNCHANGED pendingPassthrough
           \/ /\ route = "skip"
              /\ Skip(t, new)
              /\ UNCHANGED <<cache, pendingPassthrough>>
        /\ UNCHANGED <<configVars, realVars>>

\* Mutant: the passthrough mark of an earlier hardware key is kept.
StoreKeepingPassthrough(c, k, n, skipLeafHack) ==
    LET cleared == ClearSyntheticCertificateState(c, k)
    IN  [cleared EXCEPT !.keysByNspace = [@ EXCEPT ![n] = k],
                        !.keys = [@ EXCEPT ![k] = [ns |-> n, cert |-> n]],
                        !.skipLeafHacks = IF skipLeafHack THEN @ \cup {k} ELSE @]

StoreGeneratedKey(c, k, n, skipLeafHack) ==
    LET cleared == ClearSyntheticCertificateState(RelinquishPassthroughOwnership(c, k), k)
    IN  [cleared EXCEPT !.keysByNspace = [@ EXCEPT ![n] = k],
                        !.keys = [@ EXCEPT ![k] = [ns |-> n, cert |-> n]],
                        !.skipLeafHacks = IF skipLeafHack THEN @ \cup {k} ELSE @]

\* CertificateGen.generateKeyPair has returned; null (no keybox, unsupported
\* parameters) falls through to Skip.
GenerateKeyStore(t) ==
    /\ At(t, "generateKey", "synth")
    /\ \/ \E n \in free \cap ForgedIds :
            /\ cache' = StoreGeneratedKey(cache, KeyOf(t), n, call[t].skip)
            /\ truth' = [truth EXCEPT ![KeyOf(t)] = [ns |-> n, cert |-> n]]
            /\ free' = free \ {n}
            /\ Finish(t, "SYNTHETIC")
            /\ UNCHANGED <<keystore, realGrants>>
       \/ /\ "synthFails" \in Env
          /\ call' = [call EXCEPT ![t] = [@ EXCEPT !.pc = "real"]]
          /\ UNCHANGED <<cache, realVars>>
    /\ UNCHANGED <<pendingPassthrough, uidPackages, configVars>>

\* The passthrough flag is taken whatever the reply is.
GenerateKeyPost(t) ==
    LET k == KeyOf(t)
        res == call[t].res
        isPassthrough == k \in pendingPassthrough
    IN  /\ At(t, "generateKey", "post")
        /\ pendingPassthrough' = pendingPassthrough \ {k}
        /\ \/ /\ res = None
              /\ Finish(t, "ERROR")
              /\ UNCHANGED cache
           \/ /\ res # None /\ isPassthrough
              /\ cache' = Promote(ClearSyntheticCertificateState(cache, k), k, res.ns)
              /\ Finish(t, "REAL")
           \/ /\ res # None /\ ~isPassthrough /\ res.cert = None
              /\ Finish(t, "REAL")
              /\ UNCHANGED cache
           \/ /\ res # None /\ ~isPassthrough /\ res.cert # None
              /\ cache' = ClearSyntheticCertificateState(
                              RelinquishPassthroughOwnership(cache, k), k)
              /\ call' = [call EXCEPT ![t] = [@ EXCEPT !.pc = "resign", !.store = k]]
        /\ UNCHANGED <<uidPackages, configVars, realVars>>

PatchGenerated(c, k, res) ==
    [c EXCEPT !.patchedResponses = [@ EXCEPT ![k] = res],
              !.keysByNspace = [@ EXCEPT ![res.ns] = k]]

\* The re-signed chain is ready, or storing it in the reply threw.
GenerateKeyResign(t) ==
    /\ At(t, "generateKey", "resign")
    /\ \/ /\ cache' = PatchGenerated(cache, call[t].store, call[t].res)
          /\ Finish(t, "HYBRID")
       \/ /\ Finish(t, "REAL")
          /\ UNCHANGED cache
    /\ UNCHANGED <<pendingPassthrough, uidPackages, configVars, realVars>>

ImportKeyPre(t, uid, alias) ==
    LET new == NewCall("importKey", uid, ByAlias(alias))
    IN  /\ MayStart(t, "importKey", uid, ByAlias(alias))
        /\ uidPackages' = Load(uid)
        /\ IF NeedHack(uid) \/ NeedGenerate(uid) THEN Continue(t, new) ELSE Skip(t, new)
        /\ UNCHANGED <<cache, pendingPassthrough, configVars, realVars>>

\* Mutant: the imported key leaves the cached owner in place.
ImportKeyPostKeepsOwner(t) ==
    /\ At(t, "importKey", "post")
    /\ Finish(t, IF call[t].res = None THEN "ERROR" ELSE "REAL")
    /\ UNCHANGED <<cache, pendingPassthrough, uidPackages, configVars, realVars>>

ImportKeyPost(t) ==
    /\ At(t, "importKey", "post")
    /\ cache' = IF call[t].res = None THEN cache ELSE CleanupKey(cache, KeyOf(t))
    /\ Finish(t, IF call[t].res = None THEN "ERROR" ELSE "REAL")
    /\ UNCHANGED <<pendingPassthrough, uidPackages, configVars, realVars>>
=============================================================================
