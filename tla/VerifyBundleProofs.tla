------------------------- MODULE VerifyBundleProofs -------------------------
(***************************************************************************)
(* What a verdict of verify_bundle() means, for every set of bundles.      *)
(***************************************************************************)
EXTENDS VerifyBundle, TLAPS

Names == {"bundle-readable", "required-files-present", "manifest-integrity",
          "manifest-signature", "json-parseable", "envelope-hash", "inclusion-proof",
          "sth-signature", "tsa-timestamp", "issuer-key-format"}

(* ValidIsSound is not inductive: it needs what each check that has passed *)
(* has established.  Each line adds what the one check before it found.    *)
Readable == bundle["zip"] = "ok"

Present == Readable /\ bundle["files"] = "ok"

Intact ==
  /\ Present
  /\ bundle["manifest"] = "ok"
  /\ bundle["masterKey"] # "notUtf8" /\ bundle["issuerKey"] # "notUtf8"

Vouched == Intact /\ bundle["masterKey"] = "ok" /\ bundle["bundleSignature"] = "ok"

Parsed == Vouched /\ \A p \in {"envelope", "inclusion", "sth"} :
                       bundle[p] \notin {"notUtf8", "notJson"}

Bound ==
  /\ Parsed
  /\ bundle["envelope"] # "notCanonical" /\ bundle["inclusion"] = "ok"
  /\ bundle["leafHash"] \in {"ok", "absent"}

Logged ==
  /\ Bound
  /\ bundle["leafIndex"] \in {"ok", "displaced"} /\ bundle["treeSize"] \in {"ok", "unsigned"}
  /\ bundle["rootHash"] = "ok" /\ bundle["auditPath"] = "ok"
  /\ bundle["envelope"] # "notLogged" /\ bundle["sth"] # "notObject"

Signed == Logged /\ bundle["sth"] = "ok" /\ bundle["sthSignature"] = "ok"

Established ==
  /\ pc = "required-files-present" => Readable
  /\ pc = "manifest-integrity" => Present
  /\ pc = "manifest-signature" => Intact
  /\ pc = "json-parseable" => Vouched
  /\ pc = "envelope-hash" => Parsed
  /\ pc = "inclusion-proof" => Bound
  /\ pc = "sth-signature" => Logged
  /\ pc \in {"tsa-timestamp", "issuer-key-format"} => Signed

Typed ==
  /\ \A p \in Parts : bundle[p] \in Conditions[p]
  /\ checks \in Seq([name : Names, outcome : {"pass", "fail", "skip"}])

Sound ==
  /\ Typed
  /\ Established
  /\ ValidIsSound

LEMMA ConditionsOf ==
  ASSUME Typed
  PROVE  /\ bundle["zip"] \in {"ok", "notZip", "memberCorrupt"}
         /\ bundle["files"] \in {"ok", "missing"}
         /\ bundle["issuerKey"] \in {"ok", "notUtf8", "notP256"}
         /\ bundle["masterKey"] \in {"ok", "notUtf8", "notP256"}
         /\ bundle["manifest"] \in {"ok", "notUtf8", "badLine", "otherPaths", "otherDigest"}
         /\ bundle["bundleSignature"] \in {"ok", "invalid"}
         /\ bundle["envelope"] \in {"ok", "notUtf8", "notJson", "notCanonical", "notObject",
                                    "pairs", "notLogged"}
         /\ bundle["inclusion"] \in {"ok", "notUtf8", "notJson", "notObject"}
         /\ bundle["leafHash"] \in {"ok", "absent", "other", "notHex"}
         /\ bundle["leafIndex"] \in {"ok", "displaced", "outOfRange", "notNumeric",
                                     "mistyped"}
         /\ bundle["treeSize"] \in {"ok", "unsigned", "absent", "null", "notNumeric",
                                    "mistyped"}
         /\ bundle["auditPath"] \in {"ok", "wrong", "mistyped"}
         /\ bundle["sth"] \in {"ok", "notUtf8", "notJson", "notObject", "notCanonical"}
         /\ bundle["rootHash"] \in {"ok", "absent", "mistyped"}
         /\ bundle["sthSignature"] \in {"ok", "absent", "undecodable", "invalid"}
         /\ bundle["sthSize"] \in {"ok", "notNumeric"}
BY DEF Typed, Parts, Conditions

(* A failed row makes the verdict invalid, whatever came before it.        *)
LEMMA FailInvalid ==
  ASSUME Typed, NEW name \in Names, NEW envelope, Fail(name, envelope)
  PROVE  Typed' /\ ~result'.valid /\ pc' = "done" /\ bundle' = bundle
<1> DEFINE row == Row(name, "fail")
<1>1. checks \in Seq([name : Names, outcome : {"pass", "fail", "skip"}])
  BY DEF Typed
<1>2. row \in [name : Names, outcome : {"pass", "fail", "skip"}] /\ row.outcome = "fail"
  BY DEF Row
<1>3. checks' = Append(checks, row)
  BY DEF Fail
<1>4. checks' \in Seq([name : Names, outcome : {"pass", "fail", "skip"}])
  <2> HIDE DEF row
  <2> QED BY <1>1, <1>2, <1>3
<1>5. \E i \in DOMAIN checks' : checks'[i].outcome = "fail"
  <2>1. Len(checks) + 1 \in DOMAIN checks' /\ checks'[Len(checks) + 1] = row
    <3> HIDE DEF row
    <3> QED BY <1>1, <1>3
  <2>2. QED BY <2>1, <1>2
<1>6. ~result'.valid
  BY <1>5 DEF Fail, Finalize
<1>7. bundle' = bundle /\ pc' = "done"
  BY DEF Fail
<1>8. QED BY <1>4, <1>6, <1>7 DEF Typed

(* A passed row leaves the verdict open and goes on to the next check.     *)
LEMMA PassOpen ==
  ASSUME Typed, NEW name \in Names, NEW next, Pass(name, next)
  PROVE  Typed' /\ result' = result /\ pc' = next /\ bundle' = bundle
<1> DEFINE row == Row(name, "pass")
<1>1. checks \in Seq([name : Names, outcome : {"pass", "fail", "skip"}])
  BY DEF Typed
<1>2. row \in [name : Names, outcome : {"pass", "fail", "skip"}]
  BY DEF Row
<1>3. checks' = Append(checks, row)
  BY DEF Pass
<1>4. checks' \in Seq([name : Names, outcome : {"pass", "fail", "skip"}])
  <2> HIDE DEF row
  <2> QED BY <1>1, <1>2, <1>3
<1>5. QED BY <1>4 DEF Pass, Typed

(* Once the verdict is out, and invalid, nothing is left to establish.     *)
LEMMA Rejected ==
  ASSUME Typed', ~result'.valid, pc' = "done"
  PROVE  Sound'
BY DEF Sound, Established, ValidIsSound

LEMMA SoundInit == Init => Sound
<1> SUFFICES ASSUME Init PROVE Sound
  OBVIOUS
<1>1. Typed
  BY BundleAssumption DEF Init, Typed
<1>2. ~result.valid
  BY DEF Init, NoResult
<1>3. QED BY <1>1, <1>2 DEF Init, Sound, Established, ValidIsSound

LEMMA SoundStep == Sound /\ [Next]_vars => Sound'
<1> SUFFICES ASSUME Sound, [Next]_vars PROVE Sound'
  OBVIOUS
<1> USE DEF Names
<1>a. Typed /\ Established /\ ValidIsSound
  BY DEF Sound
<1>b. ASSUME Raise PROVE Sound'
  BY <1>a, <1>b DEF Raise, Sound, Typed, Established, ValidIsSound
<1>c. ASSUME NEW name \in Names, NEW envelope, Fail(name, envelope) PROVE Sound'
  <2> HIDE DEF Names
  <2>1. Typed' /\ ~result'.valid /\ pc' = "done"
    BY <1>a, <1>c, FailInvalid
  <2>2. QED BY <2>1, Rejected
<1>d. ASSUME NEW name \in Names, FailWithEnvelope(name) PROVE Sound'
  BY <1>b, <1>c, <1>d DEF FailWithEnvelope
<1>e. ASSUME NEW name \in Names, NEW next, Pass(name, next), Established' PROVE Sound'
  BY <1>a, <1>e, PassOpen DEF Sound, ValidIsSound
<1>1. CASE ReadZip
  <2>1. CASE Is("zip", {"ok"}) /\ Pass("bundle-readable", "required-files-present")
    <3>1. Established'
      BY <1>a, <2>1, PassOpen DEF Is, Established, Readable
    <3>2. QED BY <1>e, <2>1, <3>1
  <2>2. QED BY <1>1, <1>b, <1>c, <2>1 DEF ReadZip
<1>2. CASE RequireFiles
  <2>1. CASE Is("files", {"ok"}) /\ Pass("required-files-present", "manifest-integrity")
    <3>1. Established'
      BY <1>2, <1>a, <2>1, PassOpen DEF RequireFiles, Is, Established, Readable, Present
    <3>2. QED BY <1>e, <2>1, <3>1
  <2>2. QED BY <1>2, <1>c, <2>1 DEF RequireFiles
<1>3. CASE CheckManifest
  <2>1. CASE /\ ~Is("issuerKey", {"notUtf8"}) /\ ~Is("masterKey", {"notUtf8"})
             /\ ~Is("manifest", {"notUtf8"}) /\ ManifestParses
             /\ ~Is("manifest", {"otherPaths", "otherDigest"})
             /\ Pass("manifest-integrity", "manifest-signature")
    <3>1. Established'
      BY <1>3, <1>a, <2>1, PassOpen, ConditionsOf
      DEF CheckManifest, ManifestParses, Is, Established, Readable, Present, Intact
    <3>2. QED BY <1>e, <2>1, <3>1
  <2>2. QED BY <1>3, <1>b, <1>c, <2>1 DEF CheckManifest
<1>4. CASE CheckManifestSignature
  <2>1. CASE /\ ~EcdsaRejects("masterKey", "bundleSignature")
             /\ Pass("manifest-signature", "json-parseable")
    <3>1. Established'
      BY <1>4, <1>a, <2>1, PassOpen, ConditionsOf
      DEF CheckManifestSignature, EcdsaRejects, Unsupported, Is, Established, Readable, Present, Intact, Vouched
    <3>2. QED BY <1>e, <2>1, <3>1
  <2>2. QED BY <1>4, <1>c, <2>1 DEF CheckManifestSignature
<1>5. CASE ParseJson
  <2>1. CASE /\ ParseJson
             /\ Pass("json-parseable", "envelope-hash")
    <3>1. \A p \in {"envelope", "inclusion", "sth"} : bundle[p] \notin {"notUtf8", "notJson"}
      BY <1>a, <2>1, ConditionsOf DEF ParseJson, Is, Pass, Fail, Raise
    <3>2. Established'
      BY <1>5, <1>a, <2>1, <3>1, PassOpen
      DEF ParseJson, Established, Readable, Present, Intact, Vouched, Parsed
    <3>3. QED BY <1>e, <2>1, <3>2
  <2>2. QED BY <1>5, <1>b, <1>c, <2>1 DEF ParseJson
<1>6. CASE CheckEnvelopeHash
  <2>1. CASE /\ ~Is("envelope", {"notCanonical"}) /\ ~Is("inclusion", {"notObject"})
             /\ ~Is("leafHash", {"notHex"}) /\ ~Is("leafHash", {"other"})
             /\ Pass("envelope-hash", "inclusion-proof")
    <3>1. Parsed
      BY <1>6, <1>a DEF CheckEnvelopeHash, Established
    <3>2. Bound
      BY <1>a, <2>1, <3>1, ConditionsOf DEF Is, Parsed, Bound
    <3>3. Established'
      BY <1>a, <2>1, <3>2, PassOpen
      DEF Established, Readable, Present, Intact, Vouched, Parsed, Bound
    <3>4. QED BY <1>e, <2>1, <3>3
  <2>2. QED BY <1>6, <1>b, <1>d, <2>1 DEF CheckEnvelopeHash
<1>7. CASE CheckInclusion
  <2>1. CASE /\ Is("leafIndex", {"ok", "displaced"}) /\ Is("treeSize", {"ok", "unsigned"})
             /\ Is("rootHash", {"ok"}) /\ Is("auditPath", {"ok"}) /\ ~Is("envelope", {"notLogged"})
             /\ ~Is("sth", {"notObject"})
             /\ Pass("inclusion-proof", "sth-signature")
    <3>1. Logged
      BY <1>7, <1>a, <2>1 DEF CheckInclusion, Established, Is, Logged
    <3>2. Established'
      BY <1>a, <2>1, <3>1, PassOpen
      DEF Established, Readable, Present, Intact, Vouched, Parsed, Bound, Logged
    <3>3. QED BY <1>e, <2>1, <3>2
  <2>2. QED BY <1>7, <1>b, <1>d, <2>1 DEF CheckInclusion, Is
<1>8. CASE CheckSthSignature
  <2>1. CASE /\ ~Is("sth", {"notCanonical"}) /\ ~Is("sthSignature", {"absent", "undecodable"})
             /\ ~EcdsaRejects("masterKey", "sthSignature")
             /\ Pass("sth-signature", "tsa-timestamp")
    <3>1. Logged
      BY <1>8, <1>a DEF CheckSthSignature, Established
    <3>2. Signed
      BY <1>a, <2>1, <3>1, ConditionsOf DEF EcdsaRejects, Is, Parsed, Bound, Logged, Signed
    <3>3. Established'
      BY <1>a, <2>1, <3>2, PassOpen
      DEF Established, Readable, Present, Intact, Vouched, Parsed, Bound, Logged, Signed
    <3>4. QED BY <1>e, <2>1, <3>3
  <2>2. QED BY <1>8, <1>b, <1>d, <2>1 DEF CheckSthSignature
<1>9. CASE SkipTimestamp
  <2> DEFINE row == Row("tsa-timestamp", "skip")
  <2>1. row \in [name : Names, outcome : {"pass", "fail", "skip"}]
    BY DEF Row
  <2>2. checks' \in Seq([name : Names, outcome : {"pass", "fail", "skip"}])
    <3>1. checks \in Seq([name : Names, outcome : {"pass", "fail", "skip"}])
      BY <1>a DEF Typed
    <3>2. checks' = Append(checks, row)
      BY <1>9 DEF SkipTimestamp
    <3> HIDE DEF row
    <3>3. QED BY <2>1, <3>1, <3>2
  <2>3. Typed' /\ ValidIsSound'
    BY <1>9, <1>a, <2>2 DEF SkipTimestamp, Typed, ValidIsSound
  <2>4. Established'
    BY <1>9, <1>a DEF SkipTimestamp, Established, Readable, Present, Intact, Vouched, Parsed,
                      Bound, Logged, Signed
  <2>5. QED BY <2>3, <2>4 DEF Sound
<1>10. CASE CheckIssuerKey
  <2> DEFINE outcome == IF Unsupported("issuerKey") THEN "fail" ELSE "pass"
             row == Row("issuer-key-format", outcome)
  <2>1. CASE /\ ~Is("sthSize", {"notNumeric"}) /\ ~Is("envelope", {"notObject", "pairs"})
             /\ checks' = Append(checks, row)
             /\ result' = Finalize(checks', StripSalt("salted"), TRUE)
             /\ pc' = "done"
             /\ UNCHANGED <<bundle, raised>>
    <3>1. row \in [name : Names, outcome : {"pass", "fail", "skip"}] 
      BY DEF Row
    <3>2. checks \in Seq([name : Names, outcome : {"pass", "fail", "skip"}])
      BY <1>a DEF Typed
    <3> HIDE DEF row
    <3>3. checks' \in Seq([name : Names, outcome : {"pass", "fail", "skip"}])
      BY <2>1, <3>1, <3>2
    <3>4. Typed'
      BY <1>a, <2>1, <3>3 DEF Typed
    <3>5. Signed
      BY <1>10, <1>a DEF CheckIssuerKey, Established
    <3>6. bundle["sthSize"] = "ok" /\ bundle["envelope"] = "ok"
      BY <1>a, <2>1, <3>5, ConditionsOf DEF Is, Parsed, Bound, Logged, Signed
    <3>7. ValidIsSound'
      <4> SUFFICES ASSUME result'.valid, NEW p \in Parts \ {"issuerKey"}
                   PROVE  bundle[p] = "ok" \/ (p \in DOMAIN Unbound /\ bundle[p] = Unbound[p])
        BY <2>1 DEF ValidIsSound
      <4>1. p \in {"zip", "files", "masterKey", "manifest", "bundleSignature", "envelope",
                   "inclusion", "leafHash", "leafIndex", "treeSize", "auditPath", "sth",
                   "rootHash", "sthSignature", "sthSize"}
        BY DEF Parts, Conditions
      <4>2. QED
        BY <3>5, <3>6, <4>1
        DEF Unbound, Readable, Present, Intact, Vouched, Parsed, Bound, Logged, Signed
    <3>8. Established'
      BY <2>1 DEF Established
    <3>9. QED BY <3>4, <3>7, <3>8 DEF Sound
  <2>2. QED BY <1>10, <1>b, <2>1 DEF CheckIssuerKey
<1>11. CASE Done \/ UNCHANGED vars
  BY <1>11, <1>a DEF Done, vars, Sound, Typed, Established, ValidIsSound, Readable, Present,
                     Intact, Vouched, Parsed, Bound, Logged, Signed
<1>12. QED
  BY <1>1, <1>2, <1>3, <1>4, <1>5, <1>6, <1>7, <1>8, <1>9, <1>10, <1>11 DEF Next, Check

(* For every set of bundles: a valid verdict means that no part of the     *)
(* bundle but the issuer key, of which nothing is said, is defective,      *)
(* however many defects the bundles may have at once, except in the leaf   *)
(* hash and the position that the proof states (verify.py:193-245).        *)
THEOREM VerdictSound == Spec => []ValidIsSound
<1>1. Sound => ValidIsSound BY DEF Sound
<1>2. QED BY <1>1, SoundInit, SoundStep, PTL DEF Spec

-----------------------------------------------------------------------------
(* The rows.  The other properties of a result follow from what its rows   *)
(* are: those of the contract, one after another, and the last may fail.   *)

LEMMA RowNames ==
  /\ ContractRows[1] = "bundle-readable" /\ ContractRows[2] = "required-files-present"
  /\ ContractRows[3] = "manifest-integrity" /\ ContractRows[4] = "manifest-signature"
  /\ ContractRows[5] = "json-parseable" /\ ContractRows[6] = "envelope-hash"
  /\ ContractRows[7] = "inclusion-proof" /\ ContractRows[8] = "sth-signature"
  /\ ContractRows[9] = "tsa-timestamp" /\ ContractRows[10] = "issuer-key-format"
BY DEF ContractRows

LEMMA RowNumbers ==
  /\ \A i \in 1..10 : ContractRows[i] \in Names /\ ContractRows[i] # "done"
  /\ {ContractRows[i] : i \in 1..10} = Names
  /\ \A i, j \in 1..10 : ContractRows[i] = ContractRows[j] => i = j
  /\ \A i \in 1..10 : (i = 1 \/ ContractRows[i] # "bundle-readable")
                      /\ (i = 5 \/ ContractRows[i] # "json-parseable")
                      /\ (i = 9 \/ ContractRows[i] # "tsa-timestamp")
                      /\ (i = 10 \/ ContractRows[i] # "issuer-key-format")
<1>1. \A i \in 1..10 : i = 1 \/ i = 2 \/ i = 3 \/ i = 4 \/ i = 5 \/ i = 6 \/ i = 7 \/ i = 8
                      \/ i = 9 \/ i = 10
  OBVIOUS
<1>2. 1 \in 1..10 /\ 2 \in 1..10 /\ 3 \in 1..10 /\ 4 \in 1..10 /\ 5 \in 1..10 /\ 6 \in 1..10
      /\ 7 \in 1..10 /\ 8 \in 1..10 /\ 9 \in 1..10 /\ 10 \in 1..10
  OBVIOUS
<1>3. \A i \in 1..10 : ContractRows[i] \in Names /\ ContractRows[i] # "done"
  BY <1>1, RowNames DEF Names
<1>4. \A name \in Names : \E i \in 1..10 : ContractRows[i] = name
  BY <1>2, RowNames DEF Names
<1>5. {ContractRows[i] : i \in 1..10} = Names
  BY <1>3, <1>4
<1>6. \A i \in 1..10 : (i = 1 \/ ContractRows[i] # "bundle-readable")
                      /\ (i = 5 \/ ContractRows[i] # "json-parseable")
                      /\ (i = 9 \/ ContractRows[i] # "tsa-timestamp")
                      /\ (i = 10 \/ ContractRows[i] # "issuer-key-format")
  BY <1>1, RowNames
<1>7. \A i, j \in 1..10 : ContractRows[i] = ContractRows[j] => i = j
  <2> TAKE i, j \in 1..10
  <2>1. i = 1 \/ i = 2 \/ i = 3 \/ i = 4 \/ i = 5 \/ i = 6 \/ i = 7 \/ i = 8 \/ i = 9 \/ i = 10
    BY <1>1
  <2>2. j = 1 \/ j = 2 \/ j = 3 \/ j = 4 \/ j = 5 \/ j = 6 \/ j = 7 \/ j = 8 \/ j = 9 \/ j = 10
    BY <1>1
  <2>3. QED BY <2>1, <2>2, RowNames
<1>8. QED BY <1>3, <1>5, <1>6, <1>7, Zenon

\* The row a check leaves that finds nothing wrong.
Expected(i) ==
  Row(ContractRows[i], IF ContractRows[i] = "tsa-timestamp" THEN "skip" ELSE "pass")

\* A returned result: every row made, the last the only one that may have failed.
Concluded(envelope, identified) ==
  LET n == Len(checks)
  IN  /\ 1 <= n
      /\ \A i \in 1..n - 1 : checks[i] = Expected(i)
      /\ \/ checks[n] = Row(ContractRows[n], "fail") /\ Found(ContractRows[n])
         \/ n = 10 /\ checks[n] = Expected(n)
      /\ result = Finalize(checks, envelope, identified)
      /\ envelope = "stripped" => 6 <= n

(* The other properties are not inductive either: they need which rows     *)
(* there are at each point, and what a failed one says of the bundle.      *)
Contract ==
  /\ checks \in Seq([name : Names, outcome : {"pass", "fail", "skip"}])
  /\ raised \in BOOLEAN
  /\ Len(checks) \in 0..10
  /\ 5 <= Len(checks) => Authenticated
  /\ pc # "done" =>
       /\ ~raised /\ Len(checks) < 10 /\ pc = ContractRows[Len(checks) + 1]
       /\ \A i \in 1..Len(checks) : checks[i] = Expected(i)
  /\ ~Returned => result = NoResult /\ \A i \in 1..Len(checks) : checks[i] = Expected(i)
  /\ Returned => \E envelope \in {"none", "stripped"}, identified \in BOOLEAN :
                   Concluded(envelope, identified)

LEMMA ContractInit == Init => Contract
<1> SUFFICES ASSUME Init PROVE Contract
  OBVIOUS
<1>1. checks = <<>> /\ pc = "bundle-readable" /\ raised = FALSE /\ result = NoResult
  BY DEF Init
<1>2. <<>> \in Seq([name : Names, outcome : {"pass", "fail", "skip"}]) /\ Len(<<>>) = 0
  OBVIOUS
<1>3. ~Returned /\ pc # "done" /\ pc = ContractRows[Len(checks) + 1]
  BY <1>1, <1>2, RowNames DEF Returned
<1>4. /\ checks \in Seq([name : Names, outcome : {"pass", "fail", "skip"}])
      /\ raised \in BOOLEAN /\ ~raised /\ Len(checks) = 0
  BY <1>1, <1>2
<1>5. (\A i \in 1..Len(checks) : checks[i] = Expected(i)) /\ Len(checks) \in 0..10
      /\ Len(checks) < 10 /\ ~(5 <= Len(checks))
  BY <1>4
<1>6. QED BY <1>1, <1>3, <1>4, <1>5, Zenon DEF Contract

(* What each check looks for.                                              *)
LEMMA FoundIs ==
  /\ Found("bundle-readable") <=> bundle["zip"] \in {"notZip", "memberCorrupt"}
  /\ Found("required-files-present") <=> bundle["files"] = "missing"
  /\ Found("manifest-integrity") <=>
       bundle["manifest"] \in {"notUtf8", "badLine", "otherPaths", "otherDigest"}
  /\ Found("manifest-signature") <=>
       bundle["masterKey"] = "notP256" \/ bundle["bundleSignature"] = "invalid"
  /\ Found("json-parseable") <=>
       \E member \in {"envelope", "inclusion", "sth"} : bundle[member] \in {"notUtf8", "notJson"}
  /\ Found("envelope-hash") <=> bundle["leafHash"] \in {"other", "notHex"}
  /\ Found("inclusion-proof") <=>
       \/ bundle["envelope"] = "notLogged"
       \/ bundle["leafIndex"] \in {"outOfRange", "notNumeric", "mistyped"}
       \/ bundle["treeSize"] \in {"absent", "null", "notNumeric", "mistyped"}
       \/ bundle["auditPath"] \in {"wrong", "mistyped"}
       \/ bundle["rootHash"] \in {"absent", "mistyped"}
  /\ Found("sth-signature") <=>
       \/ bundle["masterKey"] = "notP256" \/ bundle["sth"] = "notCanonical"
       \/ bundle["sthSignature"] \in {"absent", "undecodable", "invalid"}
  /\ ~Found("tsa-timestamp")
  /\ Found("issuer-key-format") <=> bundle["issuerKey"] = "notP256"
BY DEF Found, Is

(* What a check does that leaves a row.                                    *)
LEMMA PassCase ==
  ASSUME Sound, Contract, Check
  PROVE  \/ Raise
         \/ \E k \in 1..8 :
              /\ pc = ContractRows[k] /\ Pass(ContractRows[k], ContractRows[k + 1])
              /\ ~Found(ContractRows[k])
         \/ \E k \in 1..8, envelope \in {"none", "stripped"} :
              /\ pc = ContractRows[k] /\ Fail(ContractRows[k], envelope)
              /\ Found(ContractRows[k]) /\ (envelope = "stripped" => 6 <= k)
         \/ SkipTimestamp \/ CheckIssuerKey
<1> DEFINE Passes(k) ==
             /\ pc = ContractRows[k] /\ Pass(ContractRows[k], ContractRows[k + 1])
             /\ ~Found(ContractRows[k])
           Fails(k, envelope) ==
             /\ pc = ContractRows[k] /\ Fail(ContractRows[k], envelope)
             /\ Found(ContractRows[k]) /\ (envelope = "stripped" => 6 <= k)
           Goal == \/ Raise \/ (\E k \in 1..8 : Passes(k))
                   \/ (\E k \in 1..8, envelope \in {"none", "stripped"} : Fails(k, envelope))
                   \/ SkipTimestamp \/ CheckIssuerKey
<1> SUFFICES Goal
  OBVIOUS
<1>a. Typed /\ Established
  BY DEF Sound
<1>b. ASSUME NEW k \in 1..8, Passes(k) PROVE Goal
  BY <1>b
<1>c. ASSUME NEW k \in 1..8, NEW envelope \in {"none", "stripped"}, Fails(k, envelope) PROVE Goal
  BY <1>c
<1>d. StripSalt("salted") = "stripped"
  BY DEF StripSalt
<1>r. Raise => Goal
  OBVIOUS
<1>s. SkipTimestamp \/ CheckIssuerKey => Goal
  OBVIOUS
<1> HIDE DEF Goal
<1>1. CASE ReadZip
  <2>1. CASE Is("zip", {"ok"}) /\ Pass("bundle-readable", "required-files-present")
    <3>1. ~Found("bundle-readable")
      BY <2>1, FoundIs DEF Is
    <3>2. Passes(1)
      BY <1>1, <2>1, <3>1, RowNames DEF ReadZip
    <3>3. QED BY <3>2, <1>b
  <2>2. CASE Is("zip", {"notZip"}) /\ Fail("bundle-readable", "none")
    <3>1. Found("bundle-readable")
      BY <2>2, FoundIs DEF Is
    <3>2. Fails(1, "none")
      BY <1>1, <2>2, <3>1, RowNames DEF ReadZip
    <3>3. QED BY <3>2, <1>c
  <2>3. QED BY <1>1, <1>r, <2>1, <2>2 DEF ReadZip
<1>2. CASE RequireFiles
  <2>1. CASE Is("files", {"ok"}) /\ Pass("required-files-present", "manifest-integrity")
    <3>1. ~Found("required-files-present")
      BY <2>1, FoundIs DEF Is
    <3>2. Passes(2)
      BY <1>2, <2>1, <3>1, RowNames DEF RequireFiles
    <3>3. QED BY <3>2, <1>b
  <2>2. CASE Is("files", {"missing"}) /\ Fail("required-files-present", "none")
    <3>1. Found("required-files-present")
      BY <2>2, FoundIs DEF Is
    <3>2. Fails(2, "none")
      BY <1>2, <2>2, <3>1, RowNames DEF RequireFiles
    <3>3. QED BY <3>2, <1>c
  <2>3. QED BY <1>2, <1>r, <2>1, <2>2 DEF RequireFiles
<1>3. CASE CheckManifest
  <2>1. CASE /\ ~Is("manifest", {"notUtf8"}) /\ ManifestParses
             /\ ~Is("manifest", {"otherPaths", "otherDigest"})
             /\ Pass("manifest-integrity", "manifest-signature")
    <3>1. ~Found("manifest-integrity")
      BY <2>1, FoundIs DEF Is, ManifestParses
    <3>2. Passes(3)
      BY <1>3, <2>1, <3>1, RowNames DEF CheckManifest
    <3>3. QED BY <3>2, <1>b
  <2>2. CASE /\ ~(ManifestParses /\ ~Is("manifest", {"otherPaths", "otherDigest"}))
             /\ Fail("manifest-integrity", "none")
    <3>1. Found("manifest-integrity")
      BY <2>2, FoundIs DEF ManifestParses, Is
    <3>2. Fails(3, "none")
      BY <1>3, <2>2, <3>1, RowNames DEF CheckManifest
    <3>3. QED BY <3>2, <1>c
  <2>3. QED BY <1>3, <1>r, <2>1, <2>2 DEF CheckManifest
<1>4. CASE CheckManifestSignature
  <2>1. CASE /\ ~EcdsaRejects("masterKey", "bundleSignature")
             /\ Pass("manifest-signature", "json-parseable")
    <3>1. ~Found("manifest-signature")
      BY <2>1, FoundIs DEF Is, EcdsaRejects, Unsupported
    <3>2. Passes(4)
      BY <1>4, <2>1, <3>1, RowNames DEF CheckManifestSignature
    <3>3. QED BY <3>2, <1>b
  <2>2. CASE EcdsaRejects("masterKey", "bundleSignature") /\ Fail("manifest-signature", "none")
    <3>1. Found("manifest-signature")
      BY <2>2, FoundIs DEF EcdsaRejects, Unsupported, Is
    <3>2. Fails(4, "none")
      BY <1>4, <2>2, <3>1, RowNames DEF CheckManifestSignature
    <3>3. QED BY <3>2, <1>c
  <2>3. QED BY <1>4, <2>1, <2>2 DEF CheckManifestSignature
<1>5. CASE ParseJson
  <2>1. CASE /\ \A p \in {"envelope", "inclusion", "sth"} :
                  bundle[p] \notin {"notUtf8", "notJson"}
             /\ Pass("json-parseable", "envelope-hash")
    <3>1. ~Found("json-parseable")
      BY <2>1, FoundIs DEF Is
    <3>2. Passes(5)
      BY <1>5, <2>1, <3>1, RowNames DEF ParseJson
    <3>3. QED BY <3>2, <1>b
  <2>2. CASE /\ Fail("json-parseable", "none")
             /\ \E p \in {"envelope", "inclusion", "sth"} : bundle[p] = "notJson"
    <3>1. Found("json-parseable")
      BY <2>2, FoundIs
    <3>2. Fails(5, "none")
      BY <1>5, <2>2, <3>1, RowNames DEF ParseJson
    <3>3. QED BY <3>2, <1>c
  <2>3. QED BY <1>5, <1>a, <1>r, <2>1, <2>2, ConditionsOf DEF ParseJson, Is
<1>e. ASSUME NEW k \in 6..8, pc = ContractRows[k], FailWithEnvelope(ContractRows[k]),
             Found(ContractRows[k])
      PROVE  Goal
  <2>1. CASE Raise
    BY <1>r, <2>1
  <2>2. CASE Fail(ContractRows[k], StripSalt("salted"))
    <3>1. Fails(k, "stripped") /\ k \in 1..8
      BY <1>d, <1>e, <2>2
    <3>2. QED BY <3>1, <1>c
  <2>3. QED BY <1>e, <2>1, <2>2 DEF FailWithEnvelope
<1>6. CASE CheckEnvelopeHash
  <2>1. CASE /\ ~Is("leafHash", {"notHex"}) /\ ~Is("leafHash", {"other"})
             /\ Pass("envelope-hash", "inclusion-proof")
    <3>1. ~Found("envelope-hash")
      BY <2>1, FoundIs DEF Is
    <3>2. Passes(6)
      BY <1>6, <2>1, <3>1, RowNames DEF CheckEnvelopeHash
    <3>3. QED BY <3>2, <1>b
  <2>2. CASE Is("leafHash", {"other"}) /\ FailWithEnvelope("envelope-hash")
    <3>1. Found("envelope-hash")
      BY <2>2, FoundIs DEF Is
    <3>2. 6 \in 6..8 /\ pc = ContractRows[6] /\ ContractRows[6] = "envelope-hash"
      BY <1>6, RowNames DEF CheckEnvelopeHash
    <3>3. QED BY <1>e, <2>2, <3>1, <3>2
  <2>3. QED BY <1>6, <1>r, <2>1, <2>2 DEF CheckEnvelopeHash
<1>7. CASE CheckInclusion
  <2>1. CASE /\ Is("leafIndex", {"ok", "displaced"}) /\ Is("treeSize", {"ok", "unsigned"})
             /\ Is("rootHash", {"ok"}) /\ Is("auditPath", {"ok"})
             /\ ~Is("envelope", {"notLogged"})
             /\ Pass("inclusion-proof", "sth-signature")
    <3>1. ~Found("inclusion-proof")
      BY <2>1, FoundIs DEF Is
    <3>2. Passes(7)
      BY <1>7, <2>1, <3>1, RowNames DEF CheckInclusion
    <3>3. QED BY <3>2, <1>b
  <2>2. CASE /\ ~(/\ Is("leafIndex", {"ok", "displaced"}) /\ Is("treeSize", {"ok", "unsigned"})
                  /\ Is("rootHash", {"ok"}) /\ Is("auditPath", {"ok"})
                  /\ ~Is("envelope", {"notLogged"}))
             /\ FailWithEnvelope("inclusion-proof")
    <3>1. Found("inclusion-proof")
      BY <1>a, <2>2, ConditionsOf, FoundIs DEF Is
    <3>2. 7 \in 6..8 /\ pc = ContractRows[7] /\ ContractRows[7] = "inclusion-proof"
      BY <1>7, RowNames DEF CheckInclusion
    <3>3. QED BY <1>e, <2>2, <3>1, <3>2
  <2>3. QED BY <1>7, <1>r, <2>1, <2>2 DEF CheckInclusion, Is
<1>8. CASE CheckSthSignature
  <2>1. CASE /\ ~Is("sth", {"notCanonical"}) /\ ~Is("sthSignature", {"absent", "undecodable"})
             /\ ~EcdsaRejects("masterKey", "sthSignature")
             /\ Pass("sth-signature", "tsa-timestamp")
    <3>1. ~Found("sth-signature")
      BY <2>1, FoundIs DEF Is, EcdsaRejects, Unsupported
    <3>2. Passes(8)
      BY <1>8, <2>1, <3>1, RowNames DEF CheckSthSignature
    <3>3. QED BY <3>2, <1>b
  <2>2. CASE EcdsaRejects("masterKey", "sthSignature") /\ FailWithEnvelope("sth-signature")
    <3>1. bundle["masterKey"] = "ok"
      BY <1>8, <1>a DEF CheckSthSignature, Established, Logged, Bound, Parsed, Vouched
    <3>2. Found("sth-signature")
      BY <2>2, <3>1, FoundIs DEF EcdsaRejects, Unsupported, Is
    <3>3. 8 \in 6..8 /\ pc = ContractRows[8] /\ ContractRows[8] = "sth-signature"
      BY <1>8, RowNames DEF CheckSthSignature
    <3>4. QED BY <1>e, <2>2, <3>2, <3>3
  <2>3. QED BY <1>8, <1>r, <2>1, <2>2 DEF CheckSthSignature
<1>9. CASE SkipTimestamp \/ CheckIssuerKey
  BY <1>9, <1>s
<1>10. QED
  BY <1>1, <1>2, <1>3, <1>4, <1>5, <1>6, <1>7, <1>8, <1>9 DEF Check

(* Appending a row.                                                        *)
LEMMA Appending ==
  ASSUME Contract, NEW name \in Names, NEW outcome \in {"pass", "fail", "skip"},
         checks' = Append(checks, Row(name, outcome))
  PROVE  /\ checks' \in Seq([name : Names, outcome : {"pass", "fail", "skip"}])
         /\ Len(checks') = Len(checks) + 1 /\ Len(checks) \in Nat
         /\ checks'[Len(checks) + 1] = Row(name, outcome)
         /\ \A i \in 1..Len(checks) : checks'[i] = checks[i]
<1> DEFINE row == Row(name, outcome)
<1>1. checks \in Seq([name : Names, outcome : {"pass", "fail", "skip"}])
  BY DEF Contract
<1>2. row \in [name : Names, outcome : {"pass", "fail", "skip"}]
  BY DEF Row
<1> HIDE DEF row
<1>3. QED BY <1>1, <1>2 DEF row

LEMMA ContractStep ==
  ASSUME Sound, Contract, [Next]_vars
  PROVE  Contract'
<1>a. /\ checks \in Seq([name : Names, outcome : {"pass", "fail", "skip"}])
      /\ Len(checks) \in 0..10 /\ (5 <= Len(checks) => Authenticated) /\ raised \in BOOLEAN
      /\ pc # "done" =>
           /\ ~raised /\ Len(checks) < 10 /\ pc = ContractRows[Len(checks) + 1]
           /\ \A i \in 1..Len(checks) : checks[i] = Expected(i)
      /\ ~Returned => result = NoResult
  BY DEF Contract
<1>b. ASSUME NEW k \in 1..10, pc = ContractRows[k]
      PROVE  Len(checks) = k - 1 /\ pc # "done" /\ \A i \in 1..k - 1 : checks[i] = Expected(i)
  <2>1. pc # "done"
    BY <1>b, RowNumbers
  <2>2. Len(checks) + 1 \in 1..10 /\ ContractRows[Len(checks) + 1] = ContractRows[k]
    BY <1>a, <1>b, <2>1
  <2>3. Len(checks) + 1 = k
    BY <2>2, RowNumbers
  <2>4. QED BY <1>a, <2>1, <2>3
<1>c. ASSUME NEW k \in 1..10, pc = ContractRows[k], bundle' = bundle
      PROVE  5 <= k => Authenticated'
  <2>1. CASE k = 5
    <3>1. Vouched
      BY <1>c, <2>1, RowNames DEF Sound, Established
    <3>2. QED BY <1>c, <3>1 DEF Authenticated, Vouched, Intact, Present, Readable
  <2>2. CASE 6 <= k
    BY <1>a, <1>b, <1>c, <2>2 DEF Authenticated
  <2>3. QED BY <2>1, <2>2
<1>d. ASSUME NEW k \in 1..10, pc = ContractRows[k], NEW outcome \in {"pass", "fail", "skip"},
             checks' = Append(checks, Row(ContractRows[k], outcome)), bundle' = bundle
      PROVE  /\ checks' \in Seq([name : Names, outcome : {"pass", "fail", "skip"}])
             /\ Len(checks') = k /\ checks'[k] = Row(ContractRows[k], outcome)
             /\ \A i \in 1..k - 1 : checks'[i] = Expected(i)
             /\ 5 <= Len(checks') => Authenticated'
  <2>1. ContractRows[k] \in Names
    BY RowNumbers
  <2>2. Len(checks) = k - 1 /\ \A i \in 1..k - 1 : checks[i] = Expected(i)
    BY <1>b, <1>d
  <2>3. /\ checks' \in Seq([name : Names, outcome : {"pass", "fail", "skip"}])
        /\ Len(checks') = Len(checks) + 1
        /\ checks'[Len(checks) + 1] = Row(ContractRows[k], outcome)
        /\ \A i \in 1..Len(checks) : checks'[i] = checks[i]
    BY <1>d, <2>1, Appending
  <2>4. 5 <= k => Authenticated'
    BY <1>c, <1>d
  <2>5. QED BY <2>2, <2>3, <2>4
<1>1. CASE Check
  <2>1. CASE Raise
    <3>1. pc # "done"
      BY <1>1, RowNames, RowNumbers
      DEF Check, ReadZip, RequireFiles, CheckManifest, CheckManifestSignature, ParseJson,
          CheckEnvelopeHash, CheckInclusion, CheckSthSignature, SkipTimestamp, CheckIssuerKey
    <3>2. UNCHANGED <<checks, result, bundle>> /\ pc' = "done" /\ raised' = TRUE /\ result = NoResult
      BY <1>a, <2>1, <3>1 DEF Raise, Returned
    <3>3. ~Returned'
      BY <3>2 DEF Returned
    <3>4. Authenticated' <=> Authenticated
      BY <3>2 DEF Authenticated
    <3>5. NoResult' = NoResult
      BY DEF NoResult
    <3>6. \A i \in 1..Len(checks') : checks'[i] = Expected(i)
      BY <1>a, <3>1, <3>2
    <3>7. QED BY <1>a, <3>2, <3>3, <3>4, <3>5, <3>6 DEF Contract, Expected
  <2>2. ASSUME NEW k \in 1..8, pc = ContractRows[k], Pass(ContractRows[k], ContractRows[k + 1])
        PROVE  Contract'
    <3>1. /\ checks' = Append(checks, Row(ContractRows[k], "pass"))
          /\ pc' = ContractRows[k + 1] /\ UNCHANGED <<bundle, result, raised>>
      BY <2>2 DEF Pass
    <3>2. /\ checks' \in Seq([name : Names, outcome : {"pass", "fail", "skip"}])
          /\ Len(checks') = k /\ checks'[k] = Row(ContractRows[k], "pass")
          /\ \A i \in 1..k - 1 : checks'[i] = Expected(i)
          /\ 5 <= Len(checks') => Authenticated'
      BY <1>d, <2>2, <3>1
    <3>3. checks'[k] = Expected(k)
      BY <3>2, RowNumbers DEF Expected
    <3>4. \A i \in 1..Len(checks') : checks'[i] = Expected(i)
      BY <3>2, <3>3
    <3>5. pc # "done" /\ pc' # "done"
      BY <2>2, <3>1, RowNumbers
    <3>6. ~raised' /\ result' = NoResult'
      BY <1>a, <3>1, <3>5 DEF Returned, NoResult
    <3>7. pc' = ContractRows[Len(checks') + 1] /\ Len(checks') < 10 /\ Len(checks') \in 0..10
      BY <3>1, <3>2
    <3>8. QED BY <1>a, <3>1, <3>2, <3>4, <3>5, <3>6, <3>7 DEF Contract, Returned, Expected
  <2>a. ASSUME NEW k \in 1..10, pc = ContractRows[k],
               NEW outcome \in {"pass", "fail"},
               checks' = Append(checks, Row(ContractRows[k], outcome)),
               NEW envelope \in {"none", "stripped"}, NEW identified \in BOOLEAN,
               result' = Finalize(checks', envelope, identified),
               pc' = "done", UNCHANGED <<bundle, raised>>,
               envelope = "stripped" => 6 <= k,
               outcome = "fail" => Found(ContractRows[k]), outcome = "pass" => k = 10
        PROVE  Contract'
    <3>1. /\ checks' \in Seq([name : Names, outcome : {"pass", "fail", "skip"}])
          /\ Len(checks') = k /\ checks'[k] = Row(ContractRows[k], outcome)
          /\ \A i \in 1..k - 1 : checks'[i] = Expected(i)
          /\ 5 <= Len(checks') => Authenticated'
      BY <1>d, <2>a
    <3>2. outcome = "pass" => checks'[k] = Expected(k)
      BY <2>a, <3>1, RowNumbers DEF Expected
    <3>3. outcome = "fail" => Found(ContractRows[k])'
      BY <2>a DEF Found, Is
    <3>4. Concluded(envelope, identified)'
      <4>1. \A i \in 1..k - 1 : checks'[i] = Expected(i)
        BY <3>1
      <4>2. \/ checks'[k] = Row(ContractRows[k], "fail") /\ Found(ContractRows[k])'
            \/ k = 10 /\ checks'[k] = Expected(k)
        BY <2>a, <3>1, <3>2, <3>3
      <4>3. (result = Finalize(checks, envelope, identified))'
        BY <2>a DEF Finalize
      <4>4. 1 <= k /\ (envelope = "stripped" => 6 <= k)
        BY <2>a
      <4>5. Len(checks') = k
        BY <3>1
      <4>6. QED BY <4>1, <4>2, <4>3, <4>4, <4>5 DEF Concluded, Expected, Row
    <3>5. pc # "done" /\ ~raised
      BY <1>a, <2>a, RowNumbers
    <3>6. Returned'
      BY <2>a, <3>5 DEF Returned
    <3>7. QED BY <1>a, <2>a, <3>1, <3>4, <3>6 DEF Contract
  <2>3. ASSUME NEW k \in 1..8, NEW envelope \in {"none", "stripped"},
               pc = ContractRows[k], Fail(ContractRows[k], envelope),
               Found(ContractRows[k]), envelope = "stripped" => 6 <= k
        PROVE  Contract'
    <3>1. /\ checks' = Append(checks, Row(ContractRows[k], "fail"))
          /\ result' = Finalize(checks', envelope, FALSE)
          /\ pc' = "done" /\ UNCHANGED <<bundle, raised>>
      BY <2>3 DEF Fail
    <3>2. k \in 1..10 /\ "fail" \in {"pass", "fail"} /\ FALSE \in BOOLEAN /\ "fail" # "pass"
      OBVIOUS
    <3>3. QED BY <2>a, <2>3, <3>1, <3>2, Zenon
  <2>4. CASE SkipTimestamp
    <3>1. /\ checks' = Append(checks, Row(ContractRows[9], "skip"))
          /\ pc = ContractRows[9] /\ pc' = ContractRows[10] /\ UNCHANGED <<bundle, result, raised>>
      BY <2>4, RowNames DEF SkipTimestamp
    <3>2. /\ checks' \in Seq([name : Names, outcome : {"pass", "fail", "skip"}])
          /\ Len(checks') = 9 /\ checks'[9] = Row(ContractRows[9], "skip")
          /\ \A i \in 1..8 : checks'[i] = Expected(i)
          /\ Authenticated'
      BY <1>d, <3>1
    <3>3. checks'[9] = Expected(9)
      BY <3>2, RowNames DEF Expected
    <3>4. \A i \in 1..9 : checks'[i] = Expected(i)
      BY <3>2, <3>3
    <3>5. pc # "done" /\ pc' # "done"
      BY <3>1, RowNumbers
    <3>6. ~raised' /\ result' = NoResult'
      BY <1>a, <3>1, <3>5 DEF Returned, NoResult
    <3>7. QED BY <1>a, <3>1, <3>2, <3>4, <3>5, <3>6 DEF Contract, Returned, Expected
  <2>5. CASE CheckIssuerKey
    <3>1. CASE Raise
      BY <2>1, <3>1
    <3>2. CASE ~Raise
      <4> DEFINE outcome == IF Unsupported("issuerKey") THEN "fail" ELSE "pass"
      <4>1. /\ pc = ContractRows[10]
            /\ checks' = Append(checks, Row(ContractRows[10], outcome))
            /\ result' = Finalize(checks', "stripped", TRUE)
            /\ pc' = "done" /\ UNCHANGED <<bundle, raised>>
        BY <2>5, <3>2, RowNames DEF CheckIssuerKey, StripSalt
      <4>2. outcome = "fail" => Found(ContractRows[10])
        BY RowNames, FoundIs DEF Unsupported, Is
      <4>3. outcome \in {"pass", "fail"}
        OBVIOUS
      <4>4. 10 \in 1..10 /\ 6 <= 10 /\ TRUE \in BOOLEAN /\ "stripped" \in {"none", "stripped"}
        OBVIOUS
      <4> HIDE DEF outcome
      <4>5. QED BY <2>a, <4>1, <4>2, <4>3, <4>4, Zenon
    <3>3. QED BY <3>1, <3>2
  <2>6. QED BY <1>1, <2>1, <2>2, <2>3, <2>4, <2>5, PassCase
<1>2. CASE Done \/ UNCHANGED vars
  <2>1. UNCHANGED <<bundle, pc, checks, result, raised>>
    BY <1>2 DEF Done, vars
  <2>2. \A envelope, identified : Concluded(envelope, identified)' <=> Concluded(envelope, identified)
    BY <2>1 DEF Concluded, Found, Is, Expected, Finalize
  <2>3. QED BY <2>1, <2>2 DEF Contract, Returned, Authenticated, Expected, NoResult
<1>3. QED BY <1>1, <1>2 DEF Next

(* A passed row leaves nothing that its check looks for.  Of failed rows   *)
(* Contract says as much; the bundle does not change.                      *)
PassesTrue == \A i \in DOMAIN checks : checks[i].outcome = "pass" => ~Found(checks[i].name)

LEMMA PassesTrueInit == Init => PassesTrue
BY DEF Init, PassesTrue

LEMMA PassesTrueStep ==
  ASSUME Sound, Contract, PassesTrue, [Next]_vars
  PROVE  PassesTrue'
<1>1. ASSUME NEW name \in Names, NEW outcome \in {"pass", "fail", "skip"},
             checks' = Append(checks, Row(name, outcome)), bundle' = bundle,
             outcome = "pass" => ~Found(name)
      PROVE  PassesTrue'
  <2>1. /\ checks' \in Seq([name : Names, outcome : {"pass", "fail", "skip"}])
        /\ Len(checks') = Len(checks) + 1 /\ Len(checks) \in Nat
        /\ checks'[Len(checks) + 1] = Row(name, outcome)
        /\ \A j \in 1..Len(checks) : checks'[j] = checks[j]
    BY <1>1, Appending
  <2>2. \A i \in DOMAIN checks' : checks'[i].outcome = "pass" => ~Found(checks'[i].name)
    <3> TAKE i \in DOMAIN checks'
    <3>1. CASE i = Len(checks) + 1
      BY <1>1, <2>1, <3>1 DEF Row
    <3>2. CASE i \in 1..Len(checks)
      BY <2>1, <3>2 DEF PassesTrue, Contract
    <3>3. QED BY <2>1, <3>1, <3>2
  <2>3. QED BY <1>1, <2>2 DEF PassesTrue, Found, Is
<1>2. CASE UNCHANGED <<bundle, checks>>
  BY <1>2 DEF PassesTrue, Found, Is
<1>3. CASE Check
  <2>1. CASE Raise
    BY <1>2, <2>1 DEF Raise
  <2>2. ASSUME NEW k \in 1..8, Pass(ContractRows[k], ContractRows[k + 1]), ~Found(ContractRows[k])
        PROVE  PassesTrue'
    BY <1>1, <2>2, RowNumbers DEF Pass
  <2>3. ASSUME NEW k \in 1..8, NEW envelope, Fail(ContractRows[k], envelope)
        PROVE  PassesTrue'
    BY <1>1, <2>3, RowNumbers DEF Fail
  <2>4. CASE SkipTimestamp
    BY <1>1, <2>4 DEF SkipTimestamp, Names
  <2>5. CASE CheckIssuerKey
    <3>1. CASE Raise
      BY <2>1, <3>1
    <3>2. CASE ~Raise
      <4> DEFINE outcome == IF Unsupported("issuerKey") THEN "fail" ELSE "pass"
      <4>1. checks' = Append(checks, Row("issuer-key-format", outcome)) /\ bundle' = bundle
        BY <2>5, <3>2 DEF CheckIssuerKey
      <4>2. outcome = "pass" => ~Found("issuer-key-format")
        BY FoundIs DEF Unsupported, Is
      <4>3. outcome \in {"pass", "fail", "skip"} /\ "issuer-key-format" \in Names
        BY DEF Names
      <4> HIDE DEF outcome
      <4>4. QED BY <1>1, <4>1, <4>2, <4>3
    <3>3. QED BY <3>1, <3>2
  <2>6. QED BY <1>3, <2>1, <2>2, <2>3, <2>4, <2>5, PassCase
<1>4. QED BY <1>2, <1>3 DEF Next, Done, vars

LEMMA ContractAlways == Spec => [](Sound /\ Contract /\ PassesTrue)
<1>1. Init => Sound /\ Contract /\ PassesTrue
  BY SoundInit, ContractInit, PassesTrueInit
<1>2. Sound /\ Contract /\ PassesTrue /\ [Next]_vars => (Sound /\ Contract /\ PassesTrue)'
  BY SoundStep, ContractStep, PassesTrueStep
<1>3. QED BY <1>1, <1>2, PTL DEF Spec

(* All rows passed, and the timestamp skipped, is a valid verdict.         *)
LEMMA AllExpectedValid ==
  ASSUME Len(checks) = 10, checks \in Seq([name : Names, outcome : {"pass", "fail", "skip"}]),
         \A i \in 1..10 : checks[i] = Expected(i),
         NEW envelope, NEW identified
  PROVE  Finalize(checks, envelope, identified).valid
<1>1. DOMAIN checks = 1..10
  OBVIOUS
<1>2. \A i \in 1..10 : /\ checks[i].outcome = IF i = 9 THEN "skip" ELSE "pass"
                      /\ checks[i].name = ContractRows[i]
  BY RowNames, RowNumbers DEF Expected, Row
<1>3. {checks[i].name : i \in {j \in DOMAIN checks : checks[j].outcome = "skip"}} = {"tsa-timestamp"}
  <2>1. {j \in DOMAIN checks : checks[j].outcome = "skip"} = {9}
    BY <1>1, <1>2
  <2>2. checks[9].name = "tsa-timestamp"
    BY <1>2, RowNames
  <2>3. QED BY <2>1, <2>2
<1>4. \A i \in DOMAIN checks : checks[i].outcome # "fail"
  BY <1>1, <1>2
<1>5. QED BY <1>3, <1>4 DEF Finalize, DocumentedSkips

(* What the rows of a result are.                                          *)
LEMMA Conclusion ==
  ASSUME Contract, Returned
  PROVE  LET n == Len(checks)
         IN  /\ n \in 1..10
             /\ \A i \in 1..n - 1 : checks[i] = Expected(i)
             /\ result.checks = checks
             /\ result.envelope \in {"none", "stripped"}
             /\ result.envelope = "stripped" => 6 <= n
             /\ \/ checks[n] = Row(ContractRows[n], "fail") /\ Found(ContractRows[n])
                \/ n = 10 /\ checks[n] = Expected(n) /\ result.valid
<1>1. PICK envelope \in {"none", "stripped"}, identified \in BOOLEAN : Concluded(envelope, identified)
  BY DEF Contract
<1>2. /\ Len(checks) \in 1..10
      /\ checks \in Seq([name : Names, outcome : {"pass", "fail", "skip"}])
  BY <1>1 DEF Contract, Concluded
<1>3. result.checks = checks /\ result.envelope = envelope
  BY <1>1 DEF Concluded, Finalize
<1>4. ASSUME Len(checks) = 10, checks[Len(checks)] = Expected(Len(checks))
      PROVE  result.valid
  <2>1. \A i \in 1..10 : checks[i] = Expected(i)
    BY <1>1, <1>4 DEF Concluded
  <2>2. QED BY <1>1, <1>2, <1>4, <2>1, AllExpectedValid DEF Concluded
<1>5. QED BY <1>1, <1>2, <1>3, <1>4 DEF Concluded

(***************************************************************************)
(* Types, and that verify_bundle ends either with an exception or with a   *)
(* result that holds every row made (verify.py:285-317).                   *)
(***************************************************************************)
THEOREM VerifierTyped == Spec => []TypeOK
<1>1. Sound /\ Contract => TypeOK
  <2> SUFFICES ASSUME Sound, Contract PROVE TypeOK
    OBVIOUS
  <2>1. \A p \in Parts : bundle[p] \in Conditions[p]
    BY DEF Sound, Typed
  <2>2. {ContractRows[i] : i \in 1..10} = Names
    BY RowNumbers
  <2>3. pc \in Names \cup {"done"}
    <3>1. CASE pc # "done"
      <4>1. Len(checks) + 1 \in 1..10 /\ pc = ContractRows[Len(checks) + 1]
        BY <3>1 DEF Contract
      <4>2. QED BY <4>1, RowNumbers
    <3>2. QED BY <3>1
  <2>4. checks \in Seq([name : Names, outcome : {"pass", "fail", "skip"}]) /\ raised \in BOOLEAN
    BY DEF Contract
  <2>5. CASE Returned
    <3>1. /\ Len(checks) \in 1..10 /\ result.checks = checks
          /\ result.envelope \in {"none", "salted", "stripped"}
      BY <2>5, Conclusion
    <3>2. checks # <<>>
      <4>1. Len(<<>>) = 0
        OBVIOUS
      <4>2. checks = <<>> => Len(checks) = 0
        BY <4>1, Zenon
      <4>3. 0 \notin 1..10
        OBVIOUS
      <4>4. QED BY <3>1, <4>2, <4>3, Zenon
    <3>3. /\ pc \in {ContractRows[i] : i \in 1..10} \cup {"done"}
          /\ checks \in Seq([name : {ContractRows[i] : i \in 1..10},
                              outcome : {"pass", "fail", "skip"}])
      BY <2>2, <2>3, <2>4, Zenon
    <3>4. QED BY <2>1, <2>4, <2>5, <3>1, <3>2, <3>3, Zenon DEF TypeOK
  <2>6. CASE ~Returned
    <3>1. result = NoResult
      BY <2>6 DEF Contract
    <3>2. result.envelope = "none"
      BY <3>1 DEF NoResult
    <3>3. QED BY <2>1, <2>2, <2>3, <2>4, <2>6, <3>1, <3>2 DEF TypeOK
  <2>7. QED BY <2>5, <2>6
<1>2. QED BY <1>1, ContractAlways, PTL

(***************************************************************************)
(* Every row is true of the bundle: a failed one tells of a defect that is *)
(* there, a passed one that those it looks for are not; and no result is   *)
(* invalid without a failed row (verify.py:103-292, 305-308).              *)
(***************************************************************************)
THEOREM RowsTruthful == Spec => []RowsAreTruthful
<1>1. Contract /\ PassesTrue => RowsAreTruthful
  <2> SUFFICES ASSUME Contract, PassesTrue PROVE RowsAreTruthful
    OBVIOUS
  <2>1. \A i : Expected(i).outcome # "fail"
    BY DEF Expected, Row
  <2>2. DOMAIN checks = 1..Len(checks) /\ Len(checks) \in 0..10
    BY DEF Contract
  <2>3. CASE ~Returned
    <3>1. \A i \in DOMAIN checks : checks[i].outcome # "fail"
      BY <2>1, <2>2, <2>3 DEF Contract
    <3>2. QED BY <2>3, <3>1 DEF RowsAreTruthful, PassesTrue
  <2>4. CASE Returned
    <3> DEFINE n == Len(checks)
    <3>1. n \in 1..10 /\ \A i \in 1..n - 1 : checks[i] = Expected(i)
      BY <2>4, Conclusion
    <3>2. \/ checks[n] = Row(ContractRows[n], "fail") /\ Found(ContractRows[n])
          \/ checks[n] = Expected(n) /\ result.valid
      BY <2>4, Conclusion
    <3>3. n \in DOMAIN checks /\ \A i \in DOMAIN checks : i = n \/ i \in 1..n - 1
      BY <2>2, <3>1
    <3>4. Row(ContractRows[n], "fail").outcome = "fail" /\ Row(ContractRows[n], "fail").name = ContractRows[n]
      BY DEF Row
    <3> HIDE DEF n
    <3>5. \A i \in DOMAIN checks : checks[i].outcome = "fail" => Found(checks[i].name)
      BY <2>1, <3>1, <3>2, <3>3, <3>4
    <3>6. ~result.valid => \E i \in DOMAIN checks : checks[i].outcome = "fail"
      BY <3>2, <3>3, <3>4
    <3>7. QED BY <3>5, <3>6 DEF RowsAreTruthful, PassesTrue
  <2>5. QED BY <2>3, <2>4
<1>2. QED BY <1>1, ContractAlways, PTL

(***************************************************************************)
(* A bundle with no defect is accepted, whether or not its proof states a  *)
(* leaf hash, with every row of the contract (verify.py:196, 247-261,      *)
(* 303-317).                                                               *)
(***************************************************************************)
THEOREM GenuineAccepted == Spec => []GenuineIsValid
<1>1. Contract => GenuineIsValid
  <2> SUFFICES ASSUME Contract, Returned,
                      \A p \in Parts : bundle[p] = "ok" \/ (p = "leafHash" /\ bundle[p] = "absent")
               PROVE  result.valid /\ result.checks = [i \in 1..10 |-> Expected(i)]
    BY DEF GenuineIsValid, Expected
  <2>1. \A name \in Names : ~Found(name)
    <3>1. Parts = {"zip", "files", "issuerKey", "masterKey", "manifest", "bundleSignature",
                   "envelope", "inclusion", "leafHash", "leafIndex", "treeSize", "auditPath",
                   "sth", "rootHash", "sthSignature", "sthSize"}
      BY DEF Parts, Conditions
    <3>2. /\ \A p \in Parts : p = "leafHash" \/ bundle[p] = "ok"
          /\ bundle["leafHash"] \in {"ok", "absent"}
      BY <3>1
    <3>3. QED BY <3>1, <3>2, FoundIs DEF Names
  <2>2. \A i \in 1..10 : ~Found(ContractRows[i])
    BY <2>1, RowNumbers
  <2>3. /\ Len(checks) = 10 /\ checks[10] = Expected(10) /\ result.valid /\ result.checks = checks
        /\ \A i \in 1..9 : checks[i] = Expected(i)
    <3>1. Len(checks) \in 1..10
      BY Conclusion
    <3>2. ~Found(ContractRows[Len(checks)])
      BY <2>2, <3>1
    <3>3. Len(checks) = 10
      BY <3>2, Conclusion
    <3>4. QED BY <3>2, <3>3, Conclusion
  <2>4. \A i \in 1..10 : checks[i] = Expected(i)
    BY <2>3
  <2>5. checks = [i \in 1..10 |-> Expected(i)]
    <3>1. checks \in Seq([name : Names, outcome : {"pass", "fail", "skip"}])
      BY DEF Contract
    <3>2. QED BY <2>3, <2>4, <3>1
  <2>6. QED BY <2>3, <2>5
<1>2. QED BY <1>1, ContractAlways, PTL

(***************************************************************************)
(* The JSON members are parsed, and anything of the envelope handed back,  *)
(* only when every byte of them was vouched for (verify.py:128, 179).      *)
(***************************************************************************)
THEOREM AuthenticatedFirst == Spec => []ParsedOnlyAuthenticated
<1>1. Contract => ParsedOnlyAuthenticated
  <2> SUFFICES ASSUME Contract,
                      (\E i \in DOMAIN checks : checks[i].name = "json-parseable") \/ result.envelope # "none"
               PROVE  5 <= Len(checks)
    BY DEF Contract, ParsedOnlyAuthenticated
  <2>1. CASE \E i \in DOMAIN checks : checks[i].name = "json-parseable"
    <3>1. PICK i \in DOMAIN checks : checks[i].name = "json-parseable"
      BY <2>1
    <3>2. i \in 1..Len(checks) /\ i \in 1..10 /\ Len(checks) \in 0..10
      BY DEF Contract
    <3>3. checks[i].name = ContractRows[i]
      <4>1. Expected(i).name = ContractRows[i] /\ Row(ContractRows[i], "fail").name = ContractRows[i]
        BY DEF Expected, Row
      <4>2. CASE Returned
        BY <3>2, <4>1, <4>2, Conclusion
      <4>3. CASE ~Returned
        BY <3>2, <4>1, <4>3 DEF Contract
      <4>4. QED BY <4>2, <4>3
    <3>4. i = 5
      BY <3>1, <3>2, <3>3, RowNumbers
    <3>5. QED BY <3>2, <3>4
  <2>2. CASE result.envelope # "none"
    <3>1. Returned
      BY <2>2 DEF Contract, NoResult
    <3>2. QED BY <2>2, <3>1, Conclusion
  <2>3. QED BY <2>1, <2>2
<1>2. QED BY <1>1, ContractAlways, PTL

(***************************************************************************)
(* No result carries the salt, and it hands the envelope back only if it   *)
(* parsed (verify.py:86-89, 208, 225, 242, 274, 287).                      *)
(***************************************************************************)
THEOREM SaltStripped == Spec => []SaltNeverSurfaces
<1>1. Contract => SaltNeverSurfaces
  <2> SUFFICES ASSUME Contract PROVE SaltNeverSurfaces
    OBVIOUS
  <2>1. CASE ~Returned
    BY <2>1 DEF Contract, NoResult, SaltNeverSurfaces
  <2>2. CASE Returned
    <3>1. /\ result.envelope \in {"none", "stripped"} /\ Len(checks) \in 1..10
          /\ result.envelope = "stripped" => 6 <= Len(checks)
          /\ \A i \in 1..Len(checks) - 1 : checks[i] = Expected(i)
      BY <2>2, Conclusion
    <3>2. ASSUME result.envelope # "none"
          PROVE  Passed("json-parseable")
      <4>1. 5 \in 1..Len(checks) - 1 /\ 5 \in 1..Len(checks)
        BY <3>1, <3>2
      <4>2. checks[5] = Row("json-parseable", "pass")
        BY <3>1, <4>1, RowNames DEF Expected
      <4>3. 5 \in DOMAIN checks
        BY <4>1 DEF Contract
      <4>4. QED BY <4>2, <4>3 DEF Passed
    <3>3. QED BY <3>1, <3>2 DEF SaltNeverSurfaces
  <2>3. QED BY <2>1, <2>2
<1>2. QED BY <1>1, ContractAlways, PTL
=============================================================================
