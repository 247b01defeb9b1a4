---------------------------- MODULE VerifyBundle ----------------------------
(***************************************************************************)
(* verify_bundle() of verify.py: the checks it makes on a .dpiv-bundle, in *)
(* the order it makes them, what it reads before and after each, and the   *)
(* result it finalizes.                                                    *)
(*                                                                         *)
(* A bundle is what the checks can tell apart: the condition of each of    *)
(* its parts.  "ok" is what the issuing service writes; every other        *)
(* condition is a defect.  The signatures are those of the key the bundle  *)
(* carries as chain-master.pem; nothing in verify.py says whose key it is. *)
(***************************************************************************)
EXTENDS Naturals, Sequences

Conditions ==
  [zip             |-> {"ok", "notZip", "memberCorrupt"},
   files           |-> {"ok", "missing"},
   issuerKey       |-> {"ok", "notUtf8", "notP256"},
   masterKey       |-> {"ok", "notUtf8", "notP256"},
   manifest        |-> {"ok", "notUtf8", "badLine", "otherPaths", "otherDigest"},
   bundleSignature |-> {"ok", "invalid"},
   envelope        |-> {"ok", "notUtf8", "notJson", "notCanonical", "notObject", "pairs",
                       "notLogged"},
   inclusion       |-> {"ok", "notUtf8", "notJson", "notObject"},
   leafHash        |-> {"ok", "absent", "other", "notHex"},
   leafIndex       |-> {"ok", "displaced", "outOfRange", "notNumeric", "mistyped"},
   treeSize        |-> {"ok", "unsigned", "absent", "null", "notNumeric", "mistyped"},
   auditPath       |-> {"ok", "wrong", "mistyped"},
   sth             |-> {"ok", "notUtf8", "notJson", "notObject", "notCanonical"},
   rootHash        |-> {"ok", "absent", "mistyped"},
   sthSignature    |-> {"ok", "absent", "undecodable", "invalid"},
   sthSize         |-> {"ok", "notNumeric"}]

\* "displaced" and "unsigned": an index that is not the leaf's, a size that is not the
\* signed one, by which the path still leads to the signed root (MCMerkle shows that
\* there are some).
\* "notObject" and "pairs": JSON that is no object, of which dict() makes none, or does
\* ([], "", a list of pairs).
\* "absent" and "null": a size that is not there, or is the empty text; one that is
\* null or another false value that int() refuses ([], {}).

Parts == DOMAIN Conditions

CONSTANT Bundles  \* bound: the bundles considered

ASSUME BundleAssumption ==
  \A b \in Bundles : DOMAIN b = Parts /\ \A p \in Parts : b[p] \in Conditions[p]

VARIABLES
  bundle,  \* the condition of each part of the bundle
  pc,      \* the check to be made next
  checks,  \* the VerifyCheck rows so far
  result,  \* the VerifyResult, or NoResult
  raised   \* whether an exception left verify_bundle

vars == <<bundle, pc, checks, result, raised>>

NoResult == [valid |-> FALSE, checks |-> <<>>, envelope |-> "none", identified |-> FALSE]

DocumentedSkips == {"tsa-timestamp"}

Row(name, outcome) == [name |-> name, outcome |-> outcome]

\* The defect, if any, that the part has.
Is(part, defects) == bundle[part] \in defects

-----------------------------------------------------------------------------
(* The ways a check ends. *)

\* envelope: what is surfaced of it; identified: whether attestation_id and
\* issuer_id are.
Finalize(rows, envelope, identified) ==
  LET skipped == {rows[i].name : i \in {j \in DOMAIN rows : rows[j].outcome = "skip"}}
  IN  [valid |-> /\ \A i \in DOMAIN rows : rows[i].outcome # "fail"
                 /\ skipped = DocumentedSkips,
       checks |-> rows, envelope |-> envelope, identified |-> identified]

\* Mutant: the salt stays.
KeepSalt(envelope) == envelope

\* _strip_salt.
StripSalt(envelope) == IF envelope = "salted" THEN "stripped" ELSE envelope

Pass(name, next) ==
  /\ checks' = Append(checks, Row(name, "pass"))
  /\ pc' = next
  /\ UNCHANGED <<bundle, result, raised>>

Fail(name, envelope) ==
  /\ checks' = Append(checks, Row(name, "fail"))
  /\ result' = Finalize(checks', envelope, FALSE)
  /\ pc' = "done"
  /\ UNCHANGED <<bundle, raised>>

\* Mutant: a blanket handler that returns nothing.
Swallow ==
  /\ pc' = "done"
  /\ UNCHANGED <<bundle, checks, result, raised>>

\* An exception no handler of verify_bundle catches.
Raise ==
  /\ pc' = "done" /\ raised' = TRUE
  /\ UNCHANGED <<bundle, checks, result>>

-----------------------------------------------------------------------------
Init ==
  /\ bundle \in Bundles
  /\ pc = "bundle-readable"
  /\ checks = <<>>
  /\ result = NoResult
  /\ raised = FALSE

\* Only the constructor of ZipFile is guarded, not the read of its members.
ReadZip ==
  /\ pc = "bundle-readable"
  /\ \/ Is("zip", {"notZip"}) /\ Fail(pc, "none")
     \/ Is("zip", {"memberCorrupt"}) /\ Raise
     \/ Is("zip", {"ok"}) /\ Pass(pc, "required-files-present")

RequireFiles ==
  /\ pc = "required-files-present"
  /\ \/ Is("files", {"missing"}) /\ Fail(pc, "none")
     \/ Is("files", {"ok"}) /\ Pass(pc, "manifest-integrity")

\* parse_manifest: a line of another form raises ManifestParseError.
ManifestParses == ~Is("manifest", {"badLine"})

\* Mutant: the paths of the manifest are compared but not the digests.
CheckManifestPaths ==
  LET undecodable == \/ Is("issuerKey", {"notUtf8"}) \/ Is("masterKey", {"notUtf8"})
                     \/ Is("manifest", {"notUtf8"})
      matches == ManifestParses /\ ~Is("manifest", {"otherPaths"})
  IN  /\ pc = "manifest-integrity"
      /\ \/ undecodable /\ Raise
         \/ ~undecodable /\ ~matches /\ Fail(pc, "none")
         \/ ~undecodable /\ matches /\ Pass(pc, "manifest-signature")

\* The keys are decoded first, as text, before anything vouches for their bytes.
CheckManifest ==
  LET undecodable == \/ Is("issuerKey", {"notUtf8"}) \/ Is("masterKey", {"notUtf8"})
                     \/ Is("manifest", {"notUtf8"})
      matches == ManifestParses /\ ~Is("manifest", {"otherPaths", "otherDigest"})
  IN  /\ pc = "manifest-integrity"
      /\ \/ undecodable /\ Raise
         \/ ~undecodable /\ ~matches /\ Fail(pc, "none")
         \/ ~undecodable /\ matches /\ Pass(pc, "manifest-signature")

\* _load_public_key raises UnsupportedKeyError.
Unsupported(key) == Is(key, {"notP256"})

\* Mutant: a signature is verified on whatever curve the key is.
EcdsaAnyCurve(key, signature) == Is(signature, {"invalid"})

\* verify_ecdsa_p256 raises UnsupportedKeyError or InvalidSignatureError.
EcdsaRejects(key, signature) == Unsupported(key) \/ Is(signature, {"invalid"})

CheckManifestSignature ==
  LET rejected == EcdsaRejects("masterKey", "bundleSignature")
  IN  /\ pc = "manifest-signature"
      /\ \/ rejected /\ Fail(pc, "none")
         \/ ~rejected /\ Pass(pc, "json-parseable")

\* Three loads under one handler, which knows JSONDecodeError but not
\* UnicodeDecodeError: the first that fails decides.
ParseJson ==
  LET unparsed == {"notUtf8", "notJson"}
      defect == IF Is("envelope", unparsed) THEN bundle["envelope"]
                ELSE IF Is("inclusion", unparsed) THEN bundle["inclusion"]
                ELSE bundle["sth"]
  IN  /\ pc = "json-parseable"
      /\ \/ defect = "notUtf8" /\ Raise
         \/ defect = "notJson" /\ Fail(pc, "none")
         \/ defect \notin unparsed /\ Pass(pc, "envelope-hash")

\* From here a rejected bundle gives back its envelope, salt stripped: an envelope
\* of which dict() makes none makes that, too, raise.
FailWithEnvelope(name) ==
  \/ Is("envelope", {"notObject"}) /\ Raise
  \/ ~Is("envelope", {"notObject"}) /\ Fail(name, StripSalt("salted"))

\* Mutant: a proof that states no leaf hash is rejected.
CheckEnvelopeHashStated ==
  LET malformed == \/ Is("envelope", {"notCanonical"}) \/ Is("inclusion", {"notObject"})
                   \/ Is("leafHash", {"notHex"})
  IN  /\ pc = "envelope-hash"
      /\ \/ malformed /\ Raise
         \/ ~malformed /\ ~Is("leafHash", {"ok"}) /\ FailWithEnvelope(pc)
         \/ ~malformed /\ Is("leafHash", {"ok"}) /\ Pass(pc, "inclusion-proof")

\* A proof that states no leaf hash is not compared with the envelope here.
CheckEnvelopeHash ==
  LET malformed == \/ Is("envelope", {"notCanonical"}) \/ Is("inclusion", {"notObject"})
                   \/ Is("leafHash", {"notHex"})
  IN  /\ pc = "envelope-hash"
      /\ \/ malformed /\ Raise
         \/ ~malformed /\ Is("leafHash", {"other"}) /\ FailWithEnvelope(pc)
         \/ ~malformed /\ ~Is("leafHash", {"other"}) /\ Pass(pc, "inclusion-proof")

\* Mutant: the path is walked from the leaf hash the proof states, not the envelope's.
CheckStatedInclusion ==
  LET proven ==
        /\ Is("leafIndex", {"ok", "displaced"}) /\ Is("treeSize", {"ok", "unsigned"})
        /\ Is("rootHash", {"ok"})
        /\ Is("auditPath", {"ok"})
  IN  /\ pc = "inclusion-proof"
      /\ \/ proven /\ Pass(pc, "sth-signature")
         \/ ~proven /\ FailWithEnvelope(pc)

\* The arguments are converted left to right; the handler knows KeyError and
\* ValueError but not TypeError or AttributeError, and converts tree_size again, any
\* false value as 0.
CheckInclusion ==
  LET inRange == Is("leafIndex", {"ok", "displaced"})
      indexed == inRange \/ Is("leafIndex", {"outOfRange"})
      sized == Is("treeSize", {"ok", "unsigned"})
      malformed ==
        \/ Is("leafIndex", {"mistyped"})
        \/ indexed /\ Is("treeSize", {"null", "mistyped"})
        \/ /\ indexed /\ sized
           /\ \/ Is("auditPath", {"mistyped"}) \/ Is("sth", {"notObject"})
              \/ inRange /\ Is("rootHash", {"mistyped"})
      proven ==
        /\ inRange /\ sized /\ Is("rootHash", {"ok"})
        /\ Is("auditPath", {"ok"}) /\ ~Is("envelope", {"notLogged"})
      unreportable == Is("treeSize", {"notNumeric", "mistyped"})
  IN  /\ pc = "inclusion-proof"
      /\ \/ malformed /\ Raise
         \/ ~malformed /\ proven /\ Pass(pc, "sth-signature")
         \/ ~malformed /\ ~proven /\ unreportable /\ Raise
         \/ ~malformed /\ ~proven /\ ~unreportable /\ FailWithEnvelope(pc)

\* The handler knows neither KeyError nor ValueError.
CheckSthSignature ==
  LET malformed == Is("sth", {"notCanonical"}) \/ Is("sthSignature", {"absent", "undecodable"})
      invalid == EcdsaRejects("masterKey", "sthSignature")
  IN  /\ pc = "sth-signature"
      /\ \/ malformed /\ Raise
         \/ ~malformed /\ invalid /\ Is("sthSize", {"notNumeric"}) /\ Raise
         \/ ~malformed /\ invalid /\ Is("sthSize", {"ok"}) /\ FailWithEnvelope(pc)
         \/ ~malformed /\ ~invalid /\ Pass(pc, "tsa-timestamp")

SkipTimestamp ==
  /\ pc = "tsa-timestamp"
  /\ checks' = Append(checks, Row(pc, "skip"))
  /\ pc' = "issuer-key-format"
  /\ UNCHANGED <<bundle, result, raised>>

\* The last check, and the result when it is done.  The signature it verifies is a
\* dummy: only the key decides.  The ids are asked of the envelope itself, which has
\* them only if it is an object.
CheckIssuerKey ==
  LET unreportable == Is("sthSize", {"notNumeric"}) \/ Is("envelope", {"notObject", "pairs"})
      outcome == IF Unsupported("issuerKey") THEN "fail" ELSE "pass"
  IN  /\ pc = "issuer-key-format"
      /\ \/ /\ unreportable
            /\ Raise
         \/ /\ ~unreportable
            /\ checks' = Append(checks, Row(pc, outcome))
            /\ result' = Finalize(checks', StripSalt("salted"), TRUE)
            /\ pc' = "done"
            /\ UNCHANGED <<bundle, raised>>

Done == pc = "done" /\ UNCHANGED vars

Check ==
  \/ ReadZip \/ RequireFiles \/ CheckManifest \/ CheckManifestSignature \/ ParseJson
  \/ CheckEnvelopeHash \/ CheckInclusion \/ CheckSthSignature \/ SkipTimestamp
  \/ CheckIssuerKey

Next == Check \/ Done

Spec == Init /\ [][Next]_vars

-----------------------------------------------------------------------------
(* Properties. *)

Returned == pc = "done" /\ ~raised

Passed(name) == \E i \in DOMAIN checks : checks[i] = Row(name, "pass")

\* The rows of the contract (types/bundle.py and the tests of verify.py), in order.
ContractRows == <<"bundle-readable", "required-files-present", "manifest-integrity",
                  "manifest-signature", "json-parseable", "envelope-hash",
                  "inclusion-proof", "sth-signature", "tsa-timestamp",
                  "issuer-key-format">>

\* Whether the bundle has what the check looks for: the defects its row is to tell of,
\* which for the timestamp are none.
Found(name) ==
  \/ name = "bundle-readable" /\ Is("zip", {"notZip", "memberCorrupt"})
  \/ name = "required-files-present" /\ Is("files", {"missing"})
  \/ /\ name = "manifest-integrity"
     /\ Is("manifest", {"notUtf8", "badLine", "otherPaths", "otherDigest"})
  \/ /\ name = "manifest-signature"
     /\ Is("masterKey", {"notP256"}) \/ Is("bundleSignature", {"invalid"})
  \/ /\ name = "json-parseable"
     /\ \E member \in {"envelope", "inclusion", "sth"} : Is(member, {"notUtf8", "notJson"})
  \/ name = "envelope-hash" /\ Is("leafHash", {"other", "notHex"})
  \/ /\ name = "inclusion-proof"
     /\ \/ Is("envelope", {"notLogged"})
        \/ Is("leafIndex", {"outOfRange", "notNumeric", "mistyped"})
        \/ Is("treeSize", {"absent", "null", "notNumeric", "mistyped"})
        \/ Is("auditPath", {"wrong", "mistyped"}) \/ Is("rootHash", {"absent", "mistyped"})
  \/ /\ name = "sth-signature"
     /\ \/ Is("masterKey", {"notP256"}) \/ Is("sth", {"notCanonical"})
        \/ Is("sthSignature", {"absent", "undecodable", "invalid"})
  \/ name = "issuer-key-format" /\ Is("issuerKey", {"notP256"})

(***************************************************************************)
(* Types, and that verify_bundle ends either with an exception or with a   *)
(* result that holds every row made (verify.py:285-317).                   *)
(***************************************************************************)
TypeOK ==
  /\ \A p \in Parts : bundle[p] \in Conditions[p]
  /\ pc \in {ContractRows[i] : i \in 1..10} \cup {"done"}
  /\ checks \in Seq([name : {ContractRows[i] : i \in 1..10},
                      outcome : {"pass", "fail", "skip"}])
  /\ result.envelope \in {"none", "salted", "stripped"}
  /\ raised \in BOOLEAN
  /\ Returned => result.checks = checks /\ checks # <<>>
  /\ ~Returned => result = NoResult

(***************************************************************************)
(* A valid verdict means that no part of the bundle has any defect, but    *)
(* for what the proof states of its leaf, which nothing binds: its hash,   *)
(* where the walk starts from the envelope's own, and its position, which  *)
(* is compared with no signed field (verify.py:193-220).  Nothing is said  *)
(* of the issuer key, which is recorded and need not decide (verify.py:    *)
(* 263).                                                                   *)
(***************************************************************************)
Unbound == [leafHash |-> "absent", leafIndex |-> "displaced", treeSize |-> "unsigned"]

ValidIsSound ==
  result.valid =>
    \A p \in Parts \ {"issuerKey"} :
      bundle[p] = "ok" \/ (p \in DOMAIN Unbound /\ bundle[p] = Unbound[p])

(***************************************************************************)
(* A bundle with no defect is accepted, whether or not its proof states a  *)
(* leaf hash, with every row of the contract, each passed but the          *)
(* timestamp, which is reported as skipped and never as passed             *)
(* (verify.py:196, 247-261, 303-317).                                      *)
(***************************************************************************)
GenuineIsValid ==
  Returned /\ (\A p \in Parts : bundle[p] = "ok" \/ (p = "leafHash" /\ bundle[p] = "absent"))
    => /\ result.valid
       /\ result.checks = [i \in 1..10 |->
            Row(ContractRows[i], IF ContractRows[i] = "tsa-timestamp" THEN "skip" ELSE "pass")]

(***************************************************************************)
(* Every row is true of the bundle, whatever else is wrong with it and     *)
(* however verify_bundle ends: a failed row tells of a defect that is      *)
(* there, a passed one that those it looks for are not, also where another *)
(* check was to rule them out.  A result is not invalid without a failed   *)
(* row to say why (verify.py:103-292, 305-308).                            *)
(***************************************************************************)
RowsAreTruthful ==
  /\ \A i \in DOMAIN checks :
       /\ checks[i].outcome = "fail" => Found(checks[i].name)
       /\ checks[i].outcome = "pass" => ~Found(checks[i].name)
  /\ Returned /\ ~result.valid => \E i \in DOMAIN checks : checks[i].outcome = "fail"

(***************************************************************************)
(* The JSON members are parsed, and anything of the envelope handed back,  *)
(* only when every byte of them was vouched for by a manifest that matches *)
(* and is signed by the key in chain-master.pem (verify.py:128, 179).      *)
(***************************************************************************)
Authenticated ==
  \A p \in {"zip", "files", "manifest", "bundleSignature", "masterKey"} : bundle[p] = "ok"

ParsedOnlyAuthenticated ==
  (\E i \in DOMAIN checks : checks[i].name = "json-parseable") \/ result.envelope # "none"
    => Authenticated

(***************************************************************************)
(* No result carries the salt, on any of the five ways to hand back the    *)
(* envelope, and it hands it back only if it parsed (verify.py:86-89, 208, *)
(* 225, 242, 274, 287; types/bundle.py:54-57).                             *)
(***************************************************************************)
SaltNeverSurfaces ==
  /\ result.envelope # "salted"
  /\ result.envelope # "none" => Passed("json-parseable")

(***************************************************************************)
(* verify_bundle never raises for a malformed bundle (verify.py:95).       *)
(***************************************************************************)
NeverRaises == ~raised

(***************************************************************************)
(* Callers can surface every problem at once: each defect a check would    *)
(* find has its failed row (verify.py:96, and docs/handoffs/               *)
(* M08-luka-verification.md:323-324, "rather than failing on the first").  *)
(***************************************************************************)
EveryProblemIsReported ==
  Returned => \A i \in 1..10 :
    Found(ContractRows[i]) => \E j \in DOMAIN checks : checks[j] = Row(ContractRows[i], "fail")
=============================================================================
