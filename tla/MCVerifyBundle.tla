--------------------------- MODULE MCVerifyBundle ---------------------------
(* Instances of VerifyBundle for TLC. *)
EXTENDS VerifyBundle

Sound == [p \in Parts |-> "ok"]

\* Bundles with at most two defects, in any parts: enough for each defect to meet any
\* other, seen before it or after it.
MCBundles ==
  UNION {{[Sound EXCEPT ![p] = c, ![q] = d] : c \in Conditions[p], d \in Conditions[q]} :
           p \in Parts, q \in Parts}

\* Bundles that raise nothing and may have several of four problems, each of a check of
\* its own that needs nothing of the others.
MCIndependentDefects ==
  {[Sound EXCEPT !.leafHash = a, !.auditPath = b, !.sthSignature = c, !.issuerKey = d] :
     a \in {"ok", "other"}, b \in {"ok", "wrong"}, c \in {"ok", "invalid"},
     d \in {"ok", "notP256"}}

\* Bundles with at most one.
MCSingleDefects == UNION {{[Sound EXCEPT ![p] = c] : c \in Conditions[p]} : p \in Parts}
=============================================================================
