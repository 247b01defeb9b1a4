--------------------------- MODULE MCSseSession ---------------------------
(* An instance of SseSession for TLC. *)
EXTENDS SseSession

\* No response is ever closed in good order.
MCNever == [f \in {"sync", "async"} |-> "never"]

MCRetryBudgets == {None, 0, 2}
=============================================================================
