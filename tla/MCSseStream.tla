---------------------------- MODULE MCSseStream ----------------------------
(* Instances of SseStream for TLC. *)
EXTENDS SseStream

\* Servers that finish the event they are sending before they close, as far as the
\* sync client is concerned; the async client is given any close.
MCPoliteToSync == [sync |-> "betweenEvents", async |-> "anywhere"]

\* No response is ever closed in good order.
MCNever == [f \in {"sync", "async"} |-> "never"]

\* A response may be closed in good order at any line.
MCAnywhere == [f \in {"sync", "async"} |-> "anywhere"]

MCBudgets == {None, 0, 1}
=============================================================================
