---------------------------- MODULE MCJcsEncode ----------------------------
(* An instance of JcsEncode for TLC. *)
EXTENDS JcsEncode

\* Numbers down to 1e-10.
MCMinPoint == -9
=============================================================================
