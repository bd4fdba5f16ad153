----------------------------- MODULE MCCleanup -----------------------------
(* Cleanup with one key of each kind and two cleaners. *)
EXTENDS Cleanup

CONSTANTS s1, f1, a1, cleanupLoop, reconciler

=============================================================================
