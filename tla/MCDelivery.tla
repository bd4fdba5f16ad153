----------------------------- MODULE MCDelivery -----------------------------
(* Delivery with one dispatcher loop and one reconciler in the process. *)
EXTENDS Delivery

CONSTANTS j1, j2, loop, reconciler

AllTasks == Dispatchers \cup Jobs

=============================================================================
