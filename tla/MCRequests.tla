----------------------------- MODULE MCRequests -----------------------------
(***************************************************************************)
(* The two ends of the HTTP layer: requests of the web client and webhooks *)
(* of a provider.  They share no state, so a behaviour is about one of     *)
(* them, chosen at the start.                                              *)
(***************************************************************************)
EXTENDS GenerationRequests, ProviderInbox

CONSTANTS r1, r2, r3, t1, t2, d1, d2, d3, b1, b2

VARIABLE subject

vars == <<requestVars, inboxVars, subject>>

KeysOfOperations == Operations \X Kinds

Init == RequestsInit /\ InboxInit /\ subject \in {"generation", "webhook"}

Next ==
    /\ \/ subject = "generation" /\ RequestsNext /\ UNCHANGED inboxVars
       \/ subject = "webhook" /\ InboxNext /\ UNCHANGED requestVars
    /\ UNCHANGED subject

FairSpec == Init /\ [][Next]_vars /\ RequestsFairness

=============================================================================
