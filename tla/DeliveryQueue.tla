--------------------------- MODULE DeliveryQueue ---------------------------
(***************************************************************************)
(* What the generation outbox promises its users: the event that a         *)
(* transaction committed stays open until the workflow it asks for was     *)
(* really started, or until it is put aside as a dead letter that an       *)
(* operator can replay.  Starting may be repeated; finishing never         *)
(* precedes it.  Outbox, LocalWorkflow and BlockingIO, composed in         *)
(* Delivery, implement this specification.                                 *)
(***************************************************************************)

CONSTANT Jobs

VARIABLES
    queue,      \* the state of the event of each job
    begun       \* jobs whose workflow was started at least once

queueVars == <<queue, begun>>

Init ==
    /\ queue = [j \in Jobs |-> "ABSENT"]
    /\ begun = {}

Move(j, from, to) ==
    /\ queue[j] = from
    /\ queue' = [queue EXCEPT ![j] = to]
    /\ UNCHANGED begun

Enqueue(j) == Move(j, "ABSENT", "OPEN")

Begin(j) ==
    /\ queue[j] # "ABSENT"
    /\ begun' = begun \cup {j}
    /\ UNCHANGED queue

Finish(j) ==
    /\ j \in begun
    /\ Move(j, "OPEN", "DONE")

GiveUp(j) == Move(j, "OPEN", "DEAD")

Replay(j) == Move(j, "DEAD", "OPEN")

Settle(j) == Finish(j) \/ GiveUp(j)

Next == \E j \in Jobs : Enqueue(j) \/ Begin(j) \/ Settle(j) \/ Replay(j)

Safe == Init /\ [][Next]_queueVars

\* An open event may not stay open for ever.
Spec == Safe /\ \A j \in Jobs : WF_queueVars(Settle(j))

=============================================================================
