------------------------------ MODULE StatusFeed ------------------------------
(***************************************************************************)
(* What the delivery status job promises: a pass goes forward through the  *)
(* rows that were received, applies a batch of pending ones at a single    *)
(* moment, and brings no older status of a delivery back; only somebody    *)
(* else's save may be overwritten, by the last status the pass applied.    *)
(* DeliveryStatusJob implements it (ImplementsFeed).                       *)
(***************************************************************************)
EXTENDS Integers, Sequences

CONSTANTS Deliveries, Codes, Others, Seconds

VARIABLES
    received,  \* the rows, in the order they were received
    status,    \* the status of each delivery
    passed     \* the rows this pass has applied

vars == <<received, status, passed>>

Pending == {i \in DOMAIN received : ~received[i].applied}

Of(rows) == {received[i].delivery : i \in rows}

(* The statuses the rows of d bring that are not older than another. *)
Latest(rows, d) ==
    { received[i].status :
        i \in {j \in rows : /\ received[j].delivery = d
                            /\ \A k \in rows : received[k].delivery = d =>
                                                   received[k].at <= received[j].at} }

Init ==
    /\ received = <<>>
    /\ status = [d \in Deliveries |-> "REQUESTED"]
    /\ passed = {}

Receive(d, s, t) ==
    /\ \A i \in DOMAIN received : received[i].at <= t
    /\ received' = Append(received, [delivery |-> d, status |-> s, at |-> t,
                                     applied |-> FALSE])
    /\ UNCHANGED <<status, passed>>

Save(d, s) ==
    /\ status' = [status EXCEPT ![d] = s]
    /\ UNCHANGED <<received, passed>>

StartPass == passed' = {} /\ UNCHANGED <<received, status>>

(* The deliveries ds get the latest of the statuses some rows bring. *)
Bring(ds, rows) ==
    /\ DOMAIN status' = Deliveries
    /\ \A d \in ds : status'[d] \in Latest(rows, d)
    /\ \A d \in Deliveries \ ds : status'[d] = status[d]

Apply(rows) ==
    /\ \A i \in passed, j \in rows : received[i].at <= received[j].at
    /\ received' = [i \in DOMAIN received |->
                       [received[i] EXCEPT !.applied = @ \/ i \in rows]]
    /\ Bring(Of(rows), rows)
    /\ passed' = passed \union rows

(* The statuses of the pass are written once more. *)
ApplyAgain(ds) ==
    /\ Bring(ds, passed)
    /\ UNCHANGED <<received, passed>>

Next ==
    \/ \E d \in Deliveries, s \in Codes, t \in Seconds : Receive(d, s, t)
    \/ \E d \in Deliveries, s \in Others : Save(d, s)
    \/ StartPass
    \/ \E rows \in SUBSET Pending : Apply(rows)
    \/ \E ds \in SUBSET Of(passed) : ApplyAgain(ds)

Spec == Init /\ [][Next]_vars
=============================================================================
