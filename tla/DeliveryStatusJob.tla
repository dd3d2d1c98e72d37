-------------------------- MODULE DeliveryStatusJob --------------------------
(***************************************************************************)
(* batch/DeliveryStatusJobConfigure: every half hour the statuses received *)
(* from the carrier are applied to the deliveries, chunk by chunk.         *)
(*                                                                         *)
(* JpaPagingItemReader asks for page after page of the rows still pending  *)
(* while the writer's commits take rows out of that very query: page n     *)
(* starts after n * ChunkSize rows that are pending NOW.  Rows of the same *)
(* second may come in any order, another one in every query.  The reader's *)
(* entities stay managed, so the next page read writes the last page's     *)
(* deliveries once more.                                                   *)
(***************************************************************************)
EXTENDS Integers, Sequences, FiniteSets

CONSTANTS
    Deliveries,   \* deliveries with an ext_delivery_id
    Codes,        \* statuses the carrier reports
    Others,       \* statuses other transactions save meanwhile
    Seconds,      \* values create_at may have
    ChunkSize,    \* chunkSize, of the page and of the chunk
    MaxReceived   \* bound: rows ever received

ASSUME JobAssumption ==
    /\ Seconds \subseteq Nat
    /\ ChunkSize \in Nat \ {0}
    /\ MaxReceived \in Nat

VARIABLES
    received,   \* received_delivery_status
    status,     \* delivery.status
    job         \* the job execution

vars == <<received, status, job>>

Row == [delivery: Deliveries, status: Codes, at: Seconds, applied: BOOLEAN]
Statuses == Codes \union Others \union {"REQUESTED"}

(* page, rows and loaded are the reader's: the number of the next page, the *)
(* rows of the last one and the statuses of its deliveries when they were  *)
(* read; brings is what the processor makes of them.  done and found are   *)
(* history: the rows this execution has applied and those that were        *)
(* pending when it started.                                                *)
Execution == [state: {"none", "reading", "writing", "COMPLETED", "FAILED"},
              page: Nat, rows: SUBSET Nat, loaded: [Deliveries -> Statuses],
              brings: [Deliveries -> Statuses], done: SUBSET Nat, found: SUBSET Nat]

Running == job.state \in {"reading", "writing"}

Pending == {i \in DOMAIN received : ~received[i].applied}

Of(rows) == {received[i].delivery : i \in rows}

(* No row of later was created before one of earlier. *)
Ordered(earlier, later) ==
    \A i \in earlier, j \in later : received[i].at <= received[j].at

PagesDescending(n) ==  \* mutant: order by d.createAt desc
    { rows \in SUBSET Pending : \E skipped \in SUBSET (Pending \ rows) :
        /\ Ordered(rows, skipped)
        /\ Ordered(Pending \ (skipped \union rows), skipped \union rows)
        /\ Cardinality(skipped) <= n * ChunkSize /\ Cardinality(rows) <= ChunkSize
        /\ Cardinality(skipped) < n * ChunkSize => skipped = Pending
        /\ Cardinality(rows) < ChunkSize => skipped \union rows = Pending }

PagesFromOne(n) ==  \* mutant: the pages are counted from one
    { rows \in SUBSET Pending : \E skipped \in SUBSET (Pending \ rows) :
        /\ Ordered(skipped, rows)
        /\ Ordered(skipped \union rows, Pending \ (skipped \union rows))
        /\ Cardinality(skipped) <= (n + 1) * ChunkSize /\ Cardinality(rows) <= ChunkSize
        /\ Cardinality(skipped) < (n + 1) * ChunkSize => skipped = Pending
        /\ Cardinality(rows) < ChunkSize => skipped \union rows = Pending }

(* Page n of "select d ... where d.applyYn = 'N' order by d.createAt", in   *)
(* any of the orders the query may answer with.                            *)
Pages(n) ==
    { rows \in SUBSET Pending : \E skipped \in SUBSET (Pending \ rows) :
        /\ Ordered(skipped, rows)
        /\ Ordered(skipped \union rows, Pending \ (skipped \union rows))
        /\ Cardinality(skipped) <= n * ChunkSize /\ Cardinality(rows) <= ChunkSize
        /\ Cardinality(skipped) < n * ChunkSize => skipped = Pending
        /\ Cardinality(rows) < ChunkSize => skipped \union rows = Pending }

(* The rows of d, among some, that may come last. *)
LastOf(rows, d) ==
    { i \in rows : /\ received[i].delivery = d
                   /\ \A j \in rows : received[j].delivery = d =>
                                          received[j].at <= received[i].at }

(* The processor goes through the rows in order: the last one stays. *)
Brought(rows, loaded) ==
    { brings \in [Deliveries -> Statuses] : \A d \in Deliveries :
        IF d \in Of(rows) THEN \E i \in LastOf(rows, d) : brings[d] = received[i].status
                          ELSE brings[d] = loaded[d] }

-----------------------------------------------------------------------------
Init ==
    /\ received = <<>>
    /\ status = [d \in Deliveries |-> "REQUESTED"]
    /\ job = [state |-> "none", page |-> 0, rows |-> {}, loaded |-> status,
              brings |-> status, done |-> {}, found |-> {}]

(* The carrier reports a status. *)
Receive(d, s, t) ==
    /\ Len(received) < MaxReceived
    /\ \A i \in DOMAIN received : received[i].at <= t
    /\ received' = Append(received, [delivery |-> d, status |-> s, at |-> t,
                                     applied |-> FALSE])
    /\ UNCHANGED <<status, job>>

(* The admin or a cancel saves a status. *)
ModifyStatus(d, s) ==
    /\ status' = [status EXCEPT ![d] = s]
    /\ UNCHANGED <<received, job>>

(* fixedDelay: one execution after the other. *)
RunDeliveryJob ==
    /\ ~Running
    /\ job' = [state |-> "reading", page |-> 0, rows |-> {}, loaded |-> status,
               brings |-> status, done |-> {}, found |-> Pending]
    /\ UNCHANGED <<received, status>>

(* What the flush of the reader's EntityManager writes: the deliveries of  *)
(* its last page whose status the processor changed.                       *)
Flushed ==
    [d \in Deliveries |-> IF job.brings[d] # job.loaded[d] THEN job.brings[d]
                                                           ELSE status[d]]

(* doReadPage: flush, clear and query.  An empty page ends the step.       *)
ReadPage ==
    /\ job.state = "reading"
    /\ status' = Flushed
    /\ \E rows \in Pages(job.page) : \E brings \in Brought(rows, status') :
        job' = [job EXCEPT !.state = IF rows = {} THEN "COMPLETED" ELSE "writing",
                           !.page = @ + 1, !.rows = rows,
                           !.loaded = status', !.brings = brings]
    /\ UNCHANGED received

WriteChunkUnapplied ==  \* mutant: receivedDeliveryStatus.apply() is missing
    /\ job.state = "writing"
    /\ status' = [d \in Deliveries |-> IF d \in Of(job.rows) THEN job.brings[d]
                                                             ELSE status[d]]
    /\ job' = [job EXCEPT !.state = IF Cardinality(job.rows) = ChunkSize
                                       THEN "reading" ELSE "COMPLETED",
                          !.done = @ \union job.rows]
    /\ UNCHANGED received

(* The chunk commits: the writer merges the deliveries with their rows.  A *)
(* short page was the last one.                                            *)
WriteChunk ==
    /\ job.state = "writing"
    /\ received' = [i \in DOMAIN received |->
                       [received[i] EXCEPT !.applied = @ \/ i \in job.rows]]
    /\ status' = [d \in Deliveries |-> IF d \in Of(job.rows) THEN job.brings[d]
                                                             ELSE status[d]]
    /\ job' = [job EXCEPT !.state = IF Cardinality(job.rows) = ChunkSize
                                       THEN "reading" ELSE "COMPLETED",
                          !.done = @ \union job.rows]

(* An exception or a dying server: the chunk is rolled back, and           *)
(* preventRestart leaves the rest to the next execution.                   *)
Fail ==
    /\ Running
    /\ job' = [job EXCEPT !.state = "FAILED"]
    /\ UNCHANGED <<received, status>>

Next ==
    \/ \E d \in Deliveries, s \in Codes, t \in Seconds : Receive(d, s, t)
    \/ \E d \in Deliveries, s \in Others : ModifyStatus(d, s)
    \/ RunDeliveryJob
    \/ ReadPage
    \/ WriteChunk
    \/ Fail

Spec == Init /\ [][Next]_vars

(* The scheduler starts the job again and again, and neither reading nor   *)
(* writing fails for ever.                                                 *)
Fairness == WF_vars(RunDeliveryJob) /\ SF_vars(ReadPage) /\ SF_vars(WriteChunk)

FairSpec == Spec /\ Fairness

-----------------------------------------------------------------------------
(* The tables and the execution hold values of their types. *)
TypeOK ==
    /\ received \in Seq(Row)
    /\ status \in [Deliveries -> Statuses]
    /\ job \in Execution

(* Of the rows it found, an execution that completes leaves no more than   *)
(* it has applied, although every page it reads skips rows that are still  *)
(* pending (deliveryStatusReader 90-98).                                   *)
LeavesNoMoreThanApplied ==
    job.state = "COMPLETED" =>
        Cardinality(job.found \intersect Pending) <= Cardinality(job.done)

(* An execution that completes has applied every row it found, as          *)
(* DeliveryStatusJobTest.java:46 expects.  The code breaks it: the second  *)
(* page skips rows that moved to the front of the query.                   *)
CompletedLeavesNone ==
    job.state = "COMPLETED" => job.found \intersect Pending = {}

(* Every status received is applied in the end, by this execution or a     *)
(* later one.                                                              *)
EveryStatusApplied ==
    \A i \in 1..MaxReceived :
        (i \in DOMAIN received) ~> (i \in DOMAIN received /\ received[i].applied)

Feed == INSTANCE StatusFeed WITH passed <- job.done

(* The pages shift under the reader while the writer applies them, rows of *)
(* one second change places, and the reader's flush writes a page twice;   *)
(* yet an execution applies rows in the order of their seconds and never   *)
(* brings an older status of a delivery back (deliveryStatusReader,        *)
(* deliveryStatusProcessor).                                               *)
ImplementsFeed == Feed!Spec
=============================================================================
