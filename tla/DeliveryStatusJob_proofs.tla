----------------------- MODULE DeliveryStatusJob_proofs -----------------------
(***************************************************************************)
(* TypeOK, ImplementsFeed and LeavesNoMoreThanApplied for any deliveries,  *)
(* chunk size and number of rows, whatever rows share a second.            *)
(*                                                                         *)
(* The argument: of the rows created before one the execution has applied, *)
(* at most page * ChunkSize are pending, because there were so few when    *)
(* its page was read and rows only stop being pending.  The next page      *)
(* skips so many pending rows, the oldest ones, so that none it holds is   *)
(* older than a row applied.                                               *)
(***************************************************************************)
EXTENDS DeliveryStatusJob, FiniteSetTheorems, SequenceTheorems, TLAPS

EarlierPending(i) == {j \in Pending : received[j].at < received[i].at}

RowsReceived == job.rows \subseteq DOMAIN received /\ job.done \subseteq DOMAIN received

(* The next page skips what is older than a row applied or about to be. *)
PagesBehind ==
    Running => \A i \in job.done \union job.rows :
        Cardinality(EarlierPending(i)) <= job.page * ChunkSize

DoneApplied == Running => \A i \in job.done : received[i].applied

(* The reader's page is a last part of what is applied, or pending. *)
PageWritten == job.state = "reading" => job.rows \subseteq job.done

PageToWrite == job.state = "writing" => job.rows \subseteq Pending

PageLast == Running => Ordered(job.done \ job.rows, job.rows)

(* The reader's deliveries hold what the processor made of its page. *)
PageBrought == Running => job.brings \in Brought(job.rows, job.loaded)

Inv == /\ TypeOK /\ RowsReceived /\ PagesBehind /\ DoneApplied
       /\ PageWritten /\ PageToWrite /\ PageLast /\ PageBrought

-----------------------------------------------------------------------------
(***************************************************************************)
(* Rows and pages.                                                         *)
(***************************************************************************)

LEMMA RowsFinite ==
    ASSUME received \in Seq(Row), NEW S \in SUBSET DOMAIN received
    PROVE  IsFiniteSet(S) /\ Cardinality(S) \in Nat
  <1>1. DOMAIN received = 1..Len(received) /\ Len(received) \in Nat
    OBVIOUS
  <1>2. IsFiniteSet(1..Len(received))
    BY <1>1, FS_Interval
  <1>3. IsFiniteSet(S)
    BY <1>1, <1>2, FS_Subset
  <1> QED
    BY <1>3, FS_CardinalityType

LEMMA DisjointUnion ==
    ASSUME NEW S, NEW T, IsFiniteSet(S), IsFiniteSet(T), S \intersect T = {}
    PROVE  /\ IsFiniteSet(S \union T)
           /\ Cardinality(S \union T) = Cardinality(S) + Cardinality(T)
  <1>1. /\ IsFiniteSet(S \union T)
        /\ Cardinality(S \union T) = Cardinality(S) + Cardinality(T) - Cardinality(S \intersect T)
    BY FS_Union
  <1>2. Cardinality(S \intersect T) = 0
    BY FS_EmptySet
  <1>3. Cardinality(S) \in Nat /\ Cardinality(T) \in Nat
    BY FS_CardinalityType
  <1> QED
    BY <1>1, <1>2, <1>3

LEMMA RowAt ==
    ASSUME received \in Seq(Row), NEW i \in DOMAIN received
    PROVE  /\ received[i] \in Row /\ received[i].at \in Nat
           /\ received[i].delivery \in Deliveries /\ received[i].status \in Codes
           /\ i \in Nat
  <1>1. received[i] \in Row /\ i \in Nat
    OBVIOUS
  <1>2. /\ received[i].at \in Seconds /\ received[i].delivery \in Deliveries
        /\ received[i].status \in Codes
    BY <1>1 DEF Row
  <1> QED
    BY <1>1, <1>2, JobAssumption

(* A step changes no more of a row than whether it is applied. *)
RowsKept ==
    /\ received' \in Seq(Row)
    /\ DOMAIN received \subseteq DOMAIN received'
    /\ \A i \in DOMAIN received : /\ received'[i].delivery = received[i].delivery
                                  /\ received'[i].status = received[i].status
                                  /\ received'[i].at = received[i].at
                                  /\ received[i].applied => received'[i].applied
    /\ \A i \in DOMAIN received, j \in DOMAIN received' \ DOMAIN received :
            received[i].at <= received'[j].at

LEMMA OrderKept ==
    ASSUME received \in Seq(Row), RowsKept, NEW R \in SUBSET DOMAIN received,
           NEW S \in SUBSET DOMAIN received, Ordered(R, S)
    PROVE  Ordered(R, S)'
  BY DEF RowsKept, Ordered

LEMMA LastKept ==
    ASSUME received \in Seq(Row), RowsKept, NEW rows \in SUBSET DOMAIN received, NEW d
    PROVE  LastOf(rows, d)' = LastOf(rows, d)
  BY DEF RowsKept, LastOf

LEMMA BroughtKept ==
    ASSUME received \in Seq(Row), RowsKept, NEW rows \in SUBSET DOMAIN received,
           NEW loaded, NEW brings \in Brought(rows, loaded)
    PROVE  brings \in Brought(rows, loaded)'
  <1>1. Of(rows)' = Of(rows)
    BY DEF RowsKept, Of
  <1>2. brings \in [Deliveries -> Statuses]
    BY DEF Brought
  <1>3. ASSUME NEW d \in Deliveries
        PROVE  IF d \in Of(rows) THEN \E i \in LastOf(rows, d) : brings[d] = received'[i].status
                                 ELSE brings[d] = loaded[d]
    <2>1. IF d \in Of(rows) THEN \E i \in LastOf(rows, d) : brings[d] = received[i].status
                            ELSE brings[d] = loaded[d]
      BY DEF Brought
    <2>2. \A i \in LastOf(rows, d) : received'[i].status = received[i].status
      BY DEF RowsKept, LastOf
    <2> QED
      BY <2>1, <2>2
  <1> QED
    BY <1>1, <1>2, <1>3, LastKept DEF Brought

(* Rows only stop being pending, and a later one is not created earlier. *)
LEMMA FewerEarlier ==
    ASSUME received \in Seq(Row), RowsKept, NEW i \in DOMAIN received, NEW k \in Nat,
           Cardinality(EarlierPending(i)) <= k
    PROVE  Cardinality(EarlierPending(i))' <= k
  <1>1. received[i].at \in Nat /\ received'[i].at = received[i].at
    BY RowAt DEF RowsKept
  <1>2. ASSUME NEW j \in DOMAIN received' PROVE received'[j].at \in Nat
    <2>1. received'[j] \in Row
      BY DEF RowsKept
    <2>2. received'[j].at \in Seconds
      BY <2>1 DEF Row
    <2> QED
      BY <2>2, JobAssumption
  <1>3. EarlierPending(i)' \subseteq EarlierPending(i)
    <2> SUFFICES ASSUME NEW j \in DOMAIN received', ~received'[j].applied,
                        received'[j].at < received'[i].at
                 PROVE  j \in EarlierPending(i)
      BY DEF EarlierPending, Pending
    <2>1. j \in DOMAIN received
      BY <1>1, <1>2 DEF RowsKept
    <2> QED
      BY <1>1, <2>1 DEF RowsKept, EarlierPending, Pending
  <1>4. IsFiniteSet(EarlierPending(i)) /\ Cardinality(EarlierPending(i)) \in Nat
    BY RowsFinite DEF EarlierPending, Pending
  <1>5. /\ IsFiniteSet(EarlierPending(i)')
        /\ Cardinality(EarlierPending(i)') <= Cardinality(EarlierPending(i))
    BY <1>3, <1>4, FS_Subset
  <1>6. Cardinality(EarlierPending(i)') \in Nat
    BY <1>5, FS_CardinalityType
  <1> QED
    BY <1>4, <1>5, <1>6

Skips(skipped, rows, n) ==
    /\ Ordered(skipped, rows)
    /\ Ordered(skipped \union rows, Pending \ (skipped \union rows))
    /\ Cardinality(skipped) <= n * ChunkSize
    /\ Cardinality(rows) <= ChunkSize
    /\ rows # {} => Cardinality(skipped) = n * ChunkSize
    /\ Cardinality(rows) < ChunkSize => skipped \union rows = Pending

(* A page that holds a row skips the number of rows it was asked to. *)
LEMMA PageOf ==
    ASSUME received \in Seq(Row), NEW n \in Nat, NEW rows \in Pages(n)
    PROVE  /\ rows \subseteq Pending
           /\ \E skipped \in SUBSET (Pending \ rows) : Skips(skipped, rows, n)
  <1>1. PICK skipped \in SUBSET (Pending \ rows) :
            /\ Ordered(skipped, rows)
            /\ Ordered(skipped \union rows, Pending \ (skipped \union rows))
            /\ Cardinality(skipped) <= n * ChunkSize /\ Cardinality(rows) <= ChunkSize
            /\ Cardinality(skipped) < n * ChunkSize => skipped = Pending
            /\ Cardinality(rows) < ChunkSize => skipped \union rows = Pending
    BY DEF Pages
  <1>2. rows \subseteq Pending
    BY DEF Pages
  <1>3. Cardinality(skipped) \in Nat
    BY RowsFinite DEF Pending
  <1>4. n * ChunkSize \in Nat
    BY JobAssumption
  <1>5. rows # {} => Cardinality(skipped) = n * ChunkSize
    BY <1>1, <1>2, <1>3, <1>4
  <1> QED
    BY <1>1, <1>2, <1>5 DEF Skips

-----------------------------------------------------------------------------
(***************************************************************************)
(* The invariant.                                                          *)
(***************************************************************************)

LEMMA InitInv == Init => Inv
  <1> SUFFICES ASSUME Init  PROVE Inv
    OBVIOUS
  <1>1. TypeOK
    BY JobAssumption DEF Init, TypeOK, Execution, Statuses
  <1> QED
    BY <1>1 DEF Init, Inv, RowsReceived, PagesBehind, DoneApplied, PageWritten, PageToWrite,
                PageLast, PageBrought, Running

(* A step that leaves the execution alone. *)
LEMMA RowsInv ==
    ASSUME Inv, TypeOK', RowsKept, UNCHANGED job,
           job.state = "writing" => job.rows \subseteq Pending'
    PROVE  Inv'
  <1>1. received \in Seq(Row) /\ job.page * ChunkSize \in Nat
    BY JobAssumption DEF Inv, TypeOK, Execution
  <1>2. RowsReceived'
    BY DEF Inv, RowsReceived, RowsKept
  <1>3. PagesBehind'
    <2> SUFFICES ASSUME Running, NEW i \in job.done \union job.rows
                 PROVE  Cardinality(EarlierPending(i))' <= job.page * ChunkSize
      BY DEF PagesBehind, Running
    <2>1. i \in DOMAIN received /\ Cardinality(EarlierPending(i)) <= job.page * ChunkSize
      BY DEF Inv, RowsReceived, PagesBehind
    <2> QED
      BY <1>1, <2>1, FewerEarlier
  <1>4. DoneApplied' /\ PageWritten' /\ PageToWrite'
    BY DEF Inv, DoneApplied, PageWritten, PageToWrite, Running, RowsReceived, RowsKept
  <1>5. PageLast'
    <2>1. Running => Ordered(job.done \ job.rows, job.rows)'
      BY <1>1, OrderKept DEF Inv, PageLast, RowsReceived
    <2> QED
      BY <2>1 DEF PageLast, Running
  <1>6. PageBrought'
    <2>1. Running => job.brings \in Brought(job.rows, job.loaded)'
      BY <1>1, BroughtKept DEF Inv, PageBrought, RowsReceived
    <2> QED
      BY <2>1 DEF PageBrought, Running
  <1> QED
    BY <1>2, <1>3, <1>4, <1>5, <1>6 DEF Inv

LEMMA ReceiveKeeps ==
    ASSUME Inv, NEW d \in Deliveries, NEW s \in Codes, NEW t \in Seconds, Receive(d, s, t)
    PROVE  RowsKept /\ UNCHANGED <<status, job>> /\ Pending \subseteq Pending'
           /\ DOMAIN received' = DOMAIN received \union {Len(received) + 1}
           /\ Len(received) + 1 \notin DOMAIN received
  <1>1. /\ received \in Seq(Row) /\ Len(received) \in Nat
        /\ [delivery |-> d, status |-> s, at |-> t, applied |-> FALSE] \in Row
        /\ received' = Append(received, [delivery |-> d, status |-> s, at |-> t,
                                         applied |-> FALSE])
        /\ \A i \in DOMAIN received : received[i].at <= t
    BY DEF Receive, Inv, TypeOK, Row
  <1>2. /\ received' \in Seq(Row) /\ Len(received') = Len(received) + 1
        /\ DOMAIN received = 1..Len(received) /\ DOMAIN received' = 1..(Len(received) + 1)
        /\ \A i \in 1..Len(received) : received'[i] = received[i]
        /\ received'[Len(received) + 1] = [delivery |-> d, status |-> s, at |-> t,
                                           applied |-> FALSE]
    BY <1>1
  <1>3. DOMAIN received' \ DOMAIN received = {Len(received) + 1}
    BY <1>1, <1>2
  <1>4. received'[Len(received) + 1].at = t
    BY <1>2
  <1> QED
    BY <1>1, <1>2, <1>3, <1>4 DEF RowsKept, Pending, Receive

LEMMA ReceiveInv ==
    ASSUME Inv, NEW d \in Deliveries, NEW s \in Codes, NEW t \in Seconds, Receive(d, s, t)
    PROVE  Inv'
  <1>1. RowsKept /\ UNCHANGED <<status, job>> /\ Pending \subseteq Pending'
    BY ReceiveKeeps
  <1>2. TypeOK'
    BY <1>1 DEF Inv, TypeOK, RowsKept
  <1> QED
    BY <1>1, <1>2, RowsInv DEF Inv, PageToWrite

LEMMA ModifyStatusInv ==
    ASSUME Inv, NEW d \in Deliveries, NEW s \in Others, ModifyStatus(d, s)
    PROVE  Inv'
  <1>1. TypeOK'
    BY DEF ModifyStatus, Inv, TypeOK, Statuses
  <1>2. RowsKept /\ UNCHANGED job /\ Pending' = Pending
    BY DEF ModifyStatus, RowsKept, Inv, TypeOK, Pending
  <1> QED
    BY <1>1, <1>2, RowsInv DEF Inv, PageToWrite

LEMMA RunDeliveryJobInv == ASSUME Inv, RunDeliveryJob PROVE Inv'
  <1>1. /\ job' = [state |-> "reading", page |-> 0, rows |-> {}, loaded |-> status,
                   brings |-> status, done |-> {}, found |-> Pending]
        /\ UNCHANGED <<received, status>>
    BY DEF RunDeliveryJob
  <1>2. TypeOK'
    BY <1>1 DEF Inv, TypeOK, Execution, Pending
  <1>3. status \in Brought({}, status)
    BY DEF Inv, TypeOK, Brought, Of
  <1>4. PageBrought'
    BY <1>1, <1>3 DEF PageBrought, Brought, Of, LastOf
  <1>5. PageLast'
    BY <1>1 DEF PageLast, Ordered
  <1> QED
    BY <1>1, <1>2, <1>4, <1>5 DEF Inv, RowsReceived, PagesBehind, DoneApplied, PageWritten, PageToWrite

LEMMA FailInv == ASSUME Inv, Fail PROVE Inv'
  <1>1. job' = [job EXCEPT !.state = "FAILED"] /\ UNCHANGED <<received, status>>
    BY DEF Fail
  <1>2. TypeOK' /\ job'.state = "FAILED" /\ job'.rows = job.rows /\ job'.done = job.done
    BY <1>1 DEF Inv, TypeOK, Execution
  <1>3. RowsReceived'
    BY <1>1, <1>2 DEF Inv, RowsReceived
  <1> QED
    BY <1>2, <1>3 DEF Inv, Running, PagesBehind, DoneApplied, PageWritten, PageToWrite,
                      PageLast, PageBrought

(* A page is pending, holds no row older than one applied, and leaves few  *)
(* pending rows older than its own.                                        *)
LEMMA NextPage ==
    ASSUME Inv, job.state = "reading", NEW rows \in Pages(job.page)
    PROVE  /\ rows \subseteq Pending /\ rows \subseteq DOMAIN received
           /\ \A i \in rows : Cardinality(EarlierPending(i)) <= (job.page + 1) * ChunkSize
           /\ Ordered(job.done, rows)
  <1> DEFINE n == job.page
  <1>1. n \in Nat /\ ChunkSize \in Nat \ {0} /\ received \in Seq(Row)
    BY JobAssumption DEF Inv, TypeOK, Execution
  <1>2. n * ChunkSize \in Nat /\ (n + 1) * ChunkSize = n * ChunkSize + ChunkSize
    BY <1>1
  <1>0. PICK skipped \in SUBSET (Pending \ rows) : Skips(skipped, rows, n)
    BY <1>1, PageOf
  <1>3. /\ Ordered(skipped, rows)
        /\ Ordered(skipped \union rows, Pending \ (skipped \union rows))
        /\ Cardinality(skipped) <= n * ChunkSize
        /\ Cardinality(rows) <= ChunkSize
        /\ rows # {} => Cardinality(skipped) = n * ChunkSize
    BY <1>0 DEF Skips
  <1>4. rows \subseteq Pending /\ Pending \subseteq DOMAIN received
    BY <1>1, PageOf DEF Pending
  <1>5. \A i \in DOMAIN received : received[i].at \in Nat
    BY <1>1, RowAt
  <1>6. /\ IsFiniteSet(skipped) /\ Cardinality(skipped) \in Nat
        /\ IsFiniteSet(rows) /\ Cardinality(rows) \in Nat
    BY <1>1, <1>4, RowsFinite
  <1>7. ASSUME NEW i \in rows PROVE Cardinality(EarlierPending(i)) <= (n + 1) * ChunkSize
    <2>1. EarlierPending(i) \subseteq skipped \union rows
      <3> SUFFICES ASSUME NEW j \in Pending, received[j].at < received[i].at,
                          j \notin skipped \union rows
                   PROVE  FALSE
        BY DEF EarlierPending
      <3>1. received[i].at <= received[j].at
        BY <1>3 DEF Ordered
      <3> QED
        BY <1>4, <1>5, <3>1
    <2>2. skipped \intersect rows = {}
      OBVIOUS
    <2>3. /\ IsFiniteSet(skipped \union rows)
          /\ Cardinality(skipped \union rows) = Cardinality(skipped) + Cardinality(rows)
      BY <1>6, <2>2, DisjointUnion
    <2>4. /\ Cardinality(EarlierPending(i)) <= Cardinality(skipped \union rows)
          /\ Cardinality(EarlierPending(i)) \in Nat
      BY <2>1, <2>3, FS_Subset, FS_CardinalityType
    <2> QED
      BY <1>1, <1>2, <1>3, <1>6, <2>3, <2>4
  <1>8. ASSUME NEW i \in job.done, NEW j \in rows PROVE received[i].at <= received[j].at
    <2> SUFFICES ASSUME ~(received[i].at <= received[j].at) PROVE FALSE
      OBVIOUS
    <2>1. i \in DOMAIN received /\ j \in DOMAIN received /\ received[j].at < received[i].at
      BY <1>4, <1>5 DEF Inv, RowsReceived
    <2>2. skipped \union {j} \subseteq EarlierPending(i)
      <3>1. \A k \in skipped : received[k].at <= received[j].at
        BY <1>3 DEF Ordered
      <3>2. \A k \in skipped : received[k].at < received[i].at
        BY <1>4, <1>5, <2>1, <3>1
      <3> QED
        BY <1>4, <2>1, <3>2 DEF EarlierPending
    <2>3. Cardinality(skipped \union {j}) = Cardinality(skipped) + 1
      BY <1>6, FS_AddElement
    <2>4. IsFiniteSet(EarlierPending(i)) /\ Cardinality(EarlierPending(i)) \in Nat
      BY <1>1, RowsFinite DEF EarlierPending, Pending
    <2>5. Cardinality(skipped \union {j}) <= Cardinality(EarlierPending(i))
      BY <2>2, <2>4, FS_Subset
    <2>6. Cardinality(EarlierPending(i)) <= n * ChunkSize
      BY DEF Inv, PagesBehind, Running
    <2> QED
      BY <1>2, <1>3, <1>6, <2>3, <2>4, <2>5, <2>6
  <1> QED
    BY <1>4, <1>7, <1>8 DEF Ordered

(* What the reader's flush writes has its type. *)
LEMMA FlushedType == ASSUME Inv, job.state = "reading" PROVE Flushed \in [Deliveries -> Statuses]
  BY DEF Flushed, Inv, TypeOK, Execution

LEMMA ReadPageInv == ASSUME Inv, ReadPage PROVE Inv'
  <1>1. job.state = "reading" /\ status' = Flushed /\ UNCHANGED received
    BY DEF ReadPage
  <1>0. PICK rows \in Pages(job.page) : \E brings \in Brought(rows, status') :
            job' = [job EXCEPT !.state = IF rows = {} THEN "COMPLETED" ELSE "writing",
                               !.page = @ + 1, !.rows = rows,
                               !.loaded = status', !.brings = brings]
    BY DEF ReadPage
  <1>2. PICK brings \in Brought(rows, status') :
            job' = [job EXCEPT !.state = IF rows = {} THEN "COMPLETED" ELSE "writing",
                               !.page = @ + 1, !.rows = rows,
                               !.loaded = status', !.brings = brings]
    BY <1>0
  <1>3. /\ rows \subseteq Pending /\ rows \subseteq DOMAIN received
        /\ \A i \in rows : Cardinality(EarlierPending(i)) <= (job.page + 1) * ChunkSize
        /\ Ordered(job.done, rows)
    BY <1>1, NextPage
  <1>4. /\ job \in Execution /\ received \in Seq(Row) /\ DOMAIN received \subseteq Nat
        /\ status' \in [Deliveries -> Statuses] /\ brings \in [Deliveries -> Statuses]
    BY <1>1, FlushedType DEF Inv, TypeOK, Brought
  <1>5. PICK state \in {"COMPLETED", "writing"} :
            job' = [job EXCEPT !.state = state, !.page = @ + 1, !.rows = rows,
                               !.loaded = status', !.brings = brings]
    BY <1>2
  <1>6. /\ job' \in Execution /\ job'.state = state /\ job'.page = job.page + 1
        /\ job'.rows = rows /\ job'.done = job.done
        /\ job'.loaded = status' /\ job'.brings = brings
    <2>1. rows \in SUBSET Nat /\ job.page + 1 \in Nat
      BY <1>3, <1>4 DEF Execution
    <2>2. state \in {"none", "reading", "writing", "COMPLETED", "FAILED"}
      OBVIOUS
    <2>3. job' = [state |-> state, page |-> job.page + 1, rows |-> rows, loaded |-> status',
                  brings |-> brings, done |-> job.done, found |-> job.found]
      BY <1>4, <1>5 DEF Execution
    <2>4. job.done \in SUBSET Nat /\ job.found \in SUBSET Nat
      BY <1>4 DEF Execution
    <2> QED
      BY <1>4, <2>1, <2>2, <2>3, <2>4 DEF Execution
  <1>7. TypeOK'
    BY <1>1, <1>4, <1>6 DEF TypeOK
  <1>8. RowsReceived'
    BY <1>1, <1>3, <1>6 DEF Inv, RowsReceived
  <1>9. PagesBehind'
    <2> SUFFICES ASSUME NEW i \in job.done \union rows
                 PROVE  Cardinality(EarlierPending(i)) <= (job.page + 1) * ChunkSize
      BY <1>1, <1>6 DEF PagesBehind, EarlierPending, Pending
    <2>1. CASE i \in rows
      BY <1>3, <2>1
    <2>2. CASE i \in job.done
      <3>1. Cardinality(EarlierPending(i)) <= job.page * ChunkSize
        BY <1>1, <2>2 DEF Inv, PagesBehind, Running
      <3>2. /\ job.page \in Nat /\ ChunkSize \in Nat
            /\ (job.page + 1) * ChunkSize = job.page * ChunkSize + ChunkSize
            /\ job.page * ChunkSize \in Nat
        BY <1>4, JobAssumption DEF Execution
      <3>3. Cardinality(EarlierPending(i)) \in Nat
        BY <1>4, RowsFinite DEF EarlierPending, Pending
      <3> QED
        BY <3>1, <3>2, <3>3
    <2> QED
      BY <2>1, <2>2
  <1>10. DoneApplied' /\ PageWritten' /\ PageToWrite'
    BY <1>1, <1>3, <1>6 DEF Inv, DoneApplied, PageWritten, PageToWrite, Running, Pending
  <1>11. PageLast'
    BY <1>1, <1>3, <1>6 DEF PageLast, Ordered
  <1>12. PageBrought'
    BY <1>1, <1>6 DEF PageBrought, Brought, Of, LastOf
  <1> QED
    BY <1>7, <1>8, <1>9, <1>10, <1>11, <1>12 DEF Inv

LEMMA WriteChunkRows ==
    ASSUME Inv, WriteChunk
    PROVE  /\ RowsKept /\ DOMAIN received' = DOMAIN received
           /\ \A i \in DOMAIN received : received'[i].applied <=> received[i].applied \/ i \in job.rows
           /\ job'.state = IF Cardinality(job.rows) = ChunkSize THEN "reading" ELSE "COMPLETED"
           /\ job'.page = job.page /\ job'.rows = job.rows /\ job'.done = job.done \union job.rows
           /\ job'.loaded = job.loaded /\ job'.brings = job.brings /\ job'.found = job.found
           /\ job' \in Execution
  <1>1. /\ received' = [i \in DOMAIN received |->
                           [received[i] EXCEPT !.applied = @ \/ i \in job.rows]]
        /\ job' = [job EXCEPT !.state = IF Cardinality(job.rows) = ChunkSize
                                           THEN "reading" ELSE "COMPLETED",
                              !.done = @ \union job.rows]
    BY DEF WriteChunk
  <1>2. /\ job \in Execution /\ received \in Seq(Row) /\ Len(received) \in Nat
        /\ DOMAIN received = 1..Len(received) /\ \A i \in DOMAIN received : received[i] \in Row
    BY DEF Inv, TypeOK
  <1>3. /\ received' \in [1..Len(received) -> Row]
        /\ \A i \in DOMAIN received : /\ received'[i].applied <=> received[i].applied \/ i \in job.rows
                                      /\ received'[i].delivery = received[i].delivery
                                      /\ received'[i].status = received[i].status
                                      /\ received'[i].at = received[i].at
    BY <1>1, <1>2 DEF Row
  <1>4. received' \in Seq(Row)
    BY <1>2, <1>3, SeqDef
  <1>5. DOMAIN received' = DOMAIN received
    BY <1>2, <1>3
  <1>6. RowsKept
    BY <1>3, <1>4, <1>5 DEF RowsKept
  <1>7. /\ job'.state = IF Cardinality(job.rows) = ChunkSize THEN "reading" ELSE "COMPLETED"
        /\ job'.page = job.page /\ job'.rows = job.rows /\ job'.done = job.done \union job.rows
        /\ job'.loaded = job.loaded /\ job'.brings = job.brings /\ job'.found = job.found
        /\ job' \in Execution
    BY <1>1, <1>2 DEF Execution
  <1> QED
    BY <1>3, <1>5, <1>6, <1>7

LEMMA WriteChunkInv == ASSUME Inv, WriteChunk PROVE Inv'
  <1>0. received \in Seq(Row) /\ job.state = "writing" /\ job.rows \subseteq DOMAIN received
        /\ job.done \subseteq DOMAIN received /\ job.rows \subseteq Pending
    BY DEF Inv, TypeOK, WriteChunk, RowsReceived, PageToWrite
  <1>1. /\ RowsKept /\ DOMAIN received' = DOMAIN received
        /\ \A i \in DOMAIN received : received'[i].applied <=> received[i].applied \/ i \in job.rows
        /\ job'.state \in {"reading", "COMPLETED"}
        /\ job'.page = job.page /\ job'.rows = job.rows /\ job'.done = job.done \union job.rows
        /\ job'.loaded = job.loaded /\ job'.brings = job.brings /\ job' \in Execution
    BY WriteChunkRows
  <1>2. TypeOK'
    <2>1. status' \in [Deliveries -> Statuses]
      BY DEF WriteChunk, Inv, TypeOK, Execution
    <2> QED
      BY <1>1, <2>1 DEF TypeOK, RowsKept
  <1>3. RowsReceived'
    BY <1>0, <1>1 DEF RowsReceived
  <1>4. PagesBehind'
    <2> SUFFICES ASSUME NEW i \in job.done \union job.rows
                 PROVE  Cardinality(EarlierPending(i))' <= job.page * ChunkSize
      BY <1>1 DEF PagesBehind
    <2>1. Cardinality(EarlierPending(i)) <= job.page * ChunkSize
      BY <1>0 DEF Inv, PagesBehind, Running
    <2>2. i \in DOMAIN received /\ job.page * ChunkSize \in Nat
      BY <1>0, JobAssumption DEF Inv, TypeOK, Execution
    <2> QED
      BY <1>0, <1>1, <2>1, <2>2, FewerEarlier
  <1>5. DoneApplied'
    BY <1>0, <1>1 DEF Inv, DoneApplied, Running
  <1>6. PageWritten' /\ PageToWrite'
    BY <1>1 DEF PageWritten, PageToWrite
  <1>7. PageLast'
    <2>1. Ordered(job.done \ job.rows, job.rows)
      BY <1>0 DEF Inv, PageLast, Running
    <2>2. Ordered(job.done \ job.rows, job.rows)'
      BY <1>0, <1>1, <2>1, OrderKept
    <2>3. job'.done \ job'.rows = job.done \ job.rows
      BY <1>1
    <2> QED
      BY <1>1, <2>2, <2>3 DEF PageLast, Ordered
  <1>8. PageBrought'
    <2>1. job.brings \in Brought(job.rows, job.loaded)'
      BY <1>0, <1>1, BroughtKept DEF Inv, PageBrought, Running
    <2> QED
      BY <1>1, <2>1 DEF PageBrought, Brought, Of, LastOf
  <1> QED
    BY <1>2, <1>3, <1>4, <1>5, <1>6, <1>7, <1>8 DEF Inv

LEMMA NextInv == ASSUME Inv, [Next]_vars PROVE Inv'
  <1>1. CASE Next
    BY <1>1, ReceiveInv, ModifyStatusInv, RunDeliveryJobInv, ReadPageInv, WriteChunkInv, FailInv
    DEF Next
  <1>2. CASE UNCHANGED vars
    <2>1. UNCHANGED <<received, status, job>>
      BY <1>2 DEF vars
    <2>2. TypeOK' /\ RowsKept /\ Pending' = Pending
      BY <2>1 DEF Inv, TypeOK, RowsKept, Pending
    <2> QED
      BY <2>1, <2>2, RowsInv DEF Inv, PageToWrite
  <1> QED
    BY <1>1, <1>2

LEMMA Invariance == Spec => []Inv
  <1>1. Inv /\ [Next]_vars => Inv'
    BY NextInv
  <1> QED
    BY InitInv, <1>1, PTL DEF Spec

-----------------------------------------------------------------------------
(* The rows, the statuses and the execution of deliveryStatusJob keep      *)
(* their types.                                                            *)
THEOREM TypeOKHolds == Spec => []TypeOK
  <1>1. Inv => TypeOK
    BY DEF Inv
  <1> QED
    BY <1>1, Invariance, PTL

(* What a page brings a delivery is among the latest of what the execution *)
(* has applied.                                                            *)
LEMMA BroughtIsLatest ==
    ASSUME received \in Seq(Row), NEW all \in SUBSET DOMAIN received, NEW part \in SUBSET all,
           Ordered(all \ part, part), NEW loaded, NEW brings \in Brought(part, loaded),
           NEW d \in Deliveries, d \in Of(part)
    PROVE  brings[d] \in Feed!Latest(all, d)
  <1>1. PICK i \in LastOf(part, d) : brings[d] = received[i].status
    BY DEF Brought
  <1>2. i \in all /\ received[i].delivery = d
    BY <1>1 DEF LastOf
  <1>3. ASSUME NEW k \in all, received[k].delivery = d PROVE received[k].at <= received[i].at
    <2>1. CASE k \in part
      BY <1>1, <1>3, <2>1 DEF LastOf
    <2>2. CASE k \notin part
      BY <1>1, <2>2 DEF Ordered, LastOf
    <2> QED
      BY <2>1, <2>2
  <1> QED
    BY <1>1, <1>2, <1>3 DEF Feed!Latest

(* An execution of deliveryStatusJob is an in-order pass over the rows     *)
(* that were received, whatever order the query gives rows of one second:  *)
(* pages that shift under the reader make it skip rows, never go back.     *)
THEOREM FeedImplemented == Spec => ImplementsFeed
  <1>1. Init => Feed!Init
    BY DEF Init, Feed!Init
  <1>2. ASSUME Inv, [Next]_vars
        PROVE  [Feed!Next]_(Feed!vars)
    <2> USE DEF Feed!Next
    <2>1. CASE \E d \in Deliveries, s \in Codes, t \in Seconds : Receive(d, s, t)
      BY <2>1 DEF Receive, Feed!Receive
    <2>2. CASE \E d \in Deliveries, s \in Others : ModifyStatus(d, s)
      BY <2>2 DEF ModifyStatus, Feed!Save
    <2>3. CASE RunDeliveryJob
      BY <2>3 DEF RunDeliveryJob, Feed!StartPass
    <2>4. CASE ReadPage
      <3> DEFINE ds == {d \in Deliveries : job.brings[d] # job.loaded[d]}
      <3>1. /\ received \in Seq(Row) /\ job.done \subseteq DOMAIN received
            /\ job.rows \subseteq job.done /\ Ordered(job.done \ job.rows, job.rows)
            /\ job.brings \in Brought(job.rows, job.loaded)
        BY <1>2, <2>4 DEF ReadPage, Inv, TypeOK, PageWritten, PageLast, PageBrought,
                          RowsReceived, Running
      <3>2. \A d \in ds : d \in Of(job.rows)
        BY <3>1 DEF Brought
      <3>3. \A d \in ds : job.brings[d] \in Feed!Latest(job.done, d)
        BY <3>1, <3>2, BroughtIsLatest
      <3>4. ds \in SUBSET Feed!Of(job.done)
        BY <3>1, <3>2 DEF Of, Feed!Of
      <3>5. UNCHANGED <<received, job.done>>
        BY <1>2, <2>4 DEF ReadPage, Inv, TypeOK, Execution
      <3>6. status' = Flushed
        BY <2>4 DEF ReadPage
      <3>7. Feed!Bring(ds, job.done)
        BY <3>3, <3>6 DEF Flushed, Feed!Bring
      <3> QED
        BY <3>4, <3>5, <3>7 DEF Feed!ApplyAgain
    <2>5. CASE WriteChunk
      <3>1. /\ received \in Seq(Row) /\ job.rows \subseteq DOMAIN received
            /\ job.rows \in SUBSET Feed!Pending /\ Ordered(job.done \ job.rows, job.rows)
            /\ job.done \intersect job.rows = {}
            /\ job.brings \in Brought(job.rows, job.loaded)
        BY <1>2, <2>5 DEF WriteChunk, Inv, TypeOK, RowsReceived, PageToWrite, PageLast,
                          PageBrought, DoneApplied, Running, Pending, Feed!Pending
      <3>2. job'.done = job.done \union job.rows
        BY <1>2, <2>5 DEF WriteChunk, Inv, TypeOK, Execution
      <3>3. \A i \in job.done, j \in job.rows : received[i].at <= received[j].at
        BY <3>1 DEF Ordered
      <3>4. Ordered(job.rows \ job.rows, job.rows)
        BY DEF Ordered
      <3>5. \A d \in Deliveries : d \in Of(job.rows) => job.brings[d] \in Feed!Latest(job.rows, d)
        BY <3>1, <3>4, BroughtIsLatest
      <3>6. status' = [d \in Deliveries |-> IF d \in Of(job.rows) THEN job.brings[d]
                                                                  ELSE status[d]]
        BY <2>5 DEF WriteChunk
      <3>7. Feed!Of(job.rows) = Of(job.rows) /\ Of(job.rows) \subseteq Deliveries
        BY <3>1, RowAt DEF Of, Feed!Of
      <3>8. Feed!Bring(Feed!Of(job.rows), job.rows)
        BY <3>5, <3>6, <3>7 DEF Feed!Bring
      <3>9. received' = [i \in DOMAIN received |->
                            [received[i] EXCEPT !.applied = @ \/ i \in job.rows]]
        BY <2>5 DEF WriteChunk
      <3>10. Feed!Apply(job.rows)
        BY <3>2, <3>3, <3>8, <3>9 DEF Feed!Apply
      <3> QED
        BY <3>1, <3>10
    <2>6. CASE Fail
      BY <1>2, <2>6 DEF Fail, Inv, TypeOK, Execution, Feed!vars
    <2>7. CASE UNCHANGED vars
      BY <2>7 DEF vars, Feed!vars
    <2> QED
      BY <1>2, <2>1, <2>2, <2>3, <2>4, <2>5, <2>6, <2>7 DEF Next
  <1>3. Inv /\ [Next]_vars => [Feed!Next]_(Feed!vars)
    BY <1>2
  <1> QED
    BY <1>1, <1>3, Invariance, PTL DEF Spec, ImplementsFeed, Feed!Spec

-----------------------------------------------------------------------------
(***************************************************************************)
(* How much a completed execution leaves: every page but the last is full  *)
(* and skips as many rows as the pages before it have applied.             *)
(***************************************************************************)

Left == job.found \intersect Pending

Counted ==
    /\ job.found \subseteq DOMAIN received
    /\ job.state = "reading" => Cardinality(job.done) = job.page * ChunkSize
    /\ job.state = "writing" =>
        /\ job.page \in Nat \ {0}
        /\ Cardinality(job.done) = (job.page - 1) * ChunkSize
        /\ Cardinality(job.rows) # ChunkSize =>
               Cardinality(Left \ job.rows) <= (job.page - 1) * ChunkSize
    /\ LeavesNoMoreThanApplied

LEMMA ReceiveCounted ==
    ASSUME Inv, Counted, NEW d \in Deliveries, NEW s \in Codes, NEW t \in Seconds,
           Receive(d, s, t)
    PROVE  Counted'
  <1>1. /\ UNCHANGED job /\ DOMAIN received \subseteq DOMAIN received'
        /\ Len(received) + 1 \notin DOMAIN received
        /\ DOMAIN received' = DOMAIN received \union {Len(received) + 1}
    BY ReceiveKeeps DEF RowsKept
  <1>2. \A i \in DOMAIN received : received'[i] = received[i]
    BY DEF Receive, Inv, TypeOK
  <1>3. Left' = Left
    BY <1>1, <1>2 DEF Left, Pending, Counted
  <1> QED
    BY <1>1, <1>3 DEF Counted, LeavesNoMoreThanApplied, Left

LEMMA RunDeliveryJobCounted == ASSUME Inv, Counted, RunDeliveryJob PROVE Counted'
  <1>1. /\ job' = [state |-> "reading", page |-> 0, rows |-> {}, loaded |-> status,
                   brings |-> status, done |-> {}, found |-> Pending]
        /\ UNCHANGED received
    BY DEF RunDeliveryJob
  <1>2. Cardinality({}) = 0 /\ 0 * ChunkSize = 0
    BY FS_EmptySet, JobAssumption
  <1> QED
    BY <1>1, <1>2 DEF Counted, LeavesNoMoreThanApplied, Pending

LEMMA ReadPageCounted == ASSUME Inv, Counted, ReadPage PROVE Counted'
  <1>1. job.state = "reading" /\ UNCHANGED received /\ received \in Seq(Row)
        /\ job \in Execution
    BY DEF ReadPage, Inv, TypeOK
  <1>0. PICK rows \in Pages(job.page) : \E brings \in Brought(rows, status') :
            job' = [job EXCEPT !.state = IF rows = {} THEN "COMPLETED" ELSE "writing",
                               !.page = @ + 1, !.rows = rows,
                               !.loaded = status', !.brings = brings]
    BY DEF ReadPage
  <1>2. PICK brings \in Brought(rows, status') :
            job' = [job EXCEPT !.state = IF rows = {} THEN "COMPLETED" ELSE "writing",
                               !.page = @ + 1, !.rows = rows,
                               !.loaded = status', !.brings = brings]
    BY <1>0
  <1>3. /\ job'.state = (IF rows = {} THEN "COMPLETED" ELSE "writing")
        /\ job'.page = job.page + 1 /\ job'.rows = rows
        /\ job'.done = job.done /\ job'.found = job.found
    BY <1>1, <1>2 DEF Execution
  <1> PICK skipped \in SUBSET (Pending \ rows) : Skips(skipped, rows, job.page)
    BY <1>1, PageOf DEF Execution
  <1>4. /\ Cardinality(skipped) <= job.page * ChunkSize
        /\ Cardinality(rows) <= ChunkSize
        /\ Cardinality(rows) < ChunkSize => skipped \union rows = Pending
    BY DEF Skips
  <1>5. rows \subseteq Pending /\ Pending \subseteq DOMAIN received
    BY <1>1, PageOf DEF Pending, Execution
  <1>6. /\ Cardinality(rows) \in Nat /\ Cardinality(skipped) \in Nat /\ IsFiniteSet(skipped)
        /\ ChunkSize \in Nat \ {0} /\ job.page \in Nat /\ job.page * ChunkSize \in Nat
    BY <1>1, <1>5, RowsFinite, JobAssumption DEF Execution
  <1>7. Cardinality(job.done) = job.page * ChunkSize
    BY <1>1 DEF Counted
  <1>8. Pending' = Pending /\ Left' = Left
    BY <1>1, <1>3 DEF Pending, Left
  <1>9. ASSUME Cardinality(rows) # ChunkSize
        PROVE  Cardinality(Left \ rows) <= job.page * ChunkSize
    <2>1. skipped \union rows = Pending
      BY <1>4, <1>6, <1>9
    <2>2. Left \ rows \subseteq skipped
      BY <2>1 DEF Left
    <2>3. /\ Cardinality(Left \ rows) <= Cardinality(skipped)
          /\ Cardinality(Left \ rows) \in Nat
      BY <1>6, <2>2, FS_Subset, FS_CardinalityType
    <2> QED
      BY <1>4, <1>6, <2>3
  <1>10. CASE rows = {}
    <2>1. Cardinality(rows) = 0 /\ Left \ rows = Left
      BY <1>10, FS_EmptySet
    <2>2. Cardinality(Left) <= Cardinality(job.done)
      BY <1>6, <1>7, <1>9, <2>1
    <2> QED
      BY <1>1, <1>3, <1>8, <1>10, <2>2 DEF Counted, LeavesNoMoreThanApplied, Left
  <1>11. CASE rows # {}
    <2>1. job'.page \in Nat \ {0} /\ job'.page - 1 = job.page
      BY <1>3, <1>6
    <2>2. /\ Cardinality(job'.done) = (job'.page - 1) * ChunkSize
          /\ Cardinality(job'.rows) # ChunkSize =>
                 Cardinality(Left' \ job'.rows) <= (job'.page - 1) * ChunkSize
      BY <1>3, <1>7, <1>8, <1>9, <2>1
    <2>3. job'.state = "writing" /\ job'.found \subseteq DOMAIN received'
      BY <1>1, <1>3, <1>11 DEF Counted
    <2> QED
      BY <2>1, <2>2, <2>3 DEF Counted, LeavesNoMoreThanApplied
  <1> QED
    BY <1>10, <1>11

LEMMA WriteChunkCounted == ASSUME Inv, Counted, WriteChunk PROVE Counted'
  <1>1. /\ received \in Seq(Row) /\ job.state = "writing" /\ job.rows \subseteq Pending
        /\ job.rows \subseteq DOMAIN received /\ job.done \subseteq DOMAIN received
        /\ job.done \intersect job.rows = {}
    BY DEF Inv, TypeOK, WriteChunk, RowsReceived, PageToWrite, DoneApplied, Running, Pending
  <1>2. /\ DOMAIN received' = DOMAIN received
        /\ \A i \in DOMAIN received : received'[i].applied <=> received[i].applied \/ i \in job.rows
        /\ job'.state = IF Cardinality(job.rows) = ChunkSize THEN "reading" ELSE "COMPLETED"
        /\ job'.page = job.page /\ job'.done = job.done \union job.rows
        /\ job'.found = job.found
    BY WriteChunkRows
  <1>3. /\ IsFiniteSet(job.done) /\ Cardinality(job.done) \in Nat
        /\ IsFiniteSet(job.rows) /\ Cardinality(job.rows) \in Nat
    BY <1>1, RowsFinite
  <1>4. Cardinality(job'.done) = Cardinality(job.done) + Cardinality(job.rows)
    <2>1. Cardinality(job.done \union job.rows) = Cardinality(job.done) + Cardinality(job.rows)
      BY <1>1, <1>3, DisjointUnion
    <2> QED
      BY <1>2, <2>1
  <1>5. /\ job.page \in Nat \ {0} /\ Cardinality(job.done) = (job.page - 1) * ChunkSize
        /\ Cardinality(job.rows) # ChunkSize =>
               Cardinality(Left \ job.rows) <= (job.page - 1) * ChunkSize
        /\ job.found \subseteq DOMAIN received
    BY <1>1 DEF Counted
  <1>6. Left' = Left \ job.rows
    BY <1>2, <1>5 DEF Left, Pending
  <1>7. CASE Cardinality(job.rows) = ChunkSize
    <2>1. \A p \in Nat \ {0}, c \in Nat : (p - 1) * c + c = p * c
      OBVIOUS
    <2>2. Cardinality(job'.done) = job'.page * ChunkSize
      BY <1>2, <1>3, <1>4, <1>5, <1>7, <2>1
    <2>3. job'.state = "reading"
      BY <1>2, <1>7
    <2> QED
      BY <1>2, <1>5, <2>2, <2>3 DEF Counted, LeavesNoMoreThanApplied
  <1>8. CASE Cardinality(job.rows) # ChunkSize
    <2>1. /\ Left \ job.rows \subseteq DOMAIN received
          /\ Cardinality(Left \ job.rows) \in Nat
      BY <1>1, RowsFinite DEF Left, Pending
    <2>2. Cardinality(Left') <= Cardinality(job'.done)
      BY <1>3, <1>4, <1>5, <1>6, <1>8, <2>1
    <2>3. job'.state = "COMPLETED"
      BY <1>2, <1>8
    <2> QED
      BY <1>2, <1>5, <2>2, <2>3 DEF Counted, LeavesNoMoreThanApplied, Left
  <1> QED
    BY <1>7, <1>8

LEMMA NextCounted == ASSUME Inv, Counted, [Next]_vars PROVE Counted'
  <1>1. ASSUME UNCHANGED <<received, job>> PROVE Counted'
    BY <1>1 DEF Counted, LeavesNoMoreThanApplied, Left, Pending
  <1>2. ASSUME Fail PROVE Counted'
    <2>1. /\ job'.state = "FAILED" /\ job'.found = job.found /\ UNCHANGED received
      BY <1>2 DEF Fail, Inv, TypeOK, Execution
    <2> QED
      BY <2>1 DEF Counted, LeavesNoMoreThanApplied
  <1>3. ASSUME NEW d \in Deliveries, NEW s \in Others, ModifyStatus(d, s) PROVE Counted'
    BY <1>1, <1>3 DEF ModifyStatus
  <1>4. CASE UNCHANGED vars
    BY <1>1, <1>4 DEF vars
  <1> QED
    BY <1>2, <1>3, <1>4, ReceiveCounted, RunDeliveryJobCounted, ReadPageCounted,
       WriteChunkCounted DEF Next

(* A completed execution leaves no more of the rows it found than it has   *)
(* applied, for any chunk size: the rows its pages skip are as many as     *)
(* those its chunks took out of the query (deliveryStatusReader).          *)
THEOREM LeavesNoMoreThanAppliedHolds == Spec => []LeavesNoMoreThanApplied
  <1>1. Init => Counted
    BY DEF Init, Counted, LeavesNoMoreThanApplied
  <1>2. Inv /\ Counted /\ [Next]_vars => Counted'
    BY NextCounted
  <1>3. Counted => LeavesNoMoreThanApplied
    BY DEF Counted
  <1> QED
    BY <1>1, <1>2, <1>3, Invariance, PTL DEF Spec
=============================================================================
