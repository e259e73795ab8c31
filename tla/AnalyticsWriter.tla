-------------------------- MODULE AnalyticsWriter --------------------------
(* services/analytics: the handler of a Kafka event, Ingest and the batching  *)
(* Writer of one ClickHouse table. A delivery is a call of Add; the consumer  *)
(* delivers an event again until one of its calls returned nil, and after a   *)
(* fault also later, or at the same time. ClickHouse and the runtime's timers *)
(* are external.                                                              *)
EXTENDS Integers, FiniteSets, FiniteSetsExt

CONSTANTS
    Events,
    Broken,     \* the events without a photo's or an order's id
    Calls,      \* the deliveries
    NoCaller,   \* who runs the flush of a timer
    MaxBatch,
    MaxFaults   \* bound: failed inserts, cancelled calls, crashes, and deliveries
                \* of an event that is handled or being handled

WriterAssumption ==
    /\ Broken \subseteq Events
    /\ NoCaller \notin Calls /\ IsFiniteSet(Calls)
    /\ MaxBatch \in Nat \ {0} /\ MaxFaults \in Nat

VARIABLES
    call,       \* call[c]: its event and its place in Add
    pending,    \* the rows of the batch that is being collected, as calls
    timer,      \* w.timer is armed
    fired,      \* timers that fired, whose flush has not begun yet
    inserting,  \* the batches a flush is inserting: its rows and who runs it
    rows,       \* how many rows of an event the table has
    faults
vars == <<call, pending, timer, fired, inserting, rows, faults>>

Ended == {"handled", "failed", "refused"}
TypeOK ==
    /\ call \in [Calls -> [event : Events, answer : {"none", "ok", "error"},
                           at : {"none", "full", "insert", "select"} \cup Ended]]
    /\ pending \subseteq Calls
    /\ timer \in BOOLEAN
    /\ fired \in 0..Cardinality(Calls)
    /\ inserting \subseteq [rows : SUBSET Calls, by : Calls \cup {NoCaller}]
    /\ rows \in [Events -> Nat]
    /\ faults \in 0..MaxFaults

Init ==
    /\ call \in [Calls -> [event : Events, answer : {"none"}, at : {"none"}]]
    /\ pending = {} /\ inserting = {}
    /\ timer = FALSE /\ fired = 0
    /\ rows = [e \in Events |-> 0]
    /\ faults = 0

Fault == faults < MaxFaults /\ faults' = faults + 1

\* A delivery follows failed ones. It repeats one that was handled, or is under
\* way in another consumer, when the commit was lost or the group has rebalanced.
UnderWay(e, c) ==
    \E d \in Calls \ {c} : call[d].event = e /\ call[d].at \notin {"none", "failed", "refused"}
Delivered(c) == IF UnderWay(call[c].event, c) THEN Fault ELSE UNCHANGED faults

\* Ingest refuses an event without an id; kafkax takes that for retryable. Add, up
\* to the unlock: the first row arms the timer.
Add(c) ==
    /\ call[c].at = "none" /\ Delivered(c)
    /\ IF call[c].event \in Broken
       THEN call' = [call EXCEPT ![c].at = "refused"] /\ UNCHANGED <<pending, timer>>
       ELSE /\ pending' = pending \cup {c}
            /\ timer' = (timer \/ Cardinality(pending') = 1)
            /\ call' = [call EXCEPT ![c].at =
                           IF Cardinality(pending') >= MaxBatch THEN "full" ELSE "select"]
    /\ UNCHANGED <<fired, inserting, rows>>

Fire ==
    /\ timer /\ timer' = FALSE
    /\ fired' = fired + 1
    /\ UNCHANGED <<call, pending, inserting, rows, faults>>

\* flush, up to the unlock: it takes what there is, and stops the timer of it.
Take(by) ==
    /\ timer' = FALSE
    /\ pending' = {}
    /\ inserting' = IF pending = {} THEN inserting
                    ELSE inserting \cup {[rows |-> pending, by |-> by]}
FlushFull(c) ==
    /\ call[c].at = "full"
    /\ Take(c)
    /\ call' = [call EXCEPT ![c].at = IF pending = {} THEN "select" ELSE "insert"]
    /\ UNCHANGED <<fired, rows, faults>>
FlushTimer ==
    /\ fired > 0 /\ fired' = fired - 1
    /\ Take(NoCaller)
    /\ UNCHANGED <<call, rows, faults>>

\* insert, under a context of its own, and then the answer for every row of the
\* batch; a failed insert may have stored it. Whoever ran flush goes on to select.
Insert(b) ==
    /\ inserting' = inserting \ {b}
    /\ \E answer \in {"ok", "error"}, stored \in BOOLEAN :
          /\ IF answer = "ok" THEN stored /\ UNCHANGED faults ELSE Fault
          /\ call' = [c \in Calls |->
                [call[c] EXCEPT !.answer = IF c \in b.rows THEN answer ELSE @,
                                !.at = IF c = b.by THEN "select" ELSE @]]
          /\ rows' = [e \in Events |-> rows[e] +
                IF stored THEN Cardinality({c \in b.rows : call[c].event = e}) ELSE 0]
    /\ UNCHANGED <<pending, timer, fired>>

\* select: the answer, or the end of the context (a consumer that stops).
Return(c) ==
    /\ call[c].at = "select" /\ call[c].answer # "none"
    /\ call' = [call EXCEPT ![c].at = IF call[c].answer = "ok" THEN "handled" ELSE "failed"]
    /\ UNCHANGED <<pending, timer, fired, inserting, rows, faults>>
Cancelled(c) ==
    /\ call[c].at = "select" /\ Fault
    /\ call' = [call EXCEPT ![c].at = "failed"]
    /\ UNCHANGED <<pending, timer, fired, inserting, rows>>

\* The process dies and starts again. ClickHouse may have taken the batches that
\* were on their way; an event whose offset was not committed yet comes again.
Crash ==
    /\ Fault
    /\ \E again \in SUBSET {c \in Calls : call[c].at = "handled"} :
          call' = [c \in Calls |->
                      IF call[c].at \in {"full", "insert", "select"} \/ c \in again
                      THEN [call[c] EXCEPT !.at = "failed"] ELSE call[c]]
    /\ \E kept \in SUBSET inserting :
          LET stored == UNION {b.rows : b \in kept} IN
          rows' = [e \in Events |-> rows[e] + Cardinality({c \in stored : call[c].event = e})]
    /\ pending' = {} /\ inserting' = {}
    /\ timer' = FALSE /\ fired' = 0

Flushing(c) == FlushFull(c) \/ Return(c)
Next ==
    \/ \E c \in Calls : Add(c) \/ Flushing(c) \/ Cancelled(c)
    \/ Fire \/ FlushTimer \/ Crash
    \/ \E b \in inserting : Insert(b)
Spec == Init /\ [][Next]_vars
FairSpec ==
    /\ Spec
    /\ WF_vars(Fire) /\ WF_vars(FlushTimer) /\ WF_vars(\E b \in inserting : Insert(b))
    /\ \A c \in Calls : WF_vars(Flushing(c))

-----------------------------------------------------------------------------
\* An event whose offset is committed has its row in the table (batch.go:33-45),
\* and every further row of it is owed to a fault: a cancelled wait, an insert that
\* failed, a crash, or a delivery of what was handled already (batch.go:41-50).
HandledIsStored ==
    \A e \in Events :
        /\ (\E c \in Calls : call[c].event = e /\ call[c].at = "handled") => rows[e] >= 1
        /\ rows[e] <= 1 + faults

\* A row that waits has somebody to flush it, however timers that fired late, full
\* batches and new rows cross: an armed timer, a fired one, or a full caller.
RowsAreFlushed ==
    pending # {} => timer \/ fired > 0 \/ \E c \in Calls : call[c].at = "full"

\* Every Add returns.
AddReturns == \A c \in Calls : call[c].at # "none" ~> call[c].at \in Ended
=============================================================================
