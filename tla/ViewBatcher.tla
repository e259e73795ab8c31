---------------------------- MODULE ViewBatcher ----------------------------
(* services/catalog: a view of a card, counted in Redis and then published as *)
(* analytics.photo.viewed in batches. Redis and the broker are external.      *)
EXTENDS Integers, Sequences, SequencesExt, FiniteSets

CONSTANTS
    Views,      \* the calls of GetListing
    Capacity,   \* bufferCapacity
    FlushSize,
    MaxFaults   \* bound: calls of Redis and of the broker that fail

BatcherAssumption ==
    /\ {Capacity, FlushSize} \subseteq Nat \ {0}
    /\ MaxFaults \in Nat

VARIABLES
    view,   \* what has become of each view
    late,   \* the views that were put in the buffer after Close had begun
    buf,    \* the channel
    batch,
    run,    \* where the goroutine is
    done,   \* close(b.done)
    topic,  \* the events in the topic
    faults
vars == <<view, late, buf, batch, run, done, topic, faults>>

TypeOK ==
    /\ view \in [Views -> {"new", "counted", "not counted", "full", "taken", "failed"}]
    /\ late \subseteq Views
    /\ buf \in Seq(Views) /\ Len(buf) <= Capacity
    /\ batch \in Seq(Views)
    /\ run \in {"select", "flush", "drain", "last flush", "returned"}
    /\ done \in BOOLEAN
    /\ topic \in Seq(Views)
    /\ faults \in 0..MaxFaults

Init ==
    /\ view = [v \in Views |-> "new"]
    /\ late = {}
    /\ buf = <<>> /\ batch = <<>> /\ topic = <<>>
    /\ run = "select"
    /\ done = FALSE
    /\ faults = 0

Fault == faults < MaxFaults /\ faults' = faults + 1

\* recordView: what Redis did not count, or not confirm, is not published either.
IncrView(v) ==
    /\ view[v] = "new"
    /\ \/ view' = [view EXCEPT ![v] = "counted"] /\ UNCHANGED faults
       \/ view' = [view EXCEPT ![v] = "not counted"] /\ Fault
    /\ UNCHANGED <<late, buf, batch, run, done, topic>>

\* A full buffer loses the view. A handler may outlive the shutdown of its server.
Enqueue(v) ==
    /\ view[v] = "counted"
    /\ IF Len(buf) < Capacity
       THEN /\ view' = [view EXCEPT ![v] = "taken"]
            /\ buf' = Append(buf, v)
            /\ late' = IF done THEN late \cup {v} ELSE late
       ELSE view' = [view EXCEPT ![v] = "full"] /\ UNCHANGED <<buf, late>>
    /\ UNCHANGED <<batch, run, done, topic, faults>>

\* case event := <-b.buf, while the goroutine selects and while it drains.
Take ==
    /\ run \in {"select", "drain"} /\ buf # <<>>
    /\ batch' = Append(batch, Head(buf)) /\ buf' = Tail(buf)
    /\ run' = IF run = "select" /\ Len(batch') >= FlushSize THEN "flush" ELSE run
    /\ UNCHANGED <<view, late, done, topic, faults>>
Tick ==
    /\ run = "select" /\ batch # <<>>
    /\ run' = "flush"
    /\ UNCHANGED <<view, late, buf, batch, done, topic, faults>>
Done ==
    /\ run = "select" /\ done
    /\ run' = "drain"
    /\ UNCHANGED <<view, late, buf, batch, done, topic, faults>>
Drained ==
    /\ run = "drain" /\ buf = <<>>
    /\ run' = IF batch = <<>> THEN "returned" ELSE "last flush"
    /\ UNCHANGED <<view, late, buf, batch, done, topic, faults>>

\* flush, one event at a time. One that fails is lost, or is in the topic unknown
\* to us, and the next one is tried.
Publish ==
    /\ run \in {"flush", "last flush"}
    /\ \/ topic' = Append(topic, Head(batch)) /\ UNCHANGED <<view, faults>>
       \/ /\ topic' \in {topic, Append(topic, Head(batch))}
          /\ view' = [view EXCEPT ![Head(batch)] = "failed"]
          /\ Fault
    /\ batch' = Tail(batch)
    /\ run' = IF Len(batch) > 1 THEN run ELSE IF run = "flush" THEN "select" ELSE "returned"
    /\ UNCHANGED <<late, buf, done>>

Close ==
    /\ ~done /\ done' = TRUE
    /\ UNCHANGED <<view, late, buf, batch, run, topic, faults>>

Goroutine == Take \/ Tick \/ Done \/ Drained \/ Publish
Next == Goroutine \/ Close \/ \E v \in Views : IncrView(v) \/ Enqueue(v)
Spec == Init /\ [][Next]_vars
FairSpec == Spec /\ WF_vars(Goroutine)

-----------------------------------------------------------------------------
\* A view is in the topic at most once, and only if Redis has counted it: the
\* reused slice of a batch repeats nothing (view_batcher.go:187-206).
PublishedOnce ==
    /\ IsInjective(topic)
    /\ \A v \in ToSet(topic) : view[v] \in {"taken", "failed"}

\* When Close returns, every view taken before it began is in the topic, or its own
\* publication failed: neither the buffer nor half a batch is left behind.
CloseFlushes ==
    run = "returned" =>
        \A v \in Views : view[v] = "taken" => v \in ToSet(topic) \cup late

\* Close returns.
CloseReturns == done ~> run = "returned"
=============================================================================
