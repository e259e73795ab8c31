----------------------------- MODULE Reprocess -----------------------------
(* tools/kafka-reprocess: the records of a dead letter topic are published    *)
(* back to the topic they came from, while its consumer may refuse them       *)
(* again. Kafka is external; partitions are independent and one stands for    *)
(* all.                                                                       *)
EXTENDS Integers, Sequences, FiniteSets

CONSTANTS
    Backlog,    \* how many records the dead letter topic has at first
    Limits,     \* values of -limit
    MaxRefused, \* bound: records the consumer refuses again
    MaxRuns,    \* bound: runs of the tool
    MaxFaults   \* bound: publications and commits that fail, crashes

ReprocessAssumption == {Backlog, MaxRefused, MaxRuns, MaxFaults} \subseteq Nat /\ Limits \subseteq Nat

VARIABLES
    dlq,        \* the dead letter topic, of events
    committed,  \* the offset of the tool's group
    told,       \* told[e]: how often the topic was given event e
    unread,     \* events in the topic the consumer has not handled
    refused,    \* how many the consumer refused
    tool,       \* the run: its place, position, options, what it has moved
    faults
vars == <<dlq, committed, told, unread, refused, tool, faults>>

DeadEvents == 1..Backlog
Idle == [on |-> FALSE, dryRun |-> FALSE, limit |-> 0, position |-> 0, moved |-> 0,
         runs |-> 0]
TypeOK ==
    /\ dlq \in Seq(DeadEvents) /\ unread \in Seq(DeadEvents)
    /\ committed \in 0..Len(dlq)
    /\ told \in [DeadEvents -> Nat]
    /\ refused \in 0..MaxRefused /\ faults \in 0..MaxFaults
    /\ tool \in [on : BOOLEAN, dryRun : BOOLEAN, limit : Limits \cup {0}, position : 0..Len(dlq),
                 moved : 0..Len(dlq), runs : 0..MaxRuns]

Init ==
    /\ dlq = [i \in DeadEvents |-> i] /\ committed = 0
    /\ told = [e \in DeadEvents |-> 0] /\ unread = <<>> /\ refused = 0
    /\ tool = Idle
    /\ faults = 0

Fault == faults < MaxFaults /\ faults' = faults + 1

\* The consumer of the topic handles an event, or dead-letters it once more.
Consume ==
    /\ unread # <<>> /\ unread' = Tail(unread)
    /\ \/ UNCHANGED <<dlq, refused>>
       \/ /\ refused < MaxRefused /\ refused' = refused + 1
          /\ dlq' = Append(dlq, Head(unread))
    /\ UNCHANGED <<committed, told, tool, faults>>

\* The group goes on where the last run committed.
Start ==
    /\ ~tool.on /\ tool.runs < MaxRuns
    /\ \E limit \in Limits, dryRun \in BOOLEAN :
          tool' = [on |-> TRUE, dryRun |-> dryRun, limit |-> limit, position |-> committed,
                   moved |-> 0, runs |-> tool.runs + 1]
    /\ UNCHANGED <<dlq, committed, told, unread, refused, faults>>
Stop == tool' = [tool EXCEPT !.on = FALSE]

\* A record: published under its own key and value without the dead letter's headers,
\* then its offset committed. An error of the commit is only logged.
Full == tool.limit > 0 /\ tool.moved >= tool.limit
Took == tool' = [tool EXCEPT !.position = @ + 1, !.moved = @ + 1]
ReprocessOne ==
    /\ tool.on /\ ~Full /\ tool.position < Len(dlq)
    /\ LET e == dlq[tool.position + 1] IN
       \/ tool.dryRun /\ Took /\ UNCHANGED <<told, unread, committed, faults>>
       \/ /\ ~tool.dryRun /\ Took
          /\ told' = [told EXCEPT ![e] = @ + 1] /\ unread' = Append(unread, e)
          /\ \/ committed' = tool.position + 1 /\ UNCHANGED faults
             \/ Fault /\ UNCHANGED committed
       \/ \* The publication fails, though the topic may have it; or a crash.
          /\ ~tool.dryRun /\ Fault /\ Stop /\ UNCHANGED committed
          /\ \/ told' = [told EXCEPT ![e] = @ + 1] /\ unread' = Append(unread, e)
             \/ UNCHANGED <<told, unread>>
    /\ UNCHANGED <<dlq, refused>>
\* The limit, or nothing came for idleTimeout.
Leave ==
    /\ tool.on /\ (Full \/ tool.position = Len(dlq))
    /\ Stop
    /\ UNCHANGED <<dlq, committed, told, unread, refused, faults>>

Next == Consume \/ Start \/ ReprocessOne \/ Leave
Spec == Init /\ [][Next]_vars

-----------------------------------------------------------------------------
\* How often event e is among the first n records of the dead letter topic.
Letters(e, n) == Cardinality({i \in 1..n : dlq[i] = e})

\* A dead letter the group has left behind was published, and every one more often
\* than it was dead-lettered only for a fault (main.go:49-57: a second run goes on
\* where the first one stopped).
MovedOnce ==
    \A e \in DeadEvents :
        /\ told[e] >= Letters(e, committed)
        /\ told[e] <= Letters(e, Len(dlq)) + faults
=============================================================================
