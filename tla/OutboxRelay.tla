---------------------------- MODULE OutboxRelay ----------------------------
(* pkg/outbox: the outbox tables of a service, one in each shard, and the     *)
(* relays that publish their rows. Rows are numbered in the order of their    *)
(* ids (UUID v7). PostgreSQL's row locks and the broker are external.         *)
EXTENDS Integers, FiniteSets, Sequences, SequencesExt

CONSTANTS
    Relays,         \* the processes that run a Relay over the service's shards
    Shards,         \* the number of shards
    Rows,           \* the rows that may be written, 1..n in the order of their ids
    ShardOf, KeyOf, \* where the transaction of a row runs, the key of its record
    BatchSize,      \* LIMIT of the relay's SELECT
    MaxFaults       \* bound: failed statements and sends, crashes and restarts

RelayAssumption ==
    /\ Shards \in Nat \ {0}
    /\ Rows \subseteq Nat
    /\ ShardOf \in [Rows -> 1..Shards]
    /\ BatchSize \in Nat \ {0}
    /\ MaxFaults \in Nat

VARIABLES
    row,    \* outbox_<service>: what a row is
    lock,   \* lock[e]: the relays whose open transaction holds row e FOR UPDATE
    relay,  \* relay[r]: where the loop of r is
    sent,   \* the records the broker has taken, in the order it took them
    faults
vars == <<row, lock, relay, sent, faults>>

Idle == [at |-> "idle", shard |-> 0, rest |-> {}, published |-> {}]
Stopped == [Idle EXCEPT !.at = "stopped"]

TypeOK ==
    /\ row \in [Rows -> {"none", "open", "pending", "published", "undone"}]
    /\ lock \in [Rows -> SUBSET Relays]
    /\ relay \in [Relays -> [at : {"idle", "stopped", "poll", "publish"},
                             shard : 0..Shards, rest : SUBSET Rows, published : SUBSET Rows]]
    /\ sent \in Seq(Rows)
    /\ faults \in 0..MaxFaults

Init ==
    /\ row = [e \in Rows |-> "none"]
    /\ lock = [e \in Rows |-> {}]
    /\ relay = [r \in Relays |-> Idle]
    /\ sent = <<>>
    /\ faults = 0

Fault == faults < MaxFaults /\ faults' = faults + 1
NoFault == UNCHANGED faults

-----------------------------------------------------------------------------
(* The service's transactions. Two writers of one aggregate queue on its row. *)

Write(e) ==
    /\ row[e] = "none"
    /\ \A d \in Rows : d < e => row[d] # "none"
    /\ ~ \E d \in Rows : row[d] = "open" /\ KeyOf[d] = KeyOf[e]
    /\ row' = [row EXCEPT ![e] = "open"]
    /\ UNCHANGED <<lock, relay, sent, faults>>

EndTransaction(e) ==
    /\ row[e] = "open"
    /\ \E outcome \in {"pending", "undone"} : row' = [row EXCEPT ![e] = outcome]
    /\ UNCHANGED <<lock, relay, sent, faults>>

-----------------------------------------------------------------------------
(* The relay.                                                                 *)

\* pollAllShards: an error in one shard does not keep the relay from the next.
Leave(r) == IF relay[r].shard < Shards
            THEN [Idle EXCEPT !.at = "poll", !.shard = relay[r].shard + 1]
            ELSE Idle
Unlocked(r) == [e \in Rows |-> lock[e] \ {r}]

Tick(r) ==
    /\ relay[r].at = "idle"
    /\ relay' = [relay EXCEPT ![r] = [Idle EXCEPT !.at = "poll", !.shard = 1]]
    /\ UNCHANGED <<row, lock, sent, faults>>

Pending(s) == {e \in Rows : row[e] = "pending" /\ ShardOf[e] = s}

\* As if the SELECT took no notice of the other relay's locks.
SelectLocked(s) ==
    {e \in Pending(s) : Cardinality({d \in Pending(s) : d < e}) < BatchSize}

\* The rows SELECT ... ORDER BY id LIMIT FOR UPDATE SKIP LOCKED returns.
Select(s) ==
    LET free == {e \in Pending(s) : lock[e] = {}}
    IN  {e \in free : Cardinality({d \in free : d < e}) < BatchSize}

PollShard(r) ==
    /\ relay[r].at = "poll"
    /\ LET batch == Select(relay[r].shard) IN
       \/ /\ batch # {}
          /\ lock' = [e \in Rows |-> IF e \in batch THEN lock[e] \cup {r} ELSE lock[e]]
          /\ relay' = [relay EXCEPT ![r].at = "publish", ![r].rest = batch]
          /\ NoFault
       \/ /\ batch = {}
          /\ relay' = [relay EXCEPT ![r] = Leave(r)]
          /\ UNCHANGED lock /\ NoFault
       \/ /\ Fault                  \* begin, select or scan
          /\ relay' = [relay EXCEPT ![r] = Leave(r)]
          /\ UNCHANGED lock
    /\ UNCHANGED <<row, sent>>

\* As if a row whose send failed were marked with the others.
PublishOrSkip(r) ==
    /\ relay[r].at = "publish"
    /\ \E e \in relay[r].rest :
          /\ \A d \in relay[r].rest : e <= d
          /\ relay' = [relay EXCEPT ![r].rest = @ \ {e}, ![r].published = @ \cup {e}]
          /\ \/ sent' = Append(sent, e) /\ NoFault
             \/ UNCHANGED sent /\ Fault
    /\ UNCHANGED <<row, lock>>

\* One turn of publishBatch, in the order of the ids; an error may follow a record
\* the broker has kept.
Publish(r) ==
    /\ relay[r].at = "publish"
    /\ \E e \in relay[r].rest :
          /\ \A d \in relay[r].rest : e <= d
          /\ \/ /\ relay' = [relay EXCEPT ![r].rest = @ \ {e}, ![r].published = @ \cup {e}]
                /\ sent' = Append(sent, e)
                /\ NoFault
             \/ /\ relay' = [relay EXCEPT ![r].rest = @ \ {e}]
                /\ sent' \in {sent, Append(sent, e)}
                /\ Fault
    /\ UNCHANGED <<row, lock>>

\* UPDATE published_at and COMMIT, or the deferred ROLLBACK.
MarkPublished(r) ==
    /\ relay[r].at = "publish" /\ relay[r].rest = {}
    /\ \/ /\ relay[r].published # {}
          /\ row' = [e \in Rows |-> IF e \in relay[r].published THEN "published" ELSE row[e]]
          /\ NoFault
       \/ relay[r].published = {} /\ NoFault /\ UNCHANGED row
       \/ relay[r].published # {} /\ Fault /\ UNCHANGED row
    /\ lock' = Unlocked(r)
    /\ relay' = [relay EXCEPT ![r] = Leave(r)]
    /\ UNCHANGED sent

\* The process dies and is started again: its transaction is rolled back.
Crash(r) ==
    /\ relay[r].at \in {"poll", "publish"} /\ Fault
    /\ relay' = [relay EXCEPT ![r] = Idle]
    /\ lock' = Unlocked(r)
    /\ UNCHANGED <<row, sent>>

\* ctx.Done: Run returns between two ticks only; New starts it again.
Stop(r) ==
    /\ relay[r].at = "idle" /\ Fault
    /\ relay' = [relay EXCEPT ![r] = Stopped]
    /\ UNCHANGED <<row, lock, sent>>
Start(r) ==
    /\ relay[r].at = "stopped"
    /\ relay' = [relay EXCEPT ![r] = Idle]
    /\ UNCHANGED <<row, lock, sent, faults>>

RelayStep(r) == Tick(r) \/ PollShard(r) \/ Publish(r) \/ MarkPublished(r) \/ Start(r)
Next ==
    \/ \E e \in Rows : Write(e) \/ EndTransaction(e)
    \/ \E r \in Relays : RelayStep(r) \/ Crash(r) \/ Stop(r)

Spec == Init /\ [][Next]_vars
FairSpec == Spec /\ \A r \in Relays : WF_vars(RelayStep(r))

-----------------------------------------------------------------------------
\* No event without its change: what the broker has is a row whose transaction
\* committed, and a row is marked only after the broker took it (relay.go:236-251).
OnlyFacts ==
    /\ \A i \in 1..Len(sent) : row[sent[i]] \in {"pending", "published"}
    /\ \A e \in Rows : row[e] = "published" => e \in ToSet(sent)

\* A row is published twice only if a fault came between the send and the commit:
\* SKIP LOCKED never gives one row to two relays (relay.go:209-216).
DuplicatesAreFaults ==
    /\ \A e \in Rows : Cardinality(lock[e]) <= 1
    /\ Len(sent) - Cardinality(ToSet(sent)) <= faults * BatchSize

\* Every committed event reaches the broker, whatever failed before (relay.go:150).
Delivered == \A e \in Rows : row[e] = "pending" ~> e \in ToSet(sent)
=============================================================================
