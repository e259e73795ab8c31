------------------------------ MODULE WatchHub ------------------------------
(* services/catalog: WatchHub and the WatchListing streams of one card, in    *)
(* one process. The channel of a stream stays readable after it is closed.    *)
EXTENDS Integers, Sequences, SequencesExt, FiniteSets

CONSTANTS
    Streams,
    BufferSize, \* watchBufferSize
    MaxChanges  \* bound: changes the indexer applies to the card

HubAssumption == BufferSize \in Nat \ {0} /\ MaxChanges \in Nat

VARIABLES
    applied,   \* how many changes the indexer has committed
    notices,   \* the changes Notify was called with, in the order of the calls
    subs,      \* hub.subs: the streams whose channel is in it
    stream     \* each WatchListing call
vars == <<applied, notices, subs, stream>>

NotYet == [at |-> "none", ch |-> <<>>, closed |-> FALSE, sent |-> <<>>, since |-> 0]

TypeOK ==
    /\ applied \in 0..MaxChanges
    /\ notices \in Seq(1..MaxChanges)
    /\ subs \subseteq Streams
    /\ stream \in [Streams -> [at : {"none", "snapshot", "loop", "done", "failed", "too slow"},
                               ch : Seq(1..MaxChanges), closed : BOOLEAN,
                               sent : Seq(1..MaxChanges), since : Nat]]
    /\ \A s \in Streams : Len(stream[s].ch) <= BufferSize

Init ==
    /\ applied = 0 /\ notices = <<>>
    /\ subs = {}
    /\ stream = [s \in Streams |-> NotYet]

-----------------------------------------------------------------------------
(* The indexer. The handlers of two topics may overtake each other on their   *)
(* way from COMMIT to Notify.                                                 *)

Apply ==
    /\ applied < MaxChanges
    /\ applied' = applied + 1
    /\ UNCHANGED <<notices, subs, stream>>

\* As if a full channel lost the notice and stayed open.
NotifiedOrDropped(s, change) ==
    IF Len(stream[s].ch) < BufferSize THEN [stream[s] EXCEPT !.ch = Append(@, change)]
    ELSE stream[s]

\* As if the buffer took one notice more.
NotifiedOneMore(s, change) ==
    IF Len(stream[s].ch) <= BufferSize THEN [stream[s] EXCEPT !.ch = Append(@, change)]
    ELSE [stream[s] EXCEPT !.closed = TRUE]

Notified(s, change) ==
    IF Len(stream[s].ch) < BufferSize THEN [stream[s] EXCEPT !.ch = Append(@, change)]
    ELSE [stream[s] EXCEPT !.closed = TRUE]
Notify(change) ==
    /\ change <= applied /\ change \notin ToSet(notices)
    /\ notices' = Append(notices, change)
    /\ stream' = [s \in Streams |-> IF s \in subs THEN Notified(s, change) ELSE stream[s]]
    /\ subs' = {s \in subs : Len(stream[s].ch) < BufferSize}
    /\ UNCHANGED applied

-----------------------------------------------------------------------------
(* WatchListing. The subscription comes before the snapshot.                  *)

Subscribe(s) ==
    /\ stream[s].at = "none"
    /\ stream' = [stream EXCEPT ![s].at = "snapshot", ![s].since = Len(notices)]
    /\ subs' = subs \cup {s}
    /\ UNCHANGED <<applied, notices>>

\* return, and the deferred cancel.
Return(s, how) ==
    /\ stream' = [stream EXCEPT ![s].at = how]
    /\ subs' = subs \ {s}

\* Without a card the loop begins without a snapshot.
Snapshot(s) ==
    /\ stream[s].at = "snapshot"
    /\ \/ stream' = [stream EXCEPT ![s].at = "loop"] /\ UNCHANGED subs
       \/ Return(s, "failed")
    /\ UNCHANGED <<applied, notices>>

\* As if the closed channel ended nothing.
LoopOn(s) ==
    /\ stream[s].at = "loop" /\ stream[s].ch # <<>>
    /\ stream' = [stream EXCEPT ![s].ch = Tail(@), ![s].sent = Append(@, Head(stream[s].ch))]
    /\ UNCHANGED <<applied, notices, subs>>

Loop(s) ==
    /\ stream[s].at = "loop"
    /\ \/ /\ stream[s].ch # <<>>
          /\ stream' = [stream EXCEPT ![s].ch = Tail(@), ![s].sent = Append(@, Head(stream[s].ch))]
          /\ UNCHANGED subs
       \/ stream[s].ch # <<>> /\ Return(s, "failed")
       \/ stream[s].ch = <<>> /\ stream[s].closed /\ Return(s, "too slow")
    /\ UNCHANGED <<applied, notices>>

\* ctx.Done: the client went away, or the service stops.
Leave(s) ==
    /\ stream[s].at = "loop"
    /\ Return(s, "done")
    /\ UNCHANGED <<applied, notices>>

Next ==
    \/ Apply
    \/ \E change \in 1..MaxChanges : Notify(change)
    \/ \E s \in Streams : Subscribe(s) \/ Snapshot(s) \/ Loop(s) \/ Leave(s)

Spec == Init /\ [][Next]_vars
FairSpec == Spec /\ \A s \in Streams : WF_vars(Snapshot(s)) /\ WF_vars(Loop(s))

-----------------------------------------------------------------------------
\* A stream gives its client every notice since it was opened, in their order and
\* none twice; a gap means the channel is closed, and nothing comes after the gap
\* (server.go:111-117, watchhub.go:74-97).
NoGaps ==
    \A s \in Streams :
        LET due == SubSeq(notices, stream[s].since + 1, Len(notices))
            given == stream[s].sent \o stream[s].ch
        IN  /\ IsPrefix(given, due)
            /\ stream[s].at \in {"snapshot", "loop"} /\ ~stream[s].closed => given = due

\* The hub has the streams that run with an open channel and no other: nothing is
\* sent on, or closed twice, after a close, and no subscription outlives its call.
OnlyOpenChannels ==
    subs = {s \in Streams : stream[s].at \in {"snapshot", "loop"} /\ ~stream[s].closed}

\* A client that was cut off for being slow does not wait for ever: its call ends.
SlowIsTold == \A s \in Streams : stream[s].closed ~> stream[s].at \in {"done", "failed", "too slow"}
=============================================================================
