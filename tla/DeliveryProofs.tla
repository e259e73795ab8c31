---------------------------- MODULE DeliveryProofs ----------------------------
(* Proofs of what the relays, the consumers and kafka-reprocess promise, for   *)
(* every number of relays, shards, rows, clients, records and faults. Each     *)
(* part has an inductive invariant of its own; the last section puts the parts *)
(* together.                                                                   *)
EXTENDS Delivery, FiniteSetTheorems, SequenceTheorems, TLAPS

-----------------------------------------------------------------------------
(* The consumers: what is known of one client and of its partition's goroutine *)
(* on their own, given the log l of the topic t.                               *)

Records == [event : Events, round : 0..MaxRetryRounds]
ClientStates ==
    [loop : {"down", "poll", "dispatch", "callback", "stopAll", "returned", "closed"},
     poller : BOOLEAN, mine : BOOLEAN, stopping : BOOLEAN, joined : BOOLEAN, position : Nat, fetched : Seq(Nat)]
WorkerStates ==
    [at : {"none", "idle", "done"} \cup Busy, quit : BOOLEAN, recs : Seq(Seq(Nat)),
     batch : Seq(Nat), attempt : 0..MaxRetryAttempts]

\* Where there is a goroutine, and what it has in hand at each of its places. While
\* Run goes on it is there with the partition; while stopAll waits, it may be alone.
Shape(k, w, l, t) ==
    /\ k.loop \in {"poll", "dispatch", "callback"} => (k.mine <=> w.at # "none")
    /\ k.loop \in {"down", "returned"} => w.at = "none"
    /\ k.loop \in {"down", "closed"} => ~k.mine
    /\ k.loop \in {"dispatch", "callback"} => k.mine
    /\ k.loop # "dispatch" => k.fetched = <<>>
    /\ w.at = "none" => w.recs = <<>>
    /\ w.at \in {"none", "idle"} => w.batch = <<>>
    /\ w.at \in Busy => w.batch # <<>>
    /\ w.at = "wait" => t = "retry"
    /\ w.at = "side" /\ t = "retry" => l[Head(w.batch)].round < MaxRetryRounds

UpTo(s, n) == \A i \in 1..Len(s) : s[i] \in 1..n

\* What it has in hand are offsets of records that were fetched, and of the log.
Fetched(k, w, l) ==
    /\ k.position <= Len(l)
    /\ Len(w.recs) <= ChannelSize
    /\ UpTo(w.batch, k.position) /\ UpTo(k.fetched, k.position)
    /\ \A j \in 1..Len(w.recs) : UpTo(w.recs[j], k.position) /\ w.recs[j] # <<>>
    /\ k.loop = "dispatch" => k.fetched # <<>>

Sound(k, w, l, t) ==
    /\ k \in ClientStates /\ w \in WorkerStates
    /\ Shape(k, w, l, t) /\ Fetched(k, w, l)

LogsAreLogs ==
    /\ log \in [Topics -> Seq(Records)]
    /\ \A i \in 1..Len(log["main"]) : log["main"][i].round = 0
\* While nothing has failed, the coordinator and the clients agree.
Exclusive == crashes = 0 => \A c \in Clients : client[c].mine => owner[TopicOf[c]] = c
\* The inductive invariant of the consumers.
ConsumerInv ==
    /\ LogsAreLogs
    /\ dead \subseteq Events /\ applied \subseteq Events
    /\ committed \in [Topics -> Nat] /\ \A t \in Topics : committed[t] <= Len(log[t])
    /\ owner \in [Topics -> Clients \cup {NoClient}]
    /\ client \in [Clients -> ClientStates] /\ worker \in [Clients -> WorkerStates]
    /\ \A c \in Clients : Sound(client[c], worker[c], log[TopicOf[c]], TopicOf[c])
    /\ Exclusive
    /\ crashes \in 0..MaxCrashes /\ sideFailures \in 0..MaxSideFailures /\ stops \in 0..MaxStops

(* What a goroutine may pass: the offsets S of its topic that are settled.     *)

Settled(t) ==
    {i \in 1..Len(log[t]) :
        log[t][i].event \in applied \cup dead
            \/ Carried(log[t][i].event, IF t = "retry" THEN i ELSE 0)}

OneOf(s, i) == \E j \in 1..Len(s) : s[j] = i
\* The offset i is still in hand: in the batch, in the channel, or just polled.
InHand(k, w, i) ==
    \/ OneOf(w.batch, i) \/ OneOf(k.fetched, i)
    \/ \E j \in 1..Len(w.recs) : OneOf(w.recs[j], i)

Rising(s) == \A i, j \in 1..Len(s) : i < j => s[i] < s[j]
Below(s, u) == \A i \in 1..Len(s), j \in 1..Len(u) : s[i] < u[j]
\* What is in hand lies in the order of the offsets.
Ordered(k, w) ==
    /\ Rising(w.batch) /\ Rising(k.fetched) /\ Below(w.batch, k.fetched)
    /\ \A j \in 1..Len(w.recs) :
          /\ Rising(w.recs[j]) /\ Below(w.batch, w.recs[j]) /\ Below(w.recs[j], k.fetched)
          /\ \A m \in 1..Len(w.recs) : j < m => Below(w.recs[j], w.recs[m])

\* What lies behind the position of a client that can commit is settled or in hand,
\* and the record to be committed is settled.
Passed(k, w, S) ==
    /\ w.at # "none" /\ k.loop # "closed" =>
           \A i \in 1..k.position : i \in S \/ InHand(k, w, i)
    /\ Ordered(k, w)
    /\ w.at = "commit" => Head(w.batch) \in S

\* No send to a side topic is refused, and no RetryConsumer is told to stop.
SidesHold == MaxSideFailures = 0 /\ \A c \in Stoppable : TopicOf[c] = "main"
SkipInv ==
    /\ \A c \in Clients : client[c].stopping => c \in Stoppable
    /\ \A t \in Topics : \A i \in 1..committed[t] : i \in Settled(t)
    /\ \A c \in Clients : Passed(client[c], worker[c], Settled(TopicOf[c]))

-----------------------------------------------------------------------------
(* Each move of a goroutine or of its client keeps them sound.                *)

\* Head and Tail of the batch, or of the channel.
LEMMA TailFacts ==
    ASSUME NEW S, NEW s \in Seq(S), s # <<>>
    PROVE  /\ Len(s) \in Nat \ {0} /\ Head(s) = s[1] /\ Head(s) \in S
           /\ Tail(s) \in Seq(S) /\ Len(Tail(s)) = Len(s) - 1
           /\ \A i \in 1..Len(Tail(s)) : i + 1 \in 1..Len(s) /\ Tail(s)[i] = s[i + 1]
<1>1. /\ Head(s) \in S /\ Tail(s) \in Seq(S) /\ Len(Tail(s)) = Len(s) - 1
      /\ \A i \in 1..Len(Tail(s)) : Tail(s)[i] = s[i + 1]
    BY HeadTailProperties
<1>2. Len(s) \in Nat /\ Len(s) # 0
    BY EmptySeq, LenProperties
<1>3. Head(s) = s[1]
    OBVIOUS
<1> QED
    BY <1>1, <1>2, <1>3

\* Next1: one record less in the batch.
LEMMA UpToTail ==
    ASSUME NEW s \in Seq(Nat), s # <<>>, NEW n \in Nat, UpTo(s, n)
    PROVE  UpTo(Tail(s), n) /\ Head(s) \in 1..n
<1>1. /\ Len(s) \in Nat \ {0} /\ Head(s) = s[1]
      /\ \A i \in 1..Len(Tail(s)) : i + 1 \in 1..Len(s) /\ Tail(s)[i] = s[i + 1]
    BY TailFacts
<1> QED
    BY <1>1 DEF UpTo

\* Begin, WaitForRetryAt, Handle, Side and Quit move the goroutine only.
LEMMA SoundPlace ==
    ASSUME NEW k, NEW w, NEW l, NEW t, Sound(k, w, l, t),
           NEW v \in WorkerStates, v.recs = w.recs, v.batch = w.batch,
           w.at # "none", v.at \in {"done"} \cup Busy, v.at \in Busy => w.at \in Busy,
           v.at = "wait" => t = "retry",
           v.at = "side" /\ t = "retry" => l[Head(w.batch)].round < MaxRetryRounds
    PROVE  Sound(k, v, l, t)
<1>1. v.at # "none" /\ v.at # "idle"
    BY DEF Busy
<1>2. Shape(k, v, l, t)
    BY <1>1 DEF Sound, Shape
<1>3. Fetched(k, v, l)
    BY DEF Sound, Fetched
<1> QED
    BY <1>2, <1>3 DEF Sound

\* The worker is told to quit.
LEMMA SoundQuit ==
    ASSUME NEW k, NEW w, NEW l, NEW t, Sound(k, w, l, t)
    PROVE  Sound(k, [w EXCEPT !.quit = TRUE], l, t)
<1> DEFINE v == [w EXCEPT !.quit = TRUE]
<1>1. /\ v \in WorkerStates /\ v.at = w.at /\ v.recs = w.recs /\ v.batch = w.batch
    BY DEF Sound, WorkerStates
<1> HIDE DEF v
<1>2. Shape(k, v, l, t)
    BY <1>1 DEF Sound, Shape
<1>3. Fetched(k, v, l)
    BY <1>1 DEF Sound, Fetched
<1>4. Sound(k, v, l, t)
    BY <1>1, <1>2, <1>3 DEF Sound
<1> QED
    BY <1>4 DEF v

\* Take: the next batch of the channel.
LEMMA SoundTake ==
    ASSUME NEW k, NEW w, NEW l, NEW t, Sound(k, w, l, t), w.at = "idle", w.recs # <<>>,
           NEW v \in WorkerStates, v.at = "next", v.batch = Head(w.recs), v.recs = Tail(w.recs)
    PROVE  Sound(k, v, l, t)
<1>1. w.recs \in Seq(Seq(Nat))
    BY DEF Sound, WorkerStates
<1>2. /\ Len(w.recs) \in Nat \ {0} /\ Head(w.recs) = w.recs[1]
      /\ Tail(w.recs) \in Seq(Seq(Nat)) /\ Len(Tail(w.recs)) = Len(w.recs) - 1
      /\ \A i \in 1..Len(Tail(w.recs)) :
             i + 1 \in 1..Len(w.recs) /\ Tail(w.recs)[i] = w.recs[i + 1]
    BY <1>1, TailFacts
<1>3. UpTo(v.batch, k.position) /\ v.batch # <<>>
    BY <1>2 DEF Sound, Fetched
<1>4. ChannelSize \in Nat /\ Len(v.recs) <= ChannelSize
    BY <1>2, DeliveryAssumption DEF Sound, Fetched, ConsumerAssumption
<1>5. Fetched(k, v, l)
    BY <1>2, <1>3, <1>4 DEF Sound, Fetched
<1>6. Shape(k, v, l, t)
    BY <1>3 DEF Sound, Shape, Busy
<1> QED
    BY <1>5, <1>6 DEF Sound

\* Next1: the next record of the batch, or idle again.
LEMMA SoundNext1 ==
    ASSUME NEW k, NEW w, NEW l, NEW t, Sound(k, w, l, t), w.at \in Busy,
           NEW v \in WorkerStates, v.batch = Tail(w.batch), v.recs = w.recs,
           v.at = IF Len(w.batch) > 1 THEN "next" ELSE "idle"
    PROVE  Sound(k, v, l, t)
<1>1. w.batch \in Seq(Nat) /\ w.batch # <<>> /\ k.position \in Nat
    BY DEF Sound, WorkerStates, ClientStates, Shape
<1>2. /\ Len(w.batch) \in Nat \ {0} /\ Tail(w.batch) \in Seq(Nat)
      /\ Len(Tail(w.batch)) = Len(w.batch) - 1
    BY <1>1, TailFacts
<1>3. (v.at = "next" /\ v.batch # <<>>) \/ (v.at = "idle" /\ v.batch = <<>>)
  <2> DEFINE n == Len(w.batch)
             u == Tail(w.batch)
  <2>1. /\ n \in Nat /\ n # 0 /\ u \in Seq(Nat) /\ Len(u) = n - 1
        /\ v.at = (IF n > 1 THEN "next" ELSE "idle") /\ v.batch = u
      BY <1>2
  <2> HIDE DEF n, u
  <2>2. u = <<>> <=> n = 1
      BY <2>1, EmptySeq
  <2>3. CASE n = 1
    <3>1. ~(n > 1)
        BY <2>3
    <3> QED
        BY <2>1, <2>2, <2>3, <3>1, Zenon
  <2>4. CASE n # 1
    <3>1. n > 1
        BY <2>1, <2>4
    <3> QED
        BY <2>1, <2>2, <2>4, <3>1, Zenon
  <2> QED
      BY <2>3, <2>4
<1>4. UpTo(v.batch, k.position)
    BY <1>1, UpToTail DEF Sound, Fetched
<1>5. Fetched(k, v, l)
    BY <1>4 DEF Sound, Fetched
<1>6. Shape(k, v, l, t)
    BY <1>3 DEF Sound, Shape, Busy
<1> QED
    BY <1>5, <1>6 DEF Sound

\* Assigned: a goroutine of its own for a client that had none.
LEMMA SoundAssigned ==
    ASSUME NEW k, NEW w, NEW l, NEW t, Sound(k, w, l, t), k.loop = "poll",
           NEW n \in Nat, n <= Len(l), NEW m \in ClientStates,
           m.loop = "poll", m.mine, m.position = n, m.fetched = k.fetched
    PROVE  Sound(m, [NoWorker EXCEPT !.at = "idle"], l, t)
<1> DEFINE v == [NoWorker EXCEPT !.at = "idle"]
<1>1. NoWorker \in WorkerStates /\ NoWorker.recs = <<>> /\ NoWorker.batch = <<>>
    BY DeliveryAssumption DEF NoWorker, WorkerStates, ConsumerAssumption
<1>2. v \in WorkerStates /\ v.at = "idle" /\ v.recs = <<>> /\ v.batch = <<>>
    BY <1>1 DEF WorkerStates
<1> HIDE DEF v
<1>3. m.fetched = <<>>
    BY DEF Sound, Shape
<1>4. Fetched(m, v, l)
    BY <1>2, <1>3, DeliveryAssumption DEF Fetched, UpTo, ConsumerAssumption
<1>5. Shape(m, v, l, t)
    BY <1>2, <1>3 DEF Shape, Busy
<1>6. Sound(m, v, l, t)
    BY <1>2, <1>4, <1>5 DEF Sound
<1> QED
    BY <1>6 DEF v

\* PollFetches: the records up to the n-th.
LEMMA SoundPoll ==
    ASSUME NEW k, NEW w, NEW l, NEW t, Sound(k, w, l, t), k.mine, k.loop = "poll",
           NEW n \in (k.position + 1)..Len(l), Len(l) \in Nat, NEW m \in ClientStates,
           m.loop = "dispatch", m.mine, m.position = n, m.fetched = Offsets(k.position, n)
    PROVE  Sound(m, w, l, t)
<1>1. k.position \in Nat /\ n \in Nat /\ n > k.position /\ n <= Len(l)
    BY DEF Sound, ClientStates
<1>2. m.fetched \in Seq(Nat) /\ Len(m.fetched) = n - k.position
      /\ \A i \in 1..(n - k.position) : m.fetched[i] = k.position + i
    BY <1>1 DEF Offsets
<1>3. m.fetched # <<>> /\ UpTo(m.fetched, m.position)
    BY SMTT(30), <1>1, <1>2 DEF UpTo
<1>4. UpTo(w.batch, m.position) /\ \A j \in 1..Len(w.recs) : UpTo(w.recs[j], m.position)
    BY SMTT(30), <1>1 DEF Sound, Fetched, UpTo
<1>5. Fetched(m, w, l)
    BY <1>1, <1>3, <1>4 DEF Sound, Fetched
<1>6. Shape(m, w, l, t)
    BY DEF Sound, Shape
<1> QED
    BY <1>5, <1>6 DEF Sound

\* Dispatch: what was fetched goes to the end of the channel.
LEMMA SoundDispatch ==
    ASSUME NEW k, NEW w, NEW l, NEW t, Sound(k, w, l, t), k.loop = "dispatch",
           Len(w.recs) < ChannelSize, NEW m \in ClientStates, NEW v \in WorkerStates,
           m.loop = "poll", m.mine = k.mine, m.position = k.position, m.fetched = <<>>,
           v.recs = Append(w.recs, k.fetched), v.at = w.at, v.batch = w.batch
    PROVE  Sound(m, v, l, t)
<1>1. w.recs \in Seq(Seq(Nat)) /\ k.fetched \in Seq(Nat) /\ ChannelSize \in Nat
    BY DeliveryAssumption DEF Sound, WorkerStates, ClientStates, ConsumerAssumption
<1>2. /\ Len(w.recs) \in Nat /\ Len(v.recs) = Len(w.recs) + 1
      /\ \A j \in 1..Len(w.recs) : v.recs[j] = w.recs[j]
      /\ v.recs[Len(w.recs) + 1] = k.fetched
    BY <1>1, AppendProperties, LenProperties
<1>3. w.at # "none"
    BY DEF Sound, Shape
<1>4. \A j \in 1..Len(v.recs) : UpTo(v.recs[j], m.position) /\ v.recs[j] # <<>>
  <2> TAKE j \in 1..Len(v.recs)
  <2>1. CASE j \in 1..Len(w.recs)
      BY <1>2, <2>1 DEF Sound, Fetched
  <2>2. CASE j = Len(w.recs) + 1
      BY <1>2, <2>2 DEF Sound, Fetched
  <2> QED
      BY <2>1, <2>2, <1>2
<1>5. Fetched(m, v, l)
    BY SMTT(30), <1>1, <1>2, <1>4 DEF Sound, Fetched, UpTo
<1>6. Shape(m, v, l, t)
    BY <1>3 DEF Sound, Shape
<1> QED
    BY <1>5, <1>6 DEF Sound

\* The client's loop moves and keeps the partition, the position and the records.
LEMMA SoundLoop ==
    ASSUME NEW k, NEW w, NEW l, NEW t, Sound(k, w, l, t), NEW m \in ClientStates,
           m.mine = k.mine, m.position = k.position, m.fetched = k.fetched,
           \/ m.loop = k.loop
           \/ k.loop = "poll" /\ (m.loop = "stopAll" \/ (m.loop = "callback" /\ k.mine))
    PROVE  Sound(m, w, l, t)
<1>1. Shape(m, w, l, t)
    BY DEF Sound, Shape
<1>2. Fetched(m, w, l)
    BY DEF Sound, Fetched
<1> QED
    BY <1>1, <1>2 DEF Sound

\* A client without an engine loses or gets the partition, or leaves the group.
LEMMA SoundUnheard ==
    ASSUME NEW k, NEW w, NEW l, NEW t, Sound(k, w, l, t), NEW m \in ClientStates,
           k.loop \in {"stopAll", "returned"},
           m.position = k.position, m.fetched = k.fetched,
           m.loop = k.loop \/ (m.loop = "closed" /\ ~m.mine)
    PROVE  Sound(m, w, l, t)
<1>1. Shape(m, w, l, t)
    BY DEF Sound, Shape
<1>2. Fetched(m, w, l)
    BY DEF Sound, Fetched
<1> QED
    BY <1>1, <1>2 DEF Sound

\* A client without a goroutine.
LEMMA SoundWithout ==
    ASSUME NEW m \in ClientStates, NEW w, NEW l, NEW t, Len(l) \in Nat,
           m.loop \in {"down", "poll", "returned"}, m.mine => m.loop = "returned",
           m.fetched = <<>>, m.position <= Len(l),
           w = NoWorker \/ \E k : Sound(k, w, l, t) /\ k.loop = "down"
    PROVE  Sound(m, w, l, t)
<1>1. w \in WorkerStates /\ w.at = "none" /\ w.recs = <<>> /\ w.batch = <<>>
  <2>1. CASE w = NoWorker
      BY <2>1, DeliveryAssumption DEF NoWorker, WorkerStates, ConsumerAssumption
  <2>2. CASE \E k : Sound(k, w, l, t) /\ k.loop = "down"
      BY <2>2 DEF Sound, Shape
  <2> QED
      BY <2>1, <2>2
<1>2. Shape(m, w, l, t)
    BY <1>1 DEF Shape, Busy
<1>3. Fetched(m, w, l)
    BY <1>1, DeliveryAssumption DEF Fetched, UpTo, ConsumerAssumption
<1> QED
    BY <1>1, <1>2, <1>3 DEF Sound

\* The log a client reads may have grown.
LEMMA SoundGrows ==
    ASSUME NEW k, NEW w, NEW l, NEW n, NEW t, Sound(k, w, l, t),
           Len(l) \in Nat, Len(n) \in Nat, Len(l) <= Len(n),
           \A i \in 1..Len(l) : n[i] = l[i]
    PROVE  Sound(k, w, n, t)
<1>1. k.position \in Nat /\ k.position <= Len(n) /\ w.batch \in Seq(Nat)
    BY DEF Sound, Fetched, ClientStates, WorkerStates
<1>2. w.batch # <<>> => n[Head(w.batch)] = l[Head(w.batch)]
  <2> HAVE w.batch # <<>>
  <2>1. Head(w.batch) \in 1..k.position
      BY <1>1, UpToTail DEF Sound, Fetched
  <2> QED
      BY <1>1, <2>1 DEF Sound, Fetched
<1>3. Shape(k, w, n, t)
    BY <1>2 DEF Sound, Shape, Busy
<1>4. Fetched(k, w, n)
    BY <1>1 DEF Sound, Fetched
<1> QED
    BY <1>3, <1>4 DEF Sound

-----------------------------------------------------------------------------
(* The consumers: every step keeps ConsumerInv.                               *)

\* The topics only grow.
LogsGrow ==
    \A t \in Topics :
        Len(log[t]) <= Len(log'[t]) /\ \A i \in 1..Len(log[t]) : log'[t][i] = log[t][i]

\* A step of client c leaves the others sound, joined or not.
LEMMA OneClientMoves ==
    ASSUME ConsumerInv, LogsAreLogs', LogsGrow, NEW c \in Clients,
           client' \in [Clients -> ClientStates], worker' \in [Clients -> WorkerStates],
           \A d \in Clients \ {c} :
               /\ worker'[d] = worker[d]
               /\ client'[d].loop = client[d].loop /\ client'[d].mine = client[d].mine
               /\ client'[d].position = client[d].position
               /\ client'[d].fetched = client[d].fetched,
           Sound(client'[c], worker'[c], log[TopicOf[c]], TopicOf[c])
    PROVE  \A d \in Clients : Sound(client'[d], worker'[d], log'[TopicOf[d]], TopicOf[d])
<1> SUFFICES ASSUME NEW d \in Clients
             PROVE  Sound(client'[d], worker'[d], log'[TopicOf[d]], TopicOf[d])
    OBVIOUS
<1>1. TopicOf[d] \in Topics
    BY DeliveryAssumption DEF ConsumerAssumption, Topics
<1>2. Sound(client'[d], worker'[d], log[TopicOf[d]], TopicOf[d])
  <2>1. CASE d = c
      BY <2>1
  <2>2. CASE d # c
    <3>1. Sound(client[d], worker[d], log[TopicOf[d]], TopicOf[d])
        BY DEF ConsumerInv
    <3>2. client'[d] \in ClientStates
        OBVIOUS
    <3> DEFINE m == client'[d]
               k == client[d]
    <3>3. /\ m \in ClientStates /\ worker'[d] = worker[d] /\ m.loop = k.loop
          /\ m.mine = k.mine /\ m.position = k.position /\ m.fetched = k.fetched
        BY <2>2, <3>2
    <3>4. Sound(k, worker[d], log[TopicOf[d]], TopicOf[d])
        BY <3>1
    <3> HIDE DEF m, k
    <3>5. Sound(m, worker[d], log[TopicOf[d]], TopicOf[d])
        BY <3>3, <3>4, SoundLoop
    <3> QED
        BY <3>3, <3>5 DEF m
  <2> QED
      BY <2>1, <2>2
<1>3. log[TopicOf[d]] \in Seq(Records) /\ log'[TopicOf[d]] \in Seq(Records)
    BY <1>1 DEF ConsumerInv, LogsAreLogs
<1>4. /\ Len(log[TopicOf[d]]) \in Nat /\ Len(log'[TopicOf[d]]) \in Nat
      /\ Len(log[TopicOf[d]]) <= Len(log'[TopicOf[d]])
      /\ \A i \in 1..Len(log[TopicOf[d]]) : log'[TopicOf[d]][i] = log[TopicOf[d]][i]
    BY <1>1, <1>3, LenProperties DEF LogsGrow
<1> QED
    BY <1>2, <1>4, SoundGrows

\* A record is put at the end of a topic: Publish, sendToRetry, reescalate.
LEMMA LogAppend ==
    ASSUME LogsAreLogs, NEW t \in Topics, NEW x \in Records, t = "main" => x.round = 0,
           log' = [log EXCEPT ![t] = Append(@, x)]
    PROVE  LogsAreLogs' /\ LogsGrow /\ Len(log'[t]) = Len(log[t]) + 1
           /\ log'[t][Len(log[t]) + 1] = x
<1>1. log[t] \in Seq(Records) /\ Len(log[t]) \in Nat
    BY LenProperties DEF LogsAreLogs
<1>2. /\ Append(log[t], x) \in Seq(Records) /\ Len(Append(log[t], x)) = Len(log[t]) + 1
      /\ \A i \in 1..Len(log[t]) : Append(log[t], x)[i] = log[t][i]
      /\ Append(log[t], x)[Len(log[t]) + 1] = x
    BY <1>1, AppendProperties
<1>3. log' \in [Topics -> Seq(Records)] /\ log'[t] = Append(log[t], x)
      /\ \A u \in Topics \ {t} : log'[u] = log[u]
    BY <1>2 DEF LogsAreLogs
<1>4. LogsGrow
  <2> SUFFICES ASSUME NEW u \in Topics
               PROVE  /\ Len(log[u]) <= Len(log'[u])
                      /\ \A i \in 1..Len(log[u]) : log'[u][i] = log[u][i]
      BY DEF LogsGrow
  <2>1. log[u] \in Seq(Records) /\ Len(log[u]) \in Nat
      BY LenProperties DEF LogsAreLogs
  <2> QED
      BY <1>1, <1>2, <1>3, <2>1
<1>5. \A i \in 1..Len(log'["main"]) : log'["main"][i].round = 0
  <2> SUFFICES ASSUME NEW i \in 1..Len(log'["main"]) PROVE log'["main"][i].round = 0
      OBVIOUS
  <2>1. CASE t = "main"
    <3>1. CASE i \in 1..Len(log["main"])
        BY <1>2, <1>3, <2>1, <3>1 DEF LogsAreLogs
    <3>2. CASE i = Len(log["main"]) + 1
        BY <1>2, <1>3, <2>1, <3>2
    <3> QED
        BY <1>1, <1>2, <1>3, <2>1, <3>1, <3>2
  <2>2. CASE t # "main"
      BY <1>3, <2>2 DEF LogsAreLogs, Topics
  <2> QED
      BY <2>1, <2>2
<1> QED
    BY <1>2, <1>3, <1>4, <1>5 DEF LogsAreLogs

\* A step that sends nothing.
LEMMA LogStays ==
    ASSUME LogsAreLogs, log' = log
    PROVE  LogsAreLogs' /\ LogsGrow
<1>1. \A t \in Topics : Len(log[t]) \in Nat
    BY LenProperties DEF LogsAreLogs
<1> QED
    BY <1>1 DEF LogsAreLogs, LogsGrow

\* What a step of the goroutine of c must show: its own next state, and what it does
\* to the broker.
LEMMA WorkerMoves ==
    ASSUME ConsumerInv, NEW c \in Clients, NEW w \in WorkerStates, Step(c, w),
           Sound(client[c], w, log[TopicOf[c]], TopicOf[c]),
           LogsAreLogs', LogsGrow, dead' \subseteq Events, applied' \subseteq Events,
           committed' \in [Topics -> Nat], \A t \in Topics : committed'[t] <= Len(log'[t]),
           crashes' \in 0..MaxCrashes, crashes' >= crashes,
           sideFailures' \in 0..MaxSideFailures, stops' \in 0..MaxStops
    PROVE  ConsumerInv'
<1>1. /\ worker' \in [Clients -> WorkerStates] /\ worker'[c] = w
      /\ \A d \in Clients \ {c} : worker'[d] = worker[d]
      /\ client' = client /\ owner' = owner /\ client \in [Clients -> ClientStates]
    BY DEF Step, ConsumerInv
<1>2. \A d \in Clients : Sound(client'[d], worker'[d], log'[TopicOf[d]], TopicOf[d])
  <2>1. Sound(client'[c], worker'[c], log[TopicOf[c]], TopicOf[c])
      BY <1>1
  <2> QED
      BY <1>1, <2>1, OneClientMoves
<1>3. Exclusive'
    BY <1>1 DEF ConsumerInv, Exclusive
<1>4. owner' \in [Topics -> Clients \cup {NoClient}]
    BY <1>1 DEF ConsumerInv
<1> QED
    BY <1>1, <1>2, <1>3, <1>4 DEF ConsumerInv

\* The record in hand is one of the log.
LEMMA RecordInHand ==
    ASSUME ConsumerInv, NEW c \in Clients, worker[c].at \in Busy
    PROVE  /\ TopicOf[c] \in Topics
           /\ Head(worker[c].batch) \in 1..Len(log[TopicOf[c]])
           /\ Record(c) \in Records
           /\ TopicOf[c] = "main" => Record(c).round = 0
<1> DEFINE w == worker[c]
<1>1. /\ w \in WorkerStates /\ Sound(client[c], w, log[TopicOf[c]], TopicOf[c])
      /\ client[c].position \in Nat /\ w.batch # <<>> /\ w.batch \in Seq(Nat)
    BY DEF ConsumerInv, ClientStates, WorkerStates, Sound, Shape
<1>2. Head(w.batch) \in 1..client[c].position
    BY <1>1, UpToTail DEF Sound, Fetched
<1>3. TopicOf[c] \in Topics
    BY DeliveryAssumption DEF ConsumerAssumption, Topics
<1>4. log[TopicOf[c]] \in Seq(Records) /\ Len(log[TopicOf[c]]) \in Nat
    BY <1>3, LenProperties DEF ConsumerInv, LogsAreLogs
<1>5. Head(w.batch) \in 1..Len(log[TopicOf[c]])
    BY SMTT(30), <1>1, <1>2, <1>4 DEF Sound, Fetched
<1>6. Record(c) \in Records
    BY <1>4, <1>5, ElementOfSeq DEF Record
<1>7. TopicOf[c] = "main" => Record(c).round = 0
    BY <1>5 DEF ConsumerInv, LogsAreLogs, Record
<1> QED
    BY <1>3, <1>5, <1>6, <1>7

\* Next1, as a state of the goroutine.
LEMMA Next1Sound ==
    ASSUME ConsumerInv, NEW c \in Clients, worker[c].at \in Busy
    PROVE  /\ Next1(c) \in WorkerStates
           /\ Sound(client[c], Next1(c), log[TopicOf[c]], TopicOf[c])
<1> DEFINE w == worker[c]
           v == Next1(c)
<1>1. /\ w \in WorkerStates /\ Sound(client[c], w, log[TopicOf[c]], TopicOf[c])
      /\ w.batch # <<>> /\ w.batch \in Seq(Nat)
    BY DEF ConsumerInv, WorkerStates, Sound, Shape
<1>2. Tail(w.batch) \in Seq(Nat)
    BY <1>1, TailFacts
<1>3. 0 \in 0..MaxRetryAttempts
    BY DeliveryAssumption DEF ConsumerAssumption
<1>4. /\ v \in WorkerStates /\ v.batch = Tail(w.batch) /\ v.recs = w.recs
      /\ v.at = IF Len(w.batch) > 1 THEN "next" ELSE "idle"
    BY <1>1, <1>2, <1>3 DEF Next1, WorkerStates, Busy
<1> HIDE DEF v
<1>5. Sound(client[c], v, log[TopicOf[c]], TopicOf[c])
    BY <1>1, <1>4, SoundNext1
<1> QED
    BY <1>4, <1>5 DEF v

\* A step of the goroutine that keeps its batch: only its place, or its attempt.
LEMMA PlaceSound ==
    ASSUME ConsumerInv, NEW c \in Clients, NEW v \in WorkerStates,
           v.recs = worker[c].recs, v.batch = worker[c].batch, worker[c].at # "none",
           v.at \in {"done"} \cup Busy, v.at \in Busy => worker[c].at \in Busy,
           v.at = "wait" => TopicOf[c] = "retry",
           v.at = "side" /\ TopicOf[c] = "retry" => Record(c).round < MaxRetryRounds
    PROVE  Sound(client[c], v, log[TopicOf[c]], TopicOf[c])
<1>1. Sound(client[c], worker[c], log[TopicOf[c]], TopicOf[c])
    BY DEF ConsumerInv
<1> QED
    BY <1>1, SoundPlace DEF Record

\* A goroutine goes on to another place with the same work in hand.
LEMMA AtFacts ==
    ASSUME ConsumerInv, NEW c \in Clients, NEW place \in {"done"} \cup Busy
    PROVE  /\ At(c, place) \in WorkerStates /\ At(c, place).at = place
           /\ At(c, place).recs = worker[c].recs /\ At(c, place).batch = worker[c].batch
<1>1. worker[c] \in WorkerStates
    BY DEF ConsumerInv
<1> QED
    BY <1>1 DEF At, WorkerStates

\* Take, Quit, Begin and WaitForRetryAt say nothing to the broker.
LEMMA QuietWorkerSteps ==
    ASSUME ConsumerInv, NEW c \in Clients,
           Take(c) \/ Quit(c) \/ Begin(c) \/ WaitForRetryAt(c)
    PROVE  \E w \in WorkerStates :
               /\ Step(c, w) /\ Sound(client[c], w, log[TopicOf[c]], TopicOf[c])
               /\ UNCHANGED broker /\ NoFault
<1>1. /\ worker[c] \in WorkerStates
      /\ Sound(client[c], worker[c], log[TopicOf[c]], TopicOf[c])
    BY DEF ConsumerInv
<1>2. MaxRetryAttempts \in Nat \ {0}
    BY DeliveryAssumption DEF ConsumerAssumption
<1> DEFINE handling == [At(c, "handle") EXCEPT !.attempt = 1]
<1>3. /\ handling \in WorkerStates /\ handling.at = "handle"
      /\ handling.recs = worker[c].recs /\ handling.batch = worker[c].batch
  <2> DEFINE x == At(c, "handle")
  <2>1. /\ x \in WorkerStates /\ x.at = "handle"
        /\ x.recs = worker[c].recs /\ x.batch = worker[c].batch
      BY AtFacts DEF Busy
  <2>2. handling = [x EXCEPT !.attempt = 1] /\ 1 \in 0..MaxRetryAttempts
      BY <1>2
  <2> HIDE DEF x, handling
  <2> QED
      BY <2>1, <2>2 DEF WorkerStates
<1> HIDE DEF handling
<1>4. CASE Take(c)
  <2> DEFINE v == [At(c, "next") EXCEPT !.batch = Head(worker[c].recs), !.recs = Tail(@)]
  <2>1. worker[c].recs \in Seq(Seq(Nat)) /\ worker[c].recs # <<>>
      BY <1>1, <1>4 DEF WorkerStates, Take
  <2>2. Head(worker[c].recs) \in Seq(Nat) /\ Tail(worker[c].recs) \in Seq(Seq(Nat))
      BY <2>1, TailFacts
  <2>3. /\ v \in WorkerStates /\ v.at = "next"
        /\ v.batch = Head(worker[c].recs) /\ v.recs = Tail(worker[c].recs)
      BY <1>1, <2>2 DEF At, WorkerStates, Busy
  <2>4. Step(c, v) /\ UNCHANGED broker /\ NoFault /\ worker[c].at = "idle"
      BY <1>4 DEF Take
  <2> HIDE DEF v
  <2>5. Sound(client[c], v, log[TopicOf[c]], TopicOf[c])
      BY <1>1, <2>1, <2>3, <2>4, SoundTake
  <2> QED
      BY <2>3, <2>4, <2>5
<1>5. CASE Quit(c)
  <2>1. Step(c, At(c, "done")) /\ UNCHANGED broker /\ NoFault /\ worker[c].at # "none"
      BY <1>5 DEF Quit
  <2>2. "done" \notin Busy
      BY DEF Busy
  <2>3. Sound(client[c], At(c, "done"), log[TopicOf[c]], TopicOf[c])
      BY <2>1, <2>2, AtFacts, PlaceSound
  <2> QED
      BY <2>1, <2>3, AtFacts
<1>6. (worker[c].at \in Busy) => Sound(client[c], handling, log[TopicOf[c]], TopicOf[c])
  <2> HAVE worker[c].at \in Busy
  <2>1. worker[c].at # "none" /\ handling.at \in Busy
      BY <1>3 DEF Busy
  <2> QED
      BY <1>3, <2>1, PlaceSound
<1>7. CASE Begin(c)
  <2>1. worker[c].at \in Busy /\ worker[c].at # "none" /\ UNCHANGED broker /\ NoFault
      BY <1>7 DEF Begin, Busy
  <2>2. CASE Step(c, handling)
      BY <1>3, <1>6, <2>1, <2>2
  <2>3. CASE TopicOf[c] = "retry" /\ Step(c, At(c, "wait"))
    <3>1. "wait" \in Busy
        BY DEF Busy
    <3>2. Sound(client[c], At(c, "wait"), log[TopicOf[c]], TopicOf[c])
        BY <2>1, <2>3, <3>1, AtFacts, PlaceSound
    <3> QED
        BY <2>1, <2>3, <3>1, <3>2, AtFacts
  <2> QED
      BY <1>7, <2>2, <2>3 DEF Begin, handling
<1>8. CASE WaitForRetryAt(c)
  <2>1. worker[c].at \in Busy /\ UNCHANGED broker /\ NoFault
      BY <1>8 DEF WaitForRetryAt, Busy
  <2>2. CASE Step(c, handling)
      BY <1>3, <1>6, <2>1, <2>2
  <2>3. CASE Step(c, Next1(c))
      BY <2>1, <2>3, Next1Sound
  <2> QED
      BY <1>8, <2>2, <2>3 DEF WaitForRetryAt, handling
<1> QED
    BY <1>4, <1>5, <1>7, <1>8

\* The handler is called: the record is applied, or goes to the retry topic or the DLQ.
LEMMA HandleKeeps ==
    ASSUME ConsumerInv, NEW c \in Clients, Handle(c)
    PROVE  \E w \in WorkerStates :
               /\ Step(c, w) /\ Sound(client[c], w, log[TopicOf[c]], TopicOf[c])
               /\ applied' \subseteq Events /\ UNCHANGED <<log, dead, committed>> /\ NoFault
<1>1. /\ worker[c] \in WorkerStates /\ worker[c].at = "handle" /\ worker[c].at \in Busy
      /\ worker[c].at # "none" /\ UNCHANGED <<log, dead, committed>> /\ NoFault
      /\ applied \subseteq Events /\ Record(c).event \in Events
  <2>1. worker[c] \in WorkerStates /\ worker[c].at = "handle" /\ worker[c].at \in Busy
      BY DEF ConsumerInv, Handle, Busy
  <2>2. Record(c) \in Records
      BY <2>1, RecordInHand
  <2>3. UNCHANGED <<log, dead, committed>> /\ NoFault /\ applied \subseteq Events
    <3>1. NoFault
        BY DEF Handle, Step, NoFault
    <3> QED
        BY <3>1 DEF ConsumerInv, Handle
  <2> QED
      BY <2>1, <2>2, <2>3 DEF Records
<1>2. applied' \subseteq Events
    BY <1>1 DEF Handle
<1>3. ASSUME NEW place \in Busy, place # "wait",
             place = "side" /\ TopicOf[c] = "retry" => Record(c).round < MaxRetryRounds
      PROVE  /\ At(c, place) \in WorkerStates
             /\ Sound(client[c], At(c, place), log[TopicOf[c]], TopicOf[c])
  <2>1. /\ At(c, place) \in WorkerStates /\ At(c, place).at = place
        /\ At(c, place).recs = worker[c].recs /\ At(c, place).batch = worker[c].batch
      BY <1>3, AtFacts
  <2> QED
      BY <1>1, <1>3, <2>1, PlaceSound
<1>4. CASE Step(c, At(c, "commit"))
    BY <1>1, <1>2, <1>3, <1>4 DEF Busy
<1>5. CASE Step(c, At(c, "dlq"))
    BY <1>1, <1>2, <1>3, <1>5 DEF Busy
<1>6. CASE TopicOf[c] = "main" /\ Step(c, At(c, "side"))
    BY <1>1, <1>2, <1>3, <1>6 DEF Busy
<1>7. CASE worker[c].attempt < MaxRetryAttempts /\ Step(c, [worker[c] EXCEPT !.attempt = @ + 1])
  <2> DEFINE v == [worker[c] EXCEPT !.attempt = @ + 1]
  <2>1. MaxRetryAttempts \in Nat /\ worker[c].attempt \in Nat
      BY <1>1, DeliveryAssumption DEF ConsumerAssumption, WorkerStates
  <2>2. worker[c].attempt + 1 \in 0..MaxRetryAttempts
      BY <1>7, <2>1
  <2>3. /\ v \in WorkerStates /\ v.at = "handle"
        /\ v.recs = worker[c].recs /\ v.batch = worker[c].batch
      BY <1>1, <2>2 DEF WorkerStates
  <2> HIDE DEF v
  <2>4. Sound(client[c], v, log[TopicOf[c]], TopicOf[c])
      BY <1>1, <2>3, PlaceSound DEF Busy
  <2>5. Step(c, v)
      BY <1>7 DEF v
  <2> QED
      BY <1>1, <1>2, <2>3, <2>4, <2>5
<1>8. CASE TopicOf[c] = "retry" /\ Reescalate(c)
  <2>1. CASE Record(c).round < MaxRetryRounds
      BY <1>1, <1>2, <1>3, <1>8, <2>1 DEF Busy, Reescalate
  <2>2. CASE ~(Record(c).round < MaxRetryRounds)
      BY <1>1, <1>2, <1>3, <1>8, <2>2 DEF Busy, Reescalate
  <2> QED
      BY <2>1, <2>2
<1> QED
    BY <1>4, <1>5, <1>6, <1>7, <1>8 DEF Handle

\* The next round of the record in hand is one that the retry topic may hold.
LEMMA NextRound ==
    ASSUME ConsumerInv, NEW c \in Clients, worker[c].at = "side"
    PROVE  [Record(c) EXCEPT !.round = @ + 1] \in Records
<1>1. /\ worker[c].at \in Busy
      /\ TopicOf[c] \in Topics /\ Record(c) \in Records
      /\ TopicOf[c] = "main" => Record(c).round = 0
    BY RecordInHand DEF Busy
<1>2. MaxRetryRounds \in Nat \ {0}
    BY DeliveryAssumption DEF ConsumerAssumption
<1>3. TopicOf[c] = "retry" => Record(c).round < MaxRetryRounds
    BY DEF ConsumerInv, Sound, Shape, Record
<1>4. Record(c).round + 1 \in 0..MaxRetryRounds
    BY <1>1, <1>2, <1>3 DEF Topics, Records
<1> QED
    BY <1>1, <1>4 DEF Records

\* A record that goes to a side topic is at its end.
LEMMA SideSentGrows ==
    ASSUME ConsumerInv, NEW c \in Clients, worker[c].at \in {"side", "dlq"},
           SideSent(c) \/ UNCHANGED <<log, dead>>
    PROVE  /\ LogsAreLogs' /\ LogsGrow /\ dead' \subseteq Events /\ dead \subseteq dead'
           /\ SideSent(c) /\ worker[c].at = "side"
                  => /\ Len(log'["retry"]) = Len(log["retry"]) + 1
                     /\ log'["retry"][Len(log["retry"]) + 1].event = Record(c).event
<1>1. LogsAreLogs /\ dead \subseteq Events
    BY DEF ConsumerInv
<1>2. Record(c) \in Records
    BY RecordInHand DEF Busy
<1>3. CASE UNCHANGED <<log, dead>> /\ ~SideSent(c)
    BY <1>1, <1>3, LogStays
<1>4. CASE SideSent(c) /\ worker[c].at = "dlq"
    BY <1>1, <1>2, <1>4, LogStays DEF SideSent, Records
<1>5. CASE SideSent(c) /\ worker[c].at = "side"
  <2> DEFINE x == [Record(c) EXCEPT !.round = @ + 1]
  <2>1. x \in Records /\ x.event = Record(c).event /\ "retry" \in Topics
      BY <1>2, <1>5, NextRound DEF Topics, Records
  <2>2. log' = [log EXCEPT !["retry"] = Append(@, x)] /\ dead' = dead
      BY <1>5 DEF SideSent
  <2> HIDE DEF x
  <2> QED
      BY <1>1, <2>1, <2>2, LogAppend
<1> QED
    BY <1>3, <1>4, <1>5

\* Every step of a goroutine (kafka.go:374-424, retry.go:224-330).
LEMMA WorkerStepKeeps ==
    ASSUME ConsumerInv, NEW c \in Clients, WorkerStep(c)
    PROVE  ConsumerInv'
<1>1. /\ LogsAreLogs /\ dead \subseteq Events /\ applied \subseteq Events
      /\ committed \in [Topics -> Nat] /\ \A t \in Topics : committed[t] <= Len(log[t])
      /\ crashes \in 0..MaxCrashes /\ sideFailures \in 0..MaxSideFailures
      /\ stops \in 0..MaxStops /\ worker[c] \in WorkerStates
      /\ client[c] \in ClientStates
      /\ Sound(client[c], worker[c], log[TopicOf[c]], TopicOf[c])
    BY DEF ConsumerInv
<1>2. MaxCrashes \in Nat /\ MaxSideFailures \in Nat
    BY DeliveryAssumption DEF ConsumerAssumption
<1>3. \A t \in Topics : Len(log[t]) \in Nat
    BY <1>1, LenProperties DEF LogsAreLogs
<1>4. CASE Take(c) \/ Quit(c) \/ Begin(c) \/ WaitForRetryAt(c)
  <2> PICK w \in WorkerStates : /\ Step(c, w)
                                /\ Sound(client[c], w, log[TopicOf[c]], TopicOf[c])
                                /\ UNCHANGED broker /\ NoFault
      BY <1>4, QuietWorkerSteps
  <2>1. /\ LogsAreLogs' /\ LogsGrow /\ dead' \subseteq Events /\ applied' \subseteq Events
        /\ committed' \in [Topics -> Nat] /\ \A t \in Topics : committed'[t] <= Len(log'[t])
        /\ crashes' = crashes /\ sideFailures' = sideFailures /\ stops' = stops
      BY <1>1, LogStays DEF broker, NoFault
  <2> QED
      BY <1>1, <1>2, <2>1, WorkerMoves
<1>5. CASE Handle(c)
  <2> PICK w \in WorkerStates :
          /\ Step(c, w) /\ Sound(client[c], w, log[TopicOf[c]], TopicOf[c])
          /\ applied' \subseteq Events /\ UNCHANGED <<log, dead, committed>> /\ NoFault
      BY <1>5, HandleKeeps
  <2>1. /\ LogsAreLogs' /\ LogsGrow /\ dead' \subseteq Events
        /\ committed' \in [Topics -> Nat] /\ \A t \in Topics : committed'[t] <= Len(log'[t])
        /\ crashes' = crashes /\ sideFailures' = sideFailures /\ stops' = stops
      BY <1>1, LogStays DEF NoFault
  <2> QED
      BY <1>1, <1>2, <2>1, WorkerMoves
<1>6. CASE Side(c)
  <2>1. /\ worker[c].at \in {"side", "dlq"} /\ worker[c].at \in Busy
        /\ worker[c].at # "none" /\ (SideSent(c) \/ UNCHANGED <<log, dead>>)
        /\ UNCHANGED <<applied, committed>>
      BY <1>6 DEF Side, Busy
  <2>2. LogsAreLogs' /\ LogsGrow /\ dead' \subseteq Events
      BY <2>1, SideSentGrows
  <2>3. committed' \in [Topics -> Nat] /\ \A t \in Topics : committed'[t] <= Len(log'[t])
      BY <1>1, <1>3, <2>1, <2>2, LenProperties DEF LogsGrow, LogsAreLogs
  <2>4. CASE Step(c, At(c, "commit")) /\ NoFault
    <3>1. Sound(client[c], At(c, "commit"), log[TopicOf[c]], TopicOf[c])
        BY <2>1, AtFacts, PlaceSound DEF Busy
    <3>2. At(c, "commit") \in WorkerStates
        BY AtFacts DEF Busy
    <3>3. crashes' = crashes /\ sideFailures' = sideFailures /\ stops' = stops
        BY <2>4 DEF NoFault
    <3> QED
        BY <1>1, <1>2, <2>1, <2>2, <2>3, <2>4, <3>1, <3>2, <3>3, WorkerMoves
  <2>5. CASE /\ \/ NoFault
                \/ /\ sideFailures < MaxSideFailures /\ sideFailures' = sideFailures + 1
                   /\ UNCHANGED <<crashes, stops>>
             /\ Step(c, Next1(c))
    <3>1. /\ Next1(c) \in WorkerStates
          /\ Sound(client[c], Next1(c), log[TopicOf[c]], TopicOf[c])
        BY <2>1, Next1Sound
    <3>2. /\ crashes' = crashes /\ stops' = stops
          /\ sideFailures' \in 0..MaxSideFailures
        BY <1>1, <1>2, <2>5 DEF NoFault
    <3> QED
        BY <1>1, <1>2, <2>1, <2>2, <2>3, <2>5, <3>1, <3>2, WorkerMoves
  <2> QED
      BY <1>6, <2>4, <2>5 DEF Side
<1>7. CASE Commit(c)
  <2>1. worker[c].at \in Busy /\ Step(c, Next1(c)) /\ UNCHANGED <<log, dead, applied>>
      BY <1>7 DEF Commit, Busy
  <2>2. /\ Next1(c) \in WorkerStates
        /\ Sound(client[c], Next1(c), log[TopicOf[c]], TopicOf[c])
        /\ TopicOf[c] \in Topics
        /\ Head(worker[c].batch) \in 1..Len(log[TopicOf[c]])
      BY <2>1, Next1Sound, RecordInHand
  <2>3. LogsAreLogs' /\ LogsGrow
      BY <1>1, <2>1, LogStays
  <2>4. /\ crashes' \in 0..MaxCrashes /\ crashes' >= crashes
        /\ sideFailures' = sideFailures /\ stops' = stops
      BY <1>1, <1>2, <1>7 DEF Commit, NoFault, Crashing
  <2>5. \/ committed' = [committed EXCEPT ![TopicOf[c]] = Head(worker[c].batch)]
        \/ committed' = committed
      BY <1>7 DEF Commit
  <2>6. committed' \in [Topics -> Nat] /\ \A t \in Topics : committed'[t] <= Len(log'[t])
      BY <1>1, <1>3, <2>1, <2>2, <2>5
  <2> QED
      BY <1>1, <1>2, <2>1, <2>2, <2>3, <2>4, <2>6, WorkerMoves
<1> QED
    BY <1>4, <1>5, <1>6, <1>7 DEF WorkerStep

\* What a step of the loop of c, or of the coordinator about c, must show.
LEMMA ClientMoves ==
    ASSUME ConsumerInv, NEW c \in Clients,
           client' \in [Clients -> ClientStates], worker' \in [Clients -> WorkerStates],
           \A d \in Clients \ {c} :
               /\ worker'[d] = worker[d]
               /\ client'[d].loop = client[d].loop /\ client'[d].mine = client[d].mine
               /\ client'[d].position = client[d].position
               /\ client'[d].fetched = client[d].fetched,
           Sound(client'[c], worker'[c], log[TopicOf[c]], TopicOf[c]),
           UNCHANGED broker, owner' \in [Topics -> Clients \cup {NoClient}],
           crashes' = 0 => \A d \in Clients : client'[d].mine => owner'[TopicOf[d]] = d,
           crashes' \in 0..MaxCrashes, UNCHANGED sideFailures, stops' \in 0..MaxStops
    PROVE  ConsumerInv'
<1>1. LogsAreLogs' /\ LogsGrow
    BY LogStays DEF ConsumerInv, broker
<1>2. \A d \in Clients : Sound(client'[d], worker'[d], log'[TopicOf[d]], TopicOf[d])
    BY <1>1, OneClientMoves
<1>3. /\ dead' \subseteq Events /\ applied' \subseteq Events
      /\ committed' \in [Topics -> Nat] /\ \A t \in Topics : committed'[t] <= Len(log'[t])
      /\ sideFailures' \in 0..MaxSideFailures
    BY DEF ConsumerInv, broker
<1>4. Exclusive'
    BY DEF Exclusive
<1> QED
    BY <1>1, <1>2, <1>3, <1>4 DEF ConsumerInv

\* The coordinator gives a partition to one client; it takes it back from no other.
LEMMA OwnerFacts ==
    ASSUME ConsumerInv, NEW c \in Clients
    PROVE  /\ Released(c) \in [Topics -> Clients \cup {NoClient}]
           /\ TopicOf[c] \in Topics
           /\ \A d \in Clients \ {c} :
                  owner[TopicOf[d]] = d => Released(c)[TopicOf[d]] = d
<1>1. \A d \in Clients : TopicOf[d] \in Topics
    BY DeliveryAssumption DEF ConsumerAssumption, Topics
<1>2. owner \in [Topics -> Clients \cup {NoClient}]
    BY DEF ConsumerInv
<1> QED
    BY <1>1, <1>2 DEF Released

\* A client that is down has nothing in hand.
LEMMA Bare ==
    /\ Down \in ClientStates /\ NoWorker \in WorkerStates
    /\ Down.loop = "down" /\ ~Down.mine /\ Down.position = 0 /\ Down.fetched = <<>>
    /\ NoWorker.at = "none"
<1>1. Down \in ClientStates
    BY DEF Down, ClientStates
<1>2. NoWorker \in WorkerStates
    BY DeliveryAssumption DEF NoWorker, WorkerStates, ConsumerAssumption
<1>3. Down.loop = "down" /\ ~Down.mine /\ Down.position = 0 /\ Down.fetched = <<>>
    BY DEF Down
<1> QED
    BY <1>1, <1>2, <1>3 DEF NoWorker

\* A client that is not up has neither records nor a goroutine.
LEMMA BareSound ==
    ASSUME ConsumerInv, NEW c \in Clients, NEW k \in ClientStates,
           k.loop \in {"down", "poll"}, ~k.mine, k.position = 0, k.fetched = <<>>,
           NEW w, w = NoWorker \/ (w = worker[c] /\ client[c].loop = "down")
    PROVE  Sound(k, w, log[TopicOf[c]], TopicOf[c])
<1>1. log[TopicOf[c]] \in Seq(Records)
    BY OwnerFacts DEF ConsumerInv, LogsAreLogs
<1>2. Len(log[TopicOf[c]]) \in Nat
    BY <1>1, LenProperties
<1>3. Sound(client[c], worker[c], log[TopicOf[c]], TopicOf[c])
    BY DEF ConsumerInv
<1>4. w = NoWorker \/ \E m : Sound(m, w, log[TopicOf[c]], TopicOf[c]) /\ m.loop = "down"
    BY <1>3
<1>5. k.position <= Len(log[TopicOf[c]])
    BY <1>2
<1> QED
    BY <1>2, <1>4, <1>5, SoundWithout

\* A client that gives up its partition may do so for one that has joined.
LEMMA JoinedOrNot ==
    ASSUME client \in [Clients -> ClientStates], NEW c \in Clients, NEW m \in ClientStates,
           \/ client' = [client EXCEPT ![c] = m]
           \/ \E d \in Clients \ {c} : client' = [client EXCEPT ![c] = m, ![d].joined = FALSE]
    PROVE  /\ client' \in [Clients -> ClientStates] /\ client'[c] = m
           /\ \A d \in Clients \ {c} :
                 /\ client'[d].loop = client[d].loop /\ client'[d].mine = client[d].mine
                 /\ client'[d].position = client[d].position
                 /\ client'[d].fetched = client[d].fetched
                 /\ client'[d].stopping = client[d].stopping
<1>1. /\ client'[c] = m
      /\ \A d \in Clients \ {c} :
            \/ client'[d] = client[d]
            \/ client'[d] = [client[d] EXCEPT !.joined = FALSE]
      /\ client' = [d \in Clients |-> client'[d]]
    OBVIOUS
<1>2. \A d \in Clients \ {c} :
          /\ client'[d] \in ClientStates
          /\ client'[d].loop = client[d].loop /\ client'[d].mine = client[d].mine
          /\ client'[d].position = client[d].position
          /\ client'[d].fetched = client[d].fetched
          /\ client'[d].stopping = client[d].stopping
  <2> TAKE d \in Clients \ {c}
  <2>1. client[d] \in ClientStates
      OBVIOUS
  <2>2. CASE client'[d] = client[d]
      BY <2>1, <2>2
  <2>3. CASE client'[d] = [client[d] EXCEPT !.joined = FALSE]
      BY <2>1, <2>3 DEF ClientStates
  <2> QED
      BY <1>1, <2>2, <2>3
<1>3. client' \in [Clients -> ClientStates]
    BY <1>1, <1>2
<1> QED
    BY <1>1, <1>2, <1>3

\* Every step of a client's loop, of the coordinator about it, and its death.
LEMMA LoopStepKeeps ==
    ASSUME ConsumerInv, NEW c \in Clients,
           \/ LoopStep(c) \/ Revoked(c) \/ RevokedUnheard(c) \/ SessionExpires(c)
           \/ Crash(c) \/ Cancel(c) \/ FetchFails(c)
    PROVE  ConsumerInv'
<1> DEFINE t == TopicOf[c]
           l == log[TopicOf[c]]
           k == client[c]
           w == worker[c]
<1>1. /\ client \in [Clients -> ClientStates] /\ worker \in [Clients -> WorkerStates]
      /\ k \in ClientStates /\ w \in WorkerStates /\ Sound(k, w, l, t)
      /\ owner \in [Topics -> Clients \cup {NoClient}]
      /\ committed \in [Topics -> Nat] /\ \A u \in Topics : committed[u] <= Len(log[u])
      /\ crashes \in 0..MaxCrashes /\ stops \in 0..MaxStops
      /\ crashes = 0 => \A d \in Clients : client[d].mine => owner[TopicOf[d]] = d
    BY DEF ConsumerInv, Exclusive
<1>2. MaxCrashes \in Nat /\ MaxStops \in Nat /\ NoClient \notin Clients
    BY DeliveryAssumption DEF ConsumerAssumption
<1>3. t \in Topics /\ l \in Seq(Records) /\ Len(l) \in Nat
    BY OwnerFacts, LenProperties DEF ConsumerInv, LogsAreLogs
<1>4. CASE Run(c)
  <2> DEFINE m == [Down EXCEPT !.loop = "poll", !.joined = TRUE]
  <2>1. /\ m \in ClientStates /\ m.loop = "poll" /\ ~m.mine /\ m.position = 0
        /\ m.fetched = <<>>
      BY Bare DEF ClientStates
  <2>2. /\ client' = [client EXCEPT ![c] = m] /\ worker' = worker /\ owner' = owner
        /\ UNCHANGED broker /\ crashes' = crashes /\ sideFailures' = sideFailures
        /\ stops' = stops /\ k.loop = "down"
      BY <1>4 DEF Run, NoFault
  <2> HIDE DEF m
  <2>3. Sound(m, w, l, t)
      BY <2>1, <2>2, BareSound
  <2>4. client'[c] = m /\ \A d \in Clients \ {c} : client'[d] = client[d]
      BY <1>1, <2>2
  <2>5. client' \in [Clients -> ClientStates] /\ Sound(client'[c], worker'[c], l, t)
      BY <1>1, <2>1, <2>2, <2>3, <2>4
  <2>6. crashes' = 0 => \A d \in Clients : client'[d].mine => owner'[TopicOf[d]] = d
      BY <1>1, <2>1, <2>2, <2>4
  <2> QED
      BY <1>1, <2>2, <2>4, <2>5, <2>6, ClientMoves
<1>5. CASE Assigned(c)
  <2> DEFINE n == committed[t]
  <2>1. /\ k.loop = "poll" /\ ~k.mine /\ owner[t] = NoClient
        /\ owner' = [owner EXCEPT ![t] = c]
        /\ client' = [client EXCEPT ![c].mine = TRUE, ![c].joined = FALSE,
                                    ![c].position = n]
        /\ worker' = [worker EXCEPT ![c] = [NoWorker EXCEPT !.at = "idle"]]
        /\ UNCHANGED broker /\ crashes' = crashes /\ sideFailures' = sideFailures
        /\ stops' = stops
      BY <1>5 DEF Assigned, NoFault
  <2>2. n \in Nat /\ n <= Len(l)
      BY <1>1, <1>3
  <2> HIDE DEF n
  <2>3. /\ client' \in [Clients -> ClientStates]
        /\ client'[c].loop = "poll" /\ client'[c].mine /\ client'[c].position = n
        /\ client'[c].fetched = k.fetched
        /\ \A d \in Clients \ {c} : client'[d] = client[d]
      BY <1>1, <2>1, <2>2 DEF ClientStates
  <2>4. /\ worker' \in [Clients -> WorkerStates]
        /\ worker'[c] = [NoWorker EXCEPT !.at = "idle"]
        /\ \A d \in Clients \ {c} : worker'[d] = worker[d]
    <3>1. [NoWorker EXCEPT !.at = "idle"] \in WorkerStates
        BY Bare DEF WorkerStates
    <3> QED
        BY <1>1, <2>1, <3>1
  <2>5. client'[c] \in ClientStates
      BY <2>3
  <2>6. Sound(client'[c], worker'[c], l, t)
    <3> DEFINE m == client'[c]
    <3>1. /\ m \in ClientStates /\ m.loop = "poll" /\ m.mine /\ m.position = n
          /\ m.fetched = k.fetched
        BY <2>3, <2>5
    <3> HIDE DEF m
    <3>2. Sound(m, [NoWorker EXCEPT !.at = "idle"], l, t)
        BY <1>1, <2>1, <2>2, <3>1, SoundAssigned
    <3> QED
        BY <2>4, <3>2 DEF m
  <2>7. owner' \in [Topics -> Clients \cup {NoClient}] /\ owner'[t] = c
        /\ \A u \in Topics \ {t} : owner'[u] = owner[u]
      BY <1>1, <1>3, <2>1
  <2>8. crashes' = 0 => \A d \in Clients : client'[d].mine => owner'[TopicOf[d]] = d
    <3> SUFFICES ASSUME crashes' = 0, NEW d \in Clients, client'[d].mine
                 PROVE  owner'[TopicOf[d]] = d
        OBVIOUS
    <3>1. CASE d = c
        BY <2>7, <3>1
    <3>2. CASE d # c
        BY <1>1, <1>2, <2>1, <2>3, <2>7, <3>2, OwnerFacts
    <3> QED
        BY <3>1, <3>2
  <2> QED
      BY <1>1, <2>1, <2>3, <2>4, <2>6, <2>7, <2>8, ClientMoves
<1>6. CASE RevokedDone(c)
  <2>1. /\ k.loop = "callback"
        /\ client' = [client EXCEPT ![c].loop = "poll", ![c].mine = FALSE]
        /\ worker' = [worker EXCEPT ![c] = NoWorker] /\ owner' = Released(c)
        /\ UNCHANGED broker /\ crashes' = crashes /\ sideFailures' = sideFailures
        /\ stops' = stops
      BY <1>6 DEF RevokedDone, NoFault
  <2>2. /\ client' \in [Clients -> ClientStates]
        /\ client'[c].loop = "poll" /\ ~client'[c].mine
        /\ client'[c].position = k.position /\ client'[c].fetched = k.fetched
        /\ \A d \in Clients \ {c} : client'[d] = client[d]
      BY <1>1, <2>1 DEF ClientStates
  <2>3. /\ worker' \in [Clients -> WorkerStates] /\ worker'[c] = NoWorker
        /\ \A d \in Clients \ {c} : worker'[d] = worker[d]
      BY <1>1, <2>1, Bare
  <2>4. client'[c].position <= Len(l) /\ client'[c].fetched = <<>>
      BY <1>1, <2>1, <2>2 DEF Sound, Shape, Fetched
  <2>5. Sound(client'[c], worker'[c], l, t)
    <3>1. client'[c] \in ClientStates
        BY <2>2
    <3> QED
        BY <1>3, <2>2, <2>3, <2>4, <3>1, SoundWithout
  <2>6. owner' \in [Topics -> Clients \cup {NoClient}]
      BY <2>1, OwnerFacts
  <2>7. crashes' = 0 => \A d \in Clients : client'[d].mine => owner'[TopicOf[d]] = d
      BY <1>1, <2>1, <2>2, OwnerFacts
  <2> QED
      BY <1>1, <2>1, <2>2, <2>3, <2>5, <2>6, <2>7, ClientMoves
<1>7. CASE PollFetches(c)
  <2>1. PICK n \in (k.position + 1)..Len(l) :
            client' = [client EXCEPT ![c].loop = "dispatch", ![c].poller = TRUE,
                                     ![c].position = n,
                                     ![c].fetched = Offsets(k.position, n)]
      BY <1>7 DEF PollFetches
  <2>2. /\ k.mine /\ k.loop = "poll" /\ worker' = worker /\ owner' = owner
        /\ UNCHANGED broker /\ crashes' = crashes /\ sideFailures' = sideFailures
        /\ stops' = stops
      BY <1>7 DEF PollFetches, NoFault
  <2>3. k.position \in Nat /\ n \in Nat /\ n > k.position
      BY <1>1, <1>3 DEF ClientStates
  <2>4. Offsets(k.position, n) \in Seq(Nat)
      BY <2>3 DEF Offsets
  <2>5. /\ client' \in [Clients -> ClientStates]
        /\ client'[c].loop = "dispatch" /\ client'[c].mine /\ client'[c].position = n
        /\ client'[c].fetched = Offsets(k.position, n)
        /\ \A d \in Clients \ {c} : client'[d] = client[d]
      BY <1>1, <2>1, <2>2, <2>3, <2>4 DEF ClientStates
  <2>6. client'[c] \in ClientStates
      BY <2>5
  <2>7. Sound(client'[c], w, l, t)
      BY <1>1, <1>3, <2>2, <2>5, <2>6, SoundPoll
  <2>8. crashes' = 0 => \A d \in Clients : client'[d].mine => owner'[TopicOf[d]] = d
      BY <1>1, <2>2, <2>5
  <2> QED
      BY <1>1, <2>2, <2>5, <2>7, <2>8, ClientMoves
<1>8. CASE Dispatch(c)
  <2>1. /\ k.loop = "dispatch" /\ Len(w.recs) < ChannelSize
        /\ worker' = [worker EXCEPT ![c].recs = Append(@, k.fetched)]
        /\ client' = [client EXCEPT ![c].loop = "poll", ![c].poller = FALSE,
                                    ![c].fetched = <<>>]
        /\ owner' = owner /\ UNCHANGED broker /\ crashes' = crashes
        /\ sideFailures' = sideFailures /\ stops' = stops
      BY <1>8 DEF Dispatch, HasRoom, NoFault
  <2>2. Append(w.recs, k.fetched) \in Seq(Seq(Nat))
      BY <1>1, AppendProperties DEF WorkerStates, ClientStates
  <2>3. /\ worker' \in [Clients -> WorkerStates]
        /\ worker'[c].recs = Append(w.recs, k.fetched)
        /\ worker'[c].at = w.at /\ worker'[c].batch = w.batch
        /\ \A d \in Clients \ {c} : worker'[d] = worker[d]
      BY <1>1, <2>1, <2>2 DEF WorkerStates
  <2>4. /\ client' \in [Clients -> ClientStates]
        /\ client'[c].loop = "poll" /\ client'[c].mine = k.mine
        /\ client'[c].position = k.position /\ client'[c].fetched = <<>>
        /\ \A d \in Clients \ {c} : client'[d] = client[d]
    <3>1. <<>> \in Seq(Nat)
        OBVIOUS
    <3>2. client'[c] = [k EXCEPT !.loop = "poll", !.poller = FALSE, !.fetched = <<>>]
        BY <1>1, <2>1
    <3>3. client'[c] \in ClientStates
        BY <1>1, <3>1, <3>2 DEF ClientStates
    <3> QED
        BY <1>1, <2>1, <3>2, <3>3 DEF ClientStates
  <2>5. client'[c] \in ClientStates /\ worker'[c] \in WorkerStates
      BY <2>3, <2>4
  <2>6. Sound(client'[c], worker'[c], l, t)
    <3> DEFINE m == client'[c]
               v == worker'[c]
    <3>1. /\ m \in ClientStates /\ v \in WorkerStates /\ m.loop = "poll"
          /\ m.mine = k.mine /\ m.position = k.position /\ m.fetched = <<>>
          /\ v.recs = Append(w.recs, k.fetched) /\ v.at = w.at /\ v.batch = w.batch
        BY <2>3, <2>4, <2>5
    <3> HIDE DEF m, v
    <3>2. Sound(m, v, l, t)
        BY <1>1, <2>1, <3>1, SoundDispatch
    <3> QED
        BY <3>2 DEF m, v
  <2>7. crashes' = 0 => \A d \in Clients : client'[d].mine => owner'[TopicOf[d]] = d
      BY <1>1, <2>1, <2>4
  <2> QED
      BY <1>1, <2>1, <2>3, <2>4, <2>6, <2>7, ClientMoves
<1>9. CASE Return(c) \/ FetchFails(c)
  <2>1. PICK stopping \in BOOLEAN : Returns(c, FALSE, stopping)
      BY <1>9 DEF Return, FetchFails
  <2>2. /\ k.loop = "poll"
        /\ client' = [client EXCEPT ![c].loop = "stopAll", ![c].poller = FALSE,
                                    ![c].stopping = stopping]
        /\ worker' = [worker EXCEPT ![c].quit = TRUE] /\ owner' = owner
        /\ UNCHANGED broker
      BY <1>9, <2>1 DEF Return, FetchFails, Returns
  <2>3. /\ crashes' = crashes /\ sideFailures' = sideFailures /\ stops' \in 0..MaxStops
    <3>1. CASE Return(c)
        BY <1>1, <3>1 DEF Return, NoFault
    <3>2. CASE FetchFails(c)
        BY <1>1, <1>2, <3>2 DEF FetchFails
    <3> QED
        BY <1>9, <3>1, <3>2
  <2>4. /\ worker' \in [Clients -> WorkerStates]
        /\ worker'[c] = [w EXCEPT !.quit = TRUE]
        /\ \A d \in Clients \ {c} : worker'[d] = worker[d]
      BY <1>1, <2>2 DEF WorkerStates
  <2>5. /\ client' \in [Clients -> ClientStates]
        /\ client'[c].loop = "stopAll" /\ client'[c].mine = k.mine
        /\ client'[c].position = k.position /\ client'[c].fetched = k.fetched
        /\ \A d \in Clients \ {c} : client'[d] = client[d]
      BY <1>1, <2>2 DEF ClientStates
  <2>6. client'[c] \in ClientStates /\ Sound(k, worker'[c], l, t)
      BY <1>1, <2>4, <2>5, SoundQuit
  <2>7. Sound(client'[c], worker'[c], l, t)
      BY <2>2, <2>5, <2>6, SoundLoop
  <2>8. crashes' = 0 => \A d \in Clients : client'[d].mine => owner'[TopicOf[d]] = d
      BY <1>1, <2>2, <2>3, <2>5
  <2> QED
      BY <1>1, <2>2, <2>3, <2>4, <2>5, <2>7, <2>8, ClientMoves
<1>10. CASE Exit(c) \/ Crash(c)
  <2>1. /\ client' = [client EXCEPT ![c] = Down]
        /\ worker' = [worker EXCEPT ![c] = NoWorker] /\ owner' \in {owner, Released(c)}
        /\ UNCHANGED broker /\ crashes' \in 0..MaxCrashes
        /\ crashes' = 0 => crashes = 0
        /\ sideFailures' = sideFailures /\ stops' = stops
      BY <1>1, <1>2, <1>10 DEF Exit, Crash, NoFault, Crashing
  <2>2. /\ client' \in [Clients -> ClientStates] /\ client'[c] = Down
        /\ \A d \in Clients \ {c} : client'[d] = client[d]
      BY <1>1, <2>1, Bare
  <2>3. /\ worker' \in [Clients -> WorkerStates] /\ worker'[c] = NoWorker
        /\ \A d \in Clients \ {c} : worker'[d] = worker[d]
      BY <1>1, <2>1, Bare
  <2>4. Sound(client'[c], worker'[c], l, t)
      BY <2>2, <2>3, Bare, BareSound
  <2>5. owner' \in [Topics -> Clients \cup {NoClient}]
      BY <1>1, <2>1, OwnerFacts
  <2>6. crashes' = 0 => \A d \in Clients : client'[d].mine => owner'[TopicOf[d]] = d
      BY <1>1, <2>1, <2>2, OwnerFacts, Bare
  <2> QED
      BY <1>1, <2>1, <2>2, <2>3, <2>4, <2>5, <2>6, ClientMoves
<1>11. CASE Revoked(c)
  <2> DEFINE m == [k EXCEPT !.loop = "callback"]
  <2>1. /\ k.loop = "poll" /\ k.mine
        /\ worker' = [worker EXCEPT ![c].quit = TRUE] /\ owner' = owner
        /\ UNCHANGED broker /\ crashes' = crashes /\ sideFailures' = sideFailures
        /\ stops' = stops
      BY <1>11 DEF Revoked, NoFault
  <2>2. \/ client' = [client EXCEPT ![c] = m]
        \/ \E d \in Clients \ {c} : client' = [client EXCEPT ![c] = m, ![d].joined = FALSE]
      BY <1>11 DEF Revoked
  <2>3. /\ m \in ClientStates /\ m.loop = "callback" /\ m.mine = k.mine
        /\ m.position = k.position /\ m.fetched = k.fetched
      BY <1>1 DEF ClientStates
  <2>4. /\ worker' \in [Clients -> WorkerStates]
        /\ worker'[c] = [w EXCEPT !.quit = TRUE]
        /\ \A d \in Clients \ {c} : worker'[d] = worker[d]
      BY <1>1, <2>1 DEF WorkerStates
  <2>5. Sound(k, worker'[c], l, t)
      BY <1>1, <2>4, SoundQuit
  <2> HIDE DEF m
  <2>6. Sound(m, worker'[c], l, t)
      BY <2>1, <2>3, <2>5, SoundLoop
  <2>7. /\ client' \in [Clients -> ClientStates] /\ client'[c] = m
        /\ \A d \in Clients \ {c} :
              /\ client'[d].loop = client[d].loop /\ client'[d].mine = client[d].mine
              /\ client'[d].position = client[d].position
              /\ client'[d].fetched = client[d].fetched
      BY <1>1, <2>2, <2>3, JoinedOrNot
  <2>8. crashes' = 0 => \A d \in Clients : client'[d].mine => owner'[TopicOf[d]] = d
      BY <1>1, <2>1, <2>3, <2>7
  <2>9. Sound(client'[c], worker'[c], l, t)
      BY <2>6, <2>7
  <2> QED
      BY ZenonT(60), <1>1, <2>1, <2>4, <2>7, <2>8, <2>9, ClientMoves
<1>12. CASE SessionExpires(c)
  <2>1. /\ owner' = [owner EXCEPT ![t] = NoClient] /\ client' = client /\ worker' = worker
        /\ UNCHANGED broker /\ crashes' \in 0..MaxCrashes /\ crashes' # 0
        /\ sideFailures' = sideFailures /\ stops' = stops
      BY <1>1, <1>2, <1>12 DEF SessionExpires, Crashing
  <2>2. owner' \in [Topics -> Clients \cup {NoClient}]
      BY <1>1, <2>1
  <2> QED
      BY <1>1, <2>1, <2>2, ClientMoves
<1>13. CASE Cancel(c)
  <2>1. /\ client' = [client EXCEPT ![c].stopping = TRUE] /\ worker' = worker
        /\ owner' = owner /\ UNCHANGED broker /\ crashes' = crashes
        /\ sideFailures' = sideFailures /\ stops' \in 0..MaxStops
      BY <1>1, <1>2, <1>13 DEF Cancel
  <2>2. /\ client' \in [Clients -> ClientStates]
        /\ client'[c].loop = k.loop /\ client'[c].mine = k.mine
        /\ client'[c].position = k.position /\ client'[c].fetched = k.fetched
        /\ \A d \in Clients \ {c} : client'[d] = client[d]
      BY <1>1, <2>1 DEF ClientStates
  <2>3. client'[c] \in ClientStates
      BY <2>2
  <2>4. Sound(client'[c], w, l, t)
      BY <1>1, <2>2, <2>3, SoundLoop
  <2>5. crashes' = 0 => \A d \in Clients : client'[d].mine => owner'[TopicOf[d]] = d
      BY <1>1, <2>1, <2>2
  <2> QED
      BY <1>1, <2>1, <2>2, <2>4, <2>5, ClientMoves
<1>14. CASE RevokedUnheard(c)
  <2> DEFINE m == [k EXCEPT !.mine = FALSE]
  <2>1. /\ k.loop \in {"stopAll", "returned"} /\ worker' = worker /\ owner' = Released(c)
        /\ UNCHANGED broker /\ crashes' = crashes /\ sideFailures' = sideFailures
        /\ stops' = stops
      BY <1>14 DEF RevokedUnheard, NoEngine, NoFault
  <2>2. \/ client' = [client EXCEPT ![c] = m]
        \/ \E d \in Clients \ {c} : client' = [client EXCEPT ![c] = m, ![d].joined = FALSE]
      BY <1>14 DEF RevokedUnheard
  <2>3. /\ m \in ClientStates /\ m.loop = k.loop /\ ~m.mine
        /\ m.position = k.position /\ m.fetched = k.fetched
      BY <1>1 DEF ClientStates
  <2> HIDE DEF m
  <2>4. Sound(m, w, l, t)
      BY <1>1, <2>1, <2>3, SoundUnheard
  <2>5. /\ client' \in [Clients -> ClientStates] /\ client'[c] = m
        /\ \A d \in Clients \ {c} :
              /\ client'[d].loop = client[d].loop /\ client'[d].mine = client[d].mine
              /\ client'[d].position = client[d].position
              /\ client'[d].fetched = client[d].fetched
      BY <1>1, <2>2, <2>3, JoinedOrNot
  <2>6. owner' \in [Topics -> Clients \cup {NoClient}]
      BY <2>1, OwnerFacts
  <2>7. crashes' = 0 => \A d \in Clients : client'[d].mine => owner'[TopicOf[d]] = d
      BY <1>1, <2>1, <2>3, <2>5, OwnerFacts
  <2>8. Sound(client'[c], worker'[c], l, t)
      BY <2>1, <2>4, <2>5
  <2> QED
      BY ZenonT(60), <1>1, <2>1, <2>5, <2>6, <2>7, <2>8, ClientMoves
<1>15. CASE AssignedUnheard(c)
  <2>1. /\ k.loop \in {"stopAll", "returned"} /\ ~k.mine /\ owner[t] = NoClient
        /\ owner' = [owner EXCEPT ![t] = c] /\ worker' = worker
        /\ client' = [client EXCEPT ![c].mine = TRUE, ![c].joined = FALSE]
        /\ UNCHANGED broker /\ crashes' = crashes /\ sideFailures' = sideFailures
        /\ stops' = stops
      BY <1>15 DEF AssignedUnheard, NoEngine, NoFault
  <2>2. /\ client' \in [Clients -> ClientStates]
        /\ client'[c].loop = k.loop /\ client'[c].mine
        /\ client'[c].position = k.position /\ client'[c].fetched = k.fetched
        /\ \A d \in Clients \ {c} : client'[d] = client[d]
      BY <1>1, <2>1 DEF ClientStates
  <2>3. client'[c] \in ClientStates
      BY <2>2
  <2>4. Sound(client'[c], worker'[c], l, t)
    <3> DEFINE m == client'[c]
    <3>1. /\ m \in ClientStates /\ m.loop = k.loop /\ m.position = k.position
          /\ m.fetched = k.fetched
        BY <2>2, <2>3
    <3> HIDE DEF m
    <3>2. Sound(m, w, l, t)
        BY <1>1, <2>1, <3>1, SoundUnheard
    <3> QED
        BY <2>1, <3>2 DEF m
  <2>5. owner' \in [Topics -> Clients \cup {NoClient}] /\ owner'[t] = c
        /\ \A u \in Topics \ {t} : owner'[u] = owner[u]
      BY <1>1, <1>3, <2>1
  <2>6. crashes' = 0 => \A d \in Clients : client'[d].mine => owner'[TopicOf[d]] = d
    <3> SUFFICES ASSUME crashes' = 0, NEW d \in Clients, client'[d].mine
                 PROVE  owner'[TopicOf[d]] = d
        OBVIOUS
    <3>1. CASE d = c
        BY <2>5, <3>1
    <3>2. CASE d # c
        BY <1>1, <1>2, <2>1, <2>2, <2>5, <3>2, OwnerFacts
    <3> QED
        BY <3>1, <3>2
  <2> QED
      BY <1>1, <2>1, <2>2, <2>4, <2>5, <2>6, ClientMoves
<1>16. CASE Close(c)
  <2>1. /\ k.loop \in {"stopAll", "returned"} /\ worker' = worker /\ owner' = Released(c)
        /\ client' = [client EXCEPT ![c].loop = "closed", ![c].mine = FALSE]
        /\ UNCHANGED broker /\ crashes' = crashes /\ sideFailures' = sideFailures
        /\ stops' = stops
      BY <1>16 DEF Close, NoEngine, NoFault
  <2>2. /\ client' \in [Clients -> ClientStates]
        /\ client'[c].loop = "closed" /\ ~client'[c].mine
        /\ client'[c].position = k.position /\ client'[c].fetched = k.fetched
        /\ \A d \in Clients \ {c} : client'[d] = client[d]
      BY <1>1, <2>1 DEF ClientStates
  <2>3. client'[c] \in ClientStates
      BY <2>2
  <2>4. Sound(client'[c], worker'[c], l, t)
    <3> DEFINE m == client'[c]
    <3>1. /\ m \in ClientStates /\ m.loop = "closed" /\ ~m.mine
          /\ m.position = k.position /\ m.fetched = k.fetched
        BY <2>2, <2>3
    <3> HIDE DEF m
    <3>2. Sound(m, w, l, t)
        BY <1>1, <2>1, <3>1, SoundUnheard
    <3> QED
        BY <2>1, <3>2 DEF m
  <2>5. owner' \in [Topics -> Clients \cup {NoClient}]
      BY <2>1, OwnerFacts
  <2>6. crashes' = 0 => \A d \in Clients : client'[d].mine => owner'[TopicOf[d]] = d
      BY <1>1, <2>1, <2>2, OwnerFacts
  <2> QED
      BY <1>1, <2>1, <2>2, <2>4, <2>5, <2>6, ClientMoves
<1>17. CASE StopAllDone(c)
  <2>1. /\ k.loop = "stopAll" /\ owner' = owner
        /\ client' = [client EXCEPT ![c].loop = "returned"]
        /\ worker' = [worker EXCEPT ![c] = NoWorker]
        /\ UNCHANGED broker /\ crashes' = crashes /\ sideFailures' = sideFailures
        /\ stops' = stops
      BY <1>17 DEF StopAllDone, NoFault
  <2>2. /\ client' \in [Clients -> ClientStates]
        /\ client'[c].loop = "returned" /\ client'[c].mine = k.mine
        /\ client'[c].position = k.position /\ client'[c].fetched = k.fetched
        /\ \A d \in Clients \ {c} : client'[d] = client[d]
      BY <1>1, <2>1 DEF ClientStates
  <2>3. /\ worker' \in [Clients -> WorkerStates] /\ worker'[c] = NoWorker
        /\ \A d \in Clients \ {c} : worker'[d] = worker[d]
      BY <1>1, <2>1, Bare
  <2>4. client'[c].position <= Len(l) /\ client'[c].fetched = <<>>
      BY <1>1, <2>1, <2>2 DEF Sound, Shape, Fetched
  <2>5. Sound(client'[c], worker'[c], l, t)
    <3>1. client'[c] \in ClientStates
        BY <2>2
    <3> QED
        BY <1>3, <2>2, <2>3, <2>4, <3>1, SoundWithout
  <2>6. crashes' = 0 => \A d \in Clients : client'[d].mine => owner'[TopicOf[d]] = d
      BY <1>1, <2>1, <2>2
  <2> QED
      BY <1>1, <2>1, <2>2, <2>3, <2>5, <2>6, ClientMoves
<1> QED
    BY <1>4, <1>5, <1>6, <1>7, <1>8, <1>9, <1>10, <1>11, <1>12, <1>13, <1>14, <1>15, <1>16,
       <1>17 DEF LoopStep

\* A new record only makes the log longer.
LEMMA PublishKeeps ==
    ASSUME ConsumerInv, NEW e \in Events, Publish(e)
    PROVE  ConsumerInv'
<1> DEFINE x == [event |-> e, round |-> 0]
<1>1. /\ log' = [log EXCEPT !["main"] = Append(@, x)] /\ x \in Records /\ x.round = 0
      /\ "main" \in Topics
      /\ UNCHANGED <<dead, applied, committed, owner, client, worker, crashes,
                     sideFailures, stops>>
    BY DeliveryAssumption DEF Publish, NoFault, Records, Topics, ConsumerAssumption
<1> HIDE DEF x
<1>2. LogsAreLogs
    BY DEF ConsumerInv
<1>3. LogsAreLogs' /\ LogsGrow
    BY <1>1, <1>2, LogAppend
<1>4. /\ client' \in [Clients -> ClientStates] /\ worker' \in [Clients -> WorkerStates]
      /\ Exclusive'
    BY <1>1 DEF ConsumerInv, Exclusive
<1>5. \A d \in Clients : Sound(client'[d], worker'[d], log'[TopicOf[d]], TopicOf[d])
  <2> SUFFICES ASSUME NEW d \in Clients
               PROVE  Sound(client'[d], worker'[d], log'[TopicOf[d]], TopicOf[d])
      OBVIOUS
  <2>1. Sound(client'[d], worker'[d], log[TopicOf[d]], TopicOf[d])
      BY <1>1 DEF ConsumerInv
  <2> QED
      BY <1>1, <1>3, <1>4, <2>1, OneClientMoves
<1>6. \A t \in Topics : committed'[t] <= Len(log'[t])
  <2> TAKE t \in Topics
  <2>1. /\ committed[t] \in Nat /\ committed[t] <= Len(log[t]) /\ Len(log[t]) \in Nat
        /\ Len(log'[t]) \in Nat
      BY <1>2, <1>3, LenProperties DEF ConsumerInv, LogsAreLogs
  <2> QED
      BY <1>1, <1>3, <2>1 DEF LogsGrow
<1> QED
    BY <1>1, <1>3, <1>4, <1>5, <1>6 DEF ConsumerInv

\* Every step of the consumers keeps their invariant.
LEMMA ConsumerStep ==
    ASSUME ConsumerInv, [Next]_vars
    PROVE  ConsumerInv'
<1>1. CASE UNCHANGED vars
  <2>1. LogsAreLogs' /\ Exclusive'
      BY <1>1 DEF vars, ConsumerInv, LogsAreLogs, Exclusive
  <2> QED
      BY <1>1, <2>1 DEF vars, ConsumerInv
<1>2. ASSUME NEW e \in Events, Publish(e) PROVE ConsumerInv'
    BY <1>2, PublishKeeps
<1>3. ASSUME NEW c \in Clients, WorkerStep(c) PROVE ConsumerInv'
    BY <1>3, WorkerStepKeeps
<1>4. ASSUME NEW c \in Clients,
             \/ LoopStep(c) \/ Revoked(c) \/ RevokedUnheard(c) \/ SessionExpires(c)
             \/ Crash(c) \/ Cancel(c) \/ FetchFails(c)
      PROVE  ConsumerInv'
    BY <1>4, LoopStepKeeps
<1> QED
    BY <1>1, <1>2, <1>3, <1>4 DEF Next

\* They start with it.
LEMMA ConsumerInit ==
    ASSUME Init
    PROVE  ConsumerInv
<1>1. /\ MaxCrashes \in Nat /\ MaxSideFailures \in Nat /\ MaxStops \in Nat
      /\ \A c \in Clients : TopicOf[c] \in Topics
    BY DeliveryAssumption DEF ConsumerAssumption, Topics
<1>2. LogsAreLogs
    BY DEF Init, LogsAreLogs, Topics
<1>3. client \in [Clients -> ClientStates] /\ worker \in [Clients -> WorkerStates]
    BY Bare DEF Init
<1>4. \A c \in Clients : Sound(client[c], worker[c], log[TopicOf[c]], TopicOf[c])
  <2> TAKE c \in Clients
  <2>1. client[c] = Down /\ worker[c] = NoWorker /\ log[TopicOf[c]] = <<>>
      BY <1>1 DEF Init
  <2>2. Sound(Down, NoWorker, <<>>, TopicOf[c])
      BY Bare, SoundWithout
  <2> QED
      BY <2>1, <2>2
<1>5. Exclusive
    BY Bare DEF Init, Exclusive
<1> QED
    BY <1>1, <1>2, <1>3, <1>4, <1>5 DEF Init, ConsumerInv, Topics

\* It implies the types and that a partition is handed over.
LEMMA ConsumersAreSound ==
    ASSUME ConsumerInv
    PROVE  TypeOK /\ HandedOver
<1>1. \A c \in Clients : Len(worker[c].recs) <= ChannelSize
    BY DEF ConsumerInv, Sound, Fetched
<1>2. \A t \in Topics : committed[t] \in 0..Len(log[t])
  <2> TAKE t \in Topics
  <2>1. committed[t] \in Nat /\ committed[t] <= Len(log[t]) /\ Len(log[t]) \in Nat
      BY LenProperties DEF ConsumerInv, LogsAreLogs
  <2> QED
      BY <2>1
<1>3. TypeOK
    BY <1>1, <1>2 DEF ConsumerInv, TypeOK, LogsAreLogs, Records, ClientStates, WorkerStates
<1>4. ASSUME NEW c \in Clients, NEW d \in Clients, TwoBusy(c, d),
             client[c].loop \notin {"stopAll", "closed"},
             client[d].loop \notin {"stopAll", "closed"}
      PROVE  crashes > 0
  <2>1. ASSUME NEW e \in Clients, worker[e].at \in Busy,
               client[e].loop \notin {"stopAll", "closed"}
        PROVE  client[e].mine
    <3>1. Sound(client[e], worker[e], log[TopicOf[e]], TopicOf[e]) /\ worker[e].at # "none"
        BY <2>1 DEF ConsumerInv, Busy
    <3> QED
        BY <2>1, <3>1 DEF Sound, Shape, ClientStates
  <2>2. client[c].mine /\ client[d].mine /\ c # d /\ TopicOf[c] = TopicOf[d]
      BY <1>4, <2>1 DEF TwoBusy
  <2>3. crashes # 0 /\ crashes \in Nat
      BY <2>2 DEF ConsumerInv, Exclusive
  <2> QED
      BY <2>3
<1> QED
    BY <1>3, <1>4 DEF HandedOver

-----------------------------------------------------------------------------
\* More offsets may be settled.
LEMMA PassedMore ==
    ASSUME NEW k, NEW w, NEW S, NEW T, Passed(k, w, S), S \subseteq T
    PROVE  Passed(k, w, T)
BY DEF Passed

\* The goroutine moves with its batch; at "commit" the record is settled.
LEMMA PassedPlace ==
    ASSUME NEW k, NEW w, NEW v, NEW S, Passed(k, w, S), v.recs = w.recs, v.batch = w.batch,
           w.at = "none" => v.at = "none", v.at = "commit" => Head(w.batch) \in S
    PROVE  Passed(k, v, S)
<1>1. Ordered(k, v)
    BY DEF Passed, Ordered
<1>2. v.at # "none" /\ k.loop # "closed" =>
          \A i \in 1..k.position : i \in S \/ InHand(k, v, i)
    BY DEF Passed, InHand
<1> QED
    BY <1>1, <1>2 DEF Passed

\* The client's loop moves and keeps the records.
LEMMA PassedLoop ==
    ASSUME NEW k, NEW w, NEW m, NEW S, Passed(k, w, S),
           k.loop = "closed" => m.loop = "closed",
           m.position = k.position, m.fetched = k.fetched
    PROVE  Passed(m, w, S)
<1>1. Ordered(m, w)
    BY DEF Passed, Ordered
<1>2. w.at # "none" /\ m.loop # "closed" =>
          \A i \in 1..m.position : i \in S \/ InHand(m, w, i)
    BY DEF Passed, InHand
<1> QED
    BY <1>1, <1>2 DEF Passed

\* A client with nothing in hand: everything behind its position is settled.
LEMMA PassedBare ==
    ASSUME NEW m, NEW w, NEW S, m.fetched = <<>>, w.recs = <<>>, w.batch = <<>>,
           w.at # "commit", w.at # "none" => \A i \in 1..m.position : i \in S
    PROVE  Passed(m, w, S)
<1>1. Ordered(m, w)
    BY DEF Ordered, Rising, Below
<1> QED
    BY <1>1 DEF Passed

\* Take: the batch comes out of the channel.
LEMMA PassedTake ==
    ASSUME NEW k, NEW w, NEW l, NEW t, NEW S, Sound(k, w, l, t), Passed(k, w, S),
           w.at = "idle", w.recs # <<>>,
           NEW v, v.at = "next", v.batch = Head(w.recs), v.recs = Tail(w.recs)
    PROVE  Passed(k, v, S)
<1>1. w.recs \in Seq(Seq(Nat)) /\ w.batch = <<>>
    BY DEF Sound, WorkerStates, Shape
<1>2. /\ Len(w.recs) \in Nat \ {0} /\ Head(w.recs) = w.recs[1]
      /\ Len(Tail(w.recs)) = Len(w.recs) - 1
      /\ \A i \in 1..Len(Tail(w.recs)) :
             i + 1 \in 1..Len(w.recs) /\ Tail(w.recs)[i] = w.recs[i + 1]
    BY <1>1, TailFacts
<1>3. 1 \in 1..Len(w.recs) /\ \A j \in 1..Len(w.recs) : j = 1 \/ j - 1 \in 1..Len(v.recs)
    BY <1>2
<1>4. v.batch = w.recs[1] /\ \A j \in 1..Len(v.recs) :
                                 j + 1 \in 1..Len(w.recs) /\ v.recs[j] = w.recs[j + 1]
    BY <1>2
<1>5. ASSUME NEW i, InHand(k, w, i)
      PROVE  InHand(k, v, i)
  <2>1. ~OneOf(w.batch, i)
      BY <1>1 DEF OneOf
  <2>2. CASE OneOf(k.fetched, i)
      BY <2>2 DEF InHand
  <2>3. ASSUME NEW j \in 1..Len(w.recs), OneOf(w.recs[j], i)
        PROVE  InHand(k, v, i)
    <3>1. CASE j = 1
        BY <1>4, <2>3, <3>1 DEF InHand
    <3>2. CASE j # 1
      <4>1. j - 1 \in 1..Len(v.recs) /\ v.recs[j - 1] = w.recs[j]
          BY <1>2, <1>3, <1>4, <3>2
      <4> QED
          BY <2>3, <4>1 DEF InHand
    <3> QED
        BY <3>1, <3>2
  <2> QED
      BY <1>5, <2>1, <2>2, <2>3 DEF InHand
<1>6. Rising(v.batch) /\ Rising(k.fetched) /\ Below(v.batch, k.fetched)
    BY <1>3, <1>4 DEF Passed, Ordered
<1>7. \A j \in 1..Len(v.recs) :
          /\ Rising(v.recs[j]) /\ Below(v.batch, v.recs[j]) /\ Below(v.recs[j], k.fetched)
          /\ \A m \in 1..Len(v.recs) : j < m => Below(v.recs[j], v.recs[m])
  <2> TAKE j \in 1..Len(v.recs)
  <2>1. j + 1 \in 1..Len(w.recs) /\ 1 < j + 1 /\ v.recs[j] = w.recs[j + 1]
      BY <1>4
  <2>2. Rising(v.recs[j]) /\ Below(v.batch, v.recs[j]) /\ Below(v.recs[j], k.fetched)
      BY <1>3, <1>4, <2>1 DEF Passed, Ordered
  <2>3. ASSUME NEW m \in 1..Len(v.recs), j < m
        PROVE  Below(v.recs[j], v.recs[m])
    <3>1. m + 1 \in 1..Len(w.recs) /\ j + 1 < m + 1 /\ v.recs[m] = w.recs[m + 1]
        BY <1>4, <2>3
    <3> QED
        BY <2>1, <3>1 DEF Passed, Ordered
  <2> QED
      BY <2>2, <2>3
<1>8. Ordered(k, v)
    BY <1>6, <1>7 DEF Ordered
<1> QED
    BY <1>5, <1>8 DEF Passed

\* Next1: the record in hand is settled and left behind; or nothing is committed.
LEMMA PassedNext1 ==
    ASSUME NEW k, NEW w, NEW l, NEW t, NEW S, Sound(k, w, l, t), Passed(k, w, S),
           w.at \in Busy, Head(w.batch) \in S \/ k.loop = "closed",
           NEW v, v.batch = Tail(w.batch), v.recs = w.recs, v.at # "commit"
    PROVE  Passed(k, v, S)
<1>1. w.batch \in Seq(Nat) /\ w.batch # <<>>
    BY DEF Sound, WorkerStates, Shape
<1>2. /\ Len(w.batch) \in Nat \ {0} /\ Head(w.batch) = w.batch[1]
      /\ Len(v.batch) = Len(w.batch) - 1
      /\ \A i \in 1..Len(v.batch) : i + 1 \in 1..Len(w.batch) /\ v.batch[i] = w.batch[i + 1]
    BY <1>1, TailFacts
<1>3. ASSUME NEW i, InHand(k, w, i), i \notin S, k.loop # "closed"
      PROVE  InHand(k, v, i)
  <2>1. ASSUME NEW j \in 1..Len(w.batch), w.batch[j] = i
        PROVE  OneOf(v.batch, i)
    <3>1. j # 1
        BY <1>2, <1>3, <2>1
    <3>2. j - 1 \in 1..Len(v.batch) /\ v.batch[j - 1] = w.batch[j]
        BY <1>2, <3>1
    <3> QED
        BY <2>1, <3>2 DEF OneOf
  <2> QED
      BY <1>3, <2>1 DEF InHand, OneOf
<1>4. Rising(v.batch)
  <2> SUFFICES ASSUME NEW i \in 1..Len(v.batch), NEW j \in 1..Len(v.batch), i < j
               PROVE  v.batch[i] < v.batch[j]
      BY DEF Rising
  <2>1. i + 1 \in 1..Len(w.batch) /\ j + 1 \in 1..Len(w.batch) /\ i + 1 < j + 1
      BY <1>2
  <2> QED
      BY <1>2, <2>1 DEF Passed, Ordered, Rising
<1>5. ASSUME NEW u, Below(w.batch, u)
      PROVE  Below(v.batch, u)
    BY <1>2, <1>5 DEF Below
<1>6. Ordered(k, v)
    BY <1>4, <1>5 DEF Passed, Ordered
<1> QED
    BY <1>3, <1>6 DEF Passed, Busy

\* Poll: what lies behind the new position was settled, in hand, or is fetched now.
LEMMA PassedPoll ==
    ASSUME NEW k, NEW w, NEW l, NEW t, NEW S, Sound(k, w, l, t), Passed(k, w, S),
           k.loop = "poll", NEW n \in Nat, n > k.position,
           NEW m, m.position = n, m.fetched = Offsets(k.position, n)
    PROVE  Passed(m, w, S)
<1>1. k.position \in Nat /\ k.fetched = <<>> /\ w.batch \in Seq(Nat)
      /\ w.recs \in Seq(Seq(Nat))
    BY DEF Sound, ClientStates, WorkerStates, Shape
<1>2. Len(m.fetched) = n - k.position
      /\ \A i \in 1..(n - k.position) : m.fetched[i] = k.position + i
    BY <1>1 DEF Offsets
<1>3. Rising(m.fetched)
    BY SMTT(30), <1>1, <1>2 DEF Rising
<1>4. ASSUME NEW s \in Seq(Nat), UpTo(s, k.position)
      PROVE  Below(s, m.fetched)
    BY SMTT(30), <1>1, <1>2, <1>4 DEF Below, UpTo
<1>5. Below(w.batch, m.fetched)
    BY <1>1, <1>4 DEF Sound, Fetched
<1>6. \A j \in 1..Len(w.recs) : Below(w.recs[j], m.fetched)
  <2> TAKE j \in 1..Len(w.recs)
  <2>1. w.recs[j] \in Seq(Nat)
      BY <1>1, ElementOfSeq
  <2> QED
      BY <1>4, <2>1 DEF Sound, Fetched
<1>7. Ordered(m, w)
    BY <1>3, <1>5, <1>6 DEF Passed, Ordered
<1>8. ASSUME NEW i \in 1..n, w.at # "none"
      PROVE  i \in S \/ InHand(m, w, i)
  <2>1. CASE i <= k.position
    <3>1. i \in S \/ InHand(k, w, i)
        BY <1>1, <1>8, <2>1 DEF Passed
    <3>2. ~OneOf(k.fetched, i)
        BY <1>1 DEF OneOf
    <3> QED
        BY <3>1, <3>2 DEF InHand
  <2>2. CASE i > k.position
    <3> DEFINE j == i - k.position
    <3>1. j \in 1..(n - k.position) /\ k.position + j = i
        BY <1>1, <2>2
    <3>2. j \in 1..Len(m.fetched) /\ m.fetched[j] = i
        BY <1>2, <3>1
    <3> QED
        BY <3>2 DEF InHand, OneOf
  <2> QED
      BY <1>1, <2>1, <2>2
<1>9. w.at = "commit" => Head(w.batch) \in S
    BY DEF Passed
<1> QED
    BY <1>7, <1>8, <1>9 DEF Passed

\* Dispatch: what was fetched goes into the channel, behind all that is there.
LEMMA PassedDispatch ==
    ASSUME NEW k, NEW w, NEW l, NEW t, NEW S, Sound(k, w, l, t), Passed(k, w, S),
           k.loop = "dispatch",
           NEW m, NEW v, m.position = k.position, m.fetched = <<>>,
           v.recs = Append(w.recs, k.fetched), v.at = w.at, v.batch = w.batch
    PROVE  Passed(m, v, S)
<1>1. w.recs \in Seq(Seq(Nat)) /\ k.fetched \in Seq(Nat)
    BY DEF Sound, WorkerStates, ClientStates
<1> DEFINE n == Len(w.recs)
<1>2. /\ n \in Nat /\ Len(v.recs) = n + 1 /\ v.recs[n + 1] = k.fetched
      /\ \A j \in 1..n : v.recs[j] = w.recs[j]
    BY <1>1, AppendProperties, LenProperties
<1> HIDE DEF n
<1>3. ASSUME NEW i, InHand(k, w, i)
      PROVE  InHand(m, v, i)
  <2>1. CASE OneOf(k.fetched, i)
      BY <1>2, <2>1 DEF InHand
  <2>2. CASE OneOf(w.batch, i)
      BY <2>2 DEF InHand
  <2>3. ASSUME NEW j \in 1..n, OneOf(w.recs[j], i)
        PROVE  InHand(m, v, i)
      BY <1>2, <2>3 DEF InHand
  <2> QED
      BY <1>3, <2>1, <2>2, <2>3 DEF InHand, n
<1>4. Rising(m.fetched) /\ \A s : Below(s, m.fetched)
    BY DEF Rising, Below
<1>5. \A j \in 1..Len(v.recs) : Rising(v.recs[j]) /\ Below(v.batch, v.recs[j])
  <2> TAKE j \in 1..Len(v.recs)
  <2>1. CASE j \in 1..n
      BY <1>2, <2>1 DEF Passed, Ordered, n
  <2>2. CASE j = n + 1
      BY <1>2, <2>2 DEF Passed, Ordered
  <2> QED
      BY <1>2, <2>1, <2>2
<1>6. ASSUME NEW j \in 1..Len(v.recs), NEW i \in 1..Len(v.recs), j < i
      PROVE  Below(v.recs[j], v.recs[i])
  <2>1. j \in 1..n /\ v.recs[j] = w.recs[j]
      BY <1>2, <1>6
  <2>2. CASE i \in 1..n
      BY <1>2, <1>6, <2>1, <2>2 DEF Passed, Ordered, n
  <2>3. CASE i = n + 1
      BY <1>2, <2>1, <2>3 DEF Passed, Ordered, n
  <2> QED
      BY <1>2, <2>2, <2>3
<1>7. Ordered(m, v)
    BY <1>4, <1>5, <1>6 DEF Passed, Ordered
<1>8. v.at = "commit" => Head(v.batch) \in S
    BY DEF Passed
<1> QED
    BY <1>3, <1>7, <1>8 DEF Passed

\* What is settled stays settled.
LEMMA SettledStays ==
    ASSUME ConsumerInv, LogsGrow, LogsAreLogs', applied \subseteq applied', dead \subseteq dead',
           NEW t \in Topics
    PROVE  Settled(t) \subseteq Settled(t)'
<1> SUFFICES ASSUME NEW i \in Settled(t)
             PROVE  i \in Settled(t)'
    OBVIOUS
<1>1. \A u \in Topics : /\ Len(log[u]) \in Nat /\ Len(log'[u]) \in Nat
                        /\ Len(log[u]) <= Len(log'[u])
                        /\ \A j \in 1..Len(log[u]) : log'[u][j] = log[u][j]
    BY LenProperties DEF ConsumerInv, LogsAreLogs, LogsGrow
<1>2. i \in 1..Len(log[t]) /\ i \in 1..Len(log'[t]) /\ log'[t][i] = log[t][i]
    BY <1>1 DEF Settled
<1>3. CASE log[t][i].event \in applied \cup dead
  <2>1. log'[t][i].event \in applied' \cup dead'
      BY <1>2, <1>3
  <2> QED
      BY <1>2, <2>1 DEF Settled
<1>4. ASSUME NEW after, Carried(log[t][i].event, after)
      PROVE  Carried(log[t][i].event, after)'
  <2>1. PICK j \in 1..Len(log["retry"]) : j > after /\ log["retry"][j].event = log[t][i].event
      BY <1>4 DEF Carried
  <2>2. j \in 1..Len(log'["retry"]) /\ log'["retry"][j] = log["retry"][j]
      BY <1>1 DEF Topics
  <2> QED
      BY <1>2, <2>1, <2>2 DEF Carried
<1>5. CASE Carried(log[t][i].event, IF t = "retry" THEN i ELSE 0)
  <2>1. \E j \in 1..Len(log'["retry"]) :
            j > (IF t = "retry" THEN i ELSE 0) /\ log'["retry"][j].event = log'[t][i].event
      BY <1>2, <1>4, <1>5 DEF Carried
  <2> QED
      BY <1>2, <2>1 DEF Settled, Carried
<1> QED
    BY <1>3, <1>5 DEF Settled

\* What a step of client c, or of its goroutine, must show.
LEMMA SkipMoves ==
    ASSUME ConsumerInv, SkipInv, LogsGrow, LogsAreLogs',
           applied \subseteq applied', dead \subseteq dead', NEW c \in Clients,
           \A d \in Clients \ {c} :
               /\ worker'[d] = worker[d]
               /\ client'[d].loop = client[d].loop
               /\ client'[d].position = client[d].position
               /\ client'[d].fetched = client[d].fetched,
           \A d \in Clients : client'[d].stopping => d \in Stoppable,
           \A t \in Topics : \A i \in 1..committed'[t] : i \in Settled(t)',
           Passed(client'[c], worker'[c], Settled(TopicOf[c])')
    PROVE  SkipInv'
<1>1. ASSUME NEW d \in Clients
      PROVE  Passed(client'[d], worker'[d], Settled(TopicOf[d])')
  <2>1. CASE d = c
      BY <2>1
  <2>2. CASE d # c
    <3>1. TopicOf[d] \in Topics
        BY OwnerFacts
    <3>2. Settled(TopicOf[d]) \subseteq Settled(TopicOf[d])'
        BY <3>1, SettledStays
    <3>3. Passed(client[d], worker[d], Settled(TopicOf[d]))
        BY DEF SkipInv
    <3>4. Passed(client[d], worker[d], Settled(TopicOf[d])')
        BY <3>2, <3>3, PassedMore
    <3> DEFINE S == Settled(TopicOf[d])'
               m == client'[d]
               k == client[d]
    <3>5. /\ Passed(k, worker[d], S) /\ m.loop = k.loop /\ m.position = k.position
          /\ m.fetched = k.fetched /\ worker'[d] = worker[d]
        BY <2>2, <3>4
    <3> HIDE DEF S, m, k
    <3>6. Passed(m, worker[d], S)
        BY <3>5, PassedLoop
    <3>7. Passed(m, worker'[d], S)
        BY <3>5, <3>6
    <3> QED
        BY <3>7 DEF m, S
  <2> QED
      BY <2>1, <2>2
<1> QED
    BY <1>1 DEF SkipInv

\* The same for a step that neither settles nor commits anything.
LEMMA QuietSkipMoves ==
    ASSUME ConsumerInv, SkipInv, UNCHANGED broker, NEW c \in Clients,
           \A d \in Clients \ {c} :
               /\ worker'[d] = worker[d]
               /\ client'[d].loop = client[d].loop
               /\ client'[d].position = client[d].position
               /\ client'[d].fetched = client[d].fetched,
           \A d \in Clients : client'[d].stopping => d \in Stoppable,
           Passed(client'[c], worker'[c], Settled(TopicOf[c]))
    PROVE  SkipInv'
<1>1. LogsGrow /\ LogsAreLogs'
    BY LogStays DEF ConsumerInv, broker
<1>2. \A t : Settled(t)' = Settled(t)
    BY DEF Settled, Carried, broker
<1>3. \A t \in Topics : \A i \in 1..committed'[t] : i \in Settled(t)'
    BY <1>2 DEF SkipInv, broker
<1>4. Passed(client'[c], worker'[c], Settled(TopicOf[c])')
    BY <1>2
<1>5. applied \subseteq applied' /\ dead \subseteq dead'
    BY DEF broker
<1> QED
    BY <1>1, <1>3, <1>4, <1>5, SkipMoves

\* A commit leaves nothing unsettled behind.
LEMMA CommitPasses ==
    ASSUME ConsumerInv, SkipInv, NEW c \in Clients, worker[c].at = "commit",
           client[c].loop # "closed"
    PROVE  \A i \in 1..Head(worker[c].batch) : i \in Settled(TopicOf[c])
<1> DEFINE k == client[c]
           w == worker[c]
           S == Settled(TopicOf[c])
<1>1. /\ k \in ClientStates /\ w \in WorkerStates /\ w.batch # <<>>
      /\ Sound(k, w, log[TopicOf[c]], TopicOf[c]) /\ Passed(k, w, S)
      /\ k.loop # "closed"
    BY DEF ConsumerInv, SkipInv, Sound, Shape, Busy
<1>2. w.batch \in Seq(Nat) /\ k.position \in Nat /\ w.recs \in Seq(Seq(Nat))
      /\ k.fetched \in Seq(Nat) /\ w.at = "commit"
    BY <1>1 DEF ClientStates, WorkerStates
<1> HIDE DEF k, w, S
<1> DEFINE h == Head(w.batch)
<1>3. h \in 1..k.position /\ h = w.batch[1] /\ 1 \in 1..Len(w.batch)
    BY <1>1, <1>2, UpToTail, TailFacts DEF Sound, Fetched
<1>4. h \in S
    BY <1>1, <1>2 DEF Passed
<1> HIDE DEF h
<1>5. ASSUME NEW i \in 1..h, i \notin S
      PROVE  FALSE
  <2>1. InHand(k, w, i)
      BY <1>1, <1>2, <1>3, <1>5 DEF Passed
  <2>2. i < h \/ i = h
      BY <1>2, <1>3, <1>5
  <2>3. CASE OneOf(w.batch, i)
    <3>1. PICK j \in 1..Len(w.batch) : w.batch[j] = i
        BY <2>3 DEF OneOf
    <3>2. j = 1 \/ w.batch[1] < w.batch[j]
        BY <1>1, <1>2, <1>3 DEF Passed, Ordered, Rising
    <3> QED
        BY <1>2, <1>3, <1>4, <1>5, <2>2, <3>1, <3>2
  <2>4. ASSUME NEW u, Below(w.batch, u), OneOf(u, i)
        PROVE  FALSE
    <3>1. PICK j \in 1..Len(u) : u[j] = i
        BY <2>4 DEF OneOf
    <3>2. h < i
        BY <1>3, <2>4, <3>1 DEF Below
    <3>3. h \in Nat /\ i \in Nat /\ i <= h
        BY <1>2, <1>3, <1>5
    <3> QED
        BY <3>2, <3>3
  <2> QED
      BY <1>1, <2>1, <2>3, <2>4 DEF InHand, Passed, Ordered
<1> QED
    BY <1>5 DEF h, S, w

\* A goroutine passes only what is settled.
LEMMA SkipWorkerStep ==
    ASSUME ConsumerInv, SidesHold, SkipInv, NEW c \in Clients, WorkerStep(c)
    PROVE  SkipInv'
<1> DEFINE k == client[c]
           w == worker[c]
           t == TopicOf[c]
           S == Settled(TopicOf[c])
<1>1. /\ k \in ClientStates /\ w \in WorkerStates /\ Sound(k, w, log[t], t)
      /\ Passed(k, w, S) /\ t \in Topics /\ worker \in [Clients -> WorkerStates]
    BY OwnerFacts DEF ConsumerInv, SkipInv
<1>2. \A d \in Clients : client[d].stopping => d \in Stoppable
    BY DEF SkipInv
<1>3. ASSUME NEW v, Step(c, v)
      PROVE  /\ client' = client /\ worker'[c] = v
             /\ \A d \in Clients \ {c} : worker'[d] = worker[d]
    BY <1>1, <1>3 DEF Step
<1>4. ASSUME NEW v, Step(c, v), UNCHANGED broker, Passed(k, v, S)
      PROVE  SkipInv'
    BY <1>2, <1>3, <1>4, QuietSkipMoves
<1>5. CASE Take(c)
  <2> DEFINE v == [At(c, "next") EXCEPT !.batch = Head(worker[c].recs), !.recs = Tail(@)]
  <2>1. /\ v.at = "next" /\ v.batch = Head(w.recs) /\ v.recs = Tail(w.recs)
      BY <1>1 DEF At, WorkerStates
  <2>2. Step(c, v) /\ UNCHANGED broker /\ w.at = "idle" /\ w.recs # <<>>
      BY <1>5 DEF Take
  <2> HIDE DEF v
  <2>3. Passed(k, v, S)
      BY <1>1, <2>1, <2>2, PassedTake
  <2> QED
      BY <1>4, <2>2, <2>3
<1>6. ASSUME NEW v, v.recs = w.recs, v.batch = w.batch, v.at # "commit"
      PROVE  Passed(k, v, S)
  <2>1. w.at # "none"
      BY DEF WorkerStep, Take, Quit, Begin, WaitForRetryAt, Handle, Side, Commit
  <2> QED
      BY <1>1, <1>6, <2>1, PassedPlace
<1>7. CASE Quit(c)
  <2>1. Step(c, At(c, "done")) /\ UNCHANGED broker
      BY <1>7 DEF Quit
  <2> QED
      BY <1>4, <1>6, <2>1, AtFacts
<1> DEFINE handling == [At(c, "handle") EXCEPT !.attempt = 1]
<1>8. Passed(k, handling, S)
  <2>1. handling.recs = w.recs /\ handling.batch = w.batch /\ handling.at = "handle"
    <3> DEFINE x == At(c, "handle")
    <3>1. x \in WorkerStates /\ x.recs = w.recs /\ x.batch = w.batch /\ x.at = "handle"
        BY AtFacts DEF Busy
    <3>2. handling = [x EXCEPT !.attempt = 1]
        OBVIOUS
    <3> HIDE DEF x, handling
    <3> QED
        BY <3>1, <3>2 DEF WorkerStates
  <2> HIDE DEF handling
  <2> QED
      BY <1>6, <2>1
<1> HIDE DEF handling
<1>9. CASE Begin(c)
  <2>1. UNCHANGED broker
      BY <1>9 DEF Begin
  <2>2. CASE Step(c, handling)
      BY <1>4, <1>8, <2>1, <2>2
  <2>3. CASE Step(c, At(c, "wait"))
      BY <1>4, <1>6, <2>1, <2>3, AtFacts DEF Busy
  <2> QED
      BY <1>9, <2>2, <2>3 DEF Begin, handling
<1>10. CASE WaitForRetryAt(c)
  <2>1. UNCHANGED broker /\ w.at = "wait" /\ t = "retry"
      BY <1>1, <1>10 DEF WaitForRetryAt, Sound, Shape
  <2>2. ~client[c].stopping
      BY <1>2, <2>1 DEF SidesHold
  <2>3. Step(c, handling)
      BY <1>10, <2>2 DEF WaitForRetryAt, handling
  <2> QED
      BY <1>4, <1>8, <2>1, <2>3
<1>11. \A u \in Topics : \A i \in 1..committed[u] : i \in Settled(u)
    BY DEF SkipInv
<1>12. CASE Handle(c)
  <2>1. /\ UNCHANGED <<log, dead, committed>> /\ w.at = "handle" /\ w.at \in Busy
        /\ applied \subseteq applied'
      BY <1>12 DEF Handle, Busy
  <2>2. LogsGrow /\ LogsAreLogs'
      BY <2>1, LogStays DEF ConsumerInv
  <2>3. \A u \in Topics : Settled(u) \subseteq Settled(u)'
      BY <2>1, <2>2, SettledStays
  <2>4. \A u \in Topics : \A i \in 1..committed'[u] : i \in Settled(u)'
      BY <1>11, <2>1, <2>3
  <2>5. ASSUME NEW v, Step(c, v), Passed(k, v, Settled(t)')
        PROVE  SkipInv'
      BY <1>2, <1>3, <2>1, <2>2, <2>4, <2>5, SkipMoves
  <2>6. ASSUME NEW v, Step(c, v), Passed(k, v, S)
        PROVE  SkipInv'
    <3>1. Passed(k, v, Settled(t)')
        BY <1>1, <2>3, <2>6, PassedMore
    <3> QED
        BY <2>5, <2>6, <3>1
  <2>7. CASE applied' = applied \cup {Record(c).event} /\ Step(c, At(c, "commit"))
    <3>1. Head(w.batch) \in Settled(t)'
      <4>1. Head(w.batch) \in 1..Len(log'[t]) /\ log'[t][Head(w.batch)].event \in applied'
          BY <2>1, <2>7, RecordInHand DEF Record
      <4> QED
          BY <4>1 DEF Settled
    <3>2. Passed(k, w, Settled(t)')
        BY <1>1, <2>3, PassedMore
    <3> DEFINE v == At(c, "commit")
               T == Settled(t)'
    <3>3. /\ v.recs = w.recs /\ v.batch = w.batch /\ Head(w.batch) \in T /\ Passed(k, w, T)
          /\ w.at # "none"
        BY <2>1, <3>1, <3>2, AtFacts DEF Busy
    <3> HIDE DEF v, T
    <3>4. Passed(k, v, T)
        BY <3>3, PassedPlace
    <3> QED
        BY <2>5, <2>7, <3>4 DEF v, T
  <2>8. ASSUME NEW place \in {"dlq", "side"}, Step(c, At(c, place))
        PROVE  SkipInv'
    <3>1. Passed(k, At(c, place), S)
        BY <1>6, AtFacts DEF Busy
    <3> QED
        BY <2>6, <2>8, <3>1
  <2>9. CASE Step(c, [worker[c] EXCEPT !.attempt = @ + 1])
    <3> DEFINE v == [worker[c] EXCEPT !.attempt = @ + 1]
    <3>1. v.recs = w.recs /\ v.batch = w.batch /\ v.at = "handle"
        BY <1>1, <2>1 DEF WorkerStates
    <3>2. Step(c, v)
        BY <2>9
    <3> HIDE DEF v
    <3>3. Passed(k, v, S)
        BY <1>6, <3>1
    <3> QED
        BY <2>6, <3>2, <3>3
  <2>10. CASE Reescalate(c)
    <3>1. CASE Record(c).round < MaxRetryRounds
        BY <2>8, <2>10, <3>1 DEF Reescalate
    <3>2. CASE ~(Record(c).round < MaxRetryRounds)
        BY <2>8, <2>10, <3>2 DEF Reescalate
    <3> QED
        BY <3>1, <3>2
  <2> QED
      BY <1>12, <2>7, <2>8, <2>9, <2>10 DEF Handle
<1>13. CASE Side(c)
  <2>1. /\ w.at \in {"side", "dlq"} /\ w.at \in Busy /\ UNCHANGED <<applied, committed>>
        /\ SideSent(c) \/ UNCHANGED <<log, dead>>
        /\ \/ SideSent(c) /\ Step(c, At(c, "commit"))
           \/ k.loop = "closed" /\ Step(c, Next1(c))
    <3>1. sideFailures \in 0..MaxSideFailures
        BY DEF ConsumerInv
    <3>2. ~(sideFailures < MaxSideFailures)
        BY <3>1 DEF SidesHold
    <3> QED
        BY <1>13, <3>2 DEF Side, Busy
  <2>2. /\ LogsGrow /\ LogsAreLogs' /\ dead \subseteq dead'
        /\ SideSent(c) /\ w.at = "side"
               => /\ Len(log'["retry"]) = Len(log["retry"]) + 1
                  /\ log'["retry"][Len(log["retry"]) + 1].event = Record(c).event
      BY <2>1, SideSentGrows
  <2>3. applied \subseteq applied'
      BY <2>1
  <2>4. \A u \in Topics : Settled(u) \subseteq Settled(u)'
      BY <2>2, <2>3, SettledStays
  <2>5. \A u \in Topics : \A i \in 1..committed'[u] : i \in Settled(u)'
      BY <1>11, <2>1, <2>4
  <2>6. Head(w.batch) \in 1..Len(log[t]) /\ Record(c) = log[t][Head(w.batch)]
      BY <2>1, RecordInHand DEF Record
  <2>7. \A u \in Topics : Len(log[u]) \in Nat /\ Len(log'[u]) \in Nat
      BY <2>2, LenProperties DEF ConsumerInv, LogsAreLogs
  <2>8. Head(w.batch) \in 1..Len(log'[t]) /\ log'[t][Head(w.batch)] = Record(c)
      BY <1>1, <2>2, <2>6, <2>7 DEF LogsGrow
  <2>9. Passed(k, w, Settled(t)')
      BY <1>1, <2>4, PassedMore
  <2>10. ASSUME NEW v, Step(c, v), Passed(k, v, Settled(t)')
         PROVE  SkipInv'
    <3>1. Passed(client'[c], worker'[c], Settled(TopicOf[c])')
        BY <1>3, <2>10
    <3> QED
        BY <1>2, <1>3, <2>2, <2>3, <2>5, <2>10, <3>1, SkipMoves
  <2>11. CASE SideSent(c) /\ Step(c, At(c, "commit"))
    <3>1. Head(w.batch) \in Settled(t)'
      <4>1. CASE w.at = "dlq"
        <5>1. Record(c).event \in dead'
            BY <2>11, <4>1 DEF SideSent
        <5>2. log'[t][Head(w.batch)].event \in applied' \cup dead'
            BY <2>8, <5>1
        <5> QED
            BY <2>8, <5>2 DEF Settled
      <4>2. CASE w.at = "side"
        <5> DEFINE n == Len(log["retry"]) + 1
        <5>1. n \in 1..Len(log'["retry"]) /\ log'["retry"][n].event = Record(c).event
            BY <2>2, <2>7, <2>11, <4>2 DEF Topics
        <5>2. n > (IF t = "retry" THEN Head(w.batch) ELSE 0)
            BY <2>6, <2>7, <1>1 DEF Topics
        <5>3. \E i \in 1..Len(log'["retry"]) :
                  /\ i > (IF t = "retry" THEN Head(w.batch) ELSE 0)
                  /\ log'["retry"][i].event = log'[t][Head(w.batch)].event
            BY <2>8, <5>1, <5>2
        <5> QED
            BY <2>8, <5>3 DEF Settled, Carried
      <4> QED
          BY <2>1, <4>1, <4>2
    <3> DEFINE v == At(c, "commit")
               T == Settled(t)'
    <3>2. /\ v.recs = w.recs /\ v.batch = w.batch /\ Head(w.batch) \in T
          /\ Passed(k, w, T) /\ w.at # "none"
        BY <2>1, <2>9, <3>1, AtFacts DEF Busy
    <3> HIDE DEF v, T
    <3>3. Passed(k, v, T)
        BY <3>2, PassedPlace
    <3> QED
        BY <2>10, <2>11, <3>3 DEF v, T
  <2>12. CASE k.loop = "closed" /\ Step(c, Next1(c))
    <3> DEFINE v == Next1(c)
               T == Settled(t)'
    <3>1. v.batch = Tail(w.batch) /\ v.recs = w.recs /\ v.at # "commit"
        BY <1>1 DEF Next1, WorkerStates
    <3>2. Passed(k, w, T) /\ Step(c, v)
        BY <2>9, <2>12
    <3> HIDE DEF v, T
    <3>3. Passed(k, v, T)
        BY <1>1, <2>1, <2>12, <3>1, <3>2, PassedNext1
    <3> QED
        BY <2>10, <3>2, <3>3 DEF T
  <2> QED
      BY <2>1, <2>11, <2>12
<1>14. CASE Commit(c)
  <2>1. /\ w.at = "commit" /\ w.at \in Busy /\ Step(c, Next1(c))
        /\ UNCHANGED <<log, dead, applied>>
      BY <1>14 DEF Commit, Busy
  <2>2. LogsGrow /\ LogsAreLogs'
      BY <2>1, LogStays DEF ConsumerInv
  <2>3. \A u : Settled(u)' = Settled(u)
      BY <2>1 DEF Settled, Carried
  <2>4. \/ committed' = [committed EXCEPT ![t] = Head(w.batch)] /\ client[c].loop # "closed"
        \/ committed' = committed
      BY <1>14 DEF Commit
  <2>5. client[c].loop # "closed" => \A i \in 1..Head(w.batch) : i \in S
      BY <2>1, CommitPasses
  <2>6. \A u \in Topics : \A i \in 1..committed'[u] : i \in Settled(u)
    <3>1. committed \in [Topics -> Nat]
        BY DEF ConsumerInv
    <3> QED
        BY <1>1, <1>11, <2>4, <2>5, <3>1
  <2>7. \A u \in Topics : \A i \in 1..committed'[u] : i \in Settled(u)'
      BY <2>3, <2>6
  <2> DEFINE v == Next1(c)
  <2>8. v.batch = Tail(w.batch) /\ v.recs = w.recs /\ v.at # "commit"
      BY <1>1 DEF Next1, WorkerStates
  <2>9. Head(w.batch) \in S
      BY <1>1, <2>1 DEF Passed
  <2>10. Step(c, v)
      BY <2>1
  <2> HIDE DEF v
  <2>11. Passed(k, v, S)
      BY <1>1, <2>1, <2>8, <2>9, PassedNext1
  <2>12. Passed(client'[c], worker'[c], Settled(TopicOf[c])')
      BY <1>3, <2>3, <2>10, <2>11
  <2>13. applied \subseteq applied' /\ dead \subseteq dead'
      BY <2>1
  <2> QED
      BY <1>2, <1>3, <2>2, <2>7, <2>10, <2>12, <2>13, SkipMoves
<1> QED
    BY <1>5, <1>7, <1>9, <1>10, <1>12, <1>13, <1>14 DEF WorkerStep

\* A client that gets its partition begins at the committed offset.
LEMMA SkipLoopStep ==
    ASSUME ConsumerInv, SkipInv, NEW c \in Clients,
           \/ LoopStep(c) \/ Revoked(c) \/ RevokedUnheard(c) \/ SessionExpires(c)
           \/ Crash(c) \/ Cancel(c) \/ FetchFails(c)
    PROVE  SkipInv'
<1> DEFINE k == client[c]
           w == worker[c]
           t == TopicOf[c]
           S == Settled(TopicOf[c])
<1>1. /\ client \in [Clients -> ClientStates] /\ worker \in [Clients -> WorkerStates]
      /\ k \in ClientStates /\ w \in WorkerStates /\ Sound(k, w, log[t], t)
      /\ Passed(k, w, S) /\ t \in Topics
    BY OwnerFacts DEF ConsumerInv, SkipInv
<1>2. \A d \in Clients : client[d].stopping => d \in Stoppable
    BY DEF SkipInv
<1>3. NoWorker.recs = <<>> /\ NoWorker.batch = <<>> /\ NoWorker.at = "none"
      /\ ~Down.stopping /\ Down.fetched = <<>>
    BY DEF NoWorker, Down
<1>4. k.loop = "down" => w.recs = <<>> /\ w.batch = <<>> /\ w.at = "none"
    BY <1>1 DEF Sound, Shape
<1>5. k.loop # "dispatch" => k.fetched = <<>>
    BY <1>1 DEF Sound, Shape
<1>6. CASE Run(c)
  <2> DEFINE m == [Down EXCEPT !.loop = "poll", !.joined = TRUE]
  <2>1. m.fetched = <<>> /\ ~m.stopping
      BY DEF Down
  <2>2. /\ client' = [client EXCEPT ![c] = m] /\ worker' = worker
        /\ UNCHANGED broker /\ k.loop = "down"
      BY <1>6 DEF Run
  <2> HIDE DEF m
  <2>3. Passed(m, w, S)
      BY <1>4, <2>1, <2>2, PassedBare
  <2>4. client'[c] = m /\ \A d \in Clients \ {c} : client'[d] = client[d]
      BY <1>1, <2>2
  <2> QED
      BY <1>2, <2>1, <2>2, <2>3, <2>4, QuietSkipMoves
<1>7. CASE Assigned(c)
  <2> DEFINE n == committed[t]
             v == [NoWorker EXCEPT !.at = "idle"]
  <2>1. /\ k.loop = "poll" /\ UNCHANGED broker
        /\ client' = [client EXCEPT ![c].mine = TRUE, ![c].joined = FALSE,
                                    ![c].position = n]
        /\ worker' = [worker EXCEPT ![c] = v]
      BY <1>7 DEF Assigned
  <2>2. v.recs = <<>> /\ v.batch = <<>> /\ v.at # "commit"
      BY DEF NoWorker
  <2>3. \A i \in 1..n : i \in S
      BY <1>1 DEF SkipInv
  <2> HIDE DEF n, v
  <2>4. /\ client'[c].position = n /\ client'[c].fetched = k.fetched
        /\ client'[c].stopping = k.stopping
        /\ \A d \in Clients \ {c} : client'[d] = client[d]
      BY <1>1, <2>1 DEF ClientStates
  <2>5. worker'[c] = v /\ \A d \in Clients \ {c} : worker'[d] = worker[d]
      BY <1>1, <2>1
  <2>6. Passed(client'[c], v, S)
      BY <1>5, <2>1, <2>2, <2>3, <2>4, PassedBare
  <2> QED
      BY <1>2, <2>1, <2>4, <2>5, <2>6, QuietSkipMoves
<1>8. CASE RevokedDone(c)
  <2>1. /\ k.loop = "callback" /\ UNCHANGED broker
        /\ client' = [client EXCEPT ![c].loop = "poll", ![c].mine = FALSE]
        /\ worker' = [worker EXCEPT ![c] = NoWorker]
      BY <1>8 DEF RevokedDone
  <2>2. /\ client'[c].fetched = k.fetched
        /\ client'[c].stopping = k.stopping
        /\ \A d \in Clients \ {c} : client'[d] = client[d]
      BY <1>1, <2>1 DEF ClientStates
  <2>3. worker'[c] = NoWorker /\ \A d \in Clients \ {c} : worker'[d] = worker[d]
      BY <1>1, <2>1
  <2>4. Passed(client'[c], worker'[c], S)
      BY <1>3, <1>5, <2>1, <2>2, <2>3, PassedBare
  <2> QED
      BY <1>2, <2>1, <2>2, <2>3, <2>4, QuietSkipMoves
<1>9. CASE PollFetches(c)
  <2>1. PICK n \in (k.position + 1)..Len(log[t]) :
            client' = [client EXCEPT ![c].loop = "dispatch", ![c].poller = TRUE,
                                     ![c].position = n,
                                     ![c].fetched = Offsets(k.position, n)]
      BY <1>9 DEF PollFetches
  <2>2. k.loop = "poll" /\ k.mine /\ worker' = worker /\ UNCHANGED broker
      BY <1>9 DEF PollFetches
  <2>3. k.position \in Nat /\ n \in Nat /\ n > k.position
    <3>1. log[t] \in Seq(Records)
        BY <1>1 DEF ConsumerInv, LogsAreLogs
    <3>2. Len(log[t]) \in Nat /\ k.position \in Nat
        BY <1>1, <3>1, LenProperties DEF ClientStates
    <3> QED
        BY <3>2
  <2>4. /\ client'[c].position = n /\ client'[c].fetched = Offsets(k.position, n)
        /\ client'[c].stopping = k.stopping
        /\ \A d \in Clients \ {c} : client'[d] = client[d]
      BY <1>1, <2>1 DEF ClientStates
  <2>5. Passed(client'[c], w, S)
      BY <1>1, <2>2, <2>3, <2>4, PassedPoll
  <2> QED
      BY <1>2, <2>2, <2>4, <2>5, QuietSkipMoves
<1>10. CASE Dispatch(c)
  <2>1. /\ worker' = [worker EXCEPT ![c].recs = Append(@, k.fetched)]
        /\ client' = [client EXCEPT ![c].loop = "poll", ![c].poller = FALSE,
                                    ![c].fetched = <<>>]
        /\ UNCHANGED broker /\ k.loop = "dispatch"
      BY <1>10 DEF Dispatch
  <2>2. /\ worker'[c].recs = Append(w.recs, k.fetched)
        /\ worker'[c].at = w.at /\ worker'[c].batch = w.batch
        /\ \A d \in Clients \ {c} : worker'[d] = worker[d]
      BY <1>1, <2>1 DEF WorkerStates
  <2>3. /\ client'[c].position = k.position
        /\ client'[c].fetched = <<>> /\ client'[c].stopping = k.stopping
        /\ \A d \in Clients \ {c} : client'[d] = client[d]
      BY <1>1, <2>1 DEF ClientStates
  <2>4. Passed(client'[c], worker'[c], S)
    <3> DEFINE m == client'[c]
               v == worker'[c]
    <3>1. /\ m.position = k.position /\ m.fetched = <<>>
          /\ v.recs = Append(w.recs, k.fetched) /\ v.at = w.at /\ v.batch = w.batch
        BY <2>2, <2>3
    <3> HIDE DEF m, v
    <3>2. Passed(m, v, S)
        BY <1>1, <2>1, <3>1, PassedDispatch
    <3> QED
        BY <3>2 DEF m, v
  <2> QED
      BY ZenonT(60), <1>2, <2>1, <2>2, <2>3, <2>4, QuietSkipMoves
<1>11. ASSUME NEW v, v = [w EXCEPT !.quit = TRUE], NEW m, k.loop # "closed",
              m.position = k.position, m.fetched = k.fetched
       PROVE  Passed(m, v, S)
  <2>1. v.recs = w.recs /\ v.batch = w.batch /\ v.at = w.at
      BY <1>1, <1>11 DEF WorkerStates
  <2>2. v.at = "commit" => Head(w.batch) \in S
      BY <1>1, <2>1 DEF Passed
  <2>3. Passed(k, v, S)
      BY <1>1, <2>1, <2>2, PassedPlace
  <2> QED
      BY <1>11, <2>3, PassedLoop
<1>12. CASE Return(c) \/ FetchFails(c)
  <2>1. PICK stopping \in BOOLEAN :
            /\ Returns(c, FALSE, stopping) /\ UNCHANGED broker /\ k.loop = "poll"
            /\ stopping => k.stopping \/ c \in Stoppable
      BY <1>12 DEF Return, FetchFails, Returns
  <2>2. /\ client' = [client EXCEPT ![c].loop = "stopAll", ![c].poller = FALSE,
                                    ![c].stopping = stopping]
        /\ worker' = [worker EXCEPT ![c].quit = TRUE]
      BY <2>1 DEF Returns
  <2>3. /\ worker'[c] = [w EXCEPT !.quit = TRUE]
        /\ \A d \in Clients \ {c} : worker'[d] = worker[d]
      BY <1>1, <2>2
  <2>4. /\ client'[c].position = k.position
        /\ client'[c].fetched = k.fetched /\ client'[c].stopping = stopping
        /\ \A d \in Clients \ {c} : client'[d] = client[d]
      BY <1>1, <2>2 DEF ClientStates
  <2>5. Passed(client'[c], worker'[c], S)
      BY <1>11, <2>1, <2>3, <2>4
  <2> QED
      BY <1>2, <2>1, <2>3, <2>4, <2>5, QuietSkipMoves
<1>13. CASE Exit(c) \/ Crash(c)
  <2>1. /\ client' = [client EXCEPT ![c] = Down] /\ UNCHANGED broker
        /\ worker' = [worker EXCEPT ![c] = NoWorker]
      BY <1>13 DEF Exit, Crash
  <2>2. client'[c] = Down /\ \A d \in Clients \ {c} : client'[d] = client[d]
      BY <1>1, <2>1
  <2>3. worker'[c] = NoWorker /\ \A d \in Clients \ {c} : worker'[d] = worker[d]
      BY <1>1, <2>1
  <2>4. Passed(client'[c], worker'[c], S)
      BY <1>3, <2>2, <2>3, PassedBare
  <2> QED
      BY <1>2, <1>3, <2>1, <2>2, <2>3, <2>4, QuietSkipMoves
<1>14. CASE Revoked(c) \/ RevokedUnheard(c)
  <2>1. PICK m \in ClientStates :
            /\ m.position = k.position /\ m.fetched = k.fetched /\ m.stopping = k.stopping
            /\ \/ client' = [client EXCEPT ![c] = m]
               \/ \E d \in Clients \ {c} :
                     client' = [client EXCEPT ![c] = m, ![d].joined = FALSE]
    <3> DEFINE back == [k EXCEPT !.loop = "callback"]
               lost == [k EXCEPT !.mine = FALSE]
    <3>1. /\ back \in ClientStates /\ back.position = k.position
          /\ back.fetched = k.fetched /\ back.stopping = k.stopping
        BY <1>1 DEF ClientStates
    <3>2. /\ lost \in ClientStates /\ lost.position = k.position
          /\ lost.fetched = k.fetched /\ lost.stopping = k.stopping
        BY <1>1 DEF ClientStates
    <3>3. CASE Revoked(c)
      <4>1. \/ client' = [client EXCEPT ![c] = back]
            \/ \E d \in Clients \ {c} :
                  client' = [client EXCEPT ![c] = back, ![d].joined = FALSE]
          BY <3>3 DEF Revoked
      <4> HIDE DEF back
      <4> QED
          BY <3>1, <4>1
    <3>4. CASE RevokedUnheard(c)
      <4>1. \/ client' = [client EXCEPT ![c] = lost]
            \/ \E d \in Clients \ {c} :
                  client' = [client EXCEPT ![c] = lost, ![d].joined = FALSE]
          BY <3>4 DEF RevokedUnheard
      <4> HIDE DEF lost
      <4> QED
          BY <3>2, <4>1
    <3> QED
        BY <1>14, <3>3, <3>4
  <2>2. /\ client'[c] = m
        /\ \A d \in Clients \ {c} :
              /\ client'[d].loop = client[d].loop
              /\ client'[d].position = client[d].position
              /\ client'[d].fetched = client[d].fetched
              /\ client'[d].stopping = client[d].stopping
      BY <1>1, <2>1, JoinedOrNot
  <2>3. /\ worker'[c] = w \/ worker'[c] = [w EXCEPT !.quit = TRUE]
        /\ \A d \in Clients \ {c} : worker'[d] = worker[d]
        /\ UNCHANGED broker /\ k.loop # "closed"
      BY <1>1, <1>14 DEF Revoked, RevokedUnheard, NoEngine
  <2>4. Passed(client'[c], worker'[c], S)
    <3>1. CASE worker'[c] = w
        BY <1>1, <2>1, <2>2, <2>3, <3>1, PassedLoop
    <3>2. CASE worker'[c] = [w EXCEPT !.quit = TRUE]
        BY <1>11, <2>1, <2>2, <2>3, <3>2
    <3> QED
        BY <2>3, <3>1, <3>2
  <2>5. \A d \in Clients : client'[d].stopping => d \in Stoppable
      BY <1>2, <2>1, <2>2
  <2> QED
      BY <2>2, <2>3, <2>4, <2>5, QuietSkipMoves
<1>15. CASE SessionExpires(c)
  <2>1. client' = client /\ worker' = worker /\ UNCHANGED broker
      BY <1>15 DEF SessionExpires
  <2> QED
      BY <1>1, <1>2, <2>1, QuietSkipMoves
<1>16. CASE Cancel(c)
  <2>1. /\ client' = [client EXCEPT ![c].stopping = TRUE] /\ worker' = worker
        /\ UNCHANGED broker /\ c \in Stoppable
      BY <1>16 DEF Cancel
  <2>2. /\ client'[c].position = k.position /\ client'[c].loop = k.loop
        /\ client'[c].fetched = k.fetched
        /\ \A d \in Clients \ {c} : client'[d] = client[d]
      BY <1>1, <2>1 DEF ClientStates
  <2>3. Passed(client'[c], w, S)
      BY <1>1, <2>2, PassedLoop
  <2> QED
      BY <1>2, <2>1, <2>2, <2>3, QuietSkipMoves
<1>17. CASE AssignedUnheard(c) \/ Close(c)
  <2>1. /\ \/ client' = [client EXCEPT ![c].mine = TRUE, ![c].joined = FALSE]
           \/ client' = [client EXCEPT ![c].loop = "closed", ![c].mine = FALSE]
        /\ worker' = worker /\ UNCHANGED broker /\ k.loop # "closed"
      BY <1>17 DEF AssignedUnheard, Close, NoEngine
  <2>2. /\ client'[c].position = k.position /\ client'[c].fetched = k.fetched
        /\ client'[c].stopping = k.stopping
        /\ \A d \in Clients \ {c} : client'[d] = client[d]
      BY <1>1, <2>1 DEF ClientStates
  <2>3. Passed(client'[c], w, S)
      BY <1>1, <2>1, <2>2, PassedLoop
  <2> QED
      BY <1>2, <2>1, <2>2, <2>3, QuietSkipMoves
<1>18. CASE StopAllDone(c)
  <2>1. /\ k.loop = "stopAll" /\ UNCHANGED broker
        /\ client' = [client EXCEPT ![c].loop = "returned"]
        /\ worker' = [worker EXCEPT ![c] = NoWorker]
      BY <1>18 DEF StopAllDone
  <2>2. /\ client'[c].fetched = k.fetched /\ client'[c].stopping = k.stopping
        /\ \A d \in Clients \ {c} : client'[d] = client[d]
      BY <1>1, <2>1 DEF ClientStates
  <2>3. worker'[c] = NoWorker /\ \A d \in Clients \ {c} : worker'[d] = worker[d]
      BY <1>1, <2>1
  <2>4. Passed(client'[c], worker'[c], S)
      BY <1>3, <1>5, <2>1, <2>2, <2>3, PassedBare
  <2> QED
      BY <1>2, <2>1, <2>2, <2>3, <2>4, QuietSkipMoves
<1> QED
    BY <1>6, <1>7, <1>8, <1>9, <1>10, <1>12, <1>13, <1>14, <1>15, <1>16, <1>17, <1>18
    DEF LoopStep

\* Every step of the consumers keeps SkipInv.
LEMMA SkipStep ==
    ASSUME ConsumerInv, SidesHold, SkipInv, [Next]_vars
    PROVE  SkipInv'
<1>1. CASE UNCHANGED vars
  <2>1. \A t : Settled(t)' = Settled(t)
      BY <1>1 DEF vars, Settled, Carried
  <2> QED
      BY <1>1, <2>1 DEF vars, SkipInv
<1>2. ASSUME NEW e \in Events, Publish(e) PROVE SkipInv'
  <2> DEFINE x == [event |-> e, round |-> 0]
  <2>1. /\ log' = [log EXCEPT !["main"] = Append(@, x)] /\ x \in Records /\ x.round = 0
        /\ "main" \in Topics /\ UNCHANGED <<dead, applied, committed, client, worker>>
      BY <1>2, DeliveryAssumption DEF Publish, Records, Topics, ConsumerAssumption
  <2> HIDE DEF x
  <2>2. LogsAreLogs' /\ LogsGrow
      BY <2>1, LogAppend DEF ConsumerInv
  <2>3. \A t \in Topics : Settled(t) \subseteq Settled(t)'
      BY <2>1, <2>2, SettledStays
  <2>4. \A t \in Topics : \A i \in 1..committed'[t] : i \in Settled(t)'
      BY <2>1, <2>3 DEF SkipInv
  <2>5. \A c \in Clients : Passed(client'[c], worker'[c], Settled(TopicOf[c])')
    <3> TAKE c \in Clients
    <3>1. Passed(client[c], worker[c], Settled(TopicOf[c])) /\ TopicOf[c] \in Topics
        BY OwnerFacts DEF SkipInv
    <3>2. Passed(client[c], worker[c], Settled(TopicOf[c])')
        BY <2>3, <3>1, PassedMore
    <3> QED
        BY <2>1, <3>2
  <2> QED
      BY <2>1, <2>4, <2>5 DEF SkipInv
<1>3. ASSUME NEW c \in Clients, WorkerStep(c) PROVE SkipInv'
    BY <1>3, SkipWorkerStep
<1>4. ASSUME NEW c \in Clients,
             \/ LoopStep(c) \/ Revoked(c) \/ RevokedUnheard(c) \/ SessionExpires(c)
             \/ Crash(c) \/ Cancel(c) \/ FetchFails(c)
      PROVE  SkipInv'
    BY <1>4, SkipLoopStep
<1> QED
    BY <1>1, <1>2, <1>3, <1>4 DEF Next

\* At first nothing is committed and nothing in hand.
LEMMA SkipInit ==
    ASSUME Init
    PROVE  SkipInv
<1>1. \A c \in Clients : client[c] = Down /\ worker[c] = NoWorker
    BY DEF Init
<1>2. /\ ~Down.stopping /\ Down.fetched = <<>> /\ NoWorker.recs = <<>>
      /\ NoWorker.batch = <<>> /\ NoWorker.at = "none"
    BY DEF Down, NoWorker
<1>3. \A c \in Clients : Passed(client[c], worker[c], Settled(TopicOf[c]))
    BY <1>1, <1>2, PassedBare
<1> QED
    BY <1>1, <1>2, <1>3 DEF Init, SkipInv

\* It implies that nothing is skipped.
LEMMA SkipInvMeans ==
    ASSUME SkipInv
    PROVE  NothingSkipped
BY DEF SkipInv, NothingSkipped, Settled

-----------------------------------------------------------------------------
(* The relays: what the broker has is counted against the rows it is of.      *)

\* The rows that the broker has taken.
Taken == {sent[i] : i \in 1..Len(sent)}
\* Those of them that no relay remembers as sent: they will be sent once more.
Stale == {e \in Taken : row[e] = "pending" /\ \A r \in Relays : e \notin relay[r].published}

\* A relay that publishes holds the locks of the rows in its hands.
RelaySound(r) ==
    /\ relay[r].at # "publish" => relay[r].rest = {} /\ relay[r].published = {}
    /\ relay[r].rest \cap relay[r].published = {}
    /\ \A e \in relay[r].rest \cup relay[r].published : row[e] = "pending" /\ r \in lock[e]
    /\ relay[r].published \subseteq Taken
    /\ IsFiniteSet(relay[r].rest) /\ IsFiniteSet(relay[r].published)
    /\ Cardinality(relay[r].rest) + Cardinality(relay[r].published) <= BatchSize

\* The inductive invariant of the relays. Each fault can make at most a batch of
\* rows stale, and each send of a stale row makes one duplicate of it.
RelayInv ==
    /\ Relay!TypeOK
    /\ \A r \in Relays : RelaySound(r)
    /\ \A e \in Rows : \A r, s \in lock[e] : r = s
    /\ \A e \in Taken : row[e] \in {"pending", "published"}
    /\ \A e \in Rows : row[e] = "published" => e \in Taken
    /\ IsFiniteSet(Taken)
    /\ Len(sent) - Cardinality(Taken) + Cardinality(Stale) <= faults * BatchSize

\* The relays' module has the same cardinality.
LEMMA RelayCardinality == \A S : Relay!Cardinality(S) = Cardinality(S)
BY DEF Relay!Cardinality, Cardinality

Smaller(F, e) == {d \in F : d < e}

\* A row has more rows before it than any row before it has.
LEMMA SmallerFacts ==
    ASSUME NEW F, F \subseteq Nat, NEW e \in F
    PROVE  /\ IsFiniteSet(Smaller(F, e)) /\ Cardinality(Smaller(F, e)) \in Nat
           /\ \A d \in F : d < e => Cardinality(Smaller(F, d)) < Cardinality(Smaller(F, e))
<1>1. ASSUME NEW d \in F
      PROVE  IsFiniteSet(Smaller(F, d)) /\ Cardinality(Smaller(F, d)) \in Nat
  <2>1. d \in Nat /\ Smaller(F, d) \in SUBSET Nat
      BY DEF Smaller
  <2>2. \A x \in Smaller(F, d) : x <= d
      BY DEF Smaller
  <2>3. IsFiniteSet(Smaller(F, d))
      BY <2>1, <2>2, FS_BoundedSetOfNaturals
  <2> QED
      BY <2>3, FS_CardinalityType
<1>2. ASSUME NEW d \in F, d < e
      PROVE  Cardinality(Smaller(F, d)) < Cardinality(Smaller(F, e))
  <2>1. d \in Nat /\ e \in Nat
      OBVIOUS
  <2>2. \A x \in F : x \in Nat /\ (x < d => x < e)
      BY <1>2, <2>1
  <2>3. /\ Smaller(F, d) \in SUBSET Smaller(F, e)
        /\ d \in Smaller(F, e) /\ d \notin Smaller(F, d)
    <3>1. ~(d < d)
        BY <2>1
    <3>2. Smaller(F, d) \subseteq Smaller(F, e)
        BY <2>2 DEF Smaller
    <3>3. d \in Smaller(F, e)
        BY <1>2 DEF Smaller
    <3>4. d \notin Smaller(F, d)
        BY <3>1 DEF Smaller
    <3> QED
        BY <3>2, <3>3, <3>4
  <2>4. /\ Cardinality(Smaller(F, d)) <= Cardinality(Smaller(F, e))
        /\ Cardinality(Smaller(F, e)) = Cardinality(Smaller(F, d))
               => Smaller(F, e) = Smaller(F, d)
      BY <1>1, <2>3, FS_Subset
  <2>5. Cardinality(Smaller(F, d)) \in Nat /\ Cardinality(Smaller(F, e)) \in Nat
      BY <1>1
  <2> QED
      BY <2>3, <2>4, <2>5
<1> QED
    BY <1>1, <1>2

\* ORDER BY id LIMIT n: no more than n numbers have fewer than n smaller ones.
LEMMA FirstFew ==
    ASSUME NEW F, F \subseteq Nat, NEW n \in Nat,
           NEW few, few = {e \in F : Cardinality(Smaller(F, e)) < n}
    PROVE  IsFiniteSet(few) /\ Cardinality(few) <= n
<1> DEFINE f == [e \in few |-> Cardinality(Smaller(F, e))]
<1>1. \A e \in few : Cardinality(Smaller(F, e)) \in 0..(n - 1)
  <2> TAKE e \in few
  <2>1. Cardinality(Smaller(F, e)) \in Nat /\ Cardinality(Smaller(F, e)) < n
      BY SmallerFacts
  <2> QED
      BY <2>1
<1>2. f \in [few -> 0..(n - 1)]
    BY <1>1
<1>3. ASSUME NEW e \in few, NEW d \in few, e # d
      PROVE  f[e] # f[d]
  <2>1. e \in F /\ d \in F /\ e \in Nat /\ d \in Nat
      OBVIOUS
  <2>2. e < d \/ d < e
      BY <1>3, <2>1
  <2>3. Cardinality(Smaller(F, e)) \in Nat /\ Cardinality(Smaller(F, d)) \in Nat
      BY <2>1, SmallerFacts
  <2>4. \/ Cardinality(Smaller(F, d)) < Cardinality(Smaller(F, e))
        \/ Cardinality(Smaller(F, e)) < Cardinality(Smaller(F, d))
      BY <2>1, <2>2, SmallerFacts
  <2> QED
      BY <2>3, <2>4
<1>4. f \in Injection(few, 0..(n - 1))
  <2> HIDE DEF f
  <2> QED
      BY <1>2, <1>3 DEF Injection, IsInjective
<1>5. IsFiniteSet(0..(n - 1)) /\ Cardinality(0..(n - 1)) = n
    BY FS_Interval
<1> HIDE DEF f
<1> QED
    BY <1>4, <1>5, FS_Injection

\* What SELECT ... LIMIT ... FOR UPDATE SKIP LOCKED returns.
LEMMA SelectFacts ==
    ASSUME NEW s
    PROVE  /\ Relay!Select(s) \subseteq Rows
           /\ \A e \in Relay!Select(s) : row[e] = "pending" /\ lock[e] = {}
           /\ IsFiniteSet(Relay!Select(s)) /\ Cardinality(Relay!Select(s)) <= BatchSize
<1> DEFINE free == {e \in Relay!Pending(s) : lock[e] = {}}
           few == {e \in free : Cardinality(Smaller(free, e)) < BatchSize}
<1>1. Relay!Select(s) = few
    BY RelayCardinality DEF Relay!Select, Smaller
<1>2. BatchSize \in Nat /\ Rows \subseteq Nat
    BY DeliveryAssumption DEF Relay!RelayAssumption
<1>3. free \subseteq Nat /\ free \subseteq Rows
      /\ \A e \in free : row[e] = "pending" /\ lock[e] = {}
    BY <1>2 DEF Relay!Pending
<1>4. few \subseteq free
    OBVIOUS
<1>5. IsFiniteSet(few) /\ Cardinality(few) <= BatchSize
  <2> HIDE DEF free
  <2> QED
      BY <1>2, <1>3, FirstFew
<1> HIDE DEF free, few
<1> QED
    BY <1>1, <1>3, <1>4, <1>5

RelayStates == [at : {"idle", "stopped", "poll", "publish"}, shard : 0..Shards,
                rest : SUBSET Rows, published : SUBSET Rows]

\* What the types of the relays' variables say.
LEMMA RelayTypes ==
    ASSUME RelayInv
    PROVE  /\ row \in [Rows -> {"none", "open", "pending", "published", "undone"}]
           /\ lock \in [Rows -> SUBSET Relays] /\ relay \in [Relays -> RelayStates]
           /\ sent \in Seq(Rows) /\ Len(sent) \in Nat /\ faults \in 0..MaxFaults
           /\ faults \in Nat /\ MaxFaults \in Nat
           /\ BatchSize \in Nat \ {0} /\ Shards \in Nat \ {0}
           /\ Taken \subseteq Rows
           /\ IsFiniteSet(Taken) /\ Cardinality(Taken) \in Nat
           /\ IsFiniteSet(Stale) /\ Cardinality(Stale) \in Nat
<1>1. /\ row \in [Rows -> {"none", "open", "pending", "published", "undone"}]
      /\ lock \in [Rows -> SUBSET Relays] /\ relay \in [Relays -> RelayStates]
      /\ sent \in Seq(Rows) /\ faults \in 0..MaxFaults
    BY DEF RelayInv, Relay!TypeOK, RelayStates
<1>2. MaxFaults \in Nat /\ BatchSize \in Nat \ {0} /\ Shards \in Nat \ {0}
    BY DeliveryAssumption DEF Relay!RelayAssumption
<1>3. Taken \subseteq Rows
    BY <1>1, ElementOfSeq DEF Taken
<1>4. Len(sent) \in Nat
    BY <1>1, LenProperties
<1>5. Stale \in SUBSET Taken /\ IsFiniteSet(Taken)
    BY DEF Stale, RelayInv
<1>6. IsFiniteSet(Stale)
    BY <1>5, FS_Subset
<1> QED
    BY <1>1, <1>2, <1>3, <1>4, <1>5, <1>6, FS_CardinalityType

\* A relay that has left the shard has nothing in its hands.
EmptyHanded(x) ==
    x \in RelayStates /\ x.at # "publish" /\ x.rest = {} /\ x.published = {}

\* Where a relay goes after a shard, or starts, it has nothing in its hands.
LEMMA IdleIsEmptyHanded ==
    ASSUME RelayInv, NEW r \in Relays
    PROVE  /\ EmptyHanded(Relay!Idle) /\ EmptyHanded(Relay!Stopped)
           /\ EmptyHanded(Relay!Leave(r))
           /\ EmptyHanded([Relay!Idle EXCEPT !.at = "poll", !.shard = 1])
<1>1. Shards \in Nat \ {0} /\ relay[r] \in RelayStates
    BY RelayTypes
<1>2. EmptyHanded(Relay!Idle)
    BY <1>1 DEF EmptyHanded, RelayStates, Relay!Idle
<1>3. ASSUME NEW place \in {"poll", "stopped"}, NEW n \in 0..Shards
      PROVE  EmptyHanded([Relay!Idle EXCEPT !.at = place, !.shard = n])
    BY <1>2 DEF EmptyHanded, RelayStates
<1>4. EmptyHanded(Relay!Stopped)
    BY <1>2 DEF EmptyHanded, RelayStates, Relay!Stopped
<1>5. EmptyHanded(Relay!Leave(r))
  <2>1. relay[r].shard \in 0..Shards
      BY <1>1 DEF RelayStates
  <2>2. relay[r].shard < Shards => relay[r].shard + 1 \in 0..Shards
      BY <1>1, <2>1
  <2>3. CASE relay[r].shard < Shards
    <3>1. Relay!Leave(r) = [Relay!Idle EXCEPT !.at = "poll", !.shard = relay[r].shard + 1]
        BY <2>3 DEF Relay!Leave
    <3> QED
        BY <1>3, <2>2, <2>3, <3>1
  <2>4. CASE ~(relay[r].shard < Shards)
      BY <1>2, <2>4 DEF Relay!Leave
  <2> QED
      BY <2>3, <2>4
<1>6. 1 \in 0..Shards
    BY <1>1
<1> QED
    BY <1>2, <1>3, <1>4, <1>5, <1>6

\* A step of relay r leaves the others as they are.
LEMMA RelayMoves ==
    ASSUME RelayInv, NEW r \in Relays, Relay!TypeOK', RelaySound(r)',
           \A q \in Relays \ {r} : relay'[q] = relay[q],
           \A q \in Relays \ {r} : \A e \in relay[q].rest \cup relay[q].published :
               row'[e] = row[e] /\ (q \in lock[e] => q \in lock'[e]),
           Taken \subseteq Taken'
    PROVE  \A q \in Relays : RelaySound(q)'
<1> SUFFICES ASSUME NEW q \in Relays, q # r
             PROVE  RelaySound(q)'
    OBVIOUS
<1>1. RelaySound(q) /\ relay'[q] = relay[q]
    BY DEF RelayInv
<1> QED
    BY <1>1 DEF RelaySound

\* Publish: what the broker has after it took a row.
LEMMA TakenAppend ==
    ASSUME RelayInv, NEW e \in Rows, sent' = Append(sent, e)
    PROVE  /\ sent' \in Seq(Rows) /\ Len(sent') = Len(sent) + 1
           /\ Taken' = Taken \cup {e} /\ IsFiniteSet(Taken')
           /\ Cardinality(Taken') = IF e \in Taken THEN Cardinality(Taken)
                                    ELSE Cardinality(Taken) + 1
<1>1. sent \in Seq(Rows) /\ Len(sent) \in Nat
    BY RelayTypes
<1>2. /\ sent' \in Seq(Rows) /\ Len(sent') = Len(sent) + 1
      /\ \A i \in 1..Len(sent) : sent'[i] = sent[i]
      /\ sent'[Len(sent) + 1] = e
    BY <1>1, AppendProperties
<1>3. Taken' = Taken \cup {e}
  <2>1. ASSUME NEW x \in Taken'
        PROVE  x \in Taken \cup {e}
    <3>1. PICK i \in 1..Len(sent') : x = sent'[i]
        BY <2>1 DEF Taken
    <3>2. i \in 1..Len(sent) \/ i = Len(sent) + 1
        BY <1>1, <1>2
    <3> QED
        BY <1>2, <3>1, <3>2 DEF Taken
  <2>2. ASSUME NEW x \in Taken
        PROVE  x \in Taken'
    <3>1. PICK i \in 1..Len(sent) : x = sent[i]
        BY <2>2 DEF Taken
    <3>2. i \in 1..Len(sent') /\ x = sent'[i]
        BY <1>1, <1>2, <3>1
    <3> QED
        BY <3>2 DEF Taken
  <2>3. e \in Taken'
    <3>1. Len(sent) + 1 \in 1..Len(sent')
        BY <1>1, <1>2
    <3> QED
        BY <1>2, <3>1 DEF Taken
  <2> QED
      BY <2>1, <2>2, <2>3
<1>4. IsFiniteSet(Taken)
    BY DEF RelayInv
<1> QED
    BY <1>2, <1>3, <1>4, FS_AddElement

\* One fault more is one batch more.
LEMMA FaultsCount ==
    ASSUME NEW m \in Nat, NEW b \in Nat
    PROVE  m * b \in Nat /\ (m + 1) * b = m * b + b
OBVIOUS

\* What a step that sends nothing and leaves the rows in the relays' hands must show.
LEMMA QuietRelayMoves ==
    ASSUME RelayInv, NEW r \in Relays, NEW x, EmptyHanded(x),
           relay' = [relay EXCEPT ![r] = x], sent' = sent,
           row' \in [Rows -> {"none", "open", "pending", "published", "undone"}],
           lock' \in [Rows -> SUBSET Relays],
           \A e \in Rows : lock'[e] = lock[e] \/ lock'[e] = lock[e] \ {r},
           \A e \in Taken : row'[e] \in {"pending", "published"},
           \A e \in Rows : row'[e] = "published" => e \in Taken,
           \A q \in Relays \ {r} : \A e \in relay[q].rest \cup relay[q].published :
               row'[e] = row[e],
           faults' \in 0..MaxFaults, IsFiniteSet(Stale'),
           Len(sent) - Cardinality(Taken) + Cardinality(Stale') <= faults' * BatchSize
    PROVE  RelayInv'
<1>1. /\ relay \in [Relays -> RelayStates] /\ sent \in Seq(Rows)
      /\ lock \in [Rows -> SUBSET Relays]
    BY RelayTypes
<1>2. /\ relay' \in [Relays -> RelayStates] /\ relay'[r] = x
      /\ \A q \in Relays \ {r} : relay'[q] = relay[q]
    BY <1>1 DEF EmptyHanded
<1>3. Taken' = Taken
    BY DEF Taken
<1>4. Relay!TypeOK'
    BY <1>1, <1>2 DEF Relay!TypeOK, RelayStates
<1>5. BatchSize \in Nat
    BY RelayTypes
<1>6. RelaySound(r)'
  <2>1. IsFiniteSet({}) /\ Cardinality({}) + Cardinality({}) <= BatchSize
      BY <1>5, FS_EmptySet
  <2>2. relay'[r].at # "publish" /\ relay'[r].rest = {} /\ relay'[r].published = {}
      BY <1>2 DEF EmptyHanded
  <2> QED
      BY <2>1, <2>2 DEF RelaySound
<1>7. \A q \in Relays : RelaySound(q)'
  <2>1. \A q \in Relays \ {r} : \A e \in relay[q].rest \cup relay[q].published :
            q \in lock[e] => q \in lock'[e]
    <3> TAKE q \in Relays \ {r}
    <3> TAKE e \in relay[q].rest \cup relay[q].published
    <3>1. e \in Rows
        BY <1>1 DEF RelayStates
    <3> QED
        BY <3>1
  <2> QED
      BY <1>2, <1>3, <1>4, <1>6, <2>1, RelayMoves
<1>8. \A e \in Rows : \A p, q \in lock'[e] : p = q
    BY DEF RelayInv
<1>9. /\ \A e \in Taken' : row'[e] \in {"pending", "published"}
      /\ \A e \in Rows : row'[e] = "published" => e \in Taken'
      /\ IsFiniteSet(Taken')
    BY <1>3 DEF RelayInv
<1>10. Len(sent') - Cardinality(Taken') + Cardinality(Stale') <= faults' * BatchSize
    BY <1>3
<1> QED
    BY <1>4, <1>7, <1>8, <1>9, <1>10 DEF RelayInv

\* Tick, Stop, Start, and a poll that finds nothing or fails.
LEMMA EmptyHandedKeeps ==
    ASSUME RelayInv, NEW r \in Relays, NEW x, EmptyHanded(x), relay[r].at # "publish",
           relay' = [relay EXCEPT ![r] = x], UNCHANGED <<row, lock, sent>>,
           faults' \in 0..MaxFaults, faults' = faults \/ faults' = faults + 1
    PROVE  RelayInv'
<1>1. /\ relay \in [Relays -> RelayStates] /\ faults \in Nat /\ BatchSize \in Nat
      /\ row \in [Rows -> {"none", "open", "pending", "published", "undone"}]
      /\ lock \in [Rows -> SUBSET Relays] /\ Len(sent) \in Nat
      /\ Cardinality(Taken) \in Nat /\ IsFiniteSet(Stale) /\ Cardinality(Stale) \in Nat
    BY RelayTypes
<1>2. relay[r].published = {} /\ x.published = {}
    BY DEF RelayInv, RelaySound, EmptyHanded
<1>3. \A q \in Relays : relay'[q].published = relay[q].published
    BY <1>1, <1>2
<1>4. Stale' = Stale
    BY <1>3 DEF Stale, Taken
<1>5. faults * BatchSize \in Nat /\ (faults + 1) * BatchSize = faults * BatchSize + BatchSize
    BY <1>1, FaultsCount
<1>6. Len(sent) - Cardinality(Taken) + Cardinality(Stale') <= faults' * BatchSize
  <2>1. Len(sent) - Cardinality(Taken) + Cardinality(Stale) <= faults * BatchSize
      BY DEF RelayInv
  <2> QED
      BY <1>1, <1>4, <1>5, <2>1
<1>7. /\ \A e \in Taken : row'[e] \in {"pending", "published"}
      /\ \A e \in Rows : row'[e] = "published" => e \in Taken
    BY DEF RelayInv
<1> QED
    BY <1>1, <1>4, <1>6, <1>7, QuietRelayMoves

\* A SELECT takes no more than a batch, and only rows nobody holds.
LEMMA PollShardKeeps ==
    ASSUME RelayInv, NEW r \in Relays, Relay!PollShard(r)
    PROVE  RelayInv'
<1> DEFINE batch == Relay!Select(relay[r].shard)
<1>1. /\ relay \in [Relays -> RelayStates] /\ relay[r] \in RelayStates
      /\ faults \in Nat /\ BatchSize \in Nat /\ faults \in 0..MaxFaults /\ MaxFaults \in Nat
      /\ row \in [Rows -> {"none", "open", "pending", "published", "undone"}]
      /\ lock \in [Rows -> SUBSET Relays] /\ sent \in Seq(Rows)
    BY RelayTypes
<1>2. relay[r].at = "poll" /\ UNCHANGED <<row, sent>>
    BY DEF Relay!PollShard
<1>3. /\ batch \subseteq Rows /\ IsFiniteSet(batch) /\ Cardinality(batch) <= BatchSize
      /\ \A e \in batch : row[e] = "pending" /\ lock[e] = {}
    BY SelectFacts
<1>4. relay[r].published = {} /\ relay[r].rest = {}
    BY <1>2 DEF RelayInv, RelaySound
<1>5. CASE relay' = [relay EXCEPT ![r] = Relay!Leave(r)] /\ UNCHANGED lock
           /\ (Relay!NoFault \/ Relay!Fault)
  <2>1. faults' \in 0..MaxFaults /\ (faults' = faults \/ faults' = faults + 1)
      BY <1>1, <1>5 DEF Relay!NoFault, Relay!Fault
  <2> QED
      BY <1>2, <1>5, <2>1, IdleIsEmptyHanded, EmptyHandedKeeps
<1>6. CASE /\ lock' = [e \in Rows |-> IF e \in batch THEN lock[e] \cup {r} ELSE lock[e]]
           /\ relay' = [relay EXCEPT ![r].at = "publish", ![r].rest = batch]
           /\ Relay!NoFault
  <2> HIDE DEF batch
  <2>1. /\ relay'[r] \in RelayStates /\ relay'[r].at = "publish" /\ relay'[r].rest = batch
        /\ relay'[r].published = {} /\ relay' \in [Relays -> RelayStates]
        /\ \A q \in Relays \ {r} : relay'[q] = relay[q]
      BY <1>1, <1>3, <1>4, <1>6 DEF RelayStates
  <2>2. /\ lock' \in [Rows -> SUBSET Relays]
        /\ \A e \in batch : lock'[e] = {r}
        /\ \A e \in Rows \ batch : lock'[e] = lock[e]
      BY <1>1, <1>3, <1>6
  <2>3. Relay!TypeOK'
      BY <1>1, <1>2, <1>6, <2>1, <2>2 DEF Relay!TypeOK, RelayStates, Relay!NoFault
  <2>4. Taken' = Taken
      BY <1>2 DEF Taken
  <2>5. RelaySound(r)'
    <3>1. Cardinality(batch) \in Nat /\ Cardinality({}) = 0 /\ IsFiniteSet({})
        BY <1>3, FS_CardinalityType, FS_EmptySet
    <3> QED
        BY <1>1, <1>2, <1>3, <2>1, <2>2, <3>1 DEF RelaySound
  <2>6. \A q \in Relays \ {r} : \A e \in relay[q].rest \cup relay[q].published :
            row'[e] = row[e] /\ (q \in lock[e] => q \in lock'[e])
      BY <1>2, <1>3, <1>6, <1>1 DEF RelayStates
  <2>7. \A q \in Relays : RelaySound(q)'
      BY <2>1, <2>3, <2>4, <2>5, <2>6, RelayMoves
  <2>8. \A e \in Rows : \A p, q \in lock'[e] : p = q
      BY <2>2 DEF RelayInv
  <2>9. \A q \in Relays : relay'[q].published = relay[q].published
      BY <1>4, <2>1
  <2>10. Stale' = Stale
      BY <1>2, <2>4, <2>9 DEF Stale
  <2> QED
      BY <1>2, <1>6, <2>3, <2>4, <2>7, <2>8, <2>10 DEF RelayInv, Relay!NoFault
<1> QED
    BY <1>5, <1>6 DEF Relay!PollShard

\* The rows in the hands of a relay are pending, and in no other relay's.
LEMMA InHandsOf ==
    ASSUME RelayInv, NEW r \in Relays, NEW e \in relay[r].rest \cup relay[r].published
    PROVE  /\ e \in Rows /\ row[e] = "pending"
           /\ \A q \in Relays \ {r} : e \notin relay[q].rest \cup relay[q].published
<1>1. relay \in [Relays -> RelayStates]
    BY RelayTypes
<1>2. e \in Rows
    BY <1>1 DEF RelayStates
<1>3. row[e] = "pending" /\ r \in lock[e]
    BY DEF RelayInv, RelaySound
<1>4. ASSUME NEW q \in Relays \ {r}, e \in relay[q].rest \cup relay[q].published
      PROVE  FALSE
  <2>1. q \in lock[e]
      BY <1>4 DEF RelayInv, RelaySound
  <2> QED
      BY <1>2, <1>3, <2>1 DEF RelayInv
<1> QED
    BY <1>2, <1>3, <1>4

\* One row is sent: a duplicate is one of a stale row, or is paid for by a fault.
LEMMA PublishRowKeeps ==
    ASSUME RelayInv, NEW r \in Relays, Relay!Publish(r)
    PROVE  RelayInv'
<1>1. PICK e \in relay[r].rest :
          \/ /\ relay' = [relay EXCEPT ![r].rest = @ \ {e}, ![r].published = @ \cup {e}]
             /\ sent' = Append(sent, e) /\ Relay!NoFault
          \/ /\ relay' = [relay EXCEPT ![r].rest = @ \ {e}]
             /\ sent' \in {sent, Append(sent, e)} /\ Relay!Fault
    BY DEF Relay!Publish
<1>2. /\ relay \in [Relays -> RelayStates] /\ relay[r] \in RelayStates
      /\ faults \in Nat /\ BatchSize \in Nat \ {0} /\ faults \in 0..MaxFaults
      /\ MaxFaults \in Nat /\ Len(sent) \in Nat /\ sent \in Seq(Rows)
      /\ row \in [Rows -> {"none", "open", "pending", "published", "undone"}]
      /\ lock \in [Rows -> SUBSET Relays]
      /\ Cardinality(Taken) \in Nat /\ IsFiniteSet(Stale) /\ Cardinality(Stale) \in Nat
    BY RelayTypes
<1>3. row' = row /\ lock' = lock /\ relay[r].at = "publish"
    BY DEF Relay!Publish
<1>4. /\ e \in Rows /\ row[e] = "pending" /\ e \notin relay[r].published
      /\ \A q \in Relays : e \notin relay[q].published
  <2>1. relay[r].rest \cap relay[r].published = {}
      BY DEF RelayInv, RelaySound
  <2> QED
      BY <2>1, InHandsOf
<1>5. e \in Taken <=> e \in Stale
    BY <1>4 DEF Stale
<1>6. faults * BatchSize \in Nat /\ (faults + 1) * BatchSize = faults * BatchSize + BatchSize
    BY <1>2, FaultsCount
<1> DEFINE x == relay[r]
           y == relay'[r]
<1>7. /\ IsFiniteSet(x.rest) /\ IsFiniteSet(x.published)
      /\ Cardinality(x.rest) \in Nat /\ Cardinality(x.published) \in Nat
      /\ Cardinality(x.rest) + Cardinality(x.published) <= BatchSize
      /\ x.published \subseteq Taken
      /\ \A d \in x.rest \cup x.published : row[d] = "pending" /\ r \in lock[d]
      /\ x.rest \cap x.published = {}
    BY FS_CardinalityType DEF RelayInv, RelaySound
<1>8. /\ IsFiniteSet(x.rest \ {e}) /\ Cardinality(x.rest \ {e}) = Cardinality(x.rest) - 1
      /\ IsFiniteSet(x.published \cup {e})
      /\ Cardinality(x.published \cup {e}) = Cardinality(x.published) + 1
  <2>1. e \in x.rest /\ e \notin x.published
      BY <1>4 DEF Relay!Publish
  <2>2. IsFiniteSet(x.rest \ {e}) /\ Cardinality(x.rest \ {e}) = Cardinality(x.rest) - 1
      BY <1>7, <2>1, FS_RemoveElement
  <2>3. /\ IsFiniteSet(x.published \cup {e})
        /\ Cardinality(x.published \cup {e}) = Cardinality(x.published) + 1
      BY <1>7, <2>1, FS_AddElement
  <2> QED
      BY <2>2, <2>3
<1>9. /\ relay' \in [Relays -> RelayStates] /\ y.at = "publish" /\ y.rest = x.rest \ {e}
      /\ \A q \in Relays \ {r} : relay'[q] = relay[q]
      /\ (y.published = x.published \cup {e} \/ y.published = x.published)
  <2>1. /\ \/ y = [x EXCEPT !.rest = @ \ {e}, !.published = @ \cup {e}]
           \/ y = [x EXCEPT !.rest = @ \ {e}]
        /\ \A q \in Relays \ {r} : relay'[q] = relay[q]
        /\ relay' = [q \in Relays |-> relay'[q]]
      BY <1>1, <1>2
  <2>2. /\ y \in RelayStates /\ y.at = "publish" /\ y.rest = x.rest \ {e}
        /\ (y.published = x.published \cup {e} \/ y.published = x.published)
    <3> HIDE DEF y
    <3>1. x \in RelayStates /\ x.at = "publish"
        BY <1>2, <1>3
    <3> HIDE DEF x
    <3>2. CASE y = [x EXCEPT !.rest = @ \ {e}, !.published = @ \cup {e}]
        BY <1>4, <3>1, <3>2 DEF RelayStates
    <3>3. CASE y = [x EXCEPT !.rest = @ \ {e}]
        BY <3>1, <3>3 DEF RelayStates
    <3> QED
        BY <2>1, <3>2, <3>3
  <2>3. relay' \in [Relays -> RelayStates]
      BY <1>2, <2>1, <2>2
  <2> QED
      BY <2>1, <2>2, <2>3
<1>10. /\ sent' \in Seq(Rows)
       /\ (sent' = sent /\ Taken' = Taken) \/ (sent' = Append(sent, e) /\ Taken' = Taken \cup {e})
       /\ IsFiniteSet(Taken')
  <2>1. CASE sent' = sent
      BY <1>2, <2>1 DEF Taken, RelayInv
  <2>2. CASE sent' = Append(sent, e)
      BY <1>4, <2>2, TakenAppend
  <2> QED
      BY <1>1, <2>1, <2>2
<1>11. y.published = x.published \cup {e} => e \in Taken'
  <2>1. CASE relay' = [relay EXCEPT ![r].rest = @ \ {e}]
    <3>1. y.published = x.published
        BY <1>2, <2>1 DEF RelayStates
    <3> QED
        BY <1>4, <3>1
  <2>2. CASE sent' = Append(sent, e)
    <3>1. Taken' = Taken \cup {e}
        BY <1>4, <2>2, TakenAppend
    <3> QED
        BY <3>1
  <2> QED
      BY <1>1, <2>1, <2>2
<1>12. faults' \in 0..MaxFaults
    BY <1>1, <1>2 DEF Relay!NoFault, Relay!Fault
<1>13. Relay!TypeOK'
    BY <1>2, <1>3, <1>9, <1>10, <1>12 DEF Relay!TypeOK, RelayStates
<1>14. RelaySound(r)'
  <2>1. y.published \subseteq Taken' /\ y.rest \cap y.published = {}
        /\ y.rest \cup y.published \subseteq x.rest \cup x.published
      BY <1>4, <1>7, <1>9, <1>10, <1>11
  <2>2. /\ IsFiniteSet(y.rest) /\ IsFiniteSet(y.published)
        /\ Cardinality(y.rest) + Cardinality(y.published) <= BatchSize
    <3>1. CASE y.published = x.published \cup {e}
        BY <1>2, <1>7, <1>8, <1>9, <3>1
    <3>2. CASE y.published = x.published
        BY <1>2, <1>7, <1>8, <1>9, <3>2
    <3> QED
        BY <1>9, <3>1, <3>2
  <2> QED
      BY <1>3, <1>7, <1>9, <2>1, <2>2 DEF RelaySound
<1>15. \A q \in Relays : RelaySound(q)'
    BY <1>3, <1>9, <1>10, <1>13, <1>14, RelayMoves
<1>16. /\ \A d \in Taken' : row'[d] \in {"pending", "published"}
       /\ \A d \in Rows : row'[d] = "published" => d \in Taken'
       /\ \A d \in Rows : \A p, q \in lock'[d] : p = q
    BY <1>3, <1>4, <1>10 DEF RelayInv
<1>17. Len(sent) - Cardinality(Taken) + Cardinality(Stale) <= faults * BatchSize
    BY DEF RelayInv
<1>18. Len(sent') - Cardinality(Taken') + Cardinality(Stale') <= faults' * BatchSize
  <2>1. CASE relay' = [relay EXCEPT ![r].rest = @ \ {e}, ![r].published = @ \cup {e}]
             /\ sent' = Append(sent, e) /\ Relay!NoFault
    <3>1. y.published = x.published \cup {e} /\ faults' = faults
        BY <1>2, <2>1 DEF RelayStates, Relay!NoFault
    <3>2. Stale' = Stale \ {e}
        BY <1>3, <1>9, <1>10, <2>1, <3>1 DEF Stale
    <3>3. Cardinality(Stale') = IF e \in Stale THEN Cardinality(Stale) - 1
                                ELSE Cardinality(Stale)
        BY <1>2, <3>2, FS_RemoveElement
    <3>4. /\ Len(sent') = Len(sent) + 1
          /\ Cardinality(Taken') = IF e \in Taken THEN Cardinality(Taken)
                                   ELSE Cardinality(Taken) + 1
        BY <1>4, <2>1, TakenAppend
    <3>5. CASE e \in Taken
      <4>1. /\ Cardinality(Taken') = Cardinality(Taken)
            /\ Cardinality(Stale') = Cardinality(Stale) - 1
          BY <1>5, <3>3, <3>4, <3>5
      <4> QED
          BY <1>2, <1>17, <3>1, <3>4, <4>1
    <3>6. CASE e \notin Taken
      <4>1. /\ Cardinality(Taken') = Cardinality(Taken) + 1
            /\ Cardinality(Stale') = Cardinality(Stale)
          BY <1>5, <3>3, <3>4, <3>6
      <4> QED
          BY <1>2, <1>17, <3>1, <3>4, <4>1
    <3> QED
        BY <3>5, <3>6
  <2>2. CASE relay' = [relay EXCEPT ![r].rest = @ \ {e}] /\ sent' = sent /\ Relay!Fault
    <3>1. \A q \in Relays : relay'[q].published = relay[q].published
        BY <1>2, <1>9, <2>2 DEF RelayStates
    <3>2. Stale' = Stale /\ Taken' = Taken
        BY <1>3, <2>2, <3>1 DEF Stale, Taken
    <3> QED
        BY <1>2, <1>6, <1>17, <2>2, <3>2 DEF Relay!Fault
  <2>3. CASE relay' = [relay EXCEPT ![r].rest = @ \ {e}] /\ sent' = Append(sent, e)
             /\ Relay!Fault
    <3>1. \A q \in Relays : relay'[q].published = relay[q].published
        BY <1>2, <1>9, <2>3 DEF RelayStates
    <3>2. /\ Len(sent') = Len(sent) + 1 /\ Taken' = Taken \cup {e}
          /\ Cardinality(Taken') = IF e \in Taken THEN Cardinality(Taken)
                                   ELSE Cardinality(Taken) + 1
        BY <1>4, <2>3, TakenAppend
    <3>3. Stale' = Stale \cup {e}
        BY <1>3, <1>4, <3>1, <3>2 DEF Stale
    <3>4. Cardinality(Stale') = IF e \in Stale THEN Cardinality(Stale)
                                ELSE Cardinality(Stale) + 1
        BY <1>2, <3>3, FS_AddElement
    <3>5. faults' * BatchSize = faults * BatchSize + BatchSize
        BY <1>6, <2>3 DEF Relay!Fault
    <3>6. CASE e \in Taken
      <4>1. /\ Cardinality(Taken') = Cardinality(Taken)
            /\ Cardinality(Stale') = Cardinality(Stale)
          BY <1>5, <3>2, <3>4, <3>6
      <4> QED
          BY <1>2, <1>6, <1>17, <3>2, <3>5, <4>1
    <3>7. CASE e \notin Taken
      <4>1. /\ Cardinality(Taken') = Cardinality(Taken) + 1
            /\ Cardinality(Stale') = Cardinality(Stale) + 1
          BY <1>5, <3>2, <3>4, <3>7
      <4> QED
          BY <1>2, <1>6, <1>17, <3>2, <3>5, <4>1
    <3> QED
        BY <3>6, <3>7
  <2> QED
      BY <1>1, <2>1, <2>2, <2>3
<1> QED
    BY <1>10, <1>13, <1>15, <1>16, <1>18 DEF RelayInv

\* MarkPublished, and a crash with a transaction open: the rows the relay remembers
\* are marked, or become stale.
LEMMA LetGoKeeps ==
    ASSUME RelayInv, NEW r \in Relays, NEW x, EmptyHanded(x),
           relay' = [relay EXCEPT ![r] = x], lock' = Relay!Unlocked(r), sent' = sent,
           \/ row' = row /\ Relay!Fault
           \/ row' = row /\ Relay!NoFault /\ relay[r].published = {}
           \/ /\ row' = [e \in Rows |-> IF e \in relay[r].published THEN "published"
                                        ELSE row[e]]
              /\ Relay!NoFault
    PROVE  RelayInv'
<1>1. /\ relay \in [Relays -> RelayStates] /\ faults \in Nat /\ BatchSize \in Nat \ {0}
      /\ faults \in 0..MaxFaults /\ MaxFaults \in Nat /\ Len(sent) \in Nat
      /\ row \in [Rows -> {"none", "open", "pending", "published", "undone"}]
      /\ lock \in [Rows -> SUBSET Relays] /\ Taken \subseteq Rows
      /\ Cardinality(Taken) \in Nat /\ IsFiniteSet(Stale) /\ Cardinality(Stale) \in Nat
    BY RelayTypes
<1> DEFINE P == relay[r].published
<1>2. /\ IsFiniteSet(P) /\ Cardinality(P) \in Nat /\ Cardinality(P) <= BatchSize
      /\ P \subseteq Taken
  <2>1. /\ IsFiniteSet(P) /\ IsFiniteSet(relay[r].rest) /\ P \subseteq Taken
        /\ Cardinality(relay[r].rest) + Cardinality(P) <= BatchSize
      BY DEF RelayInv, RelaySound
  <2>2. Cardinality(P) \in Nat /\ Cardinality(relay[r].rest) \in Nat
      BY <2>1, FS_CardinalityType
  <2> QED
      BY <1>1, <2>1, <2>2
<1>3. \A e \in P : row[e] = "pending" /\ \A q \in Relays \ {r} :
                                             e \notin relay[q].rest \cup relay[q].published
    BY InHandsOf
<1>4. /\ relay'[r].published = {} /\ \A q \in Relays \ {r} : relay'[q] = relay[q]
    BY <1>1 DEF EmptyHanded
<1>5. Taken' = Taken
    BY DEF Taken
<1>6. faults * BatchSize \in Nat /\ (faults + 1) * BatchSize = faults * BatchSize + BatchSize
    BY <1>1, FaultsCount
<1>7. Len(sent) - Cardinality(Taken) + Cardinality(Stale) <= faults * BatchSize
    BY DEF RelayInv
<1>8. /\ IsFiniteSet(Stale')
      /\ Len(sent) - Cardinality(Taken) + Cardinality(Stale') <= faults' * BatchSize
  <2>1. CASE row' = row /\ Relay!Fault
    <3>1. Stale' = Stale \cup P
        BY <1>2, <1>3, <1>4, <1>5, <2>1 DEF Stale
    <3>2. /\ IsFiniteSet(Stale')
          /\ Cardinality(Stale') = Cardinality(Stale) + Cardinality(P) - Cardinality(Stale \cap P)
        BY <1>1, <1>2, <3>1, FS_Union
    <3>3. Cardinality(Stale \cap P) \in Nat
        BY <1>1, FS_Intersection, FS_CardinalityType
    <3>4. faults' * BatchSize = faults * BatchSize + BatchSize
        BY <1>6, <2>1 DEF Relay!Fault
    <3>5. Cardinality(Stale') <= Cardinality(Stale) + BatchSize /\ Cardinality(Stale') \in Nat
        BY <1>1, <1>2, <3>2, <3>3, FS_CardinalityType
    <3> QED
        BY <1>1, <1>6, <1>7, <3>2, <3>4, <3>5
  <2>2. CASE row' = row /\ Relay!NoFault /\ P = {}
    <3>1. Stale' = Stale
        BY <1>4, <1>5, <2>2 DEF Stale
    <3> QED
        BY <1>1, <1>7, <2>2, <3>1 DEF Relay!NoFault
  <2>3. CASE /\ row' = [e \in Rows |-> IF e \in P THEN "published" ELSE row[e]]
             /\ Relay!NoFault
    <3>1. \A e \in Taken : row'[e] = IF e \in P THEN "published" ELSE row[e]
        BY <1>1, <2>3
    <3>2. ASSUME NEW e \in Taken
          PROVE  e \in Stale' <=> e \in Stale
      <4>1. CASE e \in P
        <5>1. row'[e] # "pending"
            BY <3>1, <4>1
        <5> QED
            BY <4>1, <5>1 DEF Stale
      <4>2. CASE e \notin P
        <5>1. row'[e] = row[e]
            BY <3>1, <4>2
        <5>2. \A q \in Relays : e \in relay'[q].published <=> e \in relay[q].published
            BY <1>4, <4>2
        <5> QED
            BY <1>5, <5>1, <5>2 DEF Stale
      <4> QED
          BY <4>1, <4>2
    <3>3. Stale' = Stale
        BY <1>5, <3>2 DEF Stale
    <3> QED
        BY <1>1, <1>7, <2>3, <3>3 DEF Relay!NoFault
  <2> QED
      BY <2>1, <2>2, <2>3
<1>9. faults' \in 0..MaxFaults
    BY <1>1 DEF Relay!Fault, Relay!NoFault
<1>10. /\ row' \in [Rows -> {"none", "open", "pending", "published", "undone"}]
       /\ \A e \in Rows : row'[e] = row[e] \/ (e \in P /\ row'[e] = "published")
    BY <1>1
<1>11. /\ \A e \in Taken : row'[e] \in {"pending", "published"}
       /\ \A e \in Rows : row'[e] = "published" => e \in Taken
    BY <1>1, <1>2, <1>10 DEF RelayInv
<1>12. \A q \in Relays \ {r} : \A e \in relay[q].rest \cup relay[q].published : row'[e] = row[e]
  <2> TAKE q \in Relays \ {r}
  <2> TAKE e \in relay[q].rest \cup relay[q].published
  <2>1. e \in Rows /\ e \notin P
      BY <1>3, InHandsOf
  <2> QED
      BY <1>10, <2>1
<1>13. /\ lock' \in [Rows -> SUBSET Relays]
       /\ \A e \in Rows : lock'[e] = lock[e] \/ lock'[e] = lock[e] \ {r}
    BY <1>1 DEF Relay!Unlocked
<1> QED
    BY <1>8, <1>9, <1>10, <1>11, <1>12, <1>13, QuietRelayMoves

\* The service's transactions write rows that no relay has seen.
LEMMA WriterKeeps ==
    ASSUME RelayInv, NEW e \in Rows, Relay!Write(e) \/ Relay!EndTransaction(e)
    PROVE  RelayInv'
<1>1. /\ relay \in [Relays -> RelayStates]
      /\ row \in [Rows -> {"none", "open", "pending", "published", "undone"}]
      /\ Taken \subseteq Rows
    BY RelayTypes
<1>2. /\ row[e] \in {"none", "open"} /\ UNCHANGED <<lock, relay, sent, faults>>
      /\ row' \in [Rows -> {"none", "open", "pending", "published", "undone"}]
      /\ row'[e] # "published" /\ \A d \in Rows \ {e} : row'[d] = row[d]
    BY <1>1 DEF Relay!Write, Relay!EndTransaction
<1>3. Taken' = Taken /\ e \notin Taken
    BY <1>2 DEF Taken, RelayInv
<1>4. Stale' = Stale
    BY <1>1, <1>2, <1>3 DEF Stale
<1>5. Relay!TypeOK'
    BY <1>2 DEF RelayInv, Relay!TypeOK
<1>6. ASSUME NEW q \in Relays
      PROVE  RelaySound(q)'
  <2>1. RelaySound(q) /\ relay'[q] = relay[q]
      BY <1>2 DEF RelayInv
  <2>2. \A d \in relay[q].rest \cup relay[q].published : d # e /\ d \in Rows
      BY <1>2, InHandsOf
  <2> QED
      BY <1>2, <1>3, <2>1, <2>2 DEF RelaySound
<1>7. /\ \A d \in Taken' : row'[d] \in {"pending", "published"}
      /\ \A d \in Rows : row'[d] = "published" => d \in Taken'
    BY <1>1, <1>2, <1>3 DEF RelayInv
<1> QED
    BY <1>2, <1>3, <1>4, <1>5, <1>6, <1>7 DEF RelayInv

\* Every step of the relays and of the writers keeps RelayInv.
LEMMA RelayStepKeeps ==
    ASSUME RelayInv, [Relay!Next]_(Relay!vars)
    PROVE  RelayInv'
<1>1. /\ faults \in 0..MaxFaults /\ MaxFaults \in Nat
    BY RelayTypes
<1>2. CASE UNCHANGED Relay!vars
  <2>1. Taken' = Taken /\ Stale' = Stale
      BY <1>2 DEF Relay!vars, Taken, Stale
  <2>2. Relay!TypeOK' /\ \A r \in Relays : RelaySound(r)'
      BY <1>2, <2>1 DEF Relay!vars, RelayInv, Relay!TypeOK, RelaySound
  <2> QED
      BY <1>2, <2>1, <2>2 DEF Relay!vars, RelayInv
<1>3. ASSUME NEW e \in Rows, Relay!Write(e) \/ Relay!EndTransaction(e)
      PROVE  RelayInv'
    BY <1>3, WriterKeeps
<1>4. ASSUME NEW r \in Relays, NEW x, EmptyHanded(x), relay[r].at # "publish",
             relay' = [relay EXCEPT ![r] = x], UNCHANGED <<row, lock, sent>>,
             UNCHANGED faults \/ Relay!Fault
      PROVE  RelayInv'
  <2>1. faults' \in 0..MaxFaults /\ (faults' = faults \/ faults' = faults + 1)
      BY <1>1, <1>4 DEF Relay!Fault
  <2> QED
      BY <1>4, <2>1, EmptyHandedKeeps
<1>5. ASSUME NEW r \in Relays, Relay!Tick(r) \/ Relay!Start(r) \/ Relay!Stop(r)
      PROVE  RelayInv'
  <2>1. CASE Relay!Tick(r)
      BY <1>4, <2>1, IdleIsEmptyHanded DEF Relay!Tick
  <2>2. CASE Relay!Start(r)
      BY <1>4, <2>2, IdleIsEmptyHanded DEF Relay!Start
  <2>3. CASE Relay!Stop(r)
      BY <1>4, <2>3, IdleIsEmptyHanded DEF Relay!Stop
  <2> QED
      BY <1>5, <2>1, <2>2, <2>3
<1>6. ASSUME NEW r \in Relays, Relay!MarkPublished(r) \/ Relay!Crash(r)
      PROVE  RelayInv'
  <2>1. CASE Relay!MarkPublished(r)
      BY <2>1, IdleIsEmptyHanded, LetGoKeeps DEF Relay!MarkPublished
  <2>2. CASE Relay!Crash(r)
      BY <2>2, IdleIsEmptyHanded, LetGoKeeps DEF Relay!Crash
  <2> QED
      BY <1>6, <2>1, <2>2
<1> QED
    BY <1>2, <1>3, <1>5, <1>6, PollShardKeeps, PublishRowKeeps DEF Relay!Next, Relay!RelayStep

\* They start with it.
LEMMA RelayInit ==
    ASSUME Relay!Init
    PROVE  RelayInv
<1>1. /\ row = [e \in Rows |-> "none"] /\ lock = [e \in Rows |-> {}] /\ sent = <<>>
      /\ relay = [r \in Relays |-> Relay!Idle] /\ faults = 0
    BY DEF Relay!Init
<1>2. MaxFaults \in Nat /\ Shards \in Nat \ {0} /\ BatchSize \in Nat
    BY DeliveryAssumption DEF Relay!RelayAssumption
<1>3. EmptyHanded(Relay!Idle)
    BY <1>2 DEF EmptyHanded, RelayStates, Relay!Idle
<1>4. Relay!TypeOK
    BY <1>1, <1>2, <1>3 DEF Relay!TypeOK, EmptyHanded, RelayStates
<1>5. Taken = {} /\ Stale = {}
    BY <1>1 DEF Taken, Stale
<1>6. \A r \in Relays : RelaySound(r)
  <2> TAKE r \in Relays
  <2>1. relay[r].at # "publish" /\ relay[r].rest = {} /\ relay[r].published = {}
      BY <1>1, <1>3 DEF EmptyHanded
  <2>2. IsFiniteSet({}) /\ Cardinality({}) + Cardinality({}) <= BatchSize
      BY <1>2, FS_EmptySet
  <2> QED
      BY <2>1, <2>2 DEF RelaySound
<1>7. Len(sent) - Cardinality(Taken) + Cardinality(Stale) <= faults * BatchSize
    BY <1>1, <1>2, <1>5, FS_EmptySet
<1> QED
    BY <1>1, <1>4, <1>5, <1>6, <1>7, FS_EmptySet DEF RelayInv

\* It implies what the run checks of the relays.
LEMMA RelayInvMeans ==
    ASSUME RelayInv
    PROVE  Relay!TypeOK /\ Relay!OnlyFacts /\ Relay!DuplicatesAreFaults
<1>1. /\ row \in [Rows -> {"none", "open", "pending", "published", "undone"}]
      /\ sent \in Seq(Rows) /\ Len(sent) \in Nat /\ faults \in Nat /\ BatchSize \in Nat
      /\ Cardinality(Taken) \in Nat /\ Cardinality(Stale) \in Nat
    BY RelayTypes
<1>2. Relay!ToSet(sent) = Taken
    BY <1>1 DEF Relay!ToSet, Taken
<1>3. Relay!OnlyFacts
    BY <1>2 DEF RelayInv, Relay!OnlyFacts, Taken
<1>4. ASSUME NEW e \in Rows
      PROVE  Cardinality(lock[e]) <= 1
  <2>1. CASE lock[e] = {}
      BY <2>1, FS_EmptySet
  <2>2. CASE lock[e] # {}
    <3>1. PICK r : lock[e] = {r}
        BY SMTT(30), <2>2 DEF RelayInv
    <3> QED
        BY SMTT(30), <3>1, FS_Singleton
  <2> QED
      BY <2>1, <2>2
<1>5. Len(sent) - Cardinality(Taken) <= faults * BatchSize
  <2>1. Len(sent) - Cardinality(Taken) + Cardinality(Stale) <= faults * BatchSize
        /\ faults * BatchSize \in Nat
      BY <1>1, FaultsCount DEF RelayInv
  <2> QED
      BY <1>1, <2>1
<1>6. Relay!DuplicatesAreFaults
    BY <1>2, <1>4, <1>5, RelayCardinality DEF Relay!DuplicatesAreFaults
<1> QED
    BY <1>3, <1>6 DEF RelayInv

-----------------------------------------------------------------------------
(* kafka-reprocess: how often an event was published, against the dead letters *)
(* behind the group's offset, and behind the position of a run.                *)

\* How often event e is among the first n dead letters.
LettersOf(e, n) == Cardinality({i \in 1..n : dlq[i] = e})

\* The inductive invariant of the tool.
ReprocessInv ==
    /\ Reprocess!TypeOK
    /\ \A e \in 1..Backlog :
          /\ LettersOf(e, letterOffset) <= told[e]
          /\ told[e] <= LettersOf(e, letterOffset) + faults
    /\ tool.moved <= tool.position
    /\ tool.on => letterOffset <= tool.position
    /\ tool.on /\ ~tool.dryRun =>
          \A e \in 1..Backlog : LettersOf(e, tool.position) <= told[e]

\* A run counts one record at a time.
LEMMA LettersFacts ==
    ASSUME NEW e, NEW n \in Nat
    PROVE  /\ LettersOf(e, n) \in Nat
           /\ LettersOf(e, n + 1) = LettersOf(e, n) + IF dlq[n + 1] = e THEN 1 ELSE 0
           /\ \A m \in 0..n : LettersOf(e, m) <= LettersOf(e, n)
<1>1. ASSUME NEW m \in Nat
      PROVE  IsFiniteSet({i \in 1..m : dlq[i] = e}) /\ LettersOf(e, m) \in Nat
  <2>1. IsFiniteSet(1..m)
      BY FS_Interval
  <2>2. {i \in 1..m : dlq[i] = e} \in SUBSET (1..m)
      OBVIOUS
  <2>3. IsFiniteSet({i \in 1..m : dlq[i] = e})
      BY <2>1, <2>2, FS_Subset
  <2> QED
      BY <2>3, FS_CardinalityType DEF LettersOf
<1>2. LettersOf(e, n + 1) = LettersOf(e, n) + IF dlq[n + 1] = e THEN 1 ELSE 0
  <2> DEFINE S == {i \in 1..n : dlq[i] = e}
  <2>1. IsFiniteSet(S) /\ n + 1 \notin S
      BY <1>1
  <2>2. CASE dlq[n + 1] = e
    <3>1. {i \in 1..(n + 1) : dlq[i] = e} = S \cup {n + 1}
        BY <2>2
    <3>2. Cardinality(S \cup {n + 1}) = Cardinality(S) + 1
      <4> HIDE DEF S
      <4> QED
          BY <2>1, FS_AddElement
    <3> QED
        BY <2>2, <3>1, <3>2 DEF LettersOf
  <2>3. CASE dlq[n + 1] # e
    <3>1. {i \in 1..(n + 1) : dlq[i] = e} = S
        BY <2>3
    <3>2. LettersOf(e, n) \in Nat
        BY <1>1
    <3> QED
        BY <2>3, <3>1, <3>2 DEF LettersOf
  <2> QED
      BY <2>2, <2>3
<1>3. ASSUME NEW m \in 0..n
      PROVE  LettersOf(e, m) <= LettersOf(e, n)
  <2>1. {i \in 1..m : dlq[i] = e} \in SUBSET {i \in 1..n : dlq[i] = e}
      OBVIOUS
  <2>2. IsFiniteSet({i \in 1..n : dlq[i] = e})
      BY <1>1
  <2> QED
      BY <2>1, <2>2, FS_Subset DEF LettersOf
<1> QED
    BY <1>1, <1>2, <1>3

ToolStates ==
    [on : BOOLEAN, dryRun : BOOLEAN, limit : Limits \cup {0}, position : 0..Len(dlq),
     moved : 0..Len(dlq), runs : 0..MaxRuns]

\* What the types of the tool's variables say.
LEMMA ReprocessTypes ==
    ASSUME ReprocessInv
    PROVE  /\ dlq \in Seq(1..Backlog) /\ unread \in Seq(1..Backlog) /\ Len(dlq) \in Nat
           /\ letterOffset \in 0..Len(dlq) /\ told \in [1..Backlog -> Nat]
           /\ refused \in 0..MaxRefused /\ faults \in 0..MaxFaults /\ tool \in ToolStates
           /\ MaxRefused \in Nat /\ MaxRuns \in Nat /\ MaxFaults \in Nat /\ faults \in Nat
           /\ Backlog \in Nat /\ letterOffset \in Nat /\ tool.position \in Nat
<1>1. /\ dlq \in Seq(1..Backlog) /\ unread \in Seq(1..Backlog)
      /\ letterOffset \in 0..Len(dlq) /\ told \in [1..Backlog -> Nat]
      /\ refused \in 0..MaxRefused /\ faults \in 0..MaxFaults /\ tool \in ToolStates
    BY DEF ReprocessInv, Reprocess!TypeOK, Reprocess!DeadEvents, ToolStates
<1>2. Len(dlq) \in Nat
    BY <1>1, LenProperties
<1>3. MaxRefused \in Nat /\ MaxRuns \in Nat /\ MaxFaults \in Nat /\ Backlog \in Nat
    BY DeliveryAssumption DEF Reprocess!ReprocessAssumption
<1>4. tool.position \in 0..Len(dlq)
    BY <1>1 DEF ToolStates
<1> QED
    BY <1>1, <1>2, <1>3, <1>4

\* A step that leaves the dead letters alone: what is published, and up to where the
\* group has committed.
LEMMA ReprocessMoves ==
    ASSUME ReprocessInv, dlq' = dlq, refused' = refused, unread' \in Seq(1..Backlog),
           told' \in [1..Backlog -> Nat], letterOffset' \in 0..Len(dlq),
           faults' \in 0..MaxFaults, tool' \in ToolStates, tool'.moved <= tool'.position,
           \A e \in 1..Backlog :
               /\ LettersOf(e, letterOffset') <= told'[e]
               /\ told'[e] <= LettersOf(e, letterOffset') + faults',
           tool'.on => letterOffset' <= tool'.position,
           tool'.on /\ ~tool'.dryRun =>
               \A e \in 1..Backlog : LettersOf(e, tool'.position) <= told'[e]
    PROVE  ReprocessInv'
<1>1. \A e, n : LettersOf(e, n)' = LettersOf(e, n)
    BY DEF LettersOf
<1>2. Reprocess!TypeOK'
    BY ReprocessTypes DEF Reprocess!TypeOK, Reprocess!DeadEvents, ToolStates
<1>3. /\ \A e \in 1..Backlog :
            /\ LettersOf(e, letterOffset)' <= told'[e]
            /\ told'[e] <= LettersOf(e, letterOffset)' + faults'
      /\ tool'.on /\ ~tool'.dryRun =>
            \A e \in 1..Backlog : LettersOf(e, tool.position)' <= told'[e]
  <2>1. \A e : LettersOf(e, letterOffset)' = LettersOf(e, letterOffset')
      BY DEF LettersOf
  <2>2. \A e : LettersOf(e, tool.position)' = LettersOf(e, tool'.position)
      BY DEF LettersOf
  <2> QED
      BY <2>1, <2>2
<1> QED
    BY <1>2, <1>3 DEF ReprocessInv

\* The consumer of the topic: a refused event goes to the end of the dead letters.
LEMMA ConsumeKeeps ==
    ASSUME ReprocessInv, Reprocess!Consume
    PROVE  ReprocessInv'
<1>1. /\ dlq \in Seq(1..Backlog) /\ unread \in Seq(1..Backlog) /\ Len(dlq) \in Nat
      /\ letterOffset \in 0..Len(dlq) /\ told \in [1..Backlog -> Nat]
      /\ refused \in 0..MaxRefused /\ faults \in 0..MaxFaults /\ tool \in ToolStates
      /\ MaxRefused \in Nat /\ letterOffset \in Nat /\ tool.position \in 0..Len(dlq)
      /\ tool.position \in Nat
    BY ReprocessTypes DEF ToolStates
<1>2. unread # <<>> /\ unread' = Tail(unread)
      /\ UNCHANGED <<letterOffset, told, tool, faults>>
    BY DEF Reprocess!Consume
<1>3. Head(unread) \in 1..Backlog /\ unread' \in Seq(1..Backlog)
    BY <1>1, <1>2, TailFacts
<1>4. /\ dlq' \in Seq(1..Backlog) /\ Len(dlq') \in Nat /\ Len(dlq) <= Len(dlq')
      /\ \A i \in 1..Len(dlq) : dlq'[i] = dlq[i]
      /\ refused' \in 0..MaxRefused
  <2>1. CASE UNCHANGED <<dlq, refused>>
      BY <1>1, <2>1
  <2>2. CASE /\ refused < MaxRefused /\ refused' = refused + 1
             /\ dlq' = Append(dlq, Head(unread))
      BY <1>1, <1>3, <2>2, AppendProperties
  <2> QED
      BY <2>1, <2>2 DEF Reprocess!Consume
<1>5. \A e : /\ LettersOf(e, letterOffset)' = LettersOf(e, letterOffset)
             /\ LettersOf(e, tool.position)' = LettersOf(e, tool.position)
  <2> TAKE e
  <2>1. \A n \in 0..Len(dlq) : \A i \in 1..n : dlq'[i] = dlq[i]
      BY <1>1, <1>4
  <2>2. /\ {i \in 1..letterOffset : dlq'[i] = e} = {i \in 1..letterOffset : dlq[i] = e}
        /\ {i \in 1..tool.position : dlq'[i] = e} = {i \in 1..tool.position : dlq[i] = e}
      BY <1>1, <2>1
  <2> QED
      BY <1>2, <2>2 DEF LettersOf
<1>6. Reprocess!TypeOK'
    BY SMTT(30), <1>1, <1>2, <1>3, <1>4 DEF Reprocess!TypeOK, Reprocess!DeadEvents, ToolStates
<1> QED
    BY <1>2, <1>5, <1>6 DEF ReprocessInv

\* A record is published and its offset committed, or one of the two fails.
LEMMA ReprocessOneKeeps ==
    ASSUME ReprocessInv, Reprocess!ReprocessOne
    PROVE  ReprocessInv'
<1>1. /\ dlq \in Seq(1..Backlog) /\ unread \in Seq(1..Backlog) /\ Len(dlq) \in Nat
      /\ letterOffset \in 0..Len(dlq) /\ told \in [1..Backlog -> Nat]
      /\ faults \in 0..MaxFaults /\ faults \in Nat /\ MaxFaults \in Nat
      /\ letterOffset \in Nat /\ tool.position \in Nat
    BY ReprocessTypes
<1>2. /\ tool.on /\ tool.position < Len(dlq) /\ dlq' = dlq /\ refused' = refused
      /\ letterOffset <= tool.position /\ tool \in ToolStates
      /\ tool.moved <= tool.position /\ tool.moved \in Nat
      /\ tool.limit \in Limits \cup {0} /\ tool.runs \in 0..MaxRuns
      /\ tool.dryRun \in BOOLEAN
    BY SMTT(30), ReprocessTypes DEF Reprocess!ReprocessOne, ReprocessInv, ToolStates
<1> DEFINE p == tool.position
           e == dlq[p + 1]
<1>3. e \in 1..Backlog /\ p + 1 \in 1..Len(dlq) /\ p \in Nat
  <2>1. p + 1 \in 1..Len(dlq) /\ p \in Nat
      BY <1>1, <1>2
  <2> QED
      BY <1>1, <2>1, ElementOfSeq
<1>4. \A d : /\ LettersOf(d, p) \in Nat /\ LettersOf(d, p + 1) \in Nat
             /\ LettersOf(d, letterOffset) \in Nat
             /\ LettersOf(d, letterOffset) <= LettersOf(d, p)
             /\ e = d => LettersOf(d, p + 1) = LettersOf(d, p) + 1
             /\ e # d => LettersOf(d, p + 1) = LettersOf(d, p)
  <2> TAKE d
  <2>1. letterOffset \in 0..p /\ p + 1 \in Nat
      BY <1>1, <1>2
  <2>2. LettersOf(d, p + 1) = LettersOf(d, p) + IF e = d THEN 1 ELSE 0
      BY <1>3, LettersFacts
  <2>3. /\ LettersOf(d, p) \in Nat /\ LettersOf(d, p + 1) \in Nat
        /\ LettersOf(d, letterOffset) \in Nat
        /\ LettersOf(d, letterOffset) <= LettersOf(d, p)
      BY <1>1, <1>3, <2>1, LettersFacts
  <2> HIDE DEF p, e
  <2> QED
      BY <2>2, <2>3
<1>5. \A d \in 1..Backlog : /\ LettersOf(d, letterOffset) <= told[d]
                            /\ told[d] <= LettersOf(d, letterOffset) + faults
                            /\ told[d] \in Nat
                            /\ ~tool.dryRun => LettersOf(d, p) <= told[d]
    BY <1>1, <1>2 DEF ReprocessInv
<1>6. Reprocess!Took => /\ tool' \in ToolStates /\ tool'.position = p + 1
                        /\ tool'.moved <= tool'.position /\ tool'.dryRun = tool.dryRun
  <2> HAVE Reprocess!Took
  <2>1. /\ tool.moved + 1 \in 0..Len(dlq) /\ p + 1 \in 0..Len(dlq)
        /\ tool.moved + 1 <= p + 1
      BY <1>1, <1>2, <1>3
  <2> QED
      BY <1>2, <2>1 DEF Reprocess!Took, ToolStates
<1>7. Reprocess!Stop => tool' \in ToolStates /\ ~tool'.on /\ tool'.moved <= tool'.position
    BY <1>2 DEF Reprocess!Stop, ToolStates
<1> DEFINE Given == /\ told' = [told EXCEPT ![e] = @ + 1] /\ unread' = Append(unread, e)
<1>8. Given => /\ told' \in [1..Backlog -> Nat] /\ unread' \in Seq(1..Backlog)
               /\ \A d \in 1..Backlog : /\ e = d => told'[d] = told[d] + 1
                                        /\ e # d => told'[d] = told[d]
    BY SMTT(30), <1>1, <1>3, <1>5, AppendProperties
<1> HIDE DEF p, e
<1>9. CASE tool.dryRun /\ Reprocess!Took /\ UNCHANGED <<told, unread, letterOffset, faults>>
  <2>1. /\ told' \in [1..Backlog -> Nat] /\ unread' \in Seq(1..Backlog)
        /\ letterOffset' \in 0..Len(dlq) /\ faults' \in 0..MaxFaults
      BY <1>1, <1>9
  <2>2. letterOffset' <= tool'.position
    <3>1. tool'.position = p + 1 /\ letterOffset' = letterOffset /\ letterOffset <= p
        BY <1>2, <1>6, <1>9 DEF p
    <3> QED
        BY <1>1, <1>3, <3>1
  <2>3. tool'.dryRun /\ tool' \in ToolStates /\ tool'.moved <= tool'.position
      BY <1>6, <1>9
  <2>4. \A d \in 1..Backlog : /\ LettersOf(d, letterOffset') <= told'[d]
                              /\ told'[d] <= LettersOf(d, letterOffset') + faults'
      BY <1>5, <1>9
  <2> QED
      BY <1>2, <2>1, <2>2, <2>3, <2>4, ReprocessMoves
<1>10. CASE /\ ~tool.dryRun /\ Reprocess!Took /\ Given
            /\ \/ letterOffset' = p + 1 /\ UNCHANGED faults
               \/ Reprocess!Fault /\ UNCHANGED letterOffset
  <2>1. /\ letterOffset' \in 0..Len(dlq) /\ faults' \in 0..MaxFaults
        /\ letterOffset' <= p + 1
      BY SMTT(30), <1>1, <1>2, <1>3, <1>10 DEF Reprocess!Fault, p
  <2>0. /\ told' \in [1..Backlog -> Nat] /\ unread' \in Seq(1..Backlog)
        /\ \A d \in 1..Backlog : /\ e = d => told'[d] = told[d] + 1
                                 /\ e # d => told'[d] = told[d]
    <3>1. Given
        BY <1>10
    <3> QED
        BY ONLY <1>8, <3>1
  <2>2. \A d \in 1..Backlog :
           /\ told'[d] \in Nat /\ told[d] \in Nat /\ LettersOf(d, p) \in Nat
           /\ LettersOf(d, letterOffset) \in Nat /\ LettersOf(d, p + 1) \in Nat
           /\ LettersOf(d, letterOffset) <= LettersOf(d, p) /\ LettersOf(d, p) <= told[d]
           /\ told[d] <= LettersOf(d, letterOffset) + faults
           /\ told'[d] - told[d] = LettersOf(d, p + 1) - LettersOf(d, p)
           /\ LettersOf(d, p) <= LettersOf(d, p + 1) /\ LettersOf(d, p + 1) <= LettersOf(d, p) + 1
    <3> TAKE d \in 1..Backlog
    <3>1. /\ told'[d] \in Nat /\ told[d] \in Nat /\ LettersOf(d, p) \in Nat
          /\ LettersOf(d, letterOffset) \in Nat /\ LettersOf(d, p + 1) \in Nat
          /\ LettersOf(d, letterOffset) <= LettersOf(d, p) /\ LettersOf(d, p) <= told[d]
          /\ told[d] <= LettersOf(d, letterOffset) + faults
        BY <1>1, <1>4, <1>5, <1>10, <2>0
    <3>2. CASE e = d
      <4>1. told'[d] = told[d] + 1 /\ LettersOf(d, p + 1) = LettersOf(d, p) + 1
          BY <1>4, <2>0, <3>2
      <4> QED
          BY <3>1, <4>1
    <3>3. CASE e # d
      <4>1. told'[d] = told[d] /\ LettersOf(d, p + 1) = LettersOf(d, p)
          BY <1>4, <2>0, <3>3
      <4> QED
          BY <3>1, <4>1
    <3> QED
        BY <3>2, <3>3
  <2>3. \A d \in 1..Backlog : /\ LettersOf(d, letterOffset') <= told'[d]
                              /\ told'[d] <= LettersOf(d, letterOffset') + faults'
    <3> TAKE d \in 1..Backlog
    <3>1. CASE letterOffset' = p + 1 /\ UNCHANGED faults
      <4>1. LettersOf(d, letterOffset') = LettersOf(d, p + 1) /\ faults' = faults
          BY <3>1
      <4> QED
          BY SMTT(30), <1>1, <2>2, <4>1
    <3>2. CASE Reprocess!Fault /\ UNCHANGED letterOffset
      <4>1. LettersOf(d, letterOffset') = LettersOf(d, letterOffset) /\ faults' = faults + 1
          BY <3>2 DEF Reprocess!Fault
      <4>2. told[d] <= told'[d] /\ told'[d] <= told[d] + 1
          BY <2>2
      <4>3. /\ told'[d] \in Nat /\ told[d] \in Nat /\ LettersOf(d, letterOffset) \in Nat
            /\ LettersOf(d, letterOffset) <= told[d]
            /\ told[d] <= LettersOf(d, letterOffset) + faults
          BY <1>5, <2>2
      <4> QED
          BY ONLY <1>1, <4>1, <4>2, <4>3
    <3> QED
        BY <1>10, <3>1, <3>2
  <2>4. \A d \in 1..Backlog : LettersOf(d, p + 1) <= told'[d]
      BY <2>2
  <2> QED
      BY <1>2, <1>6, <1>10, <2>0, <2>1, <2>3, <2>4, ReprocessMoves
<1>11. CASE /\ ~tool.dryRun /\ Reprocess!Fault /\ Reprocess!Stop /\ UNCHANGED letterOffset
            /\ (Given \/ UNCHANGED <<told, unread>>)
  <2>1. /\ letterOffset' \in 0..Len(dlq) /\ faults' \in 0..MaxFaults /\ faults' = faults + 1
      BY <1>1, <1>11 DEF Reprocess!Fault
  <2>2. /\ told' \in [1..Backlog -> Nat] /\ unread' \in Seq(1..Backlog)
        /\ \A d \in 1..Backlog : told'[d] = told[d] \/ told'[d] = told[d] + 1
    <3>1. CASE Given
        BY ONLY <1>8, <3>1
    <3>2. CASE UNCHANGED <<told, unread>>
        BY <1>1, <3>2
    <3> QED
        BY <1>11, <3>1, <3>2
  <2>3. \A d \in 1..Backlog : /\ LettersOf(d, letterOffset') <= told'[d]
                              /\ told'[d] <= LettersOf(d, letterOffset') + faults'
    <3> TAKE d \in 1..Backlog
    <3>1. /\ told[d] \in Nat /\ LettersOf(d, letterOffset) \in Nat
          /\ LettersOf(d, letterOffset) <= told[d]
          /\ told[d] <= LettersOf(d, letterOffset) + faults
          /\ letterOffset' = letterOffset
        BY <1>4, <1>5, <1>11
    <3> QED
        BY <1>1, <2>1, <2>2, <3>1
  <2> QED
      BY <1>2, <1>7, <1>11, <2>1, <2>2, <2>3, ReprocessMoves
<1> QED
    BY <1>9, <1>10, <1>11 DEF Reprocess!ReprocessOne, Given, p, e

\* Every step of the tool and of the consumer keeps ReprocessInv.
LEMMA ReprocessStepKeeps ==
    ASSUME ReprocessInv, [Reprocess!Next]_(Reprocess!vars)
    PROVE  ReprocessInv'
<1>1. /\ dlq \in Seq(1..Backlog) /\ unread \in Seq(1..Backlog) /\ Len(dlq) \in Nat
      /\ letterOffset \in 0..Len(dlq) /\ told \in [1..Backlog -> Nat]
      /\ faults \in 0..MaxFaults /\ letterOffset \in Nat /\ MaxRuns \in Nat
      /\ tool \in ToolStates /\ tool.runs \in 0..MaxRuns /\ tool.moved <= tool.position
    BY ReprocessTypes DEF ToolStates, ReprocessInv
<1>2. \A e \in 1..Backlog : /\ LettersOf(e, letterOffset) <= told[e]
                            /\ told[e] <= LettersOf(e, letterOffset) + faults
    BY DEF ReprocessInv
<1>3. CASE UNCHANGED Reprocess!vars
  <2>1. /\ tool.on => letterOffset <= tool.position
        /\ tool.on /\ ~tool.dryRun =>
              \A e \in 1..Backlog : LettersOf(e, tool.position) <= told[e]
      BY DEF ReprocessInv
  <2> QED
      BY <1>1, <1>2, <1>3, <2>1, ReprocessMoves DEF Reprocess!vars
<1>4. CASE Reprocess!Start
  <2>1. PICK limit \in Limits, dryRun \in BOOLEAN :
            tool' = [on |-> TRUE, dryRun |-> dryRun, limit |-> limit,
                     position |-> letterOffset, moved |-> 0, runs |-> tool.runs + 1]
      BY <1>4 DEF Reprocess!Start
  <2>2. tool.runs + 1 \in 0..MaxRuns /\ 0 \in 0..Len(dlq) /\ 0 <= letterOffset
      BY <1>1, <1>4 DEF Reprocess!Start
  <2>3. /\ tool' \in ToolStates /\ tool'.position = letterOffset
        /\ tool'.moved <= tool'.position
      BY <1>1, <2>1, <2>2 DEF ToolStates
  <2>4. UNCHANGED <<dlq, letterOffset, told, unread, refused, faults>>
      BY <1>4 DEF Reprocess!Start
  <2> QED
      BY <1>1, <1>2, <2>3, <2>4, ReprocessMoves
<1>5. CASE Reprocess!Leave
  <2>1. tool' \in ToolStates /\ ~tool'.on /\ tool'.moved <= tool'.position
      BY <1>1, <1>5 DEF Reprocess!Leave, Reprocess!Stop, ToolStates
  <2>2. UNCHANGED <<dlq, letterOffset, told, unread, refused, faults>>
      BY <1>5 DEF Reprocess!Leave
  <2> QED
      BY <1>1, <1>2, <2>1, <2>2, ReprocessMoves
<1> QED
    BY <1>3, <1>4, <1>5, ConsumeKeeps, ReprocessOneKeeps DEF Reprocess!Next

\* They start with it.
LEMMA ReprocessInit ==
    ASSUME Reprocess!Init
    PROVE  ReprocessInv
<1>1. /\ dlq = [i \in 1..Backlog |-> i] /\ letterOffset = 0
      /\ told = [e \in 1..Backlog |-> 0] /\ unread = <<>> /\ refused = 0
      /\ tool = Reprocess!Idle /\ faults = 0
    BY DEF Reprocess!Init, Reprocess!DeadEvents
<1>2. MaxRefused \in Nat /\ MaxRuns \in Nat /\ MaxFaults \in Nat /\ Backlog \in Nat
    BY DeliveryAssumption DEF Reprocess!ReprocessAssumption
<1>3. dlq \in Seq(1..Backlog) /\ Len(dlq) \in Nat
    BY <1>1, <1>2
<1>4. /\ tool \in ToolStates /\ ~tool.on /\ tool.moved <= tool.position
    BY <1>1, <1>2, <1>3 DEF ToolStates, Reprocess!Idle
<1>5. Reprocess!TypeOK
    BY <1>1, <1>2, <1>3, <1>4 DEF Reprocess!TypeOK, Reprocess!DeadEvents, ToolStates
<1>6. \A e : LettersOf(e, 0) = 0
  <2> TAKE e
  <2>1. {i \in 1..0 : dlq[i] = e} = {}
      OBVIOUS
  <2> QED
      BY <2>1, FS_EmptySet DEF LettersOf
<1> QED
    BY <1>1, <1>4, <1>5, <1>6 DEF ReprocessInv

\* It implies what the run checks of the tool.
LEMMA ReprocessInvMeans ==
    ASSUME ReprocessInv
    PROVE  Reprocess!TypeOK /\ Reprocess!MovedOnce
<1>1. \A e, n : Reprocess!Letters(e, n) = LettersOf(e, n)
  <2>1. \A S : Reprocess!Cardinality(S) = Cardinality(S)
      BY DEF Reprocess!Cardinality, Cardinality
  <2> QED
      BY <2>1 DEF Reprocess!Letters, LettersOf
<1>2. /\ Len(dlq) \in Nat /\ letterOffset \in 0..Len(dlq) /\ faults \in Nat
      /\ told \in [1..Backlog -> Nat] /\ letterOffset \in Nat
    BY ReprocessTypes
<1>3. Reprocess!MovedOnce
  <2> SUFFICES ASSUME NEW e \in 1..Backlog
               PROVE  /\ told[e] >= LettersOf(e, letterOffset)
                      /\ told[e] <= LettersOf(e, Len(dlq)) + faults
      BY <1>1 DEF Reprocess!MovedOnce, Reprocess!DeadEvents
  <2>1. /\ LettersOf(e, letterOffset) <= told[e]
        /\ told[e] <= LettersOf(e, letterOffset) + faults
      BY DEF ReprocessInv
  <2>2. /\ LettersOf(e, letterOffset) \in Nat /\ LettersOf(e, Len(dlq)) \in Nat
        /\ LettersOf(e, letterOffset) <= LettersOf(e, Len(dlq))
      BY <1>2, LettersFacts
  <2> QED
      BY <1>2, <2>1, <2>2
<1> QED
    BY <1>3 DEF ReprocessInv


-----------------------------------------------------------------------------
(* The parts together: a step is of one part and leaves the variables of the   *)
(* others alone, but for the count of faults, which can only make them laxer.  *)

DeliveryInv == ConsumerInv /\ RelayInv /\ ReprocessInv

\* A bound that grows with the faults.
LEMMA OneMoreTimes ==
    ASSUME NEW m \in Nat, NEW n \in Nat, NEW b \in Nat, n = m \/ n = m + 1
    PROVE  n * b \in Nat /\ m * b <= n * b
<1>1. m * b \in Nat /\ (m + 1) * b = m * b + b
    BY FaultsCount
<1>2. CASE n = m
    BY <1>1, <1>2
<1>3. CASE n = m + 1
  <2> DEFINE k == m * b
  <2>1. n * b = k + b /\ k \in Nat
      BY <1>1, <1>3
  <2> HIDE DEF k
  <2>2. n * b \in Nat /\ k <= n * b
      BY <2>1
  <2> QED
      BY <2>2 DEF k
<1> QED
    BY <1>2, <1>3

\* What another part's fault does to the relays.
LEMMA RelayBears ==
    ASSUME RelayInv, UNCHANGED relayVars, faults' \in 0..MaxFaults,
           faults' = faults \/ faults' = faults + 1
    PROVE  RelayInv'
<1>1. /\ faults \in Nat /\ faults' \in Nat /\ BatchSize \in Nat /\ Len(sent) \in Nat
      /\ Cardinality(Taken) \in Nat /\ Cardinality(Stale) \in Nat /\ MaxFaults \in Nat
  <2>1. MaxFaults \in Nat
      BY DeliveryAssumption DEF Relay!RelayAssumption
  <2> QED
      BY <2>1, RelayTypes
<1>2. Taken' = Taken /\ Stale' = Stale
    BY DEF Taken, Stale, relayVars
<1>3. faults' * BatchSize \in Nat /\ faults * BatchSize <= faults' * BatchSize
    BY <1>1, OneMoreTimes
<1>4. Len(sent) - Cardinality(Taken) + Cardinality(Stale) <= faults' * BatchSize
  <2> DEFINE before == faults * BatchSize
             after == faults' * BatchSize
  <2>1. /\ Len(sent) - Cardinality(Taken) + Cardinality(Stale) <= before
        /\ before \in Nat /\ after \in Nat /\ before <= after
      BY <1>1, <1>3, FaultsCount DEF RelayInv
  <2> HIDE DEF before, after
  <2>2. Len(sent) - Cardinality(Taken) + Cardinality(Stale) <= after
      BY <1>1, <2>1
  <2> QED
      BY <2>2 DEF after
<1>5. Relay!TypeOK'
    BY DEF RelayInv, Relay!TypeOK, relayVars
<1>6. \A r \in Relays : RelaySound(r)'
    BY <1>2 DEF RelayInv, RelaySound, relayVars
<1> QED
    BY <1>2, <1>4, <1>5, <1>6 DEF RelayInv, relayVars

\* And to kafka-reprocess.
LEMMA ReprocessBears ==
    ASSUME ReprocessInv, UNCHANGED reprocessVars, faults' \in 0..MaxFaults,
           faults' = faults \/ faults' = faults + 1
    PROVE  ReprocessInv'
<1>1. /\ dlq \in Seq(1..Backlog) /\ unread \in Seq(1..Backlog) /\ Len(dlq) \in Nat
      /\ letterOffset \in 0..Len(dlq) /\ told \in [1..Backlog -> Nat]
      /\ faults \in Nat /\ faults' \in Nat /\ MaxFaults \in Nat /\ letterOffset \in Nat
      /\ tool \in ToolStates
    BY ReprocessTypes
<1>2. \A e \in 1..Backlog : /\ LettersOf(e, letterOffset) <= told[e]
                            /\ told[e] <= LettersOf(e, letterOffset) + faults'
  <2> TAKE e \in 1..Backlog
  <2>1. /\ LettersOf(e, letterOffset) <= told[e] /\ told[e] \in Nat
        /\ told[e] <= LettersOf(e, letterOffset) + faults
        /\ LettersOf(e, letterOffset) \in Nat
      BY <1>1, LettersFacts DEF ReprocessInv
  <2> QED
      BY <1>1, <2>1
<1>3. /\ tool.moved <= tool.position
      /\ tool.on => letterOffset <= tool.position
      /\ tool.on /\ ~tool.dryRun =>
            \A e \in 1..Backlog : LettersOf(e, tool.position) <= told[e]
    BY DEF ReprocessInv
<1> QED
    BY <1>1, <1>2, <1>3, ReprocessMoves DEF reprocessVars

\* The count of faults goes up only, and to its bound.
LEMMA FaultsGoUp ==
    ASSUME RelayInv, Relay!Next \/ Reprocess!Next
    PROVE  faults' \in 0..MaxFaults /\ (faults' = faults \/ faults' = faults + 1)
<1>1. faults \in 0..MaxFaults /\ MaxFaults \in Nat
    BY DeliveryAssumption DEF RelayInv, Relay!TypeOK, Relay!RelayAssumption
<1>2. \/ faults' = faults
      \/ faults < MaxFaults /\ faults' = faults + 1
  <2>1. CASE Relay!Next
    <3>1. ASSUME NEW e \in Rows, Relay!Write(e) \/ Relay!EndTransaction(e)
          PROVE  faults' = faults
        BY <3>1 DEF Relay!Write, Relay!EndTransaction
    <3>2. ASSUME NEW r \in Relays, Relay!RelayStep(r) \/ Relay!Crash(r) \/ Relay!Stop(r)
          PROVE  \/ faults' = faults
                 \/ faults < MaxFaults /\ faults' = faults + 1
        BY <3>2 DEF Relay!RelayStep, Relay!Crash, Relay!Stop, Relay!Tick, Relay!PollShard,
           Relay!Publish, Relay!MarkPublished, Relay!Start, Relay!Fault, Relay!NoFault
    <3> QED
        BY <2>1, <3>1, <3>2 DEF Relay!Next
  <2>2. CASE Reprocess!Next
      BY <2>2 DEF Reprocess!Next, Reprocess!Consume, Reprocess!Start, Reprocess!ReprocessOne,
         Reprocess!Leave, Reprocess!Fault
  <2> QED
      BY <2>1, <2>2
<1> QED
    BY <1>1, <1>2

\* A step leaves the other parts alone.
LEMMA DeliveryKeeps ==
    ASSUME DeliveryInv, [DeliveryNext]_deliveryVars
    PROVE  DeliveryInv'
<1>1. ConsumerInv /\ RelayInv /\ ReprocessInv
    BY DEF DeliveryInv
<1>2. CASE RelayNext
  <2>1. Relay!Next /\ UNCHANGED vars /\ UNCHANGED reprocessVars
      BY <1>2 DEF RelayNext
  <2> QED
      BY <1>1, <2>1, FaultsGoUp, ConsumerStep, RelayStepKeeps, ReprocessBears DEF DeliveryInv
<1>3. CASE ConsumersNext
  <2>1. Next /\ UNCHANGED relayVars /\ UNCHANGED reprocessVars /\ faults' = faults
      BY <1>3 DEF ConsumersNext
  <2>2. UNCHANGED Relay!vars /\ UNCHANGED Reprocess!vars
      BY <2>1 DEF Relay!vars, Reprocess!vars, relayVars, reprocessVars
  <2> QED
      BY <1>1, <2>1, <2>2, ConsumerStep, RelayStepKeeps, ReprocessStepKeeps DEF DeliveryInv
<1>4. CASE ReprocessNext
  <2>1. Reprocess!Next /\ UNCHANGED vars /\ UNCHANGED relayVars
      BY <1>4 DEF ReprocessNext
  <2> QED
      BY <1>1, <2>1, FaultsGoUp, ConsumerStep, ReprocessStepKeeps, RelayBears DEF DeliveryInv
<1>5. CASE UNCHANGED deliveryVars
  <2>1. UNCHANGED vars /\ UNCHANGED Relay!vars /\ UNCHANGED Reprocess!vars
      BY <1>5 DEF deliveryVars, relayVars, reprocessVars, Relay!vars, Reprocess!vars
  <2> QED
      BY <1>1, <2>1, ConsumerStep, RelayStepKeeps, ReprocessStepKeeps DEF DeliveryInv
<1> QED
    BY <1>2, <1>3, <1>4, <1>5 DEF DeliveryNext

\* Every step is one of the consumers', or none of theirs.
LEMMA DeliveryIsConsumers ==
    ASSUME [DeliveryNext]_deliveryVars
    PROVE  [Next]_vars
BY DEF DeliveryNext, RelayNext, ConsumersNext, ReprocessNext, deliveryVars

\* The relays, the consumers and the tool keep their invariants.
THEOREM DeliveryInvariant == DeliverySpec => []DeliveryInv
<1>1. DeliveryInit => DeliveryInv
    BY ConsumerInit, RelayInit, ReprocessInit DEF DeliveryInit, DeliveryInv
<1>2. DeliveryInv /\ [DeliveryNext]_deliveryVars => DeliveryInv'
    BY DeliveryKeeps
<1> QED
    BY <1>1, <1>2, PTL DEF DeliverySpec

\* The variables of every part keep the values its code can give them; the offsets
\* that are committed lie in the log (kafka.go, retry.go, relay.go, main.go).
THEOREM TypesOfDelivery == DeliverySpec => []AllTypes
<1>1. DeliveryInv => AllTypes
    BY ConsumersAreSound, RelayInvMeans, ReprocessInvMeans DEF DeliveryInv, AllTypes
<1> QED
    BY <1>1, DeliveryInvariant, PTL

\* Two goroutines work on one partition only after a crash or an expired session, or
\* while one of them is left by a Run that has returned (engine.go:20-30, 120-125;
\* kafka.go:298-301).
THEOREM PartitionsAreHandedOver == DeliverySpec => []HandedOver
<1>1. DeliveryInv => HandedOver
    BY ConsumersAreSound DEF DeliveryInv
<1> QED
    BY <1>1, DeliveryInvariant, PTL

\* What leaves an outbox or the dead letter topic is what was committed to it, and
\* no more often than the faults account for (relay.go:209-251, main.go:140-217).
THEOREM DuplicatesNeedFaults == DeliverySpec => []DuplicatesAreFaults
<1>1. DeliveryInv => DuplicatesAreFaults
    BY RelayInvMeans, ReprocessInvMeans DEF DeliveryInv, DuplicatesAreFaults
<1> QED
    BY <1>1, DeliveryInvariant, PTL

\* While the side topics take what they are sent and no RetryConsumer is told to
\* stop, no offset passes a record that was neither applied nor carried on, through
\* rebalances, expired sessions and crashes (kafka.go:409-413, retry.go:267-272).
THEOREM NoRecordIsSkipped ==
    ASSUME SidesHold
    PROVE  DeliverySpec => []NothingSkipped
<1>1. DeliveryInit => SkipInv
    BY SkipInit DEF DeliveryInit
<1>2. DeliveryInv /\ SkipInv /\ [DeliveryNext]_deliveryVars => SkipInv'
    BY DeliveryIsConsumers, SkipStep, SidesHold DEF DeliveryInv
<1>3. SkipInv => NothingSkipped
    BY SkipInvMeans
<1> QED
    BY <1>1, <1>2, <1>3, DeliveryInvariant, PTL DEF DeliverySpec
=============================================================================
