--------------------------- MODULE ServicesProofs ---------------------------
(***************************************************************************)
(* The batching goroutines, the lives of the processes, the calls between  *)
(* them and search-reindex, for any number of views, events, deliveries,   *)
(* requests, cards and faults: what each keeps, and so what they keep      *)
(* together.                                                               *)
(***************************************************************************)
EXTENDS Services, SumsTheorems, SequenceTheorems, TLAPS

-----------------------------------------------------------------------------
(* Channels and batches: what is in a sequence, and whether it is there once.  *)

On(s, v) == \E i \in 1..Len(s) : s[i] = v
Once(s) == \A i, j \in 1..Len(s) : s[i] = s[j] => i = j

\* A sequence's elements and its injectivity, as the modules have them.
LEMMA OnIsIn ==
    ASSUME NEW S, NEW s \in Seq(S)
    PROVE  /\ \A v : v \in Batcher!ToSet(s) <=> On(s, v)
           /\ \A v : v \in Indexer!ToSet(s) <=> On(s, v)
           /\ Batcher!IsInjective(s) <=> Once(s)
           /\ \A v : On(s, v) => v \in S
<1>1. DOMAIN s = 1..Len(s) /\ \A i \in 1..Len(s) : s[i] \in S
  BY LenProperties, ElementOfSeq
<1> QED BY <1>1 DEF On, Once, Batcher!ToSet, Indexer!ToSet, Batcher!IsInjective

\* What is sent to a channel is in it, after what was there.
LEMMA Appended ==
    ASSUME NEW S, NEW s \in Seq(S), NEW x \in S
    PROVE  /\ Append(s, x) \in Seq(S) /\ Len(Append(s, x)) = Len(s) + 1
           /\ \A v : On(Append(s, x), v) <=> On(s, v) \/ v = x
           /\ Once(s) /\ ~On(s, x) => Once(Append(s, x))
<1> DEFINE t == Append(s, x)
<1>1. PICK n \in Nat : n = Len(s)
  BY LenProperties
<1>2. t \in Seq(S) /\ Len(t) = n + 1 /\ (\A i \in 1..n : t[i] = s[i]) /\ t[n + 1] = x
  BY <1>1, AppendProperties
<1> HIDE DEF t
<1>3. \A i \in 1..(n + 1) : i \in 1..n \/ i = n + 1
  BY <1>1
<1>4. \A i \in 1..n : i \in 1..(n + 1) /\ i # n + 1
  BY <1>1
<1>5. n + 1 \in 1..(n + 1)
  BY <1>1
<1>6. \A v : On(t, v) <=> On(s, v) \/ v = x
  BY <1>1, <1>2, <1>3, <1>4, <1>5 DEF On
<1>7. ASSUME Once(s), ~On(s, x) PROVE Once(t)
  BY <1>1, <1>2, <1>3, <1>4, <1>5, <1>7 DEF On, Once
<1> QED BY <1>1, <1>2, <1>6, <1>7 DEF t

\* What is received from a channel was in it, and leaves the rest.
LEMMA Received ==
    ASSUME NEW S, NEW s \in Seq(S), s # <<>>
    PROVE  /\ Head(s) \in S /\ Tail(s) \in Seq(S) /\ Len(s) > 0 /\ Len(Tail(s)) = Len(s) - 1
           /\ \A v : On(s, v) <=> On(Tail(s), v) \/ v = Head(s)
           /\ Once(s) => Once(Tail(s)) /\ ~On(Tail(s), Head(s))
<1> DEFINE t == Tail(s)
           h == Head(s)
<1>1. PICK n \in Nat : n = Len(s)
  BY LenProperties
<1>2. n # 0
  BY <1>1, EmptySeq
<1>3. PICK m \in Nat : m + 1 = n
  BY <1>1, <1>2
<1>4. h \in S /\ t \in Seq(S) /\ Len(t) = m /\ (\A i \in 1..m : t[i] = s[i + 1]) /\ h = s[1]
  BY <1>1, <1>3, HeadTailProperties
<1> HIDE DEF t, h
<1>5. \A i \in 1..n : i = 1 \/ \E j \in 1..m : i = j + 1
  <2> SUFFICES ASSUME NEW i \in 1..n, i # 1 PROVE i - 1 \in 1..m /\ i = (i - 1) + 1
    OBVIOUS
  <2> QED BY <1>3
<1>6. \A j \in 1..m : j + 1 \in 1..n /\ j + 1 # 1
  BY <1>3
<1>7. 1 \in 1..n
  BY <1>1, <1>2
<1>8. \A v : On(s, v) <=> On(t, v) \/ v = h
  <2>1. ASSUME NEW v, On(s, v) PROVE On(t, v) \/ v = h
    <3>1. PICK i \in 1..n : s[i] = v
      BY <1>1, <2>1 DEF On
    <3> QED BY <1>4, <1>5, <3>1 DEF On
  <2>2. ASSUME NEW v, On(t, v) \/ v = h PROVE On(s, v)
    BY <1>1, <1>4, <1>6, <1>7, <2>2 DEF On
  <2> QED BY <2>1, <2>2
<1>9. ASSUME Once(s) PROVE Once(t) /\ ~On(t, h)
  <2>1. \A i, j \in 1..m : i + 1 = j + 1 => i = j
    BY <1>3
  <2> QED BY <1>1, <1>4, <1>6, <1>7, <1>9, <2>1 DEF On, Once
<1> QED BY <1>1, <1>3, <1>4, <1>8, <1>9 DEF t, h

\* An empty sequence.
LEMMA Emptied ==
    ASSUME NEW S
    PROVE  /\ <<>> \in Seq(S) /\ Len(<<>>) = 0 /\ Once(<<>>) /\ \A v : ~On(<<>>, v)
           /\ \A s \in Seq(S) : Len(s) \in Nat /\ (Len(s) = 0 => s = <<>>)
BY EmptySeq, LenProperties DEF On, Once

-----------------------------------------------------------------------------
(* The batcher of views.                                                       *)

ViewsInHand(v) == On(buf, v) \/ On(batch, v)
BatcherTypes ==
    /\ view \in [Views -> {"new", "counted", "not counted", "full", "taken", "failed"}]
    /\ late \subseteq Views
    /\ buf \in Seq(Views) /\ Len(buf) <= Capacity
    /\ batch \in Seq(Views)
    /\ run \in {"select", "flush", "drain", "last flush", "returned"}
    /\ done \in BOOLEAN
    /\ topic \in Seq(Views)
    /\ viewFaults \in 0..MaxFaults
\* A view that was taken is at one place: the channel, the batch or the topic.
ViewsOnce ==
    /\ Once(buf) /\ Once(batch) /\ Once(topic)
    /\ \A v \in Views :
          /\ ~(On(buf, v) /\ On(batch, v))
          /\ ViewsInHand(v) => view[v] = "taken" /\ ~On(topic, v)
          /\ On(topic, v) => view[v] \in {"taken", "failed"}
          /\ view[v] = "taken" => ViewsInHand(v) \/ On(topic, v)
\* After the last look at the channel, only late views are in it.
Emptying ==
    /\ run \in {"flush", "last flush"} => batch # <<>>
    /\ run \in {"drain", "last flush", "returned"} => done
    /\ run \in {"last flush", "returned"} => \A v \in Views : On(buf, v) => v \in late
    /\ run = "returned" => batch = <<>>
BatcherInv == BatcherTypes /\ ViewsOnce /\ Emptying

\* A step of the batcher, or of a view, and a stutter, keep it.
LEMMA BatcherStep ==
    ASSUME Batcher!BatcherAssumption, BatcherInv, Batcher!Next \/ UNCHANGED batcherVars
    PROVE  BatcherInv'
<1> USE DEF BatcherInv
<1>t. BatcherTypes /\ Capacity \in Nat /\ MaxFaults \in Nat
  BY DEF Batcher!BatcherAssumption
<1>f. Batcher!Fault => viewFaults' \in 0..MaxFaults
  <2>1. viewFaults \in 0..MaxFaults
    BY DEF BatcherTypes
  <2>2. MaxFaults \in Nat
    BY <1>t
  <2> QED BY <2>1, <2>2 DEF Batcher!Fault
<1>1. CASE UNCHANGED batcherVars
  BY <1>1 DEF batcherVars, BatcherTypes, ViewsOnce, Emptying, ViewsInHand
<1>2. ASSUME NEW v \in Views, Batcher!IncrView(v) PROVE BatcherInv'
  <2>1. BatcherTypes'
    BY <1>2, <1>t, <1>f DEF Batcher!IncrView, BatcherTypes
  <2>2. ViewsOnce'
    BY <1>2, <1>t DEF Batcher!IncrView, BatcherTypes, ViewsOnce, ViewsInHand
  <2>3. Emptying'
    BY <1>2 DEF Batcher!IncrView, Emptying
  <2> QED BY <2>1, <2>2, <2>3
<1>3. ASSUME NEW v \in Views, Batcher!Enqueue(v) PROVE BatcherInv'
  <2>1. CASE Len(buf) < Capacity
    <3>0. /\ view[v] = "counted" /\ view' = [view EXCEPT ![v] = "taken"]
          /\ buf' = Append(buf, v) /\ late' = IF done THEN late \cup {v} ELSE late
          /\ UNCHANGED <<batch, run, done, topic, viewFaults>>
      BY <1>3, <2>1 DEF Batcher!Enqueue
    <3>1. ~ViewsInHand(v) /\ ~On(topic, v)
      BY <3>0 DEF ViewsOnce
    <3>2. /\ buf' \in Seq(Views) /\ Len(buf') = Len(buf) + 1 /\ Len(buf) \in Nat
          /\ \A u : On(buf', u) <=> On(buf, u) \/ u = v
          /\ Once(buf')
      <4>1. buf \in Seq(Views) /\ Once(buf) /\ ~On(buf, v)
        BY <3>1, <1>t DEF BatcherTypes, ViewsInHand, ViewsOnce
      <4>2. buf' = Append(buf, v)
        BY <3>0
      <4> QED BY <4>1, <4>2, Appended, Emptied
    <3>3. Len(buf') <= Capacity
      BY <3>2, <2>1, <1>t
    <3>4. BatcherTypes'
      BY <3>0, <3>2, <3>3, <1>t DEF BatcherTypes
    <3>5. ViewsOnce'
      BY <3>0, <3>1, <3>2, <1>t DEF BatcherTypes, ViewsOnce, ViewsInHand
    <3>6. Emptying'
      BY <3>0, <3>2, <1>t DEF BatcherTypes, Emptying
    <3> QED BY <3>4, <3>5, <3>6
  <2>2. CASE ~(Len(buf) < Capacity)
    <3>0. /\ view[v] = "counted" /\ view' = [view EXCEPT ![v] = "full"]
          /\ UNCHANGED <<buf, late, batch, run, done, topic, viewFaults>>
      BY <1>3, <2>2 DEF Batcher!Enqueue
    <3> QED BY <3>0, <1>t DEF BatcherTypes, ViewsOnce, ViewsInHand, Emptying
  <2> QED BY <2>1, <2>2
<1>4. CASE Batcher!Take
  <2>0. /\ run \in {"select", "drain"} /\ buf # <<>>
        /\ batch' = Append(batch, Head(buf)) /\ buf' = Tail(buf)
        /\ run' \in {run, "flush"} /\ (run = "drain" => run' = run)
        /\ UNCHANGED <<view, late, done, topic, viewFaults>>
    BY <1>4 DEF Batcher!Take
  <2> DEFINE h == Head(buf)
  <2>1. /\ h \in Views /\ Tail(buf) \in Seq(Views) /\ Len(Tail(buf)) = Len(buf) - 1
        /\ \A v : On(buf, v) <=> On(Tail(buf), v) \/ v = h
        /\ Once(Tail(buf)) /\ ~On(Tail(buf), h)
    BY <2>0, <1>t, Received DEF BatcherTypes, ViewsOnce
  <2> HIDE DEF h
  <2>2. On(buf, h) /\ ~On(batch, h)
    BY <2>1 DEF ViewsOnce
  <2>3. /\ batch' \in Seq(Views) /\ Len(batch') = Len(batch) + 1
        /\ \A v : On(batch', v) <=> On(batch, v) \/ v = h
        /\ Once(batch')
    <3>1. batch \in Seq(Views) /\ Once(batch) /\ batch' = Append(batch, h)
      BY <2>0, <1>t DEF BatcherTypes, ViewsOnce, h
    <3> QED BY <2>1, <2>2, <3>1, Appended
  <2>4. Len(buf') <= Capacity /\ batch' # <<>>
    <3>1. Len(buf) \in Nat /\ Len(batch) \in Nat /\ Len(buf) <= Capacity
      BY <1>t, Emptied DEF BatcherTypes
    <3>2. Len(batch') # 0 /\ Len(Tail(buf)) <= Capacity
      BY <3>1, <2>1, <2>3, <1>t
    <3>3. batch' # <<>>
      BY <3>2, Emptied
    <3> QED BY <3>2, <3>3, <2>0
  <2>5. BatcherTypes'
    BY <2>0, <2>1, <2>3, <2>4, <1>t DEF BatcherTypes
  <2>6. ViewsOnce'
    BY <2>0, <2>1, <2>2, <2>3, <1>t DEF BatcherTypes, ViewsOnce, ViewsInHand
  <2>7. Emptying'
    BY <2>0, <2>4 DEF Emptying
  <2> QED BY <2>5, <2>6, <2>7
<1>5. CASE Batcher!Tick \/ Batcher!Done \/ Batcher!Drained
  <2>1. UNCHANGED <<view, late, buf, batch, done, topic, viewFaults>>
        /\ run' \in {"select", "flush", "drain", "last flush", "returned"}
    BY <1>5 DEF Batcher!Tick, Batcher!Done, Batcher!Drained
  <2>2. BatcherTypes' /\ ViewsOnce'
    BY <2>1, <1>t DEF BatcherTypes, ViewsOnce, ViewsInHand
  <2>3. \A v : ~On(<<>>, v)
    BY Emptied
  <2>4. Emptying'
    BY <1>5, <2>3 DEF Emptying, Batcher!Tick, Batcher!Done, Batcher!Drained
  <2> QED BY <2>2, <2>4
<1>6. CASE Batcher!Publish
  <2> DEFINE h == Head(batch)
  <2>0. /\ run \in {"flush", "last flush"} /\ batch # <<>> /\ batch' = Tail(batch)
        /\ topic' \in {topic, Append(topic, h)}
        /\ \/ topic' = Append(topic, h) /\ UNCHANGED <<view, viewFaults>>
           \/ view' = [view EXCEPT ![h] = "failed"] /\ Batcher!Fault
        /\ run' = IF Len(batch) > 1 THEN run ELSE IF run = "flush" THEN "select" ELSE "returned"
        /\ UNCHANGED <<late, buf, done>>
    BY <1>6 DEF Batcher!Publish, Emptying
  <2>1. /\ h \in Views /\ batch' \in Seq(Views) /\ Len(batch) > 0 /\ Len(batch') = Len(batch) - 1
        /\ \A v : On(batch, v) <=> On(batch', v) \/ v = h
        /\ Once(batch') /\ ~On(batch', h)
    BY <2>0, <1>t, Received DEF BatcherTypes, ViewsOnce
  <2> HIDE DEF h
  <2>2. On(batch, h) /\ ~On(topic, h) /\ ~On(buf, h) /\ view[h] = "taken"
    BY <2>1 DEF ViewsOnce, ViewsInHand
  <2>3. /\ topic' \in Seq(Views) /\ Once(topic')
        /\ \/ \A v : On(topic', v) <=> On(topic, v) \/ v = h
           \/ view'[h] = "failed" /\ \A v : On(topic', v) <=> On(topic, v)
    <3>1. CASE topic' = Append(topic, h)
      <4>1. topic \in Seq(Views) /\ Once(topic)
        BY <1>t DEF BatcherTypes, ViewsOnce
      <4> QED BY <3>1, <4>1, <2>1, <2>2, Appended
    <3>2. CASE topic' # Append(topic, h)
      BY <3>2, <2>0, <2>1, <1>t DEF BatcherTypes, ViewsOnce
    <3> QED BY <3>1, <3>2
  <2>4. BatcherTypes'
    BY <2>0, <2>1, <2>3, <1>t, <1>f DEF BatcherTypes
  <2>5. /\ \A v \in Views : v # h => view'[v] = view[v]
        /\ view'[h] \in {"taken", "failed"}
    BY <2>0, <2>1, <2>2, <1>t DEF BatcherTypes
  <2>6. ViewsOnce'
    <3>1. Once(buf') /\ Once(batch') /\ Once(topic') /\ buf' = buf
      BY <2>0, <2>1, <2>3 DEF ViewsOnce
    <3>2. ASSUME NEW v \in Views
          PROVE  /\ ~(On(buf', v) /\ On(batch', v))
                 /\ On(buf', v) \/ On(batch', v) => view'[v] = "taken" /\ ~On(topic', v)
                 /\ On(topic', v) => view'[v] \in {"taken", "failed"}
                 /\ view'[v] = "taken" => On(buf', v) \/ On(batch', v) \/ On(topic', v)
      <4>1. CASE v = h
        BY <4>1, <3>1, <2>1, <2>2, <2>3, <2>5
      <4>2. CASE v # h
        BY <4>2, <3>1, <2>1, <2>3, <2>5 DEF ViewsOnce, ViewsInHand
      <4> QED BY <4>1, <4>2
    <3> QED BY <3>1, <3>2 DEF ViewsOnce, ViewsInHand
  <2>7. /\ Len(batch) > 1 => batch' # <<>>
        /\ ~(Len(batch) > 1) => batch' = <<>>
    <3>1. Len(batch) \in Nat /\ Len(batch') \in Nat
      BY <2>1, <1>t, Emptied DEF BatcherTypes
    <3>2. /\ Len(batch) > 1 => Len(batch') # 0
          /\ ~(Len(batch) > 1) => Len(batch') = 0
      BY <3>1, <2>1
    <3> QED BY <3>2, <2>1, Emptied
  <2>8. Emptying'
    BY <2>0, <2>7 DEF Emptying
  <2> QED BY <2>4, <2>6, <2>8
<1>7. CASE Batcher!Close
  BY <1>7, <1>t DEF Batcher!Close, BatcherTypes, ViewsOnce, ViewsInHand, Emptying
<1> QED BY <1>1, <1>2, <1>3, <1>4, <1>5, <1>6, <1>7 DEF Batcher!Next, Batcher!Goroutine

\* It holds at the start, and gives the types and both promises.
LEMMA BatcherKnown ==
    ASSUME Batcher!BatcherAssumption
    PROVE  /\ Batcher!Init => BatcherInv
           /\ BatcherInv => Batcher!TypeOK /\ Batcher!PublishedOnce /\ Batcher!CloseFlushes
<1>1. ASSUME Batcher!Init PROVE BatcherInv
  <2>1. 0 <= Capacity /\ 0 \in 0..MaxFaults
    BY DEF Batcher!BatcherAssumption
  <2>2. /\ <<>> \in Seq(Views) /\ Len(<<>>) = 0 /\ Once(<<>>) /\ \A v : ~On(<<>>, v)
    BY Emptied
  <2> QED BY <1>1, <2>1, <2>2 DEF Batcher!Init, BatcherInv, BatcherTypes, ViewsOnce, ViewsInHand, Emptying
<1>2. ASSUME BatcherInv PROVE Batcher!TypeOK /\ Batcher!PublishedOnce /\ Batcher!CloseFlushes
  <2>1. Batcher!TypeOK
    BY <1>2 DEF BatcherInv, BatcherTypes, Batcher!TypeOK
  <2>2. /\ \A v : v \in Batcher!ToSet(topic) <=> On(topic, v)
        /\ Batcher!IsInjective(topic) <=> Once(topic)
        /\ \A v : On(topic, v) => v \in Views
    BY <1>2, OnIsIn DEF BatcherInv, BatcherTypes
  <2>3. Batcher!PublishedOnce
    BY <1>2, <2>2 DEF BatcherInv, ViewsOnce, Batcher!PublishedOnce
  <2>4. \A v : ~On(<<>>, v)
    BY Emptied
  <2>5. Batcher!CloseFlushes
    BY <1>2, <2>2, <2>4 DEF BatcherInv, ViewsOnce, ViewsInHand, Emptying, Batcher!CloseFlushes
  <2> QED BY <2>1, <2>3, <2>5
<1> QED BY <1>1, <1>2

-----------------------------------------------------------------------------
(* The indexer.                                                                *)

\* Two events of a listing that carry the same time agree on whether it is there
\* (the version is the event's time in milliseconds, indexer.go:64).
TimesAgree ==
    \A e, f \in Listed \ Invalid :
        DocOf[e] = DocOf[f] /\ VersionOf[e] = VersionOf[f] => (e \in Removed <=> f \in Removed)

Versions == [version : Nat, there : BOOLEAN]
InIndex(ix, e) ==
    /\ ix[DocOf[e]].version >= VersionOf[e]
    /\ ix[DocOf[e]].version = VersionOf[e] => ix[DocOf[e]].there = (e \notin Removed)

HandlerStates ==
    [at : {"none", "submit", "wait"} \cup Indexer!Closed, event : Listed,
     result : Indexer!Answers \cup {"none"}]
IndexerTypes ==
    /\ call \in [Handlers -> HandlerStates]
    /\ submit \in Seq(Handlers) /\ Len(submit) <= BufferSize
    /\ bulk \in Seq(Handlers)
    /\ indexRun \in {"select", "flush", "drain", "last flush", "returned"}
    /\ {indexDone, stopped} \subseteq BOOLEAN
    /\ index \in [Indexer!Docs -> Versions]
    /\ indexFaults \in 0..MaxFaults
\* A call without its result is at one place, and one with a result at none.
CallsOnce ==
    /\ Once(submit)
    /\ \A c \in Handlers :
          /\ ~(On(submit, c) /\ On(bulk, c))
          /\ call[c].at \in {"none", "submit"} =>
                call[c].result = "none" /\ ~On(submit, c) /\ ~On(bulk, c)
          /\ On(submit, c) \/ On(bulk, c) => call[c].result = "none"
\* What an answer says.
AnswersHold ==
    \A c \in Handlers :
        /\ call[c].at = "handled" => call[c].result = "nil"
        /\ call[c].result = "nil" =>
              call[c].event \notin Invalid /\ (TimesAgree => InIndex(index, call[c].event))
IndexerInv == IndexerTypes /\ CallsOnce /\ AnswersHold

\* The places of actions on a document that the mapping accepts.
Valid(actions, d) ==
    {i \in actions : DocOf[Indexer!EventAt(i)] = d /\ Indexer!EventAt(i) \notin Invalid}
NewestOf(actions, d, i) ==
    /\ i \in Valid(actions, d)
    /\ \A j \in Valid(actions, d) :
          \/ VersionOf[Indexer!EventAt(j)] < VersionOf[Indexer!EventAt(i)]
          \/ VersionOf[Indexer!EventAt(j)] = VersionOf[Indexer!EventAt(i)] /\ j <= i

\* One of them is the newest, of equals the last.
LEMMA OneIsNewest ==
    ASSUME Indexer!IndexerAssumption, IndexerTypes, NEW actions \in SUBSET (1..Len(bulk)),
           NEW d, Valid(actions, d) # {}
    PROVE  \E i \in actions : NewestOf(actions, d, i)
<1> DEFINE A == Valid(actions, d)
           v == [i \in A |-> VersionOf[Indexer!EventAt(i)]]
<1>1. PICK n \in Nat : n = Len(bulk)
  BY LenProperties DEF IndexerTypes
<1>2. IsFiniteSet(A) /\ A \subseteq 1..n /\ A \subseteq actions
  <2>1. IsFiniteSet(1..n)
    BY FS_Interval
  <2>2. A \subseteq 1..n /\ A \subseteq actions
    BY <1>1 DEF Valid
  <2> QED BY <2>1, <2>2, FS_Subset
<1>3. \A i \in A : Indexer!EventAt(i) \in Listed
  BY <1>1, <1>2, ElementOfSeq DEF IndexerTypes, HandlerStates, Indexer!EventAt
<1>4. v \in [A -> Int] /\ \A i \in A : v[i] \in Nat
  BY <1>3 DEF Indexer!IndexerAssumption
<1> HIDE DEF A
<1>5. PICK x \in A : \A y \in A : v[y] <= v[x]
  BY <1>2, <1>4, Greatest DEF A
<1> DEFINE M == {y \in A : v[y] = v[x]}
           place == [y \in M |-> y]
<1>6. IsFiniteSet(M) /\ M # {}
  BY <1>2, <1>5, FS_Subset
<1>7. place \in [M -> Int]
  <2>1. \A y \in 1..n : y \in Int
    OBVIOUS
  <2> QED BY <1>2, <2>1
<1>8. PICK i \in M : \A j \in M : place[j] <= place[i]
  BY <1>6, <1>7, Greatest
<1>9. \A j \in A : v[j] < v[i] \/ (v[j] = v[i] /\ j <= i)
  BY <1>4, <1>5, <1>8
<1> QED BY <1>2, <1>8, <1>9 DEF NewestOf, A

\* A document changes to the newest valid action on it, unless that is older.
LEMMA BulkTo ==
    ASSUME Indexer!IndexerAssumption, IndexerTypes, NEW actions \in SUBSET (1..Len(bulk)),
           NEW d \in Indexer!Docs
    PROVE  \/ /\ Indexer!Bulk(actions)[d] = index[d]
              /\ \A i \in Valid(actions, d) : VersionOf[Indexer!EventAt(i)] < index[d].version
           \/ \E w \in Listed \ Invalid :
                 /\ DocOf[w] = d /\ Indexer!Bulk(actions)[d] = Indexer!Document(w)
                 /\ VersionOf[w] >= index[d].version
                 /\ \A i \in Valid(actions, d) : VersionOf[Indexer!EventAt(i)] <= VersionOf[w]
<1> DEFINE P(i) == DocOf[Indexer!EventAt(i)] = d /\ Indexer!Wins(actions, i)
<1>e. \A i \in actions : Indexer!EventAt(i) \in Listed
  BY ElementOfSeq DEF IndexerTypes, HandlerStates, Indexer!EventAt
<1>v. /\ \A i \in actions : VersionOf[Indexer!EventAt(i)] \in Nat
      /\ index[d].version \in Nat
  BY <1>e DEF Indexer!IndexerAssumption, IndexerTypes, Versions
<1>0. Indexer!Bulk(actions)[d] =
        IF \E i \in actions : P(i)
        THEN Indexer!Document(Indexer!EventAt(CHOOSE i \in actions : P(i)))
        ELSE index[d]
  BY DEF Indexer!Bulk
<1>1. CASE \E i \in actions : P(i)
  <2> DEFINE i == CHOOSE i \in actions : P(i)
  <2>1. i \in actions /\ P(i)
    BY <1>1
  <2> HIDE DEF i
  <2>2. Indexer!Bulk(actions)[d] = Indexer!Document(Indexer!EventAt(i))
    BY <1>0, <1>1 DEF i
  <2>3. /\ Indexer!EventAt(i) \notin Invalid /\ DocOf[Indexer!EventAt(i)] = d
        /\ VersionOf[Indexer!EventAt(i)] >= index[d].version
        /\ \A j \in Valid(actions, d) :
              \/ VersionOf[Indexer!EventAt(j)] < VersionOf[Indexer!EventAt(i)]
              \/ VersionOf[Indexer!EventAt(j)] = VersionOf[Indexer!EventAt(i)] /\ j <= i
    BY <2>1 DEF Indexer!Wins, Valid
  <2>4. \A j \in Valid(actions, d) : VersionOf[Indexer!EventAt(j)] <= VersionOf[Indexer!EventAt(i)]
    BY <2>1, <2>3, <1>v DEF Valid
  <2> QED BY <2>1, <2>2, <2>3, <2>4, <1>e
<1>2. CASE ~(\E i \in actions : P(i))
  <2>1. Indexer!Bulk(actions)[d] = index[d]
    BY <1>0, <1>2
  <2>2. ASSUME NEW i \in Valid(actions, d), ~(VersionOf[Indexer!EventAt(i)] < index[d].version)
        PROVE  FALSE
    <3>1. PICK k \in actions : NewestOf(actions, d, k)
      BY <2>2, OneIsNewest
    <3>2. k \in Valid(actions, d) /\ i \in actions
      BY <3>1, <2>2 DEF NewestOf, Valid
    <3>3. VersionOf[Indexer!EventAt(k)] >= VersionOf[Indexer!EventAt(i)]
      BY <3>1, <3>2, <2>2, <1>v DEF NewestOf
    <3>4. VersionOf[Indexer!EventAt(k)] >= index[d].version
      BY <3>2, <3>3, <2>2, <1>v
    <3>5. DocOf[Indexer!EventAt(k)] = d /\ Indexer!EventAt(k) \notin Invalid
      BY <3>2 DEF Valid
    <3>6. Indexer!Wins(actions, k)
      BY <3>1, <3>4, <3>5 DEF Indexer!Wins, NewestOf, Valid
    <3> QED BY <3>1, <3>5, <3>6, <1>2
  <2> QED BY <2>1, <2>2
<1> QED BY <1>1, <1>2

\* What the index has stays in it, and what was executed gets into it.
LEMMA BulkKeeps ==
    ASSUME Indexer!IndexerAssumption, IndexerTypes,
           NEW actions \in SUBSET (1..Len(bulk))
    PROVE  /\ Indexer!Bulk(actions) \in [Indexer!Docs -> Versions]
           /\ TimesAgree => \A e \in Listed \ Invalid :
                 InIndex(index, e) => InIndex(Indexer!Bulk(actions), e)
           /\ TimesAgree => \A i \in actions :
                 Indexer!EventAt(i) \notin Invalid =>
                     InIndex(Indexer!Bulk(actions), Indexer!EventAt(i))
<1> DEFINE new == Indexer!Bulk(actions)
<1>v. VersionOf \in [Listed -> Nat] /\ index \in [Indexer!Docs -> Versions]
  BY DEF Indexer!IndexerAssumption, IndexerTypes
<1>d. \A e \in Listed : DocOf[e] \in Indexer!Docs
  BY DEF Indexer!Docs
<1>t. \A w \in Listed : Indexer!Document(w) \in Versions /\ Indexer!Document(w).version = VersionOf[w]
         /\ Indexer!Document(w).there = (w \notin Removed)
  BY <1>v DEF Indexer!Document, Versions
<1>1. \A d \in Indexer!Docs : new[d] \in Versions
  BY BulkTo, <1>t, <1>v
<1>2. new = [d \in Indexer!Docs |-> new[d]]
  BY DEF Indexer!Bulk
<1>3. ASSUME TimesAgree, NEW e \in Listed \ Invalid,
             InIndex(index, e) \/ \E i \in Valid(actions, DocOf[e]) : Indexer!EventAt(i) = e
      PROVE  InIndex(new, e)
  <2> DEFINE d == DocOf[e]
  <2>n. VersionOf[e] \in Nat /\ index[d].version \in Nat /\ d \in Indexer!Docs
    BY <1>v, <1>d DEF Versions
  <2>1. CASE /\ new[d] = index[d]
             /\ \A i \in Valid(actions, d) : VersionOf[Indexer!EventAt(i)] < index[d].version
    <3>1. CASE InIndex(index, e)
      BY <2>1, <3>1 DEF InIndex
    <3>2. CASE VersionOf[e] < index[d].version
      BY <2>1, <2>n, <3>2 DEF InIndex
    <3> QED BY <1>3, <2>1, <3>1, <3>2
  <2>2. ASSUME NEW w \in Listed \ Invalid, DocOf[w] = d, new[d] = Indexer!Document(w),
               VersionOf[w] >= index[d].version,
               \A i \in Valid(actions, d) : VersionOf[Indexer!EventAt(i)] <= VersionOf[w]
        PROVE  InIndex(new, e)
    <3>1. new[d].version = VersionOf[w] /\ new[d].there = (w \notin Removed) /\ VersionOf[w] \in Nat
      BY <2>2, <1>t, <1>v
    <3>2. VersionOf[w] >= VersionOf[e]
      <4>1. CASE index[d].version >= VersionOf[e]
        BY <2>2, <2>n, <3>1, <4>1
      <4>2. CASE ~(index[d].version >= VersionOf[e])
        BY <1>3, <2>2, <4>2 DEF InIndex
      <4> QED BY <4>1, <4>2
    <3>3. VersionOf[w] = VersionOf[e] => (w \in Removed <=> e \in Removed)
      BY <1>3, <2>2 DEF TimesAgree
    <3> QED BY <3>1, <3>2, <3>3 DEF InIndex
  <2> HIDE DEF new
  <2>3. \/ /\ new[d] = index[d]
           /\ \A i \in Valid(actions, d) : VersionOf[Indexer!EventAt(i)] < index[d].version
        \/ \E w \in Listed \ Invalid :
                 /\ DocOf[w] = d /\ new[d] = Indexer!Document(w)
                 /\ VersionOf[w] >= index[d].version
                 /\ \A i \in Valid(actions, d) : VersionOf[Indexer!EventAt(i)] <= VersionOf[w]
    BY BulkTo, <2>n DEF new
  <2> QED BY <2>1, <2>2, <2>3
<1>4. \A i \in actions : Indexer!EventAt(i) \in Listed
  BY ElementOfSeq DEF IndexerTypes, HandlerStates, Indexer!EventAt
<1>5. ASSUME TimesAgree, NEW i \in actions, Indexer!EventAt(i) \notin Invalid
      PROVE  InIndex(new, Indexer!EventAt(i))
  <2>1. i \in Valid(actions, DocOf[Indexer!EventAt(i)])
    BY <1>5 DEF Valid
  <2> QED BY <1>3, <1>4, <1>5, <2>1
<1> QED BY <1>1, <1>2, <1>3, <1>5

\* The answer of a flush: the calls that it does not concern keep theirs, and "nil"
\* is answered only for an action of it that the mapping accepts.
LEMMA FlushAnswers ==
    ASSUME Indexer!IndexerAssumption, IndexerTypes, Indexer!Flush
    PROVE  /\ bulk' = <<>> /\ UNCHANGED <<submit, indexDone, stopped>>
           /\ indexRun' \in {"select", "returned"}
           /\ indexFaults' \in 0..MaxFaults
           /\ call' \in [Handlers -> HandlerStates]
           /\ \A c \in Handlers : /\ call'[c].at = call[c].at /\ call'[c].event = call[c].event
                                  /\ ~On(bulk, c) => call'[c].result = call[c].result
           /\ \E actions \in SUBSET (1..Len(bulk)) :
                 /\ index' = Indexer!Bulk(actions)
                 /\ \A c \in Handlers : On(bulk, c) /\ call'[c].result = "nil" =>
                       call[c].event \notin Invalid /\ \E i \in actions : bulk[i] = c
<1> USE DEF HandlerStates, Indexer!Answers
<1>t. /\ bulk \in Seq(Handlers) /\ call \in [Handlers -> HandlerStates]
      /\ indexFaults \in 0..MaxFaults /\ MaxFaults \in Nat
  BY DEF IndexerTypes, Indexer!IndexerAssumption
<1>0. /\ bulk' = <<>> /\ UNCHANGED <<submit, indexDone, stopped>>
      /\ indexRun' \in {"select", "returned"}
  BY DEF Indexer!Flush
<1>i. \A actions, i :
         /\ Indexer!ItemResult(actions, i) \in {"nil", "invalid", "unavailable"}
         /\ Indexer!ItemResult(actions, i) = "nil" => Indexer!EventAt(i) \notin Invalid
  BY DEF Indexer!ItemResult
\* A flush that executes some places, and has an answer for every place.
<1>1. ASSUME NEW actions \in SUBSET (1..Len(bulk)), NEW r,
             r = [i \in 1..Len(bulk) |-> r[i]],
             \A i \in 1..Len(bulk) :
                /\ r[i] \in {"nil", "invalid", "unavailable"}
                /\ r[i] = "nil" => i \in actions /\ Indexer!EventAt(i) \notin Invalid,
             index' = Indexer!Bulk(actions), call' = Indexer!Answered(r)
      PROVE  /\ call' \in [Handlers -> HandlerStates]
             /\ \A c \in Handlers : /\ call'[c].at = call[c].at /\ call'[c].event = call[c].event
                                    /\ ~On(bulk, c) => call'[c].result = call[c].result
             /\ \A c \in Handlers : On(bulk, c) /\ call'[c].result = "nil" =>
                   call[c].event \notin Invalid /\ \E i \in actions : bulk[i] = c
  <2>d. DOMAIN r = 1..Len(bulk)
    BY <1>1
  <2> DEFINE place(c) == CHOOSE i \in 1..Len(bulk) : bulk[i] = c
  <2>1. \A c \in Handlers : call'[c] = IF \E i \in 1..Len(bulk) : bulk[i] = c
                                     THEN [call[c] EXCEPT !.result = r[place(c)]] ELSE call[c]
    BY <1>1, <2>d DEF Indexer!Answered
  <2>2. \A c : On(bulk, c) <=> \E i \in 1..Len(bulk) : bulk[i] = c
    BY DEF On
  <2>3. \A c : On(bulk, c) => place(c) \in 1..Len(bulk) /\ bulk[place(c)] = c
    BY <2>2
  <2> HIDE DEF place
  <2>4. ASSUME NEW c \in Handlers
        PROVE  /\ call'[c] \in HandlerStates
               /\ call'[c].at = call[c].at /\ call'[c].event = call[c].event
               /\ ~On(bulk, c) => call'[c].result = call[c].result
               /\ On(bulk, c) => call'[c].result = r[place(c)]
    <3>0. call[c] \in HandlerStates
      BY <1>t
    <3>1. CASE On(bulk, c)
      <4>1. call'[c] = [call[c] EXCEPT !.result = r[place(c)]]
        BY <2>1, <2>2, <3>1
      <4>2. r[place(c)] \in {"nil", "invalid", "unavailable"}
        BY <1>1, <2>3, <3>1
      <4> HIDE DEF On
      <4> QED BY <3>0, <3>1, <4>1, <4>2
    <3>2. CASE ~On(bulk, c)
      BY <2>1, <2>2, <3>0, <3>2
    <3> QED BY <3>1, <3>2
  <2>5. call' \in [Handlers -> HandlerStates]
    <3>1. call' = [c \in Handlers |-> call'[c]]
      BY <1>1 DEF Indexer!Answered
    <3> QED BY <2>4, <3>1
  <2>6. ASSUME NEW c \in Handlers, On(bulk, c), call'[c].result = "nil"
        PROVE  call[c].event \notin Invalid /\ \E i \in actions : bulk[i] = c
    <3>1. /\ place(c) \in 1..Len(bulk) /\ bulk[place(c)] = c /\ r[place(c)] = "nil"
      BY <2>3, <2>4, <2>6
    <3>2. place(c) \in actions /\ Indexer!EventAt(place(c)) \notin Invalid
      BY <1>1, <3>1
    <3> QED BY <3>1, <3>2 DEF Indexer!EventAt
  <2> QED BY <2>4, <2>5, <2>6
<1>2. CASE /\ index' = Indexer!Bulk(1..Len(bulk))
           /\ call' = Indexer!Answered([i \in 1..Len(bulk) |-> Indexer!ItemResult(1..Len(bulk), i)])
           /\ UNCHANGED indexFaults
  <2> DEFINE places == 1..Len(bulk)
             r == [i \in places |-> Indexer!ItemResult(places, i)]
  <2>1. places \in SUBSET (1..Len(bulk)) /\ r = [i \in 1..Len(bulk) |-> r[i]]
    OBVIOUS
  <2>2. \A i \in 1..Len(bulk) :
           /\ r[i] \in {"nil", "invalid", "unavailable"}
           /\ r[i] = "nil" => i \in places /\ Indexer!EventAt(i) \notin Invalid
    BY <1>i
  <2>3. index' = Indexer!Bulk(places) /\ call' = Indexer!Answered(r)
    BY <1>2
  <2> HIDE DEF places, r
  <2> QED BY <1>0, <1>1, <1>2, <1>t, <2>1, <2>2, <2>3
<1>3. ASSUME indexFaults < MaxFaults, indexFaults' = indexFaults + 1,
             NEW good \in SUBSET (1..Len(bulk)), NEW answered \in BOOLEAN,
             index' = Indexer!Bulk(good),
             call' = Indexer!Answered([i \in 1..Len(bulk) |->
                        IF answered /\ i \in good THEN Indexer!ItemResult(good, i)
                        ELSE "unavailable"])
      PROVE  /\ indexFaults' \in 0..MaxFaults
             /\ call' \in [Handlers -> HandlerStates]
             /\ \A c \in Handlers : /\ call'[c].at = call[c].at /\ call'[c].event = call[c].event
                                    /\ ~On(bulk, c) => call'[c].result = call[c].result
             /\ \A c \in Handlers : On(bulk, c) /\ call'[c].result = "nil" =>
                   call[c].event \notin Invalid /\ \E i \in good : bulk[i] = c
  <2>1. indexFaults' \in 0..MaxFaults
    <3>1. indexFaults \in Nat
      BY <1>t
    <3> QED BY <1>3, <1>t, <3>1
  <2> DEFINE r == [i \in 1..Len(bulk) |->
                     IF answered /\ i \in good THEN Indexer!ItemResult(good, i) ELSE "unavailable"]
  <2>2. r = [i \in 1..Len(bulk) |-> r[i]]
    OBVIOUS
  <2>3. \A i \in 1..Len(bulk) :
           /\ r[i] \in {"nil", "invalid", "unavailable"}
           /\ r[i] = "nil" => i \in good /\ Indexer!EventAt(i) \notin Invalid
    BY <1>i
  <2>4. call' = Indexer!Answered(r)
    BY <1>3
  <2> HIDE DEF r
  <2> QED BY <1>1, <1>3, <2>1, <2>2, <2>3, <2>4
<1>4. \/ /\ index' = Indexer!Bulk(1..Len(bulk))
         /\ call' = Indexer!Answered([i \in 1..Len(bulk) |-> Indexer!ItemResult(1..Len(bulk), i)])
         /\ UNCHANGED indexFaults
      \/ /\ indexFaults < MaxFaults /\ indexFaults' = indexFaults + 1
         /\ \E good \in SUBSET (1..Len(bulk)), answered \in BOOLEAN :
               /\ index' = Indexer!Bulk(good)
               /\ call' = Indexer!Answered([i \in 1..Len(bulk) |->
                        IF answered /\ i \in good THEN Indexer!ItemResult(good, i)
                        ELSE "unavailable"])
  BY DEF Indexer!Flush
<1> QED BY <1>0, <1>2, <1>3, <1>4

\* A flush keeps what is known.
LEMMA FlushStep ==
    ASSUME Indexer!IndexerAssumption, IndexerInv, Indexer!Flush
    PROVE  IndexerInv'
<1> USE DEF IndexerInv
<1>t. IndexerTypes /\ CallsOnce /\ AnswersHold
  OBVIOUS
<1>1. /\ bulk' = <<>> /\ UNCHANGED <<submit, indexDone, stopped>>
      /\ indexRun' \in {"select", "returned"}
      /\ indexFaults' \in 0..MaxFaults
      /\ call' \in [Handlers -> HandlerStates]
      /\ \A c \in Handlers : /\ call'[c].at = call[c].at /\ call'[c].event = call[c].event
                             /\ ~On(bulk, c) => call'[c].result = call[c].result
  BY FlushAnswers
<1>2. PICK actions \in SUBSET (1..Len(bulk)) :
         /\ index' = Indexer!Bulk(actions)
         /\ \A c \in Handlers : On(bulk, c) /\ call'[c].result = "nil" =>
               call[c].event \notin Invalid /\ \E i \in actions : bulk[i] = c
  BY FlushAnswers
<1>3. /\ index' \in [Indexer!Docs -> Versions]
      /\ TimesAgree => \A e \in Listed \ Invalid : InIndex(index, e) => InIndex(index', e)
      /\ TimesAgree => \A i \in actions :
            Indexer!EventAt(i) \notin Invalid => InIndex(index', Indexer!EventAt(i))
  BY <1>2, BulkKeeps
<1>4. /\ <<>> \in Seq(Handlers) /\ \A v : ~On(<<>>, v)
  BY Emptied
<1>5. IndexerTypes'
  BY <1>1, <1>3, <1>4, <1>t DEF IndexerTypes
<1>6. CallsOnce'
  BY <1>1, <1>4, <1>t DEF CallsOnce
<1>7. AnswersHold'
  <2> SUFFICES ASSUME NEW c \in Handlers
               PROVE  /\ call'[c].at = "handled" => call'[c].result = "nil"
                      /\ call'[c].result = "nil" =>
                            /\ call'[c].event \notin Invalid
                            /\ TimesAgree => InIndex(index', call'[c].event)
    BY DEF AnswersHold, InIndex, TimesAgree
  <2>e. call[c].event \in Listed /\ call'[c].event = call[c].event /\ call'[c].at = call[c].at
    BY <1>t, <1>1 DEF IndexerTypes, HandlerStates
  <2>1. CASE ~On(bulk, c)
    BY <2>1, <2>e, <1>t, <1>1, <1>3 DEF AnswersHold
  <2>2. CASE On(bulk, c)
    <3>1. call[c].at # "handled"
      BY <2>2, <1>t DEF CallsOnce, AnswersHold
    <3>2. ASSUME call'[c].result = "nil"
          PROVE  call[c].event \notin Invalid /\ (TimesAgree => InIndex(index', call[c].event))
      BY <2>2, <3>2, <1>2, <1>3 DEF Indexer!EventAt
    <3> QED BY <2>e, <3>1, <3>2
  <2> QED BY <2>1, <2>2
<1> QED BY <1>5, <1>6, <1>7

\* A step of the indexer or of a call, and a stutter, keep what is known.
LEMMA IndexerStep ==
    ASSUME Indexer!IndexerAssumption, IndexerInv, Indexer!Next \/ UNCHANGED indexerVars
    PROVE  IndexerInv'
<1> USE DEF IndexerInv
<1>t. IndexerTypes /\ CallsOnce /\ AnswersHold
  OBVIOUS
<1>c. call \in [Handlers -> HandlerStates]
  BY <1>t DEF IndexerTypes
<1>1. CASE UNCHANGED indexerVars
  BY <1>1, <1>t DEF indexerVars, IndexerTypes, CallsOnce, AnswersHold, InIndex
\* A call goes to another place.
<1>2. ASSUME NEW c \in Handlers, NEW a \in {"submit", "wait"} \cup Indexer!Closed,
             call' = [call EXCEPT ![c].at = a],
             a = "submit" => call[c].at = "none",
             a = "handled" => call[c].result = "nil"
      PROVE  /\ call' \in [Handlers -> HandlerStates]
             /\ \A d \in Handlers : d # c => call'[d] = call[d]
             /\ call'[c].at = a /\ call'[c].event = call[c].event /\ call'[c].result = call[c].result
             /\ UNCHANGED index => AnswersHold'
  <2>1. /\ call' \in [Handlers -> HandlerStates]
        /\ \A d \in Handlers : d # c => call'[d] = call[d]
        /\ call'[c].at = a /\ call'[c].event = call[c].event /\ call'[c].result = call[c].result
    BY <1>2, <1>c DEF HandlerStates
  <2>2. ASSUME UNCHANGED index PROVE AnswersHold'
    BY <2>1, <2>2, <1>2, <1>t DEF AnswersHold, InIndex, TimesAgree
  <2> QED BY <2>1, <2>2
<1>3. ASSUME NEW c \in Handlers, NEW a \in {"submit"} \cup Indexer!Closed,
             call' = [call EXCEPT ![c].at = a],
             a = "submit" => call[c].at = "none",
             a = "handled" => call[c].result = "nil",
             UNCHANGED <<submit, bulk, indexRun, indexFaults, index, indexDone, stopped>>
      PROVE  IndexerInv'
  <2>1. /\ call' \in [Handlers -> HandlerStates]
        /\ \A d \in Handlers : d # c => call'[d] = call[d]
        /\ call'[c].at = a /\ call'[c].event = call[c].event /\ call'[c].result = call[c].result
        /\ AnswersHold'
    BY <1>2, <1>3
  <2>2. IndexerTypes'
    BY <2>1, <1>3, <1>t DEF IndexerTypes
  <2>3. CallsOnce'
    BY <2>1, <1>3, <1>t DEF CallsOnce, Indexer!Closed
  <2> QED BY <2>1, <2>2, <2>3
<1>4. ASSUME NEW c \in Handlers, Indexer!Deliver(c) PROVE IndexerInv'
  BY <1>3, <1>4 DEF Indexer!Deliver, Indexer!loop
<1>5. ASSUME NEW c \in Handlers, Indexer!Submit(c) PROVE IndexerInv'
  <2>0. call[c].at = "submit" /\ UNCHANGED <<bulk, indexRun, indexFaults, index, indexDone, stopped>>
    BY <1>5 DEF Indexer!Submit, Indexer!loop
  <2>1. CASE Len(submit) < BufferSize /\ submit' = Append(submit, c)
             /\ call' = [call EXCEPT ![c].at = "wait"]
    <3>1. submit \in Seq(Handlers) /\ Once(submit) /\ ~On(submit, c) /\ ~On(bulk, c)
          /\ call[c].result = "none"
      BY <2>0, <1>t DEF IndexerTypes, CallsOnce
    <3>2. /\ submit' \in Seq(Handlers) /\ Len(submit') = Len(submit) + 1
          /\ Once(submit')
          /\ \A v : On(submit', v) <=> On(submit, v) \/ v = c
      BY <2>1, <3>1, Appended
    <3>3. Len(submit') <= BufferSize
      <4>1. Len(submit) \in Nat /\ BufferSize \in Nat
        BY <3>1, Emptied DEF Indexer!IndexerAssumption
      <4> QED BY <4>1, <3>2, <2>1
    <3>4. /\ call' \in [Handlers -> HandlerStates]
          /\ \A d \in Handlers : d # c => call'[d] = call[d]
          /\ call'[c].at = "wait" /\ call'[c].result = call[c].result
          /\ AnswersHold'
      BY <1>2, <2>1, <2>0
    <3>5. IndexerTypes'
      BY <2>0, <3>2, <3>3, <3>4, <1>t DEF IndexerTypes
    <3>6. CallsOnce'
      BY <2>0, <3>1, <3>2, <3>4, <1>t DEF CallsOnce
    <3> QED BY <3>4, <3>5, <3>6
  <2>2. ASSUME NEW a \in {"again", "cancelled"}, call' = [call EXCEPT ![c].at = a], UNCHANGED submit
        PROVE  IndexerInv'
    BY <1>3, <2>0, <2>2 DEF Indexer!Closed
  <2> QED BY <1>5, <2>1, <2>2 DEF Indexer!Submit
<1>6. ASSUME NEW c \in Handlers, Indexer!Receive(c) PROVE IndexerInv'
  <2>0. UNCHANGED <<submit, bulk, indexRun, indexFaults, index, indexDone, stopped>>
    BY <1>6 DEF Indexer!Receive, Indexer!loop
  <2>1. PICK a \in Indexer!Closed : call' = [call EXCEPT ![c].at = a]
                                  /\ (a = "handled" => call[c].result = "nil")
    <3>1. /\ Indexer!Classified(call[c].result) \in Indexer!Closed
          /\ Indexer!Classified(call[c].result) = "handled" => call[c].result = "nil"
      BY DEF Indexer!Classified, Indexer!Closed
    <3> QED BY <1>6, <3>1 DEF Indexer!Receive, Indexer!Closed
  <2> QED BY <1>3, <2>0, <2>1 DEF Indexer!Closed
<1>7. CASE Indexer!Take
  <2>0. /\ submit # <<>> /\ bulk' = Append(bulk, Head(submit)) /\ submit' = Tail(submit)
        /\ indexRun' \in {indexRun, "flush"}
        /\ UNCHANGED <<call, indexDone, stopped, index, indexFaults>>
    BY <1>7 DEF Indexer!Take
  <2> DEFINE h == Head(submit)
  <2>1. /\ h \in Handlers /\ Tail(submit) \in Seq(Handlers) /\ Len(Tail(submit)) = Len(submit) - 1
        /\ \A v : On(submit, v) <=> On(Tail(submit), v) \/ v = h
        /\ Once(Tail(submit)) /\ ~On(Tail(submit), h)
    BY <2>0, <1>t, Received DEF IndexerTypes, CallsOnce
  <2>2. bulk \in Seq(Handlers) /\ bulk' = Append(bulk, h)
    BY <2>0, <1>t DEF IndexerTypes
  <2> HIDE DEF h
  <2>3. /\ bulk' \in Seq(Handlers)
        /\ \A v : On(bulk', v) <=> On(bulk, v) \/ v = h
    BY <2>1, <2>2, Appended
  <2>4. Len(submit') <= BufferSize
    <3>1. Len(submit) \in Nat /\ BufferSize \in Nat /\ Len(submit) <= BufferSize
      BY <1>t, Emptied DEF IndexerTypes, Indexer!IndexerAssumption
    <3> QED BY <3>1, <2>0, <2>1
  <2>5. IndexerTypes'
    BY <2>0, <2>1, <2>3, <2>4, <1>t DEF IndexerTypes
  <2>6. CallsOnce'
    BY <2>0, <2>1, <2>3, <1>t DEF CallsOnce
  <2>7. AnswersHold'
    BY <2>0, <1>t DEF AnswersHold, InIndex, TimesAgree
  <2> QED BY <2>5, <2>6, <2>7
<1>8. CASE Indexer!Tick \/ Indexer!Done \/ Indexer!Drained
  <2>1. /\ UNCHANGED <<call, submit, indexDone, stopped, bulk, index, indexFaults>>
        /\ indexRun' \in {"flush", "drain", "last flush", "returned"}
    BY <1>8 DEF Indexer!Tick, Indexer!Done, Indexer!Drained
  <2> QED BY <2>1, <1>t DEF IndexerTypes, CallsOnce, AnswersHold, InIndex
<1>9. CASE Indexer!Flush
  BY <1>9, FlushStep
<1>10. CASE Indexer!Stop \/ Indexer!Close
  <2>1. /\ UNCHANGED <<call, submit, indexRun, bulk, index, indexFaults>>
        /\ {indexDone', stopped'} \subseteq BOOLEAN
    BY <1>10, <1>t DEF Indexer!Stop, Indexer!Close, Indexer!loop, IndexerTypes
  <2> QED BY <2>1, <1>t DEF IndexerTypes, CallsOnce, AnswersHold, InIndex
<1> QED BY <1>1, <1>4, <1>5, <1>6, <1>7, <1>8, <1>9, <1>10 DEF Indexer!Next, Indexer!Goroutine

\* It holds at the start, and gives the types and the promise.
LEMMA IndexerKnown ==
    ASSUME Indexer!IndexerAssumption
    PROVE  /\ Indexer!Init => IndexerInv
           /\ IndexerInv => Indexer!TypeOK /\ (TimesAgree => Indexer!HandledIsIndexed)
<1>1. ASSUME Indexer!Init PROVE IndexerInv
  <2>1. 0 <= BufferSize /\ 0 \in 0..MaxFaults
    BY DEF Indexer!IndexerAssumption
  <2>2. /\ <<>> \in Seq(Handlers) /\ Len(<<>>) = 0 /\ Once(<<>>) /\ \A v : ~On(<<>>, v)
    BY Emptied
  <2>3. \A c \in Handlers : call[c].at = "none" /\ call[c].result = "none"
    BY <1>1 DEF Indexer!Init
  <2>4. call \in [Handlers -> HandlerStates]
    BY <1>1 DEF Indexer!Init, HandlerStates
  <2>5. IndexerTypes
    BY <1>1, <2>1, <2>2, <2>4 DEF Indexer!Init, IndexerTypes, Versions
  <2>6. CallsOnce /\ AnswersHold
    BY <1>1, <2>2, <2>3 DEF Indexer!Init, CallsOnce, AnswersHold
  <2> QED BY <2>5, <2>6 DEF IndexerInv
<1>2. ASSUME IndexerInv PROVE Indexer!TypeOK /\ (TimesAgree => Indexer!HandledIsIndexed)
  BY <1>2 DEF IndexerInv, IndexerTypes, HandlerStates, Versions, AnswersHold, InIndex,
              Indexer!TypeOK, Indexer!HandledIsIndexed
<1> QED BY <1>1, <1>2

-----------------------------------------------------------------------------
(* The writer of one table.                                                    *)

AddStates ==
    [event : Facts, answer : {"none", "ok", "error"},
     at : {"none", "full", "insert", "select"} \cup Writer!Ended]
WriterTypes ==
    /\ add \in [Adds -> AddStates]
    /\ pending \subseteq Adds
    /\ timer \in BOOLEAN
    /\ fired \in Nat
    /\ inserting \subseteq [rows : SUBSET Adds, by : Adds \cup {NoCaller}]
    /\ rows \in [Facts -> Nat]
    /\ rowFaults \in 0..MaxFaults

\* The rows that are on their way to the table.
Flying == pending \cup UNION {b.rows : b \in inserting}
FlyingOf(e) == {c \in Flying : add[c].event = e}
\* A row is on its way once, without an answer, and who runs a flush waits for it.
Batches ==
    /\ \A b \in inserting :
          /\ b.rows # {} /\ b.rows \cap pending = {}
          /\ b.by # NoCaller => add[b.by].at = "insert"
    /\ \A b, d \in inserting :
          b # d => b.rows \cap d.rows = {} /\ (b.by = d.by => b.by = NoCaller)
    /\ \A c \in Flying :
          add[c].answer = "none" /\ add[c].at \in {"full", "insert", "select", "failed"}
\* What an answer says of the table.
RowsHold ==
    \A c \in Adds :
        /\ add[c].at = "none" => add[c].answer = "none"
        /\ add[c].at = "handled" => add[c].answer = "ok"
        /\ add[c].answer = "ok" => rows[add[c].event] >= 1
\* Every timer was armed by a call of its own.
NotAdded == {c \in Adds : add[c].at = "none"}
TimersCounted ==
    fired + (IF timer THEN 1 ELSE 0) + Cardinality(NotAdded) <= Cardinality(Adds)
\* A delivery of the event is under way, or was, and has not failed.
Live(e) ==
    \E c \in Adds :
        /\ add[c].event = e
        /\ \/ add[c].at = "handled"
           \/ add[c].at \in {"full", "insert", "select"} /\ add[c].answer # "error"
\* What is in the table or on its way there: one row, and one for each fault; and
\* only when the last delivery failed there is room for another.
Counted(e) ==
    rows[e] + Cardinality(FlyingOf(e)) + (IF Live(e) THEN 0 ELSE 1) <= 1 + rowFaults
WriterInv ==
    /\ WriterTypes /\ Batches /\ RowsHold /\ TimersCounted /\ Writer!RowsAreFlushed
    /\ \A e \in Facts : Counted(e)

\* The sizes of the writer's sets are those of the library's theorems.
LEMMA WriterSizes ==
    ASSUME Writer!WriterAssumption
    PROVE  /\ \A S : Writer!Cardinality(S) = Cardinality(S)
           /\ IsFiniteSet(Adds)
           /\ \A S \in SUBSET Adds : IsFiniteSet(S) /\ Cardinality(S) \in Nat
<1>1. \A S : Writer!Cardinality(S) = Cardinality(S)
  BY DEF Writer!Cardinality, Cardinality
<1>2. IsFiniteSet(Adds)
  <2>1. Writer!IsFiniteSet(Adds)
    BY DEF Writer!WriterAssumption
  <2> QED BY <2>1 DEF Writer!IsFiniteSet, IsFiniteSet
<1> QED BY <1>1, <1>2, FS_Subset, FS_CardinalityType

\* A step that leaves an event's rows where they are keeps their count.
LEMMA CountKept ==
    ASSUME Writer!WriterAssumption, WriterTypes, NEW e \in Facts, Counted(e),
           rows'[e] = rows[e], FlyingOf(e)' = FlyingOf(e),
           rowFaults' \in {rowFaults, rowFaults + 1},
           Live(e) /\ rowFaults' = rowFaults => Live(e)'
    PROVE  Counted(e)'
<1>1. rows[e] \in Nat /\ rowFaults \in Nat
  <2>1. rowFaults \in 0..MaxFaults /\ MaxFaults \in Nat
    BY DEF WriterTypes, Writer!WriterAssumption
  <2> QED BY <2>1 DEF WriterTypes
<1>2. Cardinality(FlyingOf(e)) \in Nat
  <2>1. FlyingOf(e) \in SUBSET Adds
    BY DEF FlyingOf, Flying, WriterTypes
  <2> QED BY <2>1, WriterSizes
<1> DEFINE n == Cardinality(FlyingOf(e))
<1>3. rows[e] + n + (IF Live(e) THEN 0 ELSE 1) <= 1 + rowFaults
  BY DEF Counted
<1>4. Cardinality(FlyingOf(e)') = n
  OBVIOUS
<1>5. Counted(e)' <=> rows'[e] + Cardinality(FlyingOf(e)') + (IF Live(e)' THEN 0 ELSE 1) <= 1 + rowFaults'
  BY DEF Counted
<1> HIDE DEF n
<1>6. n \in Nat
  BY <1>2 DEF n
<1>7. rows[e] + n + (IF Live(e)' THEN 0 ELSE 1) <= 1 + rowFaults'
  <2>1. CASE rowFaults' = rowFaults + 1
    BY <2>1, <1>1, <1>3, <1>6
  <2>2. CASE rowFaults' = rowFaults /\ Live(e)
    BY <2>2, <1>1, <1>3, <1>6
  <2>3. CASE rowFaults' = rowFaults /\ ~Live(e)
    BY <2>3, <1>1, <1>3, <1>6
  <2> QED BY <2>1, <2>2, <2>3
<1> QED BY <1>4, <1>5, <1>7

\* A fault is counted.
LEMMA RowFault ==
    ASSUME Writer!WriterAssumption, WriterTypes, Writer!Fault
    PROVE  rowFaults' \in 0..MaxFaults /\ rowFaults' = rowFaults + 1
<1>1. rowFaults \in 0..MaxFaults /\ MaxFaults \in Nat
  BY DEF WriterTypes, Writer!WriterAssumption
<1> QED BY <1>1 DEF Writer!Fault

\* A call goes to another place, and no row does.
LEMMA PlaceStep ==
    ASSUME Writer!WriterAssumption, WriterInv, NEW c \in Adds,
           NEW at \in Writer!Ended, add[c].at \in {"none", "select"},
           add' = [add EXCEPT ![c].at = at],
           at = "handled" => add[c].answer = "ok" /\ add[c].at = "select",
           at = "refused" => add[c].at = "none",
           at = "failed" => add[c].at = "select" /\ (add[c].answer = "error" \/ rowFaults' = rowFaults + 1),
           rowFaults' \in {rowFaults, rowFaults + 1}, rowFaults' \in 0..MaxFaults,
           UNCHANGED <<pending, timer, fired, inserting, rows>>
    PROVE  WriterInv'
<1> USE DEF WriterInv
<1>t. WriterTypes /\ Batches /\ RowsHold /\ TimersCounted /\ Writer!RowsAreFlushed
  OBVIOUS
<1>1. /\ add' \in [Adds -> AddStates]
      /\ \A d \in Adds : d # c => add'[d] = add[d]
      /\ add'[c].at = at /\ add'[c].answer = add[c].answer /\ add'[c].event = add[c].event
  BY <1>t DEF WriterTypes, AddStates
<1>2. WriterTypes'
  BY <1>1, <1>t DEF WriterTypes
<1>f. Flying \subseteq Adds /\ Flying' = Flying
  BY <1>t DEF Flying, WriterTypes
<1>3. Batches'
  <2>1. \A b \in inserting : b.by \in Adds \cup {NoCaller} /\ b.by # c
    BY <1>t DEF Batches, WriterTypes, Writer!WriterAssumption
  <2>2. \A b \in inserting : b.by # NoCaller => add'[b.by].at = "insert"
    BY <1>1, <2>1, <1>t DEF Batches
  <2>3. \A d \in Flying : add'[d].answer = "none" /\ add'[d].at \in {"full", "insert", "select", "failed"}
    BY <1>1, <1>f, <1>t DEF Batches, Writer!Ended
  <2> QED BY <2>2, <2>3, <1>f, <1>t DEF Batches
<1>4. RowsHold'
  BY <1>1, <1>t DEF RowsHold, Writer!Ended
<1>5. TimersCounted'
  <2>1. NotAdded' \subseteq NotAdded
    BY <1>1 DEF NotAdded, Writer!Ended
  <2>2. IsFiniteSet(NotAdded) /\ Cardinality(NotAdded) \in Nat /\ Cardinality(NotAdded') \in Nat
    BY WriterSizes DEF NotAdded
  <2>3. Cardinality(NotAdded') <= Cardinality(NotAdded)
    BY <2>1, <2>2, FS_Subset
  <2>4. Cardinality(Adds) \in Nat /\ fired \in Nat
    BY WriterSizes, <1>t DEF WriterTypes
  <2> DEFINE n == Cardinality(NotAdded)
             m == Cardinality(NotAdded')
             a == Cardinality(Adds)
  <2>5. fired + (IF timer THEN 1 ELSE 0) + n <= a /\ n \in Nat /\ m \in Nat /\ m <= n /\ a \in Nat
    BY <2>2, <2>3, <2>4, <1>t DEF TimersCounted
  <2>6. TimersCounted' <=> fired + (IF timer THEN 1 ELSE 0) + m <= a
    BY DEF TimersCounted
  <2> HIDE DEF n, m, a
  <2> QED BY <2>4, <2>5, <2>6
<1>6. Writer!RowsAreFlushed'
  BY <1>1, <1>t DEF Writer!RowsAreFlushed
<1>7. ASSUME NEW e \in Facts PROVE Counted(e)'
  <2>1. FlyingOf(e)' = FlyingOf(e)
    BY <1>1, <1>f DEF FlyingOf
  <2>2. ASSUME Live(e), rowFaults' = rowFaults PROVE Live(e)'
    <3>1. PICK d \in Adds :
            /\ add[d].event = e
            /\ \/ add[d].at = "handled"
               \/ add[d].at \in {"full", "insert", "select"} /\ add[d].answer # "error"
      BY <2>2 DEF Live
    <3>2. rowFaults \in Nat
      BY <1>t DEF WriterTypes, Writer!WriterAssumption
    <3>3. d = c => at = "handled"
      BY <2>2, <3>1, <3>2 DEF Writer!Ended
    <3>4. \/ add'[d].at = "handled"
          \/ add'[d].at \in {"full", "insert", "select"} /\ add'[d].answer # "error"
      BY <1>1, <3>1, <3>3
    <3>5. add'[d].event = e
      BY <1>1, <3>1
    <3> QED BY <3>4, <3>5 DEF Live
  <2> QED BY <2>1, <2>2, <1>t, CountKept
<1> QED BY <1>2, <1>3, <1>4, <1>5, <1>6, <1>7

\* A row comes in.
LEMMA AddedStep ==
    ASSUME Writer!WriterAssumption, WriterInv, NEW c \in Adds, add[c].at = "none",
           \/ rowFaults' = rowFaults /\ ~Writer!UnderWay(add[c].event, c)
           \/ rowFaults' = rowFaults + 1,
           rowFaults' \in 0..MaxFaults,
           NEW at \in {"full", "select"},
           add' = [add EXCEPT ![c].at = at],
           pending' = pending \cup {c},
           timer' = (timer \/ Writer!Cardinality(pending') = 1),
           UNCHANGED <<fired, inserting, rows>>
    PROVE  WriterInv'
<1> USE DEF WriterInv
<1>t. WriterTypes /\ Batches /\ RowsHold /\ TimersCounted /\ Writer!RowsAreFlushed
  OBVIOUS
<1>1. /\ add' \in [Adds -> AddStates]
      /\ \A d \in Adds : d # c => add'[d] = add[d]
      /\ add'[c].at = at /\ add'[c].answer = add[c].answer /\ add'[c].event = add[c].event
  BY <1>t DEF WriterTypes, AddStates
<1>2. WriterTypes'
  BY <1>1, <1>t DEF WriterTypes
<1>f. Flying \subseteq Adds /\ Flying' = Flying \cup {c} /\ c \notin Flying
  BY <1>t DEF Flying, WriterTypes, Batches
<1>3. Batches'
  <2>1. \A b \in inserting : b.by \in Adds \cup {NoCaller} /\ b.by # c /\ c \notin b.rows
    BY <1>f, <1>t DEF Batches, WriterTypes, Writer!WriterAssumption, Flying
  <2>2. \A b \in inserting : /\ b.by # NoCaller => add'[b.by].at = "insert"
                            /\ b.rows \cap pending' = {}
    BY <1>1, <2>1, <1>t DEF Batches
  <2>3. \A d \in Flying' : add'[d].answer = "none" /\ add'[d].at \in {"full", "insert", "select", "failed"}
    BY <1>1, <1>f, <1>t DEF Batches, RowsHold
  <2> QED BY <2>2, <2>3, <1>t DEF Batches
<1>4. RowsHold'
  BY <1>1, <1>t DEF RowsHold
<1>5. TimersCounted'
  <2>1. NotAdded' = NotAdded \ {c} /\ c \in NotAdded
    BY <1>1 DEF NotAdded
  <2>2. IsFiniteSet(NotAdded) /\ Cardinality(NotAdded) \in Nat /\ Cardinality(Adds) \in Nat
    BY WriterSizes DEF NotAdded
  <2>3. Cardinality(NotAdded') = Cardinality(NotAdded) - 1
    BY <2>1, <2>2, FS_RemoveElement
  <2>4. fired \in Nat
    BY <1>t DEF WriterTypes
  <2> DEFINE n == Cardinality(NotAdded)
             m == Cardinality(NotAdded')
             a == Cardinality(Adds)
  <2>5. fired + (IF timer THEN 1 ELSE 0) + n <= a /\ n \in Nat /\ m = n - 1 /\ a \in Nat
    BY <2>2, <2>3, <1>t DEF TimersCounted
  <2>6. TimersCounted' <=> fired + (IF timer' THEN 1 ELSE 0) + m <= a
    BY DEF TimersCounted
  <2> HIDE DEF n, m, a
  <2> QED BY <2>4, <2>5, <2>6
<1>6. Writer!RowsAreFlushed'
  <2>1. CASE pending = {}
    <3>1. pending' = {c} /\ Cardinality({c}) = 1
      BY <2>1, FS_Singleton
    <3>2. timer'
      BY <3>1, WriterSizes
    <3> QED BY <3>2 DEF Writer!RowsAreFlushed
  <2>2. CASE pending # {}
    BY <2>2, <1>1, <1>t DEF Writer!RowsAreFlushed
  <2> QED BY <2>1, <2>2
<1>7. ASSUME NEW e \in Facts PROVE Counted(e)'
  <2>1. CASE e # add[c].event
    <3>1. FlyingOf(e)' = FlyingOf(e)
      BY <2>1, <1>1, <1>f DEF FlyingOf
    <3>2. Live(e) => Live(e)'
      BY <2>1, <1>1 DEF Live
    <3> QED BY <3>1, <3>2, <1>t, CountKept
  <2>2. CASE e = add[c].event
    <3>1. FlyingOf(e)' = FlyingOf(e) \cup {c} /\ c \notin FlyingOf(e) /\ FlyingOf(e) \in SUBSET Adds
      BY <2>2, <1>1, <1>f DEF FlyingOf
    <3>2. IsFiniteSet(FlyingOf(e)) /\ Cardinality(FlyingOf(e)) \in Nat
      BY <3>1, WriterSizes
    <3>3. Cardinality(FlyingOf(e)') = Cardinality(FlyingOf(e)) + 1
      <4>1. Cardinality(FlyingOf(e) \cup {c}) =
              IF c \in FlyingOf(e) THEN Cardinality(FlyingOf(e)) ELSE Cardinality(FlyingOf(e)) + 1
        BY <3>2, FS_AddElement
      <4> QED BY <3>1, <4>1
    <3>4. rowFaults' = rowFaults => ~Live(e)
      <4>1. rowFaults \in Nat
        BY <1>t DEF WriterTypes, Writer!WriterAssumption
      <4>2. rowFaults' = rowFaults => ~Writer!UnderWay(e, c)
        BY <2>2, <4>1
      <4>3. ~Writer!UnderWay(e, c) => ~Live(e)
        BY <2>2 DEF Live, Writer!UnderWay
      <4> QED BY <4>2, <4>3
    <3>5. Live(e)'
      BY <2>2, <1>1, <1>t DEF Live, RowsHold
    <3>6. rows[e] \in Nat /\ rowFaults \in Nat
      BY <1>t DEF WriterTypes, Writer!WriterAssumption
    <3> DEFINE n == Cardinality(FlyingOf(e))
               m == Cardinality(FlyingOf(e)')
               l == IF Live(e) THEN 0 ELSE 1
    <3>7. /\ rows[e] + n + l <= 1 + rowFaults /\ m = n + 1 /\ n \in Nat
          /\ l \in {0, 1} /\ (rowFaults' = rowFaults => l = 1)
      BY <3>2, <3>3, <3>4 DEF Counted
    <3>8. Counted(e)' <=> rows[e] + m + 0 <= 1 + rowFaults'
      BY <3>5 DEF Counted
    <3> HIDE DEF n, m, l
    <3> QED BY <3>6, <3>7, <3>8
  <2> QED BY <2>1, <2>2
<1> QED BY <1>2, <1>3, <1>4, <1>5, <1>6, <1>7

\* The timer fires.
LEMMA FireStep ==
    ASSUME Writer!WriterAssumption, WriterInv, Writer!Fire
    PROVE  WriterInv'
<1> USE DEF WriterInv
<1>t. WriterTypes /\ Batches /\ RowsHold /\ TimersCounted
  OBVIOUS
<1>0. timer /\ timer' = FALSE /\ fired' = fired + 1 /\ UNCHANGED <<add, pending, inserting, rows, rowFaults>>
  BY DEF Writer!Fire
<1>1. fired \in Nat /\ fired' \in Nat /\ fired' > 0
  BY <1>0, <1>t DEF WriterTypes
<1>2. WriterTypes' /\ Batches' /\ RowsHold' /\ Writer!RowsAreFlushed'
  BY <1>0, <1>1, <1>t DEF WriterTypes, Batches, RowsHold, Writer!RowsAreFlushed, Flying
<1>3. TimersCounted'
  <2> DEFINE n == Cardinality(NotAdded)
             a == Cardinality(Adds)
  <2>1. n \in Nat /\ a \in Nat /\ fired + 1 + n <= a
    BY <1>0, <1>t, WriterSizes DEF NotAdded, TimersCounted
  <2>2. NotAdded' = NotAdded
    BY <1>0 DEF NotAdded
  <2>3. TimersCounted' <=> fired + 1 + 0 + n <= a
    BY <1>0, <2>2 DEF TimersCounted
  <2> HIDE DEF n, a
  <2> QED BY <1>1, <2>1, <2>3
<1>4. \A e \in Facts : Counted(e)'
  BY <1>0 DEF Counted, FlyingOf, Flying, Live
<1> QED BY <1>2, <1>3, <1>4

\* A flush takes the rows that wait.
LEMMA TakeStep ==
    ASSUME Writer!WriterAssumption, WriterInv, NEW by \in Adds \cup {NoCaller}, Writer!Take(by),
           \/ /\ by = NoCaller /\ fired > 0 /\ fired' = fired - 1 /\ add' = add
           \/ /\ by \in Adds /\ add[by].at = "full" /\ fired' = fired
              /\ add' = [add EXCEPT ![by].at = IF pending = {} THEN "select" ELSE "insert"],
           UNCHANGED <<rows, rowFaults>>
    PROVE  WriterInv'
<1> USE DEF WriterInv
<1>t. WriterTypes /\ Batches /\ RowsHold /\ TimersCounted
  OBVIOUS
<1>0. /\ timer' = FALSE /\ pending' = {}
      /\ inserting' = IF pending = {} THEN inserting
                      ELSE inserting \cup {[rows |-> pending, by |-> by]}
  BY DEF Writer!Take
<1>1. /\ add' \in [Adds -> AddStates]
      /\ \A d \in Adds : d # by => add'[d] = add[d]
      /\ \A d \in Adds : add'[d].answer = add[d].answer /\ add'[d].event = add[d].event
      /\ \A d \in Adds : add'[d].at # add[d].at =>
            d = by /\ add[d].at = "full" /\ add'[d].at \in {"select", "insert"}
  BY <1>t DEF WriterTypes, AddStates
<1>b. /\ by # NoCaller => by \in Adds /\ add[by].at = "full" /\ (pending # {} => add'[by].at = "insert")
  BY <1>t DEF WriterTypes, AddStates
<1>n. fired \in Nat /\ fired' \in Nat /\ fired' <= fired
  BY <1>t DEF WriterTypes
<1> DEFINE n == [rows |-> pending, by |-> by]
<1>x. /\ n \in [rows : SUBSET Adds, by : Adds \cup {NoCaller}] /\ n.rows = pending /\ n.by = by
      /\ inserting' = IF pending = {} THEN inserting ELSE inserting \cup {n}
  BY <1>0, <1>t DEF WriterTypes
<1> HIDE DEF n
<1>f. Flying \subseteq Adds /\ Flying' = Flying
  <2>1. Flying \subseteq Adds
    BY <1>t DEF Flying, WriterTypes
  <2>2. CASE pending = {}
    BY <2>1, <2>2, <1>0, <1>x DEF Flying
  <2>3. CASE pending # {}
    <3>1. \A c : c \in Flying <=> c \in pending \/ \E b \in inserting : c \in b.rows
      BY DEF Flying
    <3>2. \A c : c \in Flying' <=> \E b \in inserting \cup {n} : c \in b.rows
      BY <2>3, <1>0, <1>x DEF Flying
    <3> QED BY <2>1, <3>1, <3>2, <1>x
  <2> QED BY <2>2, <2>3
<1>2. WriterTypes'
  <2>1. inserting' \subseteq [rows : SUBSET Adds, by : Adds \cup {NoCaller}]
    BY <1>x, <1>t DEF WriterTypes
  <2> QED BY <2>1, <1>0, <1>1, <1>n, <1>t DEF WriterTypes
<1>3. Batches'
  <2>1. ASSUME NEW b \in inserting
        PROVE  b.rows # {} /\ b.rows \cap pending = {} /\ b.by \in Adds \cup {NoCaller}
    BY <1>t DEF Batches, WriterTypes
  <2>2. ASSUME NEW b \in inserting, b.by # NoCaller
        PROVE  b.by # by /\ add'[b.by].at = "insert"
    <3>1. add[b.by].at = "insert"
      BY <2>2, <1>t DEF Batches
    <3>2. b.by # by
      BY <2>2, <3>1, <1>b
    <3>3. b.by \in Adds
      BY <2>1, <2>2
    <3> QED BY <3>1, <3>2, <3>3, <1>1
  <2>3. \A d \in Flying : add'[d].answer = "none" /\ add'[d].at \in {"full", "insert", "select", "failed"}
    BY <1>1, <1>f, <1>t DEF Batches
  <2>4. \A b, d \in inserting :
          b # d => b.rows \cap d.rows = {} /\ (b.by = d.by => b.by = NoCaller)
    BY <1>t DEF Batches
  <2>5. CASE pending = {}
    BY <2>1, <2>2, <2>3, <2>4, <2>5, <1>0, <1>f DEF Batches
  <2>6. CASE pending # {}
    <3>1. inserting' = inserting \cup {n}
      BY <1>x, <2>6
    <3>2. ASSUME NEW b \in inserting'
          PROVE  /\ b.rows # {} /\ b.rows \cap pending' = {}
                 /\ b.by # NoCaller => add'[b.by].at = "insert"
      <4>1. CASE b \in inserting
        BY <4>1, <2>1, <2>2, <1>0
      <4>2. CASE b = n
        BY <4>2, <2>6, <1>0, <1>b, <1>x
      <4> QED BY <3>1, <4>1, <4>2
    <3>3. ASSUME NEW b \in inserting', NEW d \in inserting', b # d
          PROVE  b.rows \cap d.rows = {} /\ (b.by = d.by => b.by = NoCaller)
      <4>1. CASE b \in inserting /\ d \in inserting
        BY <3>3, <4>1, <2>4
      <4>2. CASE b = n /\ d \in inserting
        BY <4>2, <2>1, <2>2, <1>x
      <4>3. CASE d = n /\ b \in inserting
        BY <4>3, <2>1, <2>2, <1>x
      <4> QED BY <3>1, <3>3, <4>1, <4>2, <4>3
    <3> QED BY <3>2, <3>3, <2>3, <1>f DEF Batches
  <2> QED BY <2>5, <2>6
<1>4. RowsHold'
  <2>1. \A d \in Adds : add'[d].at \in {"none", "handled"} => add[d].at = add'[d].at
    BY <1>1
  <2> QED BY <1>1, <2>1, <1>t DEF RowsHold
<1>5. TimersCounted'
  <2> DEFINE k == Cardinality(NotAdded)
             a == Cardinality(Adds)
  <2>1. k \in Nat /\ a \in Nat /\ fired + (IF timer THEN 1 ELSE 0) + k <= a
    BY <1>t, WriterSizes DEF NotAdded, TimersCounted
  <2>2. NotAdded' = NotAdded
    BY <1>1 DEF NotAdded
  <2>3. TimersCounted' <=> fired' + 0 + k <= a
    BY <1>0, <2>2 DEF TimersCounted
  <2> HIDE DEF k, a
  <2> QED BY <1>n, <2>1, <2>3
<1>6. Writer!RowsAreFlushed'
  BY <1>0 DEF Writer!RowsAreFlushed
<1>7. ASSUME NEW e \in Facts PROVE Counted(e)'
  <2>1. FlyingOf(e)' = FlyingOf(e)
    BY <1>1, <1>f DEF FlyingOf
  <2>2. ASSUME Live(e) PROVE Live(e)'
    <3>1. PICK d \in Adds :
            /\ add[d].event = e
            /\ \/ add[d].at = "handled"
               \/ add[d].at \in {"full", "insert", "select"} /\ add[d].answer # "error"
      BY <2>2 DEF Live
    <3>2. add'[d].at = add[d].at \/ (add'[d].at \in {"select", "insert"} /\ add[d].at = "full")
      BY <1>1
    <3> QED BY <3>1, <3>2, <1>1 DEF Live
  <2> QED BY <2>1, <2>2, <1>t, CountKept
<1> QED BY <1>2, <1>3, <1>4, <1>5, <1>6, <1>7

\* An insert ends: what it was to store is in the table when it says so.
LEMMA InsertStep ==
    ASSUME Writer!WriterAssumption, WriterInv, NEW b \in inserting, Writer!Insert(b)
    PROVE  WriterInv'
<1> USE DEF WriterInv
<1>t. WriterTypes /\ Batches /\ RowsHold /\ TimersCounted
  BY Zenon
<1>0. PICK answer \in {"ok", "error"}, stored \in BOOLEAN :
        /\ IF answer = "ok" THEN stored /\ UNCHANGED rowFaults ELSE Writer!Fault
        /\ add' = [c \in Adds |->
              [add[c] EXCEPT !.answer = IF c \in b.rows THEN answer ELSE add[c].answer,
                             !.at = IF c = b.by THEN "select" ELSE add[c].at]]
        /\ rows' = [e \in Facts |-> rows[e] +
              IF stored THEN Writer!Cardinality({c \in b.rows : add[c].event = e}) ELSE 0]
  BY DEF Writer!Insert
<1>u. inserting' = inserting \ {b} /\ UNCHANGED <<pending, timer, fired>>
  BY DEF Writer!Insert
<1>x. /\ b.rows \in SUBSET Adds /\ b.by \in Adds \cup {NoCaller} /\ b.rows \subseteq Flying
      /\ b.rows \cap pending = {}
      /\ \A d \in inserting : d # b => b.rows \cap d.rows = {} /\ (d.by = b.by => d.by = NoCaller)
  BY <1>t DEF WriterTypes, Batches, Flying
<1>f. Flying \subseteq Adds /\ Flying' = Flying \ b.rows
  <2>1. Flying \subseteq Adds
    BY <1>t DEF Flying, WriterTypes
  <2>2. \A c : c \in Flying' <=> c \in pending \/ \E d \in inserting : d # b /\ c \in d.rows
    BY <1>u DEF Flying
  <2>3. \A c : c \in Flying <=> c \in pending \/ \E d \in inserting : c \in d.rows
    BY DEF Flying
  <2> QED BY <2>1, <2>2, <2>3, <1>x
<1>1. /\ add' \in [Adds -> AddStates]
      /\ \A c \in Adds : /\ add'[c].event = add[c].event
                         /\ c \in b.rows => add'[c].answer = answer
                         /\ c \notin b.rows => add'[c].answer = add[c].answer
                         /\ c = b.by => add'[c].at = "select"
                         /\ c # b.by => add'[c].at = add[c].at
  <2>1. \A c \in Adds : add[c] \in AddStates
    BY <1>t DEF WriterTypes
  <2>2. ASSUME NEW c \in Adds
        PROVE  /\ add'[c] \in AddStates /\ add'[c].event = add[c].event
               /\ c \in b.rows => add'[c].answer = answer
               /\ c \notin b.rows => add'[c].answer = add[c].answer
               /\ c = b.by => add'[c].at = "select"
               /\ c # b.by => add'[c].at = add[c].at
    <3> DEFINE x == IF c \in b.rows THEN answer ELSE add[c].answer
               y == IF c = b.by THEN "select" ELSE add[c].at
    <3>1. add'[c] = [add[c] EXCEPT !.answer = x, !.at = y]
      BY <1>0
    <3>2. x \in {"none", "ok", "error"} /\ y \in {"none", "full", "insert", "select"} \cup Writer!Ended
      BY <2>1 DEF AddStates
    <3>3. /\ c \in b.rows => x = answer
          /\ c \notin b.rows => x = add[c].answer
          /\ c = b.by => y = "select"
          /\ c # b.by => y = add[c].at
      OBVIOUS
    <3> HIDE DEF x, y
    <3>4. add'[c] \in AddStates /\ add'[c].event = add[c].event /\ add'[c].answer = x /\ add'[c].at = y
      BY <3>1, <3>2, <2>1 DEF AddStates
    <3> QED BY <3>3, <3>4
  <2>3. add' = [c \in Adds |-> add'[c]]
    BY <1>0
  <2> QED BY <2>2, <2>3
<1>by. b.by # NoCaller => add[b.by].at = "insert"
  BY <1>t DEF Batches
\* The rows of one event.
<1> DEFINE Part(e) == {c \in b.rows : add[c].event = e}
<1>p. \A e : IsFiniteSet(Part(e)) /\ Cardinality(Part(e)) \in Nat
             /\ IsFiniteSet(FlyingOf(e)) /\ Cardinality(FlyingOf(e)) \in Nat
  <2>1. \A e : Part(e) \in SUBSET Adds /\ FlyingOf(e) \in SUBSET Adds
    BY <1>x, <1>f DEF FlyingOf
  <2> QED BY <2>1, WriterSizes
<1>r. ASSUME NEW e \in Facts
      PROVE  rows'[e] = rows[e] + (IF stored THEN Cardinality(Part(e)) ELSE 0)
  BY <1>0, WriterSizes
<1>g. ASSUME NEW e \in Facts
      PROVE  rows[e] \in Nat /\ rows'[e] \in Nat /\ rows'[e] >= rows[e]
  <2>1. rows[e] \in Nat
    BY <1>t DEF WriterTypes
  <2> DEFINE k == Cardinality(Part(e))
  <2>2. k \in Nat /\ rows'[e] = rows[e] + (IF stored THEN k ELSE 0)
    BY <1>p, <1>r
  <2> HIDE DEF k
  <2> QED BY <2>1, <2>2
<1>a. /\ rowFaults' \in 0..MaxFaults
      /\ rowFaults' = IF answer = "ok" THEN rowFaults ELSE rowFaults + 1
  <2>1. CASE answer = "ok"
    BY <2>1, <1>0, <1>t DEF WriterTypes
  <2>2. CASE answer # "ok"
    BY <2>2, <1>0, <1>t, RowFault
  <2> QED BY <2>1, <2>2
<1>2. WriterTypes'
  <2>1. rows' \in [Facts -> Nat]
    <3>1. rows' = [e \in Facts |-> rows'[e]]
      BY <1>0
    <3> QED BY <3>1, <1>g
  <2> QED BY <2>1, <1>1, <1>u, <1>a, <1>t DEF WriterTypes
<1>3. Batches'
  <2>1. ASSUME NEW d \in inserting'
        PROVE  d \in inserting /\ d # b /\ d.rows # {} /\ d.rows \cap pending = {}
               /\ d.by \in Adds \cup {NoCaller}
    BY <1>u, <1>t DEF Batches, WriterTypes
  <2>2. ASSUME NEW d \in inserting', d.by # NoCaller PROVE add'[d.by].at = "insert"
    <3>1. add[d.by].at = "insert"
      BY <2>1, <2>2, <1>t DEF Batches
    <3>2. d.by # b.by
      BY <2>1, <2>2, <1>x
    <3>3. d.by \in Adds
      BY <2>1, <2>2
    <3> QED BY <3>1, <3>2, <3>3, <1>1
  <2>3. \A c \in Flying' : add'[c].answer = "none" /\ add'[c].at \in {"full", "insert", "select", "failed"}
    BY <1>1, <1>f, <1>t DEF Batches
  <2>4. \A c, d \in inserting' :
          c # d => c.rows \cap d.rows = {} /\ (c.by = d.by => c.by = NoCaller)
    BY <1>u, <1>t DEF Batches
  <2> QED BY <2>1, <2>2, <2>3, <2>4, <1>u DEF Batches
<1>4. RowsHold'
  <2> SUFFICES ASSUME NEW c \in Adds
               PROVE  /\ add'[c].at = "none" => add'[c].answer = "none"
                      /\ add'[c].at = "handled" => add'[c].answer = "ok"
                      /\ add'[c].answer = "ok" => rows'[add'[c].event] >= 1
    BY DEF RowsHold
  <2>e. add[c].event \in Facts /\ add'[c].event = add[c].event
    BY <1>t, <1>1 DEF WriterTypes, AddStates
  <2>1. add'[c].at \in {"none", "handled"} => add'[c].at = add[c].at /\ c \notin b.rows
    <3>1. c \in b.rows => add[c].at \in {"full", "insert", "select", "failed"}
      BY <1>x, <1>t DEF Batches
    <3> QED BY <1>1, <3>1
  <2>2. ASSUME add'[c].answer = "ok" PROVE rows'[add[c].event] >= 1
    <3>1. CASE c \notin b.rows
      <4>1. rows[add[c].event] >= 1
        BY <2>2, <3>1, <1>1, <1>t DEF RowsHold
      <4> QED BY <4>1, <2>e, <1>g
    <3>2. CASE c \in b.rows
      <4> DEFINE e == add[c].event
                 k == Cardinality(Part(e))
      <4>1. stored
        BY <1>0, <1>1, <2>2, <3>2
      <4>2. c \in Part(e)
        BY <3>2
      <4>3. k # 0
        BY <4>2, <1>p, FS_EmptySet
      <4>4. k \in Nat /\ rows[e] \in Nat /\ rows'[e] = rows[e] + k
        BY <4>1, <1>p, <1>r, <1>g, <2>e
      <4> HIDE DEF k, e
      <4>5. rows'[e] >= 1
        BY <4>3, <4>4
      <4> QED BY <4>5 DEF e
    <3> QED BY <3>1, <3>2
  <2> QED BY <2>e, <2>1, <2>2, <1>1, <1>t DEF RowsHold
<1>5. TimersCounted'
  <2>1. NotAdded' = NotAdded
    <3>1. \A c \in Adds : add'[c].at = "none" <=> add[c].at = "none"
      BY <1>1, <1>by, <1>x DEF Writer!WriterAssumption
    <3> QED BY <3>1 DEF NotAdded
  <2> QED BY <2>1, <1>u, <1>t DEF TimersCounted
<1>6. Writer!RowsAreFlushed'
  <2>1. \A c \in Adds : add[c].at = "full" => add'[c].at = "full"
    BY <1>1, <1>by, <1>x DEF Writer!WriterAssumption
  <2> QED BY <2>1, <1>u DEF Writer!RowsAreFlushed
<1>7. ASSUME NEW e \in Facts PROVE Counted(e)'
  <2> DEFINE n == Cardinality(FlyingOf(e))
             m == Cardinality(FlyingOf(e)')
             k == Cardinality(Part(e))
             l == IF Live(e) THEN 0 ELSE 1
             q == IF Live(e)' THEN 0 ELSE 1
  <2>1. FlyingOf(e) = FlyingOf(e)' \cup Part(e) /\ FlyingOf(e)' \cap Part(e) = {}
    <3>1. FlyingOf(e)' = {c \in Flying \ b.rows : add[c].event = e}
      BY <1>1, <1>f DEF FlyingOf
    <3> QED BY <3>1, <1>x DEF FlyingOf
  <2>2. IsFiniteSet(FlyingOf(e)') /\ m \in Nat
    BY <2>1, <1>p, FS_Subset, FS_CardinalityType
  <2>3. n = m + k
    <3>1. Cardinality(FlyingOf(e)' \cup Part(e)) =
            Cardinality(FlyingOf(e)') + Cardinality(Part(e)) - Cardinality(FlyingOf(e)' \cap Part(e))
      BY <2>2, <1>p, FS_Union
    <3>2. n = m + k - 0
      BY <2>1, <3>1, FS_EmptySet
    <3>3. m \in Nat /\ k \in Nat
      BY <2>2, <1>p
    <3> HIDE DEF n, m, k
    <3> QED BY <3>2, <3>3
  <2>4. rows[e] \in Nat /\ rowFaults \in Nat /\ k \in Nat
    <3>1. rowFaults \in 0..MaxFaults /\ MaxFaults \in Nat
      BY <1>t DEF WriterTypes, Writer!WriterAssumption
    <3>2. rowFaults \in Nat
      BY <3>1
    <3> QED BY <3>2, <1>p, <1>g
  <2>5. rows[e] + n + l <= 1 + rowFaults
    BY DEF Counted
  <2>6. Counted(e)' <=> rows'[e] + m + q <= 1 + rowFaults'
    BY DEF Counted
  <2>7. rows'[e] = rows[e] + (IF stored THEN k ELSE 0)
    BY <1>r
  <2>8. l \in {0, 1} /\ q \in {0, 1} /\ (answer = "ok" => q <= l)
    <3>1. ASSUME answer = "ok", Live(e) PROVE Live(e)'
      <4>1. PICK c \in Adds :
              /\ add[c].event = e
              /\ \/ add[c].at = "handled"
                 \/ add[c].at \in {"full", "insert", "select"} /\ add[c].answer # "error"
        BY <3>1 DEF Live
      <4>2. add'[c].at = add[c].at \/ (c = b.by /\ add[c].at = "insert" /\ add'[c].at = "select")
        BY <1>1, <1>by, <1>x DEF Writer!WriterAssumption
      <4>3. add[c].answer # "error" => add'[c].answer # "error"
        BY <3>1, <1>1
      <4> QED BY <4>1, <4>2, <4>3, <1>1 DEF Live
    <3> QED BY <3>1
  <2>9. answer = "ok" => stored
    BY <1>0
  <2> HIDE DEF n, m, k, l, q
  <2>10. rows'[e] + m + q <= 1 + rowFaults'
    <3>1. CASE answer = "ok"
      BY <3>1, <2>2, <2>3, <2>4, <2>5, <2>7, <2>8, <2>9, <1>a
    <3>2. CASE answer # "ok"
      BY <3>2, <2>2, <2>3, <2>4, <2>5, <2>7, <2>8, <1>a
    <3> QED BY <3>1, <3>2
  <2> QED BY <2>6, <2>10
<1> QED BY <1>2, <1>3, <1>4, <1>5, <1>6, <1>7

\* The process dies: of an event the table gets at most what was on its way there.
LEMMA CrashStep ==
    ASSUME Writer!WriterAssumption, WriterInv, Writer!Crash
    PROVE  WriterInv'
<1> USE DEF WriterInv
<1>t. WriterTypes /\ Batches /\ RowsHold /\ TimersCounted
  OBVIOUS
<1>0. PICK again \in SUBSET {c \in Adds : add[c].at = "handled"} :
        add' = [c \in Adds |->
                   IF add[c].at \in {"full", "insert", "select"} \/ c \in again
                   THEN [add[c] EXCEPT !.at = "failed"] ELSE add[c]]
  BY DEF Writer!Crash
<1>s. PICK gone \in SUBSET inserting :
        rows' = [e \in Facts |-> rows[e] +
                    Writer!Cardinality({c \in UNION {b.rows : b \in gone} : add[c].event = e})]
  BY DEF Writer!Crash
<1>u. /\ pending' = {} /\ inserting' = {} /\ timer' = FALSE /\ fired' = 0
      /\ rowFaults' \in 0..MaxFaults /\ rowFaults' = rowFaults + 1
  BY <1>t, RowFault DEF Writer!Crash
<1>1. /\ add' \in [Adds -> AddStates]
      /\ \A c \in Adds : /\ add'[c].event = add[c].event /\ add'[c].answer = add[c].answer
                         /\ add'[c].at = "none" <=> add[c].at = "none"
                         /\ add'[c].at = "handled" => add[c].at = "handled"
  BY <1>0, <1>t DEF WriterTypes, AddStates, Writer!Ended
<1>f. Flying' = {} /\ Flying \subseteq Adds
  BY <1>u, <1>t DEF Flying, WriterTypes
\* The rows of one event that reached the table.
<1> DEFINE Part(e) == {c \in UNION {b.rows : b \in gone} : add[c].event = e}
<1>p. ASSUME NEW e \in Facts
      PROVE  /\ Cardinality(Part(e)) \in Nat /\ Cardinality(FlyingOf(e)) \in Nat
             /\ Cardinality(Part(e)) <= Cardinality(FlyingOf(e))
             /\ rows'[e] = rows[e] + Cardinality(Part(e)) /\ rows[e] \in Nat
  <2>1. Part(e) \subseteq FlyingOf(e) /\ FlyingOf(e) \in SUBSET Adds
    BY <1>f DEF FlyingOf, Flying
  <2>2. IsFiniteSet(FlyingOf(e)) /\ Cardinality(FlyingOf(e)) \in Nat
    BY <2>1, WriterSizes
  <2>3. Cardinality(Part(e)) \in Nat /\ Cardinality(Part(e)) <= Cardinality(FlyingOf(e))
    BY <2>1, <2>2, FS_Subset, FS_CardinalityType
  <2>4. rows'[e] = rows[e] + Cardinality(Part(e)) /\ rows[e] \in Nat
    BY <1>s, <1>t, WriterSizes DEF WriterTypes
  <2> QED BY <2>2, <2>3, <2>4
<1>g. ASSUME NEW e \in Facts PROVE rows'[e] \in Nat /\ rows'[e] >= rows[e]
  <2> DEFINE k == Cardinality(Part(e))
  <2>1. k \in Nat /\ rows[e] \in Nat /\ rows'[e] = rows[e] + k
    BY <1>p
  <2> HIDE DEF k
  <2> QED BY <2>1
<1>2. WriterTypes'
  <2>1. rows' = [e \in Facts |-> rows'[e]]
    BY <1>s
  <2>2. rows' \in [Facts -> Nat]
    BY <2>1, <1>g
  <2> QED BY <2>2, <1>1, <1>u DEF WriterTypes
<1>3. Batches' /\ Writer!RowsAreFlushed'
  BY <1>u, <1>f DEF Batches, Writer!RowsAreFlushed
<1>4. RowsHold'
  <2> SUFFICES ASSUME NEW c \in Adds
               PROVE  /\ add'[c].at = "none" => add'[c].answer = "none"
                      /\ add'[c].at = "handled" => add'[c].answer = "ok"
                      /\ add'[c].answer = "ok" => rows'[add'[c].event] >= 1
    BY DEF RowsHold
  <2>1. add[c].event \in Facts /\ (add[c].answer = "ok" => rows[add[c].event] >= 1)
    BY <1>t DEF WriterTypes, AddStates, RowsHold
  <2>2. rows[add[c].event] \in Nat /\ rows'[add[c].event] \in Nat
        /\ rows'[add[c].event] >= rows[add[c].event]
    BY <2>1, <1>g, <1>p
  <2>3. add'[c].answer = "ok" => rows'[add'[c].event] >= 1
    BY <2>1, <2>2, <1>1
  <2> QED BY <2>3, <1>1, <1>t DEF RowsHold
<1>5. TimersCounted'
  <2> DEFINE n == Cardinality(NotAdded)
             a == Cardinality(Adds)
  <2>1. n \in Nat /\ a \in Nat /\ fired \in Nat /\ fired + (IF timer THEN 1 ELSE 0) + n <= a
    BY <1>t, WriterSizes DEF NotAdded, TimersCounted, WriterTypes
  <2>2. NotAdded' = NotAdded
    BY <1>1 DEF NotAdded
  <2>3. TimersCounted' <=> 0 + 0 + n <= a
    BY <1>u, <2>2 DEF TimersCounted
  <2> HIDE DEF n, a
  <2> QED BY <2>1, <2>3
<1>6. ASSUME NEW e \in Facts PROVE Counted(e)'
  <2> DEFINE n == Cardinality(FlyingOf(e))
             m == Cardinality(FlyingOf(e)')
             k == Cardinality(Part(e))
             l == IF Live(e) THEN 0 ELSE 1
             q == IF Live(e)' THEN 0 ELSE 1
  <2>1. m = 0
    <3>1. FlyingOf(e)' = {}
      BY <1>f DEF FlyingOf
    <3> QED BY <3>1, FS_EmptySet
  <2>2. n \in Nat /\ k \in Nat /\ k <= n /\ rows[e] \in Nat /\ rows'[e] = rows[e] + k
    BY <1>p
  <2>3. rows[e] + n + l <= 1 + rowFaults /\ l \in {0, 1} /\ q \in {0, 1}
    BY DEF Counted
  <2>4. Counted(e)' <=> rows'[e] + m + q <= 1 + rowFaults'
    BY DEF Counted
  <2>5. rowFaults \in Nat
    <3>1. rowFaults \in 0..MaxFaults /\ MaxFaults \in Nat
      BY <1>t DEF WriterTypes, Writer!WriterAssumption
    <3> QED BY <3>1
  <2> HIDE DEF n, m, k, l, q
  <2> QED BY <1>u, <2>1, <2>2, <2>3, <2>4, <2>5
<1> QED BY <1>2, <1>3, <1>4, <1>5, <1>6

\* A step of the writer, and a stutter, keep what is known.
LEMMA WriterStep ==
    ASSUME Writer!WriterAssumption, WriterInv, Writer!Next \/ UNCHANGED writerVars
    PROVE  WriterInv'
<1>t. WriterTypes
  BY DEF WriterInv
<1>n. rowFaults \in 0..MaxFaults
  BY <1>t DEF WriterTypes
<1>1. CASE UNCHANGED writerVars
  BY <1>1 DEF writerVars, WriterInv, WriterTypes, Batches, RowsHold, TimersCounted, NotAdded,
              Writer!RowsAreFlushed, Counted, FlyingOf, Flying, Live
<1>2. ASSUME NEW c \in Adds, Writer!Add(c) PROVE WriterInv'
  <2>0. add[c].at = "none" /\ UNCHANGED <<fired, inserting, rows>>
    BY <1>2 DEF Writer!Add
  <2>f. /\ rowFaults' \in 0..MaxFaults
        /\ \/ rowFaults' = rowFaults /\ ~Writer!UnderWay(add[c].event, c)
           \/ rowFaults' = rowFaults + 1
    <3>1. CASE Writer!UnderWay(add[c].event, c)
      BY <3>1, <1>2, <1>t, RowFault DEF Writer!Add, Writer!Delivered
    <3>2. CASE ~Writer!UnderWay(add[c].event, c)
      BY <3>2, <1>2, <1>n DEF Writer!Add, Writer!Delivered
    <3> QED BY <3>1, <3>2
  <2>1. CASE add[c].event \in Broken
    <3>1. add' = [add EXCEPT ![c].at = "refused"] /\ UNCHANGED <<pending, timer>>
      BY <1>2, <2>1 DEF Writer!Add
    <3> QED BY <2>0, <2>f, <3>1, PlaceStep DEF Writer!Ended
  <2>2. CASE add[c].event \notin Broken
    <3>1. /\ pending' = pending \cup {c}
          /\ timer' = (timer \/ Writer!Cardinality(pending') = 1)
          /\ add' = [add EXCEPT ![c].at =
                        IF Writer!Cardinality(pending') >= MaxBatch THEN "full" ELSE "select"]
      BY <1>2, <2>2 DEF Writer!Add
    <3>2. PICK at \in {"full", "select"} : add' = [add EXCEPT ![c].at = at]
      BY <3>1
    <3> QED BY <2>0, <2>f, <3>1, <3>2, AddedStep
  <2> QED BY <2>1, <2>2
<1>3. ASSUME NEW c \in Adds, Writer!FlushFull(c) PROVE WriterInv'
  BY <1>3, TakeStep DEF Writer!FlushFull
<1>4. ASSUME NEW c \in Adds, Writer!Return(c) PROVE WriterInv'
  <2>1. /\ add[c].at = "select" /\ add[c].answer # "none"
        /\ UNCHANGED <<pending, timer, fired, inserting, rows, rowFaults>>
    BY <1>4 DEF Writer!Return
  <2>2. add[c].answer \in {"none", "ok", "error"}
    BY <1>t DEF WriterTypes, AddStates
  <2>3. CASE add[c].answer = "ok"
    <3>1. add' = [add EXCEPT ![c].at = "handled"]
      BY <1>4, <2>3 DEF Writer!Return
    <3> QED BY <2>1, <2>3, <3>1, <1>n, PlaceStep DEF Writer!Ended
  <2>4. CASE add[c].answer # "ok"
    <3>1. add' = [add EXCEPT ![c].at = "failed"] /\ add[c].answer = "error"
      BY <1>4, <2>1, <2>2, <2>4 DEF Writer!Return
    <3> QED BY <2>1, <3>1, <1>n, PlaceStep DEF Writer!Ended
  <2> QED BY <2>3, <2>4
<1>5. ASSUME NEW c \in Adds, Writer!Cancelled(c) PROVE WriterInv'
  <2>1. rowFaults' \in 0..MaxFaults /\ rowFaults' = rowFaults + 1
    BY <1>5, <1>t, RowFault DEF Writer!Cancelled
  <2>2. /\ add[c].at = "select" /\ add' = [add EXCEPT ![c].at = "failed"]
        /\ UNCHANGED <<pending, timer, fired, inserting, rows>>
    BY <1>5 DEF Writer!Cancelled
  <2> QED BY <2>1, <2>2, PlaceStep DEF Writer!Ended
<1>6. CASE Writer!Fire
  BY <1>6, FireStep
<1>7. CASE Writer!FlushTimer
  BY <1>7, TakeStep DEF Writer!FlushTimer
<1>8. ASSUME NEW b \in inserting, Writer!Insert(b) PROVE WriterInv'
  BY <1>8, InsertStep
<1>9. CASE Writer!Crash
  BY <1>9, CrashStep
<1> QED BY <1>1, <1>2, <1>3, <1>4, <1>5, <1>6, <1>7, <1>8, <1>9 DEF Writer!Next, Writer!Flushing

\* It holds at the start, and gives the types and the promises.
LEMMA WriterKnown ==
    ASSUME Writer!WriterAssumption
    PROVE  /\ Writer!Init => WriterInv
           /\ WriterInv => Writer!TypeOK /\ Writer!HandledIsStored /\ Writer!RowsAreFlushed
<1>1. ASSUME Writer!Init PROVE WriterInv
  <2>0. 0 \in 0..MaxFaults
    BY DEF Writer!WriterAssumption
  <2>1. \A c \in Adds : add[c].at = "none" /\ add[c].answer = "none"
    BY <1>1 DEF Writer!Init
  <2>2. WriterTypes
    BY <1>1, <2>0 DEF Writer!Init, WriterTypes, AddStates
  <2>3. Flying = {} /\ pending = {} /\ inserting = {}
    BY <1>1 DEF Writer!Init, Flying
  <2>4. Batches /\ RowsHold /\ Writer!RowsAreFlushed
    BY <2>1, <2>3 DEF Batches, RowsHold, Writer!RowsAreFlushed
  <2>5. TimersCounted
    <3>1. NotAdded = Adds /\ fired = 0 /\ timer = FALSE
      BY <1>1, <2>1 DEF NotAdded, Writer!Init
    <3>2. Cardinality(Adds) \in Nat
      BY WriterSizes
    <3> QED BY <3>1, <3>2 DEF TimersCounted
  <2>6. ASSUME NEW e \in Facts PROVE Counted(e)
    <3>1. FlyingOf(e) = {} /\ rows[e] = 0 /\ rowFaults = 0
      BY <1>1, <2>3 DEF FlyingOf, Writer!Init
    <3> QED BY <3>1, FS_EmptySet DEF Counted
  <2> QED BY <2>2, <2>4, <2>5, <2>6 DEF WriterInv
<1>2. ASSUME WriterInv PROVE Writer!TypeOK /\ Writer!HandledIsStored
  <2>t. WriterTypes /\ RowsHold /\ TimersCounted
    BY <1>2 DEF WriterInv
  <2>1. fired \in 0..Writer!Cardinality(Adds)
    <3> DEFINE n == Cardinality(NotAdded)
               a == Cardinality(Adds)
    <3>1. n \in Nat /\ a \in Nat /\ fired \in Nat
          /\ fired + (IF timer THEN 1 ELSE 0) + n <= a
      BY <2>t, WriterSizes DEF TimersCounted, NotAdded, WriterTypes
    <3>2. Writer!Cardinality(Adds) = a
      BY WriterSizes
    <3> HIDE DEF n, a
    <3>3. fired \in 0..a
      BY <3>1
    <3> QED BY <3>2, <3>3
  <2>2. Writer!TypeOK
    BY <2>t, <2>1 DEF WriterTypes, AddStates, Writer!TypeOK
  <2>3. ASSUME NEW e \in Facts PROVE rows[e] <= 1 + rowFaults
    <3> DEFINE n == Cardinality(FlyingOf(e))
    <3>1. FlyingOf(e) \in SUBSET Adds
      BY <2>t DEF FlyingOf, Flying, WriterTypes
    <3>2. n \in Nat /\ rows[e] \in Nat /\ rowFaults \in Nat
      BY <3>1, <2>t, WriterSizes DEF WriterTypes, Writer!WriterAssumption
    <3>3. rows[e] + n + (IF Live(e) THEN 0 ELSE 1) <= 1 + rowFaults
      BY <1>2 DEF WriterInv, Counted
    <3> HIDE DEF n
    <3> QED BY <3>2, <3>3
  <2>4. ASSUME NEW c \in Adds, add[c].at = "handled" PROVE rows[add[c].event] >= 1
    BY <2>t, <2>4 DEF RowsHold
  <2> QED BY <2>2, <2>3, <2>4 DEF Writer!HandledIsStored
<1> QED BY <1>1, <1>2 DEF WriterInv

-----------------------------------------------------------------------------
(* The life of a process.                                                      *)

IsList(l) == Len(l) \in Nat /\ DOMAIN l = 1..Len(l)

\* Each service opens resources, and joins tasks, in an order.
LEMMA ShapesAreShapes ==
    ASSUME NEW s \in Life!Known
    PROVE  /\ IsList(Life!Main(s))
           /\ IsList(Life!App(s).joins)
           /\ Life!App(s).grpc = "none" <=> s \in {"orderWorker", "thumbnail"}
<1>1. /\ IsList(Life!Wallet)
      /\ IsList(Life!Order)
      /\ IsList(Life!OrderWorker)
      /\ IsList(Life!Search)
      /\ IsList(Life!Analytics)
      /\ IsList(Life!Media)
      /\ IsList(Life!Catalog)
      /\ IsList(Life!Thumbnail)
  BY DEF IsList, Life!Wallet, Life!Order, Life!OrderWorker, Life!Search, Life!Analytics,
         Life!Media, Life!Catalog, Life!Thumbnail
<1>2. /\ IsList(Life!WalletRun.joins)
      /\ IsList(Life!OrderRun.joins)
      /\ IsList(Life!OrderWorkerRun.joins)
      /\ IsList(Life!SearchRun.joins)
      /\ IsList(Life!AnalyticsRun.joins)
      /\ IsList(Life!MediaRun.joins)
      /\ IsList(Life!CatalogRun.joins)
      /\ IsList(Life!ThumbnailRun.joins)
  BY DEF IsList, Life!Shape, Life!WalletRun, Life!OrderRun, Life!OrderWorkerRun, Life!SearchRun,
         Life!AnalyticsRun, Life!MediaRun, Life!CatalogRun, Life!ThumbnailRun
<1>3. \A w \in {Life!WalletRun, Life!OrderRun, Life!SearchRun, Life!AnalyticsRun, Life!MediaRun,
                   Life!CatalogRun} : w.grpc # "none"
  BY DEF Life!Shape, Life!WalletRun, Life!OrderRun, Life!SearchRun, Life!AnalyticsRun, Life!MediaRun,
         Life!CatalogRun
<1>4. Life!OrderWorkerRun.grpc = "none" /\ Life!ThumbnailRun.grpc = "none"
  BY DEF Life!Shape, Life!OrderWorkerRun, Life!ThumbnailRun
<1>5. s \in {"wallet", "order", "orderWorker", "search", "analytics", "media", "catalog", "thumbnail"}
  BY DEF Life!Known
<1>6. CASE s = "wallet"
  BY <1>1, <1>2, <1>3, <1>4, <1>6 DEF Life!Main, Life!App
<1>7. CASE s = "order"
  BY <1>1, <1>2, <1>3, <1>4, <1>7 DEF Life!Main, Life!App
<1>8. CASE s = "orderWorker"
  BY <1>1, <1>2, <1>3, <1>4, <1>8 DEF Life!Main, Life!App
<1>9. CASE s = "search"
  BY <1>1, <1>2, <1>3, <1>4, <1>9 DEF Life!Main, Life!App
<1>10. CASE s = "analytics"
  BY <1>1, <1>2, <1>3, <1>4, <1>10 DEF Life!Main, Life!App
<1>11. CASE s = "media"
  BY <1>1, <1>2, <1>3, <1>4, <1>11 DEF Life!Main, Life!App
<1>12. CASE s = "catalog"
  BY <1>1, <1>2, <1>3, <1>4, <1>12 DEF Life!Main, Life!App
<1>13. CASE s = "thumbnail"
  BY <1>1, <1>2, <1>3, <1>4, <1>13 DEF Life!Main, Life!App
<1> QED BY <1>5, <1>6, <1>7, <1>8, <1>9, <1>10, <1>11, <1>12, <1>13

LifeTypes ==
    /\ service \in Processes
    /\ phase \in {"open", "run", "drain", "http", "grpc", "join", "close", "exited"}
    /\ opened \in 0..Len(Life!Main(service))
    /\ signalled \in BOOLEAN /\ ready \in BOOLEAN /\ rang \in BOOLEAN
    /\ server \in [Life!Servers -> {"down", "up", "failed", "stopped"}]
    /\ active \subseteq Life!Servers
    /\ task \in [Life!Tasks -> {"none", "running", "returned"}]
    /\ joined \in 0..Len(Life!Joins)
    /\ expired \subseteq Life!Servers \cup Life!Tasks
    /\ failures \in 0..MaxFailures

\* Before it runs, there is nothing to wait for; a worker has no servers.
Begun ==
    /\ phase = "open" =>
          /\ joined = 0 /\ active = {} /\ \A s \in Life!Servers : server[s] # "up"
          /\ \A t \in Life!Tasks : task[t] = "none"
    /\ ~Life!HasServers => active = {} /\ \A s \in Life!Servers : server[s] # "up"
\* A server that was stopped takes no requests, and those it had have ended or are late.
ServersStopped ==
    /\ phase \in {"http", "grpc", "join", "close", "exited"} => server["http"] # "up"
    /\ phase = "grpc" => server["grpc"] # "up"
    /\ phase = "grpc" => active \subseteq expired \cup {"grpc"}
    /\ phase \in {"join", "close", "exited"} =>
          active \subseteq expired /\ \A s \in Life!Servers : server[s] # "up"
EndedOrLate(t) == task[t] # "running" \/ t \in expired
\* The tasks that were joined have ended or are late, and so has all, after the joins.
TasksJoined ==
    /\ \A k \in 1..Len(Life!Joins) : k <= joined => EndedOrLate(Life!Joins[k])
    /\ phase \in {"close", "exited"} =>
          \A k \in 1..Len(Life!Joins) : task[Life!Joins[k]] = "running" =>
              \E j \in 1..Len(Life!Joins) : Life!Joins[j] \in expired
LifeInv == LifeTypes /\ Begun /\ ServersStopped /\ TasksJoined

LifeSets ==
    /\ Len(Life!Joins) \in Nat /\ DOMAIN Life!Joins = 1..Len(Life!Joins)
    /\ Len(Life!Main(service)) \in Nat
    /\ \A k \in 1..Len(Life!Joins) : Life!Joins[k] \in Life!Tasks
    /\ "http" \in Life!Servers
    /\ Life!Servers \subseteq {"http", "grpc"}
    /\ ~Life!HasServers => Life!Servers = {"http"}

\* What the shape of the service says of its servers and its tasks.
LEMMA SetsOfLife ==
    ASSUME Life!LifecycleAssumption, service \in Processes
    PROVE  LifeSets
<1>1. service \in Life!Known
  BY DEF Life!LifecycleAssumption
<1>2. /\ IsList(Life!Main(service)) /\ IsList(Life!Joins)
      /\ Life!App(service).grpc = "none" <=> service \in {"orderWorker", "thumbnail"}
  BY <1>1, ShapesAreShapes DEF Life!Joins
<1>3. "http" \in Life!Servers /\ Life!Servers \subseteq {"http", "grpc"}
      /\ (~Life!HasServers => Life!Servers = {"http"})
  BY <1>2 DEF Life!Servers, Life!HasServers
<1>4. Len(Life!Main(service)) \in Nat /\ Len(Life!Joins) \in Nat /\ DOMAIN Life!Joins = 1..Len(Life!Joins)
  BY <1>2 DEF IsList
<1>5. \A k \in 1..Len(Life!Joins) : Life!Joins[k] \in Life!Tasks
  BY <1>4 DEF Life!Tasks, Life!ToSet
<1> QED BY <1>3, <1>4, <1>5 DEF LifeSets

\* What of a process is the same in every step.
LEMMA SameService ==
    ASSUME service' = service
    PROVE  /\ Life!Servers' = Life!Servers /\ Life!Tasks' = Life!Tasks /\ Life!Joins' = Life!Joins
           /\ Life!HasServers' = Life!HasServers
           /\ Life!Main(service)' = Life!Main(service)
BY DEF Life!Servers, Life!Tasks, Life!Joins, Life!HasServers

\* A step keeps the types.
LEMMA LifeTypesStep ==
    ASSUME Life!LifecycleAssumption, LifeTypes, Life!Next \/ UNCHANGED lifeVars
    PROVE  LifeTypes' /\ service' = service
<1> USE DEF LifeTypes
<1>s. LifeSets /\ MaxFailures \in Nat
  BY SetsOfLife DEF Life!LifecycleAssumption
<1>n. opened \in Nat /\ joined \in Nat /\ failures \in Nat
  BY <1>s DEF LifeSets
<1>0. service' = service
  BY DEF Life!Next, Life!Process, Life!Keep, Life!Open, Life!Start, Life!Leave, Life!Drain, Life!HttpDown,
         Life!GrpcDown, Life!JoinReturned, Life!JoinExpired, Life!JoinsOver, Life!Close, Life!Signal,
         Life!ServerFails, Life!Accept, Life!Finish, Life!TaskReturns, lifeVars
<1>v. /\ Life!Servers' = Life!Servers /\ Life!Tasks' = Life!Tasks /\ Life!Joins' = Life!Joins
      /\ Life!HasServers' = Life!HasServers
      /\ Life!Main(service)' = Life!Main(service)
  BY <1>0, SameService
<1>f. ASSUME Life!Fail PROVE failures' \in 0..MaxFailures
  BY <1>f, <1>s, <1>n DEF Life!Fail
<1> SUFFICES LifeTypes'
  BY <1>0
<1> USE DEF Life!Keep, Life!Goto, Life!Expire, Life!Next1, Life!Stopped
<1>1. CASE UNCHANGED lifeVars
  BY <1>1, <1>v DEF lifeVars
<1>2. CASE Life!Open
  <2>1. opened + 1 \in 0..Len(Life!Main(service))
    BY <1>2, <1>n, <1>s DEF Life!Open, LifeSets
  <2> QED BY <1>2, <1>v, <1>f, <2>1 DEF Life!Open
<1>3. CASE Life!Start
  BY <1>3, <1>v DEF Life!Start
<1>4. CASE Life!Leave
  BY <1>4, <1>v DEF Life!Leave
<1>5. CASE Life!Drain
  BY <1>5, <1>v DEF Life!Drain
<1>6. CASE Life!HttpDown
  BY <1>6, <1>v DEF Life!HttpDown
<1>7. CASE Life!GrpcDown
  BY <1>7, <1>v DEF Life!GrpcDown
<1>8. ASSUME joined < Len(Life!Joins)
      PROVE  joined + 1 \in 0..Len(Life!Joins) /\ Life!Joins[joined + 1] \in Life!Tasks
  <2>1. joined + 1 \in 0..Len(Life!Joins) /\ joined + 1 \in 1..Len(Life!Joins)
    BY <1>8, <1>n, <1>s DEF LifeSets
  <2> QED BY <2>1, <1>s DEF LifeSets
<1>9. CASE Life!JoinReturned
  BY <1>9, <1>8, <1>v DEF Life!JoinReturned
<1>10. CASE Life!JoinExpired
  BY <1>10, <1>8, <1>v DEF Life!JoinExpired
<1>11. CASE Life!JoinsOver
  BY <1>11, <1>v DEF Life!JoinsOver
<1>12. CASE Life!Close
  <2>1. opened # 0 => opened - 1 \in 0..Len(Life!Main(service))
    BY <1>n, <1>s DEF LifeSets
  <2> QED BY <1>12, <1>v, <2>1 DEF Life!Close
<1>13. CASE Life!Signal
  BY <1>13, <1>v DEF Life!Signal
<1>14. ASSUME NEW s \in Life!Servers, Life!ServerFails(s) \/ Life!Accept(s) \/ Life!Finish(s)
       PROVE  LifeTypes'
  BY <1>14, <1>v, <1>f DEF Life!ServerFails, Life!Accept, Life!Finish
<1>15. ASSUME NEW t \in Life!Tasks, Life!TaskReturns(t)
       PROVE  LifeTypes'
  BY <1>15, <1>v, <1>f DEF Life!TaskReturns
<1> QED BY <1>1, <1>2, <1>3, <1>4, <1>5, <1>6, <1>7, <1>9, <1>10, <1>11, <1>12, <1>13, <1>14, <1>15
        DEF Life!Next, Life!Process

\* A step keeps what is known of the servers.
LEMMA ServersStep ==
    ASSUME Life!LifecycleAssumption, LifeInv, Life!Next \/ UNCHANGED lifeVars
    PROVE  Begun' /\ ServersStopped'
<1> USE DEF LifeInv, Begun, ServersStopped
<1>s. LifeSets /\ LifeTypes
  BY SetsOfLife DEF LifeTypes
<1>v. /\ Life!Servers' = Life!Servers /\ Life!Tasks' = Life!Tasks /\ Life!Joins' = Life!Joins
      /\ Life!HasServers' = Life!HasServers
  BY LifeTypesStep, SameService
<1> USE DEF Life!Keep, Life!Goto, Life!Expire, Life!Next1, Life!Stopped, LifeTypes, LifeSets
<1>1. CASE UNCHANGED lifeVars
  BY <1>1, <1>v DEF lifeVars
<1>2. CASE Life!Open
  BY <1>2, <1>v, <1>s DEF Life!Open
<1>3. CASE Life!Start
  BY <1>3, <1>v, <1>s DEF Life!Start
<1>4. CASE Life!Leave
  BY <1>4, <1>v, <1>s DEF Life!Leave
<1>5. CASE Life!Drain
  BY <1>5, <1>v, <1>s DEF Life!Drain
<1>6. CASE Life!HttpDown
  BY <1>6, <1>v, <1>s DEF Life!HttpDown
<1>7. CASE Life!GrpcDown
  BY <1>7, <1>v, <1>s DEF Life!GrpcDown
<1>9. CASE Life!JoinReturned
  BY <1>9, <1>v, <1>s DEF Life!JoinReturned
<1>10. CASE Life!JoinExpired
  BY <1>10, <1>v, <1>s DEF Life!JoinExpired
<1>11. CASE Life!JoinsOver
  BY <1>11, <1>v, <1>s DEF Life!JoinsOver
<1>12. CASE Life!Close
  BY <1>12, <1>v, <1>s DEF Life!Close
<1>13. CASE Life!Signal
  BY <1>13, <1>v, <1>s DEF Life!Signal
<1>14. ASSUME NEW s \in Life!Servers, Life!ServerFails(s) \/ Life!Accept(s) \/ Life!Finish(s)
       PROVE  Begun' /\ ServersStopped'
  BY <1>14, <1>v, <1>s DEF Life!ServerFails, Life!Accept, Life!Finish
<1>15. ASSUME NEW t \in Life!Tasks, Life!TaskReturns(t)
       PROVE  Begun' /\ ServersStopped'
  BY <1>15, <1>v, <1>s DEF Life!TaskReturns
<1> QED BY <1>1, <1>2, <1>3, <1>4, <1>5, <1>6, <1>7, <1>9, <1>10, <1>11, <1>12, <1>13, <1>14, <1>15
        DEF Life!Next, Life!Process

\* A step keeps what is known of the tasks.
LEMMA TasksStep ==
    ASSUME Life!LifecycleAssumption, LifeInv, Life!Next \/ UNCHANGED lifeVars
    PROVE  TasksJoined'
<1> USE DEF LifeInv, TasksJoined, EndedOrLate
<1>s. LifeSets /\ LifeTypes
  BY SetsOfLife DEF LifeTypes
<1>v. /\ Life!Servers' = Life!Servers /\ Life!Tasks' = Life!Tasks /\ Life!Joins' = Life!Joins
      /\ Life!HasServers' = Life!HasServers
  BY LifeTypesStep, SameService
<1>n. joined \in Nat /\ joined <= Len(Life!Joins) /\ Len(Life!Joins) \in Nat
  BY <1>s DEF LifeSets, LifeTypes
<1> DEFINE n == Len(Life!Joins)
           J(k) == Life!Joins[k]
<1>k. \A k \in 1..n : J(k) \in Life!Tasks
  BY <1>s DEF LifeSets
<1>t. \A t \in Life!Tasks : task[t] \in {"none", "running", "returned"}
  BY <1>s DEF LifeTypes
<1>u. n' = n /\ \A k \in 1..n : J(k)' = J(k)
  BY <1>v
<1> SUFFICES /\ \A k \in 1..n : k <= joined' => task'[J(k)] # "running" \/ J(k) \in expired'
             /\ phase' \in {"close", "exited"} =>
                  \A k \in 1..n : task'[J(k)] = "running" => \E j \in 1..n : J(j) \in expired'
  BY <1>v
<1>h. /\ \A k \in 1..n : k <= joined => task[J(k)] # "running" \/ J(k) \in expired
      /\ phase \in {"close", "exited"} =>
            \A k \in 1..n : task[J(k)] = "running" => \E j \in 1..n : J(j) \in expired
  OBVIOUS
<1> HIDE DEF J, n
<1> USE DEF Life!Keep, Life!Goto, Life!Expire, Life!Next1
<1>1. CASE UNCHANGED lifeVars
  BY <1>1, <1>h DEF lifeVars
<1>2. CASE Life!Open
  <2>1. \A k \in 1..n : task[J(k)] = "none"
    BY <1>2, <1>k DEF Life!Open, Begun
  <2> QED BY <1>2, <1>h, <2>1 DEF Life!Open
<1>3. CASE Life!Start
  <2>1. \A t \in Life!Tasks : task[t] = "none"
    BY <1>3 DEF Life!Start, Begun
  <2>2. joined' = joined /\ expired' = expired /\ phase' = "run" /\ phase = "open"
    BY <1>3 DEF Life!Start
  <2>3. joined = 0
    BY <2>2 DEF Begun
  <2>4. \A k \in 1..n : ~(k <= joined')
    BY <2>2, <2>3
  <2> QED BY <2>2, <2>4
<1>4. CASE Life!Leave \/ Life!Drain \/ Life!HttpDown \/ Life!GrpcDown \/ Life!Signal \/ Life!Close
  BY <1>4, <1>h DEF Life!Leave, Life!Drain, Life!HttpDown, Life!GrpcDown, Life!Signal, Life!Close
<1>m. ASSUME joined < Len(Life!Joins)
      PROVE  /\ joined + 1 \in 1..n /\ J(joined + 1) = Life!Joins[joined + 1]
             /\ \A k \in 1..n : k <= joined + 1 => k <= joined \/ k = joined + 1
  BY <1>m, <1>n DEF J, n
<1>9. CASE Life!JoinReturned
  BY <1>9, <1>h, <1>m DEF Life!JoinReturned
<1>10. CASE Life!JoinExpired
  <2>1. J(joined + 1) \in expired' /\ joined + 1 \in 1..n /\ task' = task /\ expired \subseteq expired'
    BY <1>10, <1>m DEF Life!JoinExpired
  <2>2. joined' \in {joined, joined + 1}
    BY <1>10 DEF Life!JoinExpired
  <2> QED BY <2>1, <2>2, <1>h, <1>10, <1>m DEF Life!JoinExpired
<1>11. CASE Life!JoinsOver
  <2>1. \A k \in 1..n : k <= joined
    BY <1>11, <1>n DEF Life!JoinsOver, n
  <2> QED BY <1>11, <1>h, <2>1 DEF Life!JoinsOver
<1>14. ASSUME NEW s \in Life!Servers, Life!ServerFails(s) \/ Life!Accept(s) \/ Life!Finish(s)
       PROVE  UNCHANGED <<phase, joined, task, expired>>
  BY <1>14 DEF Life!ServerFails, Life!Accept, Life!Finish
<1>15. ASSUME NEW t \in Life!Tasks, Life!TaskReturns(t)
       PROVE  /\ UNCHANGED <<phase, joined, expired>>
              /\ \A u \in Life!Tasks : task'[u] = "running" => task[u] = "running"
  BY <1>15, <1>s DEF Life!TaskReturns, LifeTypes
<1> QED BY <1>1, <1>2, <1>3, <1>4, <1>9, <1>10, <1>11, <1>14, <1>15, <1>h, <1>k
        DEF Life!Next, Life!Process

\* It holds at the start, is kept, and gives the types and the promise.
LEMMA LifeStep ==
    ASSUME Life!LifecycleAssumption, LifeInv, Life!Next \/ UNCHANGED lifeVars
    PROVE  LifeInv'
BY LifeTypesStep, ServersStep, TasksStep DEF LifeInv

\* It holds at the start, and gives the types and the promise.
LEMMA LifeKnown ==
    ASSUME Life!LifecycleAssumption
    PROVE  /\ Life!Init => LifeInv
           /\ LifeInv => Life!TypeOK /\ Life!EndedBeforeClosed
<1>1. ASSUME Life!Init PROVE LifeInv
  <2>1. LifeSets
    BY <1>1, SetsOfLife DEF Life!Init
  <2>0. 0 \in 0..MaxFailures /\ 0 \in 0..Len(Life!Main(service)) /\ 0 \in 0..Len(Life!Joins)
    BY <2>1 DEF Life!LifecycleAssumption, LifeSets
  <2>2. LifeTypes
    BY <1>1, <2>0 DEF Life!Init, LifeTypes
  <2>3. Begun /\ ServersStopped
    BY <1>1, <2>1 DEF Life!Init, Begun, ServersStopped, LifeSets
  <2>4. TasksJoined
    BY <1>1, <2>1 DEF Life!Init, TasksJoined, LifeSets
  <2> QED BY <2>2, <2>3, <2>4 DEF LifeInv
<1>2. ASSUME LifeInv PROVE Life!TypeOK /\ Life!EndedBeforeClosed
  <2>1. Life!TypeOK
    BY <1>2 DEF LifeInv, LifeTypes, Life!TypeOK
  <2>2. LifeSets
    BY <1>2, SetsOfLife DEF LifeInv, LifeTypes
  <2>3. SUFFICES ASSUME NEW r \in Life!ToSet(Life!Main(service)), Life!Closed(r)
                 PROVE  /\ \A t \in Life!ToSet(Life!Joins) :
                             Life!Uses(t) = r /\ task[t] = "running" =>
                                 Life!ToSet(Life!Joins) \cap expired # {}
                        /\ active \subseteq expired
    BY <2>1 DEF Life!EndedBeforeClosed
  <2>4. phase \in {"close", "exited"}
    BY <2>3 DEF Life!Closed
  <2> QED BY <1>2, <2>2, <2>4 DEF LifeInv, ServersStopped, TasksJoined, LifeSets, Life!ToSet
<1> QED BY <1>1, <1>2

-----------------------------------------------------------------------------
(* The calls of a client. A half-open breaker began by a tick, so that only    *)
(* two generations can follow the last one that time ended.                    *)

RpcStates ==
    [at : {"none", "sent", "backoff", "done"}, sent : 0..MaxAttempts,
     generation : 0..MaxGenerations + 2,
     answer : {"none", "transport", "open"} \cup Client!Served]
BreakerStates ==
    [state : {"closed", "open", "half"}, generation : 0..MaxGenerations + 2,
     requests : Nat, failures : Nat, successes : Nat]

\* What is known of one call r, of a connection that repeats (i), or whose server
\* was out of reach (w).
RpcInv(r, i, w) ==
    /\ r \in RpcStates
    /\ r.sent > 1 \/ r.at = "backoff" => i /\ w
    /\ r.at = "backoff" => r.sent < MaxAttempts
    /\ r.at = "none" => r.sent = 0
    /\ r.answer = "open" => r.at = "done" /\ r.sent = 0
BreakerInv(b) ==
    /\ b \in BreakerStates
    /\ b.state = "half" => b.generation <= MaxGenerations
    /\ b.state = "closed" => b.generation <= MaxGenerations + 1
    /\ b.state = "open" => b.requests = 0
ClientInv ==
    /\ idempotent \in BOOLEAN /\ outage \in BOOLEAN /\ wasOut \in BOOLEAN
    /\ outage => wasOut
    /\ DOMAIN rpc = Requests /\ rpc = [c \in Requests |-> rpc[c]]
    /\ \A c \in Requests : RpcInv(rpc[c], idempotent, wasOut)
    /\ BreakerInv(breaker)

\* The counters that an answer leaves behind.
LEMMA VerdictInv ==
    ASSUME Client!ClientAssumption, NEW b, BreakerInv(b), NEW success \in BOOLEAN
    PROVE  BreakerInv(Client!Verdict(b, success))
<1> DEFINE n == Client!Counted(b, success)
<1>1. n \in BreakerStates /\ n.state = b.state /\ n.generation = b.generation
      /\ n.requests = b.requests
  BY DEF BreakerInv, BreakerStates, Client!Counted
<1> HIDE DEF n
<1>2. b.generation \in Nat /\ MaxGenerations \in Nat /\ n.generation \in Nat /\ MinRequests \in Nat
      /\ MinRequests # 0 /\ n.failures \in Nat
      /\ b.state \in {"closed", "open", "half"}
      /\ n.requests \in Nat
  BY <1>1 DEF BreakerInv, BreakerStates, Client!ClientAssumption
<1>3. ASSUME b.state \in {"half", "closed"}, NEW s \in {"open", "closed"},
             b.state = "closed" => s = "open"
      PROVE  BreakerInv(Client!Counting(s, b.generation + 1))
  <2>1. b.generation + 1 \in 0..MaxGenerations + 2
        /\ (s = "closed" => b.generation + 1 <= MaxGenerations + 1)
    BY <1>2, <1>3 DEF BreakerInv
  <2> QED BY <2>1, <1>3 DEF BreakerInv, BreakerStates, Client!Counting
<1>4. ~(b.state = "open" /\ Client!ReadyToTrip(n))
  BY <1>1, <1>2 DEF Client!ReadyToTrip, BreakerInv
<1>5. BreakerInv(n)
  BY <1>1 DEF BreakerInv
<1>6. Client!Verdict(b, success) \in
         {n} \cup {Client!Counting(s, b.generation + 1) : s \in {"open", "closed"}}
  BY DEF Client!Verdict, n
<1>a. CASE ~success /\ (b.state = "half" \/ Client!ReadyToTrip(n))
  <2>1. Client!Verdict(b, success) = Client!Counting("open", b.generation + 1)
    BY <1>a DEF Client!Verdict, n
  <2>2. b.state \in {"half", "closed"}
    BY <1>a, <1>2, <1>4
  <2> QED BY <2>1, <2>2, <1>3
<1>b. CASE ~(~success /\ (b.state = "half" \/ Client!ReadyToTrip(n)))
           /\ b.state = "half" /\ n.successes >= Probes
  <2>1. Client!Verdict(b, success) = Client!Counting("closed", b.generation + 1)
    BY <1>b DEF Client!Verdict, n
  <2> QED BY <2>1, <1>b, <1>3
<1>c. CASE ~(~success /\ (b.state = "half" \/ Client!ReadyToTrip(n)))
           /\ ~(b.state = "half" /\ n.successes >= Probes)
  <2>1. Client!Verdict(b, success) = n
    BY <1>c DEF Client!Verdict, n
  <2> QED BY <2>1, <1>5
<1> QED BY <1>a, <1>b, <1>c

\* A step of the client's calls, and a stutter, keep what is known of them.
LEMMA ClientStep ==
    ASSUME Client!ClientAssumption, ClientInv, Client!Next \/ UNCHANGED clientVars
    PROVE  ClientInv'
<1> USE DEF ClientInv
<1>0. MaxAttempts \in Nat /\ MaxAttempts # 0 /\ MaxGenerations \in Nat
  BY DEF Client!ClientAssumption
<1>1. CASE UNCHANGED clientVars
  BY <1>1 DEF clientVars
<1>2. CASE Client!Tick
  <2>1. breaker.generation \in Nat /\ breaker.generation + 1 <= MaxGenerations
    BY <1>2, <1>0 DEF Client!Tick, BreakerInv, BreakerStates
  <2>2. breaker.generation + 1 \in 0..MaxGenerations + 2
        /\ breaker.generation + 1 <= MaxGenerations + 1
    BY <2>1, <1>0
  <2>3. PICK s \in {"closed", "half"} : breaker' = Client!Counting(s, breaker.generation + 1)
    BY <1>2 DEF Client!Tick
  <2>4. BreakerInv(breaker')
    BY <2>1, <2>2, <2>3 DEF BreakerInv, BreakerStates, Client!Counting
  <2> QED BY <1>2, <2>4 DEF Client!Tick
<1>3. CASE Client!Outage
  <2>1. \A c \in Requests : RpcInv(rpc[c], idempotent, TRUE)
    BY DEF RpcInv
  <2> QED BY <1>3, <2>1 DEF Client!Outage
<1>4. ASSUME NEW c \in Requests, Client!Enter(c) \/ Client!Answer(c) \/ Client!Backoff(c)
      PROVE  ClientInv'
  <2> DEFINE r == rpc[c]
  <2>0. RpcInv(r, idempotent, wasOut) /\ UNCHANGED <<idempotent, outage, wasOut>>
    BY <1>4 DEF Client!Enter, Client!Answer, Client!Backoff
  <2>n. r.sent \in 0..MaxAttempts /\ r.sent \in Nat
    BY <2>0, <1>0 DEF RpcInv, RpcStates
  <2> SUFFICES \E x : rpc' = [rpc EXCEPT ![c] = x] /\ RpcInv(x, idempotent, wasOut)
                      /\ BreakerInv(breaker')
    BY <2>0
  <2>g. breaker.generation \in 0..MaxGenerations + 2
    BY DEF BreakerInv, BreakerStates
  <2>r. ASSUME NEW answer \in {"transport"} \cup Client!Served, Client!Return(c, answer), r.at # "none",
               r.answer # "open"
        PROVE  /\ RpcInv([r EXCEPT !.at = "done", !.answer = answer], idempotent, wasOut)
               /\ rpc' = [rpc EXCEPT ![c] = [r EXCEPT !.at = "done", !.answer = answer]]
               /\ BreakerInv(breaker')
    <3>1. BreakerInv(breaker')
      <4>1. (answer = "ok") \in BOOLEAN
        OBVIOUS
      <4> QED BY <2>r, <4>1, VerdictInv DEF Client!Return
    <3>2. answer # "open"
      BY DEF Client!Served
    <3>3. RpcInv([r EXCEPT !.at = "done", !.answer = answer], idempotent, wasOut)
      BY <2>0, <3>2 DEF RpcInv, RpcStates
    <3> QED BY <3>1, <3>3, <2>r DEF Client!Return
  <2>1. CASE Client!Enter(c)
    <3>1. CASE Client!Admits(breaker)
      <4> DEFINE x == [r EXCEPT !.at = "sent", !.sent = 1, !.generation = breaker.generation]
      <4>1. RpcInv(x, idempotent, wasOut)
        <5>1. 1 \in 0..MaxAttempts /\ ~(1 > 1)
          BY <1>0
        <5> QED BY <2>0, <2>1, <5>1, <2>g DEF RpcInv, RpcStates, Client!Enter
      <4>2. BreakerInv([breaker EXCEPT !.requests = @ + 1])
        BY <3>1 DEF BreakerInv, BreakerStates, Client!Admits
      <4> QED BY <2>1, <3>1, <4>1, <4>2 DEF Client!Enter
    <3>2. CASE ~Client!Admits(breaker)
      <4> DEFINE x == [r EXCEPT !.at = "done", !.answer = "open"]
      <4>1. RpcInv(x, idempotent, wasOut)
        BY <2>0, <2>1 DEF RpcInv, RpcStates, Client!Enter
      <4> QED BY <2>1, <3>2, <4>1 DEF Client!Enter
    <3> QED BY <3>1, <3>2
  <2>2. CASE Client!Answer(c)
    <3>0. r.at = "sent" /\ r.answer # "open"
      BY <2>0, <2>2 DEF Client!Answer, RpcInv
    <3>1. PICK answer \in IF outage THEN {"transport"} ELSE Client!Served :
              \/ Client!Return(c, answer)
              \/ /\ Client!Repeats(c, answer)
                 /\ rpc' = [rpc EXCEPT ![c].at = "backoff"]
                 /\ UNCHANGED breaker
      BY <2>2 DEF Client!Answer
    <3>2. CASE Client!Return(c, answer)
      BY <3>0, <3>1, <3>2, <2>r
    <3>3. CASE /\ Client!Repeats(c, answer)
               /\ rpc' = [rpc EXCEPT ![c].at = "backoff"]
               /\ UNCHANGED breaker
      <4>1. outage /\ idempotent /\ r.sent < MaxAttempts
        BY <3>1, <3>3 DEF Client!Repeats, Client!IsRetryable, Client!Served
      <4>2. RpcInv([r EXCEPT !.at = "backoff"], idempotent, wasOut)
        BY <2>0, <3>0, <4>1 DEF RpcInv, RpcStates
      <4> QED BY <3>3, <4>2
    <3> QED BY <3>1, <3>2, <3>3
  <2>3. CASE Client!Backoff(c)
    <3>0. r.at = "backoff" /\ r.answer # "open" /\ idempotent /\ wasOut /\ r.sent < MaxAttempts
      BY <2>0, <2>3 DEF Client!Backoff, RpcInv
    <3>1. CASE Client!Return(c, "transport")
      BY <3>0, <3>1, <2>r
    <3>2. CASE rpc' = [rpc EXCEPT ![c].at = "sent", ![c].sent = @ + 1]
               /\ UNCHANGED breaker
      <4>1. PICK n \in 0..MaxAttempts : n = r.sent + 1
        BY <2>n, <3>0, <1>0
      <4>2. RpcInv([r EXCEPT !.at = "sent", !.sent = n], idempotent, wasOut)
        <5> DEFINE x == [r EXCEPT !.at = "sent", !.sent = n]
        <5>1. x \in RpcStates
          BY <2>0, <3>0 DEF RpcInv, RpcStates
        <5>2. x.at = "sent" /\ x.answer # "open"
          BY <2>0, <3>0 DEF RpcInv, RpcStates
        <5> HIDE DEF x
        <5>3. RpcInv(x, idempotent, wasOut)
          BY <3>0, <5>1, <5>2 DEF RpcInv
        <5> QED BY <5>3 DEF x
      <4>3. rpc' = [rpc EXCEPT ![c] = [r EXCEPT !.at = "sent", !.sent = r.sent + 1]]
        BY <3>2
      <4>4. rpc' = [rpc EXCEPT ![c] = [r EXCEPT !.at = "sent", !.sent = n]]
        BY <4>1, <4>3
      <4>5. BreakerInv(breaker')
        BY <3>2
      <4> QED BY <4>2, <4>4, <4>5
    <3> QED BY <2>3, <3>1, <3>2 DEF Client!Backoff
  <2> QED BY <1>4, <2>1, <2>2, <2>3
<1> QED BY <1>1, <1>2, <1>3, <1>4 DEF Client!Next

\* It holds at the start, and gives the types and the promise.
LEMMA ClientKnown ==
    ASSUME Client!ClientAssumption
    PROVE  /\ Client!Init => ClientInv
           /\ ClientInv => Client!TypeOK /\ Client!SentAsPromised
<1>0. MaxAttempts \in Nat /\ MaxGenerations \in Nat
  BY DEF Client!ClientAssumption
<1>1. ASSUME Client!Init PROVE ClientInv
  <2>1. 0 \in 0..MaxAttempts /\ 0 \in 0..MaxGenerations + 2 /\ 0 <= MaxGenerations + 1 /\ ~(0 > 1)
    BY <1>0
  <2>2. BreakerInv(breaker)
    BY <1>1, <2>1 DEF Client!Init, Client!Counting, BreakerInv, BreakerStates
  <2>3. \A c \in Requests : RpcInv(rpc[c], idempotent, wasOut)
    BY <1>1, <2>1 DEF Client!Init, RpcInv, RpcStates
  <2> QED BY <1>1, <2>2, <2>3 DEF Client!Init, ClientInv
<1>2. ASSUME ClientInv PROVE Client!TypeOK /\ Client!SentAsPromised
  <2>1. rpc \in [Requests -> RpcStates]
    BY <1>2 DEF ClientInv, RpcInv
  <2> QED BY <1>2, <2>1 DEF ClientInv, RpcInv, BreakerInv, RpcStates, BreakerStates,
                            Client!TypeOK, Client!SentAsPromised
<1> QED BY <1>1, <1>2

-----------------------------------------------------------------------------
(* The tool.                                                                   *)

ToolStates ==
    [run : 0..Runs, keepOld : BOOLEAN, dryRun : BOOLEAN,
     old : Reindex!Indices \cup {Reindex!NoIndex}, cursor : Cards \cup {Reindex!NoCursor},
     at : {"idle", "create", "list", "write", "switch", "delete"}]
ReindexTypes ==
    /\ published \subseteq Cards /\ replica \subseteq Cards /\ unindexed \subseteq Cards
    /\ page \subseteq Cards /\ kept \subseteq Cards
    /\ IsFiniteSet(replica)
    /\ docs = [i \in DOMAIN docs |-> docs[i]]
    /\ DOMAIN docs \subseteq Reindex!Indices
    /\ \A i \in DOMAIN docs : docs[i] \subseteq Cards
    /\ alias \in Reindex!Indices \cup {Reindex!NoIndex}
    /\ tool \in ToolStates
    /\ toolFaults \in 0..MaxFaults
\* Search goes on with an index that is there.
Serving ==
    /\ \A i \in DOMAIN docs : i <= tool.run
    /\ alias # Reindex!NoIndex => alias \in DOMAIN docs
    /\ kept \subseteq replica
    /\ kept \subseteq Reindex!Served
\* What the tool fills is not what search uses, until it has switched.
Apart ==
    /\ tool.at \in {"create", "write", "switch", "delete"} => ~tool.dryRun
    /\ tool.at \in {"create", "list", "write", "switch"} /\ ~tool.dryRun =>
          alias = tool.old /\ alias # tool.run
    /\ tool.at \in {"list", "write", "switch"} /\ ~tool.dryRun => tool.run \in DOMAIN docs
    /\ tool.at = "create" => tool.cursor = Reindex!NoCursor
    /\ tool.at = "delete" => alias = tool.run /\ tool.old # tool.run
\* A card that is kept is in the new index, or on a page that is still to come.
Filled ==
    ~tool.dryRun =>
        /\ tool.at = "list" => \A c \in kept :
              c \in docs[tool.run] \/ tool.cursor = Reindex!NoCursor \/ c < tool.cursor
        /\ tool.at = "write" => \A c \in kept :
              c \in docs[tool.run] \/ c \in page \/ (page # {} /\ \A p \in page : c < p)
        /\ tool.at = "switch" => kept \subseteq docs[tool.run]
ReindexCore == ReindexTypes /\ Serving /\ Apart /\ Filled
\* Search finds of an index what is in it, or less.
Shown ==
    /\ searchable \in [Reindex!Indices -> SUBSET Cards]
    /\ \A i \in DOMAIN docs : searchable[i] \subseteq docs[i]
ReindexInv == ReindexCore /\ Shown

\* A page has the newest of the cards that are older than the cursor.
LEMMA PageIsNewest ==
    ASSUME Reindex!ReindexAssumption, ReindexTypes,
           NEW c \in replica, tool.cursor = Reindex!NoCursor \/ c < tool.cursor,
           c \notin Reindex!NextPage
    PROVE  Reindex!NextPage # {} /\ \A p \in Reindex!NextPage : c < p
<1> DEFINE older == Reindex!Older
           after(d) == Reindex!Newer(d)
<1>1. \A d : d \in Reindex!NextPage <=> d \in older /\ Cardinality(after(d)) < PageSize
  <2>1. \A S : Reindex!Cardinality(S) = Cardinality(S)
    BY DEF Reindex!Cardinality, Cardinality
  <2> QED BY <2>1 DEF Reindex!NextPage
<1>2. IsFiniteSet(older) /\ older \subseteq Nat /\ c \in older
  BY FS_Subset DEF ReindexTypes, Reindex!ReindexAssumption, Reindex!Older
<1>a. \A d, e : e \in after(d) <=> e \in older /\ e > d
  BY DEF Reindex!Newer
<1> HIDE DEF older, after
<1>b. \A d : after(d) \subseteq older
  BY <1>a
<1>3. \A d : IsFiniteSet(after(d)) /\ Cardinality(after(d)) \in Nat
  BY <1>2, <1>b, FS_Subset, FS_CardinalityType
<1>4. PageSize \in Nat /\ PageSize # 0
  BY DEF Reindex!ReindexAssumption
<1>5. Reindex!NextPage # {}
  <2> DEFINE f == [d \in older |-> d]
  <2>1. f \in [older -> Int] /\ older # {}
    BY <1>2
  <2>2. PICK g \in older : \A d \in older : f[d] <= f[g]
    BY <1>2, <2>1, Greatest
  <2>3. \A d \in older : d <= g
    BY <2>2
  <2>4. after(g) = {}
    <3> SUFFICES ASSUME NEW e \in after(g) PROVE FALSE
      OBVIOUS
    <3>1. e \in Nat /\ g \in Nat /\ e > g /\ e <= g
      BY <1>2, <1>a, <2>3
    <3> QED BY <3>1
  <2>5. Cardinality(after(g)) = 0
    BY <2>4, FS_EmptySet
  <2> QED BY <1>1, <1>4, <2>5
<1>6. ASSUME NEW p \in Reindex!NextPage, ~(c < p) PROVE FALSE
  <2>1. p \in older /\ Cardinality(after(p)) < PageSize /\ ~(Cardinality(after(c)) < PageSize)
    BY <1>1, <1>2
  <2>2. after(c) \subseteq after(p)
    <3> SUFFICES ASSUME NEW e \in after(c) PROVE e \in after(p)
      OBVIOUS
    <3>1. e \in older /\ e \in Nat /\ c \in Nat /\ p \in Nat /\ e > c
      BY <1>2, <1>a, <2>1
    <3>2. e > p
      BY <1>6, <3>1
    <3> QED BY <1>a, <3>1, <3>2
  <2>3. Cardinality(after(c)) <= Cardinality(after(p))
    BY <1>3, <2>2, FS_Subset
  <2> QED BY <1>3, <1>4, <2>1, <2>3
<1> QED BY <1>5, <1>6

\* The oldest card of a page.
LEMMA OldestOf ==
    ASSUME Reindex!ReindexAssumption, NEW S \in SUBSET Cards, S # {}
    PROVE  Reindex!Min(S) \in S /\ \A d \in S : Reindex!Min(S) <= d
<1>1. S \in SUBSET Nat
  BY DEF Reindex!ReindexAssumption
<1>2. \E n \in S : \A d \in S : n <= d
  BY <1>1, LeastOf
<1> QED BY <1>2 DEF Reindex!Min

\* A run of the tool ends, or goes on at another place.
LEMMA ToolGoes ==
    ASSUME ReindexTypes, NEW at \in {"idle", "create", "list", "write", "switch", "delete"},
           Reindex!Goto(at)
    PROVE  /\ tool' \in ToolStates /\ tool'.at = at /\ tool'.run = tool.run
           /\ tool'.old = tool.old /\ tool'.cursor = tool.cursor /\ tool'.dryRun = tool.dryRun
BY DEF ReindexTypes, ToolStates, Reindex!Goto

\* A failure ends the run.
LEMMA ToolFails ==
    ASSUME Reindex!ReindexAssumption, ReindexTypes, Reindex!Fails
    PROVE  /\ tool' \in ToolStates /\ tool'.at = "idle" /\ tool'.run = tool.run
           /\ tool'.dryRun = tool.dryRun
           /\ toolFaults' \in 0..MaxFaults
<1>1. toolFaults \in 0..MaxFaults /\ MaxFaults \in Nat
  BY DEF ReindexTypes, Reindex!ReindexAssumption
<1>2. toolFaults' \in 0..MaxFaults
  BY <1>1 DEF Reindex!Fails
<1> QED BY <1>2, ToolGoes DEF Reindex!Fails

\* What goes on around the tool.
LEMMA AroundTool ==
    ASSUME Reindex!ReindexAssumption, ReindexInv,
           \/ UNCHANGED reindexVars \/ Reindex!Publish \/ Reindex!Replicate
           \/ \E c \in Cards : Reindex!Index(c)
           \/ \E i \in Reindex!Indices : Reindex!Refresh(i)
    PROVE  ReindexCore'
<1> USE DEF ReindexInv, ReindexCore
<1>t. ReindexTypes /\ Serving /\ Apart /\ Filled
  OBVIOUS
<1>1. CASE UNCHANGED reindexVars
  BY <1>1, <1>t DEF reindexVars, ReindexTypes, Serving, Apart, Filled, Reindex!Served
<1>2. CASE Reindex!Publish
  <2>1. published \subseteq Cards /\ Cards \ published # {}
    BY <1>2, <1>t DEF Reindex!Publish, ReindexTypes
  <2>2. Reindex!Min(Cards \ published) \in Cards
    BY <2>1, OldestOf
  <2> QED BY <1>2, <2>2, <1>t DEF Reindex!Publish, ReindexTypes, Serving, Apart, Filled, Reindex!Served
<1>3. CASE Reindex!Replicate
  <2>1. PICK c \in published \ replica : replica' = replica \cup {c}
    BY <1>3 DEF Reindex!Replicate
  <2>2. IsFiniteSet(replica') /\ replica \subseteq replica' /\ replica' \subseteq Cards
    BY <2>1, <1>t, FS_AddElement DEF ReindexTypes
  <2>3. UNCHANGED <<published, unindexed, docs, alias, tool, page, kept, toolFaults>>
    BY <1>3 DEF Reindex!Replicate
  <2> QED BY <2>2, <2>3, <1>t DEF ReindexTypes, Serving, Apart, Filled, Reindex!Served
<1>4. ASSUME NEW c \in Cards, Reindex!Index(c) PROVE ReindexCore'
  <2>0. /\ alias # Reindex!NoIndex /\ unindexed' = unindexed \ {c}
        /\ docs' = [docs EXCEPT ![alias] = docs[alias] \cup {c}]
        /\ UNCHANGED <<published, replica, alias, tool, page, kept, toolFaults>>
    BY <1>4 DEF Reindex!Index
  <2>1. alias \in DOMAIN docs
    BY <2>0, <1>t DEF Serving
  <2>2. /\ DOMAIN docs' = DOMAIN docs /\ docs' = [i \in DOMAIN docs' |-> docs'[i]]
        /\ \A i \in DOMAIN docs : docs[i] \subseteq docs'[i] /\ docs'[i] \subseteq Cards
    BY <2>0, <2>1, <1>t DEF ReindexTypes
  <2>3. ReindexTypes'
    BY <2>0, <2>2, <1>t DEF ReindexTypes
  <2>4. Serving'
    BY <2>0, <2>1, <2>2, <1>t DEF Serving, Reindex!Served
  <2>5. Apart'
    BY <2>0, <2>2, <1>t DEF Apart
  <2>6. Filled'
    BY <2>0, <2>2, <1>t DEF Filled, Apart
  <2> QED BY <2>3, <2>4, <2>5, <2>6
<1>5. ASSUME NEW i \in Reindex!Indices, Reindex!Refresh(i) PROVE ReindexCore'
  <2>1. UNCHANGED <<published, replica, unindexed, docs, alias, tool, page, kept, toolFaults>>
    BY <1>5 DEF Reindex!Refresh
  <2> QED BY <2>1, <1>t DEF ReindexTypes, Serving, Apart, Filled, Reindex!Served
<1> QED BY <1>1, <1>2, <1>3, <1>4, <1>5

\* The steps that fill the new index.
LEMMA ToolFills ==
    ASSUME Reindex!ReindexAssumption, ReindexInv,
           Reindex!CreateIndex \/ Reindex!ListListings \/ Reindex!BulkIndex
    PROVE  ReindexCore'
<1> USE DEF ReindexInv, ReindexCore
<1>t. ReindexTypes /\ Serving /\ Apart /\ Filled
  OBVIOUS
<1>n. tool.run \in Reindex!Indices /\ tool \in ToolStates
  BY <1>t DEF ReindexTypes, ToolStates, Reindex!Indices
<1>0. /\ UNCHANGED <<published, replica, unindexed, alias, kept>>
      /\ tool.at \in {"create", "list", "write"}
  BY DEF Reindex!CreateIndex, Reindex!ListListings, Reindex!BulkIndex, Reindex!world
<1>i. tool.run <= tool.run
  BY <1>n DEF Reindex!Indices
\* Where only the new index changed, search serves on.
<1>s. ASSUME docs' = [i \in DOMAIN docs' |-> docs'[i]],
             DOMAIN docs' \subseteq DOMAIN docs \cup {tool.run}, DOMAIN docs \subseteq DOMAIN docs',
             \A i \in DOMAIN docs' : docs'[i] \subseteq Cards,
             \A i \in DOMAIN docs : i # tool.run \/ tool.dryRun => docs'[i] = docs[i],
             tool' \in ToolStates, tool'.run = tool.run, page' \subseteq Cards,
             toolFaults' \in 0..MaxFaults
      PROVE  ReindexTypes' /\ Serving'
  <2>1. ReindexTypes'
    BY <1>s, <1>t, <1>0, <1>n DEF ReindexTypes
  <2>2. Reindex!Served' = Reindex!Served
    <3>1. alias # Reindex!NoIndex => alias \in DOMAIN docs /\ (alias # tool.run \/ tool.dryRun)
      BY <1>0, <1>t DEF Serving, Apart
    <3> QED BY <3>1, <1>s, <1>0 DEF Reindex!Served
  <2>3. Serving'
    BY <2>2, <1>s, <1>t, <1>0, <1>i DEF Serving
  <2> QED BY <2>1, <2>3
<1>1. CASE Reindex!CreateIndex
  <2>0. /\ tool.at = "create"
        /\ (Reindex!Goto("list") /\ UNCHANGED toolFaults) \/ Reindex!Fails
        /\ docs' = [i \in DOMAIN docs \cup {tool.run} |-> IF i = tool.run THEN {} ELSE docs[i]]
        /\ page' = page
    BY <1>1 DEF Reindex!CreateIndex
  <2>1. /\ tool' \in ToolStates /\ tool'.run = tool.run /\ tool'.dryRun = tool.dryRun
        /\ toolFaults' \in 0..MaxFaults
        /\ \/ tool'.at = "idle"
           \/ tool'.at = "list" /\ tool'.old = tool.old /\ tool'.cursor = tool.cursor
    <3>1. CASE Reindex!Goto("list") /\ UNCHANGED toolFaults
      BY <3>1, <1>t, ToolGoes DEF ReindexTypes
    <3>2. CASE Reindex!Fails
      BY <3>2, <1>t, ToolFails
    <3> QED BY <2>0, <3>1, <3>2
  <2>2. ~tool.dryRun /\ alias = tool.old /\ alias # tool.run /\ tool.cursor = Reindex!NoCursor
    BY <2>0, <1>t DEF Apart
  <2>3. /\ DOMAIN docs' = DOMAIN docs \cup {tool.run}
        /\ \A i \in DOMAIN docs' : docs'[i] = IF i = tool.run THEN {} ELSE docs[i]
        /\ docs' = [i \in DOMAIN docs' |-> docs'[i]]
    BY <2>0
  <2>4. ReindexTypes' /\ Serving'
    <3>1. \A i \in DOMAIN docs' : docs'[i] \subseteq Cards
      BY <2>3, <1>t DEF ReindexTypes
    <3> QED BY <1>s, <2>0, <2>1, <2>2, <2>3, <3>1, <1>t DEF ReindexTypes
  <2>5. Apart'
    BY <2>1, <2>2, <2>3, <1>0 DEF Apart
  <2>6. Filled'
    BY <2>1, <2>2 DEF Filled
  <2> QED BY <2>4, <2>5, <2>6
<1>2. CASE Reindex!ListListings
  <2>0. /\ tool.at = "list" /\ docs' = docs
        /\ \/ page' = Reindex!NextPage /\ UNCHANGED toolFaults
              /\ IF tool.dryRun THEN Reindex!Goto("idle") ELSE Reindex!Goto("write")
           \/ Reindex!Fails /\ UNCHANGED page
    BY <1>2 DEF Reindex!ListListings
  <2>p. page' \subseteq Cards
    BY <2>0, <1>t DEF ReindexTypes, Reindex!NextPage, Reindex!Older
  <2>1. /\ tool' \in ToolStates /\ tool'.run = tool.run /\ tool'.dryRun = tool.dryRun
        /\ toolFaults' \in 0..MaxFaults
        /\ \/ tool'.at = "idle"
           \/ /\ tool'.at = "write" /\ tool'.old = tool.old /\ ~tool.dryRun
              /\ page' = Reindex!NextPage
    <3>1. CASE Reindex!Goto("idle") /\ UNCHANGED toolFaults
      BY <3>1, <1>t, ToolGoes DEF ReindexTypes
    <3>2. CASE Reindex!Goto("write") /\ UNCHANGED toolFaults /\ ~tool.dryRun /\ page' = Reindex!NextPage
      BY <3>2, <1>t, ToolGoes DEF ReindexTypes
    <3>3. CASE Reindex!Fails
      BY <3>3, <1>t, ToolFails
    <3> QED BY <2>0, <3>1, <3>2, <3>3
  <2>2. ReindexTypes' /\ Serving'
    BY <1>s, <2>0, <2>1, <2>p, <1>t DEF ReindexTypes
  <2>3. Apart'
    BY <2>0, <2>1, <1>0, <1>t DEF Apart
  <2>4. Filled'
    <3>1. SUFFICES ASSUME tool'.at = "write", NEW c \in kept
                   PROVE  \/ c \in docs[tool.run] \/ c \in Reindex!NextPage
                          \/ Reindex!NextPage # {} /\ \A p \in Reindex!NextPage : c < p
      BY <2>0, <2>1, <1>0 DEF Filled
    <3>2. c \in docs[tool.run] \/ tool.cursor = Reindex!NoCursor \/ c < tool.cursor
      BY <2>0, <2>1, <3>1, <1>t DEF Filled
    <3>3. c \in replica
      BY <1>t DEF Serving
    <3> QED BY <3>2, <3>3, <1>t, PageIsNewest
  <2> QED BY <2>2, <2>3, <2>4
<1>3. CASE Reindex!BulkIndex
  <2>d. tool.at = "write" /\ ~tool.dryRun /\ tool.run \in DOMAIN docs /\ page' = page
        /\ alias = tool.old /\ alias # tool.run
    BY <1>3, <1>t DEF Reindex!BulkIndex, Apart
  <2>1. CASE Reindex!Fails /\ UNCHANGED docs
    <3>1. /\ tool' \in ToolStates /\ tool'.run = tool.run /\ tool'.dryRun = tool.dryRun
          /\ toolFaults' \in 0..MaxFaults /\ tool'.at = "idle"
      BY <2>1, <1>t, ToolFails
    <3>2. ReindexTypes' /\ Serving'
      BY <1>s, <2>1, <2>d, <3>1, <1>t DEF ReindexTypes
    <3> QED BY <3>1, <3>2 DEF Apart, Filled
  <2>2. CASE /\ docs' = [docs EXCEPT ![tool.run] = docs[tool.run] \cup page]
             /\ tool' = IF \E c \in replica : page # {} /\ c < Reindex!Min(page)
                        THEN [tool EXCEPT !.at = "list", !.cursor = Reindex!Min(page)]
                        ELSE [tool EXCEPT !.at = "switch"]
             /\ UNCHANGED toolFaults
    <3>1. /\ DOMAIN docs' = DOMAIN docs /\ docs' = [i \in DOMAIN docs' |-> docs'[i]]
          /\ \A i \in DOMAIN docs : i # tool.run => docs'[i] = docs[i]
          /\ docs'[tool.run] = docs[tool.run] \cup page
      BY <2>2, <2>d, <1>t DEF ReindexTypes
    <3>2. \A i \in DOMAIN docs' : docs'[i] \subseteq Cards
      BY <3>1, <1>t DEF ReindexTypes
    <3>m. page # {} => Reindex!Min(page) \in page /\ \A p \in page : Reindex!Min(page) <= p
      BY <1>t, OldestOf DEF ReindexTypes
    <3>k. \A c \in kept : c \in docs'[tool.run] \/ (page # {} /\ c < Reindex!Min(page))
      BY <3>1, <3>m, <2>d, <1>t DEF Filled
    <3>3. CASE \E c \in replica : page # {} /\ c < Reindex!Min(page)
      <4>1. Reindex!Min(page) \in Cards
        BY <3>3, <3>m, <1>t DEF ReindexTypes
      <4>2. tool' = [tool EXCEPT !.at = "list", !.cursor = Reindex!Min(page)]
        BY <3>3, <2>2
      <4>3. /\ tool' \in ToolStates /\ tool'.run = tool.run /\ tool'.dryRun = tool.dryRun
            /\ tool'.at = "list" /\ tool'.old = tool.old /\ tool'.cursor = Reindex!Min(page)
        BY <4>1, <4>2, <1>n DEF ToolStates
      <4>4. ReindexTypes' /\ Serving'
        BY <1>s, <2>2, <2>d, <3>1, <3>2, <4>3, <1>t DEF ReindexTypes
      <4>5. Apart'
        BY <2>d, <3>1, <4>3, <1>0 DEF Apart
      <4>6. Filled'
        BY <3>k, <4>3, <1>0 DEF Filled
      <4> QED BY <4>4, <4>5, <4>6
    <3>4. CASE ~\E c \in replica : page # {} /\ c < Reindex!Min(page)
      <4>2. tool' = [tool EXCEPT !.at = "switch"]
        BY <3>4, <2>2
      <4>3. /\ tool' \in ToolStates /\ tool'.run = tool.run /\ tool'.dryRun = tool.dryRun
            /\ tool'.at = "switch" /\ tool'.old = tool.old
        BY <4>2, <1>n DEF ToolStates
      <4>4. ReindexTypes' /\ Serving'
        BY <1>s, <2>2, <2>d, <3>1, <3>2, <4>3, <1>t DEF ReindexTypes
      <4>5. Apart'
        BY <2>d, <3>1, <4>3, <1>0 DEF Apart
      <4>6. kept \subseteq docs'[tool.run]
        BY <3>k, <3>4, <1>t DEF Serving
      <4>7. Filled'
        BY <4>3, <4>6, <1>0 DEF Filled
      <4> QED BY <4>4, <4>5, <4>7
    <3> QED BY <3>3, <3>4
  <2> QED BY <1>3, <2>1, <2>2 DEF Reindex!BulkIndex
<1> QED BY <1>1, <1>2, <1>3

\* A run begins, switches the alias, and deletes the old index.
LEMMA ToolSwitches ==
    ASSUME Reindex!ReindexAssumption, ReindexInv,
           Reindex!CurrentIndex \/ Reindex!SwitchAlias \/ Reindex!DeleteIndex
    PROVE  ReindexCore'
<1> USE DEF ReindexInv, ReindexCore
<1>t. ReindexTypes /\ Serving /\ Apart /\ Filled
  OBVIOUS
<1>n. tool.run \in Reindex!Indices /\ tool \in ToolStates
  BY <1>t DEF ReindexTypes, ToolStates, Reindex!Indices
<1>r. tool.run \in Nat /\ Runs \in Nat /\ tool.run <= tool.run /\ tool.run # Reindex!NoIndex
  BY <1>n DEF Reindex!Indices, Reindex!ReindexAssumption, Reindex!NoIndex
<1>f. kept \subseteq replica /\ kept \subseteq Reindex!Served
      /\ (alias # Reindex!NoIndex => alias \in DOMAIN docs)
  BY <1>t DEF Serving
<1>1. CASE Reindex!CurrentIndex
  <2>0. /\ tool.run < Runs /\ kept' = Reindex!Found \cap replica
        /\ UNCHANGED <<published, replica, unindexed, docs, alias, page, toolFaults>>
    BY <1>1 DEF Reindex!CurrentIndex, Reindex!world
  <2>1. PICK keepOld \in BOOLEAN, dryRun \in BOOLEAN :
          tool' = [run |-> tool.run + 1, keepOld |-> keepOld, dryRun |-> dryRun,
                   old |-> alias, cursor |-> Reindex!NoCursor,
                   at |-> IF dryRun THEN "list" ELSE "create"]
    BY <1>1 DEF Reindex!CurrentIndex
  <2>2. tool.run + 1 \in 0..Runs /\ (\A i \in Reindex!Indices : i <= tool.run => i <= tool.run + 1 /\ i # tool.run + 1)
        /\ Reindex!NoIndex # tool.run + 1
    BY <2>0, <1>r DEF Reindex!Indices, Reindex!NoIndex
  <2>3. /\ tool' \in ToolStates /\ tool'.run = tool.run + 1 /\ tool'.dryRun = dryRun
        /\ tool'.old = alias /\ tool'.cursor = Reindex!NoCursor
        /\ tool'.at = IF dryRun THEN "list" ELSE "create"
    <3>1. alias \in Reindex!Indices \cup {Reindex!NoIndex}
      BY <1>t DEF ReindexTypes
    <3> DEFINE n == tool.run + 1
    <3>2. n \in 0..Runs
      BY <2>2
    <3> HIDE DEF n
    <3>3. tool' = [run |-> n, keepOld |-> keepOld, dryRun |-> dryRun,
                   old |-> alias, cursor |-> Reindex!NoCursor,
                   at |-> IF dryRun THEN "list" ELSE "create"]
      BY <2>1 DEF n
    <3>4. /\ tool' \in ToolStates /\ tool'.run = n /\ tool'.dryRun = dryRun
          /\ tool'.old = alias /\ tool'.cursor = Reindex!NoCursor
          /\ tool'.at = IF dryRun THEN "list" ELSE "create"
      BY <3>1, <3>2, <3>3 DEF ToolStates
    <3> QED BY <3>4 DEF n
  <2>4. alias # tool.run + 1
    BY <2>2, <1>f, <1>t DEF Serving, ReindexTypes
  <2>5. kept' \subseteq Cards /\ kept' \subseteq replica /\ kept' \subseteq Reindex!Served'
    <3>1. Reindex!Served' = Reindex!Served
      BY <2>0 DEF Reindex!Served
    <3>2. Reindex!Found \subseteq Reindex!Served
      BY <1>f DEF Reindex!Found, Reindex!Served, Shown
    <3> QED BY <3>1, <3>2, <2>0, <1>t DEF ReindexTypes
  <2>6. ReindexTypes'
    BY <2>0, <2>3, <2>5, <1>t DEF ReindexTypes
  <2>7. Serving'
    BY <2>0, <2>2, <2>3, <2>5, <1>t DEF ReindexTypes, Serving
  <2>8. Apart'
    BY <2>0, <2>3, <2>4 DEF Apart
  <2>9. Filled'
    BY <2>3 DEF Filled
  <2> QED BY <2>6, <2>7, <2>8, <2>9
<1>2. CASE Reindex!SwitchAlias
  <2>0. /\ tool.at = "switch" /\ UNCHANGED <<published, replica, unindexed, docs, page, kept>>
        /\ \/ alias' = tool.run /\ UNCHANGED toolFaults
              /\ IF tool.old # Reindex!NoIndex /\ ~tool.keepOld
                 THEN Reindex!Goto("delete") ELSE Reindex!Goto("idle")
           \/ Reindex!Fails /\ alias' \in {alias, tool.run}
    BY <1>2 DEF Reindex!SwitchAlias, Reindex!world
  <2>1. ~tool.dryRun /\ alias = tool.old /\ alias # tool.run /\ tool.run \in DOMAIN docs
        /\ kept \subseteq docs[tool.run]
    BY <2>0, <1>t DEF Apart, Filled
  <2>2. /\ tool' \in ToolStates /\ tool'.run = tool.run
        /\ toolFaults' \in 0..MaxFaults /\ alias' \in {alias, tool.run}
        /\ \/ tool'.at = "idle"
           \/ tool'.at = "delete" /\ tool'.old = tool.old /\ tool'.dryRun = tool.dryRun /\ alias' = tool.run
    <3>1. CASE Reindex!Goto("idle") /\ UNCHANGED toolFaults /\ alias' = tool.run
      BY <3>1, <1>t, ToolGoes DEF ReindexTypes
    <3>2. CASE Reindex!Goto("delete") /\ UNCHANGED toolFaults /\ alias' = tool.run
      BY <3>2, <1>t, ToolGoes DEF ReindexTypes
    <3>3. CASE Reindex!Fails /\ alias' \in {alias, tool.run}
      BY <3>3, <1>t, ToolFails
    <3> QED BY <2>0, <3>1, <3>2, <3>3
  <2>3. alias' \in Reindex!Indices \cup {Reindex!NoIndex} /\ kept \subseteq Reindex!Served'
        /\ (alias' # Reindex!NoIndex => alias' \in DOMAIN docs)
    <3>1. CASE alias' = alias
      <4>1. Reindex!Served' = Reindex!Served
        BY <3>1, <2>0 DEF Reindex!Served
      <4> QED BY <3>1, <4>1, <1>f, <1>t DEF ReindexTypes
    <3>2. CASE alias' = tool.run
      <4>1. Reindex!Served' = docs[tool.run]
        BY <3>2, <2>0, <1>r DEF Reindex!Served
      <4> QED BY <3>2, <4>1, <2>1, <1>n
    <3> QED BY <2>2, <3>1, <3>2
  <2>4. ReindexTypes' /\ Serving'
    BY <2>0, <2>2, <2>3, <1>t DEF ReindexTypes, Serving
  <2>5. Apart' /\ Filled'
    BY <2>1, <2>2 DEF Apart, Filled
  <2> QED BY <2>4, <2>5
<1>3. CASE Reindex!DeleteIndex
  <2>0. /\ tool.at = "delete" /\ UNCHANGED <<published, replica, unindexed, alias, page, kept>>
        /\ \/ Reindex!Goto("idle") /\ UNCHANGED toolFaults
           \/ Reindex!Fails
        /\ docs' \in {docs, [i \in DOMAIN docs \ {tool.old} |-> docs[i]]}
    BY <1>3 DEF Reindex!DeleteIndex, Reindex!world
  <2>1. alias = tool.run /\ tool.old # tool.run /\ alias \in DOMAIN docs
    BY <2>0, <1>t, <1>r DEF Apart, Serving
  <2>2. /\ tool' \in ToolStates /\ tool'.run = tool.run /\ tool'.at = "idle"
        /\ toolFaults' \in 0..MaxFaults
    <3>1. CASE Reindex!Goto("idle") /\ UNCHANGED toolFaults
      BY <3>1, <1>t, ToolGoes DEF ReindexTypes
    <3>2. CASE Reindex!Fails
      BY <3>2, <1>t, ToolFails
    <3> QED BY <2>0, <3>1, <3>2
  <2>3. /\ DOMAIN docs' \subseteq DOMAIN docs /\ alias \in DOMAIN docs'
        /\ \A i \in DOMAIN docs' : docs'[i] = docs[i]
        /\ docs' = [i \in DOMAIN docs' |-> docs'[i]]
    <3>1. CASE docs' = docs
      BY <3>1, <2>1, <1>t DEF ReindexTypes
    <3>2. CASE docs' = [i \in DOMAIN docs \ {tool.old} |-> docs[i]]
      BY <3>2, <2>1
    <3> QED BY <2>0, <3>1, <3>2
  <2>4. Reindex!Served' = Reindex!Served
    BY <2>0, <2>1, <2>3 DEF Reindex!Served
  <2>5. ReindexTypes'
    BY <2>0, <2>2, <2>3, <1>t DEF ReindexTypes
  <2>6. Serving'
    BY <2>0, <2>2, <2>3, <2>4, <1>t DEF Serving
  <2>7. Apart' /\ Filled'
    BY <2>2 DEF Apart, Filled
  <2> QED BY <2>5, <2>6, <2>7
<1> QED BY <1>1, <1>2, <1>3

\* Documents are written before they are found, and no refresh undoes that.
LEMMA ShownStep ==
    ASSUME Reindex!ReindexAssumption, ReindexInv, Reindex!Next \/ UNCHANGED reindexVars
    PROVE  Shown'
<1>t. /\ searchable \in [Reindex!Indices -> SUBSET Cards]
      /\ \A i \in DOMAIN docs : searchable[i] \subseteq docs[i] /\ docs[i] \subseteq Cards
      /\ DOMAIN docs \subseteq Reindex!Indices
      /\ docs = [i \in DOMAIN docs |-> docs[i]] /\ tool.run \in Reindex!Indices
  BY DEF ReindexInv, ReindexCore, ReindexTypes, Shown, ToolStates, Reindex!Indices
<1>1. CASE UNCHANGED <<docs, searchable>>
  BY <1>1, <1>t DEF Shown
<1>2. CASE /\ UNCHANGED searchable /\ DOMAIN docs' \subseteq DOMAIN docs
           /\ \A i \in DOMAIN docs' : docs[i] \subseteq docs'[i]
  BY <1>2, <1>t DEF Shown
<1>3. ASSUME NEW i \in Reindex!Indices, Reindex!Refresh(i) PROVE Shown'
  <2>1. /\ i \in DOMAIN docs /\ searchable' = [searchable EXCEPT ![i] = docs[i]]
        /\ docs' = docs
    BY <1>3 DEF Reindex!Refresh
  <2> QED BY <2>1, <1>t DEF Shown
<1>4. CASE Reindex!CreateIndex
  <2>1. /\ docs' = [i \in DOMAIN docs \cup {tool.run} |-> IF i = tool.run THEN {} ELSE docs[i]]
        /\ searchable' = [searchable EXCEPT ![tool.run] = {}]
    BY <1>4 DEF Reindex!CreateIndex
  <2> QED BY <2>1, <1>t DEF Shown
<1>5. ASSUME NEW i \in DOMAIN docs, NEW S, docs' = [docs EXCEPT ![i] = docs[i] \cup S],
             UNCHANGED searchable
      PROVE  Shown'
  <2>1. DOMAIN docs' = DOMAIN docs /\ \A j \in DOMAIN docs' : docs[j] \subseteq docs'[j]
    BY <1>5, <1>t
  <2> QED BY <1>2, <1>5, <2>1
<1>6. ASSUME NEW c \in Cards, Reindex!Index(c) PROVE Shown'
  <2>1. alias \in DOMAIN docs
    BY <1>6 DEF Reindex!Index, ReindexInv, ReindexCore, Serving
  <2> QED BY <1>5, <1>6, <2>1 DEF Reindex!Index
<1>7. CASE Reindex!BulkIndex
  <2>1. tool.run \in DOMAIN docs
    BY <1>7 DEF Reindex!BulkIndex, ReindexInv, ReindexCore, Apart
  <2>2. CASE docs' = [docs EXCEPT ![tool.run] = docs[tool.run] \cup page]
    BY <1>5, <1>7, <2>1, <2>2 DEF Reindex!BulkIndex
  <2>3. CASE UNCHANGED docs
    BY <1>1, <1>7, <2>3 DEF Reindex!BulkIndex
  <2> QED BY <1>7, <2>2, <2>3 DEF Reindex!BulkIndex
<1>8. CASE Reindex!DeleteIndex
  <2>1. docs' \in {docs, [i \in DOMAIN docs \ {tool.old} |-> docs[i]]} /\ UNCHANGED searchable
    BY <1>8 DEF Reindex!DeleteIndex
  <2>2. DOMAIN docs' \subseteq DOMAIN docs /\ \A i \in DOMAIN docs' : docs[i] \subseteq docs'[i]
    BY <2>1
  <2> QED BY <1>2, <2>1, <2>2
<1>9. CASE \/ Reindex!Publish \/ Reindex!Replicate \/ Reindex!CurrentIndex
           \/ Reindex!ListListings \/ Reindex!SwitchAlias \/ UNCHANGED reindexVars
  BY <1>1, <1>9 DEF Reindex!Publish, Reindex!Replicate, Reindex!CurrentIndex, Reindex!ListListings,
                    Reindex!SwitchAlias, reindexVars
<1> QED BY <1>3, <1>4, <1>6, <1>7, <1>8, <1>9 DEF Reindex!Next

\* A step keeps what is known.
LEMMA ReindexStep ==
    ASSUME Reindex!ReindexAssumption, ReindexInv, Reindex!Next \/ UNCHANGED reindexVars
    PROVE  ReindexInv'
<1>1. ReindexCore'
  BY AroundTool, ToolFills, ToolSwitches DEF Reindex!Next
<1> QED BY <1>1, ShownStep DEF ReindexInv

\* It holds at the start, and gives the types and the promise.
LEMMA ReindexKnown ==
    ASSUME Reindex!ReindexAssumption
    PROVE  /\ Reindex!Init => ReindexInv
           /\ ReindexInv => Reindex!TypeOK /\ Reindex!KeptIsServed /\ Reindex!AliasServes
<1>1. ASSUME Reindex!Init PROVE ReindexInv
  <2>1. 0 \in 0..Runs /\ 0 \in 0..MaxFaults /\ 0 <= 0
    BY DEF Reindex!ReindexAssumption
  <2>2. tool \in ToolStates /\ tool.at = "idle" /\ tool.run = 0
    BY <1>1, <2>1 DEF Reindex!Init, ToolStates
  <2>3. /\ alias \in Reindex!Indices \cup {Reindex!NoIndex}
        /\ DOMAIN docs \subseteq {0} /\ docs = [i \in DOMAIN docs |-> docs[i]]
        /\ \A i \in DOMAIN docs : docs[i] = {}
        /\ alias # Reindex!NoIndex => alias \in DOMAIN docs
    BY <1>1, <2>1 DEF Reindex!Init, Reindex!Indices, Reindex!First
  <2>4. ReindexTypes
    BY <1>1, <2>1, <2>2, <2>3, FS_EmptySet DEF Reindex!Init, ReindexTypes, Reindex!Indices
  <2>5. Serving
    BY <1>1, <2>1, <2>2, <2>3 DEF Reindex!Init, Serving
  <2>6. Apart /\ Filled
    BY <2>2 DEF Apart, Filled
  <2>7. Shown
    BY <1>1, <2>1, <2>3 DEF Reindex!Init, Reindex!Indices, Shown
  <2> QED BY <2>4, <2>5, <2>6, <2>7 DEF ReindexInv, ReindexCore
<1>2. ASSUME ReindexInv PROVE Reindex!TypeOK /\ Reindex!KeptIsServed /\ Reindex!AliasServes
  <2>1. Reindex!TypeOK
    BY <1>2 DEF ReindexInv, ReindexCore, Shown, ReindexTypes, ToolStates, Reindex!TypeOK
  <2>2. Reindex!KeptIsServed /\ Reindex!AliasServes
    BY <1>2 DEF ReindexInv, ReindexCore, Serving, Reindex!KeptIsServed, Reindex!AliasServes
  <2> QED BY <2>1, <2>2
<1> QED BY <1>1, <1>2

-----------------------------------------------------------------------------
(* All of them.                                                                *)

ServicesInv ==
    /\ BatcherInv /\ IndexerInv /\ WriterInv /\ LifeInv /\ ClientInv /\ ReindexInv

\* It holds at the start.
LEMMA ServicesBegin == Init => ServicesInv
<1> SUFFICES ASSUME Init PROVE ServicesInv
  OBVIOUS
<1>a. /\ Batcher!BatcherAssumption /\ Indexer!IndexerAssumption /\ Writer!WriterAssumption
      /\ Life!LifecycleAssumption /\ Client!ClientAssumption /\ Reindex!ReindexAssumption
  BY ServicesAssumption
<1>i. /\ Batcher!Init /\ Indexer!Init /\ Writer!Init /\ Life!Init /\ Client!Init /\ Reindex!Init
  BY DEF Init
<1> HIDE DEF Init
<1> QED BY <1>a, <1>i, BatcherKnown, IndexerKnown, WriterKnown, LifeKnown, ClientKnown,
           ReindexKnown DEF ServicesInv

\* A step of one part keeps what is known of it, and the others stand still.
LEMMA ServicesStep == ServicesInv /\ [Next]_vars => ServicesInv'
<1> SUFFICES ASSUME ServicesInv, Next \/ UNCHANGED vars PROVE ServicesInv'
  OBVIOUS
<1>a. /\ Batcher!BatcherAssumption /\ Indexer!IndexerAssumption /\ Writer!WriterAssumption
      /\ Life!LifecycleAssumption /\ Client!ClientAssumption /\ Reindex!ReindexAssumption
  BY ServicesAssumption
<1>1. Batcher!Next \/ UNCHANGED batcherVars
  BY DEF Next, BatcherNext, IndexerNext, WriterNext, LifeNext, ClientNext, ReindexNext, vars
<1>2. Indexer!Next \/ UNCHANGED indexerVars
  BY DEF Next, BatcherNext, IndexerNext, WriterNext, LifeNext, ClientNext, ReindexNext, vars
<1>3. Writer!Next \/ UNCHANGED writerVars
  BY DEF Next, BatcherNext, IndexerNext, WriterNext, LifeNext, ClientNext, ReindexNext, vars
<1>4. Life!Next \/ UNCHANGED lifeVars
  BY DEF Next, BatcherNext, IndexerNext, WriterNext, LifeNext, ClientNext, ReindexNext, vars
<1>5. Client!Next \/ UNCHANGED clientVars
  BY DEF Next, BatcherNext, IndexerNext, WriterNext, LifeNext, ClientNext, ReindexNext, vars
<1>6. Reindex!Next \/ UNCHANGED reindexVars
  BY DEF Next, BatcherNext, IndexerNext, WriterNext, LifeNext, ClientNext, ReindexNext, vars
<1>7. BatcherInv' /\ IndexerInv' /\ WriterInv'
  BY <1>a, <1>1, <1>2, <1>3, BatcherStep, IndexerStep, WriterStep DEF ServicesInv
<1>8. LifeInv' /\ ClientInv' /\ ReindexInv'
  BY <1>a, <1>4, <1>5, <1>6, LifeStep, ClientStep, ReindexStep DEF ServicesInv
<1> QED BY <1>7, <1>8 DEF ServicesInv

\* It holds in every state.
LEMMA ServicesKnown == Spec => []ServicesInv
<1>1. Init => ServicesInv
  BY ServicesBegin
<1>2. ServicesInv /\ [Next]_vars => ServicesInv'
  BY ServicesStep
<1> QED BY <1>1, <1>2, PTL DEF Spec

\* The variables of every part have the values its code can give them: a channel
\* never holds more than its capacity, a timer never fires more often than rows came.
THEOREM TypesOfServices == Spec => []TypeOK
<1>1. ServicesInv => TypeOK
  BY ServicesAssumption, BatcherKnown, IndexerKnown, WriterKnown, LifeKnown, ClientKnown,
     ReindexKnown DEF ServicesInv, TypeOK
<1> QED BY <1>1, ServicesKnown, PTL

\* What was answered for is kept: a delivery the consumer commits is in the index,
\* at its version or a newer one, or in its table, where every further row of it is
\* owed to a fault, a crash or a repeated delivery; a view that Close did not drop is
\* published once, and rows that wait have somebody who will flush them
\* (bulk_indexer.go:44-68, batch.go:33-50, view_batcher.go:140-176).
THEOREM HandledIsKeptAlways == TimesAgree => (Spec => []HandledIsKept)
<1> SUFFICES ASSUME TimesAgree PROVE Spec => []HandledIsKept
  OBVIOUS
<1>1. ServicesInv => HandledIsKept
  BY ServicesAssumption, BatcherKnown, IndexerKnown, WriterKnown DEF ServicesInv, HandledIsKept
<1> QED BY <1>1, ServicesKnown, PTL

\* On every way out of every Run, what a task or a request uses is closed after it
\* (bootstrap/app.go and main.go of each service).
THEOREM EndedBeforeClosedAlways == Spec => []EndedBeforeClosed
<1>1. ServicesInv => EndedBeforeClosed
  BY ServicesAssumption, LifeKnown DEF ServicesInv, EndedBeforeClosed
<1> QED BY <1>1, ServicesKnown, PTL

\* A call that is not idempotent is sent once, and one the breaker refuses is not
\* sent, whatever the attempts, the outages and the breaker's ticks
\* (retry.go:121-171, client.go:128-131).
THEOREM SentAsPromisedAlways == Spec => []SentAsPromised
<1>1. ServicesInv => SentAsPromised
  BY ServicesAssumption, ClientKnown DEF ServicesInv, SentAsPromised
<1> QED BY <1>1, ServicesKnown, PTL

\* A reindex takes nothing from the search for longer than a refresh: whichever of its
\* pages and of its runs fail, and whatever Elasticsearch has shown when, the index that
\* search reads has in it what search found when the run began, and the alias points to
\* an index (reindex.go:86-160).
THEOREM SearchStaysAlways == Spec => []SearchStays
<1>1. ServicesInv => SearchStays
  BY ServicesAssumption, ReindexKnown DEF ServicesInv, SearchStays
<1> QED BY <1>1, ServicesKnown, PTL
=============================================================================
