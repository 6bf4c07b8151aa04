------------------------ MODULE CaptureWriterProofs ------------------------
(***************************************************************************)
(* Proofs about the capture writer, for any traces, flushes, budgets and   *)
(* queues: what is counted is counted once, nothing that was queued is     *)
(* lost while the worker runs, and a flush that succeeds tells the truth.  *)
(* The permits of the byte budget add up, which takes an induction over    *)
(* the sum that Memory is.                                                 *)
(***************************************************************************)
EXTENDS CaptureWriter, SequenceTheorems, FiniteSetTheorems, TLAPS

\* The worker has the trace in hand, or has counted it.
Handed(t) == t \in batch \cup results \/ Seen(t) \in Counted

Positions == 1 .. Len(queue)

\* The types that the argument needs.
Shape ==
    /\ trace \in [Traces -> {"new", "admitted", "queued", "dropped"}]
    /\ flush \in [Flushes -> {"new", "waiting", "stored", "failed", "closed"}]
    /\ before \in [Flushes -> SUBSET Traces]
    /\ queue \in Seq(Traces \cup Flushes)
    /\ pc \in {"idle", "draining", "persisting", "storing", "answer", "dead"}
    /\ batch \subseteq Traces /\ results \subseteq Traces
    /\ asked \in Flushes \cup {Nobody}
    /\ stats = [h \in Hours |-> stats[h]]
    /\ failures \in Nat

\* What the worker has in hand between its phases.
Phases ==
    /\ pc \in {"idle", "storing", "answer"} => batch = {} /\ results = {}
    /\ pc \in {"idle", "draining", "persisting", "answer"} => failed = {}

\* A trace is queued once, and goes from the queue to the worker.
Once ==
    /\ \A i \in Positions : queue[i] \in Traces =>
          /\ trace[queue[i]] = "queued" /\ ~Handed(queue[i])
          /\ \A j \in Positions : queue[j] = queue[i] => i = j
    /\ \A t \in Traces : Handed(t) => trace[t] = "queued"
    /\ \A t \in batch \cup results : Seen(t) \notin Counted

\* The worker has every trace that was queued, or finds it in the queue.
Kept ==
    Alive => \A t \in Traces \ Foreign :
                trace[t] = "queued" => Handed(t) \/ \E i \in Positions : queue[i] = t

\* A flush follows the traces that were queued before it.
InOrder ==
    /\ \A i \in Positions : queue[i] \in Flushes =>
          /\ flush[queue[i]] # "new"
          /\ \A t \in before[queue[i]] \ Foreign :
                Handed(t) \/ \E j \in Positions : j < i /\ queue[j] = t
    /\ asked # Nobody =>
          /\ flush[asked] # "new"
          /\ Alive => \A t \in before[asked] \ Foreign : Handed(t)

\* What is counted and is no trace was reported.
Reports ==
    /\ reported \subseteq Counters
    /\ \A x \in Counted : x \in reported \/ \E t \in Traces : x = Seen(t)
    /\ SingleScope => reported \subseteq Counted

WriterInv == Shape /\ Phases /\ Once /\ Kept /\ InOrder /\ Reports /\ CountedOnce /\ FlushHonest

-----------------------------------------------------------------------------

\* Facts of different kinds differ.
LEMMA Kinds ==
    /\ \A t, u : Seen(t) = Seen(u) <=> t = u
    /\ \A x \in Counters : \A t : x # Seen(t)
<1>1. \A t, u : Seen(t).of = t /\ Seen(t).kind = "trace"
  BY DEF Seen
<1>2. \A x \in Counters : x.kind \in {"drop", "failure"}
  BY DEF Counters, Drop, Failure
<1>3. \A t, u : Seen(t) = Seen(u) <=> t = u
  BY <1>1 DEF Seen
<1>4. \A x \in Counters : \A t : x # Seen(t)
  BY <1>1, <1>2
<1> QED
  BY <1>3, <1>4

\* The counters only grow.
LEMMA CountersGrow == ASSUME Shape, [Next]_vars PROVE Counters \subseteq Counters' /\ shards \subseteq shards'
<1>1. Dropped \subseteq Dropped' /\ failures' \in {failures, failures + 1} /\ shards \subseteq shards'
  BY DEF Shape, Dropped, Next, HandlerStep, WorkerStep, Die, Admit, Exceed, Send, Overflow, SendFlush, RefuseFlush,
         TakeTrace, TakeFlush, EndBatch, Observe, Tick, Roll, EndPass, Answer, Persist, StoreShard, FailShard,
         vars, handlers, worker
<1>2. 1 .. failures \subseteq 1 .. failures'
  BY <1>1 DEF Shape
<1> QED
  BY <1>1, <1>2 DEF Counters

\* Which steps count anything.
LEMMA Counting ==
    ASSUME Shape, [Next]_vars
    PROVE  \/ UNCHANGED stats /\ OnTheWay' \cup shards' = OnTheWay \cup shards
           \/ Observe \/ Roll
  BY DEF OnTheWay, Next, HandlerStep, WorkerStep, Die, Admit, Exceed, Send, Overflow, SendFlush, RefuseFlush,
         TakeTrace, TakeFlush, EndBatch, Tick, EndPass, Answer, Persist, StoreShard, FailShard,
         vars, handlers, worker

\* What counted means, fact by fact.
LEMMA CountedMeans ==
    /\ \A x : x \in Counted <=> \/ \E h \in Hours : x \in stats[h]
                                \/ \E s \in OnTheWay \cup shards : x \in s.facts
    /\ \A x : x \in Counted' <=> \/ \E h \in Hours : x \in stats'[h]
                                 \/ \E s \in OnTheWay' \cup shards' : x \in s.facts
<1> DEFINE Held   == UNION {stats[h] : h \in Hours}
           Encoded == UNION {s.facts : s \in OnTheWay \cup shards}
<1>1. \A x : (x \in Held <=> \E h \in Hours : x \in stats[h])
  OBVIOUS
<1>2. \A x : (x \in Held' <=> \E h \in Hours : x \in stats'[h])
  OBVIOUS
<1>3. \A x : (x \in Encoded <=> \E s \in OnTheWay \cup shards : x \in s.facts)
  OBVIOUS
<1>4. \A x : (x \in Encoded' <=> \E s \in OnTheWay' \cup shards' : x \in s.facts)
  OBVIOUS
<1>5. Counted = Held \cup Encoded
  BY DEF Counted
<1>6. Counted' = Held' \cup Encoded'
  BY DEF Counted
<1> HIDE DEF Held, Encoded
<1> QED
  BY <1>1, <1>2, <1>3, <1>4, <1>5, <1>6

\* Observe counts the results.
LEMMA Observed ==
    ASSUME Shape, Observe
    PROVE  /\ Counted' = Counted \cup {Seen(t) : t \in results \ Foreign}
           /\ \A h \in Hours : \A x : x \in stats'[h] =>
                 x \in stats[h] \/ \E t \in results \ Foreign : x = Seen(t) /\ Hour[t] = h
           /\ OnTheWay' \cup shards' = OnTheWay \cup shards
<1> DEFINE Gained == {Seen(t) : t \in results \ Foreign}
<1>1. \A h \in Hours : stats'[h] = stats[h] \cup {Seen(t) : t \in {u \in results \ Foreign : Hour[u] = h}}
  BY DEF Observe
<1>2. OnTheWay' \cup shards' = OnTheWay \cup shards
  BY DEF Observe, OnTheWay
<1>3. \A t \in results : Hour[t] \in Hours
  BY TracesAssumption DEF Shape
<1>4. \A h \in Hours : \A x : x \in stats'[h] <=>
         x \in stats[h] \/ \E t \in results \ Foreign : x = Seen(t) /\ Hour[t] = h
  BY <1>1
<1>5. \A x : (\E h \in Hours : x \in stats'[h]) <=> (\E h \in Hours : x \in stats[h]) \/ x \in Gained
  BY <1>3, <1>4
<1> HIDE DEF Gained
<1>6. \A x : x \in Counted' <=> x \in Counted \/ x \in Gained
  BY <1>2, <1>5, CountedMeans
<1>7. Counted' = Counted \cup Gained
  BY <1>6
<1> QED
  BY <1>2, <1>4, <1>7 DEF Gained

\* Roll counts what the counters gained, in one place.
LEMMA Rolled ==
    ASSUME Shape, Roll
    PROVE  LET new == IF SingleScope THEN Counters \ reported ELSE {}
           IN  /\ Counted' = Counted \cup new
               /\ reported' = Counters
               /\ \E i \in Hours :
                     LET facts == [h \in Hours |-> IF h = i THEN stats[h] \cup new ELSE stats[h]]
                     IN  \/ stats' = facts /\ OnTheWay' \cup shards' = OnTheWay \cup shards
                         \/ /\ stats' = [h \in Hours |-> {}]
                            /\ OnTheWay' \cup shards' = OnTheWay \cup shards
                                 \cup {[key |-> key, hour |-> h, facts |-> facts[h]] : h \in {k \in Hours : facts[k] # {}}}
<1> DEFINE new == IF SingleScope THEN Counters \ reported ELSE {}
           facts(i) == [h \in Hours |-> IF h = i THEN stats[h] \cup new ELSE stats[h]]
           fresh(i) == {[key |-> key, hour |-> h, facts |-> facts(i)[h]] : h \in {k \in Hours : facts(i)[k] # {}}}
<1>0. stats = [h \in Hours |-> stats[h]]
  BY DEF Shape
<1>00. \A i \in Hours : [stats EXCEPT ![i] = @ \cup new] = facts(i)
  <2> HIDE DEF new
  <2> QED
    BY <1>0
<1>1. PICK i \in Hours :
        IF failed # {}
        THEN stats' = facts(i) /\ pending' = failed
        ELSE pending' = fresh(i) /\ stats' = [h \in Hours |-> {}]
  <2> DEFINE e(i) == [stats EXCEPT ![i] = @ \cup new]
  <2>1. PICK i \in Hours :
          IF failed # {}
          THEN stats' = e(i) /\ pending' = failed
          ELSE /\ pending' = {[key |-> key, hour |-> h, facts |-> e(i)[h]] : h \in {k \in Hours : e(i)[k] # {}}}
               /\ stats' = [h \in Hours |-> {}]
    BY DEF Roll
  <2>2. e(i) = facts(i)
    BY <1>00
  <2> HIDE DEF e, facts
  <2> QED
    BY <2>1, <2>2
<1>2. pending = {} /\ failed' = {} /\ shards' = shards /\ reported' = Counters
  BY DEF Roll
<1> HIDE DEF new
<1>3. \A x : (\E h \in Hours : x \in facts(i)[h]) <=> (\E h \in Hours : x \in stats[h]) \/ x \in new
  BY <1>1
<1> HIDE DEF facts
<1>4. \A x : (\E s \in fresh(i) : x \in s.facts) <=> \E h \in Hours : x \in facts(i)[h]
  <2>1. \A s \in fresh(i) : \E h \in Hours : s.facts = facts(i)[h]
    OBVIOUS
  <2>2. \A h \in Hours : facts(i)[h] # {} => \E s \in fresh(i) : s.facts = facts(i)[h]
    <3> SUFFICES ASSUME NEW h \in Hours, facts(i)[h] # {} PROVE \E s \in fresh(i) : s.facts = facts(i)[h]
      OBVIOUS
    <3>1. [key |-> key, hour |-> h, facts |-> facts(i)[h]] \in fresh(i)
      OBVIOUS
    <3> QED
      BY <3>1
  <2> HIDE DEF fresh
  <2> QED
    BY <2>1, <2>2
<1> HIDE DEF fresh
<1>5. CASE failed # {}
  <2>1. OnTheWay' \cup shards' = OnTheWay \cup shards
    BY <1>1, <1>2, <1>5 DEF OnTheWay
  <2>2. stats' = facts(i)
    BY <1>1, <1>5
  <2>3. \A x : x \in Counted' <=> x \in Counted \/ x \in new
    BY <1>3, <2>1, <2>2, CountedMeans
  <2>4. Counted' = Counted \cup new
    BY <2>3
  <2> QED
    BY <1>2, <2>1, <2>2, <2>4 DEF facts, fresh, new
<1>6. CASE failed = {}
  <2>1. OnTheWay' \cup shards' = OnTheWay \cup shards \cup fresh(i)
    BY <1>1, <1>2, <1>6 DEF OnTheWay
  <2>2. stats' = [h \in Hours |-> {}]
    BY <1>1, <1>6
  <2>3. \A x : ~ \E h \in Hours : x \in stats'[h]
    BY <2>2
  <2>4. \A x : x \in Counted' <=> x \in Counted \/ x \in new
    BY <1>3, <1>4, <2>1, <2>3, CountedMeans
  <2>5. Counted' = Counted \cup new
    BY <2>4
  <2> QED
    BY <1>2, <2>1, <2>2, <2>5 DEF facts, fresh, new
<1> QED
  BY <1>5, <1>6

\* Counted only grows, and by what.
LEMMA CountedGrows ==
    ASSUME Shape, [Next]_vars
    PROVE  /\ Counted \subseteq Counted'
           /\ ~Observe /\ ~Roll => Counted' = Counted
<1>1. CASE UNCHANGED stats /\ OnTheWay' \cup shards' = OnTheWay \cup shards
  BY <1>1 DEF Counted
<1> QED
  BY <1>1, Counting, Observed, Rolled

\* What each step changes, apart from what is counted.
LEMMA Steps ==
    ASSUME Shape, [Next]_vars
    PROVE  /\ \A t \in Traces : trace'[t] = "queued" => trace[t] = "queued" \/ Send(t)
           /\ \A t \in Traces : trace[t] = "queued" => trace'[t] = "queued"
           /\ \A f \in Flushes : before'[f] = before[f] \/ SendFlush(f)
           /\ \A f \in Flushes : flush[f] # "new" => flush'[f] # "new"
           /\ \A f \in Flushes : flush'[f] = "stored" => flush[f] = "stored" \/ (Answer /\ f = asked)
           /\ asked' \in {asked, Nobody} \/ TakeFlush
           /\ Alive' => Alive
<1> USE DEF Shape, Next, HandlerStep, WorkerStep, Die, Admit, Exceed, Send, Overflow, SendFlush, RefuseFlush,
            TakeTrace, TakeFlush, EndBatch, Observe, Tick, Roll, EndPass, Answer, Persist, StoreShard, FailShard,
            vars, handlers, worker
<1>1. \A t \in Traces : trace'[t] = "queued" => trace[t] = "queued" \/ Send(t)
  OBVIOUS
<1>2. \A t \in Traces : trace[t] = "queued" => trace'[t] = "queued"
  OBVIOUS
<1>3. \A f \in Flushes : before'[f] = before[f] \/ SendFlush(f)
  OBVIOUS
<1>4. \A f \in Flushes : flush[f] # "new" => flush'[f] # "new"
  OBVIOUS
<1>5. \A f \in Flushes : flush'[f] = "stored" => flush[f] = "stored" \/ (Answer /\ f = asked)
  OBVIOUS
<1>6. asked' \in {asked, Nobody} \/ TakeFlush
  OBVIOUS
<1>7. Alive' => Alive
  BY DEF Alive
<1> QED
  BY <1>1, <1>2, <1>3, <1>4, <1>5, <1>6, <1>7

\* The queue grows at its end ...
Growing ==
    \E x \in Traces \cup Flushes :
       /\ \/ x \in Traces /\ Send(x)
          \/ x \in Flushes /\ SendFlush(x)
       /\ Positions' = Positions \cup {Len(queue) + 1}
       /\ \A i \in Positions : queue'[i] = queue[i]
       /\ queue'[Len(queue) + 1] = x

\* ... and shrinks at its head.
Shrinking ==
    /\ TakeTrace \/ TakeFlush
    /\ 1 \in Positions /\ Head(queue) = queue[1]
    /\ Positions' = 1 .. Len(queue) - 1
    /\ \A i \in Positions' : queue'[i] = queue[i + 1]

\* These are the steps of the queue.
LEMMA QueueSteps ==
    ASSUME Shape, [Next]_vars
    PROVE  UNCHANGED queue \/ Growing \/ Shrinking \/ (Die /\ Positions' = {})
<1>0. queue \in Seq(Traces \cup Flushes) /\ Len(queue) \in Nat
  BY LenProperties DEF Shape
<1>1. ASSUME NEW x \in Traces \cup Flushes, queue' = Append(queue, x)
      PROVE  /\ Positions' = Positions \cup {Len(queue) + 1}
             /\ \A i \in Positions : queue'[i] = queue[i]
             /\ queue'[Len(queue) + 1] = x
  <2>1. Len(queue') = Len(queue) + 1 /\ \A i \in 1 .. Len(queue) : queue'[i] = queue[i]
    BY <1>0, <1>1, AppendProperties
  <2>2. queue'[Len(queue) + 1] = x
    BY <1>0, <1>1, AppendProperties
  <2> QED
    BY <1>0, <2>1, <2>2 DEF Positions
<1>2. ASSUME queue # <<>>, queue' = Tail(queue)
      PROVE  /\ 1 \in Positions /\ Head(queue) = queue[1]
             /\ Positions' = 1 .. Len(queue) - 1
             /\ \A i \in Positions' : queue'[i] = queue[i + 1]
  <2>1. Len(queue) # 0
    BY <1>0, <1>2, EmptySeq
  <2>2. /\ Head(queue) = queue[1] /\ Len(queue') = Len(queue) - 1
        /\ \A i \in 1 .. Len(queue) - 1 : queue'[i] = queue[i + 1]
    BY <1>0, <1>2, HeadTailProperties
  <2> QED
    BY <1>0, <2>1, <2>2 DEF Positions
<1>3. queue' = <<>> => Positions' = {}
  BY EmptySeq DEF Positions
<1>4. \/ UNCHANGED queue
      \/ \E x \in Traces \cup Flushes :
            /\ \/ x \in Traces /\ Send(x)
               \/ x \in Flushes /\ SendFlush(x)
            /\ queue' = Append(queue, x)
      \/ (TakeTrace \/ TakeFlush) /\ queue # <<>> /\ queue' = Tail(queue)
      \/ Die /\ queue' = <<>>
  BY DEF Next, HandlerStep, WorkerStep, Die, Admit, Exceed, Send, Overflow, SendFlush, RefuseFlush,
         TakeTrace, TakeFlush, EndBatch, Observe, Tick, Roll, EndPass, Answer, Persist, StoreShard, FailShard,
         vars, handlers, worker
<1> QED
  BY <1>1, <1>2, <1>3, <1>4 DEF Growing, Shrinking

\* A trace comes into the worker's hand from the queue only, and stays there,
\* or counted, until the worker dies.
LEMMA HandedSteps ==
    ASSUME Shape, Phases, [Next]_vars
    PROVE  /\ \A t : Seen(t) \in Counted' => Seen(t) \in Counted \/ (Observe /\ t \in results)
           /\ \A t : Handed(t)' => Handed(t) \/ (TakeTrace /\ t = Head(queue))
           /\ \A t : TakeTrace /\ t = Head(queue) => Handed(t)'
           /\ ~Die => \A t \in Traces \ Foreign : Handed(t) => Handed(t)'
           /\ \A t \in batch' \cup results' : \/ t \in batch \cup results /\ ~Observe
                                              \/ TakeTrace /\ t = Head(queue)
<1>1. \A t : Seen(t) \in Counted' => Seen(t) \in Counted \/ (Observe /\ t \in results)
  <2>1. CASE Observe
    BY <2>1, Observed, Kinds
  <2>2. CASE Roll
    BY <2>2, Rolled, Kinds
  <2> QED
    BY <2>1, <2>2, CountedGrows
<1>2. \/ batch' \cup results' = batch \cup results
      \/ TakeTrace /\ batch' \cup results' = batch \cup results \cup {Head(queue)}
      \/ Observe /\ batch' \cup results' = {} /\ batch = {}
      \/ Die /\ batch' \cup results' = {}
  BY DEF Next, HandlerStep, WorkerStep, Die, Admit, Exceed, Send, Overflow, SendFlush, RefuseFlush,
         TakeTrace, TakeFlush, EndBatch, Observe, Tick, Roll, EndPass, Answer, Persist, StoreShard, FailShard,
         vars, handlers, worker
<1>3. \A t : Handed(t)' => Handed(t) \/ (TakeTrace /\ t = Head(queue))
  BY <1>1, <1>2 DEF Handed
<1>4. \A t : TakeTrace /\ t = Head(queue) => Handed(t)'
  BY DEF TakeTrace, Handed
<1>5. ASSUME ~Die, NEW t \in Traces \ Foreign, Handed(t) PROVE Handed(t)'
  <2>1. CASE Observe
    BY <1>2, <1>5, <2>1, Observed, CountedGrows DEF Handed
  <2> QED
    BY <1>2, <1>5, <2>1, CountedGrows DEF Handed
<1>6. Observe => batch' \cup results' = {}
  BY DEF Observe
<1> QED
  BY <1>1, <1>2, <1>3, <1>4, <1>5, <1>6

\* Sending hands nothing over.
LEMMA SendHands ==
    ASSUME NEW x, Send(x) \/ SendFlush(x) PROVE \A t : Handed(t)' <=> Handed(t)
<1>1. UNCHANGED <<batch, results, stats, pending, failed, shards>>
  BY DEF Send, SendFlush
<1>2. Counted' = Counted
  BY <1>1 DEF Counted, OnTheWay
<1> QED
  BY <1>1, <1>2 DEF Handed

-----------------------------------------------------------------------------

LEMMA ShapeStep == ASSUME Shape, [Next]_vars PROVE Shape'
<1>1. /\ trace' \in [Traces -> {"new", "admitted", "queued", "dropped"}]
      /\ flush' \in [Flushes -> {"new", "waiting", "stored", "failed", "closed"}]
      /\ pc' \in {"idle", "draining", "persisting", "storing", "answer", "dead"}
      /\ stats' = [h \in Hours |-> stats'[h]]
      /\ failures' \in Nat
  <2> USE DEF Shape, Next, HandlerStep, WorkerStep, Die, Admit, Exceed, Send, Overflow, SendFlush, RefuseFlush,
         TakeTrace, TakeFlush, EndBatch, Observe, Tick, Roll, EndPass, Answer, Persist, StoreShard, FailShard,
         vars, handlers, worker
  <2>1. trace' \in [Traces -> {"new", "admitted", "queued", "dropped"}]
    OBVIOUS
  <2>2. flush' \in [Flushes -> {"new", "waiting", "stored", "failed", "closed"}]
    OBVIOUS
  <2>3. pc' \in {"idle", "draining", "persisting", "storing", "answer", "dead"}
    OBVIOUS
  <2>4. stats' = [h \in Hours |-> stats'[h]]
    OBVIOUS
  <2>5. failures' \in Nat
    OBVIOUS
  <2> QED
    BY <2>1, <2>2, <2>3, <2>4, <2>5
<1>2. before' \in [Flushes -> SUBSET Traces]
  BY DEF Shape, Next, HandlerStep, WorkerStep, Die, Admit, Exceed, Send, Overflow, SendFlush, RefuseFlush,
         TakeTrace, TakeFlush, EndBatch, Observe, Tick, Roll, EndPass, Answer, Persist, StoreShard, FailShard,
         vars, handlers, worker
<1>3. /\ queue' \in Seq(Traces \cup Flushes)
      /\ batch' \subseteq Traces /\ results' \subseteq Traces
      /\ asked' \in Flushes \cup {Nobody}
  <2>1. \/ UNCHANGED queue
        \/ \E x \in Traces \cup Flushes : queue' = Append(queue, x)
        \/ queue # <<>> /\ queue' = Tail(queue)
        \/ queue' = <<>>
    BY DEF Next, HandlerStep, WorkerStep, Die, Admit, Exceed, Send, Overflow, SendFlush, RefuseFlush,
         TakeTrace, TakeFlush, EndBatch, Observe, Tick, Roll, EndPass, Answer, Persist, StoreShard, FailShard,
         vars, handlers, worker
  <2>2. queue' \in Seq(Traces \cup Flushes)
    <3>1. queue \in Seq(Traces \cup Flushes)
      BY DEF Shape
    <3>2. \A x \in Traces \cup Flushes : Append(queue, x) \in Seq(Traces \cup Flushes)
      BY <3>1, AppendProperties
    <3>3. queue # <<>> => Tail(queue) \in Seq(Traces \cup Flushes)
      BY <3>1, HeadTailProperties
    <3> QED
      BY <2>1, <3>1, <3>2, <3>3, EmptySeq
  <2>3. batch' \subseteq Traces /\ results' \subseteq Traces /\ asked' \in Flushes \cup {Nobody}
    BY DEF Shape, Next, HandlerStep, WorkerStep, Die, Admit, Exceed, Send, Overflow, SendFlush, RefuseFlush,
         TakeTrace, TakeFlush, EndBatch, Observe, Tick, Roll, EndPass, Answer, Persist, StoreShard, FailShard,
         vars, handlers, worker
  <2> QED
    BY <2>2, <2>3
<1> QED
  BY <1>1, <1>2, <1>3 DEF Shape

LEMMA PhasesStep == ASSUME Shape, Phases, [Next]_vars PROVE Phases'
  BY DEF Shape, Phases, Next, HandlerStep, WorkerStep, Die, Admit, Exceed, Send, Overflow, SendFlush, RefuseFlush,
         TakeTrace, TakeFlush, EndBatch, Observe, Tick, Roll, EndPass, Answer, Persist, StoreShard, FailShard,
         vars, handlers, worker

\* What is taken is at the head.
LEMMA Taken ==
    ASSUME Shape, TakeTrace \/ TakeFlush
    PROVE  1 \in Positions /\ Head(queue) = queue[1] /\ queue' # queue
<1>1. queue \in Seq(Traces \cup Flushes) /\ queue # <<>> /\ queue' = Tail(queue)
  BY DEF Shape, TakeTrace, TakeFlush
<1>2. Len(queue) \in Nat /\ Len(queue) # 0
  BY <1>1, LenProperties, EmptySeq
<1>3. Head(queue) = queue[1] /\ Len(queue') = Len(queue) - 1
  BY <1>1, HeadTailProperties
<1> QED
  BY <1>2, <1>3 DEF Positions

\* What is in the queue is not in hand: it was sent once.
LEMMA OnceStep == ASSUME Shape, Phases, Once, [Next]_vars PROVE Once'
<1>0. Len(queue) \in Nat /\ Traces \cap Flushes = {}
  BY LenProperties, TracesAssumption DEF Shape
<1>1. ASSUME NEW i \in Positions', queue'[i] \in Traces
      PROVE  /\ trace'[queue'[i]] = "queued" /\ ~Handed(queue[i])'
             /\ \A j \in Positions' : queue'[j] = queue'[i] => i = j
  <2>1. CASE UNCHANGED queue
    <3>1. Positions' = Positions
      BY <2>1 DEF Positions
    <3>2. ~TakeTrace
      BY <2>1, Taken
    <3> QED
      BY <1>1, <2>1, <3>1, <3>2, Steps, HandedSteps DEF Once
  <2>2. CASE Growing
    <3>0. PICK x \in Traces \cup Flushes :
            /\ \/ x \in Traces /\ Send(x)
               \/ x \in Flushes /\ SendFlush(x)
            /\ Positions' = Positions \cup {Len(queue) + 1}
            /\ \A k \in Positions : queue'[k] = queue[k]
            /\ queue'[Len(queue) + 1] = x
      BY <2>2 DEF Growing
    <3>1. \A t : Handed(t)' <=> Handed(t)
      BY <3>0, SendHands
    <3>2. \A k \in Positions : queue[k] = x /\ x \in Traces => FALSE
      BY <3>0, <1>0 DEF Once, Send
    <3>3. CASE i \in Positions
      BY <1>1, <3>0, <3>1, <3>2, <3>3, Steps DEF Once
    <3>4. CASE i = Len(queue) + 1
      <4>1. x \in Traces /\ Send(x) /\ queue'[i] = x
        BY <1>0, <1>1, <3>0, <3>4
      <4>2. trace'[x] = "queued" /\ trace[x] = "admitted"
        BY <4>1 DEF Send, Shape
      <4>3. ~Handed(x)
        BY <4>1, <4>2 DEF Once
      <4> QED
        BY <3>0, <3>1, <3>2, <3>4, <4>1, <4>2, <4>3
    <3> QED
      BY <3>0, <3>3, <3>4
  <2>3. CASE Shrinking
    <3>0. /\ TakeTrace \/ TakeFlush
          /\ Positions' = 1 .. Len(queue) - 1
          /\ \A k \in Positions' : queue'[k] = queue[k + 1]
      BY <2>3 DEF Shrinking
    <3>1. /\ 1 \in Positions /\ Head(queue) = queue[1]
          /\ \A k \in Positions' : k + 1 \in Positions /\ k + 1 # 1
      BY <1>0, <3>0, Taken DEF Positions
    <3>2. queue'[i] = queue[i + 1] /\ queue[1] # queue[i + 1]
      BY <1>1, <3>0, <3>1 DEF Once
    <3>3. trace[queue[i + 1]] = "queued" /\ ~Handed(queue[i + 1])
      BY <1>1, <3>1, <3>2 DEF Once
    <3>4. \A j \in Positions' : queue'[j] = queue'[i] => i + 1 = j + 1
      BY <1>1, <3>0, <3>1, <3>2 DEF Once
    <3>5. \A j \in Positions' : j \in Int
      BY <1>0, <3>0
    <3>6. ~Handed(queue[i])'
      BY <3>1, <3>2, <3>3, HandedSteps
    <3> QED
      BY <1>1, <3>2, <3>3, <3>4, <3>5, <3>6, Steps
  <2>4. CASE Positions' = {}
    BY <1>1, <2>4
  <2> QED
    BY <2>1, <2>2, <2>3, <2>4, QueueSteps
<1>2. TakeTrace => /\ Head(queue) \in Traces /\ trace[Head(queue)] = "queued"
                   /\ ~Handed(Head(queue))
  BY Taken DEF Once, TakeTrace
<1>3. \A t \in Traces : Handed(t)' => trace'[t] = "queued"
  BY <1>2, HandedSteps, Steps DEF Once
<1>4. \A t \in batch' \cup results' : Seen(t) \notin Counted'
  BY <1>2, HandedSteps DEF Once, Handed
<1> QED
  BY <1>1, <1>3, <1>4 DEF Once

\* Where a trace of the queue is after a step.
LEMMA Carried ==
    ASSUME Shape, Phases, ~Die, [Next]_vars, NEW t \in Traces \ Foreign, NEW i \in Positions, queue[i] = t
    PROVE  \/ Handed(t)'
           \/ i \in Positions' /\ queue'[i] = t /\ ~Shrinking
           \/ i - 1 \in Positions' /\ queue'[i - 1] = t /\ Shrinking
<1>0. Len(queue) \in Nat /\ Traces \cap Flushes = {}
  BY LenProperties, TracesAssumption DEF Shape
<1>1. CASE Shrinking
  <2>1. CASE i = 1
    <3>1. Head(queue) = t
      BY <1>1, <2>1 DEF Shrinking
    <3>2. TakeTrace
      BY <1>0, <1>1, <3>1 DEF Shrinking, TakeFlush
    <3> QED
      BY <3>1, <3>2, HandedSteps
  <2>2. CASE i # 1
    <3>1. i - 1 \in Positions' /\ (i - 1) + 1 = i
      BY <1>0, <1>1, <2>2 DEF Shrinking, Positions
    <3> QED
      BY <1>1, <3>1 DEF Shrinking
  <2> QED
    BY <2>1, <2>2
<1>2. CASE ~Shrinking
  BY <1>2, QueueSteps DEF Growing, Positions
<1> QED
  BY <1>1, <1>2

\* No trace that was queued is lost while the worker runs.
LEMMA KeptStep == ASSUME Shape, Phases, Kept, [Next]_vars PROVE Kept'
<1> SUFFICES ASSUME Alive', NEW t \in Traces \ Foreign, trace'[t] = "queued"
             PROVE  Handed(t)' \/ \E i \in Positions' : queue'[i] = t
  BY DEF Kept
<1>0. Alive /\ ~Die /\ Len(queue) \in Nat
  BY Steps, LenProperties DEF Die, Alive, Shape
<1>1. CASE trace[t] = "queued"
  <2>1. Handed(t) => Handed(t)'
    BY <1>0, HandedSteps
  <2>2. ASSUME NEW i \in Positions, queue[i] = t PROVE Handed(t)' \/ \E j \in Positions' : queue'[j] = t
    BY <1>0, <2>2, Carried
  <2> QED
    BY <1>0, <1>1, <2>1, <2>2 DEF Kept
<1>2. CASE Send(t)
  <2>1. queue' = Append(queue, t) /\ queue \in Seq(Traces \cup Flushes)
    BY <1>2 DEF Send, Shape
  <2>2. Len(queue') = Len(queue) + 1 /\ queue'[Len(queue) + 1] = t
    BY <2>1, AppendProperties
  <2> QED
    BY <1>0, <2>2 DEF Positions
<1> QED
  BY <1>1, <1>2, Steps

\* A flush stays behind the traces it waits for.
LEMMA InOrderStep == ASSUME Shape, Phases, Kept, InOrder, [Next]_vars PROVE InOrder'
<1>0. Len(queue) \in Nat /\ Traces \cap Flushes = {} /\ Nobody \notin Flushes
  BY LenProperties, TracesAssumption DEF Shape
<1> DEFINE Behind(f, i) == \A t \in before[f] \ Foreign :
                              Handed(t) \/ \E j \in Positions : j < i /\ queue[j] = t
           BehindNext(f, i) == \A t \in before'[f] \ Foreign :
                              Handed(t)' \/ \E j \in Positions' : j < i /\ queue'[j] = t
<1>1. ASSUME NEW i \in Positions', queue'[i] \in Flushes
      PROVE  flush'[queue'[i]] # "new" /\ BehindNext(queue'[i], i)
  <2> DEFINE f == queue'[i]
  <2>0. ~Die
    BY <1>1, EmptySeq DEF Die, Positions
  <2>1. ASSUME NEW k \in Positions, queue[k] = f, k = IF Shrinking THEN i + 1 ELSE i
        PROVE  flush'[f] # "new" /\ BehindNext(f, i)
    <3>1. flush[f] # "new" /\ Behind(f, k) /\ f \in Flushes
      BY <1>1, <2>1 DEF InOrder
    <3>2. flush'[f] # "new" /\ before'[f] = before[f]
      BY <3>1, Steps DEF SendFlush
    <3>3. before[f] \subseteq Traces
      BY <3>1 DEF Shape
    <3>4. ASSUME NEW t \in before[f] \ Foreign PROVE Handed(t)' \/ \E j \in Positions' : j < i /\ queue'[j] = t
      <4>1. CASE Handed(t)
        BY <2>0, <3>3, <3>4, <4>1, HandedSteps
      <4>2. ASSUME NEW j \in Positions, j < k, queue[j] = t
            PROVE  Handed(t)' \/ \E m \in Positions' : m < i /\ queue'[m] = t
        <5>1. \/ Handed(t)'
              \/ j \in Positions' /\ queue'[j] = t /\ ~Shrinking
              \/ j - 1 \in Positions' /\ queue'[j - 1] = t /\ Shrinking
          BY <2>0, <3>3, <3>4, <4>2, Carried
        <5>2. j \in Int /\ k \in Int /\ i \in Int
          BY <1>0, <2>1, <4>2 DEF Positions
        <5>3. ~Shrinking => j < i
          BY <2>1, <4>2
        <5>4. Shrinking => j - 1 < i
          BY <2>1, <4>2, <5>2
        <5> QED
          BY <5>1, <5>3, <5>4
      <4> QED
        BY <3>1, <3>4, <4>1, <4>2
    <3> QED
      BY <3>2, <3>4
  <2>5. i \in Positions /\ queue[i] = f /\ ~Shrinking => flush'[f] # "new" /\ BehindNext(f, i)
    <3> HIDE DEF f, BehindNext
    <3> QED
      BY <2>1
  <2>6. i + 1 \in Positions /\ queue[i + 1] = f /\ Shrinking => flush'[f] # "new" /\ BehindNext(f, i)
    <3> HIDE DEF f, BehindNext
    <3> QED
      BY <2>1
  <2>2. CASE UNCHANGED queue
    <3>1. i \in Positions /\ queue[i] = f
      BY <1>1, <2>2 DEF Positions
    <3>2. ~Shrinking
      BY <2>2, Taken DEF Shrinking
    <3> QED
      BY <2>5, <3>1, <3>2
  <2>3. CASE Shrinking
    <3>1. i + 1 \in Positions /\ queue[i + 1] = f
      BY <1>0, <1>1, <2>3 DEF Shrinking, Positions
    <3> QED
      BY <2>6, <2>3, <3>1
  <2>4. CASE Growing
    <3>0. PICK x \in Traces \cup Flushes :
            /\ \/ x \in Traces /\ Send(x)
               \/ x \in Flushes /\ SendFlush(x)
            /\ Positions' = Positions \cup {Len(queue) + 1}
            /\ \A k \in Positions : queue'[k] = queue[k]
            /\ queue'[Len(queue) + 1] = x
      BY <2>4 DEF Growing
    <3>1. CASE i \in Positions
      BY <2>3, <2>5, <3>0, <3>1
    <3>2. CASE i = Len(queue) + 1
      <4>1. f \in Flushes /\ SendFlush(f)
        BY <1>0, <1>1, <3>0, <3>2
      <4>2. flush'[f] = "waiting" /\ before'[f] = {t \in Traces : trace[t] = "queued"} /\ Alive
        BY <4>1 DEF SendFlush, Shape
      <4>3. \A t \in before'[f] \ Foreign : Handed(t) \/ \E j \in Positions : queue[j] = t
        BY <4>2 DEF Kept
      <4>4. \A t : Handed(t) => Handed(t)'
        BY <4>1, SendHands
      <4>5. \A j \in Positions : j \in Positions' /\ j < i /\ queue'[j] = queue[j]
        BY <1>0, <3>0, <3>2 DEF Positions
      <4> QED
        BY <4>2, <4>3, <4>4, <4>5
    <3> QED
      BY <3>0, <3>1, <3>2
  <2> QED
    BY <1>1, <2>2, <2>3, <2>4, QueueSteps
<1>2. ASSUME asked' # Nobody
      PROVE  flush'[asked'] # "new" /\ (Alive' => \A t \in before'[asked'] \ Foreign : Handed(t)')
  <2>1. CASE asked' = asked
    <3>1. asked \in Flushes /\ flush[asked] # "new"
      BY <1>2, <2>1 DEF InOrder, Shape
    <3>2. flush'[asked] # "new" /\ before'[asked] = before[asked] /\ before[asked] \subseteq Traces
      BY <3>1, Steps DEF SendFlush, Shape
    <3>3. Alive' => Alive /\ ~Die
      BY Steps DEF Die, Alive
    <3> QED
      BY <1>2, <2>1, <3>1, <3>2, <3>3, HandedSteps DEF InOrder
  <2>2. CASE TakeFlush
    <3>1. 1 \in Positions /\ asked' = queue[1] /\ queue[1] \in Flushes /\ before' = before /\ flush' = flush
      BY <2>2, Taken DEF TakeFlush, handlers
    <3>2. flush[queue[1]] # "new" /\ \A t \in before[queue[1]] \ Foreign : Handed(t)
      BY <1>0, <3>1 DEF InOrder, Positions
    <3>3. ~Die /\ before[queue[1]] \subseteq Traces
      BY <2>2, <3>1 DEF TakeFlush, Die, Shape
    <3> QED
      BY <3>1, <3>2, <3>3, HandedSteps
  <2> QED
    BY <1>2, <2>1, <2>2, Steps
<1> QED
  BY <1>1, <1>2 DEF InOrder

\* Reports follow the counters.
LEMMA ReportsStep == ASSUME Shape, Reports, [Next]_vars PROVE Reports'
<1>1. Counters \subseteq Counters'
  BY CountersGrow
<1>2. CASE Roll
  <2>1. /\ Counted' = Counted \cup (IF SingleScope THEN Counters \ reported ELSE {})
        /\ reported' = Counters
    BY <1>2, Rolled
  <2> QED
    BY <1>1, <2>1 DEF Reports
<1>3. CASE Observe
  <2>1. Counted' = Counted \cup {Seen(t) : t \in results \ Foreign} /\ results \subseteq Traces
    BY <1>3, Observed DEF Shape
  <2>2. reported' = reported
    BY <1>3 DEF Observe
  <2> QED
    BY <1>1, <2>1, <2>2 DEF Reports
<1>4. CASE ~Roll /\ ~Observe
  <2>1. reported' = reported
    BY <1>4 DEF Next, HandlerStep, WorkerStep, Die, Admit, Exceed, Send, Overflow, SendFlush, RefuseFlush,
         TakeTrace, TakeFlush, EndBatch, Tick, EndPass, Answer, Persist, StoreShard, FailShard,
         vars, handlers, worker
  <2> QED
    BY <1>1, <1>4, <2>1, CountedGrows DEF Reports
<1> QED
  BY <1>2, <1>3, <1>4

\* Nothing that is counted is counted again.
LEMMA CountedOnceStep ==
    ASSUME Shape, Phases, Once, Reports, CountedOnce, [Next]_vars PROVE CountedOnce'
<1>1. CASE UNCHANGED stats /\ OnTheWay' \cup shards' = OnTheWay \cup shards
  BY <1>1 DEF CountedOnce
<1>2. CASE Observe
  <2>1. OnTheWay' \cup shards' = OnTheWay \cup shards
    BY <1>2, Observed
  <2>2. \A h \in Hours : \A x : x \in stats'[h] =>
           x \in stats[h] \/ \E t \in results : x = Seen(t) /\ Hour[t] = h
    BY <1>2, Observed
  <2>3. \A t \in results : \A h \in Hours : Seen(t) \notin stats[h]
    BY CountedMeans DEF Once
  <2>4. \A t \in results : \A s \in OnTheWay \cup shards : Seen(t) \notin s.facts
    BY CountedMeans DEF Once
  <2>5. \A h \in Hours, s \in OnTheWay \cup shards : stats'[h] \cap s.facts = {}
    BY <2>2, <2>4 DEF CountedOnce
  <2>6. \A h, i \in Hours : h # i => stats'[h] \cap stats'[i] = {}
    BY <2>2, <2>3, Kinds DEF CountedOnce
  <2> QED
    BY <2>1, <2>5, <2>6 DEF CountedOnce
<1>3. CASE Roll
  <2> DEFINE new == IF SingleScope THEN Counters \ reported ELSE {}
             facts(i) == [h \in Hours |-> IF h = i THEN stats[h] \cup new ELSE stats[h]]
             fresh(i) == {[key |-> key, hour |-> h, facts |-> facts(i)[h]] : h \in {k \in Hours : facts(i)[k] # {}}}
  <2>1. PICK i \in Hours :
          \/ stats' = facts(i) /\ OnTheWay' \cup shards' = OnTheWay \cup shards
          \/ /\ stats' = [h \in Hours |-> {}]
             /\ OnTheWay' \cup shards' = OnTheWay \cup shards \cup fresh(i)
    BY <1>3, Rolled
  <2>2. \A x \in new : x \notin Counted
    BY Kinds DEF Reports
  <2>3. /\ \A h \in Hours : stats[h] \cap new = {}
        /\ \A s \in OnTheWay \cup shards : s.facts \cap new = {}
    <3> HIDE DEF new
    <3> QED
      BY <2>2, CountedMeans
  <2> HIDE DEF new
  <2>4. \A h, k \in Hours : h # k => facts(i)[h] \cap facts(i)[k] = {}
    BY <2>3 DEF CountedOnce
  <2>5. \A h \in Hours, s \in OnTheWay \cup shards : facts(i)[h] \cap s.facts = {}
    BY <2>3 DEF CountedOnce
  <2>6. \A s \in fresh(i) : \E h \in Hours : s = [key |-> key, hour |-> h, facts |-> facts(i)[h]]
    OBVIOUS
  <2>7. \A s \in fresh(i) : \E h \in Hours :
           s.facts = facts(i)[h] /\ s = [key |-> key, hour |-> h, facts |-> facts(i)[h]]
    <3> HIDE DEF facts, fresh
    <3> SUFFICES ASSUME NEW s \in fresh(i)
                 PROVE  \E h \in Hours : s.facts = facts(i)[h] /\ s = [key |-> key, hour |-> h, facts |-> facts(i)[h]]
      OBVIOUS
    <3>1. PICK h \in Hours : s = [key |-> key, hour |-> h, facts |-> facts(i)[h]]
      BY <2>6
    <3>2. s.facts = facts(i)[h]
      BY <3>1
    <3> QED
      BY <3>1, <3>2
  <2> HIDE DEF facts, fresh
  <2>8. CASE stats' = facts(i) /\ OnTheWay' \cup shards' = OnTheWay \cup shards
    BY <2>4, <2>5, <2>8 DEF CountedOnce
  <2>9. CASE /\ stats' = [h \in Hours |-> {}]
             /\ OnTheWay' \cup shards' = OnTheWay \cup shards \cup fresh(i)
    <3>1. \A r, s \in fresh(i) : r # s => r.facts \cap s.facts = {}
      BY <2>4, <2>7
    <3>2. \A r \in fresh(i), s \in OnTheWay \cup shards : r.facts \cap s.facts = {} /\ s.facts \cap r.facts = {}
      BY <2>5, <2>7
    <3>3. \A r, s \in OnTheWay' \cup shards' : r # s => r.facts \cap s.facts = {}
      BY <2>9, <3>1, <3>2 DEF CountedOnce
    <3>4. \A h \in Hours : stats'[h] = {}
      BY <2>9
    <3> QED
      BY <3>3, <3>4 DEF CountedOnce
  <2> QED
    BY <2>1, <2>8, <2>9
<1> QED
  BY <1>1, <1>2, <1>3, Counting

\* A flush that is answered well finds all it waited for in the store.
LEMMA HonestStep ==
    ASSUME Shape, Phases, InOrder, FlushHonest, [Next]_vars PROVE FlushHonest'
<1> SUFFICES ASSUME NEW f \in Flushes, flush'[f] = "stored", NEW t \in before'[f] \ Foreign
             PROVE  Stored(t)'
  BY DEF FlushHonest
<1>1. Stored(t) => Stored(t)'
  BY CountersGrow DEF Stored
<1>2. CASE flush[f] = "stored"
  <2>1. before'[f] = before[f]
    BY <1>2, Steps DEF SendFlush
  <2> QED
    BY <1>1, <1>2, <2>1 DEF FlushHonest
<1>3. CASE flush[f] # "stored"
  <2>1. Answer /\ f = asked
    BY <1>3, Steps
  <2>2. /\ pc = "answer" /\ before' = before /\ shards' = shards
        /\ pending = {} /\ \A h \in Hours : stats[h] = {}
    BY <1>3, <2>1, TracesAssumption DEF Answer, Shape
  <2>3. batch = {} /\ results = {} /\ failed = {} /\ Alive
    BY <2>2 DEF Phases, Alive
  <2>4. Handed(t)
    BY <2>1, <2>2, <2>3, TracesAssumption DEF InOrder, Shape
  <2>5. Seen(t) \in Counted
    BY <2>3, <2>4 DEF Handed
  <2>6. \E s \in shards : Seen(t) \in s.facts
    BY <2>2, <2>3, <2>5, CountedMeans DEF OnTheWay
  <2> QED
    BY <1>1, <2>6 DEF Stored
<1> QED
  BY <1>2, <1>3

-----------------------------------------------------------------------------

LEMMA WriterInit == ASSUME Init PROVE WriterInv
<1>1. Positions = {} /\ OnTheWay = {} /\ Counted = {} /\ queue = <<>>
  <2>1. Positions = {}
    BY EmptySeq DEF Init, Positions
  <2>2. OnTheWay \cup shards = {} /\ OnTheWay = {} /\ \A h \in Hours : stats[h] = {}
    BY DEF Init, OnTheWay
  <2>3. \A x : x \notin Counted
    BY <2>2, CountedMeans
  <2> QED
    BY <2>1, <2>2, <2>3 DEF Init
<1>2. \A t : ~Handed(t)
  BY <1>1 DEF Init, Handed
<1>3. Shape
  BY EmptySeq DEF Init, Shape
<1>4. Phases /\ Once /\ Kept /\ InOrder /\ FlushHonest
  BY <1>1, <1>2 DEF Init, Phases, Once, Kept, InOrder, FlushHonest
<1>5. CountedOnce
  BY <1>1 DEF Init, CountedOnce
<1>6. Reports
  BY <1>1 DEF Init, Reports
<1> QED
  BY <1>3, <1>4, <1>5, <1>6 DEF WriterInv

LEMMA WriterStep == ASSUME WriterInv, [Next]_vars PROVE WriterInv'
  BY ShapeStep, PhasesStep, OnceStep, KeptStep, InOrderStep, ReportsStep, CountedOnceStep, HonestStep
     DEF WriterInv

\* The invariant of the capture writer.
THEOREM Writing == Spec => []WriterInv
  BY WriterInit, WriterStep, PTL DEF Spec

\* A trace, a drop or a failure is in one shard or statistic at most, whatever
\* puts fail and are repeated (flush_pending_stats).
THEOREM ExactlyOnce == Spec => []CountedOnce
<1>1. WriterInv => CountedOnce
  BY DEF WriterInv
<1> QED
  BY <1>1, Writing, PTL

\* What was queued is queued, in hand or counted, and what was reported is
\* counted (process_batch, flush_stats).
THEOREM AtLeastOnce == Spec => []NothingLost
<1>1. WriterInv => NothingLost
  <2> SUFFICES ASSUME WriterInv, Alive PROVE NothingLost
    BY DEF NothingLost
  <2>1. ASSUME NEW t \in Traces \ Foreign, trace[t] = "queued"
        PROVE  t \in ToSet(queue) \cup batch \cup results \/ Seen(t) \in Counted
    <3>1. DOMAIN queue = Positions
      BY LenProperties DEF Positions, WriterInv, Shape
    <3>2. \A i \in Positions : queue[i] \in ToSet(queue)
      BY <3>1 DEF ToSet
    <3> QED
      BY <2>1, <3>2 DEF WriterInv, Kept, Handed
  <2>2. SingleScope => reported = Counted \ {Seen(t) : t \in Traces}
    BY Kinds DEF WriterInv, Reports
  <2> QED
    BY <2>1, <2>2 DEF NothingLost
<1> QED
  BY <1>1, Writing, PTL

\* A flush that succeeds finds every trace queued before it in the store
\* (Records::flush).
THEOREM HonestFlush == Spec => []FlushHonest
<1>1. WriterInv => FlushHonest
  BY DEF WriterInv
<1> QED
  BY <1>1, Writing, PTL

-----------------------------------------------------------------------------
(* The memory of a set of traces is a fold: it is shown here to add up.    *)

\* The trace that the sum over a set takes first.
One(s) == CHOOSE x \in s : TRUE

\* The sums over the subsets of S, and what makes a function them.
Unfolds(f, S) == f = [s \in SUBSET S |-> IF s = {} THEN 0 ELSE Bytes[One(s)] + f[s \ {One(s)}]]
Totals(S) == CHOOSE f : Unfolds(f, S)

\* Memory is the fold that its definition unfolds to.
LEMMA MemoryTotals == \A S : Memory(S) = Totals(S)[S]
  BY DEF Memory, MapThenSumSet, MapThenFoldSet, Totals, Unfolds, One

\* Among subsets of a finite set there is a least one: the induction below.
LEMMA LeastSet ==
    ASSUME NEW S, IsFiniteSet(S), NEW Bad \in SUBSET (SUBSET S), Bad # {}
    PROVE  \E T \in Bad : \A U \in Bad : U \subseteq T => U = T
<1>1. IsWellFoundedOn(StrictSubsetOrdering(S), SUBSET S)
  BY FS_StrictSubsetOrderingWellFounded, FS_FiniteSubsetsOfFinite
<1>2. PICK T \in Bad : \A U \in Bad : <<U, T>> \notin StrictSubsetOrdering(S)
  BY <1>1, WFMin
<1>3. ASSUME NEW U \in Bad, U \subseteq T PROVE U = T
  <2>1. <<U, T>> \in (SUBSET S) \X (SUBSET S) /\ <<U, T>>[1] = U /\ <<U, T>>[2] = T
    OBVIOUS
  <2> QED
    BY <1>2, <1>3, <2>1 DEF StrictSubsetOrdering
<1> QED
  BY <1>2, <1>3

\* The trace that is taken first is one of the set.
LEMMA Chosen == \A s : s # {} => One(s) \in s
  BY DEF One

\* One step of the sum.
LEMMA UnfoldsMeans ==
    ASSUME NEW f, NEW S, Unfolds(f, S), NEW s \in SUBSET S
    PROVE  f[s] = IF s = {} THEN 0 ELSE Bytes[One(s)] + f[s \ {One(s)}]
<1> DEFINE body(t) == IF t = {} THEN 0 ELSE Bytes[One(t)] + f[t \ {One(t)}]
<1>1. f = [t \in SUBSET S |-> body(t)]
  BY DEF Unfolds
<1> HIDE DEF body
<1>2. f[s] = body(s)
  BY <1>1
<1> QED
  BY <1>2 DEF body

\* There is one such function at most ...
LEMMA Agree ==
    ASSUME NEW f, NEW g, NEW S, NEW T, Unfolds(f, S), Unfolds(g, T), IsFiniteSet(S), T \subseteq S,
           NEW U, U \subseteq T
    PROVE  f[U] = g[U]
<1> DEFINE Bad == {V \in SUBSET T : f[V] # g[V]}
<1>1. SUFFICES ASSUME Bad # {} PROVE FALSE
  OBVIOUS
<1>2. IsFiniteSet(T)
  BY FS_Subset
<1>3. PICK V \in Bad : \A W \in Bad : W \subseteq V => W = V
  <2>1. Bad \in SUBSET (SUBSET T)
    OBVIOUS
  <2> HIDE DEF Bad
  <2> QED
    BY <1>1, <1>2, <2>1, LeastSet
<1>4. V \subseteq T /\ V \subseteq S /\ f[V] # g[V]
  OBVIOUS
<1>5. V # {}
  BY <1>4, UnfoldsMeans
<1>6. V \ {One(V)} \notin Bad
  BY <1>3, <1>5, Chosen
<1>7. f[V \ {One(V)}] = g[V \ {One(V)}]
  BY <1>4, <1>6
<1>8. /\ f[V] = Bytes[One(V)] + f[V \ {One(V)}]
      /\ g[V] = Bytes[One(V)] + g[V \ {One(V)}]
  BY <1>4, <1>5, UnfoldsMeans
<1> QED
  BY <1>4, <1>7, <1>8

\* ... and there is one, built from those of the smaller sets.
LEMMA Unfolding == ASSUME NEW S, IsFiniteSet(S) PROVE Unfolds(Totals(S), S)
<1> DEFINE Bad == {U \in SUBSET S : ~ \E f : Unfolds(f, U)}
<1>1. ASSUME NEW U, \E f : Unfolds(f, U) PROVE Unfolds(Totals(U), U)
  BY <1>1 DEF Totals
<1>2. SUFFICES ASSUME Bad # {} PROVE FALSE
  BY <1>1
<1>3. PICK T \in Bad : \A U \in Bad : U \subseteq T => U = T
  <2>1. Bad \in SUBSET (SUBSET S)
    OBVIOUS
  <2> HIDE DEF Bad
  <2> QED
    BY <1>2, <2>1, LeastSet
<1>4. T \subseteq S /\ ~ \E f : Unfolds(f, T)
  OBVIOUS
<1>5. ASSUME NEW U, U \subseteq T, U # T PROVE Unfolds(Totals(U), U) /\ IsFiniteSet(U)
  <2>1. U \in SUBSET S /\ U \notin Bad
    BY <1>3, <1>5
  <2>2. IsFiniteSet(U)
    BY <2>1, FS_Subset
  <2> QED
    BY <1>1, <2>1, <2>2
<1> HIDE DEF Bad
<1> DEFINE rest == T \ {One(T)}
           whole == IF T = {} THEN 0 ELSE Bytes[One(T)] + Totals(rest)[rest]
           f == [U \in SUBSET T |-> IF U = T THEN whole ELSE Totals(U)[U]]
           body(U) == IF U = {} THEN 0 ELSE Bytes[One(U)] + f[U \ {One(U)}]
<1>6. f[T] = whole /\ \A U \in SUBSET T : U # T => f[U] = Totals(U)[U]
  OBVIOUS
<1>7. ASSUME NEW U \in SUBSET T PROVE f[U] = body(U)
  <2> DEFINE less == U \ {One(U)}
  <2>1. U # {} => less \subseteq U /\ less # U /\ less \subseteq T /\ less # T
    BY Chosen
  <2>2. CASE U = T
    <3>1. U # {} => f[less] = Totals(rest)[rest]
      BY <1>6, <2>1, <2>2
    <3> HIDE DEF f
    <3> QED
      BY <1>6, <2>2, <3>1
  <2>3. CASE U # T
    <3>1. f[U] = Totals(U)[U] /\ Unfolds(Totals(U), U) /\ IsFiniteSet(U)
      BY <1>5, <1>6, <2>3
    <3>2. Totals(U)[U] = IF U = {} THEN 0 ELSE Bytes[One(U)] + Totals(U)[less]
      BY <3>1, UnfoldsMeans
    <3>3. U # {} => f[less] = Totals(less)[less] /\ Unfolds(Totals(less), less)
      BY <1>5, <1>6, <2>1
    <3>4. U # {} => Totals(U)[less] = Totals(less)[less]
      <4> HIDE DEF less
      <4> QED
        BY <2>1, <3>1, <3>3, Agree
    <3> HIDE DEF f
    <3> QED
      BY <3>1, <3>2, <3>3, <3>4
  <2> QED
    BY <2>2, <2>3
<1>8. f = [U \in SUBSET T |-> body(U)]
  <2>1. f = [U \in SUBSET T |-> f[U]]
    OBVIOUS
  <2> HIDE DEF f, body
  <2> QED
    BY <1>7, <2>1
<1>9. Unfolds(f, T)
  BY <1>8 DEF Unfolds
<1> QED
  BY <1>4, <1>9

\* Memory is the bytes of one trace and the memory of the others.
LEMMA MemoryUnfolds ==
    ASSUME NEW S, IsFiniteSet(S)
    PROVE  Memory(S) = IF S = {} THEN 0 ELSE Bytes[One(S)] + Memory(S \ {One(S)})
<1> DEFINE rest == S \ {One(S)}
<1>1. Unfolds(Totals(S), S)
  BY Unfolding
<1>2. Totals(S)[S] = IF S = {} THEN 0 ELSE Bytes[One(S)] + Totals(S)[rest]
  BY <1>1, UnfoldsMeans
<1>3. Totals(S)[rest] = Totals(rest)[rest]
  <2>1. rest \subseteq S /\ IsFiniteSet(rest)
    BY FS_Subset
  <2>2. Unfolds(Totals(rest), rest)
    BY <2>1, Unfolding
  <2> HIDE DEF rest
  <2> QED
    BY <1>1, <2>1, <2>2, Agree
<1> QED
  BY <1>2, <1>3, MemoryTotals

\* The memory of a set is a number, and each of its traces adds its bytes.
Weighed(S) == Memory(S) \in Nat /\ \A x \in S : Memory(S) = Bytes[x] + Memory(S \ {x})

\* Whichever trace the sum takes first.
LEMMA Weighing == ASSUME NEW S \in SUBSET Traces, IsFiniteSet(S) PROVE Weighed(S)
<1> DEFINE Bad == {U \in SUBSET S : ~Weighed(U)}
<1>1. SUFFICES ASSUME Bad # {} PROVE FALSE
  OBVIOUS
<1>2. PICK T \in Bad : \A U \in Bad : U \subseteq T => U = T
  <2>1. Bad \in SUBSET (SUBSET S)
    OBVIOUS
  <2> HIDE DEF Bad
  <2> QED
    BY <1>1, <2>1, LeastSet
<1>3. T \subseteq S /\ ~Weighed(T) /\ IsFiniteSet(T)
  BY FS_Subset
<1>4. ASSUME NEW U, U \subseteq T, U # T PROVE Weighed(U) /\ IsFiniteSet(U)
  BY <1>2, <1>3, <1>4, FS_Subset
<1> HIDE DEF Bad
<1>5. T = {} => Weighed(T)
  BY <1>3, MemoryUnfolds DEF Weighed
<1> DEFINE c == One(T)
<1>6. /\ c \in T /\ Bytes[c] \in Nat
      /\ Memory(T) = Bytes[c] + Memory(T \ {c})
      /\ Memory(T \ {c}) \in Nat
  <2>1. T # {} /\ c \in T
    BY <1>3, <1>5, Chosen
  <2>2. Memory(T) = Bytes[c] + Memory(T \ {c})
    BY <1>3, <2>1, MemoryUnfolds
  <2>3. Weighed(T \ {c})
    BY <1>4, <2>1
  <2>4. c \in Traces
    BY <1>3, <2>1
  <2> QED
    BY <2>1, <2>2, <2>3, <2>4, TracesAssumption DEF Weighed
<1> HIDE DEF c
<1>7. ASSUME NEW x \in T PROVE Memory(T) = Bytes[x] + Memory(T \ {x})
  <2>1. CASE x = c
    BY <1>6, <2>1
  <2>2. CASE x # c
    <3>1. Memory(T \ {c}) = Bytes[x] + Memory((T \ {c}) \ {x})
      BY <1>4, <1>6, <2>2 DEF Weighed
    <3>2. Memory(T \ {x}) = Bytes[c] + Memory((T \ {x}) \ {c}) /\ Memory(T \ {x}) \in Nat
      BY <1>4, <1>6, <2>2 DEF Weighed
    <3>3. Memory((T \ {c}) \ {x}) = Memory((T \ {x}) \ {c})
      <4>1. (T \ {c}) \ {x} = (T \ {x}) \ {c}
        OBVIOUS
      <4> QED
        BY ONLY <4>1, Zenon
    <3>4. Memory((T \ {x}) \ {c}) \in Nat
      BY <1>4, <1>6 DEF Weighed
    <3>5. Bytes[x] \in Nat
      BY <1>3, TracesAssumption
    <3> QED
      BY <1>6, <3>1, <3>2, <3>3, <3>4, <3>5
  <2> QED
    BY <2>1, <2>2
<1>8. Memory(T) \in Nat
  BY <1>6
<1> QED
  BY <1>3, <1>7, <1>8 DEF Weighed

\* Memory adds up over disjoint sets.
LEMMA MemoryAdds ==
    ASSUME NEW A \in SUBSET Traces, IsFiniteSet(A), NEW B \in SUBSET Traces, IsFiniteSet(B), A \cap B = {}
    PROVE  Memory(A \cup B) = Memory(A) + Memory(B)
<1> DEFINE Bad == {U \in SUBSET B : Memory(A \cup U) # Memory(A) + Memory(U)}
<1>1. SUFFICES ASSUME Bad # {} PROVE FALSE
  OBVIOUS
<1>2. PICK T \in Bad : \A U \in Bad : U \subseteq T => U = T
  <2>1. Bad \in SUBSET (SUBSET B)
    OBVIOUS
  <2> HIDE DEF Bad
  <2> QED
    BY <1>1, <2>1, LeastSet
<1>3. /\ T \subseteq B /\ Memory(A \cup T) # Memory(A) + Memory(T)
      /\ IsFiniteSet(T) /\ IsFiniteSet(A \cup T)
  BY FS_Subset, FS_Union
<1>4. Weighed(A) /\ Weighed(T) /\ Weighed(A \cup T)
  <2>1. A \cup T \in SUBSET Traces /\ T \in SUBSET Traces
    BY <1>3
  <2> QED
    BY <1>3, <2>1, Weighing
<1>5. T # {}
  <2>1. Memory({}) = 0
    BY MemoryUnfolds, FS_EmptySet
  <2>2. T = {} => A \cup T = A
    OBVIOUS
  <2>3. T = {} => Memory(A \cup T) = Memory(A) /\ Memory(T) = 0
    BY <2>1, <2>2, Zenon
  <2> QED
    BY <1>3, <1>4, <2>3 DEF Weighed
<1>6. PICK x \in T : TRUE
  BY <1>5
<1>7. Memory(A \cup (T \ {x})) = Memory(A) + Memory(T \ {x})
  BY <1>2, <1>3
<1>8. (A \cup T) \ {x} = A \cup (T \ {x})
  BY <1>3
<1>9. Memory(A \cup T) = Bytes[x] + Memory(A \cup (T \ {x})) /\ Memory(T) = Bytes[x] + Memory(T \ {x})
  BY <1>4, <1>8 DEF Weighed
<1>10. Memory(A) \in Nat /\ Memory(T \ {x}) \in Nat /\ Bytes[x] \in Nat
  <2>1. T \ {x} \in SUBSET Traces /\ IsFiniteSet(T \ {x}) /\ x \in Traces
    BY <1>3, FS_Subset
  <2> QED
    BY <1>4, <2>1, Weighing, TracesAssumption DEF Weighed
<1> QED
  BY <1>3, <1>7, <1>9, <1>10

\* A trace that comes or goes changes the memory by its bytes.
LEMMA MemoryChanges ==
    ASSUME NEW S \in SUBSET Traces, IsFiniteSet(S), NEW t \in Traces
    PROVE  /\ Memory(S) \in Nat /\ Bytes[t] \in Nat
           /\ IsFiniteSet(S \cup {t}) /\ IsFiniteSet(S \ {t})
           /\ t \notin S => Memory(S \cup {t}) = Memory(S) + Bytes[t]
           /\ t \in S => Memory(S \ {t}) = Memory(S) - Bytes[t] /\ Bytes[t] <= Memory(S)
<1>1. Memory(S) \in Nat /\ Bytes[t] \in Nat
  BY Weighing, TracesAssumption DEF Weighed
<1>2. IsFiniteSet(S \cup {t}) /\ IsFiniteSet(S \ {t})
  BY FS_AddElement, FS_RemoveElement
<1>3. ASSUME t \notin S PROVE Memory(S \cup {t}) = Memory(S) + Bytes[t]
  <2>1. Memory(S \cup {t}) = Bytes[t] + Memory((S \cup {t}) \ {t})
    BY <1>2, Weighing DEF Weighed
  <2>2. Memory((S \cup {t}) \ {t}) = Memory(S)
    <3>1. (S \cup {t}) \ {t} = S
      BY <1>3
    <3> QED
      BY ONLY <3>1, Zenon
  <2> QED
    BY <1>1, <2>1, <2>2
<1>4. ASSUME t \in S PROVE Memory(S \ {t}) = Memory(S) - Bytes[t] /\ Bytes[t] <= Memory(S)
  <2>1. Memory(S) = Bytes[t] + Memory(S \ {t}) /\ Memory(S \ {t}) \in Nat
    BY <1>2, <1>4, Weighing DEF Weighed
  <2> QED
    BY <1>1, <2>1
<1> QED
  BY <1>1, <1>2, <1>3, <1>4

-----------------------------------------------------------------------------
(* The byte budget.                                                        *)

\* The traces that hold permits.
Admitted == {t \in Traces : trace[t] = "admitted"}
Holding  == Admitted \cup Waiting \cup batch

\* What waits is at a place of the queue.
LEMMA WaitingMeans ==
    ASSUME Shape, Shape'
    PROVE  /\ \A t : t \in Waiting <=> t \in Traces /\ \E i \in Positions : queue[i] = t
           /\ \A t : t \in Waiting' <=> t \in Traces /\ \E i \in Positions' : queue'[i] = t
<1>1. DOMAIN queue = Positions /\ DOMAIN queue' = Positions'
  <2>1. DOMAIN queue = 1 .. Len(queue)
    BY LenProperties DEF Shape
  <2>2. DOMAIN queue' = 1 .. Len(queue')
    <3>1. queue' \in Seq(Traces \cup Flushes)
      BY DEF Shape
    <3> QED
      BY <3>1, LenProperties
  <2> QED
    BY <2>1, <2>2 DEF Positions
<1>2. \A t : t \in ToSet(queue) <=> \E i \in Positions : queue[i] = t
  BY <1>1 DEF ToSet
<1>3. \A t : t \in ToSet(queue)' <=> \E i \in Positions' : queue'[i] = t
  BY <1>1 DEF ToSet
<1> QED
  BY <1>2, <1>3 DEF Waiting

\* How sending and taking change what waits.
LEMMA WaitingSteps ==
    ASSUME Shape, Shape', Once, [Next]_vars
    PROVE  /\ \A t \in Traces : Send(t) => Waiting' = Waiting \cup {t}
           /\ TakeTrace => /\ Head(queue) \in Waiting
                           /\ Waiting' \cup {Head(queue)} = Waiting
           /\ TakeFlush => Waiting' = Waiting
           /\ \A f \in Flushes : SendFlush(f) => Waiting' = Waiting
           /\ Die => Waiting' = {}
           /\ UNCHANGED queue => Waiting' = Waiting
<1> DEFINE There(t)  == t \in Traces /\ \E i \in Positions : queue[i] = t
           Later(t) == t \in Traces /\ \E i \in Positions' : queue'[i] = t
<1>0. /\ \A t : t \in Waiting <=> There(t)
      /\ \A t : t \in Waiting' <=> Later(t)
  BY WaitingMeans
<1>1. queue \in Seq(Traces \cup Flushes) /\ Len(queue) \in Nat /\ Traces \cap Flushes = {}
  BY LenProperties, TracesAssumption DEF Shape
<1>2. ASSUME NEW x \in Traces \cup Flushes, queue' = Append(queue, x)
      PROVE  \A t : Later(t) <=> There(t) \/ (t = x /\ x \in Traces)
  <2>1. /\ Positions' = Positions \cup {Len(queue) + 1}
        /\ \A i \in Positions : queue'[i] = queue[i]
        /\ queue'[Len(queue) + 1] = x
    BY <1>1, <1>2, AppendProperties DEF Positions
  <2> QED
    BY <2>1
<1>3. ASSUME TakeTrace \/ TakeFlush
      PROVE  /\ 1 \in Positions /\ Head(queue) = queue[1]
             /\ \A t : Later(t) \/ (t = queue[1] /\ t \in Traces) <=> There(t)
  <2>1. queue # <<>> /\ queue' = Tail(queue)
    BY <1>3 DEF TakeTrace, TakeFlush
  <2>2. Len(queue) # 0
    BY <1>1, <2>1, EmptySeq
  <2>3. /\ Head(queue) = queue[1] /\ Len(queue') = Len(queue) - 1
        /\ \A i \in 1 .. Len(queue) - 1 : queue'[i] = queue[i + 1]
    BY <1>1, <2>1, HeadTailProperties
  <2>4. \A t : Later(t) \/ (t = queue[1] /\ t \in Traces) <=> There(t)
    <3>1. ASSUME NEW i \in Positions, i # 1 PROVE i - 1 \in Positions' /\ queue'[i - 1] = queue[i]
      <4>1. i - 1 \in 1 .. Len(queue) - 1 /\ (i - 1) + 1 = i
        BY <1>1, <3>1 DEF Positions
      <4>2. queue'[i - 1] = queue[(i - 1) + 1]
        BY <2>3, <4>1
      <4> QED
        BY <2>3, <4>1, <4>2 DEF Positions
    <3>2. \A i \in Positions' : i + 1 \in Positions /\ queue'[i] = queue[i + 1]
      BY <1>1, <2>3 DEF Positions
    <3>3. 1 \in Positions
      BY <1>1, <2>2 DEF Positions
    <3> QED
      BY <3>1, <3>2, <3>3
  <2> QED
    BY <1>1, <2>2, <2>3, <2>4 DEF Positions
<1>4. Die => \A t : ~Later(t)
  <2>1. Die => Positions' = {}
    BY EmptySeq DEF Die, Positions
  <2> QED
    BY <2>1
<1>5. UNCHANGED queue => \A t : Later(t) <=> There(t)
  BY DEF Positions
<1> HIDE DEF There, Later
<1>6. ASSUME NEW t \in Traces, Send(t) PROVE Waiting' = Waiting \cup {t}
  BY <1>0, <1>2, <1>6 DEF Send
<1>7. ASSUME TakeTrace PROVE Head(queue) \in Waiting /\ Waiting' \cup {Head(queue)} = Waiting
  <2>1. Head(queue) \in Traces
    BY <1>7 DEF TakeTrace
  <2> QED
    BY <1>0, <1>3, <1>7, <2>1
<1>8. ASSUME TakeFlush PROVE Waiting' = Waiting
  <2>1. Head(queue) \notin Traces
    BY <1>1, <1>8 DEF TakeFlush
  <2> QED
    BY <1>0, <1>3, <1>8, <2>1
<1>9. ASSUME NEW f \in Flushes, SendFlush(f) PROVE Waiting' = Waiting
  BY <1>0, <1>1, <1>2, <1>9 DEF SendFlush
<1>10. Die => Waiting' = {}
  BY <1>0, <1>4
<1>11. UNCHANGED queue => Waiting' = Waiting
  BY <1>0, <1>5
<1> QED
  BY <1>6, <1>7, <1>8, <1>9, <1>10, <1>11


\* Which steps change what holds permits, and by what.
LEMMA HoldingSteps ==
    ASSUME Shape, Shape', Phases, Once, [Next]_vars
    PROVE  \/ Holding' = Holding /\ available' = available
           \/ \E t \in Traces \ Holding : /\ Bytes[t] <= available
                                          /\ Holding' = Holding \cup {t}
                                          /\ available' = available - Bytes[t]
           \/ \E t \in Holding : Holding' = Holding \ {t} /\ available' = available + Bytes[t]
           \/ /\ Holding' = Admitted /\ Holding = Admitted \cup (batch \cup Waiting)
              /\ Admitted \cap (batch \cup Waiting) = {}
              /\ available' = available + Memory(batch \cup Waiting)
<1>1. /\ \A t \in Waiting : trace[t] = "queued" /\ t \notin batch
      /\ \A t \in batch : trace[t] = "queued"
      /\ Waiting \subseteq Traces
  <2>1. \A t \in Waiting : trace[t] = "queued" /\ ~Handed(t) /\ t \in Traces
    BY WaitingMeans DEF Once
  <2>2. \A t \in batch : Handed(t) /\ t \in Traces
    BY DEF Handed, Shape
  <2> QED
    BY <2>1, <2>2 DEF Once, Handed
<1>2. ASSUME NEW t \in Traces, Admit(t)
      PROVE  /\ t \notin Holding /\ Bytes[t] <= available
             /\ Holding' = Holding \cup {t} /\ available' = available - Bytes[t]
  <2>1. Waiting' = Waiting /\ batch' = batch
    BY <1>2, WaitingSteps DEF Admit, worker
  <2>2. t \notin Admitted /\ Admitted' = Admitted \cup {t}
    BY <1>2 DEF Admit, Admitted, Shape
  <2>3. t \notin Waiting /\ t \notin batch
    BY <1>1, <1>2 DEF Admit
  <2> QED
    BY <1>2, <2>1, <2>2, <2>3 DEF Admit, Holding
<1>3. ASSUME NEW t \in Traces, Exceed(t) PROVE Holding' = Holding /\ available' = available
  <2>1. Waiting' = Waiting /\ batch' = batch
    BY <1>3, WaitingSteps DEF Exceed, worker
  <2>2. Admitted' = Admitted
    BY <1>3 DEF Exceed, Admitted, Shape
  <2> QED
    BY <1>3, <2>1, <2>2 DEF Exceed, Holding
<1>4. ASSUME NEW t \in Traces, Send(t) PROVE Holding' = Holding /\ available' = available
  <2>1. Waiting' = Waiting \cup {t} /\ batch' = batch
    BY <1>4, WaitingSteps DEF Send
  <2>2. t \in Admitted /\ Admitted' = Admitted \ {t}
    BY <1>4 DEF Send, Admitted, Shape
  <2> QED
    BY <1>4, <2>1, <2>2 DEF Send, Holding
<1>5. ASSUME NEW t \in Traces, Overflow(t)
      PROVE  t \in Holding /\ Holding' = Holding \ {t} /\ available' = available + Bytes[t]
  <2>1. Waiting' = Waiting /\ batch' = batch
    BY <1>5, WaitingSteps DEF Overflow, worker
  <2>2. t \in Admitted /\ Admitted' = Admitted \ {t}
    BY <1>5 DEF Overflow, Admitted, Shape
  <2>3. t \notin Waiting /\ t \notin batch
    BY <1>1, <1>5 DEF Overflow
  <2> QED
    BY <1>5, <2>1, <2>2, <2>3 DEF Overflow, Holding
<1>6. ASSUME TakeTrace PROVE Holding' = Holding /\ available' = available
  <2>1. /\ Head(queue) \in Waiting /\ Waiting' \cup {Head(queue)} = Waiting
        /\ batch' = batch \cup {Head(queue)}
    BY <1>6, WaitingSteps DEF TakeTrace
  <2>2. Admitted' = Admitted /\ available' = available
    BY <1>6 DEF TakeTrace, handlers, Admitted
  <2> QED
    BY <2>1, <2>2 DEF Holding
<1>7. ASSUME NEW t \in batch, Persist(t)
      PROVE  t \in Holding /\ Holding' = Holding \ {t} /\ available' = available + Bytes[t]
  <2>1. Waiting' = Waiting /\ batch' = batch \ {t}
    BY <1>7, WaitingSteps DEF Persist
  <2>2. Admitted' = Admitted /\ t \notin Admitted /\ t \notin Waiting
    BY <1>1, <1>7 DEF Persist, Admitted
  <2> QED
    BY <1>7, <2>1, <2>2 DEF Persist, Holding
<1>8. ASSUME Die
      PROVE  /\ Holding' = Admitted /\ Holding = Admitted \cup (batch \cup Waiting)
             /\ Admitted \cap (batch \cup Waiting) = {}
             /\ available' = available + Memory(batch \cup Waiting)
  <2>1. Waiting' = {} /\ batch' = {} /\ Admitted' = Admitted
    BY <1>8, WaitingSteps DEF Die, Admitted
  <2>2. Admitted \cap (batch \cup Waiting) = {}
    BY <1>1 DEF Admitted
  <2> QED
    BY <1>8, <2>1, <2>2 DEF Die, Holding
<1>9. ASSUME \/ \E f \in Flushes : SendFlush(f) \/ RefuseFlush(f)
             \/ TakeFlush \/ EndBatch \/ Observe \/ Tick \/ Roll \/ EndPass \/ Answer
             \/ \E s \in pending : StoreShard(s) \/ FailShard(s)
             \/ UNCHANGED vars
      PROVE  Holding' = Holding /\ available' = available
  <2>1. \/ UNCHANGED queue \/ TakeFlush \/ \E f \in Flushes : SendFlush(f)
    BY <1>9 DEF RefuseFlush, EndBatch, Observe, Tick, Roll, EndPass, Answer, StoreShard, FailShard, vars, worker
  <2>2. UNCHANGED <<trace, available, batch>>
    BY <1>9 DEF SendFlush, RefuseFlush, TakeFlush, EndBatch, Observe, Tick, Roll, EndPass, Answer,
                StoreShard, FailShard, vars, worker, handlers
  <2>3. Waiting' = Waiting
    BY <2>1, WaitingSteps
  <2> QED
    BY <2>2, <2>3 DEF Holding, Admitted
<1>10. \/ \E t \in Traces : Admit(t) \/ Exceed(t) \/ Send(t) \/ Overflow(t)
       \/ TakeTrace \/ (\E t \in batch : Persist(t)) \/ Die
       \/ \E f \in Flushes : SendFlush(f) \/ RefuseFlush(f)
       \/ TakeFlush \/ EndBatch \/ Observe \/ Tick \/ Roll \/ EndPass \/ Answer
       \/ \E s \in pending : StoreShard(s) \/ FailShard(s)
       \/ UNCHANGED vars
  BY DEF Next, HandlerStep, WorkerStep
<1> QED
  BY <1>2, <1>3, <1>4, <1>5, <1>6, <1>7, <1>8, <1>9, <1>10

\* The permits out are those of the traces that hold some.
Permits ==
    /\ IsFiniteSet(Holding) /\ Holding \subseteq Traces
    /\ available \in Nat /\ BudgetConserved

\* No step loses or invents a permit.
LEMMA PermitsStep == ASSUME Shape, Shape', Phases, Once, Permits, [Next]_vars PROVE Permits'
<1>0. /\ Holding \in SUBSET Traces /\ IsFiniteSet(Holding) /\ Memory(Holding) \in Nat
      /\ available \in Nat /\ available + Memory(Holding) = Budget
  BY Weighing DEF Permits, BudgetConserved, Holding, Admitted, Weighed
<1>1. /\ \A A : Holding' = A => Memory(Holding') = Memory(A) /\ (IsFiniteSet(A) => IsFiniteSet(Holding'))
      /\ Budget \in Nat
  BY BoundsAssumption
<1>2. SUFFICES /\ IsFiniteSet(Holding') /\ Holding' \subseteq Traces
               /\ available' \in Nat /\ available' + Memory(Holding') = Budget
  BY DEF Permits, BudgetConserved, Holding, Admitted
<1>3. CASE Holding' = Holding /\ available' = available
  BY <1>0, <1>1, <1>3
<1>4. ASSUME NEW t \in Traces \ Holding, Bytes[t] <= available,
             Holding' = Holding \cup {t}, available' = available - Bytes[t]
      PROVE  /\ IsFiniteSet(Holding') /\ Holding' \subseteq Traces
             /\ available' \in Nat /\ available' + Memory(Holding') = Budget
  <2>1. /\ IsFiniteSet(Holding \cup {t}) /\ Bytes[t] \in Nat
        /\ Memory(Holding \cup {t}) = Memory(Holding) + Bytes[t]
    BY <1>0, MemoryChanges
  <2>2. Memory(Holding') = Memory(Holding) + Bytes[t] /\ IsFiniteSet(Holding')
    BY <1>1, <1>4, <2>1
  <2>3. Holding' \subseteq Traces
    BY <1>0, <1>4
  <2> QED
    BY <1>0, <1>4, <2>1, <2>2, <2>3
<1>5. ASSUME NEW t \in Holding, Holding' = Holding \ {t}, available' = available + Bytes[t]
      PROVE  /\ IsFiniteSet(Holding') /\ Holding' \subseteq Traces
             /\ available' \in Nat /\ available' + Memory(Holding') = Budget
  <2>1. /\ IsFiniteSet(Holding \ {t}) /\ Bytes[t] \in Nat
        /\ Memory(Holding \ {t}) = Memory(Holding) - Bytes[t]
    BY <1>0, MemoryChanges
  <2>2. Memory(Holding') = Memory(Holding) - Bytes[t] /\ IsFiniteSet(Holding')
    BY <1>1, <1>5, <2>1
  <2>3. Holding' \subseteq Traces
    BY <1>0, <1>5
  <2> QED
    BY <1>0, <1>5, <2>1, <2>2, <2>3
<1>6. ASSUME Holding' = Admitted, Holding = Admitted \cup (batch \cup Waiting),
             Admitted \cap (batch \cup Waiting) = {}, available' = available + Memory(batch \cup Waiting)
      PROVE  /\ IsFiniteSet(Holding') /\ Holding' \subseteq Traces
             /\ available' \in Nat /\ available' + Memory(Holding') = Budget
  <2> DEFINE Lost == batch \cup Waiting
  <2>1. Admitted \in SUBSET Holding /\ Lost \in SUBSET Holding
    BY <1>6
  <2>2. IsFiniteSet(Admitted) /\ IsFiniteSet(Lost) /\ Admitted \in SUBSET Traces /\ Lost \in SUBSET Traces
    BY <1>0, <2>1, FS_Subset
  <2>3. Admitted \cap Lost = {} /\ Holding = Admitted \cup Lost /\ available' = available + Memory(Lost)
    BY <1>6
  <2> HIDE DEF Lost
  <2>4. Memory(Admitted \cup Lost) = Memory(Admitted) + Memory(Lost)
    BY <2>2, <2>3, MemoryAdds
  <2>5. Memory(Holding) = Memory(Admitted) + Memory(Lost)
    BY <2>3, <2>4
  <2>6. Memory(Admitted) \in Nat /\ Memory(Lost) \in Nat
    BY <2>2, Weighing DEF Weighed
  <2>7. Memory(Holding') = Memory(Admitted) /\ IsFiniteSet(Holding') /\ Holding' \subseteq Traces
    BY <1>1, <1>6, <2>2
  <2> QED
    BY <1>0, <2>3, <2>5, <2>6, <2>7
<1> QED
  BY <1>3, <1>4, <1>5, <1>6, HoldingSteps


-----------------------------------------------------------------------------
(* The types.                                                              *)

\* The types of what the worker counts.
Ledger ==
    /\ Len(queue) <= Slots
    /\ stats \in [Hours -> SUBSET Facts]
    /\ pending \subseteq Shard /\ failed \subseteq Shard /\ shards \subseteq Shard
    /\ lastPass \in BOOLEAN /\ key \in Nat /\ failures \in 0 .. MaxFaults
    /\ reported \subseteq Facts

\* The counters count facts.
LEMMA CountersTyped == ASSUME failures \in 0 .. MaxFaults PROVE Counters \subseteq Facts
<1>1. 1 .. failures \subseteq 1 .. MaxFaults
  BY BoundsAssumption
<1> QED
  BY <1>1 DEF Counters, Facts, Dropped

\* A full queue takes nothing more.
LEMMA QueueBounded == ASSUME Shape, Len(queue) <= Slots, [Next]_vars PROVE Len(queue') <= Slots
<1>1. queue \in Seq(Traces \cup Flushes) /\ Len(queue) \in Nat /\ Slots \in Nat
  BY LenProperties, BoundsAssumption DEF Shape
<1>2. \/ UNCHANGED queue
      \/ Len(queue) < Slots /\ \E x \in Traces \cup Flushes : queue' = Append(queue, x)
      \/ queue # <<>> /\ queue' = Tail(queue)
      \/ queue' = <<>>
  BY DEF Next, HandlerStep, WorkerStep, Die, Admit, Exceed, Send, Overflow, SendFlush, RefuseFlush,
         TakeTrace, TakeFlush, EndBatch, Observe, Tick, Roll, EndPass, Answer, Persist, StoreShard, FailShard,
         vars, handlers, worker
<1>3. \A x \in Traces \cup Flushes : Len(Append(queue, x)) = Len(queue) + 1
  BY <1>1, AppendProperties
<1>4. queue # <<>> => Len(Tail(queue)) = Len(queue) - 1
  BY <1>1, HeadTailProperties
<1>5. Len(<<>>) = 0
  BY EmptySeq
<1> QED
  BY <1>1, <1>2, <1>3, <1>4, <1>5

\* No step counts anything that is no fact.
LEMMA LedgerStep == ASSUME Shape, Ledger, [Next]_vars PROVE Ledger'
<1>1. CASE Observe
  <2>1. \A h \in Hours : {Seen(t) : t \in {u \in results \ Foreign : Hour[u] = h}} \subseteq Facts
    BY DEF Shape, Facts
  <2>2. stats' \in [Hours -> SUBSET Facts]
    <3>1. \A h \in Hours : stats[h] \cup {Seen(t) : t \in {u \in results \ Foreign : Hour[u] = h}} \in SUBSET Facts
      BY <2>1 DEF Ledger
    <3> QED
      BY <1>1, <3>1 DEF Observe
  <2> QED
    BY <1>1, <2>2 DEF Observe, Ledger
<1>2. CASE Roll
  <2>0. Counters \subseteq Facts
    BY CountersTyped DEF Ledger
  <2>1. PICK h \in Hours :
          LET new    == IF SingleScope THEN Counters \ reported ELSE {}
              facts  == [stats EXCEPT ![h] = @ \cup new]
              filled == {i \in Hours : facts[i] # {}}
          IN IF failed # {}
             THEN stats' = facts /\ pending' = failed /\ key' = key
             ELSE /\ pending' = {[key |-> key, hour |-> i, facts |-> facts[i]] : i \in filled}
                  /\ stats' = [i \in Hours |-> {}]
                  /\ key' = IF filled = {} THEN key ELSE key + 1
    BY <1>2 DEF Roll
  <2> DEFINE new    == IF SingleScope THEN Counters \ reported ELSE {}
             facts  == [stats EXCEPT ![h] = @ \cup new]
             filled == {i \in Hours : facts[i] # {}}
  <2>2. facts \in [Hours -> SUBSET Facts]
    BY <2>0 DEF Ledger
  <2>3. \/ stats' = facts /\ pending' = failed /\ key' = key
        \/ /\ pending' = {[key |-> key, hour |-> i, facts |-> facts[i]] : i \in filled}
           /\ stats' = [i \in Hours |-> {}]
           /\ key' \in {key, key + 1}
    BY <2>1
  <2> HIDE DEF facts
  <2>4. stats' \in [Hours -> SUBSET Facts] /\ key' \in Nat
    BY <2>2, <2>3 DEF Ledger
  <2>5. pending' \subseteq Shard
    <3>1. \A i \in filled : [key |-> key, hour |-> i, facts |-> facts[i]] \in Shard
      BY <2>2 DEF Shard, Ledger
    <3> QED
      BY <2>3, <3>1 DEF Ledger
  <2>6. /\ failed' = {} /\ reported' = Counters /\ lastPass' \in BOOLEAN
        /\ UNCHANGED <<queue, shards, failures>>
    BY <1>2 DEF Roll, Ledger
  <2> QED
    BY <2>0, <2>4, <2>5, <2>6 DEF Ledger
<1>3. ASSUME NEW s \in pending, FailShard(s) PROVE Ledger'
  <2>1. failures' \in 0 .. MaxFaults
    BY <1>3, BoundsAssumption DEF FailShard, Ledger
  <2>2. /\ pending' \subseteq Shard /\ failed' \subseteq Shard /\ shards' \subseteq Shard
        /\ UNCHANGED <<queue, stats, lastPass, reported, key>>
    BY <1>3 DEF FailShard, Ledger
  <2> QED
    BY <2>1, <2>2 DEF Ledger
<1>4. CASE ~Observe /\ ~Roll /\ ~\E s \in pending : FailShard(s)
  <2>1. /\ stats' = stats /\ key' = key /\ failures' = failures /\ reported' = reported
        /\ lastPass' \in {lastPass, FALSE}
    BY <1>4 DEF Next, HandlerStep, WorkerStep, Die, Admit, Exceed, Send, Overflow, SendFlush, RefuseFlush,
         TakeTrace, TakeFlush, EndBatch, Tick, EndPass, Answer, Persist, StoreShard,
         vars, handlers, worker
  <2>2. /\ pending' \subseteq pending \cup failed
        /\ failed' \subseteq failed
        /\ shards' \subseteq shards \cup pending
    BY <1>4 DEF Next, HandlerStep, WorkerStep, Die, Admit, Exceed, Send, Overflow, SendFlush, RefuseFlush,
         TakeTrace, TakeFlush, EndBatch, Tick, EndPass, Answer, Persist, StoreShard,
         vars, handlers, worker
  <2>3. Len(queue') <= Slots
    BY QueueBounded DEF Ledger
  <2>4. pending' \subseteq Shard /\ failed' \subseteq Shard /\ shards' \subseteq Shard
    BY <2>2 DEF Ledger
  <2>5. lastPass' \in BOOLEAN
    BY <2>1 DEF Ledger
  <2> QED
    BY <2>1, <2>3, <2>4, <2>5 DEF Ledger
<1> QED
  BY <1>1, <1>2, <1>3, <1>4

-----------------------------------------------------------------------------

\* At the start every permit is available.
LEMMA PermitsInit == ASSUME Init PROVE Permits /\ Ledger
<1>1. queue = <<>> /\ Len(queue) = 0 /\ ToSet(queue) = {}
  <2>1. queue = <<>> /\ Len(queue) = 0 /\ DOMAIN queue = 1 .. 0
    BY EmptySeq, LenProperties DEF Init
  <2> QED
    BY <2>1 DEF ToSet
<1>2. Holding = {}
  BY <1>1 DEF Init, Holding, Admitted, Waiting
<1>3. Memory(Holding) = 0
  <2>1. Memory({}) = 0
    BY MemoryUnfolds, FS_EmptySet
  <2> QED
    BY <1>2, <2>1
<1>4. Permits
  <2>1. available = Budget /\ Budget \in Nat
    BY BoundsAssumption DEF Init
  <2>2. IsFiniteSet(Holding) /\ Holding \subseteq Traces
    BY <1>2, FS_EmptySet
  <2> QED
    BY <1>3, <2>1, <2>2 DEF Permits, BudgetConserved, Holding, Admitted
<1>5. Ledger
  <2>1. Len(queue) <= Slots /\ failures \in 0 .. MaxFaults /\ key \in Nat
    BY <1>1, BoundsAssumption DEF Init
  <2>2. stats \in [Hours -> SUBSET Facts] /\ lastPass \in BOOLEAN
    BY DEF Init
  <2> QED
    BY <2>1, <2>2 DEF Init, Ledger
<1> QED
  BY <1>4, <1>5

\* The byte budget and the ledger, invariantly.
LEMMA Bookkeeping == Spec => [](WriterInv /\ Permits /\ Ledger)
<1>1. WriterInv /\ Permits /\ Ledger /\ [Next]_vars => (WriterInv /\ Permits /\ Ledger)'
  BY WriterStep, PermitsStep, LedgerStep DEF WriterInv
<1> QED
  BY <1>1, WriterInit, PermitsInit, PTL DEF Spec

\* Every permit that is not available is held by a trace that is being sent,
\* queued or persisted (QueuedTrace::_budget), whatever sizes traces have.
THEOREM NoPermitLeaks == Spec => []BudgetConserved
<1>1. Permits => BudgetConserved
  BY DEF Permits
<1> QED
  BY <1>1, Bookkeeping, PTL

\* Every variable has its type, the available permits among them: they never
\* exceed the budget.
THEOREM Typing == Spec => []TypeOK
<1>1. WriterInv /\ Permits /\ Ledger => TypeOK
  <2> SUFFICES ASSUME WriterInv, Permits, Ledger PROVE TypeOK
    OBVIOUS
  <2>1. available \in 0 .. Budget
    <3>1. Holding \in SUBSET Traces /\ IsFiniteSet(Holding)
      BY DEF Permits
    <3>2. Memory(Holding) \in Nat
      BY <3>1, Weighing DEF Weighed
    <3>3. available \in Nat /\ available + Memory(Holding) = Budget /\ Budget \in Nat
      BY BoundsAssumption DEF Permits, BudgetConserved, Holding, Admitted
    <3> QED
      BY <3>2, <3>3
  <2> QED
    BY <2>1 DEF WriterInv, Shape, Ledger, TypeOK
<1> QED
  BY <1>1, Bookkeeping, PTL
=============================================================================
