--------------------------- MODULE CaptureWriter ---------------------------
(***************************************************************************)
(* The capture writer of the gateway: request handlers hand their traces   *)
(* to a bounded queue, and one worker task persists them in batches and    *)
(* counts them in statistics shards.  Handlers never wait: a trace that    *)
(* finds no byte budget or no slot is dropped and the drop is counted.     *)
(* The worker retries a shard the store did not take, and answers a flush  *)
(* once everything before it is stored, or tells that it is not.           *)
(*                                                                         *)
(* What a shard counts is modelled as a set of facts (this trace, this     *)
(* drop, this failed shard) rather than as numbers, so that a fact counted *)
(* twice or not at all shows.                                              *)
(*                                                                         *)
(* Source: crates/milk-carton/src/records.rs (Records::flush, try_enqueue, *)
(* RecordStore::run, process_batch, flush_stats, flush_pending_stats).     *)
(***************************************************************************)
EXTENDS Integers, FiniteSets, Sequences, SequencesExt, FiniteSetsExt

CONSTANTS
    Traces,       \* traces that handlers hand over, captured or only observed
    Foreign,      \* those whose catalog is not this writer's
    Bytes,        \* the memory each trace holds
    Hour,         \* the hour each trace occurred in
    Hours,        \* the hours the clock may show
    Flushes,      \* callers of Records::flush
    SingleScope,  \* whether the gateway serves one scope only
    Budget,       \* queue_max_bytes
    Slots,        \* TRACE_QUEUE_RECORDS
    BatchLimit,   \* 256
    MaxFaults,    \* bound on puts that fail
    Nobody        \* no flush in hand

ASSUME TracesAssumption ==
    /\ Foreign \subseteq Traces
    /\ Bytes \in [Traces -> Nat] /\ Hour \in [Traces -> Hours]
    /\ Nobody \notin Flushes /\ Traces \cap Flushes = {}
    /\ SingleScope \in BOOLEAN

ASSUME BoundsAssumption ==
    Budget \in Nat /\ Slots \in Nat /\ BatchLimit \in Nat \ {0} /\ MaxFaults \in Nat

VARIABLES
    \* the handlers
    trace,      \* how far each trace has come
    available,  \* permits left in queue_budget
    flush,      \* how far each flush has come
    before,     \* history: the traces queued when a flush was queued
    \* the worker
    queue,      \* traces and flushes, in the order they were sent
    pc,
    batch,      \* traces it has taken and not yet persisted
    results,    \* traces it has persisted, or failed to, and not yet counted
    asked,      \* the flush that ended its batch
    stats,      \* of each hour: the facts counted since the last shard
    pending,    \* shards still to be stored
    failed,     \* shards the pass in progress could not store
    lastPass,   \* whether the pass in progress is the second of a flush
    reported,   \* the drops and failures that are in the statistics
    key,        \* flush_id of the next shards
    \* the store
    shards,     \* the shards stored
    failures    \* statistics puts that failed, stats_persist_failures

handlers == <<trace, available, flush, before>>
worker   == <<queue, pc, batch, results, asked, stats, pending, failed, lastPass,
              reported, key>>
vars     == <<handlers, worker, shards, failures>>

-----------------------------------------------------------------------------

Drop(t)    == [kind |-> "drop", of |-> t]
Seen(t)    == [kind |-> "trace", of |-> t]
Failure(n) == [kind |-> "failure", of |-> n]

Dropped == {t \in Traces : trace[t] = "dropped"}

\* The counters of drops and failures, as the facts they count.
Counters == {Drop(t) : t \in Dropped} \cup {Failure(n) : n \in 1 .. failures}

\* The worker task runs.
Alive == pc # "dead"

\* The memory that traces hold.
Memory(ts) == MapThenSumSet(LAMBDA t : Bytes[t], ts)
Waiting    == Traces \cap ToSet(queue)

Init ==
    /\ trace = [t \in Traces |-> "new"] /\ available = Budget
    /\ flush = [f \in Flushes |-> "new"] /\ before = [f \in Flushes |-> {}]
    /\ queue = <<>> /\ pc = "idle" /\ batch = {} /\ results = {} /\ asked = Nobody
    /\ stats = [h \in Hours |-> {}] /\ pending = {} /\ failed = {}
    /\ lastPass = FALSE /\ reported = {} /\ key = 0
    /\ shards = {} /\ failures = 0

-----------------------------------------------------------------------------
(* The handlers: try_enqueue, and flush.                                   *)

\* The permits for the bytes of the trace are there ...
Admit(t) ==
    /\ trace[t] = "new" /\ Bytes[t] <= available
    /\ available' = available - Bytes[t]
    /\ trace' = [trace EXCEPT ![t] = "admitted"]
    /\ UNCHANGED <<flush, before, worker, shards, failures>>

\* ... or are not.
Exceed(t) ==
    /\ trace[t] = "new" /\ Bytes[t] > available
    /\ trace' = [trace EXCEPT ![t] = "dropped"]
    /\ UNCHANGED <<available, flush, before, worker, shards, failures>>

\* A queue without a bound.
SendUnbounded(t) ==
    /\ trace[t] = "admitted" /\ Alive
    /\ queue' = Append(queue, t)
    /\ trace' = [trace EXCEPT ![t] = "queued"]
    /\ UNCHANGED <<available, flush, before, pc, batch, results, asked, stats,
                   pending, failed, lastPass, reported, key, shards, failures>>

\* try_send: a slot is free ...
Send(t) ==
    /\ trace[t] = "admitted" /\ Len(queue) < Slots /\ Alive
    /\ queue' = Append(queue, t)
    /\ trace' = [trace EXCEPT ![t] = "queued"]
    /\ UNCHANGED <<available, flush, before, pc, batch, results, asked, stats,
                   pending, failed, lastPass, reported, key, shards, failures>>

\* A full queue that forgets to give the permits back.
OverflowKeeps(t) ==
    /\ trace[t] = "admitted" /\ (Len(queue) >= Slots \/ ~Alive)
    /\ trace' = [trace EXCEPT ![t] = "dropped"]
    /\ UNCHANGED <<available, flush, before, worker, shards, failures>>

\* ... or none is, or the worker is gone, and the permits are given back.
Overflow(t) ==
    /\ trace[t] = "admitted" /\ (Len(queue) >= Slots \/ ~Alive)
    /\ trace' = [trace EXCEPT ![t] = "dropped"]
    /\ available' = available + Bytes[t]
    /\ UNCHANGED <<flush, before, worker, shards, failures>>

\* Records::flush waits for a slot, then for the answer.
SendFlush(f) ==
    /\ flush[f] = "new" /\ Len(queue) < Slots /\ Alive
    /\ queue' = Append(queue, f)
    /\ flush' = [flush EXCEPT ![f] = "waiting"]
    /\ before' = [before EXCEPT ![f] = {t \in Traces : trace[t] = "queued"}]
    /\ UNCHANGED <<trace, available, pc, batch, results, asked, stats, pending,
                   failed, lastPass, reported, key, shards, failures>>

\* Without a worker it fails at once.
RefuseFlush(f) ==
    /\ flush[f] = "new" /\ ~Alive
    /\ flush' = [flush EXCEPT ![f] = "closed"]
    /\ UNCHANGED <<trace, available, before, worker, shards, failures>>

-----------------------------------------------------------------------------
(* The worker.                                                             *)

\* recv, then try_recv: the next item is a trace ...
TakeTrace ==
    /\ pc \in {"idle", "draining"} /\ asked = Nobody
    /\ Cardinality(batch) < BatchLimit
    /\ queue # <<>> /\ Head(queue) \in Traces
    /\ batch' = batch \cup {Head(queue)}
    /\ queue' = Tail(queue)
    /\ pc' = "draining"
    /\ UNCHANGED <<handlers, results, asked, stats, pending, failed, lastPass,
                   reported, key, shards, failures>>

\* ... or a flush, which ends the batch.
TakeFlush ==
    /\ pc \in {"idle", "draining"} /\ asked = Nobody
    /\ Cardinality(batch) < BatchLimit
    /\ queue # <<>> /\ Head(queue) \in Flushes
    /\ asked' = Head(queue)
    /\ queue' = Tail(queue)
    /\ pc' = "draining"
    /\ UNCHANGED <<handlers, batch, results, stats, pending, failed, lastPass,
                   reported, key, shards, failures>>

\* The batch is full, the queue is empty, or a flush was taken.
EndBatch ==
    /\ pc = "draining"
    /\ asked # Nobody \/ queue = <<>> \/ Cardinality(batch) = BatchLimit
    /\ pc' = "persisting"
    /\ UNCHANGED <<handlers, queue, batch, results, asked, stats, pending, failed,
                   lastPass, reported, key, shards, failures>>

\* persist_event of one trace of the batch returns, in whatever order, with or
\* without success; its permits are free.
Persist(t) ==
    /\ pc = "persisting" /\ t \in batch
    /\ batch' = batch \ {t}
    /\ results' = results \cup {t}
    /\ available' = available + Bytes[t]
    /\ UNCHANGED <<trace, flush, before, queue, pc, asked, stats, pending, failed,
                   lastPass, reported, key, shards, failures>>

\* The batch is persisted: count its traces, and flush if one was asked for.
Observe ==
    /\ pc = "persisting" /\ batch = {}
    /\ stats' = [h \in Hours |->
                   stats[h] \cup {Seen(t) : t \in {u \in results \ Foreign : Hour[u] = h}}]
    /\ results' = {}
    /\ pc' = IF asked = Nobody THEN "idle" ELSE "storing"
    /\ lastPass' = FALSE
    /\ UNCHANGED <<handlers, queue, batch, asked, pending, failed, reported, key,
                   shards, failures>>

\* The ticker fires.  A flush that would find nothing to do is left out: it
\* changes nothing.
Tick ==
    /\ pc = "idle"
    /\ \/ pending # {} \/ Counters # reported
       \/ \E h \in Hours : stats[h] # {}
    /\ pc' = "storing" /\ lastPass' = FALSE
    /\ UNCHANGED <<handlers, queue, batch, results, asked, stats, pending, failed,
                   reported, key, shards, failures>>

\* flush_pending_stats: a pending shard is stored, or is there already ...
StoreShard(s) ==
    /\ pc = "storing" /\ s \in pending
    /\ shards' = shards \cup {s}
    /\ pending' = pending \ {s}
    /\ UNCHANGED <<handlers, queue, pc, batch, results, asked, stats, failed, lastPass,
                   reported, key, failures>>

\* A shard the store did not take is not kept for a retry.
FailShardDrops(s) ==
    /\ pc = "storing" /\ s \in pending /\ failures < MaxFaults
    /\ shards' \in {shards, shards \cup {s}}
    /\ pending' = pending \ {s}
    /\ failures' = failures + 1
    /\ UNCHANGED <<handlers, queue, pc, batch, results, asked, stats, failed, lastPass,
                   reported, key>>

\* ... or the put fails, whether the store took it or not, and it is kept.
FailShard(s) ==
    /\ pc = "storing" /\ s \in pending /\ failures < MaxFaults
    /\ shards' \in {shards, shards \cup {s}}
    /\ pending' = pending \ {s}
    /\ failed' = failed \cup {s}
    /\ failures' = failures + 1
    /\ UNCHANGED <<handlers, queue, pc, batch, results, asked, stats, lastPass,
                   reported, key>>

\* A flush that also rolls over the shards it could not store.
RollAnew ==
    /\ pc = "storing" /\ pending = {} /\ ~lastPass
    /\ \E h \in Hours :
         LET new    == IF SingleScope THEN Counters \ reported ELSE {}
             facts  == [stats EXCEPT ![h] = @ \cup new \cup (UNION {s.facts : s \in failed})]
             filled == {i \in Hours : facts[i] # {}}
         IN /\ pending' = {[key |-> key, hour |-> i, facts |-> facts[i]] : i \in filled}
            /\ stats' = [i \in Hours |-> {}]
            /\ key' = IF filled = {} THEN key ELSE key + 1
    /\ failed' = {} /\ reported' = Counters
    /\ lastPass' = TRUE
    /\ UNCHANGED <<handlers, queue, pc, batch, results, asked, shards, failures>>

\* A flush that takes the snapshot of the counters before it returns early,
\* and adds what they gained to the statistics after.
RollForgets ==
    /\ pc = "storing" /\ pending = {} /\ ~lastPass
    /\ \E h \in Hours :
         LET new    == IF SingleScope THEN Counters \ reported ELSE {}
             facts  == [stats EXCEPT ![h] = @ \cup new]
             filled == {i \in Hours : facts[i] # {}}
         IN IF failed # {}
            THEN stats' = stats /\ pending' = failed /\ key' = key
            ELSE /\ pending' = {[key |-> key, hour |-> i, facts |-> facts[i]] : i \in filled}
                 /\ stats' = [i \in Hours |-> {}]
                 /\ key' = IF filled = {} THEN key ELSE key + 1
    /\ failed' = {} /\ reported' = Counters
    /\ IF failed # {}
       THEN pc' = "answer" /\ UNCHANGED lastPass
       ELSE lastPass' = TRUE /\ UNCHANGED pc
    /\ UNCHANGED <<handlers, queue, batch, results, asked, shards, failures>>

\* flush_stats, after the first pass over the pending shards: what the counters
\* gained goes into the statistics of the present hour; and unless a shard is
\* still pending, the statistics become shards for the second pass.
Roll ==
    /\ pc = "storing" /\ pending = {} /\ ~lastPass
    /\ \E h \in Hours :
         LET new    == IF SingleScope THEN Counters \ reported ELSE {}
             facts  == [stats EXCEPT ![h] = @ \cup new]
             filled == {i \in Hours : facts[i] # {}}
         IN IF failed # {}
            THEN stats' = facts /\ pending' = failed /\ key' = key
            ELSE /\ pending' = {[key |-> key, hour |-> i, facts |-> facts[i]] : i \in filled}
                 /\ stats' = [i \in Hours |-> {}]
                 /\ key' = IF filled = {} THEN key ELSE key + 1
    /\ failed' = {} /\ reported' = Counters
    /\ IF failed # {}
       THEN pc' = "answer" /\ UNCHANGED lastPass
       ELSE lastPass' = TRUE /\ UNCHANGED pc
    /\ UNCHANGED <<handlers, queue, batch, results, asked, shards, failures>>

\* The second pass is over.
EndPass ==
    /\ pc = "storing" /\ pending = {} /\ lastPass
    /\ pending' = failed /\ failed' = {}
    /\ pc' = "answer"
    /\ UNCHANGED <<handlers, queue, batch, results, asked, stats, lastPass, reported,
                   key, shards, failures>>

\* A flush that is answered only when there is good news.
AnswerStored ==
    /\ pc = "answer"
    /\ flush' = IF asked # Nobody /\ pending = {}
                THEN [flush EXCEPT ![asked] = "stored"] ELSE flush
    /\ asked' = Nobody
    /\ pc' = "idle"
    /\ UNCHANGED <<trace, available, before, queue, batch, results, stats, pending,
                   failed, lastPass, reported, key, shards, failures>>

\* An answer that does not look at the shards still pending.
AnswerIgnoresPending ==
    /\ pc = "answer"
    /\ flush' = IF asked = Nobody THEN flush
                ELSE [flush EXCEPT ![asked] =
                        IF \A h \in Hours : stats[h] = {} THEN "stored" ELSE "failed"]
    /\ asked' = Nobody
    /\ pc' = "idle"
    /\ UNCHANGED <<trace, available, before, queue, batch, results, stats, pending,
                   failed, lastPass, reported, key, shards, failures>>

\* The flush in hand learns whether everything is stored.
Answer ==
    /\ pc = "answer"
    /\ flush' = IF asked = Nobody THEN flush
                ELSE [flush EXCEPT ![asked] =
                        IF pending = {} /\ \A h \in Hours : stats[h] = {}
                        THEN "stored" ELSE "failed"]
    /\ asked' = Nobody
    /\ pc' = "idle"
    /\ UNCHANGED <<trace, available, before, queue, batch, results, stats, pending,
                   failed, lastPass, reported, key, shards, failures>>

\* The worker task ends (a panic, or the process stops): what it had is lost,
\* the permits of what it had or would have received are given back, and a
\* flush that waits learns that the worker is gone.
Die ==
    /\ Alive
    /\ pc' = "dead"
    /\ available' = available + Memory(batch \cup Waiting)
    /\ queue' = <<>> /\ batch' = {} /\ results' = {}
    /\ flush' = [f \in Flushes |-> IF flush[f] = "waiting" THEN "closed" ELSE flush[f]]
    /\ UNCHANGED <<trace, before, asked, stats, pending, failed, lastPass, reported,
                   key, shards, failures>>

-----------------------------------------------------------------------------

HandlerStep ==
    \/ \E t \in Traces : Admit(t) \/ Exceed(t) \/ Send(t) \/ Overflow(t)
    \/ \E f \in Flushes : SendFlush(f) \/ RefuseFlush(f)

WorkerStep ==
    \/ TakeTrace \/ TakeFlush \/ EndBatch \/ Observe \/ Tick \/ Roll \/ EndPass
    \/ Answer
    \/ \E t \in batch : Persist(t)
    \/ \E s \in pending : StoreShard(s) \/ FailShard(s)

Next == HandlerStep \/ WorkerStep \/ Die

Spec == Init /\ [][Next]_vars

\* The runtime polls the worker while it has something to do, and the store
\* fails only finitely often.
FairSpec == Spec /\ WF_vars(WorkerStep)

-----------------------------------------------------------------------------
(* Properties.                                                             *)

\* What is counted: in the statistics, in a shard on its way, in the store.
OnTheWay == pending \cup failed
Counted  == (UNION {stats[h] : h \in Hours}) \cup (UNION {s.facts : s \in OnTheWay \cup shards})

Stored(t) == \E s \in shards : Seen(t) \in s.facts

Facts == {Drop(t) : t \in Traces} \cup {Seen(t) : t \in Traces}
            \cup {Failure(n) : n \in 1 .. MaxFaults}
Shard == [key : Nat, hour : Hours, facts : SUBSET Facts]

\* Every variable has its type.
TypeOK ==
    /\ trace \in [Traces -> {"new", "admitted", "queued", "dropped"}]
    /\ available \in 0 .. Budget
    /\ flush \in [Flushes -> {"new", "waiting", "stored", "failed", "closed"}]
    /\ before \in [Flushes -> SUBSET Traces]
    /\ queue \in Seq(Traces \cup Flushes) /\ Len(queue) <= Slots
    /\ pc \in {"idle", "draining", "persisting", "storing", "answer", "dead"}
    /\ batch \subseteq Traces /\ results \subseteq Traces
    /\ asked \in Flushes \cup {Nobody}
    /\ stats \in [Hours -> SUBSET Facts]
    /\ pending \subseteq Shard /\ failed \subseteq Shard /\ shards \subseteq Shard
    /\ lastPass \in BOOLEAN /\ key \in Nat /\ failures \in 0 .. MaxFaults
    /\ reported \subseteq Facts

(***************************************************************************)
(* A trace, a drop or a failure is counted at most once over all shards,   *)
(* however often a shard is put again after an answer that was lost        *)
(* (flush_pending_stats keeps the object, and its key, it first encoded).  *)
(***************************************************************************)
CountedOnce ==
    /\ \A r, s \in OnTheWay \cup shards : r # s => r.facts \cap s.facts = {}
    /\ \A h \in Hours, s \in OnTheWay \cup shards : stats[h] \cap s.facts = {}
    /\ \A h, i \in Hours : h # i => stats[h] \cap stats[i] = {}

(***************************************************************************)
(* And it is counted at least once: a trace that was queued is queued, in  *)
(* hand or counted while the worker runs, and of the drops and failures    *)
(* exactly those reported are counted if there is one scope to count them  *)
(* in (process_batch, and the snapshots of flush_stats).                   *)
(***************************************************************************)
NothingLost ==
    Alive =>
      /\ \A t \in Traces \ Foreign : trace[t] = "queued" =>
           t \in ToSet(queue) \cup batch \cup results \/ Seen(t) \in Counted
      /\ SingleScope => reported = Counted \ {Seen(t) : t \in Traces}

(***************************************************************************)
(* A flush that succeeds promises that every trace queued before it is     *)
(* counted in the store: those of earlier batches, those taken with it,    *)
(* and those in shards that failed before (Records::flush).                *)
(***************************************************************************)
FlushHonest ==
    \A f \in Flushes : flush[f] = "stored" =>
        \A t \in before[f] \ Foreign : Stored(t)

(***************************************************************************)
(* The permits that are not available are held by traces that are being    *)
(* sent, queued or persisted: none leaks through a full queue, a failed    *)
(* write or the end of a batch (QueuedTrace::_budget).                     *)
(***************************************************************************)
BudgetConserved ==
    available + Memory({t \in Traces : trace[t] = "admitted"} \cup Waiting \cup batch)
      = Budget

(***************************************************************************)
(* Every flush is answered, even if the store fails.                       *)
(***************************************************************************)
FlushAnswered ==
    \A f \in Flushes : flush[f] = "waiting" ~> flush[f] # "waiting"

(***************************************************************************)
(* Every trace that was queued is counted in the store in the end, without *)
(* any flush being asked for, once the store recovers (the ticker and the  *)
(* retry of pending shards).                                               *)
(***************************************************************************)
QueuedCounted ==
    \A t \in Traces \ Foreign : trace[t] = "queued" ~> Stored(t) \/ ~Alive
=============================================================================
