# Milk Carton in TLA+

Specifications, model-checked instances and machine-checked proofs of Milk
Carton, the OpenAI-compatible proxy in this repository. Paths below are relative
to the repository; `records.rs`, `main.rs` and `route.rs` are the files of
`crates/milk-carton/src/`.

To check a run: `tlc -config MCTickLease.cfg MCTickLease.tla`. To check the
proofs of a module: `tlapm TickLeaseProofs.tla`.

## 1. The system

One binary has several roles, all of them strangers to one another except for
the objects in an S3-compatible store (create-if-absent, compare-and-swap on an
ETag, ordered listing, deletion) split in the logical roles *capture*, *control*
and *routes*:

- `serve`, the gateway: authenticates, proxies, hands what it captured to a
  writer task, accepts outcomes, polls the signed route;
- `tick --once`, invoked again and again by a scheduler nobody trusts: takes a
  lease, sweeps launch pointers, expires old captures, and launches at most one
  new GPU dispatch;
- `ingest-*`, `publish-route` and their like, run by operators at any time,
  without the lease;
- `status`, read-only.

### Inventory

| Component | State it keeps | Operations | What is hard |
| --- | --- | --- | --- |
| Tick lease (`records.rs` 5087-5218, `main.rs` 1553-1598) | one lease object in the control store; the owner's ETag | load, conditional create or update, confirm by reading back, mutate under a timeout, release by compare-and-swap | overlapping processes, each with its own wall clock; puts applied late or answered with an error; crashes; stalled timers |
| GPU launch chain (`records.rs` 5220-5726) | intents, claims, outbox records, frontier pointers, results in the control store | reconcile intents, sweep the frontier, begin an intent, materialise and terminalise it, ingest a result | a crash between any two writes; ingest without the lease; the bound of 18 on the union of intents and pointers; dispatches that end while they are being repaired |
| Outcomes and retention (`records.rs` 4533-4587, 4676-4910, 10332; `main.rs` 2920-3060) | traces, outcomes, expiry markers, tombstones, snapshot frontiers in the capture store | persist a trace or an outcome, mark it for expiry, claim a trace for a teacher, bury and later delete what is due | gateway and tick interleave at every object; a cancelled write and its retry; a late writer against a deletion; ticks that die |
| Capture writer (`records.rs` 3988-4060, 4396-4674) | byte budget, bounded queue, batch, statistics per hour, pending shards, counters of drops and failures | try_enqueue, run, process_batch, flush_stats, flush_pending_stats, flush | a queue and a budget at their limits; a put that failed but took effect; flush against what was queued before and after; the death of the worker |
| Object stores (`records.rs` 903-1258, 12471-12709) | objects and ETags | conditional put, list, delete, partition by role, start-up qualification | conditional semantics on a directory; answers lost on the way |
| Route publication and activation (`route.rs`, `records.rs` 11601-11790, `main.rs` 1798-1874) | signed routes, publication commits, the live pointer; the gateway's current policy | publish, verify, compare-and-swap the pointer, poll and swap the policy | concurrent publishers, a reader between two writes, rollback of revisions, requests that hold an old policy |
| Request proxy (`main.rs` 833-1060, 3115-3553, 4083; `route.rs` 1436-1448) | in-flight permits, fuse, bodies and their recorders | choose a candidate, fall back, stream, record the trace once | a candidate failing at any byte; cancellation by the client; limits across policy swaps |
| Teacher GPU runs (`records.rs` 6179-8830) | slots, runs, calls, capacity | reserve a slot, claim and bind calls, finalise, terminalise | slots released and reused; deadlines against late results; capacity computed from listings |
| Student stages (`records.rs` 9219-10340, 16091) | reservation, train job, three branches, join | reserve, claim, train, fan out, ingest, join | results in any order, late or never; one branch of several failing |
| Pure algorithms (`records.rs` 11833-12085, 16328-16499; `main.rs` 3540-3770; `route.rs` 1436) | none | Wilson bound, edit similarity, quotas, sticky sampling, latency buckets, statistics merge | rounding and width at boundaries |
| Deployment tooling (`tools/`, `deploy/`) | files of evidence, live versions | deploy, roll back, rotate a credential | failure between upload, switch and verification |
| Configuration, status, operator commands | none of their own | parse, validate, report | — |

### How they interact

The gateway's capture writer and the outcome handler write the capture store;
the tick's retention deletes from it; statistics and traces feed snapshots, from
which teacher runs and student stages are computed; both start jobs through the
launch chain; their results enter through ingest commands; the best route is
published to the route store and followed by the gateway. The lease serialises
ticks only: it excludes neither the gateway nor ingest nor publication.

### What makes each component correct

- *Lease*: at most one process mutates control state; the stored record never
  changes hands while in force; no late put overwrites a successor; a tick
  that reports its action leaves no lease behind; every process ends.
- *Launch chain*: a pointer always leads to its outbox, that to its claim; a
  dispatch is launched at most once; the bound holds at every write; an intent
  is always settled, a finished pointer always retired.
- *Retention*: what is stored is indexed, and a trace on the frontier until it
  is claimed for a teacher; it keeps its bytes until due and
  through the grace period; what was deleted never returns; ticks drain the
  index.
- *Capture writer*: every trace, drop and failure is counted exactly once; no
  permit leaks; a flush that succeeds tells the truth; flushes are answered.
- *Student stages*: one student in flight at a time, from its reservation to
  its result; a result that the stages determine, whoever joins them and when;
  no stage that passed is lost to a crash.
- *Teacher runs*: no call to the provider is made twice; a call is in one run; no
  partition gets more results than its quota; what a run's result says can be
  verified ever after; candidates are worked off.
- *Routes*: the live pointer follows one line of complete routes, whatever
  publications died or raced; a candidate is served only for the route that is
  served; a zero route takes effect.
- *Proxy*: limits hold in every phase of a request; one honest trace of every
  answer; at most one fallback; the fuse of the right runtime opens.

The list of hazards, each at its line, with the properties that guard against
it, is under "hazards" in `PROJECT.json`.

## 2. The modules

    TickTurns        abstract: one process at a time
      ^ refined by TickLease         MCTickLease (2 configurations), TickLeaseProofs
    LaunchLifecycle  abstract: unborn -> reserved -> launched -> retired
      ^ refined by GpuLaunch         MCGpuLaunch, GpuLaunchProofs
    StudentPipeline  abstract: one student at a time through its stages
      ^ refined by StudentStages     MCStudentStages (2), StudentStagesProofs
    TeacherCalls     abstract: decided once, told truly and once
      ^ refined by TeacherRuns       MCTeacherRuns (2), TeacherRunsProofs
    Retention                        MCRetention (2), RetentionProofs
    CaptureWriter                    MCCaptureWriter, CaptureWriterProofs
    Routes                           MCRoutes, RoutesProofs
    Proxy                            MCProxy, ProxyProofs

TickLease shows that ticks take turns, and GpuLaunch, StudentStages,
TeacherRuns and Retention therefore model one tick at a time. GpuLaunch has the
writes of a launch; StudentStages and TeacherRuns say which launches there are,
and take a launch as an intent, its claim and its removal, or as one put of a
run claim. Routes and Proxy share the runtime: what Routes calls an install,
Proxy calls `Replace`.

In every module a definition named "...OffByOne", "...AtOnce" and so on that no
action uses is a plausible bug of the definition that follows it. Each property
of a passing run is violated when one of these replaces the original; which one
goes with which property is under "mutants" in `PROJECT.json`.

### TickLease

One action is one answer of the store, one timer or one exit. `Start` captures
the clock and enters the acquisition; `LoadHeld` finds a record in force and
answers hold; `LoadFree` sends a conditional put (create for an absent record,
update on the version read otherwise); the put sits on `wire` until the store
applies it (`Land`), refuses it (`Refuse`) or never gets it (`Lose`), and may do
so after its writer was told of an error (`StoreError`), gave up (`IOExpires`)
or crashed. The client of the store keeps its own retries (`build_s3`, `records.rs`
12632-12661, does not change them), so a put may be applied, answered with a failure,
sent again and refused, all within one call: `LandUnanswered` applies it and
leaves it on the wire. Its process then takes its own record for that of another.
Whose acquisition went this way answers hold with its own lease in force, and
the next tick waits for the expiry; whose release did reports an error although
the lease is released. `ActionLeavesNoLease` therefore speaks only of a tick that
reports its action. `Confirm` is the read-back of `acquired_tick_lease`, `Contended` and
`ConfirmChanged` the ways it fails. `Release` ends the mutation, by its own
result or by its timeout (`MutationExpires` is the second), and sends the second
conditional put; `ReleaseTooLate` is the expiry check before it.

Every process reads `now + Skew[t]`; a timer is noticed at most `Lag` later than
it fires. `Timely` says what the three durations leave for skew and lag:

    IOTimeout + MutationTimeout + 2 * Lag + Skew[u] - Skew[t] < TTL

With the code's 30 s, 300 s and 600 s this is 270 s for the clocks and delays
together. The compile-time assertion of the code
(`MUTATION + 2 * IO < TTL`) is an ASSUME of the module. Mutual exclusion needs
`Timely`; consistency of the lease record does not. The lease is not a fencing
token: the writes of a mutation carry no version of it. A holder that died is
waited for until its record expires.

### GpuLaunch

One action is one object write of the tick with the reads before it. A tick is
`Begin` (list the intents), `DropTerminalIntent`/`Recover` for each of them,
`StartSweep` with its scan, then either the end (retention had work) or
`Resume` of known claims and at most one `Admit`. A dispatch in hand goes
through `PutIntent`, `PutClaim`, `PutOutbox`, `PutPointer` or `KeepPointer` or
`RemovePointer`, `Terminalize`, `DeleteIntent`. The scan of
`enforce_gpu_launch_frontier_bound`, used for the sweep, for a new intent and
for a new pointer, deletes while it counts: `RetirePointer` and `CountPointer`
are its steps, `HasRoom` its verdict, `Bail` its error. `Fail` is a storage
error, the mutation timeout or a crash at any write. `Ingest` stores a result at
any instant.

Abstractions: a dispatch is one model value for claim, outbox, pointer and
result, since their digests bind them one to one. A result is any ingested
result; the code admits a fanout only after a successful train result, so the
model has more behaviours than the code. Which dispatch a tick admits is a free
choice; StudentStages and TeacherRuns model how it chooses. That one claim exists
per dispatch is an assumption which `student_wedge` shows the code can break
(section 6): `IntentsSettle` holds apart from that. A claim that exists
without an intent when a teacher run is finalised is not a case of its own: it
is `Resume`. One tick runs at a time (shown by TickLease), all ticks read one
clock. The bail in the middle of a scan and the one on more than 18 listed
objects are not modelled: `UnionBounded` says they cannot be reached.

`LaunchLifecycle` is what a provider relies on: a dispatch is launched at most
once, and a retired one stays retired. The refinement mapping is `Phase`, from
the pointers, the intents, the claims and the history of pointers.

### Retention

A write is a phase machine of the store operations of `persist_event` or
`persist_outcome`: `Begin` (the tombstone check and, for an outcome, its trace;
waiting up to a second for the trace is folded into `Begin` or `Refuse`),
`PutFrontier` for traces, `Look` for an existing outcome, `PutMarker`,
`PutObject`, `ObjectSame` or `ObjectDiffers`, `DropOwnMarker`, `Finish` (the
second tombstone check). `Cancel` is the storage timeout, a store error or the
death of the gateway. The tick is `StartExpiry` (up to `BatchLimit` due markers,
latest due first), and for each `Bury` or `BuryCollides`, then one of
`ReadMissing`/`DropLostMarker`, `ReadDiffers` (the digest check), `Defer`
(within the grace period), or `DeleteObject`, `DeleteMarker`, `DeleteFrontier`.
A tick with nothing to expire may claim a stored trace for a teacher:
`StartClaim` (the trace is neither buried nor due), `PutClaim` (the job of
`persist_teacher_claim`), and `DropClaimedFrontier`, which deletes its frontier
while the object stays (`records.rs` 8751-8761, 6578-6589). `Crash` stops the tick
anywhere, and a claim that stopped before its frontier was deleted is repeated
or leaves the frontier to the expiry.

A stored trace without a frontier is therefore one that was claimed:
`SourcesIndexed` says that no trace leaves the frontier in any other way, and that
every object, claimed or not, keeps its marker. A local rejection keeps the
frontier (`reject_snapshot_locally` requires it). What a claim is, and which trace it
takes, is TeacherRuns; here `claimed` is only the set of traces for which a job
was stored.

The bytes of an object are its source and its `retention_until`, which is all
that distinguishes two submissions of the same outcome. Assumptions: every
request has a trace id of its own; a write takes less than the retention and
less than the 20 minutes of `RETENTION_DELETE_GRACE`. The second is nowhere in
the code: `storage_timeout_ms` is not compared with the grace period. The bail
"expired source remains after deletion" is unreachable by `DeletedForGood`.

### StudentStages

The tick in the order of the code: `Begin` lists the intents, `Recover`,
`PutClaim` or `Differs` (the bail on a stored claim that differs) and `Settle`
work off each; then `advance_student_fanout` (`NoStudent`, `AwaitStage`,
`JoinReserved`, `ClaimFanout`, `Refuse` for a changed recipe), then
`claim_student_job` (`FindClaim`, `DropUnclaimed`, `LaunchStudent`, `ConsumeSource`,
`Consumed`, `DropReservation`, `Prepare`, `Reserve`), then the part of the teacher
claim that students see (`RestoreFrontier`, `ClaimTeacher`). `IngestTrain`,
`IngestBranch`, `RetryBranch` and `JoinIngested` are ingest commands, which take no
lease; `LoseJoin` is one that dies before it joined. `Crash` stops the tick
between any two writes.

A job is its admission, recipe and sources; a claim also has its `started_at`,
which is what makes two claims of one job differ. `Expected(j)` is
`join_student_results`: which result the stages determine; the gates and the
choice of the winner among good branches are one outcome, `judged`. The sources
of an admission are fixed. A tick captures one instant and the check of the
current admission is one step with the put of the reservation.

`StudentPipeline` is what a reader of claims, results and joins relies on:
students fly one at a time, are trained once, fanned out only after a training
that passed, joined when every stage that may report has, and nothing of it is
taken back. The mapping is `Flying` (who is claimed and neither joined nor over),
`Stage` (how far the stored objects got) and `Reported`.

### TeacherRuns

The tick: `Resume` of a pending run, `Begin`, the choice of a seed (`TakeSeed`,
`Preparing`, `CannotPrepare` for a local rejection, `ClaimTeacher`), `Prune` and
`AcquireSlot` or `RetireRun`, `AssignCall` for each call, `PutIndex`, `PutClaim`.
Quotas are in `Candidate`: the first unclaimed primary of a partition, or a
reserve for a call that can no longer bring a result. Executors and
terminalizers are processes that may share a run: `BeginRun`, `Enter`, `Look`,
`Judge`, `StartCall`, `Answer`, `CheckStored`, `TerminalizeCall`, `EndRun`, and
`Die` anywhere. `WithoutResult` is what a terminal says of a call by what is
stored.

The calls of a run are taken in a fixed order; a tick's instants and its first
reads are one step; the put of a terminal and the read of the result before it
are one step. `CallSpan <= CallTime` and `Margin > CallTime` say that an executor
stops before its run is terminalized for time, as the timeouts of the code
intend; a put that stalls for longer than the margin is outside the model. An
executor judges the runway of a call by the instant of its look, and creates the
execution up to `LookSpan` later, after three reads. `QuotaAssumption` is the
check of a plan that its primaries fill its quotas (`records.rs` 12066-12085). The
admission is replaced only while a tick runs, which is when it matters.

`TeacherCalls` is what a reader of run results relies on: a call is started or
forgone once, only a started one gets a verdict, the verdict is final, and one
run tells once and truly what became of it. The mapping is the executions, the
call results that are stored, and `Told`, what the stored run results say.

### Routes

`Prepare` and `Publish` are the two operator commands, with the checks of the
candidate's evidence (`Preflight`) and of the predecessor (`Lineage`); the
evidence, and `Supersede`, bear on which routes there are and on no property. The
binding of a candidate to its secret (`route.rs` 856-865) is left out: no property
rests on it. A
publication puts its objects in order (`PutPart`), then reads the pointer and
sends a conditional put (`Activate`); the put is applied (`Land`) or lost (`Lose`)
at any later time, whether or not its process lives. The gateway takes the time
(`StartPoll`), loads (`LoadLive`), and installs (`Install`): a route that is over,
not begun, zero or without a key is dormant, one for another key is an error.
`Restart` starts the gateway at the baseline with any key; `Supersede` makes
another proposal the current one, at any time.

A route is its manifest, as a revision is its digest. Manifest and signature
are one content object; two processes at the same step of one publication are
one. The gateway's clock may be behind by `Lag`. The expiry of a candidate counts
from the install, although the time left was taken before the load, as in the
code.

### Proxy

A request is a record: its step, the runtime it holds, its target, its slot, the
route in its catalog, who was asked, and the reply. `Admit`, `Decide`, `Health`,
`Acquire`, `Send`, `Fallback`, `Resend`, `BaselineFails`, `Answer` are the handler up
to its next await, `Terminal`, `StreamFails`, `StreamEnds` and `Drop` the body. `Leave`
is a client that goes before the headers; `Drop` also one that goes while the
body streams. `Replace` is the poller. Whether a request is chosen for the
candidate is a free choice, timeouts are failures at any wait, and what is
streamed is left out except whether an event stream had its terminal event
(`ended`) and whether the body was read to its end (`whole`).

`Complete` is what the gateway can know of an answer: an event stream is complete
with its terminal event, any other body at its end. `TracedOnce` says that a trace
without an error is one of a complete answer, and that an answer that was
complete when its body ended has one. An event stream whose client leaves
after the terminal event counts as complete; a plain body dropped before its end
does not, although every byte may have been sent.

### CaptureWriter

Handlers: `Admit` or `Exceed` (the byte budget), `Send` or `Overflow` (the
queue), `SendFlush` or `RefuseFlush`. Worker: `TakeTrace`/`TakeFlush`/`EndBatch`
build a batch, `Persist` stores one trace of it, `Observe` counts them, `Tick` is
the statistics interval, `Roll` turns counters into shards, `StoreShard`,
`FailShard` and `EndPass` are one pass over pending shards, `Answer` the reply to
the flush. `Die` is a panic or the end of the process.

What a shard counts is a *set of facts* (this trace, this drop, this failed
put), so that counting twice and not counting are both visible. The sixteen
concurrent trace writes of a batch complete in any order; `FailShard` leaves
open whether the store took the shard. Not modelled: the health gauges, ticks
that find nothing to flush, the encoding error of a shard (serde cannot fail on
it), the last flush when all senders are gone (the process is exiting). With
several scopes the code reports drops to none; `NothingLost` therefore claims
the drops only for `SingleScope`.

## 3. The runs

| Run | Instance | Shows |
| --- | --- | --- |
| lease_timely | 3 processes (the two on the same clock are interchangeable), one clock ahead by the full margin | `MutatorOwnsLease`, refinement of `TickTurns` |
| lease_stalled | 2 processes that may notice timers far too late | `LeaseHandover`, `ActionLeavesNoLease`; every process ends |
| launch_chain | 4 dispatches (a train job, its fanout, two teacher runs), 2 slots, 1 fault | the chain, the bound, one intent, refinement of `LaunchLifecycle`; intents settle, ended pointers retire |
| student_stages | 2 admissions, 2 recipes, 2 variants, 1 fault | one student in flight, joins that match the stages, refinement of `StudentPipeline`; a train result gets its fanout, complete stages are joined |
| student_wedge | 1 admission, 1 variant, no fault | **violated**: see section 6 |
| teacher_runs | 3 candidates (2 primaries, a reserve), 1 slot, runs of 2 calls, 2 processes, 1 fault | calls made once, in one run, within quotas; run results that stay verifiable; refinement of `TeacherCalls` |
| teacher_drain | the same with a candidate that is rejected locally, no fault | **violated**: see section 6 |
| retention | a trace, claimed or not, and two submissions of its outcome, 1 fault, batches of 2 | indexing, retention, no resurrection, every marker is worked off unless ticks fail on a marker that fits no object |
| retention_retry | the same, with the retry in a batch of 3 | **violated**: see section 6 |
| capture | 3 traces (two sizes, two hours, one foreign), budget 3, queue 2, 1 flush, 2 failed puts | exactly-once counting, honest flush, conserved budget; flushes are answered, queued traces are counted |
| routes | 3 manifests over 3 proposals (one does not qualify), 2 credentials, 1 fault | one line of complete routes; candidates served on purpose; zero routes take effect |
| proxy | 3 requests, 2 permits, 1 candidate permit, 2 runtimes | limits, one trace, honest routes, the fuse of the right runtime |

Bounds and why they are enough:

- *Lease.* With TTL 4, timeouts of 1 and a skew of 1, `Timely` holds with no
  slack: one unit more violates it. Three processes give a holder, a taker and
  the writer of a delayed put. `LastStart` 3 and `MaxTime` let a process start
  in every instant of a predecessor's lease, and end. In lease_stalled a lag of
  3 lets a holder outlive its lease, which breaks exclusion but not the record.
  The symmetry of lease_timely exchanges the two processes without skew; it is used
  with safety only.
- *Launch.* Two slots and four dispatches make the bound bite both in admission
  and when a pointer is restored, and make a tick bail; the teacher runs expire
  at instant 1, which falls before, during or after any write, the train job and
  its fanout end by their results. The invariants are proved for any instance.
- *Student.* Two admissions and two recipes give four jobs that compete for one
  reservation; two branches are the fewest of which one may fail or be late;
  sources expire at 2, so that a job can end by result and by expiry. The one
  fault is a crash, a lost join, a new recipe or a new admission, at any step.
- *Teacher.* Two calls fill a run, the third candidate is a reserve that
  outlives the primaries; two nonces give a slot that is taken again; two
  processes let executor and terminalizer, or two executors, meet in one call.
  A call takes up to 2, its look up to 1, so that time passes between an
  executor's clock and the start it decides, and between start and answer; time
  5 reaches the end of the margin after the first run.
- *Retention.* Two submissions of one outcome are the smallest race of two
  markers for one key; `Span` 1, `Keep` 2, `Grace` 2 satisfy the assumptions
  strictly, and time 5 reaches the deletion of what was written first. A claim can
  come before, between and after the submissions, and stop at either of its puts. A batch
  of 2 is less than the markers there can be (three).
- *Capture.* The budget fits one large and one small trace, the queue is shorter
  than the traces and flushes together, and a failed put may have been applied.
  A shard fails in a second pass first and in a first pass only with the second
  failure, so two are needed.
- *Routes.* Three manifests are a candidate, a rival on the same predecessor, and
  a zero route. One publication runs at a time, but its put may stay in flight
  while later ones run: publications meet only at the pointer, where their puts
  do. The proofs are for any number.
- *Proxy.* Three requests compete for two permits, two of them for one permit of
  the candidate, and hold two different runtimes.

In every module `MaxFaults`, `MaxTime` and the bounds named with them are guards
of the actions that count; nothing else is bounded.

`CHECK_DEADLOCK FALSE` everywhere: lease processes end, the clocks stop at their
bounds, and a writer with no traffic has nothing to do.

## 4. Fairness

- *TickLease*: real time and the two timers of `tokio`, nothing else. The store
  may never answer and the mutation never return; `EveryTickEnds` rests on the
  timeouts alone.
- *StudentStages*: weak fairness of a tick's start, of its next step, and of an
  ingest command that goes on to join. Stages need not report and the clock need
  not move.
- *TeacherRuns* (teacher_drain only): weak fairness of the ticks; processes that
  execute runs may never come.
- *Routes*: weak fairness of the poller, a task with an interval.
- *Proxy*: none; only safety is checked.
- *GpuLaunch*: weak fairness of the tick's next step. A scheduler invokes ticks
  again and again, faults are finitely many, results need not arrive and the
  clock need not move.
- *Retention*: weak fairness of each write (it has a storage timeout), of the
  ticks and of time. `DueExpires` allows that the bounded clock ends before a
  grace period does (`OutOfTime`).
- *CaptureWriter*: weak fairness of the worker task, which the runtime polls as
  long as it has work. Puts fail finitely often. A dead worker closes the flush
  channels; `QueuedCounted` excepts it.

## 5. The proofs

All proofs hold for every value of the constants that satisfies the named
assumptions, with sets of processes, dispatches, requests of any size.

**TickLeaseProofs.** `LeaseInv` is inductive: `Timing` (where the timers put the
present), `Fencing` (what the version a put expects tells about the record it
would replace: a pending acquisition only matches a record that was free on its
writer's clock, a pending release only the writer's own) and `Quiet` (who has
reported its action has nothing on the wire and no lease in force). `Fencing` is
what makes delayed and repeated puts harmless and is needed because mutual exclusion by
itself says nothing of what is in flight. `LeaseInvariant`, `CleanAnswers` and
`Handover` need no assumption on clocks. `Ownership` and `Serialises` add
`Timely`: a mutator's record cannot have expired on anyone's clock, so by
`Fencing` nobody's put replaces it; hence TickLease implements TickTurns.
`AssertionSuffices`: with equal clocks and punctual timers the code's
compile-time assertion implies `Timely`.

**GpuLaunchProofs.** `ChainInv` is inductive, for any dispatches, deadlines and
bound: `ChainComplete` itself; `InHand`, what is stored of the dispatch being
written; `IntentsKnown`, every stored intent is on the list to reconcile or in
hand, whence `OneIntent`; `ScanComplete`, a scan has visited or counted every
pointer, whence the bound; `OverForGood`, a dispatch without a pointer it once
had is over at this and all later instants, whence no relaunch. Results are
never removed and the clock never goes back: that is what makes "over" stable.
`Implements` maps every step to a LaunchLifecycle step or a stutter.

**RetentionProofs.** `RetentionInv` is inductive, given `Span < Keep` and
`Span < Grace`. A write in progress began before the tombstone of its source and
is younger than `Span` (`WriterInv`); a deletion waited `Grace` after the
tombstone (`TombstoneInv`, `TickInv`); so no write is in progress when its
source is deleted, and none begins later. `Indexed` needs of a claim in progress
that its job is stored before its frontier goes (`TickInv`). `Kept` follows from the digest check:
what is deleted has the bytes its marker names.

**CaptureWriterProofs.** `WriterInv` is inductive for any traces, flushes,
queue, batch and number of failures. `Once`: what is in the queue was queued
once and is not in hand, and what is in hand is not counted, so `Observe` never
counts a trace twice; `Reports`: what is counted and is no trace was reported, so
`Roll` never counts a drop twice. A failed put leaves a shard both on its way
and in the store: `CountedOnce` holds because it is the same shard, facts and
key. `Kept` and `InOrder` follow a trace from the queue to the worker's hand and
into what is counted; a flush that reaches the head of the queue has every trace
queued before it in hand or counted, and when it is answered well nothing is in
hand (`Phases`) and nothing is counted outside the store, whence `FlushHonest`.

`NoPermitLeaks` is about a sum: `Memory` adds the sizes of the traces on their
way by a fold. The
fold's value is shown not to depend on the order in which it takes its elements,
by the least subset for which it would (strict inclusion on finite sets is well
founded); with that, one trace that leaves takes its own size from the sum and
`available` gains it. `Typing` rests on it: the budget is never overdrawn.

**StudentStagesProofs.** `ReservedInFlight` is inductive together with the
types: it says, for each step of the tick, who may be in flight while the
reservation is absent, held or about to be dropped, and that a pending train
intent is that of the reservation. `OneStudentInFlight` follows because the
reservation holds one claim; no run lists it, since `StudentPipeline` implies it.
`JoinIsFinal` shows that a result never comes to
contradict its stages, because stages are put once. `Evidence` says what stands
behind a stored object: a claim behind a train result, a training that passed
behind a fanout claim and behind every pending fanout intent, a fanout claim
behind a branch result. It is inductive, and with it `Implements` maps every step
of ticks and ingest commands to a step of `StudentPipeline` or to a stutter: a
second put of a stage finds the first and leaves the stage as it is.

**TeacherRunsProofs.** `ObjectsInv` is about the tick: nonces are taken in
order, the nonce of the slot in hand belongs to no run yet (`InHand`), and a
call is dispatched once, so a new run shares neither nonce nor call with any
other (`OneRunPerCall`), nor does it once its index is pruned. `CallOnce`
follows from `CalledWhenStarted`: the provider is called by who creates the
execution. `RecordsInv` is about the processes: what one says of a call is true
when it says it and, since executions are created once and results stay
(`Lasting`), ever after. Results stay because an executor that stored one in
time still finds its source live (`InTime`); here, and only here, `Punctual`
(`CallSpan < Margin`, which the 210 seconds of a call and the 5 minutes of the
margin, `records.rs` 117 and 142, justify) and the ends of runs and sources are
needed. `EndsOnce` adds that processes that share a run put its result once; with
it `Implements` maps every step to one of `TeacherCalls` or to a stutter.

`NoSurpluses` counts, for each partition, the calls that have a usable result or
may still get one (`Likely`). Such hopes shrink on their own and grow only when
the tick claims a candidate; the tick does that when those it counts itself are
fewer than the quota, and its count covers every hope (`HopesCounted`): it leaves
out only calls that failed, that were forgone, or that expired without being
started. That these never bring a result after all is `LikelyStep`. It needs
`Prompt` (`LookSpan < CallTime`): an executor that looked in time starts the call
before it expires or not at all. The bound is sharp: with `LookSpan = CallTime`, two
partitions (one of two primaries that fill a run and a reserve that outlives them,
one whose primary is the next seed) and one executor, TLC finds the surplus.
That instance is not among the runs, where two processes matter more: with
both it has over five million states.

**RoutesProofs.** `RoutesInv` is inductive for any number of publications,
proposals, keys and any lag: the objects of a publication are put in order
(`InOrder`), so a put of the pointer is sent only for a complete route; every
manifest has a lineage that stays readable (`Prepared`), because objects are never
removed; the line of routes grows only at its end, since a put names the live
route; and what the gateway installs was live when it was loaded (`GatewayInv`).
A put may land long after its process died: the proof needs nothing of when.

**ProxyProofs.** `Good`, an invariant of each request by itself, ties the route
in its catalog to its target, to who was asked, to its permit, to the reply and
to its trace at every step; `Honest` follows directly. `OneTrace` adds `Told`: no body
is whole before it ended, only an event stream has a terminal event, and the
trace of an answer is decided by how its body ended. `Limited`
adds that only `Admit` and `Acquire` take permits (`Released`), and counts them.
`Blamed` shows that what a request has against a runtime stays with the runtime
it holds (`BlameSteps`), whichever is installed.

Only model-checked: all liveness, as fairness and ENABLED are outside the
prover's reach (`EveryTickEnds`, `IntentsSettle`, `PointersRetire`, `DueExpires`,
`FlushAnswered`, `QueuedCounted`, `TrainAdvances`, `StagesJoined`,
`ZeroTakesEffect`). Every other property of a passing run is a theorem.

## 6. Findings

`retention_retry`: a submission of an outcome ends after `write_expiry_marker`
and before its object (storage timeout, store error, crash); the client retries
and the object gets a later `retention_until`, hence another digest and another
marker. When the first marker is due, `expire_due` buries the outcome, earlier
than its retention, and then fails at "expiry source digest differs from its
marker" (`records.rs` 4884). Nothing removes that marker and `expire_due` runs
before any other work of the tick, so from then on every tick of the scope
fails there. README.md says "Repeated ticks drain all admitted work"
(line 102). The loser of a *concurrent* race removes its marker
(`records.rs` 4740-4775); the interrupted writer cannot.

`DueExpires`, checked in the passing run, is the strongest form that does hold:
every marker is worked off unless some due marker fits no object.

`student_wedge`: no crash is needed. Quota selection
(`next_student_quota_candidate`, `records.rs` 6058) puts back the frontier object
of every claimed teacher job, also of those that a student consumed and whose
frontiers were removed (9301). When that student has its result, its reservation
is dropped; if its sources have not expired, the next tick finds the same
teacher results on the frontier, prepares the same job with a new `started_at`,
reserves it and stores a launch intent. `verify_gpu_launch_intent_dependencies`
(5350-5368) compares the intent with the durable claim of the first time and
bails. The intent stays, and every later tick bails at it before it does
anything else (`main.rs` 1579-1585). `crates/milk-carton/README.md` line 13 says "A
successor tick repairs pending intents independently of the current teacher
binding or student reservation".

`teacher_drain`: a candidate whose preparation ends in a local rejection
(`prepare_teacher_analysis`, `records.rs` 8531) gets no claim of its quota slot.
The next tick looks for the first primary without a claim (6160), finds the same
one, and rejects it again; no later rank and no reserve of the admission is ever
tried. `README.md` line 102: "Repeated ticks drain all admitted work".

Lesser facts the models brought up, recorded as hazards: an executor that spends
the time of a call (210 s) on the three reads between its clock and the put of
the execution (`records.rs` 8297-8420) starts a call that the tick has written
off, and its partition gets a result more than its quota, which the selection for the
student leaves out (`take`, 14750) after the provider was asked for it; a tick that dies
after a trace's marker and before its frontier leaves a snapshot frontier
nothing deletes; due markers are taken latest first, up to 1000, grace
period included, so a steady rate above that starves the older ones; a route
that the gateway installed before its `not_before` stays dormant, because the
poller looks only at changed revisions; a candidate may be served past its
`not_after` by the time its load took; a changed recipe stops every tick while a
student is reserved; a crash between a dispatch and its run index leaks the slot
until it expires; a tick whose lease put was applied and sent again answers hold
and leaves its lease in force for up to ten minutes, and one whose release was
sent again reports an error for a mutation that succeeded.

## 7. Not modelled

- *Object stores.* The conditional put is modelled where its lateness and loss
  matter, in TickLease and Routes. That the client of the store sends a put again
  which was applied is a case of its own only in TickLease. Elsewhere it ends in a
  case that is there: `put_create_same` compares bytes and finds its own; the start
  of a call finds an execution and takes it for that of another; a slot or a live
  pointer is taken and its process stops, as in a crash after the put. The store on a
  local directory, the split into roles, error classes and the start-up probe are
  not modelled.
- *Pure algorithms* (Wilson bounds, edit similarity, quota allocation, sticky
  choice, latency buckets): sequential functions with unit tests; part of them
  is floating point, which TLC does not compute with. Where a model needs a
  verdict of theirs, the verdict is a free choice.
- *Snapshots, readiness, scores and status*: reports over the objects that
  other components write. They appear as evidence (`Qualifies` in Routes) and as
  the plan of an admission (TeacherRuns).
- *Health gauges* of the capture writer; *deadlines* of the proxy as instants.
- *Deployment tooling*: shell, Python and JavaScript around remote services
  whose behaviour the repository does not define.
- *Skewed clocks* between ticks of different hosts: modelled for the lease and for
  the gateway, not for the launch chain. A put of a mutation that lands after
  the lease was released is modelled nowhere; the lease is no fencing token.
- *Runways* of teacher calls that join a run of another seed: see the hazard at
  `records.rs` 7655.

## 8. Plan

What would extend the project most, in this order:

1. *FencedTick*, composing TickLease and GpuLaunch with puts of a mutation that
   land after the release, and with two tick clocks: what the missing fencing
   token costs.
2. *Stores*: the local conditional store implements the register that TickLease
   and Routes assume, with lost answers.
3. The runway of calls in TeacherRuns, and stalls beyond the margin.
4. Deploy and rollback, if the tooling's order of steps carries a property.
