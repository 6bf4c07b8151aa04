---------------------------- MODULE TeacherRuns ----------------------------
(***************************************************************************)
(* Teacher runs.  A tick turns the candidates of the current admission     *)
(* into teacher jobs, takes one of the GPU slots, dispatches jobs to it,   *)
(* and claims a run of at most MaxCalls calls.  Outside the tick, one-shot *)
(* processes start the run, execute its calls against the provider, and    *)
(* terminalize what an executor left behind; several of them may work on   *)
(* one run at once, and each may die anywhere.                             *)
(*                                                                         *)
(* One tick at a time runs (TickLease).  The intent, outbox and pointer of *)
(* a run claim are in GpuLaunch: a run claim is one put here.              *)
(*                                                                         *)
(* Source: crates/milk-carton/src/records.rs, claim_teacher_gpu_run and    *)
(* begin_, execute_ and terminalize_teacher_gpu_run.                       *)
(***************************************************************************)
EXTENDS Integers, FiniteSets

CONSTANTS
    Jobs,         \* teacher jobs; a job's number is the rank of its candidate
    Primaries,    \* the candidates that are primary, the others are reserves
    PartitionOf,  \* partitions are numbered in the order they are filled
    Quota,        \* of each partition
    Rejected,     \* candidates that are rejected before they are claimed
    ExpiresAt,    \* when the source of a job expires, less Margin
    NotAfter,     \* end of the analysis authorization, less Margin
    Slots,        \* GPU slots, from 0 to max_parallel_runs - 1
    MaxCalls,     \* calls of a run
    MaxGpu,       \* max_gpu_seconds
    CallTime,     \* ANALYZER_OPERATION_TIMEOUT
    Margin,       \* TEACHER_TERMINALIZATION_MARGIN_SECONDS
    LookSpan,     \* longest time from an executor's look at a call to its start
    CallSpan,     \* longest time an executor spends on a call
    TickSpan,     \* TICK_MUTATION_TIMEOUT
    Procs,        \* processes that execute or terminalize runs
    MaxNonces, MaxTime, MaxFaults    \* bounds: slots taken, clock, faults

ASSUME TeacherAssumption ==
    /\ Jobs \subseteq Nat /\ Primaries \subseteq Jobs /\ Rejected \subseteq Jobs
    /\ PartitionOf \in [Jobs -> Nat]
    /\ \A j \in Jobs : Quota[PartitionOf[j]] \in Nat
    /\ ExpiresAt \in [Jobs -> Nat] /\ NotAfter \in Nat
    /\ Slots \subseteq Nat /\ MaxCalls \in Nat \ {0}
    /\ MaxGpu \in Nat /\ CallTime \in Nat /\ Margin \in Nat
    /\ LookSpan \in Nat /\ CallSpan \in Nat /\ TickSpan \in Nat
    /\ MaxNonces \in Nat /\ MaxTime \in Nat /\ MaxFaults \in Nat

\* A plan whose primaries do not fill its quotas is refused.
ASSUME QuotaAssumption ==
    \A j \in Jobs : LET filling == {k \in Primaries : PartitionOf[k] = PartitionOf[j]}
                   IN  IsFiniteSet(filling) /\ Cardinality(filling) <= Quota[PartitionOf[j]]

VARIABLES
    admitted,    \* the admission of the candidates is the current one
    claimed,     \* jobs with a batch index, a frontier and a claim
    dispatch,    \* the run nonce each job is dispatched to, 0 before
    slots,       \* the nonce each slot holds, and until when
    indexes,     \* run indexes on the frontier
    runClaims,   \* run claims
    refusals,    \* runs a dispatcher says will not start
    starts,      \* execution starts, with their instant
    execution,   \* of each call: none, started or not_started
    results,     \* of each job: none, or the verdict of its result
    ends,        \* run results
    called,      \* history: provider calls for each job
    pc, at,      \* the tick: its next step, the instant it captured
    seed, taken, \* the job it starts a run with, the slot it took
    calls,       \* the calls it dispatched
    proc,        \* what each process is doing
    now, nonces, faults

objects == <<claimed, dispatch, slots, indexes, runClaims>>
records == <<refusals, starts, execution, results, ends, called>>
tick    == <<pc, at, seed, taken, calls>>
vars    == <<admitted, objects, records, tick, proc, now, nonces, faults>>

-----------------------------------------------------------------------------

NoSlot  == [nonce |-> 0, expires |-> 0]
Idle    == [step |-> "idle"]
Nothing == -1

\* ensure_teacher_runway.
HasRunway(t, span, expires) == t + span <= expires

\* teacher_gpu_deadline and teacher_gpu_terminalization_deadline.
Earlier(t, u)   == IF t <= u THEN t ELSE u
GpuDeadline(s)  == Earlier(s.at + MaxGpu, s.run.expires)
LastCall(s)     == GpuDeadline(s) + Margin

\* ensure_snapshot_entries_live: a source outlives its job by the margin.
SourceLive(j, t) == t + CallTime < ExpiresAt[j] + Margin

Expired(r, t)  == t >= r.expires
Terminal(r)    == \E e \in ends : e.run = r
StartsOf(r)    == {s \in starts : s.run = r}

\* The run indexes of a slot that carry its nonce.
RunsIn(s)      == {r \in indexes : r.slot = s /\ r.nonce = slots[s].nonce}

\* acquire_teacher_gpu_slot and teacher_gpu_capacity_available agree on the
\* slots that can be taken: the run of the slot is over, or it has no run
\* and its time is up.
Free(s, t) ==
    IF RunsIn(s) = {} THEN slots[s].nonce = 0 \/ t >= slots[s].expires
    ELSE \E r \in RunsIn(s) : Terminal(r) \/ Expired(r, t)

\* resume_pending_teacher_gpu_run.
PendingRuns(t) ==
    {r \in indexes \ runClaims : ~Expired(r, t) /\ slots[r.slot].nonce = r.nonce}

-----------------------------------------------------------------------------
(* next_student_quota_candidate                                            *)

\* teacher_gpu_dispatch_has_run_authority.
HasAuthority(j) ==
    \E r \in (indexes \cap runClaims) \ refusals : j \in r.calls /\ dispatch[j] = r.nonce

\* A claimed job without a result that may still get one.
Pending(j, t) ==
    /\ j \in claimed /\ results[j] = "none"
    /\ \/ execution[j] = "started"
       \/ execution[j] = "none" /\ (t < ExpiresAt[j] \/ HasAuthority(j))

In(p, S)    == {j \in S : PartitionOf[j] = p}
Accepted(p) == Cardinality({j \in In(p, claimed) : results[j] = "usable"})
Lowest(S)   == {j \in S : \A k \in S : j <= k}

\* A variant that does not count the calls under way.
PartitionHasty(p, t) ==
    IF Accepted(p) >= Quota[p] THEN {} ELSE Lowest(In(p, Jobs) \ claimed)

\* The unclaimed candidate of a partition: a primary, or a reserve for the
\* calls that failed.
PartitionCandidate(p, t) ==
    LET fresh   == In(p, Jobs) \ claimed
        waiting == Cardinality({j \in In(p, claimed) : Pending(j, t)})
    IN  IF Accepted(p) >= Quota[p] THEN {}
        ELSE IF fresh \cap Primaries # {} THEN Lowest(fresh \cap Primaries)
        ELSE IF Accepted(p) + waiting < Quota[p] THEN Lowest(fresh) ELSE {}

Candidate(t) ==
    LET open == {p \in {PartitionOf[j] : j \in Jobs} : PartitionCandidate(p, t) # {}}
    IN  UNION {PartitionCandidate(p, t) : p \in Lowest(open)}

\* verify_snapshot_analysis of the results it counts: a tick that has buried
\* the source of one gets no further.
Unverifiable(t) == \E j \in claimed : results[j] # "none" /\ t >= ExpiresAt[j] + Margin

Init ==
    /\ admitted = TRUE
    /\ claimed = {} /\ dispatch = [j \in Jobs |-> 0]
    /\ slots = [s \in Slots |-> NoSlot]
    /\ indexes = {} /\ runClaims = {}
    /\ refusals = {} /\ starts = {} /\ ends = {}
    /\ execution = [j \in Jobs |-> "none"] /\ results = [j \in Jobs |-> "none"]
    /\ called = [j \in Jobs |-> 0]
    /\ pc = "idle" /\ at = 0 /\ seed = Nothing /\ taken = Nothing /\ calls = {}
    /\ proc = [p \in Procs |-> Idle]
    /\ now = 0 /\ nonces = 0 /\ faults = 0

-----------------------------------------------------------------------------
(* The tick, up to the slot.  It keeps the instant it started at.          *)

World  == <<admitted, records, proc, now, faults>>
Hand   == <<seed, taken, calls>>
Goto(p) == pc' = p /\ UNCHANGED at

\* The tick ends, with or without an error.
Stop ==
    /\ pc' = "idle" /\ at' = 0
    /\ seed' = Nothing /\ taken' = Nothing /\ calls' = {}

\* A tick captures the instant and reads the runs and slots.  A run whose
\* tick died before its claim is claimed, or this tick fails too.
Resume(r) ==
    /\ pc = "idle" /\ r \in PendingRuns(now)
    /\ HasRunway(now, MaxGpu, r.expires) /\ admitted
    /\ runClaims' = runClaims \cup {r}
    /\ UNCHANGED <<World, claimed, dispatch, slots, indexes, tick, nonces>>

\* teacher_gpu_capacity_available: without a free slot the tick holds, and so
\* it does without an admission; one that replaced the admission of the
\* candidates has others, which are not modelled.
Begin ==
    /\ pc = "idle" /\ PendingRuns(now) = {}
    /\ admitted /\ \E s \in Slots : Free(s, now)
    /\ pc' = "seed" /\ at' = now
    /\ UNCHANGED <<World, objects, Hand, nonces>>

\* Claimed jobs that no run was started for.
Seeds(t) ==
    {j \in claimed : /\ results[j] = "none" /\ dispatch[j] = 0
                     /\ t < ExpiresAt[j] /\ HasRunway(t, MaxGpu, ExpiresAt[j])}

TakeSeed(j) ==
    /\ pc = "seed" /\ j \in Seeds(at)
    /\ seed' = j /\ Goto("slot")
    /\ UNCHANGED <<World, objects, taken, calls, nonces>>

\* A variant that moves a job from the run it was dispatched to.
AssignableAgain(j) ==
    /\ j \in claimed /\ results[j] = "none"
    /\ at < Earlier(ExpiresAt[j], slots[taken].expires)

\* assign_teacher_gpu_call takes a job that is not dispatched to another run.
Assignable(j) ==
    /\ j \in claimed /\ results[j] = "none"
    /\ at < Earlier(ExpiresAt[j], slots[taken].expires)
    /\ dispatch[j] \in {0, slots[taken].nonce}

Unassigned ==
    IF Cardinality(calls) >= MaxCalls THEN {}
    ELSE {j \in Jobs \ calls : Assignable(j)}

\* prepare_next_teacher_gpu_claim, for the first call and to fill the run.
Preparing ==
    \/ pc = "seed" /\ Seeds(at) = {}
    \/ pc = "assign" /\ Unassigned = {} /\ Cardinality(calls) < MaxCalls

\* Its guards fail, and so does the tick.
CannotPrepare ==
    /\ Preparing
    /\ \/ ~admitted \/ Unverifiable(at)
       \/ \E j \in Candidate(at) \ Rejected :
             ~SourceLive(j, at) \/ ~HasRunway(at, MaxGpu, ExpiresAt[j])
       \/ \E j \in Candidate(at) \cap Rejected : ~SourceLive(j, at)
    /\ Stop
    /\ UNCHANGED <<World, objects, nonces>>

\* persist_teacher_claim.
ClaimTeacher(j) ==
    /\ Preparing /\ admitted /\ ~Unverifiable(at)
    /\ j \in Candidate(at) \ Rejected
    /\ SourceLive(j, at) /\ HasRunway(at, MaxGpu, ExpiresAt[j])
    /\ claimed' = claimed \cup {j}
    /\ Goto(IF pc = "seed" THEN "slot" ELSE "assign")
    /\ seed' = IF pc = "seed" THEN j ELSE seed
    /\ UNCHANGED <<World, dispatch, slots, indexes, runClaims, taken, calls, nonces>>

\* reject_snapshot_locally records the reason and leaves the candidate as it
\* is; no candidate is left; the run is full.
NoMoreCalls ==
    /\ \/ pc = "assign" /\ Cardinality(calls) = MaxCalls
       \/ /\ Preparing /\ admitted /\ ~Unverifiable(at)
          /\ \A j \in Candidate(at) : j \in Rejected /\ SourceLive(j, at)
    /\ IF calls = {} THEN Stop ELSE Goto("index") /\ UNCHANGED Hand
    /\ UNCHANGED <<World, objects, nonces>>

-----------------------------------------------------------------------------
(* acquire_teacher_gpu_slot                                                *)

Stale(r) == slots[r.slot].nonce # r.nonce

\* Indexes whose slot went to another run are removed first.
Prune(r) ==
    /\ pc = "slot" /\ r \in indexes /\ Stale(r)
    /\ indexes' = indexes \ {r} /\ Goto("slot")
    /\ UNCHANGED <<World, claimed, dispatch, slots, runClaims, Hand, nonces>>

\* The first slot that is free gets a new nonce.  There is one: the tick saw
\* it, nobody else takes slots, and a run that is over stays over.
AcquireSlot(s) ==
    /\ pc = "slot" /\ ~ \E r \in indexes : Stale(r)
    /\ s \in Lowest({u \in Slots : Free(u, at)})
    /\ nonces < MaxNonces
    /\ LET until == Earlier(NotAfter, at + MaxGpu + Margin)
       IN  IF HasRunway(at, MaxGpu, until)
           THEN /\ slots' = [slots EXCEPT ![s] = [nonce |-> nonces + 1, expires |-> until]]
                /\ nonces' = nonces + 1 /\ taken' = s
                /\ Goto("retire") /\ UNCHANGED <<seed, calls>>
           ELSE Stop /\ UNCHANGED <<slots, nonces>>
    /\ UNCHANGED <<World, claimed, dispatch, indexes, runClaims>>

\* ... and the index of the run it replaces is removed.
RetireRun ==
    /\ pc = "retire"
    /\ indexes' = {r \in indexes : ~Stale(r)} /\ Goto("assign")
    /\ UNCHANGED <<World, claimed, dispatch, slots, runClaims, Hand, nonces>>

-----------------------------------------------------------------------------
(* The calls and the run.                                                  *)

\* The seed goes first, then every active job.
AssignCall(j) ==
    /\ pc = "assign" /\ j \in Unassigned
    /\ seed \in Unassigned => j = seed
    /\ dispatch' = [dispatch EXCEPT ![j] = slots[taken].nonce]
    /\ calls' = calls \cup {j}
    /\ Goto("assign")
    /\ UNCHANGED <<World, claimed, slots, indexes, runClaims, seed, taken, nonces>>

\* The run of the dispatched calls: it ends with the first of them.
NewRun ==
    [nonce |-> slots[taken].nonce, slot |-> taken, calls |-> calls,
     expires |-> CHOOSE t \in {slots[taken].expires} \cup {ExpiresAt[j] : j \in calls} :
        t <= slots[taken].expires /\ \A j \in calls : t <= ExpiresAt[j]]

\* The runway of the run, and its admission, are looked at only now.
PutIndex ==
    /\ pc = "index"
    /\ IF HasRunway(at, MaxGpu, NewRun.expires) /\ admitted
       THEN /\ indexes' = indexes \cup {NewRun}
            /\ Goto("claim") /\ UNCHANGED Hand
       ELSE Stop /\ UNCHANGED indexes
    /\ UNCHANGED <<World, claimed, dispatch, slots, runClaims, nonces>>

\* finalize_teacher_gpu_run.
PutClaim ==
    /\ pc = "claim"
    /\ runClaims' = IF admitted THEN runClaims \cup {NewRun} ELSE runClaims
    /\ Stop
    /\ UNCHANGED <<World, claimed, dispatch, slots, indexes, nonces>>

\* The tick dies or runs out of its time.
Crash ==
    /\ pc # "idle" /\ faults < MaxFaults
    /\ Stop /\ faults' = faults + 1
    /\ UNCHANGED <<admitted, objects, records, proc, now, nonces>>

-----------------------------------------------------------------------------
(* The processes of a run.                                                 *)

Tick    == <<admitted, objects, tick, nonces>>
Step(p, where)   == proc' = [proc EXCEPT ![p].step = where]
Verdicts         == {"none", "usable", "unusable"}

\* What a call that was recorded, and has no result, comes to.
WithoutResult(e) == IF e = "started" THEN "ambiguous" ELSE "not_started"

\* The process records what the call of the job came to, and goes on.
Say(p, j, terminal) ==
    proc' = [proc EXCEPT ![p] =
        [step |-> "next", role |-> @.role, start |-> @.start,
         said |-> [@.said EXCEPT ![j] = terminal]]]

\* begin_teacher_gpu_run: the start is put once.
BeginRun(r) ==
    /\ r \in runClaims \ refusals /\ StartsOf(r) = {} /\ ~Terminal(r)
    /\ HasRunway(now, MaxGpu, r.expires)
    /\ starts' = starts \cup {[run |-> r, at |-> now]}
    /\ UNCHANGED <<Tick, refusals, execution, results, ends, called, proc, now, faults>>

\* A dispatcher says that it will never start the run.
RefuseRun(r) ==
    /\ r \in runClaims \ refusals /\ StartsOf(r) = {}
    /\ faults < MaxFaults /\ faults' = faults + 1
    /\ refusals' = refusals \cup {r}
    /\ UNCHANGED <<Tick, starts, execution, results, ends, called, proc, now>>

\* execute_teacher_gpu_run, before the end of its window, and
\* terminalize_teacher_gpu_run, up to a margin after it.
Enter(p, s, role) ==
    /\ proc[p] = Idle /\ s \in starts /\ ~Terminal(s.run)
    /\ IF role = "execute" THEN now < GpuDeadline(s) ELSE now <= LastCall(s)
    /\ proc' = [proc EXCEPT ![p] =
          [step |-> "next", role |-> role, start |-> s, said |-> [j \in Jobs |-> "none"]]]
    /\ UNCHANGED <<Tick, records, now, faults>>

\* The calls of a run have an order, and a process follows it.
Left(p) == {j \in proc[p].start.run.calls : proc[p].said[j] = "none"}

\* An executor looks for the execution of its next call, whose instant this is.
Look(p, j) ==
    /\ proc[p].step = "next" /\ j \in Lowest(Left(p))
    /\ proc[p].role = "execute" /\ now <= LastCall(proc[p].start)
    /\ proc' = [proc EXCEPT ![p] =
          [step |-> "found", role |-> @.role, start |-> @.start,
           said |-> @.said, job |-> j, since |-> now, seen |-> execution[j]]]
    /\ UNCHANGED <<Tick, records, now, faults>>

\* A variant that does not keep others from starting the call.
NoteCall(p, j) ==
    /\ proc[p].step = "next" /\ j \in Lowest(Left(p)) /\ proc[p].role = "terminalize"
    /\ Say(p, j, IF results[j] # "none" THEN "ready"
                 ELSE IF execution[j] = "started" THEN "ambiguous" ELSE "not_started")
    /\ UNCHANGED <<Tick, records, now, faults>>

\* A terminalizer records a call that nobody started, and only then looks for
\* its result.  Both may happen at once: executions never change, and a result
\* that comes later leaves the call ambiguous, as if it had been late here.
TerminalizeCall(p, j) ==
    /\ proc[p].step = "next" /\ j \in Lowest(Left(p)) /\ proc[p].role = "terminalize"
    /\ LET e == IF execution[j] = "none" THEN "not_started" ELSE execution[j]
       IN  /\ execution' = [execution EXCEPT ![j] = e]
           /\ IF results[j] = "none" THEN Say(p, j, WithoutResult(e))
              ELSE IF e = "started" THEN Say(p, j, "ready")
              ELSE proc' = [proc EXCEPT ![p] = Idle]
    /\ UNCHANGED <<Tick, refusals, starts, results, ends, called, now, faults>>

\* Every call of an executor has an instant of its own.
TooLate(p) ==
    /\ proc[p].step = "next" /\ proc[p].role = "execute"
    /\ IF Left(p) = {} THEN now > GpuDeadline(proc[p].start) ELSE now > LastCall(proc[p].start)
    /\ proc' = [proc EXCEPT ![p] = Idle]
    /\ UNCHANGED <<Tick, records, now, faults>>

\* A call with a result is ready; one without is what its execution says.
\* A result whose execution the executor did not see makes it fail.
Judge(p) ==
    /\ proc[p].step = "found"
    /\ LET j == proc[p].job
       IN  /\ proc[p].seen = "none" => results[j] # "none"
           /\ IF results[j] = "none" THEN Say(p, j, WithoutResult(proc[p].seen))
              ELSE IF proc[p].seen = "started" /\ SourceLive(j, proc[p].since)
              THEN Say(p, j, "ready")
              ELSE proc' = [proc EXCEPT ![p] = Idle]
    /\ UNCHANGED <<Tick, records, now, faults>>

\* A variant that calls the provider whoever created the execution.
StartCallAgain(p) ==
    /\ proc[p].step = "found" /\ proc[p].seen = "none"
    /\ results[proc[p].job] = "none"
    /\ execution' = [execution EXCEPT ![proc[p].job] = IF @ = "none" THEN "started" ELSE @]
    /\ Step(p, "call") /\ called' = [called EXCEPT ![proc[p].job] = @ + 1]
    /\ UNCHANGED <<Tick, refusals, starts, results, ends, now, faults>>

\* put_teacher_gpu_call_execution: the execution of a call is created once,
\* and only who created it calls the provider.
StartCall(p) ==
    /\ proc[p].step = "found" /\ proc[p].seen = "none"
    /\ LET j    == proc[p].job
           mine == IF HasRunway(proc[p].since, CallTime, GpuDeadline(proc[p].start))
                   THEN "started" ELSE "not_started"
       IN  /\ results[j] = "none"
           /\ IF execution[j] # "none"
              THEN Say(p, j, WithoutResult(execution[j])) /\ UNCHANGED <<execution, called>>
              ELSE /\ execution' = [execution EXCEPT ![j] = mine]
                   /\ IF mine = "started"
                      THEN Step(p, "call") /\ called' = [called EXCEPT ![j] = @ + 1]
                      ELSE Say(p, j, "not_started") /\ UNCHANGED called
    /\ UNCHANGED <<Tick, refusals, starts, results, ends, now, faults>>

\* execute_prepared_teacher_call: the call fails, or the provider answers and
\* the result is stored while its source is live ...
Answer(p, verdict) ==
    /\ proc[p].step = "call"
    /\ LET j == proc[p].job
       IN  IF verdict # "none" /\ SourceLive(j, now)
           THEN results' = [results EXCEPT ![j] = verdict] /\ Step(p, "stored")
           ELSE Say(p, j, "ambiguous") /\ UNCHANGED results
    /\ UNCHANGED <<Tick, refusals, starts, execution, ends, called, now, faults>>

\* ... and removed if it is not when it has been stored.
CheckStored(p) ==
    /\ proc[p].step = "stored"
    /\ LET j == proc[p].job
       IN  IF SourceLive(j, now) THEN Say(p, j, "ready") /\ UNCHANGED results
           ELSE Say(p, j, "ambiguous") /\ results' = [results EXCEPT ![j] = "none"]
    /\ UNCHANGED <<Tick, refusals, starts, execution, ends, called, now, faults>>

\* A variant that stores the result of every process.
EndRunAgain(p) ==
    /\ proc[p].step = "next" /\ Left(p) = {}
    /\ proc[p].role = "execute" => now <= GpuDeadline(proc[p].start)
    /\ ends' = ends \cup {[run |-> proc[p].start.run, said |-> proc[p].said]}
    /\ proc' = [proc EXCEPT ![p] = Idle]
    /\ UNCHANGED <<Tick, refusals, starts, execution, results, called, now, faults>>

\* persist_teacher_gpu_run_result: the first result is the run's.
EndRun(p) ==
    /\ proc[p].step = "next" /\ Left(p) = {}
    /\ proc[p].role = "execute" => now <= GpuDeadline(proc[p].start)
    /\ ends' = IF Terminal(proc[p].start.run) THEN ends
               ELSE ends \cup {[run |-> proc[p].start.run, said |-> proc[p].said]}
    /\ proc' = [proc EXCEPT ![p] = Idle]
    /\ UNCHANGED <<Tick, refusals, starts, execution, results, called, now, faults>>

\* The process dies.
Die(p) ==
    /\ proc[p] # Idle /\ faults < MaxFaults
    /\ proc' = [proc EXCEPT ![p] = Idle] /\ faults' = faults + 1
    /\ UNCHANGED <<Tick, records, now>>

\* Another admission becomes the current one during a tick.  Between ticks,
\* it only means that no tick has the candidates of this one again.
ReplaceAdmission ==
    /\ pc # "idle" /\ admitted /\ faults < MaxFaults
    /\ admitted' = FALSE /\ faults' = faults + 1
    /\ UNCHANGED <<objects, records, tick, proc, now, nonces>>

\* Timeouts bound the time of a tick, and the time of an executor on a call:
\* the whole of it, and the reads that precede the put of its execution.
InCall(p) == proc[p].step \in {"found", "call", "stored"}

Advance ==
    /\ now < MaxTime
    /\ pc = "idle" \/ now < at + TickSpan
    /\ \A p \in Procs :
          /\ InCall(p) => now < proc[p].since + CallSpan
          /\ proc[p].step = "found" => now < proc[p].since + LookSpan
    /\ now' = now + 1
    /\ UNCHANGED <<admitted, objects, records, tick, proc, nonces, faults>>

-----------------------------------------------------------------------------

TickStep ==
    \/ Begin \/ CannotPrepare \/ NoMoreCalls
    \/ \E r \in indexes : Resume(r) \/ Prune(r)
    \/ \E j \in Jobs : TakeSeed(j) \/ ClaimTeacher(j) \/ AssignCall(j)
    \/ \E s \in Slots : AcquireSlot(s)
    \/ RetireRun \/ PutIndex \/ PutClaim

ProcStep(p) ==
    \/ \E s \in starts, role \in {"execute", "terminalize"} : Enter(p, s, role)
    \/ \E j \in Jobs : Look(p, j) \/ TerminalizeCall(p, j)
    \/ TooLate(p) \/ Judge(p) \/ StartCall(p)
    \/ \E v \in Verdicts : Answer(p, v)
    \/ CheckStored(p) \/ EndRun(p) \/ Die(p)

Others ==
    \/ \E r \in runClaims : BeginRun(r) \/ RefuseRun(r)
    \/ \E p \in Procs : ProcStep(p)
    \/ Crash \/ ReplaceAdmission \/ Advance

Next == TickStep \/ Others

Spec == Init /\ [][Next]_vars

\* Ticks are scheduled again and again.
FairSpec == Spec /\ WF_vars(TickStep)

-----------------------------------------------------------------------------
(* Properties                                                              *)

Runs      == [nonce : 1 .. MaxNonces, slot : Slots, calls : SUBSET Jobs, expires : Nat]
Started   == [run : Runs, at : Nat]
Terminals == {"ready", "ambiguous", "not_started"}
Saying    == [Jobs -> Terminals \cup {"none"}]
Active    == [step : {"next"}, role : {"execute", "terminalize"}, start : Started, said : Saying]
InACall   == [step : {"found", "call", "stored"}, role : {"execute"},
              start : Started, said : Saying, job : Jobs, since : Nat,
              seen : {"none", "started", "not_started"}]

\* The type invariant: terminals are said, never executions.
TypeOK ==
    /\ admitted \in BOOLEAN /\ claimed \subseteq Jobs
    /\ dispatch \in [Jobs -> 0 .. MaxNonces]
    /\ slots \in [Slots -> [nonce : 0 .. MaxNonces, expires : Nat]]
    /\ indexes \subseteq Runs /\ runClaims \subseteq Runs /\ refusals \subseteq Runs
    /\ starts \subseteq Started
    /\ execution \in [Jobs -> {"none", "started", "not_started"}]
    /\ results \in [Jobs -> Verdicts] /\ called \in [Jobs -> Nat]
    /\ ends \subseteq [run : Runs, said : Saying]
    /\ pc \in {"idle", "seed", "slot", "retire", "assign", "index", "claim"}
    /\ at \in Nat /\ seed \in Jobs \cup {Nothing} /\ taken \in Slots \cup {Nothing}
    /\ calls \subseteq Jobs
    /\ proc \in [Procs -> {Idle} \cup Active \cup InACall]
    /\ now \in Nat /\ nonces \in 0 .. MaxNonces /\ faults \in Nat

\* The provider is called at most once for a job, however many processes
\* execute or terminalize its run and wherever they and the ticks die: crash
\* recovery does not replay provider work (README).
CallOnce == \A j \in Jobs : called[j] <= 1

\* load_teacher_gpu_run_result accepts every run result that is stored, ever
\* after: a ready call has its execution and its result, an ambiguous one its
\* execution, and a call that was not started has no result.  A run result
\* that it refused would fail every later tick.
Verifiable(e) ==
    \A j \in e.run.calls :
        \/ e.said[j] = "ready" /\ execution[j] = "started" /\ results[j] # "none"
        \/ e.said[j] = "ambiguous" /\ execution[j] = "started"
        \/ e.said[j] = "not_started" /\ execution[j] = "not_started" /\ results[j] = "none"

RunResultsVerifiable == \A e \in ends : Verifiable(e)

\* No partition gets more accepted results than its quota: a reserve is taken
\* only for a call that can no longer bring one, although executors go on
\* while the tick counts.
NoSurplus == \A p \in {PartitionOf[j] : j \in Jobs} : Accepted(p) <= Quota[p]

\* Every run has a nonce of its own, and every call belongs to the one run its
\* dispatch names: the code fails when a slot has multiple canonical runs, or
\* a dispatch multiple run authorities, and must never get there.
OneRunPerCall ==
    /\ \A r, q \in indexes \cup runClaims : r.nonce = q.nonce \/ r.calls \cap q.calls # {} => r = q
    /\ \A r \in indexes \cup runClaims : \A j \in r.calls : dispatch[j] = r.nonce

\* The runs implement TeacherCalls, which has no ticks, slots, processes or
\* deadlines.
Call == [j \in Jobs |-> IF execution[j] = "none" THEN "open"
                        ELSE IF execution[j] = "started" THEN "started" ELSE "forgone"]
Told == [j \in Jobs |-> {e.said[j] : e \in {d \in ends : j \in d.run.calls}}]

Calls == INSTANCE TeacherCalls WITH call <- Call, verdict <- results, told <- Told

ImplementsCalls == Calls!Spec

\* A candidate that a tick could claim: it has its runway, and a slot is free.
Wanted(j) ==
    /\ admitted /\ faults = 0 /\ nonces < MaxNonces
    /\ j \in Primaries \ (claimed \cup Rejected) /\ Accepted(PartitionOf[j]) < Quota[PartitionOf[j]]
    /\ SourceLive(j, now) /\ HasRunway(now, MaxGpu, ExpiresAt[j])
    /\ \E s \in Slots : Free(s, now)

\* "Repeated ticks drain all admitted work" (README): without any fault, a
\* candidate that can be claimed is claimed, or stops being one that can.
DrainsAdmittedWork == \A j \in Jobs : Wanted(j) ~> ~Wanted(j)

=============================================================================
