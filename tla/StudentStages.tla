--------------------------- MODULE StudentStages ---------------------------
(***************************************************************************)
(* From teacher results to one joined student result.  When the results of *)
(* every teacher job an admission asks for are in, a tick reserves them    *)
(* for a student job, claims it, and removes the teacher jobs from the     *)
(* frontier; the train stage reports; a tick claims the fanout; one branch *)
(* per variant reports; whoever sees the last stage joins them.            *)
(*                                                                         *)
(* One tick at a time runs (TickLease) and may die at any store write.     *)
(* Results arrive from ingest commands, which take no lease.  The claim,   *)
(* outbox and pointer writes of a launch are in GpuLaunch; here a launch   *)
(* is an intent, the claim it puts, and its removal.                       *)
(*                                                                         *)
(* Source: crates/milk-carton/src/records.rs, claim_student_job,           *)
(* advance_student_fanout, join_student_stages and the ingest commands.    *)
(***************************************************************************)
EXTENDS Integers, FiniteSets

CONSTANTS
    Admissions,   \* student admissions, in the order operators publish them
    Recipes,      \* recipes and images a configuration may name
    Teachers,     \* teacher jobs
    Sources,      \* the teacher jobs that fill the quotas of an admission
    ExpiresAt,    \* when the source of a teacher job expires
    Variants,     \* the branches of a fanout
    StageSpan,    \* longest time from a claim to the end of its stage
    MaxTime,      \* bound on the clock
    MaxFaults     \* bound on crashes and changes of recipe or admission

ASSUME StudentAssumption ==
    /\ Admissions \subseteq Nat \ {0}
    /\ Sources \in [Admissions -> SUBSET Teachers]
    /\ \A a \in Admissions : Sources[a] # {}
    /\ Recipes # {}
    /\ ExpiresAt \in [Teachers -> Nat]
    /\ StageSpan \in Nat /\ MaxTime \in Nat /\ MaxFaults \in Nat

VARIABLES
    admission,    \* the current admission, 0 before the first
    recipe,       \* the recipe the ticks are configured with
    claimed,      \* teacher jobs with a batch index and a claim
    results,      \* teacher jobs with a result
    frontier,     \* teacher jobs with a frontier object
    reservation,  \* the reservation object: at most one claim
    intents,      \* pending launch intents
    claim,        \* started_at of each stored student claim
    train,        \* outcome of each stored train result
    trained,      \* ... and its finished_at
    fanout,       \* created_at of each stored fanout claim
    branch,       \* outcome of each stored branch result
    joined,       \* outcome of each stored student result
    joining,      \* jobs an ingest command is about to join
    pc, at,       \* the tick: its next step, the instant it captured
    hand,         \* the intent or claim it has in hand, or nothing
    now, faults   \* the clock, faults so far

teachers == <<claimed, results, frontier>>
stages   == <<train, trained, branch, joined, joining>>
config   == <<admission, recipe>>
world    == <<now, faults>>
vars     == <<config, teachers, reservation, intents, claim, fanout, stages,
              pc, at, hand, world>>

-----------------------------------------------------------------------------

Never    == -1
Times    == 0 .. MaxTime
Jobs     == [admission : Admissions, recipe : Recipes]
Outcomes == {"failed", "good"}

\* StudentJobClaim: the id of a job is the digest of its definition, which
\* does not contain the instant the claim was prepared at.
Claims == [job : Jobs, started : Nat]

\* The intents of train stages and of fanouts; those of a fanout hold
\* created_at.
TrainIntent(c)   == [stage |-> "train", job |-> c.job, started |-> c.started]
FanoutIntent(c)  == [stage |-> "fanout", job |-> c.job, started |-> c.started]
ClaimIn(i)       == [job |-> i.job, started |-> i.started]

\* definition.expires_at is that of the first source to expire.
Over(j, t) == \E s \in Sources[j.admission] : ExpiresAt[s] <= t

\* load_student_reservation finds the claim of the job, and the same one.
Canonical(c) == claim[c.job] = c.started
Clashes(c)   == claim[c.job] # Never /\ ~Canonical(c)

\* validate_student_execution_authority.
Authorised(j) == j.recipe = recipe

\* A variant that joins before every branch is stored.
JoinEarly(j) ==
    IF train[j] = "failed" THEN "train_failed"
    ELSE IF train[j] = "none" \/ fanout[j] = Never THEN "none"
    ELSE IF \E v \in Variants : branch[j][v] = "failed" THEN "branch_failed"
    ELSE IF \A v \in Variants : branch[j][v] = "none" THEN "none" ELSE "judged"

\* expected_staged_student_result and join_student_results.  The objects are
\* created once, so reading them one by one is reading them at one instant.
Expected(j) ==
    IF train[j] = "failed" THEN "train_failed"
    ELSE IF train[j] = "none" \/ fanout[j] = Never THEN "none"
    ELSE IF \E v \in Variants : branch[j][v] = "none" THEN "none"
    ELSE IF \E v \in Variants : branch[j][v] = "failed" THEN "branch_failed"
    ELSE "judged"

\* join_student_stages: the result is put once, and only when complete.
JoinStages(j) ==
    joined' = IF joined[j] = "none" THEN [joined EXCEPT ![j] = Expected(j)]
              ELSE joined

Init ==
    /\ admission = 0 /\ recipe = CHOOSE r \in Recipes : TRUE
    /\ claimed = {} /\ results = {} /\ frontier = {}
    /\ reservation = {} /\ intents = {}
    /\ claim = [j \in Jobs |-> Never]
    /\ train = [j \in Jobs |-> "none"] /\ trained = [j \in Jobs |-> Never]
    /\ fanout = [j \in Jobs |-> Never]
    /\ branch = [j \in Jobs |-> [v \in Variants |-> "none"]]
    /\ joined = [j \in Jobs |-> "none"] /\ joining = {}
    /\ pc = "idle" /\ at = 0 /\ hand = {}
    /\ now = 0 /\ faults = 0

-----------------------------------------------------------------------------
(* Operators, teacher runs and stage runners.                              *)

\* A new admission replaces the current one.
PublishAdmission(a) ==
    /\ a = admission + 1
    /\ admission' = a
    /\ faults' = IF admission = 0 THEN faults ELSE faults + 1
    /\ faults' <= MaxFaults
    /\ UNCHANGED <<recipe, teachers, reservation, intents, claim, fanout, stages,
                   pc, at, hand, now>>

\* The operator restarts the ticks with another recipe or image.
Reconfigure(r) ==
    /\ r # recipe /\ pc = "idle" /\ faults < MaxFaults
    /\ recipe' = r /\ faults' = faults + 1
    /\ UNCHANGED <<admission, teachers, reservation, intents, claim, fanout, stages,
                   pc, at, hand, now>>

\* The run of a teacher job stores its result, while its source is live.
StoreTeacherResult(t) ==
    /\ t \in claimed \ results /\ now < ExpiresAt[t]
    /\ results' = results \cup {t}
    /\ UNCHANGED <<config, claimed, frontier, reservation, intents, claim, fanout,
                   stages, pc, at, hand, world>>

\* A stage that ended at t lies in the interval of the claim that started it.
WithinStage(j, start, t) ==
    /\ start # Never
    /\ start <= t /\ t <= start + StageSpan /\ t <= now
    /\ ~ \E s \in Sources[j.admission] : ExpiresAt[s] < t

\* ingest_student_train_execution: no wall clock check, no join.
IngestTrain(j, outcome, t) ==
    /\ train[j] = "none" /\ WithinStage(j, claim[j], t)
    /\ train' = [train EXCEPT ![j] = outcome]
    /\ trained' = [trained EXCEPT ![j] = t]
    /\ UNCHANGED <<config, teachers, reservation, intents, claim, fanout, branch,
                   joined, joining, pc, at, hand, world>>

\* ingest_student_branch_execution puts the result, then joins.
IngestBranch(j, v, outcome) ==
    /\ branch[j][v] = "none" /\ train[j] # "none"
    /\ \E t \in Times : WithinStage(j, fanout[j], t)
    /\ branch' = [branch EXCEPT ![j][v] = outcome]
    /\ joining' = joining \cup {j}
    /\ UNCHANGED <<config, teachers, reservation, intents, claim, fanout, train,
                   trained, joined, pc, at, hand, world>>

\* A retry finds its result stored, and joins again.
RetryBranch(j, v) ==
    /\ branch[j][v] # "none" /\ j \notin joining /\ joined[j] = "none"
    /\ joining' = joining \cup {j}
    /\ UNCHANGED <<config, teachers, reservation, intents, claim, fanout, train,
                   trained, branch, joined, pc, at, hand, world>>

\* The ingest command joins what is stored by then.
JoinIngested(j) ==
    /\ j \in joining
    /\ joining' = joining \ {j}
    /\ JoinStages(j)
    /\ UNCHANGED <<config, teachers, reservation, intents, claim, fanout, train,
                   trained, branch, pc, at, hand, world>>

\* The ingest command dies between the two puts.
LoseJoin(j) ==
    /\ j \in joining /\ faults < MaxFaults
    /\ joining' = joining \ {j} /\ faults' = faults + 1
    /\ UNCHANGED <<config, teachers, reservation, intents, claim, fanout, train,
                   trained, branch, joined, pc, at, hand, now>>

-----------------------------------------------------------------------------
(* The tick.  It keeps the instant it started at.                          *)

\* The tick goes on with p, or ends.
Goto(p) == pc' = p /\ UNCHANGED <<config, teachers, world, at>>

Stored == <<reservation, intents, claim, fanout, stages>>

Begin ==
    /\ pc = "idle"
    /\ pc' = "intents" /\ at' = now
    /\ UNCHANGED <<config, teachers, Stored, hand, world>>

\* An error or a timeout ends the tick, or its process dies.
Bail == Goto("idle") /\ hand' = {} /\ UNCHANGED Stored

\* reconcile_gpu_launch_intents, before anything else.
Recover(i) ==
    /\ pc = "intents" /\ i \in intents
    /\ Goto("recover") /\ hand' = {i}
    /\ UNCHANGED Stored

IntentsDone ==
    /\ pc = "intents" /\ intents = {}
    /\ Goto("fanout")
    /\ UNCHANGED <<Stored, hand>>

\* begin_gpu_launch_intent.
PutIntent(i) ==
    /\ intents' = intents \cup {i} /\ hand' = {i}
    /\ Goto("launch")
    /\ UNCHANGED <<reservation, claim, fanout, stages>>

\* materialize_gpu_launch_intent: the dependencies, then the claim, which is
\* put once.  A fanout depends on objects that never change.
PutClaim(i) ==
    /\ pc \in {"recover", "launch"} /\ hand = {i}
    /\ \/ /\ i.stage = "train" /\ ~Clashes(ClaimIn(i))
          /\ claim' = [claim EXCEPT ![i.job] = i.started]
          /\ UNCHANGED fanout
       \/ /\ i.stage = "fanout" /\ fanout[i.job] \in {Never, i.started}
          /\ fanout' = [fanout EXCEPT ![i.job] = i.started]
          /\ UNCHANGED claim
    /\ Goto(IF pc = "recover" THEN "recovered" ELSE "launched")
    /\ UNCHANGED <<reservation, intents, stages, hand>>

\* verify_gpu_launch_intent_dependencies refuses a claim that differs from
\* the stored one.
Differs(i) ==
    /\ pc \in {"recover", "launch"} /\ hand = {i}
    /\ i.stage = "train" /\ Clashes(ClaimIn(i))
    /\ Bail

\* Outbox, pointer and terminalisation.  A recovered intent is one of a list;
\* a new fanout ends the tick; a new student has a reservation to reconcile.
Settle(i) ==
    /\ pc \in {"recovered", "launched"} /\ hand = {i}
    /\ intents' = intents \ {i} /\ hand' = {}
    /\ Goto(IF pc = "recovered" THEN "intents"
            ELSE IF i.stage = "fanout" THEN "idle" ELSE "consume")
    /\ UNCHANGED <<reservation, claim, fanout, stages>>

-----------------------------------------------------------------------------
(* advance_student_fanout                                                  *)

\* No reservation, or its claim is not stored yet.
NoStudent ==
    /\ pc = "fanout" /\ \A c \in reservation : claim[c.job] = Never
    /\ Goto("student")
    /\ UNCHANGED <<Stored, hand>>

\* A variant that leaves the fanout to another tick, always.
AwaitForever(c) ==
    /\ pc = "fanout" /\ reservation = {c} /\ Canonical(c) /\ Authorised(c.job)
    /\ joined[c.job] # "none" \/ fanout[c.job] = Never
    /\ Goto("student")
    /\ UNCHANGED <<Stored, hand>>

\* The stage in progress has nothing to join, and no fanout is due.
AwaitStage(c) ==
    /\ pc = "fanout" /\ reservation = {c} /\ Canonical(c) /\ Authorised(c.job)
    /\ \/ joined[c.job] # "none"
       \/ train[c.job] = "none"
       \/ /\ train[c.job] = "good" /\ fanout[c.job] = Never
          /\ at < trained[c.job] \/ Over(c.job, at)
    /\ Goto("student")
    /\ UNCHANGED <<Stored, hand>>

\* A variant that leaves the join of branches to the ingest commands.
JoinFailedOnly(c) ==
    /\ pc = "fanout" /\ reservation = {c} /\ Canonical(c) /\ Authorised(c.job)
    /\ joined[c.job] = "none" /\ train[c.job] # "none"
    /\ train[c.job] = "failed" \/ fanout[c.job] # Never
    /\ IF train[c.job] = "failed" THEN JoinStages(c.job) ELSE UNCHANGED joined
    /\ Goto("student")
    /\ UNCHANGED <<reservation, intents, claim, fanout, train, trained, branch,
                   joining, hand>>

\* The train stage failed, or the fanout is claimed: join what is there.
JoinReserved(c) ==
    /\ pc = "fanout" /\ reservation = {c} /\ Canonical(c) /\ Authorised(c.job)
    /\ joined[c.job] = "none" /\ train[c.job] # "none"
    /\ train[c.job] = "failed" \/ fanout[c.job] # Never
    /\ JoinStages(c.job)
    /\ Goto("student")
    /\ UNCHANGED <<reservation, intents, claim, fanout, train, trained, branch,
                   joining, hand>>

\* A variant that fans out whatever the train stage reported.
ClaimFanoutAnyway(c) ==
    /\ pc = "fanout" /\ reservation = {c} /\ Canonical(c) /\ Authorised(c.job)
    /\ joined[c.job] = "none" /\ train[c.job] # "none" /\ fanout[c.job] = Never
    /\ trained[c.job] <= at /\ ~Over(c.job, at)
    /\ PutIntent(FanoutIntent([c EXCEPT !.started = at]))

\* create_student_fanout_claim.
ClaimFanout(c) ==
    /\ pc = "fanout" /\ reservation = {c} /\ Canonical(c) /\ Authorised(c.job)
    /\ joined[c.job] = "none" /\ train[c.job] = "good" /\ fanout[c.job] = Never
    /\ trained[c.job] <= at /\ ~Over(c.job, at)
    /\ PutIntent(FanoutIntent([c EXCEPT !.started = at]))

\* load_student_reservation and validate_student_execution_authority fail.
Refuse(c) ==
    /\ reservation = {c}
    /\ \/ pc = "fanout" /\ Canonical(c) /\ ~Authorised(c.job)
       \/ pc = "student" /\ ~Authorised(c.job)
       \/ pc \in {"fanout", "student"} /\ Clashes(c)
    /\ Bail

-----------------------------------------------------------------------------
(* claim_student_job                                                       *)

DropReservation ==
    reservation' = {} /\ UNCHANGED <<intents, claim, fanout, stages, hand>>

NoReservation ==
    /\ pc = "student" /\ reservation = {}
    /\ Goto("prepare")
    /\ UNCHANGED <<Stored, hand>>

FindClaim(c) ==
    /\ pc = "student" /\ reservation = {c} /\ Canonical(c) /\ Authorised(c.job)
    /\ Goto(IF joined[c.job] # "none" \/ Over(c.job, at) THEN "release" ELSE "consume")
    /\ UNCHANGED <<Stored, hand>>

\* A reservation whose claim was not stored, or so the tick that has just
\* put it assumes: it is dropped when it is over or its admission replaced.
Unclaimed(c) ==
    /\ reservation = {c}
    /\ \/ pc = "student" /\ claim[c.job] = Never /\ Authorised(c.job)
       \/ pc = "reserved"

DropUnclaimed(c) ==
    /\ Unclaimed(c)
    /\ Over(c.job, at) \/ admission # c.job.admission
    /\ DropReservation
    /\ Goto(IF pc = "student" THEN "prepare" ELSE "teacher")

LaunchStudent(c) ==
    /\ Unclaimed(c)
    /\ ~Over(c.job, at) /\ admission = c.job.admission
    /\ PutIntent(TrainIntent(c))

\* delete_teacher_frontiers_for_student, one at a time.
ConsumeSource(c, t) ==
    /\ pc \in {"consume", "release"} /\ reservation = {c}
    /\ t \in Sources[c.job.admission] \cap frontier
    /\ frontier' = frontier \ {t}
    /\ UNCHANGED <<config, claimed, results, Stored, pc, at, hand, world>>

\* A variant that gives the reservation up as soon as the sources are consumed.
ReleaseEarly(c) ==
    /\ pc \in {"consume", "release"} /\ reservation = {c}
    /\ Sources[c.job.admission] \cap frontier = {}
    /\ Goto("prepare") /\ DropReservation

\* A student that has its result, or is over, gives the reservation up.
Consumed(c) ==
    /\ pc \in {"consume", "release"} /\ reservation = {c}
    /\ Sources[c.job.admission] \cap frontier = {}
    /\ IF pc = "release"
       THEN Goto("prepare") /\ DropReservation
       ELSE Goto("idle") /\ UNCHANGED <<Stored, hand>>

\* load_active_teacher_jobs and admitted_teacher_sources: every source of the
\* current admission is on the frontier, has its result and is not over.
Ready ==
    /\ admission # 0
    /\ \A s \in Sources[admission] : s \in frontier \cap results /\ at < ExpiresAt[s]

\* prepare_student_job_claim_with_admission.
Prepare ==
    /\ pc = "prepare" /\ Ready
    /\ hand' = {[job |-> [admission |-> admission, recipe |-> recipe], started |-> at]}
    /\ Goto("reserve")
    /\ UNCHANGED Stored

NotReady ==
    /\ pc = "prepare" /\ ~Ready
    /\ Goto("teacher")
    /\ UNCHANGED <<Stored, hand>>

\* The reservation is put if the admission is still the current one.
Reserve(c) ==
    /\ pc = "reserve" /\ hand = {c} /\ hand' = {}
    /\ IF admission = c.job.admission
       THEN Goto("reserved") /\ reservation' = {c}
       ELSE Goto("teacher") /\ UNCHANGED reservation
    /\ UNCHANGED <<intents, claim, fanout, stages>>

-----------------------------------------------------------------------------
(* claim_teacher_gpu_run, as far as students see it.                       *)

\* next_student_quota_candidate puts the frontier of every claimed slot of
\* the admission back, if it gets that far; the rest is in TeacherRuns.
RestoreFrontier(t) ==
    /\ pc = "teacher" /\ admission # 0
    /\ t \in (Sources[admission] \cap claimed) \ frontier
    /\ frontier' = frontier \cup {t}
    /\ UNCHANGED <<config, claimed, results, Stored, pc, at, hand, world>>

\* persist_teacher_claim.
ClaimTeacher(t) ==
    /\ pc = "teacher" /\ admission # 0
    /\ t \in Sources[admission] \ claimed /\ at < ExpiresAt[t]
    /\ Sources[admission] \cap claimed \subseteq frontier
    /\ claimed' = claimed \cup {t} /\ frontier' = frontier \cup {t}
    /\ pc' = "idle"
    /\ UNCHANGED <<config, results, Stored, at, hand, world>>

\* It holds, or advances runs of jobs already claimed.
Hold ==
    /\ pc = "teacher"
    /\ Goto("idle")
    /\ UNCHANGED <<Stored, hand>>

Crash ==
    /\ pc # "idle" /\ faults < MaxFaults
    /\ pc' = "idle" /\ hand' = {} /\ faults' = faults + 1
    /\ UNCHANGED <<config, teachers, Stored, at, now>>

Advance ==
    /\ now < MaxTime
    /\ now' = now + 1
    /\ UNCHANGED <<config, teachers, Stored, pc, at, hand, faults>>

-----------------------------------------------------------------------------

TickStep ==
    \/ \E i \in intents : Recover(i)
    \/ \E i \in hand : PutClaim(i) \/ Differs(i) \/ Settle(i)
    \/ IntentsDone \/ NoStudent \/ NoReservation \/ Prepare \/ NotReady \/ Hold
    \/ \E c \in reservation :
        \/ AwaitStage(c) \/ JoinReserved(c) \/ ClaimFanout(c) \/ Refuse(c)
        \/ FindClaim(c) \/ DropUnclaimed(c) \/ LaunchStudent(c) \/ Consumed(c)
        \/ \E t \in Teachers : ConsumeSource(c, t)
    \/ \E c \in hand : Reserve(c)
    \/ \E t \in Teachers : RestoreFrontier(t) \/ ClaimTeacher(t)

Others ==
    \/ \E a \in Admissions : PublishAdmission(a)
    \/ \E r \in Recipes : Reconfigure(r)
    \/ \E t \in Teachers : StoreTeacherResult(t)
    \/ \E j \in Jobs : \E o \in Outcomes, t \in Times : IngestTrain(j, o, t)
    \/ \E j \in Jobs, v \in Variants :
        RetryBranch(j, v) \/ \E o \in Outcomes : IngestBranch(j, v, o)
    \/ \E j \in Jobs : JoinIngested(j) \/ LoseJoin(j)
    \/ Crash \/ Advance

Next == Begin \/ TickStep \/ Others

Spec == Init /\ [][Next]_vars

\* The timer starts a tick after the last one; a tick goes on until it ends;
\* an ingest command that has put its branch goes on to join.
Fairness ==
    /\ WF_vars(Begin) /\ WF_vars(TickStep)
    /\ \A j \in Jobs : WF_vars(JoinIngested(j))

FairSpec == Spec /\ Fairness

-----------------------------------------------------------------------------

TypeOK ==
    /\ admission \in Admissions \cup {0} /\ recipe \in Recipes
    /\ claimed \subseteq Teachers /\ results \subseteq claimed /\ frontier \subseteq claimed
    /\ reservation \subseteq Claims /\ \A c, d \in reservation : c = d
    /\ intents \subseteq [stage : {"train", "fanout"}, job : Jobs, started : Nat]
    /\ claim \in [Jobs -> Nat \cup {Never}] /\ fanout \in [Jobs -> Nat \cup {Never}]
    /\ train \in [Jobs -> Outcomes \cup {"none"}]
    /\ trained \in [Jobs -> Nat \cup {Never}]
    /\ branch \in [Jobs -> [Variants -> Outcomes \cup {"none"}]]
    /\ joined \in [Jobs -> {"none", "train_failed", "branch_failed", "judged"}]
    /\ joining \subseteq Jobs
    /\ pc \in {"idle", "intents", "recover", "recovered", "fanout", "launch", "launched",
               "student", "consume", "release", "prepare", "reserve", "reserved", "teacher"}
    /\ at \in Nat /\ at <= now
    /\ hand \subseteq IF pc = "reserve" THEN Claims ELSE intents
    /\ now \in Nat /\ faults \in 0 .. MaxFaults

\* A student whose stages may still run, or whose result is still to come.
InFlight(j) == claim[j] # Never /\ joined[j] = "none" /\ ~Over(j, now)

\* At most one student job is in flight: the reservation is given up only
\* after a result or the expiry of a source, whatever ticks died on the way.
OneStudentInFlight == \A j, k \in Jobs : InFlight(j) /\ InFlight(k) => j = k

\* The invariant behind it: the student in flight is the one the reservation
\* names, and a pending train intent is that of the reservation.
ReservedInFlight ==
    /\ \A j \in Jobs : InFlight(j) => reservation = {[job |-> j, started |-> claim[j]]}
    /\ \A i \in intents : i.stage = "train" => reservation = {ClaimIn(i)}
    /\ pc \in {"prepare", "reserve", "reserved"} => \A j \in Jobs : ~InFlight(j)
    /\ pc \in {"prepare", "reserve"} => reservation = {}
    /\ pc = "release" => \A c \in reservation : joined[c.job] # "none" \/ Over(c.job, at)
    /\ pc \in {"recover", "recovered"} => hand # {}
    /\ pc \in {"launch", "launched"} => intents = hand
    /\ pc \in {"fanout", "student", "consume", "release", "prepare", "reserve",
              "reserved", "teacher"} => intents = {}

\* A student result, whoever joined it and whenever, is the one all stage
\* results determine: load_verified_student_result refuses any other.
JoinMatchesStages ==
    \A j \in Jobs : joined[j] # "none" => joined[j] = Expected(j)

\* The stages implement StudentPipeline, which has no ticks, intents, crashes
\* or retries.
StageOf(j) ==
    IF joined[j] # "none" THEN "joined"
    ELSE IF fanout[j] # Never THEN "branching"
    ELSE IF train[j] = "good" THEN "trained"
    ELSE IF train[j] = "failed" THEN "failed"
    ELSE IF claim[j] # Never THEN "training" ELSE "unborn"

Flying   == {j \in Jobs : InFlight(j)}
Stage    == [j \in Jobs |-> StageOf(j)]
Reported == {r \in Jobs \X Variants : branch[r[1]][r[2]] # "none"}

Pipeline == INSTANCE StudentPipeline
                WITH flying <- Flying, stage <- Stage, reported <- Reported

ImplementsPipeline == Pipeline!Spec

\* A train stage that passed gets its fanout, unless its sources expire or the
\* operator changes the recipe: no crash, retry or late result loses it.
TrainAdvances ==
    \A j \in Jobs :
        (\E c \in reservation : c.job = j /\ Canonical(c)) /\ train[j] = "good"
            ~> fanout[j] # Never \/ Over(j, now) \/ ~Authorised(j)

\* A reserved student whose stages are all in is joined in time, even when
\* the command that ingested the last one died before it could.
StagesJoined ==
    \A j \in Jobs :
        (\E c \in reservation : c.job = j /\ Canonical(c)) /\ Expected(j) # "none"
            ~> joined[j] # "none" \/ Over(j, now) \/ ~Authorised(j)

\* The README of the crate: "A successor tick repairs pending intents
\* independently of the current teacher binding or student reservation."
PendingIntentsRepaired == (intents # {}) ~> (intents = {})

=============================================================================
