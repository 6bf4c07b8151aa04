------------------------ MODULE StudentStagesProofs ------------------------
(***************************************************************************)
(* Proofs about the student stages, for any admissions, recipes, teacher   *)
(* jobs and variants within StudentAssumption: one student at a time, in   *)
(* the order of StudentPipeline, with joins that its stages bear out.      *)
(***************************************************************************)
EXTENDS StudentStages, TLAPS

\* A source that is over stays over.
LEMMA OverStays ==
  ASSUME NEW j \in Jobs, NEW t \in Nat, NEW u \in Nat, t <= u, Over(j, t)
  PROVE  Over(j, u)
<1>1. PICK s \in Sources[j.admission] : ExpiresAt[s] <= t
  BY DEF Over
<1>2. ExpiresAt[s] \in Nat
  BY StudentAssumption DEF Jobs
<1> QED
  BY <1>1, <1>2 DEF Over

(***************************************************************************)
(* Type correctness: in particular the reservation holds one claim, and    *)
(* what a tick has in hand is a pending intent.                            *)
(***************************************************************************)
THEOREM Typing == Spec => []TypeOK
<1> USE StudentAssumption
<1>1. Init => TypeOK
  BY DEF Init, TypeOK, Never, Outcomes
<1>2. TypeOK /\ [Next]_vars => TypeOK'
  <2> SUFFICES ASSUME TypeOK, [Next]_vars PROVE TypeOK'
    OBVIOUS
  <2> USE DEF TypeOK, Never, Outcomes, Claims, Jobs
  <2>1. ASSUME NEW a \in Admissions, PublishAdmission(a) PROVE TypeOK'
    BY <2>1 DEF PublishAdmission, Goto, Stored, config, teachers, stages, world, Times
  <2>2. ASSUME NEW r \in Recipes, Reconfigure(r) PROVE TypeOK'
    BY <2>2 DEF Reconfigure, Goto, Stored, config, teachers, stages, world, Times
  <2>3. ASSUME NEW t \in Teachers, StoreTeacherResult(t) PROVE TypeOK'
    BY <2>3 DEF StoreTeacherResult, Goto, Stored, config, teachers, stages, world, Times
  <2>4. ASSUME NEW j \in Jobs, NEW o \in Outcomes, NEW t \in Times, IngestTrain(j, o, t) PROVE TypeOK'
    BY <2>4 DEF IngestTrain, Goto, Stored, config, teachers, stages, world, Times
  <2>5. ASSUME NEW j \in Jobs, NEW v \in Variants, RetryBranch(j, v) PROVE TypeOK'
    BY <2>5 DEF RetryBranch, Goto, Stored, config, teachers, stages, world, Times
  <2>6. ASSUME NEW j \in Jobs, NEW v \in Variants, NEW o \in Outcomes, IngestBranch(j, v, o) PROVE TypeOK'
    BY <2>6 DEF IngestBranch, Goto, Stored, config, teachers, stages, world, Times
  <2>7. ASSUME NEW j \in Jobs, JoinIngested(j) PROVE TypeOK'
    <3>1. Expected(j) \in {"none", "train_failed", "branch_failed", "judged"}
      BY DEF Expected
    <3> QED
      BY <2>7, <3>1 DEF JoinIngested, JoinStages, config, teachers, world
  <2>8. ASSUME NEW j \in Jobs, LoseJoin(j) PROVE TypeOK'
    BY <2>8 DEF LoseJoin, Goto, Stored, config, teachers, stages, world, Times
  <2>9. CASE Crash
    BY <2>9 DEF Crash, Goto, Stored, config, teachers, stages, world, Times
  <2>10. CASE Advance
    BY <2>10 DEF Advance, Goto, Stored, config, teachers, stages, world, Times
  <2>11. CASE Begin
    BY <2>11 DEF Begin, Goto, Stored, config, teachers, stages, world, Times
  <2>12. ASSUME NEW i \in intents, Recover(i) PROVE TypeOK'
    BY <2>12 DEF Recover, Goto, Stored, config, teachers, stages, world, Times
  <2>13. ASSUME NEW i \in hand, PutClaim(i) PROVE TypeOK'
    BY <2>13 DEF PutClaim, Goto, Stored, config, teachers, stages, world, Times
  <2>14. ASSUME NEW i \in hand, Differs(i) PROVE TypeOK'
    BY <2>14 DEF Differs, Bail, Goto, Stored, config, teachers, stages, world, Times
  <2>15. ASSUME NEW i \in hand, Settle(i) PROVE TypeOK'
    BY <2>15 DEF Settle, Goto, Stored, config, teachers, stages, world, Times
  <2>16. CASE IntentsDone
    BY <2>16 DEF IntentsDone, Goto, Stored, config, teachers, stages, world, Times
  <2>17. CASE NoStudent
    BY <2>17 DEF NoStudent, Goto, Stored, config, teachers, stages, world, Times
  <2>18. CASE NoReservation
    BY <2>18 DEF NoReservation, Goto, Stored, config, teachers, stages, world, Times
  <2>19. CASE Prepare
    BY <2>19 DEF Prepare, Ready, Goto, Stored, config, teachers, stages, world, Times
  <2>20. CASE NotReady
    BY <2>20 DEF NotReady, Ready, Goto, Stored, config, teachers, stages, world, Times
  <2>21. CASE Hold
    BY <2>21 DEF Hold, Goto, Stored, config, teachers, stages, world, Times
  <2>22. ASSUME NEW c \in reservation, AwaitStage(c) PROVE TypeOK'
    BY <2>22 DEF AwaitStage, Goto, Stored, config, teachers, stages, world, Times
  <2>23. ASSUME NEW c \in reservation, JoinReserved(c) PROVE TypeOK'
    <3>1. Expected(c.job) \in {"none", "train_failed", "branch_failed", "judged"}
      BY DEF Expected
    <3> QED
      BY <2>23, <3>1 DEF JoinReserved, JoinStages, Goto, config, teachers, world
  <2>24. ASSUME NEW c \in reservation, ClaimFanout(c) PROVE TypeOK'
    BY <2>24 DEF ClaimFanout, PutIntent, FanoutIntent, Goto, Stored, config, teachers, stages, world, Times
  <2>25. ASSUME NEW c \in reservation, Refuse(c) PROVE TypeOK'
    BY <2>25 DEF Refuse, Bail, Goto, Stored, config, teachers, stages, world, Times
  <2>26. ASSUME NEW c \in reservation, FindClaim(c) PROVE TypeOK'
    BY <2>26 DEF FindClaim, Goto, Stored, config, teachers, stages, world, Times
  <2>27. ASSUME NEW c \in reservation, DropUnclaimed(c) PROVE TypeOK'
    BY <2>27 DEF DropUnclaimed, DropReservation, Unclaimed, Goto, Stored, config, teachers, stages, world, Times
  <2>28. ASSUME NEW c \in reservation, LaunchStudent(c) PROVE TypeOK'
    BY <2>28 DEF LaunchStudent, PutIntent, TrainIntent, Unclaimed, Goto, Stored, config, teachers, stages, world, Times
  <2>29. ASSUME NEW c \in reservation, Consumed(c) PROVE TypeOK'
    BY <2>29 DEF Consumed, DropReservation, Goto, Stored, config, teachers, stages, world, Times
  <2>30. ASSUME NEW c \in reservation, NEW t \in Teachers, ConsumeSource(c, t) PROVE TypeOK'
    BY <2>30 DEF ConsumeSource, Goto, Stored, config, teachers, stages, world, Times
  <2>31. ASSUME NEW c \in hand, Reserve(c) PROVE TypeOK'
    BY <2>31 DEF Reserve, Goto, Stored, config, teachers, stages, world, Times
  <2>32. ASSUME NEW t \in Teachers, RestoreFrontier(t) PROVE TypeOK'
    BY <2>32 DEF RestoreFrontier, Goto, Stored, config, teachers, stages, world, Times
  <2>33. ASSUME NEW t \in Teachers, ClaimTeacher(t) PROVE TypeOK'
    BY <2>33 DEF ClaimTeacher, Goto, Stored, config, teachers, stages, world, Times
  <2>34. CASE UNCHANGED vars
    BY <2>34 DEF vars, Goto, Stored, config, teachers, stages, world, Times
  <2> HIDE DEF TypeOK, Never, Outcomes, Claims, Jobs
  <2> QED
    BY <2>1, <2>2, <2>3, <2>4, <2>5, <2>6, <2>7, <2>8, <2>9, <2>10, <2>11,
       <2>12, <2>13, <2>14, <2>15, <2>16, <2>17, <2>18, <2>19, <2>20, <2>21,
       <2>22, <2>23, <2>24, <2>25, <2>26, <2>27, <2>28, <2>29, <2>30, <2>31,
       <2>32, <2>33, <2>34 DEF Next, TickStep, Others
<1> QED
  BY <1>1, <1>2, PTL DEF Spec

-----------------------------------------------------------------------------

\* Only the put of a claim starts a student: nothing else that happens to it
\* can bring one into flight.
LEMMA NoneTakesOff ==
  ASSUME TypeOK, NEW j \in Jobs, claim'[j] = claim[j], now' \in Nat, now <= now',
         joined[j] # "none" => joined'[j] # "none", InFlight(j)'
  PROVE  InFlight(j)
<1>1. claim[j] # Never /\ joined[j] = "none" /\ ~Over(j, now')
  BY DEF InFlight, Over
<1>2. ~Over(j, now)
  BY <1>1, OverStays DEF TypeOK
<1> QED
  BY <1>1, <1>2 DEF InFlight

\* While the clock runs on, a student that was over at the start of the tick
\* stays out of flight.
LEMMA OverAtTick ==
  ASSUME TypeOK, NEW j \in Jobs, Over(j, at)
  PROVE  ~InFlight(j)
<1>1. Over(j, now)
  BY OverStays DEF TypeOK
<1> QED
  BY <1>1 DEF InFlight

(***************************************************************************)
(* The student in flight is always the reserved one: no crash, retry or    *)
(* change of admission gives its reservation away.                         *)
(***************************************************************************)
THEOREM Reservation == Spec => []ReservedInFlight
<1> USE StudentAssumption
<1>1. Init => ReservedInFlight
  BY DEF Init, ReservedInFlight, InFlight
<1>2. TypeOK /\ TypeOK' /\ ReservedInFlight /\ [Next]_vars => ReservedInFlight'
  <2> SUFFICES ASSUME TypeOK, TypeOK', ReservedInFlight, [Next]_vars
               PROVE  ReservedInFlight'
    OBVIOUS
  <2> USE DEF ReservedInFlight
  <2>0. ASSUME UNCHANGED claim, now' \in {now, now + 1},
               \A j \in Jobs : joined[j] # "none" => joined'[j] # "none"
        PROVE  \A j \in Jobs : InFlight(j)' => InFlight(j)
    BY <2>0, NoneTakesOff DEF TypeOK
  <2>1. ASSUME NEW a \in Admissions, PublishAdmission(a) PROVE ReservedInFlight'
    BY <2>1, <2>0 DEF PublishAdmission, Goto, Stored, config, teachers, stages, world, TypeOK
  <2>2. ASSUME NEW r \in Recipes, Reconfigure(r) PROVE ReservedInFlight'
    BY <2>2, <2>0 DEF Reconfigure, Goto, Stored, config, teachers, stages, world, TypeOK
  <2>3. ASSUME NEW t \in Teachers, StoreTeacherResult(t) PROVE ReservedInFlight'
    BY <2>3, <2>0 DEF StoreTeacherResult, Goto, Stored, config, teachers, stages, world, TypeOK
  <2>4. ASSUME NEW j \in Jobs, NEW o \in Outcomes, NEW t \in Times, IngestTrain(j, o, t) PROVE ReservedInFlight'
    BY <2>4, <2>0 DEF IngestTrain, Goto, Stored, config, teachers, stages, world, TypeOK
  <2>5. ASSUME NEW j \in Jobs, NEW v \in Variants, RetryBranch(j, v) PROVE ReservedInFlight'
    BY <2>5, <2>0 DEF RetryBranch, Goto, Stored, config, teachers, stages, world, TypeOK
  <2>6. ASSUME NEW j \in Jobs, NEW v \in Variants, NEW o \in Outcomes, IngestBranch(j, v, o) PROVE ReservedInFlight'
    BY <2>6, <2>0 DEF IngestBranch, Goto, Stored, config, teachers, stages, world, TypeOK
  <2>7. ASSUME NEW j \in Jobs, JoinIngested(j) PROVE ReservedInFlight'
    BY <2>7, <2>0 DEF JoinIngested, JoinStages, Goto, Stored, config, teachers, stages, world, TypeOK
  <2>8. ASSUME NEW j \in Jobs, LoseJoin(j) PROVE ReservedInFlight'
    BY <2>8, <2>0 DEF LoseJoin, Goto, Stored, config, teachers, stages, world, TypeOK
  <2>9. CASE Crash
    BY <2>9, <2>0 DEF Crash, Goto, Stored, config, teachers, stages, world, TypeOK
  <2>10. CASE Advance
    BY <2>10, <2>0 DEF Advance, Goto, Stored, config, teachers, stages, world, TypeOK
  <2>11. CASE Begin
    BY <2>11, <2>0 DEF Begin, Goto, Stored, config, teachers, stages, world, TypeOK
  <2>12. ASSUME NEW i \in intents, Recover(i) PROVE ReservedInFlight'
    BY <2>12, <2>0 DEF Recover, Goto, Stored, config, teachers, stages, world, TypeOK
  <2>13. ASSUME NEW i \in hand, PutClaim(i) PROVE ReservedInFlight'
    <3>1. i \in intents /\ now' = now
      BY <2>13 DEF PutClaim, TypeOK, Goto, world
    <3>2. CASE i.stage = "train"
      <4>1. /\ claim' = [claim EXCEPT ![i.job] = i.started]
            /\ reservation = {ClaimIn(i)} /\ UNCHANGED <<reservation, joined>>
        BY <2>13, <3>1, <3>2 DEF PutClaim, stages
      <4>2. ASSUME NEW j \in Jobs, InFlight(j)'
            PROVE  reservation = {[job |-> j, started |-> claim'[j]]}
        <5>1. CASE j = i.job
          BY <4>1, <5>1, <3>1 DEF ClaimIn, TypeOK
        <5>2. CASE j # i.job
          <6>1. claim'[j] = claim[j] /\ InFlight(j)
            BY <4>1, <4>2, <5>2, <3>1, NoneTakesOff DEF TypeOK
          <6> QED
            BY <6>1
        <5> QED
          BY <5>1, <5>2
      <4> QED
        BY <2>13, <3>1, <4>1, <4>2 DEF PutClaim, Goto, stages, TypeOK
    <3>3. CASE i.stage = "fanout"
      BY <2>13, <2>0, <3>1, <3>3 DEF PutClaim, Goto, Stored, config, teachers, stages, world, TypeOK
    <3> QED
      BY <3>1, <3>2, <3>3 DEF TypeOK
  <2>14. ASSUME NEW i \in hand, Differs(i) PROVE ReservedInFlight'
    BY <2>14, <2>0 DEF Differs, Bail, Goto, Stored, config, teachers, stages, world, TypeOK
  <2>15. ASSUME NEW i \in hand, Settle(i) PROVE ReservedInFlight'
    BY <2>15, <2>0 DEF Settle, Goto, Stored, config, teachers, stages, world, TypeOK
  <2>16. CASE IntentsDone
    BY <2>16, <2>0 DEF IntentsDone, Goto, Stored, config, teachers, stages, world, TypeOK
  <2>17. CASE NoStudent
    BY <2>17, <2>0 DEF NoStudent, Goto, Stored, config, teachers, stages, world, TypeOK
  <2>18. CASE NoReservation
    BY <2>18, <2>0 DEF NoReservation, Goto, Stored, config, teachers, stages, world, TypeOK
  <2>19. CASE Prepare
    BY <2>19, <2>0 DEF Prepare, Ready, Goto, Stored, config, teachers, stages, world, TypeOK
  <2>20. CASE NotReady
    BY <2>20, <2>0 DEF NotReady, Ready, Goto, Stored, config, teachers, stages, world, TypeOK
  <2>21. CASE Hold
    BY <2>21, <2>0 DEF Hold, Goto, Stored, config, teachers, stages, world, TypeOK
  <2>22. ASSUME NEW c \in reservation, AwaitStage(c) PROVE ReservedInFlight'
    BY <2>22, <2>0 DEF AwaitStage, Goto, Stored, config, teachers, stages, world, TypeOK
  <2>23. ASSUME NEW c \in reservation, JoinReserved(c) PROVE ReservedInFlight'
    BY <2>23, <2>0 DEF JoinReserved, JoinStages, Goto, Stored, config, teachers, stages, world, TypeOK
  <2>24. ASSUME NEW c \in reservation, ClaimFanout(c) PROVE ReservedInFlight'
    BY <2>24, <2>0 DEF ClaimFanout, PutIntent, FanoutIntent, Goto, Stored, config, teachers, stages, world, TypeOK
  <2>25. ASSUME NEW c \in reservation, Refuse(c) PROVE ReservedInFlight'
    BY <2>25, <2>0 DEF Refuse, Bail, Goto, Stored, config, teachers, stages, world, TypeOK
  <2>26. ASSUME NEW c \in reservation, FindClaim(c) PROVE ReservedInFlight'
    BY <2>26, <2>0 DEF FindClaim, Goto, Stored, config, teachers, stages, world, TypeOK
  <2>27. ASSUME NEW c \in reservation, DropUnclaimed(c) PROVE ReservedInFlight'
    <3>1. \A j \in Jobs : ~InFlight(j)
      <4>1. CASE pc = "reserved"
        BY <4>1
      <4>2. CASE pc = "student"
        BY <2>27, <4>2 DEF DropUnclaimed, Unclaimed, InFlight
      <4> QED
        BY <2>27, <4>1, <4>2 DEF DropUnclaimed, Unclaimed
    <3>2. \A j \in Jobs : ~InFlight(j)'
      BY <2>27, <2>0, <3>1 DEF DropUnclaimed, DropReservation, Goto, stages, world, TypeOK
    <3> QED
      BY <2>27, <3>2 DEF DropUnclaimed, DropReservation, Unclaimed, Goto
  <2>28. ASSUME NEW c \in reservation, LaunchStudent(c) PROVE ReservedInFlight'
    <3>1. intents = {} /\ c \in Claims /\ reservation = {c}
      BY <2>28 DEF LaunchStudent, Unclaimed, TypeOK
    <3>2. ClaimIn(TrainIntent(c)) = c
      BY <3>1 DEF ClaimIn, TrainIntent, Claims
    <3>3. /\ intents' = {TrainIntent(c)} /\ hand' = intents' /\ pc' = "launch"
          /\ UNCHANGED <<reservation, claim, joined, now>>
      BY <2>28, <3>1 DEF LaunchStudent, PutIntent, Goto, stages, world
    <3>4. \A j \in Jobs : InFlight(j)' => InFlight(j)
      BY <3>3, <2>0 DEF TypeOK
    <3> QED
      BY <3>1, <3>2, <3>3, <3>4
  <2>29. ASSUME NEW c \in reservation, Consumed(c) PROVE ReservedInFlight'
    <3>1. CASE pc = "release"
      <4>1. ~InFlight(c.job)
        BY <2>29, <3>1, OverAtTick DEF InFlight, Consumed, TypeOK, Claims
      <4>2. \A j \in Jobs : ~InFlight(j)
        BY <2>29, <4>1 DEF Consumed
      <4>3. \A j \in Jobs : ~InFlight(j)'
        BY <2>29, <3>1, <2>0, <4>2 DEF Consumed, DropReservation, Goto, stages, world, TypeOK
      <4> QED
        BY <2>29, <3>1, <4>3 DEF Consumed, DropReservation, Goto
    <3>2. CASE pc = "consume"
      BY <2>29, <3>2, <2>0 DEF Consumed, Goto, Stored, stages, world, TypeOK
    <3> QED
      BY <2>29, <3>1, <3>2 DEF Consumed
  <2>30. ASSUME NEW c \in reservation, NEW t \in Teachers, ConsumeSource(c, t) PROVE ReservedInFlight'
    BY <2>30, <2>0 DEF ConsumeSource, Goto, Stored, config, teachers, stages, world, TypeOK
  <2>31. ASSUME NEW c \in hand, Reserve(c) PROVE ReservedInFlight'
    BY <2>31, <2>0 DEF Reserve, Goto, Stored, config, teachers, stages, world, TypeOK
  <2>32. ASSUME NEW t \in Teachers, RestoreFrontier(t) PROVE ReservedInFlight'
    BY <2>32, <2>0 DEF RestoreFrontier, Goto, Stored, config, teachers, stages, world, TypeOK
  <2>33. ASSUME NEW t \in Teachers, ClaimTeacher(t) PROVE ReservedInFlight'
    BY <2>33, <2>0 DEF ClaimTeacher, Goto, Stored, config, teachers, stages, world, TypeOK
  <2>34. CASE UNCHANGED vars
    BY <2>34, <2>0 DEF vars, Goto, Stored, config, teachers, stages, world, TypeOK
  <2> HIDE DEF ReservedInFlight
  <2> QED
    BY <2>1, <2>2, <2>3, <2>4, <2>5, <2>6, <2>7, <2>8, <2>9, <2>10, <2>11,
       <2>12, <2>13, <2>14, <2>15, <2>16, <2>17, <2>18, <2>19, <2>20, <2>21,
       <2>22, <2>23, <2>24, <2>25, <2>26, <2>27, <2>28, <2>29, <2>30, <2>31,
       <2>32, <2>33, <2>34 DEF Next, TickStep, Others
<1> QED
  BY <1>1, <1>2, Typing, PTL DEF Spec


\* At most one student job is in flight, the one the reservation names.
THEOREM SingleStudent == Spec => []OneStudentInFlight
<1>1. ReservedInFlight => OneStudentInFlight
  <2> SUFFICES ASSUME ReservedInFlight, NEW j \in Jobs, NEW k \in Jobs,
                      InFlight(j), InFlight(k)
               PROVE  j = k
    BY DEF OneStudentInFlight
  <2>1. [job |-> j, started |-> claim[j]] = [job |-> k, started |-> claim[k]]
    BY DEF ReservedInFlight
  <2> QED
    BY <2>1
<1> QED
  BY <1>1, Reservation, PTL

-----------------------------------------------------------------------------

(***************************************************************************)
(* A stored student result is what the stage results determine, for ever:  *)
(* no stage result arrives after a join that it would have changed.        *)
(***************************************************************************)
THEOREM JoinIsFinal == Spec => []JoinMatchesStages
<1> USE StudentAssumption
<1>1. Init => JoinMatchesStages
  BY DEF Init, JoinMatchesStages
<1>2. TypeOK /\ TypeOK' /\ JoinMatchesStages /\ [Next]_vars => JoinMatchesStages'
  <2> SUFFICES ASSUME TypeOK, TypeOK', JoinMatchesStages, [Next]_vars
               PROVE  JoinMatchesStages'
    OBVIOUS
  <2> USE DEF JoinMatchesStages
  <2>1. ASSUME NEW a \in Admissions, PublishAdmission(a) PROVE JoinMatchesStages'
    BY <2>1 DEF PublishAdmission, Goto, Stored, config, teachers, stages, world, Expected
  <2>2. ASSUME NEW r \in Recipes, Reconfigure(r) PROVE JoinMatchesStages'
    BY <2>2 DEF Reconfigure, Goto, Stored, config, teachers, stages, world, Expected
  <2>3. ASSUME NEW t \in Teachers, StoreTeacherResult(t) PROVE JoinMatchesStages'
    BY <2>3 DEF StoreTeacherResult, Goto, Stored, config, teachers, stages, world, Expected
  <2>4. ASSUME NEW j \in Jobs, NEW o \in Outcomes, NEW t \in Times, IngestTrain(j, o, t) PROVE JoinMatchesStages'
    BY <2>4 DEF IngestTrain, Goto, Stored, config, teachers, stages, world, Expected
  <2>5. ASSUME NEW j \in Jobs, NEW v \in Variants, RetryBranch(j, v) PROVE JoinMatchesStages'
    BY <2>5 DEF RetryBranch, Goto, Stored, config, teachers, stages, world, Expected
  <2>6. ASSUME NEW j \in Jobs, NEW v \in Variants, NEW o \in Outcomes, IngestBranch(j, v, o) PROVE JoinMatchesStages'
    BY <2>6 DEF IngestBranch, Goto, Stored, config, teachers, stages, world, Expected
  <2>7. ASSUME NEW j \in Jobs, JoinIngested(j) PROVE JoinMatchesStages'
    BY <2>7 DEF JoinIngested, JoinStages, Goto, Stored, config, teachers, stages, world, Expected
  <2>8. ASSUME NEW j \in Jobs, LoseJoin(j) PROVE JoinMatchesStages'
    BY <2>8 DEF LoseJoin, Goto, Stored, config, teachers, stages, world, Expected
  <2>9. CASE Crash
    BY <2>9 DEF Crash, Goto, Stored, config, teachers, stages, world, Expected
  <2>10. CASE Advance
    BY <2>10 DEF Advance, Goto, Stored, config, teachers, stages, world, Expected
  <2>11. CASE Begin
    BY <2>11 DEF Begin, Goto, Stored, config, teachers, stages, world, Expected
  <2>12. ASSUME NEW i \in intents, Recover(i) PROVE JoinMatchesStages'
    BY <2>12 DEF Recover, Goto, Stored, config, teachers, stages, world, Expected
  <2>13. ASSUME NEW i \in hand, PutClaim(i) PROVE JoinMatchesStages'
    <3>1. i.job \in Jobs /\ i.started \in Nat
      BY <2>13 DEF PutClaim, TypeOK
    <3>2. UNCHANGED <<train, branch, joined>>
          /\ \A j \in Jobs : fanout[j] # Never => fanout'[j] = fanout[j]
      BY <2>13, <3>1 DEF PutClaim, stages, TypeOK
    <3>3. ASSUME NEW j \in Jobs, Expected(j) # "none" PROVE Expected(j)' = Expected(j)
      BY <3>2, <3>3 DEF Expected
    <3> QED
      BY <3>2, <3>3
  <2>14. ASSUME NEW i \in hand, Differs(i) PROVE JoinMatchesStages'
    BY <2>14 DEF Differs, Bail, Goto, Stored, config, teachers, stages, world, Expected
  <2>15. ASSUME NEW i \in hand, Settle(i) PROVE JoinMatchesStages'
    BY <2>15 DEF Settle, Goto, Stored, config, teachers, stages, world, Expected
  <2>16. CASE IntentsDone
    BY <2>16 DEF IntentsDone, Goto, Stored, config, teachers, stages, world, Expected
  <2>17. CASE NoStudent
    BY <2>17 DEF NoStudent, Goto, Stored, config, teachers, stages, world, Expected
  <2>18. CASE NoReservation
    BY <2>18 DEF NoReservation, Goto, Stored, config, teachers, stages, world, Expected
  <2>19. CASE Prepare
    BY <2>19 DEF Prepare, Ready, Goto, Stored, config, teachers, stages, world, Expected
  <2>20. CASE NotReady
    BY <2>20 DEF NotReady, Ready, Goto, Stored, config, teachers, stages, world, Expected
  <2>21. CASE Hold
    BY <2>21 DEF Hold, Goto, Stored, config, teachers, stages, world, Expected
  <2>22. ASSUME NEW c \in reservation, AwaitStage(c) PROVE JoinMatchesStages'
    BY <2>22 DEF AwaitStage, Goto, Stored, config, teachers, stages, world, Expected
  <2>23. ASSUME NEW c \in reservation, JoinReserved(c) PROVE JoinMatchesStages'
    BY <2>23 DEF JoinReserved, JoinStages, Goto, Stored, config, teachers, stages, world, Expected
  <2>24. ASSUME NEW c \in reservation, ClaimFanout(c) PROVE JoinMatchesStages'
    BY <2>24 DEF ClaimFanout, PutIntent, FanoutIntent, Goto, Stored, config, teachers, stages, world, Expected
  <2>25. ASSUME NEW c \in reservation, Refuse(c) PROVE JoinMatchesStages'
    BY <2>25 DEF Refuse, Bail, Goto, Stored, config, teachers, stages, world, Expected
  <2>26. ASSUME NEW c \in reservation, FindClaim(c) PROVE JoinMatchesStages'
    BY <2>26 DEF FindClaim, Goto, Stored, config, teachers, stages, world, Expected
  <2>27. ASSUME NEW c \in reservation, DropUnclaimed(c) PROVE JoinMatchesStages'
    BY <2>27 DEF DropUnclaimed, DropReservation, Unclaimed, Goto, Stored, config, teachers, stages, world, Expected
  <2>28. ASSUME NEW c \in reservation, LaunchStudent(c) PROVE JoinMatchesStages'
    BY <2>28 DEF LaunchStudent, PutIntent, TrainIntent, Unclaimed, Goto, Stored, config, teachers, stages, world, Expected
  <2>29. ASSUME NEW c \in reservation, Consumed(c) PROVE JoinMatchesStages'
    BY <2>29 DEF Consumed, DropReservation, Goto, Stored, config, teachers, stages, world, Expected
  <2>30. ASSUME NEW c \in reservation, NEW t \in Teachers, ConsumeSource(c, t) PROVE JoinMatchesStages'
    BY <2>30 DEF ConsumeSource, Goto, Stored, config, teachers, stages, world, Expected
  <2>31. ASSUME NEW c \in hand, Reserve(c) PROVE JoinMatchesStages'
    BY <2>31 DEF Reserve, Goto, Stored, config, teachers, stages, world, Expected
  <2>32. ASSUME NEW t \in Teachers, RestoreFrontier(t) PROVE JoinMatchesStages'
    BY <2>32 DEF RestoreFrontier, Goto, Stored, config, teachers, stages, world, Expected
  <2>33. ASSUME NEW t \in Teachers, ClaimTeacher(t) PROVE JoinMatchesStages'
    BY <2>33 DEF ClaimTeacher, Goto, Stored, config, teachers, stages, world, Expected
  <2>34. CASE UNCHANGED vars
    BY <2>34 DEF vars, Goto, Stored, config, teachers, stages, world, Expected
  <2> HIDE DEF JoinMatchesStages
  <2> QED
    BY <2>1, <2>2, <2>3, <2>4, <2>5, <2>6, <2>7, <2>8, <2>9, <2>10, <2>11,
       <2>12, <2>13, <2>14, <2>15, <2>16, <2>17, <2>18, <2>19, <2>20, <2>21,
       <2>22, <2>23, <2>24, <2>25, <2>26, <2>27, <2>28, <2>29, <2>30, <2>31,
       <2>32, <2>33, <2>34 DEF Next, TickStep, Others
<1> QED
  BY <1>1, <1>2, Typing, PTL DEF Spec

-----------------------------------------------------------------------------
(* The stages implement StudentPipeline.                                   *)

\* No stage reports before the claim that starts it, and a fanout is claimed,
\* or intended, only for a train stage that passed.
Evidence ==
    /\ \A j \in Jobs : train[j] # "none" => claim[j] # Never
    /\ \A j \in Jobs : fanout[j] # Never => train[j] = "good"
    /\ \A j \in Jobs, v \in Variants : branch[j][v] # "none" => fanout[j] # Never
    /\ \A i \in intents : i.stage = "fanout" => train[i.job] = "good"

evidence == <<claim, train, fanout, branch, joined>>

\* What a step can do to the evidence.
LEMMA EvidenceSteps ==
  ASSUME TypeOK, [Next]_vars
  PROVE  \/ UNCHANGED evidence /\ now' \in {now, now + 1}
         \/ /\ UNCHANGED now
            /\ \/ \E i \in intents : PutClaim(i) /\ UNCHANGED <<train, branch, joined, intents>>
               \/ /\ UNCHANGED <<claim, fanout, intents>>
                  /\ \/ \E j \in Jobs, o \in Outcomes, t \in Times :
                           IngestTrain(j, o, t) /\ UNCHANGED <<branch, joined>>
                     \/ \E j \in Jobs, v \in Variants, o \in Outcomes :
                           IngestBranch(j, v, o) /\ UNCHANGED <<train, joined>>
                     \/ \E j \in Jobs : JoinStages(j) /\ UNCHANGED <<train, branch>>
<1>1. CASE \E i \in hand : PutClaim(i)
  <2>1. hand \subseteq intents
    BY <1>1 DEF PutClaim, TypeOK
  <2> QED
    BY <1>1, <2>1 DEF PutClaim, Goto, stages, world
<1>2. CASE \E j \in Jobs, o \in Outcomes, t \in Times : IngestTrain(j, o, t)
  BY <1>2 DEF IngestTrain, world
<1>3. CASE \E j \in Jobs, v \in Variants, o \in Outcomes : IngestBranch(j, v, o)
  BY <1>3 DEF IngestBranch, world
<1>4. CASE \E j \in Jobs : JoinIngested(j)
  BY <1>4 DEF JoinIngested, world
<1>5. CASE \E c \in reservation : JoinReserved(c)
  <2>1. PICK c \in reservation : JoinReserved(c)
    BY <1>5
  <2>2. c.job \in Jobs
    BY DEF TypeOK, Claims
  <2>3. JoinStages(c.job) /\ UNCHANGED <<train, branch, claim, fanout, intents, now>>
    BY <2>1 DEF JoinReserved, Goto, world
  <2> QED
    BY <2>2, <2>3
<1>6. CASE UNCHANGED vars \/ Advance
  BY <1>6 DEF vars, world, Advance, Stored, stages, evidence
<1>7. CASE Begin \/ Crash \/ \E a \in Admissions : PublishAdmission(a)
  BY <1>7 DEF Begin, Crash, PublishAdmission, world, Stored, stages, evidence
<1>8. CASE \/ \E r \in Recipes : Reconfigure(r)
           \/ \E t \in Teachers : StoreTeacherResult(t) \/ RestoreFrontier(t) \/ ClaimTeacher(t)
           \/ \E j \in Jobs : LoseJoin(j) \/ \E v \in Variants : RetryBranch(j, v)
  BY <1>8 DEF Reconfigure, StoreTeacherResult, RestoreFrontier, ClaimTeacher, LoseJoin, RetryBranch,
              world, Stored, stages, evidence
<1>9. CASE \/ \E i \in intents : Recover(i)
           \/ \E i \in hand : Differs(i) \/ Settle(i)
           \/ IntentsDone \/ NoStudent \/ NoReservation \/ Prepare \/ NotReady \/ Hold
           \/ \E c \in hand : Reserve(c)
  BY <1>9 DEF Recover, Differs, Settle, IntentsDone, NoStudent, NoReservation, Prepare, NotReady, Hold,
              Reserve, Bail, Goto, world, Stored, stages, evidence
<1>10. CASE \E c \in reservation :
              \/ AwaitStage(c) \/ ClaimFanout(c) \/ Refuse(c) \/ FindClaim(c) \/ DropUnclaimed(c)
              \/ LaunchStudent(c) \/ Consumed(c) \/ \E t \in Teachers : ConsumeSource(c, t)
  BY <1>10 DEF AwaitStage, ClaimFanout, Refuse, FindClaim, DropUnclaimed, LaunchStudent, Consumed,
               ConsumeSource, PutIntent, DropReservation, Bail, Goto, world, Stored, stages, evidence
<1> QED
  BY <1>1, <1>2, <1>3, <1>4, <1>5, <1>6, <1>7, <1>8, <1>9, <1>10 DEF Next, TickStep, Others

\* A new fanout intent is that of a train stage that passed.
LEMMA IntentSteps ==
  ASSUME TypeOK, [Next]_vars, NEW i \in intents' \ intents, i.stage = "fanout"
  PROVE  train[i.job] = "good" /\ UNCHANGED evidence
<1>1. ASSUME NEW c \in reservation, ClaimFanout(c) PROVE train[i.job] = "good" /\ UNCHANGED evidence
  <2>1. i = FanoutIntent([c EXCEPT !.started = at]) /\ train[c.job] = "good" /\ UNCHANGED evidence
    BY <1>1 DEF ClaimFanout, PutIntent, stages, evidence
  <2>2. c \in Claims
    BY DEF TypeOK
  <2> QED
    BY <2>1, <2>2 DEF FanoutIntent, Claims
<1>2. ASSUME NEW c \in reservation, LaunchStudent(c) PROVE FALSE
  <2>1. i = TrainIntent(c)
    BY <1>2 DEF LaunchStudent, PutIntent
  <2> QED
    BY <2>1 DEF TrainIntent
<1>3. CASE TickStep
  <2>1. \E c \in reservation : ClaimFanout(c) \/ LaunchStudent(c)
    BY <1>3 DEF TickStep, Recover, PutClaim, Differs, Settle, IntentsDone, NoStudent, NoReservation,
                Prepare, NotReady, Hold, AwaitStage, JoinReserved, Refuse, FindClaim, DropUnclaimed,
                Consumed, ConsumeSource, Reserve, RestoreFrontier, ClaimTeacher, DropReservation,
                Bail, Stored, TypeOK
  <2> QED
    BY <1>1, <1>2, <2>1
<1>4. CASE Others \/ Begin \/ UNCHANGED vars
  BY <1>4 DEF Others, Begin, PublishAdmission, Reconfigure, StoreTeacherResult, IngestTrain, RetryBranch,
              IngestBranch, JoinIngested, LoseJoin, Crash, Advance, Stored, vars
<1> QED
  BY <1>3, <1>4 DEF Next

LEMMA EvidenceStep == ASSUME TypeOK, Evidence, [Next]_vars PROVE Evidence'
<1> USE StudentAssumption
<1>1. CASE UNCHANGED evidence
  BY <1>1, IntentSteps DEF Evidence, evidence
<1>2. ASSUME NEW i \in intents, PutClaim(i), UNCHANGED <<train, branch, joined, intents>> PROVE Evidence'
  <2>1. i.job \in Jobs /\ i.started # Never
    BY <1>2 DEF TypeOK, Never
  <2> QED
    BY <1>2, <2>1 DEF Evidence, PutClaim, TypeOK
<1>3. ASSUME NEW j \in Jobs, NEW o \in Outcomes, NEW t \in Times, IngestTrain(j, o, t),
             UNCHANGED <<claim, fanout, intents, branch>>
      PROVE  Evidence'
  <2>1. claim[j] # Never /\ train[j] = "none" /\ train' = [train EXCEPT ![j] = o]
    BY <1>3 DEF IngestTrain, WithinStage
  <2>2. \A i \in intents : i.job \in Jobs
    BY DEF TypeOK
  <2> QED
    BY <1>3, <2>1, <2>2 DEF Evidence, TypeOK
<1>4. ASSUME NEW j \in Jobs, NEW v \in Variants, NEW o \in Outcomes, IngestBranch(j, v, o),
             UNCHANGED <<claim, fanout, intents, train>>
      PROVE  Evidence'
  <2>1. fanout[j] # Never /\ branch' = [branch EXCEPT ![j][v] = o]
    BY <1>4 DEF IngestBranch, WithinStage
  <2> QED
    BY <1>4, <2>1 DEF Evidence, TypeOK
<1>5. CASE UNCHANGED <<claim, fanout, intents, train, branch>>
  BY <1>5 DEF Evidence
<1> QED
  BY <1>1, <1>2, <1>3, <1>4, <1>5, EvidenceSteps

\* A join finds every stage in.
LEMMA Complete ==
  ASSUME TypeOK, Evidence, NEW j \in Jobs, joined[j] = "none", Expected(j) # "none"
  PROVE  \/ StageOf(j) = "failed"
         \/ StageOf(j) = "branching" /\ \A v \in Variants : <<j, v>> \in Reported
<1>1. CASE train[j] = "failed"
  BY <1>1 DEF StageOf, Evidence
<1>2. CASE train[j] # "failed"
  <2>1. fanout[j] # Never /\ \A v \in Variants : branch[j][v] # "none"
    BY <1>2 DEF Expected
  <2> QED
    BY <2>1 DEF StageOf, Reported
<1> QED
  BY <1>1, <1>2

\* Every step of the stages is a step of the pipeline, or none.
LEMMA PipelineStep ==
  ASSUME TypeOK, ReservedInFlight, JoinMatchesStages, Evidence, [Next]_vars
  PROVE  [Pipeline!Next]_<<Flying, Stage, Reported>>
<1> USE StudentAssumption
<1> DEFINE Same == UNCHANGED <<Flying, Stage, Reported>>
<1>1. CASE UNCHANGED evidence /\ now' \in {now, now + 1}
  <2>1. UNCHANGED <<Stage, Reported>>
    BY <1>1 DEF Stage, StageOf, Reported, evidence
  <2>2. \A j \in Jobs : InFlight(j)' => InFlight(j)
    BY <1>1, NoneTakesOff DEF evidence, TypeOK
  <2>3. ASSUME NEW j \in Jobs, NEW k \in Jobs, InFlight(j), InFlight(k) PROVE j = k
    <3>1. [job |-> j, started |-> claim[j]] = [job |-> k, started |-> claim[k]]
      BY <2>3 DEF ReservedInFlight
    <3> QED
      BY <3>1
  <2>4. Flying' = Flying \/ Flying' = {}
    BY <2>2, <2>3 DEF Flying
  <2> QED
    BY <2>1, <2>4 DEF Pipeline!Next, Pipeline!Expire
<1>2. ASSUME NEW i \in intents, PutClaim(i), UNCHANGED <<train, branch, joined, intents, now>>
      PROVE  [Pipeline!Next]_<<Flying, Stage, Reported>>
  <2> DEFINE j == i.job
  <2>1. j \in Jobs /\ i.started \in Nat /\ i.started # Never
    BY DEF TypeOK, Never
  <2>2. Reported' = Reported
    BY <1>2 DEF Reported
  <2>3. CASE i.stage = "train" /\ claim[j] = Never
    <3>1. claim' = [claim EXCEPT ![j] = i.started] /\ fanout' = fanout
      BY <1>2, <2>3 DEF PutClaim
    <3>2. train[j] = "none" /\ fanout[j] = Never
      BY <2>1, <2>3 DEF Evidence, TypeOK, Outcomes
    <3>3. ASSUME NEW k \in Jobs, InFlight(k) PROVE FALSE
      <4>1. [job |-> k, started |-> claim[k]] = ClaimIn(i)
        BY <2>3, <3>3 DEF ReservedInFlight
      <4>2. k = j
        BY <4>1 DEF ClaimIn
      <4> QED
        BY <2>3, <3>3, <4>2 DEF InFlight
    <3>4. Flying = {}
      BY <3>3 DEF Flying
    <3>5. \A k \in Jobs : k # j => ~InFlight(k)'
      BY <1>2, <2>1, <3>1, <3>3 DEF InFlight, Over, TypeOK
    <3>6. Flying' \in {{}, {j}}
      BY <2>1, <3>5 DEF Flying
    <3>7. CASE joined[j] = "none"
      <4>1. Stage[j] = "unborn"
        BY <2>1, <2>3, <3>2, <3>7 DEF Stage, StageOf
      <4>2. Stage' = [Stage EXCEPT ![j] = "training"]
        <5>1. \A k \in Jobs : Stage'[k] = IF k = j THEN "training" ELSE Stage[k]
          BY <1>2, <2>1, <3>1, <3>2, <3>7 DEF Stage, StageOf, TypeOK
        <5> QED
          BY <2>1, <5>1 DEF Stage
      <4> QED
        BY <2>1, <2>2, <3>4, <3>6, <4>1, <4>2 DEF Pipeline!Next, Pipeline!Start, Pipeline!Goto
    <3>8. CASE joined[j] # "none"
      <4>1. \A k \in Jobs : Stage'[k] = Stage[k]
        BY <1>2, <2>1, <3>1, <3>8 DEF Stage, StageOf, TypeOK
      <4>2. Stage' = Stage
        BY <4>1 DEF Stage
      <4>3. Flying' = {}
        BY <1>2, <2>1, <3>6, <3>8 DEF Flying, InFlight
      <4> QED
        BY <2>2, <3>4, <4>2, <4>3
    <3> QED
      BY <3>7, <3>8
  <2>4. CASE i.stage = "train" /\ claim[j] # Never
    <3>1. claim[j] = i.started
      BY <1>2, <2>4 DEF PutClaim, Clashes, Canonical, ClaimIn
    <3>2. claim' = claim /\ fanout' = fanout
      BY <1>2, <2>1, <2>4, <3>1 DEF PutClaim, TypeOK
    <3> QED
      BY <1>2, <2>2, <3>2 DEF Flying, InFlight, Over, Stage, StageOf
  <2>5. CASE i.stage = "fanout"
    <3>1. /\ claim' = claim /\ fanout' = [fanout EXCEPT ![j] = i.started]
          /\ fanout[j] \in {Never, i.started} /\ train[j] = "good"
      BY <1>2, <2>5 DEF PutClaim, Evidence
    <3>2. Flying' = Flying
      BY <1>2, <3>1 DEF Flying, InFlight, Over
    <3>3. CASE fanout[j] = Never /\ joined[j] = "none"
      <4>1. Stage[j] = "trained"
        BY <2>1, <3>1, <3>3 DEF Stage, StageOf
      <4>2. \A k \in Jobs : Stage'[k] = IF k = j THEN "branching" ELSE Stage[k]
        BY <1>2, <2>1, <3>1, <3>3 DEF Stage, StageOf, TypeOK
      <4>3. Stage' = [Stage EXCEPT ![j] = "branching"]
        BY <2>1, <4>2 DEF Stage
      <4> QED
        BY <2>1, <2>2, <3>2, <4>1, <4>3 DEF Pipeline!Next, Pipeline!FanOut, Pipeline!Goto
    <3>4. CASE fanout[j] # Never \/ joined[j] # "none"
      <4>1. \A k \in Jobs : Stage'[k] = Stage[k]
        BY <1>2, <2>1, <3>1, <3>4 DEF Stage, StageOf, TypeOK
      <4> QED
        BY <2>2, <3>2, <4>1 DEF Stage
    <3> QED
      BY <3>3, <3>4
  <2> QED
    BY <2>3, <2>4, <2>5 DEF TypeOK
<1>3. ASSUME NEW j \in Jobs, NEW o \in Outcomes, NEW t \in Times, IngestTrain(j, o, t),
             UNCHANGED <<now, claim, fanout, branch, joined>>
      PROVE  [Pipeline!Next]_<<Flying, Stage, Reported>>
  <2>1. claim[j] # Never /\ train[j] = "none" /\ train' = [train EXCEPT ![j] = o]
    BY <1>3 DEF IngestTrain, WithinStage
  <2>2. fanout[j] = Never /\ o \in {"good", "failed"}
    BY <2>1 DEF Evidence, Outcomes
  <2>3. UNCHANGED <<Flying, Reported>>
    BY <1>3 DEF Flying, InFlight, Over, Reported
  <2>4. CASE joined[j] = "none"
    <3>1. Stage[j] = "training"
      BY <2>1, <2>2, <2>4 DEF Stage, StageOf
    <3>2. \A k \in Jobs : Stage'[k] = IF k = j THEN IF o = "good" THEN "trained" ELSE "failed" ELSE Stage[k]
      BY <1>3, <2>1, <2>2, <2>4 DEF Stage, StageOf, TypeOK
    <3>3. Stage' = [Stage EXCEPT ![j] = IF o = "good" THEN "trained" ELSE "failed"]
      BY <3>2 DEF Stage
    <3> QED
      BY <2>3, <3>1, <3>3 DEF Pipeline!Next, Pipeline!Train, Pipeline!Goto
  <2>5. CASE joined[j] # "none"
    <3>1. \A k \in Jobs : Stage'[k] = Stage[k]
      BY <1>3, <2>1, <2>5 DEF Stage, StageOf, TypeOK
    <3> QED
      BY <2>3, <3>1 DEF Stage
  <2> QED
    BY <2>4, <2>5
<1>4. ASSUME NEW j \in Jobs, NEW v \in Variants, NEW o \in Outcomes, IngestBranch(j, v, o),
             UNCHANGED <<now, claim, fanout, train, joined>>
      PROVE  [Pipeline!Next]_<<Flying, Stage, Reported>>
  <2>1. /\ branch[j][v] = "none" /\ fanout[j] # Never
        /\ branch' = [branch EXCEPT ![j][v] = o] /\ o # "none"
    BY <1>4 DEF IngestBranch, WithinStage, Outcomes
  <2>2. UNCHANGED <<Flying, Stage>>
    BY <1>4 DEF Flying, InFlight, Over, Stage, StageOf
  <2>3. joined[j] = "none"
    BY <2>1 DEF Evidence, JoinMatchesStages, Expected, TypeOK
  <2>4. Stage[j] = "branching" /\ <<j, v>> \notin Reported
    BY <2>1, <2>3 DEF Stage, StageOf, Reported
  <2>5. \A k \in Jobs, w \in Variants :
            branch'[k][w] # "none" <=> branch[k][w] # "none" \/ (k = j /\ w = v)
    BY <2>1 DEF TypeOK
  <2>6. Reported' = Reported \cup {<<j, v>>}
    BY <2>5 DEF Reported
  <2> QED
    BY <2>2, <2>4, <2>6 DEF Pipeline!Next, Pipeline!Report
<1>5. ASSUME NEW j \in Jobs, JoinStages(j), UNCHANGED <<now, claim, fanout, train, branch>>
      PROVE  [Pipeline!Next]_<<Flying, Stage, Reported>>
  <2>1. Reported' = Reported
    BY <1>5 DEF Reported
  <2>2. CASE joined[j] = "none" /\ Expected(j) # "none"
    <3>1. \/ Stage[j] = "failed"
          \/ Stage[j] = "branching" /\ \A v \in Variants : <<j, v>> \in Reported
      BY <2>2, Complete DEF Stage
    <3>2. joined' = [joined EXCEPT ![j] = Expected(j)]
      BY <1>5, <2>2 DEF JoinStages
    <3>3. \A k \in Jobs : Stage'[k] = IF k = j THEN "joined" ELSE Stage[k]
      BY <1>5, <2>2, <3>2 DEF Stage, StageOf, TypeOK
    <3>4. Stage' = [Stage EXCEPT ![j] = "joined"]
      BY <3>3 DEF Stage
    <3>5. \A k \in Jobs : InFlight(k)' <=> InFlight(k) /\ k # j
      BY <1>5, <2>2, <3>2 DEF InFlight, Over, TypeOK
    <3>6. Flying' = Flying \ {j}
      BY <3>5 DEF Flying
    <3> QED
      BY <2>1, <3>1, <3>4, <3>6 DEF Pipeline!Next, Pipeline!Join, Pipeline!Goto
  <2>3. CASE joined[j] # "none" \/ Expected(j) = "none"
    <3>1. joined' = joined
      BY <1>5, <2>3 DEF JoinStages, TypeOK
    <3> QED
      BY <1>5, <2>1, <3>1 DEF Flying, InFlight, Over, Stage, StageOf
  <2> QED
    BY <2>2, <2>3
<1> QED
  BY <1>1, <1>2, <1>3, <1>4, <1>5, EvidenceSteps

(***************************************************************************)
(* The stages implement StudentPipeline: whatever ticks and commands die,  *)
(* are retried or come late, students fly one at a time and go through     *)
(* their stages in order, each once (claim_student_job,                    *)
(* advance_student_fanout, join_student_stages and the ingest commands).   *)
(***************************************************************************)
THEOREM Implements == Spec => ImplementsPipeline
<1> USE StudentAssumption
<1>1. Init => Pipeline!Init /\ Evidence
  BY DEF Init, Pipeline!Init, Evidence, Flying, InFlight, Stage, StageOf, Reported
<1>2. TypeOK /\ Evidence /\ [Next]_vars => Evidence'
  BY EvidenceStep
<1>3. /\ TypeOK /\ ReservedInFlight /\ JoinMatchesStages /\ Evidence /\ [Next]_vars
      => [Pipeline!Next]_<<Flying, Stage, Reported>>
  BY PipelineStep
<1> QED
  BY <1>1, <1>2, <1>3, Typing, Reservation, JoinIsFinal, PTL DEF Spec, ImplementsPipeline, Pipeline!Spec, Pipeline!vars

=============================================================================
