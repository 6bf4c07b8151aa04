------------------------- MODULE TeacherRunsProofs -------------------------
(***************************************************************************)
(* Proofs about teacher runs, for any jobs, slots, processes and faults:   *)
(* every run has its own nonce and its own calls, and the provider is      *)
(* called at most once for a job.  If no executor takes the margin of the  *)
(* terminalization for one call, every run result stays verifiable and the *)
(* runs implement TeacherCalls; if none looks at a call for as long as the *)
(* call may take, no partition gets more results than its quota.           *)
(***************************************************************************)
EXTENDS TeacherRuns, FiniteSetTheorems, NaturalsInduction, WellFoundedInduction, TLAPS

\* What the tick has in hand once it has a slot.
InHand ==
    /\ pc \in {"retire", "assign", "index", "claim"} =>
          taken \in Slots /\ nonces # 0 /\ slots[taken].nonce = nonces
    /\ pc \in {"idle", "seed", "slot", "retire"} => calls = {}
    /\ \A j \in calls : dispatch[j] = slots[taken].nonce
    /\ pc \in {"retire", "assign", "index"} => \A r \in indexes \cup runClaims : r.nonce # nonces
    /\ pc = "claim" => NewRun \in indexes

\* Nonces are taken in order, and a run ends with the first of its calls.
Numbered ==
    \A r \in indexes \cup runClaims :
        /\ r.nonce \in 1 .. nonces
        /\ \A j \in r.calls : r.expires <= ExpiresAt[j]

ObjectsInv == TypeOK /\ InHand /\ Numbered /\ OneRunPerCall

-----------------------------------------------------------------------------

\* A set of numbers has a least one.
LEMMA Least == ASSUME NEW S \in SUBSET Nat, S # {} PROVE \E n \in S : \A m \in S : n <= m
<1> DEFINE R == {ss \in Nat \X Nat : ss[1] < ss[2]}
<1>1. IsWellFoundedOn(R, Nat)
  BY NatLessThanWellFounded DEF OpToRel
<1>2. PICK x \in S : \A y \in S : ~(<<y, x>> \in R)
  <2> HIDE DEF R
  <2> QED
    BY <1>1, WFMin
<1>3. ASSUME NEW y \in S PROVE x <= y
  <2>1. x \in Nat /\ y \in Nat
    OBVIOUS
  <2>2. y < x => <<y, x>> \in R
    BY <2>1
  <2> QED
    BY <1>2, <2>1, <2>2
<1> QED
  BY <1>3

\* The end of a new run.
LEMMA NewRunExpires ==
    ASSUME TypeOK, taken \in Slots
    PROVE  /\ NewRun.expires \in Nat
           /\ \A j \in calls : NewRun.expires <= ExpiresAt[j]
           /\ NewRun.nonce = slots[taken].nonce /\ NewRun.calls = calls /\ NewRun.slot = taken
<1> DEFINE S == {slots[taken].expires} \cup {ExpiresAt[j] : j \in calls}
           Low(t) == t <= slots[taken].expires /\ \A j \in calls : t <= ExpiresAt[j]
<1>1. S \in SUBSET Nat /\ S # {}
  BY TeacherAssumption DEF TypeOK
<1>2. \E t \in S : Low(t)
  <2> HIDE DEF S
  <2>1. PICK n \in S : \A m \in S : n <= m
    BY <1>1, Least
  <2> QED
    BY <2>1 DEF S
<1>3. NewRun.expires = CHOOSE t \in S : Low(t)
  BY DEF NewRun
<1>4. NewRun.expires \in S /\ Low(NewRun.expires)
  <2> HIDE DEF S, Low
  <2> QED
    BY <1>2, <1>3
<1> QED
  BY <1>1, <1>4 DEF NewRun


-----------------------------------------------------------------------------
(* The tick and its objects.                                               *)

\* What the processes do does not concern the tick.
LEMMA TickSteps ==
    ASSUME [Next]_vars
    PROVE  \/ UNCHANGED <<objects, tick, nonces>>
           \/ TickStep
           \/ Crash
<1>1. CASE Others
  <2>1. ASSUME NEW p \in Procs, ProcStep(p) PROVE UNCHANGED <<objects, tick, nonces>>
    BY <2>1 DEF ProcStep, Enter, Look, TerminalizeCall, TooLate, Judge, StartCall, Answer, CheckStored,
                EndRun, Die, Tick
  <2>2. ASSUME NEW r, BeginRun(r) \/ RefuseRun(r) PROVE UNCHANGED <<objects, tick, nonces>>
    BY <2>2 DEF BeginRun, RefuseRun, Tick
  <2>3. ASSUME ReplaceAdmission \/ Advance PROVE UNCHANGED <<objects, tick, nonces>>
    BY <2>3 DEF ReplaceAdmission, Advance
  <2> QED
    BY <1>1, <2>1, <2>2, <2>3 DEF Others
<1>2. CASE UNCHANGED vars
  BY <1>2 DEF vars
<1> QED
  BY <1>1, <1>2 DEF Next

\* The types of what ticks write ...
TickTypes ==
    /\ claimed \subseteq Jobs /\ dispatch \in [Jobs -> 0 .. MaxNonces]
    /\ slots \in [Slots -> [nonce : 0 .. MaxNonces, expires : Nat]]
    /\ indexes \subseteq Runs /\ runClaims \subseteq Runs
    /\ pc \in {"idle", "seed", "slot", "retire", "assign", "index", "claim"}
    /\ at \in Nat /\ seed \in Jobs \cup {Nothing} /\ taken \in Slots \cup {Nothing}
    /\ calls \subseteq Jobs /\ nonces \in 0 .. MaxNonces

\* ... of what surrounds them ...
WorldTypes == now \in Nat /\ faults \in Nat /\ admitted \in BOOLEAN

\* ... and of what processes write.
RecordTypes ==
    /\ refusals \subseteq Runs /\ starts \subseteq Started
    /\ execution \in [Jobs -> {"none", "started", "not_started"}]
    /\ results \in [Jobs -> Verdicts] /\ called \in [Jobs -> Nat]
    /\ ends \subseteq [run : Runs, said : Saying]
    /\ proc \in [Procs -> {Idle} \cup Active \cup InACall]

\* A new run has its type once its slot is taken.
LEMMA NewRunTyped == ASSUME TypeOK, InHand, pc = "index" PROVE NewRun \in Runs
<1>1. taken \in Slots /\ slots[taken].nonce \in 1 .. MaxNonces
  BY TeacherAssumption DEF InHand, TypeOK
<1>2. NewRun.expires \in Nat /\ calls \in SUBSET Jobs
  BY <1>1, NewRunExpires DEF TypeOK
<1>3. NewRun = [nonce |-> slots[taken].nonce, slot |-> taken, calls |-> calls, expires |-> NewRun.expires]
  BY DEF NewRun
<1> HIDE DEF NewRun
<1> QED
  BY <1>1, <1>2, <1>3 DEF Runs

LEMMA WorldTypesStep == ASSUME TypeOK, [Next]_vars PROVE WorldTypes'
<1>1. now \in Nat /\ faults \in Nat /\ admitted \in BOOLEAN
  BY DEF TypeOK
<1>2. CASE TickStep
  BY <1>1, <1>2 DEF TickStep, Begin, CannotPrepare, NoMoreCalls, Resume, Prune, TakeSeed, ClaimTeacher,
              AssignCall, AcquireSlot, RetireRun, PutIndex, PutClaim, World, WorldTypes
<1>3. ASSUME NEW p \in Procs, ProcStep(p)
      PROVE  now' = now /\ admitted' = admitted /\ faults' \in {faults, faults + 1}
  BY <1>3 DEF ProcStep, Enter, Look, TerminalizeCall, TooLate, Judge, StartCall, Answer, CheckStored,
              EndRun, Die, Tick
<1>4. ASSUME NEW r, BeginRun(r) \/ RefuseRun(r)
      PROVE  now' = now /\ admitted' = admitted /\ faults' \in {faults, faults + 1}
  BY <1>4 DEF BeginRun, RefuseRun, Tick
<1>5. CASE Crash \/ ReplaceAdmission
  <2>1. now' = now /\ faults' = faults + 1
    BY <1>5 DEF Crash, ReplaceAdmission
  <2>2. admitted' \in BOOLEAN
    <3>1. CASE Crash
      BY <1>1, <3>1 DEF Crash
    <3>2. CASE ReplaceAdmission
      BY <3>2 DEF ReplaceAdmission
    <3> QED
      BY <1>5, <3>1, <3>2
  <2>3. now' \in Nat /\ faults' \in Nat
    BY <1>1, <2>1
  <2> QED
    BY <2>2, <2>3 DEF WorldTypes
<1>6. CASE Advance
  BY <1>1, <1>6 DEF Advance, WorldTypes
<1>7. CASE UNCHANGED vars
  BY <1>1, <1>7 DEF vars, WorldTypes
<1> QED
  BY <1>1, <1>2, <1>3, <1>4, <1>5, <1>6, <1>7 DEF Next, Others, WorldTypes

LEMMA TickTypesStep == ASSUME TypeOK, InHand, [Next]_vars PROVE TickTypes'
<1> USE DEF TickTypes, objects, tick, Hand, Goto, Stop
<1>1. CASE UNCHANGED <<objects, tick, nonces>>
  BY <1>1 DEF TypeOK
<1>2. CASE Crash \/ Begin \/ CannotPrepare \/ NoMoreCalls
  BY <1>2 DEF TypeOK, Crash, Begin, CannotPrepare, NoMoreCalls
<1>3. ASSUME NEW r \in indexes, Resume(r) \/ Prune(r) PROVE TickTypes'
  BY <1>3 DEF TypeOK, Resume, Prune
<1>4. ASSUME NEW j \in Jobs, TakeSeed(j) \/ ClaimTeacher(j) PROVE TickTypes'
  BY <1>4 DEF TypeOK, TakeSeed, ClaimTeacher
<1>5. ASSUME NEW j \in Jobs, AssignCall(j) PROVE TickTypes'
  <2>1. pc = "assign" /\ slots[taken].nonce \in 0 .. MaxNonces
    BY <1>5 DEF AssignCall, TypeOK, InHand
  <2> QED
    BY <1>5, <2>1 DEF TypeOK, AssignCall
<1>6. ASSUME NEW s \in Slots, AcquireSlot(s) PROVE TickTypes'
  <2> DEFINE until == Earlier(NotAfter, at + MaxGpu + Margin)
  <2>1. until \in Nat
    BY TeacherAssumption DEF Earlier, TypeOK
  <2>2. nonces + 1 \in 0 .. MaxNonces
    BY <1>6, TeacherAssumption DEF AcquireSlot, TypeOK
  <2> HIDE DEF until
  <2>3. [nonce |-> nonces + 1, expires |-> until] \in [nonce : 0 .. MaxNonces, expires : Nat]
    BY <2>1, <2>2
  <2>4. \/ /\ slots' = [slots EXCEPT ![s] = [nonce |-> nonces + 1, expires |-> until]]
           /\ nonces' = nonces + 1 /\ taken' = s /\ pc' = "retire" /\ UNCHANGED <<at, seed, calls>>
        \/ Stop /\ UNCHANGED <<slots, nonces>>
    BY <1>6 DEF AcquireSlot, until
  <2>5. UNCHANGED <<claimed, dispatch, indexes, runClaims>>
    BY <1>6 DEF AcquireSlot
  <2> QED
    BY <2>2, <2>3, <2>4, <2>5 DEF TypeOK
<1>7. CASE RetireRun
  BY <1>7 DEF TypeOK, RetireRun
<1>8. CASE PutIndex
  BY <1>8, NewRunTyped DEF TypeOK, PutIndex
<1>9. CASE PutClaim
  BY <1>9 DEF TypeOK, PutClaim, InHand
<1> QED
  BY <1>1, <1>2, <1>3, <1>4, <1>5, <1>6, <1>7, <1>8, <1>9, TickSteps DEF TickStep

-----------------------------------------------------------------------------
(* The processes and their records.                                        *)

Working == Active \cup InACall

LEMMA ProcKinds ==
    ASSUME TypeOK, NEW p \in Procs
    PROVE  /\ proc[p].step = "next" => proc[p] \in Active
           /\ InCall(p) => proc[p] \in InACall
           /\ proc[p] # Idle => proc[p] \in Working
<1>1. proc[p] \in {Idle} \cup Active \cup InACall
  BY DEF TypeOK
<1>2. Idle.step = "idle"
  BY DEF Idle
<1>3. \A x \in Active : x.step = "next"
  BY DEF Active
<1>4. \A x \in InACall : x.step \in {"found", "call", "stored"}
  BY DEF InACall
<1> QED
  BY <1>1, <1>2, <1>3, <1>4 DEF InCall, Working

\* What a process says, and where it goes, has its type.
LEMMA SayTyped ==
    ASSUME TypeOK, NEW p \in Procs, proc[p] \in Working, NEW j, NEW t \in Terminals, Say(p, j, t)
    PROVE  /\ proc' = [proc EXCEPT ![p] = proc'[p]]
           /\ proc'[p] \in Active /\ proc'[p].step = "next"
           /\ proc'[p].start = proc[p].start /\ proc'[p].role = proc[p].role
           /\ proc'[p].said = [proc[p].said EXCEPT ![j] = t]
<1>1. proc'[p] = [step |-> "next", role |-> proc[p].role, start |-> proc[p].start,
                  said |-> [proc[p].said EXCEPT ![j] = t]]
  BY DEF Say, TypeOK
<1>2. /\ proc[p].role \in {"execute", "terminalize"} /\ proc[p].start \in Started
      /\ proc[p].said \in Saying
  BY DEF Working, Active, InACall
<1>3. [proc[p].said EXCEPT ![j] = t] \in Saying
  BY <1>2 DEF Saying
<1>4. proc' = [proc EXCEPT ![p] = proc'[p]]
  BY DEF Say, TypeOK
<1> QED
  BY <1>1, <1>2, <1>3, <1>4 DEF Active

LEMMA StepTyped ==
    ASSUME TypeOK, NEW p \in Procs, proc[p] \in InACall, NEW where \in {"call", "stored"}, Step(p, where)
    PROVE  /\ proc' = [proc EXCEPT ![p] = proc'[p]]
           /\ proc'[p] \in InACall /\ proc'[p] = [proc[p] EXCEPT !.step = where]
<1>1. proc'[p] = [proc[p] EXCEPT !.step = where] /\ proc' = [proc EXCEPT ![p] = proc'[p]]
  BY DEF Step, TypeOK
<1> QED
  BY <1>1 DEF InACall

\* A process goes one step, and nobody else does.
LEMMA ProcTyped ==
    ASSUME TypeOK, NEW p \in Procs, ProcStep(p)
    PROVE  /\ proc' = [proc EXCEPT ![p] = proc'[p]]
           /\ proc'[p] \in {Idle} \cup Active \cup InACall
<1>1. CASE proc' = [proc EXCEPT ![p] = Idle]
  BY <1>1 DEF TypeOK
<1>2. ASSUME NEW s \in starts, NEW role \in {"execute", "terminalize"}, Enter(p, s, role)
      PROVE  /\ proc' = [proc EXCEPT ![p] = proc'[p]]
             /\ proc'[p] \in Active
  <2>1. [j \in Jobs |-> "none"] \in Saying
    BY DEF Saying
  <2>2. [step |-> "next", role |-> role, start |-> s, said |-> [j \in Jobs |-> "none"]] \in Active
    BY <2>1 DEF Active, TypeOK
  <2> QED
    BY <1>2, <2>2 DEF Enter, TypeOK
<1>3. ASSUME NEW j \in Jobs, Look(p, j)
      PROVE  /\ proc' = [proc EXCEPT ![p] = proc'[p]]
             /\ proc'[p] \in InACall
  <2>1. proc[p] \in Active /\ proc[p].role = "execute"
    BY <1>3, ProcKinds DEF Look
  <2>2. proc'[p] = [step |-> "found", role |-> proc[p].role, start |-> proc[p].start,
                    said |-> proc[p].said, job |-> j, since |-> now, seen |-> execution[j]]
    BY <1>3 DEF Look, TypeOK
  <2>3. proc' = [proc EXCEPT ![p] = proc'[p]]
    BY <1>3 DEF Look, TypeOK
  <2> QED
    BY <2>1, <2>2, <2>3 DEF Active, InACall, TypeOK
<1>4. ASSUME NEW j, NEW t \in Terminals, proc[p] \in Working, Say(p, j, t)
      PROVE  /\ proc' = [proc EXCEPT ![p] = proc'[p]]
             /\ proc'[p] \in Active
  BY <1>4, SayTyped
<1>5. ASSUME NEW where \in {"call", "stored"}, proc[p] \in InACall, Step(p, where)
      PROVE  /\ proc' = [proc EXCEPT ![p] = proc'[p]]
             /\ proc'[p] \in InACall
  BY <1>5, StepTyped
<1>6. proc[p].step \in {"next", "found", "call", "stored"} => proc[p] \in Working
  BY ProcKinds DEF InCall, Working
<1>7. proc[p].step \in {"found", "call", "stored"} => proc[p] \in InACall
  BY ProcKinds DEF InCall
<1>8. \A e : WithoutResult(e) \in Terminals
  BY DEF WithoutResult, Terminals
<1>9. {"ready", "ambiguous", "not_started"} \subseteq Terminals
  BY DEF Terminals
<1>10. ASSUME NEW j \in Jobs, TerminalizeCall(p, j)
       PROVE  proc' = [proc EXCEPT ![p] = Idle] \/ \E t \in Terminals : Say(p, j, t)
  BY <1>8, <1>9, <1>10 DEF TerminalizeCall
<1>11. CASE TooLate(p) \/ EndRun(p) \/ Die(p)
  BY <1>1, <1>11 DEF TooLate, EndRun, Die
<1>12. CASE Judge(p)
  BY <1>1, <1>4, <1>6, <1>8, <1>9, <1>12 DEF Judge
<1>13. CASE StartCall(p)
  BY <1>4, <1>5, <1>6, <1>7, <1>8, <1>9, <1>13 DEF StartCall
<1>14. ASSUME NEW v, Answer(p, v)
       PROVE  /\ proc' = [proc EXCEPT ![p] = proc'[p]]
              /\ proc'[p] \in Active \cup InACall
  BY <1>4, <1>5, <1>6, <1>7, <1>9, <1>14 DEF Answer
<1>15. CASE CheckStored(p)
  BY <1>4, <1>6, <1>9, <1>15 DEF CheckStored
<1>16. ASSUME NEW j \in Jobs, TerminalizeCall(p, j)
       PROVE  /\ proc' = [proc EXCEPT ![p] = proc'[p]]
              /\ proc'[p] \in {Idle} \cup Active
  <2>1. proc[p] \in Working
    BY <1>6, <1>16 DEF TerminalizeCall
  <2>2. CASE proc' = [proc EXCEPT ![p] = Idle]
    BY <2>2 DEF TypeOK
  <2>3. CASE \E t \in Terminals : Say(p, j, t)
    BY <1>4, <2>1, <2>3
  <2> QED
    BY <1>10, <1>16, <2>2, <2>3
<1> QED
  BY <1>2, <1>3, <1>11, <1>12, <1>13, <1>14, <1>15, <1>16 DEF ProcStep

\* Processes change nothing without a step of their own.
LEMMA ProcSteps ==
    ASSUME [Next]_vars
    PROVE  \/ UNCHANGED <<records, proc>>
           \/ /\ UNCHANGED <<execution, results, ends, called, proc>>
              /\ \E r \in runClaims : BeginRun(r) \/ RefuseRun(r)
           \/ \E p \in Procs : ProcStep(p)
<1>1. CASE TickStep
  BY <1>1 DEF TickStep, Begin, CannotPrepare, NoMoreCalls, Resume, Prune, TakeSeed, ClaimTeacher,
              AssignCall, AcquireSlot, RetireRun, PutIndex, PutClaim, World
<1>2. CASE Crash \/ ReplaceAdmission \/ Advance
  BY <1>2 DEF Crash, ReplaceAdmission, Advance
<1>3. CASE \E r \in runClaims : BeginRun(r) \/ RefuseRun(r)
  BY <1>3 DEF BeginRun, RefuseRun
<1>4. CASE UNCHANGED vars
  BY <1>4 DEF vars
<1> QED
  BY <1>1, <1>2, <1>3, <1>4 DEF Next, Others

LEMMA RecordTypesStep == ASSUME TypeOK, [Next]_vars PROVE RecordTypes'
<1> USE DEF RecordTypes
<1>1. CASE UNCHANGED <<records, proc>>
  BY <1>1 DEF TypeOK, records
<1>2. ASSUME UNCHANGED <<execution, results, ends, called, proc>>,
             NEW r \in runClaims, BeginRun(r) \/ RefuseRun(r)
      PROVE  RecordTypes'
  <2>1. r \in Runs /\ [run |-> r, at |-> now] \in Started
    BY <1>2 DEF TypeOK, Started
  <2>2. starts' \subseteq Started /\ refusals' \subseteq Runs
    BY <1>2, <2>1 DEF TypeOK, BeginRun, RefuseRun
  <2> QED
    BY <1>2, <2>2 DEF TypeOK
<1>3. ASSUME NEW p \in Procs, ProcStep(p) PROVE RecordTypes'
  <2>1. proc' \in [Procs -> {Idle} \cup Active \cup InACall]
    BY <1>3, ProcTyped DEF TypeOK
  <2>2. refusals' \subseteq Runs /\ starts' \subseteq Started
    BY <1>3 DEF TypeOK, ProcStep, Enter, Look, TerminalizeCall, TooLate, Judge, StartCall, Answer,
                CheckStored, EndRun, Die, records
  <2>3. execution' \in [Jobs -> {"none", "started", "not_started"}]
    BY <1>3 DEF TypeOK, ProcStep, Enter, Look, TerminalizeCall, TooLate, Judge, StartCall, Answer,
                CheckStored, EndRun, Die, records
  <2>4. results' \in [Jobs -> Verdicts]
    BY <1>3 DEF TypeOK, ProcStep, Enter, Look, TerminalizeCall, TooLate, Judge, StartCall, Answer,
                CheckStored, EndRun, Die, records, Verdicts
  <2>5. called' \in [Jobs -> Nat]
    BY <1>3 DEF TypeOK, ProcStep, Enter, Look, TerminalizeCall, TooLate, Judge, StartCall, Answer,
                CheckStored, EndRun, Die, records
  <2>6. ends' \subseteq [run : Runs, said : Saying]
    <3>1. CASE EndRun(p)
      <4>1. proc[p].start \in Started /\ proc[p].said \in Saying
        BY <3>1, ProcKinds DEF EndRun, Active
      <4>2. [run |-> proc[p].start.run, said |-> proc[p].said] \in [run : Runs, said : Saying]
        BY <4>1 DEF Started
      <4> QED
        BY <3>1, <4>2 DEF EndRun, TypeOK
    <3>2. CASE ~EndRun(p)
      BY <1>3, <3>2 DEF TypeOK, ProcStep, Enter, Look, TerminalizeCall, TooLate, Judge, StartCall, Answer,
                CheckStored, Die, records
    <3> QED
      BY <3>1, <3>2
  <2> QED
    BY <2>1, <2>2, <2>3, <2>4, <2>5, <2>6
<1> QED
  BY <1>1, <1>2, <1>3, ProcSteps

LEMMA TypesStep == ASSUME TypeOK, InHand, [Next]_vars PROVE TypeOK'
  BY WorldTypesStep, TickTypesStep, RecordTypesStep DEF TypeOK, WorldTypes, TickTypes, RecordTypes

-----------------------------------------------------------------------------
(* The runs.                                                               *)

LEMMA RunsStep ==
    ASSUME ObjectsInv, [Next]_vars PROVE InHand' /\ Numbered' /\ OneRunPerCall'
<1> USE DEF ObjectsInv
<1>0. /\ indexes \subseteq Runs /\ runClaims \subseteq Runs /\ nonces \in 0 .. MaxNonces /\ MaxNonces \in Nat
      /\ dispatch \in [Jobs -> 0 .. MaxNonces] /\ calls \subseteq Jobs
  BY TeacherAssumption DEF TypeOK
<1>1. CASE UNCHANGED <<objects, tick, nonces>>
  BY <1>1 DEF objects, tick, InHand, Numbered, OneRunPerCall, NewRun
<1>2. CASE Crash \/ CannotPrepare \/ Begin \/ (NoMoreCalls /\ calls = {})
  BY <1>2 DEF Crash, CannotPrepare, Begin, NoMoreCalls, Preparing, Stop, Goto, Hand, objects,
              InHand, Numbered, OneRunPerCall
<1>3. CASE NoMoreCalls /\ calls # {}
  <2>1. pc = "assign" /\ pc' = "index" /\ UNCHANGED <<objects, taken, calls, nonces>>
    BY <1>3 DEF NoMoreCalls, Preparing, Goto, Hand, InHand
  <2> QED
    BY <2>1 DEF objects, InHand, Numbered, OneRunPerCall
<1>4. ASSUME NEW r \in indexes, Resume(r) PROVE InHand' /\ Numbered' /\ OneRunPerCall'
  <2>1. /\ pc = "idle" /\ pc' = "idle" /\ UNCHANGED <<indexes, dispatch, slots, nonces, calls>>
        /\ indexes' \cup runClaims' = indexes \cup runClaims
    BY <1>4 DEF Resume, tick
  <2> QED
    BY <2>1 DEF InHand, Numbered, OneRunPerCall
<1>5. ASSUME NEW j \in Jobs, TakeSeed(j) \/ ClaimTeacher(j) PROVE InHand' /\ Numbered' /\ OneRunPerCall'
  <2>1. /\ \/ pc = "seed" /\ pc' = "slot"
           \/ pc = "assign" /\ pc' = "assign"
        /\ UNCHANGED <<dispatch, slots, indexes, runClaims, taken, calls, nonces>>
    BY <1>5 DEF TakeSeed, ClaimTeacher, Preparing, Goto, objects
  <2> QED
    BY <2>1 DEF InHand, Numbered, OneRunPerCall
<1>6. CASE RetireRun \/ \E r \in indexes : Prune(r)
  <2>1. /\ indexes' \subseteq indexes /\ UNCHANGED <<runClaims, dispatch, slots, taken, calls, nonces>>
        /\ \/ pc = "slot" /\ pc' = "slot"
           \/ pc = "retire" /\ pc' = "assign"
    BY <1>6 DEF RetireRun, Prune, Goto, Hand
  <2> QED
    BY <2>1 DEF InHand, Numbered, OneRunPerCall
<1>7. ASSUME NEW s \in Slots, AcquireSlot(s) PROVE InHand' /\ Numbered' /\ OneRunPerCall'
  <2>1. UNCHANGED <<dispatch, indexes, runClaims>> /\ calls = {}
    BY <1>7 DEF AcquireSlot, InHand
  <2>2. \/ /\ slots'[s].nonce = nonces + 1 /\ nonces' = nonces + 1 /\ taken' = s
           /\ pc' = "retire" /\ calls' = calls
        \/ Stop /\ UNCHANGED <<slots, nonces>>
    BY <1>7 DEF AcquireSlot, Goto, TypeOK
  <2>3. \A r \in indexes \cup runClaims : r.nonce \in 1 .. nonces
    BY DEF Numbered
  <2> QED
    BY <1>0, <2>1, <2>2, <2>3 DEF Stop, InHand, Numbered, OneRunPerCall
<1>8. ASSUME NEW j \in Jobs, AssignCall(j) PROVE InHand' /\ Numbered' /\ OneRunPerCall'
  <2>1. /\ pc = "assign" /\ pc' = "assign" /\ UNCHANGED <<slots, indexes, runClaims, taken, nonces>>
        /\ dispatch[j] \in {0, slots[taken].nonce}
        /\ dispatch' = [dispatch EXCEPT ![j] = slots[taken].nonce]
        /\ calls' = calls \cup {j}
    BY <1>8 DEF AssignCall, Unassigned, Assignable, Goto
  <2>2. slots[taken].nonce = nonces /\ \A r \in indexes \cup runClaims : r.nonce # nonces
    BY <2>1 DEF InHand
  <2>3. \A r \in indexes \cup runClaims : j \notin r.calls
    BY <1>0, <2>1, <2>2 DEF Numbered, OneRunPerCall
  <2>4. \A k \in Jobs : k # j => dispatch'[k] = dispatch[k]
    BY <1>0, <2>1
  <2>5. \A r \in indexes \cup runClaims : r.calls \subseteq Jobs
    BY <1>0 DEF Runs
  <2>6. \A r \in indexes' \cup runClaims' : \A k \in r.calls : dispatch'[k] = r.nonce
    BY <2>1, <2>3, <2>4, <2>5 DEF OneRunPerCall
  <2>7. \A k \in calls' : dispatch'[k] = slots'[taken'].nonce
    BY <1>0, <2>1, <2>4 DEF InHand
  <2> QED
    BY <2>1, <2>6, <2>7 DEF InHand, Numbered, OneRunPerCall
<1>9. CASE PutIndex
  <2>1. UNCHANGED <<dispatch, slots, runClaims, nonces>> /\ pc = "index"
    BY <1>9 DEF PutIndex
  <2>2. CASE Stop /\ UNCHANGED indexes
    BY <2>1, <2>2 DEF Stop, InHand, Numbered, OneRunPerCall
  <2>3. CASE indexes' = indexes \cup {NewRun} /\ pc' = "claim" /\ UNCHANGED Hand
    <3>1. /\ taken \in Slots /\ nonces # 0 /\ slots[taken].nonce = nonces
          /\ \A r \in indexes \cup runClaims : r.nonce # nonces
          /\ \A j \in calls : dispatch[j] = nonces
      BY <2>1 DEF InHand
    <3>2. /\ NewRun.nonce = nonces /\ NewRun.calls = calls
          /\ \A j \in calls : NewRun.expires <= ExpiresAt[j]
      BY <3>1, NewRunExpires
    <3>3. NewRun' = NewRun /\ taken' = taken /\ calls' = calls
      BY <2>1, <2>3 DEF NewRun, Hand
    <3> HIDE DEF NewRun
    <3>4. InHand'
      BY <2>1, <2>3, <3>1, <3>3 DEF InHand
    <3>5. nonces \in 1 .. nonces
      BY <1>0, <3>1
    <3>6. Numbered'
      BY <2>1, <2>3, <3>2, <3>5 DEF Numbered
    <3>7. \A r \in indexes \cup runClaims : r.calls \cap calls = {}
      BY <3>1 DEF OneRunPerCall
    <3>8. OneRunPerCall'
      BY <2>1, <2>3, <3>1, <3>2, <3>7 DEF OneRunPerCall
    <3> QED
      BY <3>4, <3>6, <3>8
  <2> QED
    BY <1>9, <2>2, <2>3 DEF PutIndex, Goto
<1>10. CASE PutClaim
  <2>1. /\ UNCHANGED <<dispatch, slots, indexes, nonces>> /\ Stop
        /\ runClaims' \subseteq runClaims \cup {NewRun} /\ NewRun \in indexes
    BY <1>10 DEF PutClaim, InHand
  <2> HIDE DEF NewRun
  <2>2. indexes' \cup runClaims' \subseteq indexes \cup runClaims
    BY <2>1
  <2> QED
    BY <2>1, <2>2 DEF Stop, InHand, Numbered, OneRunPerCall
<1> QED
  BY <1>1, <1>2, <1>3, <1>4, <1>5, <1>6, <1>7, <1>8, <1>9, <1>10, TickSteps DEF TickStep

LEMMA ObjectsInit == ASSUME Init PROVE ObjectsInv
<1>1. TypeOK
  BY TeacherAssumption DEF Init, TypeOK, NoSlot, Idle, Verdicts, Nothing
<1>2. InHand /\ Numbered /\ OneRunPerCall
  BY DEF Init, InHand, Numbered, OneRunPerCall
<1> QED
  BY <1>1, <1>2 DEF ObjectsInv

\* The invariant of the objects.
THEOREM Objects == Spec => []ObjectsInv
<1>1. ObjectsInv /\ [Next]_vars => ObjectsInv'
  BY TypesStep, RunsStep DEF ObjectsInv
<1> QED
  BY <1>1, ObjectsInit, PTL DEF Spec

\* Every variable keeps its type.
THEOREM Typing == Spec => []TypeOK
<1>1. ObjectsInv => TypeOK
  BY DEF ObjectsInv
<1> QED
  BY <1>1, Objects, PTL

\* Every run has a nonce of its own, and every call one run at most
\* (acquire_teacher_gpu_slot, assign_teacher_gpu_call).
THEOREM OneRun == Spec => []OneRunPerCall
<1>1. ObjectsInv => OneRunPerCall
  BY DEF ObjectsInv
<1> QED
  BY <1>1, Objects, PTL

-----------------------------------------------------------------------------
(* The calls.                                                              *)

\* The provider was called for the jobs whose execution was started.
CalledWhenStarted == \A j \in Jobs : called[j] = IF execution[j] = "started" THEN 1 ELSE 0

\* An execution is created once, and a call with it.
LEMMA Created ==
    ASSUME TypeOK, NEW p \in Procs, ProcStep(p)
    PROVE  \/ UNCHANGED <<execution, called>>
           \/ \E j \in Jobs : /\ execution[j] = "none"
                              /\ execution' = [execution EXCEPT ![j] = "not_started"]
                              /\ called' = called
           \/ \E j \in Jobs : /\ execution[j] = "none"
                              /\ execution' = [execution EXCEPT ![j] = "started"]
                              /\ called' = [called EXCEPT ![j] = @ + 1]
                              /\ proc[p].step = "found" /\ proc[p].job = j /\ results[j] = "none"
                              /\ HasRunway(proc[p].since, CallTime, GpuDeadline(proc[p].start))
                              /\ Step(p, "call")
<1>1. CASE StartCall(p)
  <2>1. proc[p].job \in Jobs
    BY <1>1, ProcKinds DEF StartCall, InCall, InACall
  <2> QED
    BY <1>1, <2>1 DEF StartCall
<1>2. ASSUME NEW j \in Jobs, TerminalizeCall(p, j)
      PROVE  \/ UNCHANGED <<execution, called>>
             \/ /\ execution[j] = "none" /\ called' = called
                /\ execution' = [execution EXCEPT ![j] = "not_started"]
  BY <1>2 DEF TerminalizeCall, TypeOK
<1>3. CASE ~StartCall(p) /\ ~ \E j \in Jobs : TerminalizeCall(p, j)
  BY <1>3 DEF ProcStep, Enter, Look, TooLate, Judge, Answer, CheckStored, EndRun, Die, records
<1> QED
  BY <1>1, <1>2, <1>3

LEMMA CalledStep == ASSUME TypeOK, CalledWhenStarted, [Next]_vars PROVE CalledWhenStarted'
<1>1. CASE UNCHANGED <<execution, called>>
  BY <1>1 DEF CalledWhenStarted
<1>2. ASSUME NEW p \in Procs, ProcStep(p) PROVE CalledWhenStarted'
  BY <1>2, Created DEF CalledWhenStarted, TypeOK
<1> QED
  BY <1>1, <1>2, ProcSteps DEF records

\* The provider is called at most once for a job (put_teacher_gpu_call_execution).
THEOREM OneCall == Spec => []CallOnce
<1>1. Init => CalledWhenStarted
  BY DEF Init, CalledWhenStarted
<1>2. TypeOK /\ CalledWhenStarted /\ [Next]_vars => CalledWhenStarted'
  BY CalledStep
<1>3. CalledWhenStarted => CallOnce
  BY DEF CalledWhenStarted, CallOnce
<1> QED
  BY <1>1, <1>2, <1>3, Typing, PTL DEF Spec

-----------------------------------------------------------------------------
(* What runs say of their calls.                                           *)

\* The margin of the terminalization is longer than an executor may take for a call.
Punctual == CallSpan < Margin

\* What may be said of a call.
Correct(t, j) ==
    /\ t = "ready" => execution[j] = "started" /\ results[j] # "none"
    /\ t = "ambiguous" => execution[j] = "started"
    /\ t = "not_started" => execution[j] = "not_started" /\ results[j] = "none"

\* A process in a call knows its execution, and has time.
CallCorrect(p) ==
    /\ proc[p].job \in proc[p].start.run.calls
    /\ now <= proc[p].since + CallSpan
    /\ proc[p].seen # "none" => execution[proc[p].job] = proc[p].seen
    /\ proc[p].step \in {"call", "stored"} =>
          /\ execution[proc[p].job] = "started"
          /\ proc[p].since + CallTime <= GpuDeadline(proc[p].start)
    /\ proc[p].step = "stored" => results[proc[p].job] # "none"

Honest(p) ==
    /\ proc[p] # Idle => /\ proc[p].start \in starts
                         /\ \A j \in Jobs : Correct(proc[p].said[j], j)
    /\ InCall(p) => CallCorrect(p)

RecordsInv ==
    /\ \A s \in starts : s.run \in runClaims
    /\ \A j \in Jobs : results[j] # "none" => execution[j] = "started"
    /\ \A p \in Procs : Honest(p)
    /\ \A e \in ends : \A j \in e.run.calls : e.said[j] # "none" /\ Correct(e.said[j], j)

\* A result that was stored is stored for good.
LEMMA InTime ==
    ASSUME Punctual, ObjectsInv, RecordsInv, NEW p \in Procs, proc[p].step = "stored"
    PROVE  SourceLive(proc[p].job, now)
<1> DEFINE s == proc[p].start
           j == proc[p].job
<1>1. proc[p] \in InACall /\ InCall(p) /\ proc[p] # Idle
  BY ProcKinds DEF ObjectsInv, InCall, Idle
<1>2. CallCorrect(p) /\ s \in starts /\ s.run \in runClaims
  BY <1>1 DEF RecordsInv, Honest
<1>3. s.run.expires <= ExpiresAt[j] /\ GpuDeadline(s) <= s.run.expires
  <2>1. s.run.expires <= ExpiresAt[j]
    BY <1>2 DEF CallCorrect, ObjectsInv, Numbered
  <2>2. s.run.expires \in Nat /\ s.at \in Nat
    BY <1>1 DEF InACall, Started, Runs
  <2> QED
    BY <2>1, <2>2, TeacherAssumption DEF GpuDeadline, Earlier
<1>4. /\ now <= proc[p].since + CallSpan
      /\ proc[p].since + CallTime <= GpuDeadline(s)
  BY <1>2 DEF CallCorrect
<1>5. /\ now \in Nat /\ proc[p].since \in Nat /\ ExpiresAt[j] \in Nat
      /\ s.run.expires \in Nat /\ GpuDeadline(s) \in Nat
  <2>1. s.run.expires \in Nat /\ s.at \in Nat /\ j \in Jobs /\ proc[p].since \in Nat /\ now \in Nat
    BY <1>1 DEF InACall, Started, Runs, ObjectsInv, TypeOK
  <2> HIDE DEF s, j
  <2>2. ExpiresAt[j] \in Nat
    BY <2>1, TeacherAssumption
  <2>3. GpuDeadline(s) \in Nat
    BY <2>1, TeacherAssumption DEF GpuDeadline, Earlier
  <2> QED
    BY <2>1, <2>2, <2>3
<1> HIDE DEF s, j
<1>6. now + CallTime < ExpiresAt[j] + Margin
  BY <1>3, <1>4, <1>5, TeacherAssumption DEF Punctual
<1> QED
  BY <1>6 DEF SourceLive, j

\* What is true of a call stays true.
LEMMA Lasting ==
    ASSUME Punctual, ObjectsInv, RecordsInv, [Next]_vars
    PROVE  /\ \A j \in Jobs : execution[j] # "none" => execution'[j] = execution[j]
           /\ \A j \in Jobs : results[j] # "none" => results'[j] # "none"
           /\ \A j \in Jobs : results'[j] # "none" => execution'[j] = "started"
           /\ \A j \in Jobs : \A t : Correct(t, j) => Correct(t, j)'
<1>1. \A j \in Jobs : execution[j] # "none" => execution'[j] = execution[j]
  <2>1. ASSUME NEW p \in Procs, ProcStep(p)
        PROVE  \A j \in Jobs : execution[j] # "none" => execution'[j] = execution[j]
    BY <2>1, Created DEF ObjectsInv, TypeOK
  <2> QED
    BY <2>1, ProcSteps DEF records
<1>2. \/ results' = results
      \/ \E p \in Procs, v \in Verdicts \ {"none"} :
            /\ Answer(p, v) /\ results' = [results EXCEPT ![proc[p].job] = v]
            /\ proc[p].step = "call"
  <2>1. ASSUME NEW p \in Procs, ProcStep(p), results' # results
        PROVE  \E v \in Verdicts \ {"none"} : /\ Answer(p, v) /\ proc[p].step = "call"
                                              /\ results' = [results EXCEPT ![proc[p].job] = v]
    <3>1. ~CheckStored(p)
      BY <2>1, InTime DEF CheckStored
    <3>2. \E v \in Verdicts : Answer(p, v)
      BY <2>1, <3>1 DEF ProcStep, Enter, Look, TerminalizeCall, TooLate, Judge, StartCall, EndRun, Die, records
    <3> QED
      BY <2>1, <3>2 DEF Answer
  <2> QED
    BY <2>1, ProcSteps DEF records
<1>3. ASSUME NEW p \in Procs, proc[p].step = "call"
      PROVE  proc[p].job \in Jobs /\ execution[proc[p].job] = "started"
  BY <1>3, ProcKinds DEF InCall, RecordsInv, Honest, CallCorrect, ObjectsInv, InACall
<1>4. \A j \in Jobs : results[j] # "none" => results'[j] # "none"
  BY <1>2 DEF ObjectsInv, TypeOK
<1>5. \A j \in Jobs : results'[j] # "none" => execution[j] = "started"
  BY <1>2, <1>3 DEF RecordsInv, ObjectsInv, TypeOK
<1>6. \A j \in Jobs : results'[j] # "none" => execution'[j] = "started"
  BY <1>1, <1>5
<1>7. \A j \in Jobs : \A t : Correct(t, j) => Correct(t, j)'
  BY <1>1, <1>4, <1>5 DEF Correct
<1> QED
  BY <1>1, <1>4, <1>6, <1>7

\* What a process does in a step of its own keeps it honest.
LEMMA HonestAct ==
    ASSUME Punctual, ObjectsInv, RecordsInv, [Next]_vars, NEW p \in Procs, ProcStep(p) PROVE Honest(p)'
<1>0. TypeOK
  BY DEF ObjectsInv
<1>1. ASSUME NEW j \in Jobs, NEW t \in Terminals, Say(p, j, t),
             proc[p].step \in {"next", "found", "call", "stored"},
             starts' = starts, Correct(t, j)'
      PROVE  Honest(p)'
  <2>1. proc[p] \in Working /\ proc[p] # Idle
    BY <1>0, <1>1, ProcKinds DEF InCall, Working, Idle
  <2>2. /\ proc'[p].step = "next" /\ proc'[p].start = proc[p].start
        /\ proc'[p].said = [proc[p].said EXCEPT ![j] = t]
    BY <1>0, <1>1, <2>1, SayTyped
  <2>3. proc[p].said \in Saying
    BY <2>1 DEF Working, Active, InACall
  <2>4. \A k \in Jobs \ {j} : proc'[p].said[k] = proc[p].said[k]
    BY <2>2, <2>3 DEF Saying
  <2>5. proc'[p].said[j] = t
    BY <2>2, <2>3 DEF Saying
  <2>6. /\ proc[p].start \in starts
        /\ \A k \in Jobs : Correct(proc[p].said[k], k)
    BY <2>1 DEF RecordsInv, Honest
  <2>7. \A k \in Jobs : \A u : u = proc[p].said[k] => Correct(u, k)'
    BY <2>6, Lasting
  <2>8. \A k \in Jobs : \A u : u = proc'[p].said[k] => Correct(u, k)'
    BY <1>1, <2>4, <2>5, <2>7
  <2> QED
    BY <1>1, <2>2, <2>6, <2>8 DEF Honest, InCall
<1>2. ASSUME proc' = [proc EXCEPT ![p] = Idle] PROVE Honest(p)'
  <2>1. proc'[p] = Idle
    BY <1>0, <1>2 DEF TypeOK
  <2> QED
    BY <2>1 DEF Honest, InCall, Idle
<1>3. InCall(p) => /\ proc[p] \in InACall /\ proc[p].job \in Jobs /\ CallCorrect(p)
                   /\ proc[p] # Idle /\ proc[p].start \in starts
  BY <1>0, ProcKinds DEF RecordsInv, Honest, InCall, Idle, InACall
<1>4. ASSUME NEW s \in starts, NEW role \in {"execute", "terminalize"}, Enter(p, s, role) PROVE Honest(p)'
  <2>1. /\ proc'[p] = [step |-> "next", role |-> role, start |-> s, said |-> [j \in Jobs |-> "none"]]
        /\ starts' = starts
    BY <1>0, <1>4 DEF Enter, TypeOK, records
  <2>2. \A j \in Jobs : Correct("none", j)'
    BY DEF Correct
  <2>3. \A j \in Jobs : proc'[p].said[j] = "none"
    BY <2>1
  <2>4. \A j \in Jobs : Correct(proc[p].said[j], j)'
    BY <2>2, <2>3 DEF Correct
  <2> QED
    BY <2>1, <2>4 DEF Honest, InCall
<1>5. ASSUME NEW j \in Jobs, Look(p, j) PROVE Honest(p)'
  <2>1. proc[p] \in Active /\ j \in proc[p].start.run.calls /\ UNCHANGED <<records, now>> /\ proc[p] # Idle
    BY <1>0, <1>5, ProcKinds DEF Look, Left, Lowest, Idle
  <2>2. proc'[p] = [step |-> "found", role |-> proc[p].role, start |-> proc[p].start,
                    said |-> proc[p].said, job |-> j, since |-> now, seen |-> execution[j]]
    BY <1>0, <1>5 DEF Look, TypeOK
  <2>3. now <= now + CallSpan
    BY <1>0, TeacherAssumption DEF TypeOK
  <2>4. CallCorrect(p)'
    BY <2>1, <2>2, <2>3 DEF CallCorrect, records
  <2>5. proc[p].start \in starts /\ \A k \in Jobs : Correct(proc[p].said[k], k)
    BY <2>1 DEF RecordsInv, Honest
  <2>6. \A k \in Jobs : Correct(proc[p].said[k], k)'
    BY <2>1, <2>2, <2>5 DEF Correct, records
  <2> QED
    BY <2>1, <2>2, <2>4, <2>5, <2>6 DEF Honest, records
<1>6. ASSUME NEW j \in Jobs, TerminalizeCall(p, j) PROVE Honest(p)'
  <2> DEFINE e == IF execution[j] = "none" THEN "not_started" ELSE execution[j]
  <2>1. /\ proc[p].step = "next" /\ starts' = starts /\ results' = results
        /\ execution' = [execution EXCEPT ![j] = e]
        /\ \/ results[j] = "none" /\ Say(p, j, WithoutResult(e))
           \/ results[j] # "none" /\ e = "started" /\ Say(p, j, "ready")
           \/ proc' = [proc EXCEPT ![p] = Idle]
    BY <1>6 DEF TerminalizeCall
  <2>2. execution'[j] = e /\ e \in {"started", "not_started"}
    BY <1>0, <2>1 DEF TypeOK
  <2> HIDE DEF e
  <2>3. CASE results[j] = "none" /\ Say(p, j, WithoutResult(e))
    <3>1. WithoutResult(e) \in Terminals /\ \A u : u = WithoutResult(e) => Correct(u, j)'
      BY <2>1, <2>2, <2>3 DEF WithoutResult, Terminals, Correct
    <3> QED
      BY <1>1, <2>1, <2>3, <3>1
  <2>4. CASE results[j] # "none" /\ e = "started" /\ Say(p, j, "ready")
    <3>1. "ready" \in Terminals /\ Correct("ready", j)'
      BY <2>1, <2>2, <2>4 DEF Terminals, Correct
    <3> QED
      BY <1>1, <2>1, <2>4, <3>1
  <2> QED
    BY <1>2, <2>1, <2>3, <2>4
<1>7. CASE TooLate(p) \/ EndRun(p) \/ Die(p)
  BY <1>2, <1>7 DEF TooLate, EndRun, Die
<1>8. CASE Judge(p)
  <2> DEFINE j == proc[p].job
             seen == proc[p].seen
  <2>1. /\ proc[p].step = "found" /\ UNCHANGED records
        /\ \/ results[j] = "none" /\ seen # "none" /\ Say(p, j, WithoutResult(seen))
           \/ results[j] # "none" /\ Say(p, j, "ready")
           \/ proc' = [proc EXCEPT ![p] = Idle]
    BY <1>8 DEF Judge
  <2>2. j \in Jobs /\ seen \in {"none", "started", "not_started"} /\ (seen # "none" => execution[j] = seen)
    BY <1>3, <2>1 DEF InCall, InACall, CallCorrect
  <2> HIDE DEF j, seen
  <2>3. CASE results[j] = "none" /\ seen # "none" /\ Say(p, j, WithoutResult(seen))
    <3>1. /\ WithoutResult(seen) \in Terminals
          /\ \A k, u : k = j /\ u = WithoutResult(seen) => Correct(u, k)'
      BY <2>1, <2>2, <2>3 DEF WithoutResult, Terminals, Correct, records
    <3> QED
      BY <1>1, <2>1, <2>2, <2>3, <3>1 DEF records
  <2>4. CASE results[j] # "none" /\ Say(p, j, "ready")
    <3>1. "ready" \in Terminals /\ \A k : k = j => Correct("ready", k)'
      BY <2>1, <2>2, <2>4 DEF Terminals, Correct, RecordsInv, records
    <3> QED
      BY <1>1, <2>1, <2>2, <2>4, <3>1 DEF records
  <2> QED
    BY <1>2, <2>1, <2>3, <2>4
<1>9. CASE StartCall(p)
  <2> DEFINE j == proc[p].job
  <2>1. /\ proc[p].step = "found" /\ results[j] = "none" /\ UNCHANGED <<results, starts, now>>
        /\ \/ execution[j] # "none" /\ Say(p, j, WithoutResult(execution[j])) /\ execution' = execution
           \/ /\ execution' = [execution EXCEPT ![j] = "not_started"]
              /\ Say(p, j, "not_started")
           \/ /\ execution' = [execution EXCEPT ![j] = "started"]
              /\ HasRunway(proc[p].since, CallTime, GpuDeadline(proc[p].start))
              /\ Step(p, "call")
    BY <1>9 DEF StartCall
  <2>2. j \in Jobs /\ execution[j] \in {"none", "started", "not_started"} /\ proc[p] \in InACall
    BY <1>0, <1>3, <2>1 DEF InCall, TypeOK
  <2>3. CASE execution[j] # "none" /\ Say(p, j, WithoutResult(execution[j])) /\ execution' = execution
    <3> HIDE DEF j
    <3>1. /\ WithoutResult(execution[j]) \in Terminals
          /\ \A k, u : k = j /\ u = WithoutResult(execution[j]) => Correct(u, k)'
      BY <2>1, <2>2, <2>3 DEF WithoutResult, Terminals, Correct
    <3> QED
      BY <1>1, <2>1, <2>2, <2>3, <3>1
  <2>4. CASE execution' = [execution EXCEPT ![j] = "not_started"] /\ Say(p, j, "not_started")
    <3>1. execution'[j] = "not_started"
      BY <1>0, <2>2, <2>4 DEF TypeOK
    <3> HIDE DEF j
    <3>2. "not_started" \in Terminals /\ \A k : k = j => Correct("not_started", k)'
      BY <2>1, <2>2, <3>1 DEF Terminals, Correct
    <3> QED
      BY <1>1, <2>1, <2>2, <2>4, <3>2
  <2>5. CASE /\ execution' = [execution EXCEPT ![j] = "started"]
             /\ HasRunway(proc[p].since, CallTime, GpuDeadline(proc[p].start))
             /\ Step(p, "call")
    <3>1. execution'[j] = "started"
      BY <1>0, <2>2, <2>5 DEF TypeOK
    <3>2. proc'[p] \in InACall /\ proc'[p] = [proc[p] EXCEPT !.step = "call"]
      BY <1>0, <2>2, <2>5, StepTyped
    <3>3. /\ proc'[p].step = "call" /\ proc'[p].job = j /\ proc'[p].start = proc[p].start
          /\ proc'[p].since = proc[p].since /\ proc'[p].said = proc[p].said /\ proc'[p].seen = proc[p].seen
      BY <2>2, <3>2 DEF InACall
    <3>4. proc[p].seen = "none"
      BY <1>9 DEF StartCall
    <3>5. CallCorrect(p)'
      BY <1>3, <2>1, <2>5, <3>1, <3>3, <3>4 DEF CallCorrect, HasRunway, InCall
    <3>6. \A k \in Jobs : \A t : t = proc[p].said[k] => Correct(t, k)'
      BY <1>3, <2>1, Lasting DEF RecordsInv, Honest, InCall
    <3>7. \A k \in Jobs : \A t : t = proc'[p].said[k] => Correct(t, k)'
      BY <3>3, <3>6
    <3> QED
      BY <1>3, <2>1, <3>3, <3>5, <3>7 DEF Honest, InCall
  <2> QED
    BY <2>1, <2>3, <2>4, <2>5
<1>10. ASSUME NEW v \in Verdicts, Answer(p, v) PROVE Honest(p)'
  <2> DEFINE j == proc[p].job
  <2>1. /\ proc[p].step = "call" /\ UNCHANGED <<starts, execution, now>>
        /\ \/ v # "none" /\ results' = [results EXCEPT ![j] = v] /\ Step(p, "stored")
           \/ Say(p, j, "ambiguous")
    BY <1>10 DEF Answer
  <2>2. j \in Jobs /\ execution[j] = "started" /\ proc[p] \in InACall /\ CallCorrect(p)
    BY <1>3, <2>1 DEF InCall, CallCorrect
  <2>3. CASE Say(p, j, "ambiguous")
    <3> HIDE DEF j
    <3>1. "ambiguous" \in Terminals /\ \A k : k = j => Correct("ambiguous", k)'
      BY <2>1, <2>2 DEF Terminals, Correct
    <3> QED
      BY <1>1, <2>1, <2>2, <2>3, <3>1
  <2>4. CASE v # "none" /\ results' = [results EXCEPT ![j] = v] /\ Step(p, "stored")
    <3>1. results'[j] # "none"
      BY <1>0, <2>2, <2>4 DEF TypeOK
    <3>2. proc'[p] \in InACall /\ proc'[p] = [proc[p] EXCEPT !.step = "stored"]
      BY <1>0, <2>2, <2>4, StepTyped
    <3>3. /\ proc'[p].step = "stored" /\ proc'[p].job = j /\ proc'[p].start = proc[p].start
          /\ proc'[p].since = proc[p].since /\ proc'[p].said = proc[p].said /\ proc'[p].seen = proc[p].seen
      BY <2>2, <3>2 DEF InACall
    <3>4. CallCorrect(p)'
      BY <2>1, <2>2, <3>1, <3>3 DEF CallCorrect
    <3>5. \A k \in Jobs : \A t : t = proc[p].said[k] => Correct(t, k)'
      BY <1>3, <2>1, Lasting DEF RecordsInv, Honest, InCall
    <3>6. \A k \in Jobs : \A t : t = proc'[p].said[k] => Correct(t, k)'
      BY <3>3, <3>5
    <3> QED
      BY <1>3, <2>1, <3>3, <3>4, <3>6 DEF Honest, InCall
  <2> QED
    BY <2>1, <2>3, <2>4
<1>11. CASE CheckStored(p)
  <2> DEFINE j == proc[p].job
  <2>1. proc[p].step = "stored" /\ UNCHANGED <<starts, execution, results>> /\ Say(p, j, "ready")
    BY <1>11, InTime DEF CheckStored
  <2>2. j \in Jobs /\ execution[j] = "started" /\ results[j] # "none"
    BY <1>3, <2>1 DEF InCall, CallCorrect
  <2> HIDE DEF j
  <2>3. "ready" \in Terminals /\ \A k : k = j => Correct("ready", k)'
    BY <2>1, <2>2 DEF Terminals, Correct
  <2> QED
    BY <1>1, <2>1, <2>2, <2>3
<1> QED
  BY <1>4, <1>5, <1>6, <1>7, <1>8, <1>9, <1>10, <1>11 DEF ProcStep

\* Time passes only as long as calls may take.
LEMMA Clock ==
    ASSUME ObjectsInv, [Next]_vars, NEW p \in Procs, InCall(p), now <= proc[p].since + CallSpan
    PROVE  now' <= proc[p].since + CallSpan
<1>1. CASE Advance
  <2>1. now \in Nat /\ proc[p].since \in Nat /\ CallSpan \in Nat
    BY ProcKinds, TeacherAssumption DEF ObjectsInv, TypeOK, InACall
  <2> QED
    BY <1>1, <2>1 DEF Advance
<1>2. CASE ~Advance
  <2>1. now' = now
    <3>1. CASE TickStep
      BY <3>1 DEF TickStep, Begin, CannotPrepare, NoMoreCalls, Resume, Prune, TakeSeed, ClaimTeacher,
                  AssignCall, AcquireSlot, RetireRun, PutIndex, PutClaim, World
    <3>2. ASSUME NEW q \in Procs, ProcStep(q) PROVE now' = now
      BY <3>2 DEF ProcStep, Enter, Look, TerminalizeCall, TooLate, Judge, StartCall, Answer, CheckStored,
                  EndRun, Die
    <3>3. ASSUME NEW r, BeginRun(r) \/ RefuseRun(r) PROVE now' = now
      BY <3>3 DEF BeginRun, RefuseRun
    <3>4. CASE Crash \/ ReplaceAdmission
      BY <3>4 DEF Crash, ReplaceAdmission
    <3>5. CASE UNCHANGED vars
      BY <3>5 DEF vars
    <3> QED
      BY <1>2, <3>1, <3>2, <3>3, <3>4, <3>5 DEF Next, Others
  <2> QED
    BY <2>1
<1> QED
  BY <1>1, <1>2

LEMMA HonestStep ==
    ASSUME Punctual, ObjectsInv, RecordsInv, [Next]_vars, NEW p \in Procs PROVE Honest(p)'
<1>1. CASE proc'[p] = proc[p]
  <2>1. starts \subseteq starts'
    BY ProcSteps DEF ProcStep, Enter, Look, TerminalizeCall, TooLate, Judge, StartCall, Answer, CheckStored,
                     EndRun, Die, BeginRun, RefuseRun, records
  <2>2. proc[p] # Idle =>
          /\ proc[p].start \in starts'
          /\ \A j \in Jobs : \A t : t = proc[p].said[j] => Correct(t, j)'
    BY <2>1, Lasting DEF RecordsInv, Honest
  <2>3. ASSUME InCall(p) PROVE CallCorrect(p)'
    <3>1. proc[p] \in InACall /\ CallCorrect(p)
      BY <2>3, ProcKinds DEF ObjectsInv, RecordsInv, Honest
    <3>2. now' <= proc[p].since + CallSpan
      BY <2>3, <3>1, Clock DEF CallCorrect
    <3>3. proc[p].job \in Jobs
      BY <3>1 DEF InACall
    <3> QED
      BY <1>1, <3>1, <3>2, <3>3, Lasting DEF CallCorrect, InACall
  <2>4. proc'[p] # Idle => proc'[p].start \in starts' /\ \A j \in Jobs : Correct(proc[p].said[j], j)'
    BY <1>1, <2>2
  <2> QED
    BY <1>1, <2>3, <2>4 DEF Honest, InCall
<1>2. CASE ProcStep(p)
  BY <1>2, HonestAct
<1>3. \A q \in Procs : ProcStep(q) /\ q # p => proc'[p] = proc[p]
  BY ProcTyped DEF ObjectsInv, TypeOK
<1> QED
  BY <1>1, <1>2, <1>3, ProcSteps DEF records

LEMMA RecordsStep == ASSUME Punctual, ObjectsInv, RecordsInv, [Next]_vars PROVE RecordsInv'
<1>1. \A s \in starts' : s.run \in runClaims'
  <2>1. runClaims \subseteq runClaims'
    BY TickSteps DEF TickStep, Begin, CannotPrepare, NoMoreCalls, Resume, Prune, TakeSeed, ClaimTeacher,
                AssignCall, AcquireSlot, RetireRun, PutIndex, PutClaim, Crash, objects
  <2>2. starts' = starts \/ \E r \in runClaims : starts' = starts \cup {[run |-> r, at |-> now]}
    BY ProcSteps DEF ProcStep, Enter, Look, TerminalizeCall, TooLate, Judge, StartCall, Answer, CheckStored,
                EndRun, Die, BeginRun, RefuseRun, records
  <2> QED
    BY <2>1, <2>2 DEF RecordsInv
<1>2. \A j \in Jobs : results'[j] # "none" => execution'[j] = "started"
  BY Lasting
<1>3. \A p \in Procs : Honest(p)'
  BY HonestStep
<1>4. \A e \in ends' : \A j \in e.run.calls : e.said[j] # "none" /\ Correct(e.said[j], j)'
  <2>1. ASSUME NEW e \in ends, NEW j \in e.run.calls PROVE e.said[j] # "none" /\ Correct(e.said[j], j)'
    <3>1. j \in Jobs
      BY DEF ObjectsInv, TypeOK, Runs
    <3> QED
      BY <3>1, Lasting DEF RecordsInv
  <2>2. ends' # ends => \E p \in Procs : EndRun(p)
    BY ProcSteps DEF ProcStep, Enter, Look, TerminalizeCall, TooLate, Judge, StartCall, Answer, CheckStored,
                EndRun, Die, records
  <2>3. ASSUME NEW p \in Procs, EndRun(p), NEW e \in ends' \ ends, NEW j \in e.run.calls
        PROVE  e.said[j] # "none" /\ Correct(e.said[j], j)'
    <3>1. proc[p].step = "next" /\ Left(p) = {} /\ e = [run |-> proc[p].start.run, said |-> proc[p].said]
      BY <2>3 DEF EndRun
    <3>2. proc[p] \in Active /\ proc[p] # Idle
      BY <3>1, ProcKinds DEF ObjectsInv, Idle
    <3>3. j \in Jobs /\ e.said[j] = proc[p].said[j] /\ e.said[j] # "none"
      BY <2>3, <3>1, <3>2 DEF Left, Active, Started, Runs
    <3>4. Correct(e.said[j], j)
      BY <3>2, <3>3 DEF RecordsInv, Honest
    <3> QED
      BY <3>3, <3>4, Lasting
  <2> QED
    BY <2>1, <2>2, <2>3
<1> QED
  BY <1>1, <1>2, <1>3, <1>4 DEF RecordsInv

\* If no executor takes the margin for one call, the result of every run is
\* verifiable ever after (load_teacher_gpu_run_result).
THEOREM Verified == ASSUME Punctual PROVE Spec => []RunResultsVerifiable
<1>1. Init => RecordsInv
  BY DEF Init, RecordsInv, Honest, InCall, Idle
<1>2. ObjectsInv /\ RecordsInv /\ [Next]_vars => RecordsInv'
  BY RecordsStep
<1>3. ObjectsInv /\ RecordsInv => RunResultsVerifiable
  <2> SUFFICES ASSUME ObjectsInv, RecordsInv, NEW e \in ends, NEW j \in e.run.calls
               PROVE  \/ e.said[j] = "ready" /\ execution[j] = "started" /\ results[j] # "none"
                      \/ e.said[j] = "ambiguous" /\ execution[j] = "started"
                      \/ e.said[j] = "not_started" /\ execution[j] = "not_started" /\ results[j] = "none"
    BY DEF RunResultsVerifiable, Verifiable
  <2>1. e.said[j] \in Terminals \cup {"none"}
    BY DEF ObjectsInv, TypeOK, Runs, Saying
  <2> QED
    BY <2>1 DEF RecordsInv, Correct, Terminals
<1> QED
  BY <1>1, <1>2, <1>3, Objects, PTL DEF Spec

-----------------------------------------------------------------------------
(* The quotas.                                                             *)

\* No executor starts a call after the time that it took the call to have.
Prompt == LookSpan < CallTime

\* The tick looks at the past, an executor at what it has just read.
Recent ==
    /\ at <= now
    /\ \A p \in Procs : proc[p].step = "found" => now <= proc[p].since + LookSpan

\* Who calls the provider for a job is alone, and the job has no result yet.
Alone ==
    \A p \in Procs : proc[p].step = "call" =>
        /\ results[proc[p].job] = "none"
        /\ \A q \in Procs : proc[q].step = "call" /\ proc[q].job = proc[p].job => q = p

\* A job that has a usable result, or may still get one.
Likely(j) ==
    \/ results[j] = "usable"
    \/ results[j] = "none" /\ execution[j] = "started"
    \/ results[j] = "none" /\ execution[j] = "none" /\ now < ExpiresAt[j]

Hopes(p) == {j \in In(p, claimed) : Likely(j)}

\* A partition has its primaries, or all of them and as many hopes as it may.
Filling(p) ==
    \/ In(p, claimed) \subseteq Primaries
    \/ In(p, Primaries) \subseteq claimed /\ Cardinality(Hopes(p)) <= Quota[p]

QuotaInv ==
    /\ IsFiniteSet(claimed) /\ Recent /\ Alone
    /\ \A j \in Jobs : Filling(PartitionOf[j])

\* Only time passes, and only an executor that has looked may wait.
LEMMA Passing ==
    ASSUME ObjectsInv, [Next]_vars
    PROVE  \/ now' = now
           \/ /\ now' = now + 1 /\ UNCHANGED <<at, proc, claimed, records>>
              /\ \A p \in Procs : proc[p].step = "found" => now < proc[p].since + LookSpan
<1>1. CASE Advance
  BY <1>1 DEF Advance, objects, tick
<1>2. CASE TickStep
  BY <1>2 DEF TickStep, Begin, CannotPrepare, NoMoreCalls, Resume, Prune, TakeSeed, ClaimTeacher,
              AssignCall, AcquireSlot, RetireRun, PutIndex, PutClaim, World
<1>3. ASSUME NEW q \in Procs, ProcStep(q) PROVE now' = now
  BY <1>3 DEF ProcStep, Enter, Look, TerminalizeCall, TooLate, Judge, StartCall, Answer, CheckStored,
              EndRun, Die
<1>4. ASSUME NEW r, BeginRun(r) \/ RefuseRun(r) PROVE now' = now
  BY <1>4 DEF BeginRun, RefuseRun
<1>5. CASE Crash \/ ReplaceAdmission
  BY <1>5 DEF Crash, ReplaceAdmission
<1>6. CASE UNCHANGED vars
  BY <1>6 DEF vars
<1> QED
  BY <1>1, <1>2, <1>3, <1>4, <1>5, <1>6 DEF Next, Others

\* Where a step leads: only a look finds a call, only its start calls.
LEMMA Leads ==
    ASSUME TypeOK, NEW p \in Procs, ProcStep(p)
    PROVE  \/ \E j \in Jobs : Look(p, j)
           \/ proc'[p].step \in {"idle", "next", "stored"}
           \/ /\ StartCall(p) /\ execution[proc[p].job] = "none"
              /\ proc'[p] = [proc[p] EXCEPT !.step = "call"]
<1>1. proc' = [proc EXCEPT ![p] = Idle] => proc'[p].step = "idle"
  BY DEF TypeOK, Idle
<1>2. ASSUME NEW j, NEW t, Say(p, j, t) PROVE proc'[p].step = "next"
  BY <1>2 DEF Say, TypeOK
<1>3. ASSUME NEW s \in starts, NEW role \in {"execute", "terminalize"}, Enter(p, s, role)
      PROVE  proc'[p].step = "next"
  BY <1>3 DEF Enter, TypeOK
<1>4. ASSUME NEW where \in {"call", "stored"}, InCall(p), Step(p, where)
      PROVE  proc'[p] = [proc[p] EXCEPT !.step = where] /\ proc'[p].step = where
  <2>1. proc[p] \in InACall /\ proc'[p] = [proc[p] EXCEPT !.step = where]
    BY <1>4, ProcKinds, StepTyped
  <2> QED
    BY <2>1 DEF InACall
<1>5. ASSUME NEW j \in Jobs, TerminalizeCall(p, j) PROVE proc'[p].step \in {"idle", "next"}
  BY <1>1, <1>2, <1>5 DEF TerminalizeCall
<1>6. CASE TooLate(p) \/ EndRun(p) \/ Die(p) \/ Judge(p) \/ CheckStored(p)
  BY <1>1, <1>2, <1>6 DEF TooLate, EndRun, Die, Judge, CheckStored
<1>7. CASE StartCall(p)
  BY <1>2, <1>4, <1>7 DEF StartCall, InCall
<1>8. ASSUME NEW v, Answer(p, v) PROVE proc'[p].step \in {"next", "stored"}
  BY <1>2, <1>4, <1>8 DEF Answer, InCall
<1> QED
  BY <1>3, <1>5, <1>6, <1>7, <1>8 DEF ProcStep

\* A look and an instant stay recent.
LEMMA RecentStep == ASSUME ObjectsInv, Recent, [Next]_vars PROVE Recent'
<1>1. now \in Nat /\ at \in Nat
  BY DEF ObjectsInv, TypeOK
<1>2. at' <= now'
  <2>1. CASE now' = now
    <3>1. at' \in {at, now, 0}
      <4>1. CASE TickStep
        BY <4>1 DEF TickStep, Begin, CannotPrepare, NoMoreCalls, Resume, Prune, TakeSeed, ClaimTeacher,
                    AssignCall, AcquireSlot, RetireRun, PutIndex, PutClaim, tick, Stop, Goto
      <4>2. CASE Crash
        BY <4>2 DEF Crash, Stop
      <4> QED
        BY <4>1, <4>2, TickSteps DEF tick
    <3> QED
      BY <1>1, <2>1, <3>1 DEF Recent
  <2> QED
    BY <1>1, <2>1, Passing DEF Recent
<1>3. ASSUME NEW p \in Procs, proc'[p].step = "found" PROVE now' <= proc'[p].since + LookSpan
  <2>1. CASE proc'[p] = proc[p]
    <3>1. proc[p].since \in Nat
      BY <1>3, <2>1, ProcKinds DEF ObjectsInv, InCall, InACall
    <3> QED
      BY <1>1, <1>3, <2>1, <3>1, Passing, TeacherAssumption DEF Recent
  <2>2. CASE proc'[p] # proc[p]
    <3>1. ProcStep(p)
      BY <2>2, ProcSteps, ProcTyped DEF ObjectsInv, TypeOK, records
    <3>2. PICK j \in Jobs : Look(p, j)
      <4>1. ~StartCall(p) \/ proc'[p] # [proc[p] EXCEPT !.step = "call"]
        <5>1. StartCall(p) => proc[p] \in InACall
          BY ProcKinds DEF StartCall, InCall, ObjectsInv
        <5> QED
          BY <1>3, <5>1 DEF InACall
      <4> QED
        BY <1>3, <3>1, <4>1, Leads DEF ObjectsInv
    <3>3. proc'[p].since = now /\ now' = now
      BY <3>2 DEF Look, ObjectsInv, TypeOK
    <3> QED
      BY <1>1, <3>3, TeacherAssumption
  <2> QED
    BY <2>1, <2>2
<1> QED
  BY <1>2, <1>3 DEF Recent

\* A result is put by the one that calls the provider.
LEMMA ResultPut ==
    ASSUME Punctual, ObjectsInv, RecordsInv, [Next]_vars
    PROVE  \/ results' = results
           \/ \E p \in Procs, v \in Verdicts \ {"none"} :
                 /\ ProcStep(p) /\ Answer(p, v) /\ Step(p, "stored")
                 /\ proc[p].step = "call" /\ results' = [results EXCEPT ![proc[p].job] = v]
<1>1. ASSUME NEW p \in Procs, ProcStep(p), results' # results
      PROVE  \E v \in Verdicts \ {"none"} :
                 /\ Answer(p, v) /\ Step(p, "stored")
                 /\ proc[p].step = "call" /\ results' = [results EXCEPT ![proc[p].job] = v]
  <2>1. ~CheckStored(p)
    BY <1>1, InTime DEF CheckStored
  <2>2. \E v \in Verdicts : Answer(p, v)
    BY <1>1, <2>1 DEF ProcStep, Enter, Look, TerminalizeCall, TooLate, Judge, StartCall, EndRun, Die, records
  <2> QED
    BY <1>1, <2>2 DEF Answer
<1> QED
  BY <1>1, ProcSteps DEF records

\* An execution is created by one process, which then is the only one to call.
LEMMA AloneStep == ASSUME Punctual, ObjectsInv, RecordsInv, Alone, [Next]_vars PROVE Alone'
<1>1. ASSUME NEW p \in Procs, proc'[p].step = "call"
      PROVE  \/ proc'[p] = proc[p]
             \/ /\ ProcStep(p) /\ StartCall(p) /\ execution[proc[p].job] = "none"
                /\ proc'[p] = [proc[p] EXCEPT !.step = "call"] /\ proc'[p].job = proc[p].job
                /\ results[proc[p].job] = "none" /\ results' = results
  <2>1. CASE ProcStep(p)
    <3>1. ~ \E j \in Jobs : Look(p, j)
      BY <1>1 DEF Look, ObjectsInv, TypeOK
    <3>2. StartCall(p) /\ execution[proc[p].job] = "none" /\ proc'[p] = [proc[p] EXCEPT !.step = "call"]
      BY <1>1, <2>1, <3>1, Leads DEF ObjectsInv
    <3>3. proc[p] \in InACall
      BY <3>2, ProcKinds DEF StartCall, InCall, ObjectsInv
    <3> QED
      BY <2>1, <3>2, <3>3 DEF StartCall, InACall
  <2> QED
    BY <2>1, ProcSteps, ProcTyped DEF ObjectsInv, TypeOK, records
<1>2. ASSUME NEW p \in Procs, proc[p].step = "call"
      PROVE  execution[proc[p].job] = "started" /\ proc[p].job \in Jobs
  BY <1>2, ProcKinds DEF InCall, RecordsInv, Honest, CallCorrect, ObjectsInv, InACall
<1>3. ASSUME NEW p \in Procs, proc'[p].step = "call" PROVE results'[proc'[p].job] = "none"
  <2>1. CASE StartCall(p) /\ results[proc[p].job] = "none" /\ results' = results /\ proc'[p].job = proc[p].job
    BY <2>1
  <2>2. CASE proc'[p] = proc[p] /\ results' = results
    BY <1>3, <2>2 DEF Alone
  <2>3. ASSUME proc'[p] = proc[p], NEW q \in Procs, NEW v \in Verdicts \ {"none"},
               ProcStep(q), Step(q, "stored"), proc[q].step = "call",
               results' = [results EXCEPT ![proc[q].job] = v]
        PROVE  results'[proc'[p].job] = "none"
    <3>1. proc[q] \in InACall /\ proc'[q].step = "stored"
      <4>1. proc[q] \in InACall
        BY <2>3, ProcKinds DEF InCall, ObjectsInv
      <4>2. proc'[q] = [proc[q] EXCEPT !.step = "stored"]
        BY <2>3, <4>1, StepTyped DEF ObjectsInv
      <4> QED
        BY <4>1, <4>2 DEF InACall
    <3>2. p # q /\ proc[p].step = "call" /\ proc[p].job # proc[q].job
      BY <1>3, <2>3, <3>1 DEF Alone
    <3>3. results[proc[p].job] = "none" /\ proc[p].job \in Jobs
      BY <1>2, <3>2 DEF Alone
    <3> QED
      BY <2>3, <3>2, <3>3 DEF ObjectsInv, TypeOK
  <2> QED
    BY <1>1, <1>3, <2>1, <2>2, <2>3, ResultPut
<1>4. ASSUME NEW p \in Procs, NEW q \in Procs, proc'[p].step = "call", proc'[q].step = "call",
             proc'[q].job = proc'[p].job
      PROVE  q = p
  <2>1. CASE proc'[p] = proc[p] /\ proc'[q] = proc[q]
    BY <1>4, <2>1 DEF Alone
  <2>2. CASE proc'[p] = proc[p] /\ StartCall(q) /\ execution[proc[q].job] = "none" /\ proc'[q].job = proc[q].job
    BY <1>2, <1>4, <2>2
  <2>3. CASE proc'[q] = proc[q] /\ StartCall(p) /\ execution[proc[p].job] = "none" /\ proc'[p].job = proc[p].job
    BY <1>2, <1>4, <2>3
  <2>4. CASE /\ ProcStep(p) /\ proc'[p].step = "call" /\ proc[p].step = "found"
             /\ ProcStep(q) /\ proc'[q].step = "call" /\ proc[q].step = "found"
    BY <2>4, ProcTyped DEF ObjectsInv, TypeOK
  <2> QED
    BY <1>1, <1>4, <2>1, <2>2, <2>3, <2>4 DEF StartCall
<1> QED
  BY <1>3, <1>4 DEF Alone

\* A job that has no result and may not get one never gets one.
LEMMA LikelyStep ==
    ASSUME Punctual, Prompt, ObjectsInv, RecordsInv, Recent, Alone, [Next]_vars,
           NEW j \in Jobs, Likely(j)'
    PROVE  Likely(j)
<1>1. ASSUME NEW p \in Procs, proc[p].step = "call"
      PROVE  /\ execution[proc[p].job] = "started" /\ proc[p].job \in Jobs
             /\ results[proc[p].job] = "none"
  BY <1>1, ProcKinds DEF InCall, RecordsInv, Honest, CallCorrect, ObjectsInv, InACall, Alone
<1>2. CASE results'[j] = "usable"
  BY <1>1, <1>2, ResultPut DEF Likely, ObjectsInv, TypeOK
<1>3. CASE results'[j] = "none" /\ execution'[j] = "started"
  <2>1. results[j] = "none"
    BY <1>3, Lasting
  <2>2. CASE execution[j] # "started"
    <3>1. PICK p \in Procs : ProcStep(p)
      BY <1>3, <2>2, ProcSteps DEF records
    <3>2. /\ execution[j] = "none" /\ proc[p].step = "found" /\ proc[p].job = j
          /\ proc[p].since + CallTime <= GpuDeadline(proc[p].start)
      BY <1>3, <2>2, <3>1, Created DEF HasRunway, ObjectsInv, TypeOK
    <3> DEFINE s == proc[p].start
    <3>3. proc[p] \in InACall /\ InCall(p)
      BY <3>2, ProcKinds DEF InCall, ObjectsInv
    <3>4. s \in starts /\ s.run \in runClaims /\ j \in s.run.calls
      BY <3>2, <3>3 DEF RecordsInv, Honest, CallCorrect, InACall, Idle
    <3>5. s.run.expires <= ExpiresAt[j]
      BY <3>4 DEF ObjectsInv, Numbered
    <3>6. s.run.expires \in Nat /\ s.at \in Nat /\ proc[p].since \in Nat
      BY <3>3 DEF InACall, Started, Runs
    <3>7. GpuDeadline(s) <= s.run.expires /\ GpuDeadline(s) \in Nat
      BY <3>6, TeacherAssumption DEF GpuDeadline, Earlier
    <3>8. now <= proc[p].since + LookSpan /\ now \in Nat /\ ExpiresAt[j] \in Nat
      BY <3>2, TeacherAssumption DEF Recent, ObjectsInv, TypeOK
    <3> HIDE DEF s
    <3>9. now < ExpiresAt[j]
      BY <3>2, <3>5, <3>6, <3>7, <3>8, TeacherAssumption DEF Prompt, s
    <3> QED
      BY <2>1, <3>2, <3>9 DEF Likely
  <2> QED
    BY <2>1, <2>2 DEF Likely
<1>4. CASE results'[j] = "none" /\ execution'[j] = "none" /\ now' < ExpiresAt[j]
  <2>1. results[j] = "none" /\ execution[j] = "none"
    BY <1>4, Lasting
  <2>2. now < ExpiresAt[j]
    <3>1. now \in Nat /\ ExpiresAt[j] \in Nat /\ now' \in {now, now + 1}
      BY Passing, TeacherAssumption DEF ObjectsInv, TypeOK
    <3> QED
      BY <1>4, <3>1
  <2> QED
    BY <2>1, <2>2 DEF Likely
<1> QED
  BY <1>2, <1>3, <1>4 DEF Likely

\* A partition that has its primaries, or hopes within its quota, has no surplus.
LEMMA NoSurplusOf ==
    ASSUME TypeOK, IsFiniteSet(claimed), NEW j \in Jobs, Filling(PartitionOf[j])
    PROVE  Accepted(PartitionOf[j]) <= Quota[PartitionOf[j]]
<1> DEFINE p       == PartitionOf[j]
           good    == {k \in In(p, claimed) : results[k] = "usable"}
           filling == {k \in Primaries : PartitionOf[k] = PartitionOf[j]}
<1>1. Quota[p] \in Nat /\ IsFiniteSet(good) /\ Cardinality(good) \in Nat
  BY TeacherAssumption, FS_Subset, FS_CardinalityType DEF In
<1>2. CASE In(p, claimed) \subseteq Primaries
  <2>1. IsFiniteSet(filling) /\ Cardinality(filling) <= Quota[p] /\ Cardinality(filling) \in Nat
    BY QuotaAssumption, FS_CardinalityType
  <2>2. good \in SUBSET filling
    BY <1>2 DEF In
  <2> HIDE DEF good, filling, p
  <2>3. Cardinality(good) <= Cardinality(filling)
    BY <2>1, <2>2, FS_Subset
  <2>4. Cardinality(good) <= Quota[p]
    BY <1>1, <2>1, <2>3
  <2> QED
    BY <2>4 DEF Accepted, good, p
<1>3. CASE Cardinality(Hopes(p)) <= Quota[p]
  <2>1. Hopes(p) \in SUBSET claimed /\ good \in SUBSET Hopes(p)
    BY DEF Hopes, In, Likely
  <2>2. IsFiniteSet(Hopes(p)) /\ Cardinality(Hopes(p)) \in Nat
    BY <2>1, FS_Subset, FS_CardinalityType
  <2> HIDE DEF good, p
  <2>3. Cardinality(good) <= Cardinality(Hopes(p))
    BY <2>1, <2>2, FS_Subset
  <2>4. Cardinality(good) <= Quota[p]
    BY <1>1, <1>3, <2>2, <2>3
  <2> QED
    BY <2>4 DEF Accepted, good, p
<1> QED
  BY <1>2, <1>3 DEF Filling

\* What the tick counts covers what a job may still bring.
LEMMA HopesCounted ==
    ASSUME TypeOK, IsFiniteSet(claimed), Recent, NEW j \in Jobs,
           Accepted(PartitionOf[j])
             + Cardinality({k \in In(PartitionOf[j], claimed) : Pending(k, at)}) < Quota[PartitionOf[j]]
    PROVE  Cardinality(Hopes(PartitionOf[j])) < Quota[PartitionOf[j]]
<1> DEFINE p       == PartitionOf[j]
           good    == {k \in In(p, claimed) : results[k] = "usable"}
           waiting == {k \in In(p, claimed) : Pending(k, at)}
<1>1. /\ IsFiniteSet(good) /\ Cardinality(good) \in Nat
      /\ IsFiniteSet(waiting) /\ Cardinality(waiting) \in Nat
      /\ Quota[p] \in Nat
  BY TeacherAssumption, FS_Subset, FS_CardinalityType DEF In
<1>2. ASSUME NEW k \in Hopes(p) PROVE k \in good \/ k \in waiting
  <2>1. k \in claimed /\ k \in In(p, claimed) /\ Likely(k) /\ k \in Jobs
    BY <1>2 DEF Hopes, In, TypeOK
  <2>2. now < ExpiresAt[k] => at < ExpiresAt[k]
    BY <2>1, TeacherAssumption DEF Recent, TypeOK
  <2> QED
    BY <2>1, <2>2 DEF Likely, Pending
<1>3. Cardinality(good) + Cardinality(waiting) < Quota[p]
  BY DEF Accepted
<1> HIDE DEF good, waiting, p
<1>4. Hopes(p) \in SUBSET (good \cup waiting)
  BY <1>2
<1>5. /\ IsFiniteSet(good \cup waiting) /\ IsFiniteSet(good \cap waiting)
      /\ Cardinality(good \cup waiting) =
            Cardinality(good) + Cardinality(waiting) - Cardinality(good \cap waiting)
  <2>1. good \cap waiting \in SUBSET good
    OBVIOUS
  <2> QED
    BY <1>1, <2>1, FS_Union, FS_Subset
<1>6. Cardinality(good \cap waiting) \in Nat /\ Cardinality(good \cup waiting) \in Nat
  BY <1>5, FS_CardinalityType
<1>7. IsFiniteSet(Hopes(p)) /\ Cardinality(Hopes(p)) <= Cardinality(good \cup waiting)
  BY <1>4, <1>5, FS_Subset
<1>8. Cardinality(Hopes(p)) \in Nat
  BY <1>7, FS_CardinalityType
<1>9. Cardinality(Hopes(p)) < Quota[p]
  BY <1>1, <1>3, <1>5, <1>6, <1>7, <1>8
<1> QED
  BY <1>9 DEF p

\* A claimed candidate is a primary, or a reserve for less hopes than the quota.
LEMMA Chosen ==
    ASSUME TypeOK, NEW j \in Candidate(at)
    PROVE  /\ j \in Jobs
           /\ \/ j \in Primaries /\ j \notin claimed
              \/ /\ In(PartitionOf[j], Primaries) \subseteq claimed
                 /\ Accepted(PartitionOf[j])
                      + Cardinality({k \in In(PartitionOf[j], claimed) : Pending(k, at)})
                    < Quota[PartitionOf[j]]
<1>1. PICK p : j \in PartitionCandidate(p, at)
  BY DEF Candidate
<1>2. j \in In(p, Jobs) /\ j \notin claimed
  BY <1>1 DEF PartitionCandidate, Lowest
<1>3. j \in Jobs /\ p = PartitionOf[j]
  BY <1>2 DEF In
<1>4. CASE (In(p, Jobs) \ claimed) \cap Primaries # {}
  <2>1. j \in Primaries
    BY <1>1, <1>4 DEF PartitionCandidate, Lowest
  <2> QED
    BY <1>2, <1>3, <2>1
<1>5. CASE (In(p, Jobs) \ claimed) \cap Primaries = {}
  <2>1. In(p, Primaries) \subseteq claimed
    BY <1>5, TeacherAssumption DEF In
  <2>2. Accepted(p) + Cardinality({k \in In(p, claimed) : Pending(k, at)}) < Quota[p]
    BY <1>1, <1>5 DEF PartitionCandidate
  <2> QED
    BY <1>3, <2>1, <2>2
<1> QED
  BY <1>4, <1>5

\* A claim fills its partition, and any other step at most gives up hopes.
LEMMA FillingStep ==
    ASSUME Punctual, Prompt, ObjectsInv, RecordsInv, QuotaInv, [Next]_vars
    PROVE  IsFiniteSet(claimed') /\ \A j \in Jobs : Filling(PartitionOf[j])'
<1>1. \A j \in Jobs : Likely(j)' => Likely(j)
  BY LikelyStep DEF QuotaInv
<1>2. \A j \in Jobs : IsFiniteSet(Hopes(PartitionOf[j])) /\ Cardinality(Hopes(PartitionOf[j])) \in Nat
  <2>1. \A p : Hopes(p) \in SUBSET claimed
    BY DEF Hopes, In
  <2> QED
    BY <2>1, FS_Subset, FS_CardinalityType DEF QuotaInv
<1>3. ASSUME NEW j \in Jobs, In(PartitionOf[j], claimed') = In(PartitionOf[j], claimed),
             claimed \subseteq claimed'
      PROVE  Filling(PartitionOf[j])'
  <2> DEFINE p == PartitionOf[j]
  <2>1. Hopes(p)' = {k \in In(p, claimed') : Likely(k)'}
    BY DEF Hopes, In
  <2>2. Hopes(p)' \in SUBSET Hopes(p)
    BY <1>1, <1>3, <2>1 DEF Hopes, In, ObjectsInv, TypeOK
  <2>3. Cardinality(Hopes(p)') <= Cardinality(Hopes(p)) /\ Cardinality(Hopes(p)') \in Nat
    <3>1. IsFiniteSet(Hopes(p)')
      BY <1>2, <2>2, FS_Subset
    <3> QED
      BY <1>2, <2>2, <3>1, FS_Subset, FS_CardinalityType
  <2>4. Quota[p] \in Nat
    BY TeacherAssumption
  <2>5. CASE In(p, claimed) \subseteq Primaries
    BY <1>3, <2>5 DEF Filling
  <2>6. CASE In(p, Primaries) \subseteq claimed /\ Cardinality(Hopes(p)) <= Quota[p]
    <3>1. Cardinality(Hopes(p)') <= Quota[p]
      <4> HIDE DEF p
      <4> QED
        BY <1>2, <2>3, <2>4, <2>6 DEF p
    <3> QED
      BY <1>3, <2>6, <3>1 DEF Filling
  <2> QED
    BY <2>5, <2>6 DEF QuotaInv, Filling
<1>4. ASSUME NEW c \in Jobs, ClaimTeacher(c), NEW j \in Jobs, PartitionOf[j] = PartitionOf[c]
      PROVE  Filling(PartitionOf[j])'
  <2> DEFINE p == PartitionOf[j]
  <2>1. c \in Candidate(at) /\ claimed' = claimed \cup {c}
    BY <1>4 DEF ClaimTeacher
  <2>2. \/ c \in Primaries /\ c \notin claimed
        \/ /\ In(p, Primaries) \subseteq claimed
           /\ Accepted(p) + Cardinality({k \in In(p, claimed) : Pending(k, at)}) < Quota[p]
    BY <1>4, <2>1, Chosen DEF ObjectsInv
  <2>3. CASE In(p, claimed) \subseteq Primaries /\ c \in Primaries
    <3>1. In(p, claimed') \subseteq Primaries
      BY <2>1, <2>3 DEF In
    <3> QED
      BY <3>1 DEF Filling
  <2>4. CASE In(p, Primaries) \subseteq claimed /\ c \in Primaries /\ c \notin claimed
    BY <1>4, <2>4 DEF In
  <2>5. CASE /\ In(p, Primaries) \subseteq claimed
             /\ Accepted(p) + Cardinality({k \in In(p, claimed) : Pending(k, at)}) < Quota[p]
    <3>1. Cardinality(Hopes(p)) < Quota[p]
      BY <2>5, HopesCounted DEF QuotaInv, ObjectsInv
    <3>2. Hopes(p)' = {k \in In(p, claimed') : Likely(k)'}
      BY DEF Hopes, In
    <3>3. Hopes(p)' \in SUBSET (Hopes(p) \cup {c})
      BY <1>1, <2>1, <3>2 DEF Hopes, In, ObjectsInv, TypeOK
    <3>4. /\ IsFiniteSet(Hopes(p) \cup {c})
          /\ Cardinality(Hopes(p) \cup {c}) <= Cardinality(Hopes(p)) + 1
          /\ Cardinality(Hopes(p) \cup {c}) \in Nat
      <4>1. IsFiniteSet(Hopes(p)) /\ Cardinality(Hopes(p)) \in Nat
        BY <1>2
      <4> HIDE DEF p
      <4>2. IsFiniteSet(Hopes(p) \cup {c})
        BY <4>1, FS_AddElement
      <4>3. Cardinality(Hopes(p) \cup {c}) \in Nat
        BY <4>2, FS_CardinalityType
      <4> QED
        BY <4>1, <4>2, <4>3, FS_AddElement
    <3>5. Cardinality(Hopes(p)') <= Cardinality(Hopes(p) \cup {c}) /\ Cardinality(Hopes(p)') \in Nat
      <4>1. IsFiniteSet(Hopes(p)')
        BY <3>3, <3>4, FS_Subset
      <4> QED
        BY <3>3, <3>4, <4>1, FS_Subset, FS_CardinalityType
    <3>6. Quota[p] \in Nat /\ Cardinality(Hopes(p)) \in Nat
      BY <1>2, TeacherAssumption
    <3>7. Cardinality(Hopes(p)') <= Quota[p]
      <4> HIDE DEF p
      <4> QED
        BY <3>1, <3>4, <3>5, <3>6
    <3>8. In(p, Primaries) \subseteq claimed'
      BY <2>1, <2>5
    <3> QED
      BY <3>7, <3>8 DEF Filling
  <2> QED
    BY <2>2, <2>3, <2>4, <2>5 DEF QuotaInv, Filling
<1>5. CASE claimed' = claimed
  BY <1>3, <1>5 DEF QuotaInv
<1>6. ASSUME NEW c \in Jobs, ClaimTeacher(c)
      PROVE  IsFiniteSet(claimed') /\ \A j \in Jobs : Filling(PartitionOf[j])'
  <2>1. claimed' = claimed \cup {c}
    BY <1>6 DEF ClaimTeacher
  <2>2. \A j \in Jobs : PartitionOf[j] # PartitionOf[c] =>
            In(PartitionOf[j], claimed') = In(PartitionOf[j], claimed)
    BY <2>1 DEF In
  <2>3. IsFiniteSet(claimed')
    BY <2>1, FS_AddElement DEF QuotaInv
  <2> QED
    BY <1>3, <1>4, <1>6, <2>1, <2>2, <2>3
<1>7. claimed' = claimed \/ \E c \in Jobs : ClaimTeacher(c)
  <2>1. TickStep => claimed' = claimed \/ \E c \in Jobs : ClaimTeacher(c)
    BY DEF TickStep, Begin, CannotPrepare, NoMoreCalls, Resume, Prune, TakeSeed, AssignCall,
           AcquireSlot, RetireRun, PutIndex, PutClaim, objects
  <2>2. Crash => claimed' = claimed
    BY DEF Crash, objects
  <2> QED
    BY <2>1, <2>2, TickSteps DEF objects
<1> QED
  BY <1>5, <1>6, <1>7

\* No partition gets more results than its quota, if no executor takes the
\* margin for one call, or the time of a call for its look
\* (next_student_quota_candidate, put_teacher_gpu_call_execution).
THEOREM NoSurpluses == ASSUME Punctual, Prompt PROVE Spec => []NoSurplus
<1>1. Init => RecordsInv
  BY DEF Init, RecordsInv, Honest, InCall, Idle
<1>2. ObjectsInv /\ RecordsInv /\ [Next]_vars => RecordsInv'
  BY RecordsStep
<1>3. Init => QuotaInv
  <2>1. Init => IsFiniteSet(claimed)
    BY FS_EmptySet DEF Init
  <2>2. Init => Recent /\ Alone
    BY DEF Init, Recent, Alone, Idle
  <2>3. Init => \A j \in Jobs : Filling(PartitionOf[j])
    BY DEF Init, Filling, In
  <2> QED
    BY <2>1, <2>2, <2>3 DEF QuotaInv
<1>4. ObjectsInv /\ RecordsInv /\ QuotaInv /\ [Next]_vars => QuotaInv'
  BY RecentStep, AloneStep, FillingStep DEF QuotaInv
<1>5. ObjectsInv /\ QuotaInv => NoSurplus
  BY NoSurplusOf DEF NoSurplus, QuotaInv, ObjectsInv
<1> QED
  BY <1>1, <1>2, <1>3, <1>4, <1>5, Objects, PTL DEF Spec

-----------------------------------------------------------------------------
(* The runs implement TeacherCalls.                                        *)

\* The run of a result was claimed, and has no other result.
EndsOnce ==
    \A d \in ends : d.run \in runClaims /\ \A e \in ends : d.run = e.run => d = e

\* A new run result is that of a run without one.
LEMMA EndSteps ==
    ASSUME ObjectsInv, RecordsInv, EndsOnce, [Next]_vars
    PROVE  \/ ends' = ends
           \/ /\ UNCHANGED <<execution, results>>
              /\ \E r \in runClaims, said \in Saying :
                    /\ ~Terminal(r) /\ ends' = ends \cup {[run |-> r, said |-> said]}
                    /\ \A j \in r.calls : j \in Jobs /\ said[j] # "none" /\ Correct(said[j], j)
<1>1. ASSUME NEW p \in Procs, EndRun(p), ends' # ends
      PROVE  \E r \in runClaims, said \in Saying :
                 /\ ~Terminal(r) /\ ends' = ends \cup {[run |-> r, said |-> said]}
                 /\ \A j \in r.calls : j \in Jobs /\ said[j] # "none" /\ Correct(said[j], j)
  <2> DEFINE r    == proc[p].start.run
             said == proc[p].said
  <2>1. ~Terminal(r) /\ ends' = ends \cup {[run |-> r, said |-> said]} /\ Left(p) = {}
    BY <1>1 DEF EndRun
  <2>2. proc[p] \in Active /\ proc[p] # Idle
    BY <1>1, ProcKinds DEF EndRun, ObjectsInv, Idle
  <2>3. r \in runClaims /\ said \in Saying /\ \A j \in Jobs : Correct(said[j], j)
    BY <2>2 DEF RecordsInv, Honest, Active
  <2>4. \A j \in r.calls : j \in Jobs /\ said[j] # "none"
    BY <2>1, <2>2 DEF Left, Active, Started, Runs
  <2> QED
    BY <2>1, <2>3, <2>4
<1>2. ASSUME NEW p \in Procs, EndRun(p) PROVE UNCHANGED <<execution, results>>
  BY <1>2 DEF EndRun
<1>3. ends' # ends => \E p \in Procs : EndRun(p)
  BY ProcSteps DEF ProcStep, Enter, Look, TerminalizeCall, TooLate, Judge, StartCall, Answer, CheckStored,
                EndRun, Die, records
<1> QED
  BY <1>1, <1>2, <1>3

LEMMA EndsOnceStep == ASSUME ObjectsInv, RecordsInv, EndsOnce, [Next]_vars PROVE EndsOnce'
<1>1. runClaims \subseteq runClaims'
  BY TickSteps DEF TickStep, Begin, CannotPrepare, NoMoreCalls, Resume, Prune, TakeSeed, ClaimTeacher,
              AssignCall, AcquireSlot, RetireRun, PutIndex, PutClaim, Crash, objects
<1>2. CASE ends' = ends
  BY <1>1, <1>2 DEF EndsOnce
<1>3. ASSUME NEW r \in runClaims, NEW said, ~Terminal(r), ends' = ends \cup {[run |-> r, said |-> said]}
      PROVE  EndsOnce'
  BY <1>1, <1>3 DEF EndsOnce, Terminal
<1> QED
  BY <1>2, <1>3, EndSteps

\* What a run result says of its calls, and of no other.
LEMMA TellStep ==
    ASSUME ObjectsInv, EndsOnce, NEW r \in runClaims, NEW said \in Saying, ~Terminal(r),
           ends' = ends \cup {[run |-> r, said |-> said]}
    PROVE  /\ \A j \in r.calls : j \in Jobs /\ Told[j] = {}
           /\ Told' = [j \in Jobs |-> IF j \in r.calls THEN {said[j]} ELSE Told[j]]
<1> DEFINE e       == [run |-> r, said |-> said]
           About(j) == {d \in ends : j \in d.run.calls}
<1>1. r.calls \subseteq Jobs
  BY DEF ObjectsInv, TypeOK, Runs
<1>2. ASSUME NEW j \in r.calls, NEW d \in ends, j \in d.run.calls PROVE FALSE
  <2>1. d.run \in runClaims /\ d.run # r
    BY <1>2 DEF EndsOnce, Terminal
  <2> QED
    BY <1>2, <2>1 DEF ObjectsInv, OneRunPerCall
<1>3. \A j \in r.calls : Told[j] = {}
  BY <1>1, <1>2 DEF Told
<1>4. ASSUME NEW j \in Jobs PROVE Told'[j] = IF j \in r.calls THEN {said[j]} ELSE Told[j]
  <2>1. Told'[j] = {d.said[j] : d \in {c \in ends' : j \in c.run.calls}}
    BY DEF Told
  <2>2. CASE j \in r.calls
    <3>1. {c \in ends' : j \in c.run.calls} = {e}
      BY <1>2, <2>2
    <3>2. Told'[j] = {d.said[j] : d \in {e}}
      BY <2>1, <3>1
    <3>3. \A x : x \in Told'[j] <=> x = e.said[j]
      <4> HIDE DEF e
      <4> QED
        BY <3>2
    <3>4. Told'[j] = {said[j]}
      BY <3>3
    <3> QED
      BY <2>2, <3>4
  <2>3. CASE j \notin r.calls
    <3>1. {c \in ends' : j \in c.run.calls} = {c \in ends : j \in c.run.calls}
      BY <2>3
    <3> QED
      BY <2>1, <2>3, <3>1 DEF Told
  <2> QED
    BY <2>2, <2>3
<1>5. Told' = [j \in Jobs |-> Told'[j]]
  BY DEF Told
<1> QED
  BY <1>1, <1>3, <1>4, <1>5

\* Every step of the runs is a step of the calls, or none.
LEMMA CallsStep ==
    ASSUME Punctual, ObjectsInv, RecordsInv, Alone, EndsOnce, [Next]_vars
    PROVE  [Calls!Next]_<<Call, results, Told>>
<1>1. CASE execution' # execution
  <2>1. PICK p \in Procs : ProcStep(p)
    BY <1>1, ProcSteps DEF records
  <2>2. PICK j \in Jobs, x \in {"started", "not_started"} :
            execution[j] = "none" /\ execution' = [execution EXCEPT ![j] = x]
    BY <1>1, <2>1, Created DEF ObjectsInv
  <2>3. results' = results
    <3>1. \A q \in Procs, v \in Verdicts : Answer(q, v) => execution' = execution
      BY DEF Answer
    <3> QED
      BY <1>1, <3>1, ResultPut
  <2>4. ends' = ends
    BY <1>1, EndSteps
  <2>5. Call[j] = "open"
    BY <2>2 DEF Call
  <2>6. \A k \in Jobs : Call'[k] = IF k = j THEN IF x = "started" THEN "started" ELSE "forgone" ELSE Call[k]
    BY <2>2 DEF Call, ObjectsInv, TypeOK
  <2>7. Call' = [Call EXCEPT ![j] = IF x = "started" THEN "started" ELSE "forgone"]
    BY <2>6 DEF Call
  <2>8. Told' = Told
    BY <2>4 DEF Told
  <2> QED
    BY <2>3, <2>5, <2>7, <2>8 DEF Calls!Next, Calls!Decide
<1>2. CASE execution' = execution /\ results' # results
  <2>1. PICK p \in Procs, v \in Verdicts \ {"none"} :
            /\ Answer(p, v) /\ proc[p].step = "call" /\ results' = [results EXCEPT ![proc[p].job] = v]
    BY <1>2, ResultPut
  <2>2. /\ proc[p].job \in Jobs /\ execution[proc[p].job] = "started"
        /\ results[proc[p].job] = "none"
    BY <2>1, ProcKinds DEF InCall, RecordsInv, Honest, CallCorrect, ObjectsInv, InACall, Alone
  <2>3. Call' = Call /\ Call[proc[p].job] = "started"
    BY <1>2, <2>2 DEF Call
  <2>4. Told' = Told
    BY <2>1 DEF Answer, Told
  <2>5. v \in {"usable", "unusable"}
    BY DEF Verdicts
  <2> QED
    BY <2>1, <2>2, <2>3, <2>4, <2>5 DEF Calls!Next, Calls!Answer
<1>3. CASE UNCHANGED <<execution, results>> /\ ends' # ends
  <2>1. PICK r \in runClaims, said \in Saying :
            /\ ~Terminal(r) /\ ends' = ends \cup {[run |-> r, said |-> said]}
            /\ \A j \in r.calls : j \in Jobs /\ said[j] # "none" /\ Correct(said[j], j)
    BY <1>3, EndSteps
  <2> DEFINE says == [j \in r.calls |-> said[j]]
  <2>2. ASSUME NEW j \in r.calls PROVE said[j] \in Terminals /\ said[j] \in Calls!Truth(j)
    <3>1. said[j] \in Terminals /\ j \in Jobs
      BY <2>1 DEF Saying
    <3>2. /\ said[j] = "ready" => execution[j] = "started" /\ results[j] # "none"
          /\ said[j] = "ambiguous" => execution[j] = "started"
          /\ said[j] = "not_started" => execution[j] = "not_started"
      BY <2>1 DEF Correct
    <3> QED
      BY <3>1, <3>2 DEF Calls!Truth, Call, Terminals
  <2>3. says \in [r.calls -> {"ready", "ambiguous", "not_started"}]
    BY <2>2 DEF Terminals
  <2>4. /\ \A j \in r.calls : j \in Jobs /\ Told[j] = {}
        /\ Told' = [j \in Jobs |-> IF j \in r.calls THEN {said[j]} ELSE Told[j]]
    BY <2>1, TellStep
  <2>5. Told' = [j \in Jobs |-> IF j \in r.calls THEN {says[j]} ELSE Told[j]]
    BY <2>4
  <2>6. Call' = Call
    BY <1>3 DEF Call
  <2>7. r.calls \in SUBSET Jobs /\ \A j \in r.calls : says[j] \in Calls!Truth(j) /\ Calls!Truth(j) # {}
    BY <2>1, <2>2
  <2>8. Calls!Tell(r.calls)
    BY <1>3, <2>3, <2>4, <2>5, <2>6, <2>7 DEF Calls!Tell
  <2> QED
    BY <2>7, <2>8 DEF Calls!Next
<1>4. CASE UNCHANGED <<execution, results, ends>>
  BY <1>4 DEF Call, Told
<1> QED
  BY <1>1, <1>2, <1>3, <1>4

\* If no executor takes the margin for one call, the runs implement
\* TeacherCalls: whatever ticks and processes die or meet in a call, it is
\* decided once, its result is final, and its run tells the truth once
\* (execute_ and terminalize_teacher_gpu_run, persist_teacher_gpu_run_result).
THEOREM Implements == ASSUME Punctual PROVE Spec => ImplementsCalls
<1>1. Init => RecordsInv /\ Alone /\ EndsOnce
  BY DEF Init, RecordsInv, Honest, InCall, Idle, Alone, EndsOnce
<1>2. ObjectsInv /\ RecordsInv /\ [Next]_vars => RecordsInv'
  BY RecordsStep
<1>3. ObjectsInv /\ RecordsInv /\ Alone /\ EndsOnce /\ [Next]_vars => Alone' /\ EndsOnce'
  BY AloneStep, EndsOnceStep
<1>4. Init => Calls!Init
  BY DEF Init, Calls!Init, Call, Told
<1>5. ObjectsInv /\ RecordsInv /\ Alone /\ EndsOnce /\ [Next]_vars
      => [Calls!Next]_<<Call, results, Told>>
  BY CallsStep
<1> QED
  BY <1>1, <1>2, <1>3, <1>4, <1>5, Objects, PTL DEF Spec, ImplementsCalls, Calls!Spec, Calls!vars
=============================================================================
