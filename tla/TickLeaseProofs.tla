-------------------------- MODULE TickLeaseProofs --------------------------
(***************************************************************************)
(* Proofs about the tick lease, for any set of processes, any durations    *)
(* and any clocks.                                                         *)
(***************************************************************************)
EXTENDS TickLease, TLAPS

(***************************************************************************)
(* Type correctness of the lease machine: versions never go below zero and *)
(* a put always carries a well formed record, in every reachable state.    *)
(***************************************************************************)
THEOREM Typing == Spec => []TypeOK
<1> USE TimesAssumption
<1>1. Init => TypeOK
  BY DEF Init, TypeOK, LeaseRecord, Put, NoPut, Phases, Live, LeaseIO
<1>2. TypeOK /\ [Next]_vars => TypeOK'
  <2> SUFFICES ASSUME TypeOK, [Next]_vars PROVE TypeOK'
    OBVIOUS
  <2> USE DEF TypeOK, LeaseRecord, Put, NoPut, Phases, Live, LeaseIO
  <2>1. CASE Tick
    BY <2>1 DEF Tick
  <2>2. ASSUME NEW t \in Tickers, Start(t) PROVE TypeOK'
    BY <2>2 DEF Start, Goto
  <2>3. ASSUME NEW t \in Tickers, LoadHeld(t) PROVE TypeOK'
    BY <2>3 DEF LoadHeld, End, Goto
  <2>4. ASSUME NEW t \in Tickers, LoadFree(t) PROVE TypeOK'
    BY <2>4 DEF LoadFree, Goto
  <2>5. ASSUME NEW t \in Tickers, Contended(t) PROVE TypeOK'
    BY <2>5 DEF Contended, End, Goto
  <2>6. ASSUME NEW t \in Tickers, Confirm(t) PROVE TypeOK'
    BY <2>6 DEF Confirm, Goto
  <2>7. ASSUME NEW t \in Tickers, ConfirmChanged(t) PROVE TypeOK'
    BY <2>7 DEF ConfirmChanged, End, Goto
  <2>8. ASSUME NEW t \in Tickers, Release(t) PROVE TypeOK'
    BY <2>8 DEF Release, Goto
  <2>9. ASSUME NEW t \in Tickers, ReleaseTooLate(t) PROVE TypeOK'
    BY <2>9 DEF ReleaseTooLate, End, Goto
  <2>10. ASSUME NEW t \in Tickers, Land(t) PROVE TypeOK'
    <3>1. Opened(t) \in Int
      BY DEF Opened
    <3>2. wire[t].state \in {"active", "released"}
      BY <2>10 DEF Land
    <3>3. lease' \in LeaseRecord
      BY <2>10, <3>1, <3>2 DEF Land, Apply
    <3> QED
      BY <2>10, <3>3 DEF Land, End, Goto
  <2>17. ASSUME NEW t \in Tickers, LandUnanswered(t) PROVE TypeOK'
    <3>1. Opened(t) \in Int
      BY DEF Opened
    <3>2. wire[t].state \in {"active", "released"}
      BY <2>17 DEF LandUnanswered
    <3>3. lease' \in LeaseRecord
      BY <2>17, <3>1, <3>2 DEF LandUnanswered, Apply
    <3> QED
      BY <2>17, <3>3 DEF LandUnanswered
  <2>11. ASSUME NEW t \in Tickers, Refuse(t) PROVE TypeOK'
    BY <2>11 DEF Refuse, End, Goto
  <2>12. ASSUME NEW t \in Tickers, Lose(t) PROVE TypeOK'
    BY <2>12 DEF Lose
  <2>13. ASSUME NEW t \in Tickers, StoreError(t) PROVE TypeOK'
    BY <2>13 DEF StoreError, End, Goto
  <2>14. ASSUME NEW t \in Tickers, IOExpires(t) PROVE TypeOK'
    BY <2>14 DEF IOExpires, End, Goto
  <2>15. ASSUME NEW t \in Tickers, Crash(t) PROVE TypeOK'
    BY <2>15 DEF Crash, Goto
  <2>16. CASE UNCHANGED vars
    BY <2>16 DEF vars
  <2> QED
    BY <2>1, <2>2, <2>3, <2>4, <2>5, <2>6, <2>7, <2>8, <2>9, <2>10, <2>11,
       <2>12, <2>13, <2>14, <2>15, <2>16, <2>17 DEF Next, Step
<1> QED
  BY <1>1, <1>2, PTL DEF Spec

-----------------------------------------------------------------------------

(***************************************************************************)
(* A timer never lies further back than Lag, and the instants a process    *)
(* has recorded are as old as the timeouts allow (the two calls of         *)
(* tokio::time::timeout in tick_once_with_records).                        *)
(***************************************************************************)
LEMMA TimingStep == TypeOK /\ TypeOK' /\ Timing /\ [Next]_vars => Timing'
<1> SUFFICES ASSUME TypeOK, TypeOK', Timing, [Next]_vars,
                    NEW u \in Tickers
             PROVE  TimingOf(u)'
  BY DEF Timing
<1> USE TimesAssumption DEF TypeOK, Timing, TimingOf, Phases, Live, LeaseIO
<1>1. CASE Tick
  BY <1>1 DEF Tick
<1>2. ASSUME NEW t \in Tickers, Start(t) PROVE TimingOf(u)'
  BY <1>2 DEF Start, Goto
<1>3. ASSUME NEW t \in Tickers, LoadHeld(t) PROVE TimingOf(u)'
  BY <1>3 DEF LoadHeld, End, Goto
<1>4. ASSUME NEW t \in Tickers, LoadFree(t) PROVE TimingOf(u)'
  BY <1>4 DEF LoadFree, Goto
<1>5. ASSUME NEW t \in Tickers, Contended(t) PROVE TimingOf(u)'
  BY <1>5 DEF Contended, End, Goto
<1>6. ASSUME NEW t \in Tickers, Confirm(t) PROVE TimingOf(u)'
  BY <1>6 DEF Confirm, Goto
<1>7. ASSUME NEW t \in Tickers, ConfirmChanged(t) PROVE TimingOf(u)'
  BY <1>7 DEF ConfirmChanged, End, Goto
<1>8. ASSUME NEW t \in Tickers, Release(t) PROVE TimingOf(u)'
  BY <1>8 DEF Release, Goto, Clock
<1>9. ASSUME NEW t \in Tickers, ReleaseTooLate(t) PROVE TimingOf(u)'
  BY <1>9 DEF ReleaseTooLate, End, Goto, Clock
<1>10. ASSUME NEW t \in Tickers, Land(t) PROVE TimingOf(u)'
  BY <1>10 DEF Land, Apply, End, Goto
<1>17. ASSUME NEW t \in Tickers, LandUnanswered(t) PROVE TimingOf(u)'
  BY <1>17 DEF LandUnanswered, Apply
<1>11. ASSUME NEW t \in Tickers, Refuse(t) PROVE TimingOf(u)'
  BY <1>11 DEF Refuse, End, Goto
<1>12. ASSUME NEW t \in Tickers, Lose(t) PROVE TimingOf(u)'
  BY <1>12 DEF Lose
<1>13. ASSUME NEW t \in Tickers, StoreError(t) PROVE TimingOf(u)'
  BY <1>13 DEF StoreError, End, Goto
<1>14. ASSUME NEW t \in Tickers, IOExpires(t) PROVE TimingOf(u)'
  BY <1>14 DEF IOExpires, End, Goto
<1>15. ASSUME NEW t \in Tickers, Crash(t) PROVE TimingOf(u)'
  BY <1>15 DEF Crash, Goto
<1>16. CASE UNCHANGED vars
  BY <1>16 DEF vars
<1> QED
  BY <1>1, <1>2, <1>3, <1>4, <1>5, <1>6, <1>7, <1>8, <1>9, <1>10, <1>11, <1>12, <1>13, <1>14, <1>15, <1>16,
     <1>17 DEF Next, Step

(***************************************************************************)
(* A put that was sent, however late it lands, still expects a version     *)
(* that tells its writer what it would replace (the UpdateVersion that     *)
(* acquire_tick_lease and release_tick_lease pass to put_opts).            *)
(***************************************************************************)
LEMMA FencingStep == TypeOK /\ TypeOK' /\ Fencing /\ [Next]_vars => Fencing'
<1> SUFFICES ASSUME TypeOK, TypeOK', Fencing, [Next]_vars,
                    NEW u \in Tickers
             PROVE  FencingOf(u)'
  BY DEF Fencing
<1> USE TimesAssumption
    DEF TypeOK, Fencing, FencingOf, LeaseRecord, Put, NoPut, Phases, Live, LeaseIO,
        InForce, IsOwn, Opened
<1>1. CASE Tick
  BY <1>1 DEF Tick
<1>2. ASSUME NEW t \in Tickers, Start(t) PROVE FencingOf(u)'
  BY <1>2 DEF Start, Goto
<1>3. ASSUME NEW t \in Tickers, LoadHeld(t) PROVE FencingOf(u)'
  BY <1>3 DEF LoadHeld, End, Goto
<1>4. ASSUME NEW t \in Tickers, LoadFree(t) PROVE FencingOf(u)'
  BY <1>4 DEF LoadFree, Goto
<1>5. ASSUME NEW t \in Tickers, Contended(t) PROVE FencingOf(u)'
  BY <1>5 DEF Contended, End, Goto
<1>6. ASSUME NEW t \in Tickers, Confirm(t) PROVE FencingOf(u)'
  BY <1>6 DEF Confirm, Goto
<1>7. ASSUME NEW t \in Tickers, ConfirmChanged(t) PROVE FencingOf(u)'
  BY <1>7 DEF ConfirmChanged, End, Goto
<1>8. ASSUME NEW t \in Tickers, Release(t) PROVE FencingOf(u)'
  BY <1>8 DEF Release, Goto, Clock
<1>9. ASSUME NEW t \in Tickers, ReleaseTooLate(t) PROVE FencingOf(u)'
  BY <1>9 DEF ReleaseTooLate, End, Goto, Clock
<1>10. ASSUME NEW t \in Tickers, Land(t) PROVE FencingOf(u)'
  BY <1>10 DEF Land, Apply, End, Goto
<1>17. ASSUME NEW t \in Tickers, LandUnanswered(t) PROVE FencingOf(u)'
  BY <1>17 DEF LandUnanswered, Apply
<1>11. ASSUME NEW t \in Tickers, Refuse(t) PROVE FencingOf(u)'
  BY <1>11 DEF Refuse, End, Goto
<1>12. ASSUME NEW t \in Tickers, Lose(t) PROVE FencingOf(u)'
  BY <1>12 DEF Lose
<1>13. ASSUME NEW t \in Tickers, StoreError(t) PROVE FencingOf(u)'
  BY <1>13 DEF StoreError, End, Goto
<1>14. ASSUME NEW t \in Tickers, IOExpires(t) PROVE FencingOf(u)'
  BY <1>14 DEF IOExpires, End, Goto
<1>15. ASSUME NEW t \in Tickers, Crash(t) PROVE FencingOf(u)'
  BY <1>15 DEF Crash, Goto
<1>16. CASE UNCHANGED vars
  BY <1>16 DEF vars
<1> QED
  BY <1>1, <1>2, <1>3, <1>4, <1>5, <1>6, <1>7, <1>8, <1>9, <1>10, <1>11, <1>12, <1>13, <1>14, <1>15, <1>16,
     <1>17 DEF Next, Step

(***************************************************************************)
(* A process that has reported its action owns no lease in force and has   *)
(* no put on the wire: a release that was applied is refused when it is    *)
(* resent, and then the process reports an error.                          *)
(***************************************************************************)
LEMMA QuietStep == TypeOK /\ TypeOK' /\ Fencing /\ Quiet /\ [Next]_vars => Quiet'
<1> SUFFICES ASSUME TypeOK, TypeOK', Fencing, Quiet, [Next]_vars,
                    NEW u \in Tickers
             PROVE  QuietOf(u)'
  BY DEF Quiet
<1> USE TimesAssumption
    DEF TypeOK, Quiet, QuietOf, LeaseRecord, Put, NoPut, Phases, Live, LeaseIO, Fencing, FencingOf
<1>1. CASE Tick
  BY <1>1 DEF Tick
<1>2. ASSUME NEW t \in Tickers, Start(t) PROVE QuietOf(u)'
  BY <1>2 DEF Start, Goto
<1>3. ASSUME NEW t \in Tickers, LoadHeld(t) PROVE QuietOf(u)'
  BY <1>3 DEF LoadHeld, End, Goto
<1>4. ASSUME NEW t \in Tickers, LoadFree(t) PROVE QuietOf(u)'
  BY <1>4 DEF LoadFree, Goto
<1>5. ASSUME NEW t \in Tickers, Contended(t) PROVE QuietOf(u)'
  BY <1>5 DEF Contended, End, Goto
<1>6. ASSUME NEW t \in Tickers, Confirm(t) PROVE QuietOf(u)'
  BY <1>6 DEF Confirm, Goto
<1>7. ASSUME NEW t \in Tickers, ConfirmChanged(t) PROVE QuietOf(u)'
  BY <1>7 DEF ConfirmChanged, End, Goto
<1>8. ASSUME NEW t \in Tickers, Release(t) PROVE QuietOf(u)'
  BY <1>8 DEF Release, Goto, Clock
<1>9. ASSUME NEW t \in Tickers, ReleaseTooLate(t) PROVE QuietOf(u)'
  BY <1>9 DEF ReleaseTooLate, End, Goto, Clock
<1>10. ASSUME NEW t \in Tickers, Land(t) PROVE QuietOf(u)'
  BY <1>10 DEF Land, Apply, End, Goto
<1>17. ASSUME NEW t \in Tickers, LandUnanswered(t) PROVE QuietOf(u)'
  BY <1>17 DEF LandUnanswered, Apply
<1>11. ASSUME NEW t \in Tickers, Refuse(t) PROVE QuietOf(u)'
  BY <1>11 DEF Refuse, End, Goto
<1>12. ASSUME NEW t \in Tickers, Lose(t) PROVE QuietOf(u)'
  BY <1>12 DEF Lose
<1>13. ASSUME NEW t \in Tickers, StoreError(t) PROVE QuietOf(u)'
  BY <1>13 DEF StoreError, End, Goto
<1>14. ASSUME NEW t \in Tickers, IOExpires(t) PROVE QuietOf(u)'
  BY <1>14 DEF IOExpires, End, Goto
<1>15. ASSUME NEW t \in Tickers, Crash(t) PROVE QuietOf(u)'
  BY <1>15 DEF Crash, Goto
<1>16. CASE UNCHANGED vars
  BY <1>16 DEF vars
<1> QED
  BY <1>1, <1>2, <1>3, <1>4, <1>5, <1>6, <1>7, <1>8, <1>9, <1>10, <1>11, <1>12, <1>13, <1>14, <1>15, <1>16,
     <1>17 DEF Next, Step

(***************************************************************************)
(* LeaseInv, the conjunction of the three, holds in every reachable state  *)
(* of the lease protocol whatever the clocks and the delays.               *)
(***************************************************************************)
THEOREM LeaseInvariant == Spec => [](TypeOK /\ LeaseInv)
<1>1. Init => LeaseInv
  BY TimesAssumption
     DEF Init, LeaseInv, Timing, TimingOf, Fencing, FencingOf, Quiet, QuietOf,
         NoPut, Live, LeaseIO
<1>2. TypeOK /\ TypeOK' /\ LeaseInv /\ [Next]_vars => LeaseInv'
  BY TimingStep, FencingStep, QuietStep DEF LeaseInv
<1> QED
  BY <1>1, <1>2, Typing, PTL DEF Spec

(***************************************************************************)
(* A tick that reports its action leaves no lease of its own in force, for *)
(* every set of processes, any delays and any resending of puts.           *)
(***************************************************************************)
THEOREM CleanAnswers == Spec => []ActionLeavesNoLease
<1>1. LeaseInv => ActionLeavesNoLease
  BY DEF LeaseInv, Quiet, QuietOf, ActionLeavesNoLease
<1> QED
  BY <1>1, LeaseInvariant, PTL

(***************************************************************************)
(* The stored lease changes hands only from a record that is not in force  *)
(* for its new owner, and is released only by its holder: no assumption    *)
(* about clocks, timers or the network is needed.                          *)
(***************************************************************************)
THEOREM Handover == Spec => LeaseHandover
<1> DEFINE Allowed ==
      lease' # lease =>
        IF lease'.state = "active"
        THEN ~InForce(lease, Opened(lease'.owner))
        ELSE /\ lease.state = "active"
             /\ lease'.owner = lease.owner
             /\ lease'.acquired = lease.acquired
<1>1. TypeOK /\ LeaseInv /\ [Next]_vars => Allowed
  <2> SUFFICES ASSUME TypeOK, LeaseInv, [Next]_vars, lease' # lease
               PROVE  Allowed
    OBVIOUS
  <2>1. PICK t \in Tickers : Land(t) \/ LandUnanswered(t)
    BY DEF Next, Step, vars, Tick, Start, LoadHeld, LoadFree, Contended,
           Confirm, ConfirmChanged, Release, ReleaseTooLate, Refuse, Lose,
           StoreError, IOExpires, Crash, End
  <2>2. /\ wire[t] # NoPut
        /\ wire[t].expects = lease.version
        /\ lease' = [version |-> lease.version + 1, owner |-> t,
                     acquired |-> Opened(t), state |-> wire[t].state]
        /\ wire[t].state \in {"active", "released"}
    BY <2>1 DEF Land, LandUnanswered, Apply, TypeOK, Put
  <2>3. FencingOf(t)
    BY DEF LeaseInv, Fencing
  <2>4. CASE wire[t].state = "active"
    BY <2>2, <2>3, <2>4 DEF FencingOf
  <2>5. CASE wire[t].state = "released"
    <3>1. IsOwn(lease, t)
      BY <2>2, <2>3, <2>5 DEF FencingOf
    <3> QED
      BY <2>2, <2>5, <3>1 DEF IsOwn
  <2> QED
    BY <2>2, <2>4, <2>5
<1> QED
  BY <1>1, LeaseInvariant, PTL DEF Spec, LeaseHandover

(***************************************************************************)
(* With clocks and timers that keep to the margin the durations leave, no  *)
(* step takes the lease from a process that is mutating.                   *)
(***************************************************************************)
LEMMA OwnershipStep ==
  ASSUME Timely
  PROVE  TypeOK /\ LeaseInv /\ MutatorOwnsLease /\ [Next]_vars
           => MutatorOwnsLease'
<1> SUFFICES ASSUME TypeOK, LeaseInv, MutatorOwnsLease, [Next]_vars,
                    NEW u \in Tickers, pc'[u] = "mutating"
             PROVE  IsOwn(lease, u)' /\ version'[u] = lease'.version
  BY DEF MutatorOwnsLease, Mutating
<1> USE DEF IsOwn, Opened
<1>1. CASE \E t \in Tickers : Land(t) \/ LandUnanswered(t)
  <2>1. PICK t \in Tickers : Land(t) \/ LandUnanswered(t)
    BY <1>1
  <2>2. /\ pc[u] = "mutating" /\ wire[u] = NoPut /\ u # t
        /\ wire[t] # NoPut
    BY <2>1 DEF Land, LandUnanswered, End, Goto, TypeOK, LeaseInv, Fencing, FencingOf
  <2>3. IsOwn(lease, u)
    BY <2>2 DEF MutatorOwnsLease, Mutating
  <2>4. wire[t].expects = lease.version /\ wire[t].state \in {"active", "released"}
    BY <2>1, <2>2 DEF Land, LandUnanswered, Apply, TypeOK, Put
  <2>5. wire[t].state = "active"
    BY <2>2, <2>3, <2>4 DEF LeaseInv, Fencing, FencingOf
  <2>6. Opened(t) >= Opened(u) + TTL
    BY <2>3, <2>4, <2>5, TimesAssumption
       DEF LeaseInv, Fencing, FencingOf, InForce, TypeOK, LeaseRecord
  <2>7. now <= began[u] + IOTimeout + MutationTimeout + 2 * Lag
    BY <2>2, TimesAssumption DEF LeaseInv, Timing, TimingOf, TypeOK, Live
  <2>8. began[t] <= now
    BY <2>2 DEF LeaseInv, Timing, TimingOf, Fencing, FencingOf
  <2>9. IOTimeout + MutationTimeout + 2 * Lag + Skew[t] - Skew[u] < TTL
    BY DEF Timely
  <2> QED
    BY <2>6, <2>7, <2>8, <2>9, TimesAssumption DEF TypeOK
<1>2. CASE \E t \in Tickers : Confirm(t)
  BY <1>2 DEF Confirm, Goto, MutatorOwnsLease, Mutating, TypeOK
<1>3. CASE \E t \in Tickers : Start(t)
  BY <1>3 DEF Start, Goto, MutatorOwnsLease, Mutating, TypeOK
<1>4. CASE \E t \in Tickers : LoadFree(t)
  BY <1>4 DEF LoadFree, Goto, MutatorOwnsLease, Mutating, TypeOK
<1>5. CASE ~ \E t \in Tickers :
             Land(t) \/ LandUnanswered(t) \/ Confirm(t) \/ Start(t) \/ LoadFree(t)
  <2>1. pc[u] = "mutating" /\ UNCHANGED <<lease, began, version>>
    BY <1>5 DEF Next, Step, vars, Tick, LoadHeld, Contended, ConfirmChanged,
           Release, ReleaseTooLate, Refuse, Lose, StoreError, IOExpires, Crash,
           End, Goto, TypeOK
  <2> QED
    BY <2>1 DEF MutatorOwnsLease, Mutating
<1> QED
  BY <1>1, <1>2, <1>3, <1>4, <1>5

(***************************************************************************)
(* The tick that mutates control state owns the stored lease, for every    *)
(* number of processes and all durations, clocks and timer delays with     *)
(* IOTimeout + MutationTimeout + 2 * Lag + (difference of two clocks) < TTL*)
(* (the compile-time assertion leaves 270 seconds for the last two).       *)
(***************************************************************************)
THEOREM Ownership ==
  ASSUME Timely
  PROVE  Spec => []MutatorOwnsLease
<1>1. Init => MutatorOwnsLease
  BY DEF Init, MutatorOwnsLease, Mutating
<1> QED
  BY <1>1, OwnershipStep, LeaseInvariant, PTL DEF Spec

(***************************************************************************)
(* The lease protocol implements TickTurns: the processes take turns.      *)
(***************************************************************************)
THEOREM Serialises ==
  ASSUME Timely
  PROVE  Spec => TakeTurns
<1>1. Init => Turns!Init
  BY DEF Init, Turns!Init, Mutating
<1>2. TypeOK /\ MutatorOwnsLease /\ MutatorOwnsLease' /\ [Next]_vars
        => [Turns!Next]_Mutating
  <2> SUFFICES ASSUME TypeOK, MutatorOwnsLease, MutatorOwnsLease', [Next]_vars
               PROVE  [Turns!Next]_Mutating
    OBVIOUS
  <2>1. CASE \E t \in Tickers : Confirm(t)
    <3>1. PICK t \in Tickers : Confirm(t)
      BY <2>1
    <3>2. Mutating' = Mutating \cup {t}
      BY <3>1 DEF Confirm, Goto, TypeOK, Mutating
    <3>3. Mutating = {}
      BY <3>1 DEF Confirm, IsOwn, MutatorOwnsLease, Mutating
    <3> QED
      BY <3>2, <3>3 DEF Turns!Next, Turns!Enter
  <2>2. CASE ~ \E t \in Tickers : Confirm(t)
    <3>1. Mutating' \subseteq Mutating
      BY <2>2 DEF Next, Step, vars, Tick, Start, LoadHeld, LoadFree, Contended,
           ConfirmChanged, Release, ReleaseTooLate, Land, LandUnanswered, Refuse, Lose,
           StoreError, IOExpires, Crash, End, Goto, TypeOK, Mutating
    <3>2. \A t, u \in Mutating : t = u
      BY DEF MutatorOwnsLease, IsOwn
    <3>3. CASE Mutating' = Mutating
      BY <3>3
    <3>4. CASE Mutating' # Mutating
      <4>1. PICK t \in Mutating : t \notin Mutating'
        BY <3>1, <3>4
      <4>2. Mutating = {t} /\ Mutating' = {} /\ t \in Tickers
        BY <3>1, <3>2, <4>1 DEF Mutating
      <4> QED
        BY <4>2 DEF Turns!Next, Turns!Leave
    <3> QED
      BY <3>3, <3>4
  <2> QED
    BY <2>1, <2>2
<1> QED
  BY <1>1, <1>2, Typing, Ownership, PTL DEF Spec, TakeTurns, Turns!Spec

(***************************************************************************)
(* The second lease I/O of the compile-time assertion in main.rs is the    *)
(* margin for clocks and timers: Timely holds when they stay within one    *)
(* IOTimeout of each other.                                                *)
(***************************************************************************)
THEOREM AssertionSuffices ==
  ASSUME \A t, u \in Tickers : 2 * Lag + Skew[u] - Skew[t] <= IOTimeout
  PROVE  Timely
BY TimesAssumption, DurationsAssumption DEF Timely
=============================================================================
