----------------------------- MODULE TickLease -----------------------------
(***************************************************************************)
(* The tick lease of milk-carton: the single object in the control store   *)
(* that serialises overlapping `tick --once` processes of a scope.         *)
(*                                                                         *)
(* A tick process reads the lease, writes its own record over an absent,   *)
(* released or expired one with a conditional put, reads it back, runs the *)
(* control mutation under a timeout and releases the lease with a second   *)
(* conditional put.  Every process decides with its own wall clock, may    *)
(* crash anywhere, and may give up on a put that the store applies later.  *)
(* The S3 client resends a put whose answer did not come, so that a put    *)
(* can be applied and refused.                                             *)
(*                                                                         *)
(* Source: crates/milk-carton/src/records.rs (acquire_tick_lease,          *)
(* release_tick_lease and their helpers) and main.rs                       *)
(* (tick_once_with_records and the timeouts).                              *)
(***************************************************************************)
EXTENDS Integers

CONSTANTS
    Tickers,          \* tick processes; each has its own fresh writer id
    TTL,              \* TICK_LEASE_TTL_SECONDS
    IOTimeout,        \* TICK_LEASE_IO_TIMEOUT
    MutationTimeout,  \* TICK_MUTATION_TIMEOUT
    Skew,             \* wall clock of each process minus real time
    Lag,              \* how late a process may notice that a timer fired
    LastStart,        \* bound: no process starts after this instant
    NoTicker          \* the owner of a lease that was never written

ASSUME TimesAssumption ==
    /\ TTL \in Nat /\ IOTimeout \in Nat /\ MutationTimeout \in Nat
    /\ Lag \in Nat /\ LastStart \in Nat
    /\ Skew \in [Tickers -> Int]
    /\ NoTicker \notin Tickers

(***************************************************************************)
(* What the code asserts at compile time about the three durations.        *)
(***************************************************************************)
ASSUME DurationsAssumption == MutationTimeout + 2 * IOTimeout < TTL

VARIABLES
    now,       \* real time
    lease,     \* the stored lease object and its version (ETag)
    pc,        \* where each process is
    began,     \* real time at which the process read its clock
    deadline,  \* real time at which the timer of its current phase fires
    version,   \* the lease version it has loaded
    wire,      \* its conditional put that the store has not answered
    answer     \* what the process prints: nothing yet, hold, action or error

vars == <<now, lease, pc, began, deadline, version, wire, answer>>

-----------------------------------------------------------------------------

LeaseIO == {"loading", "acquiring", "confirming", "contended"}
Live    == LeaseIO \cup {"mutating", "releasing"}
Phases  == Live \cup {"idle", "ended", "crashed"}

\* Utc::now() as process t sees it, and as it read it before acquiring.
Clock(t)  == now + Skew[t]
Opened(t) == began[t] + Skew[t]

LeaseRecord == [version : Nat, owner : Tickers \cup {NoTicker},
                acquired : Int, state : {"absent", "active", "released"}]

\* A conditional put: the version it expects (0 for PutMode::Create) and the
\* state of the record it carries.  The record's other fields are the writer's.
Put   == [expects : Nat, state : {"active", "released"}]
NoPut == [expects |-> 0, state |-> "none"]

\* Mutant of InForce: the expiry is computed from the wrong duration.
InForceForIO(l, c) == l.state = "active" /\ c < l.acquired + IOTimeout

\* The lease is in force for a process whose clock reads c.
InForce(l, c) == l.state = "active" /\ c < l.acquired + TTL

\* The record t would have stored, compared field by field on re-reading.
IsOwn(l, t) == l.owner = t /\ l.acquired = Opened(t) /\ l.state = "active"

Init ==
    /\ now = 0
    /\ lease = [version |-> 0, owner |-> NoTicker, acquired |-> 0,
                state |-> "absent"]
    /\ pc = [t \in Tickers |-> "idle"]
    /\ began = [t \in Tickers |-> 0]
    /\ deadline = [t \in Tickers |-> 0]
    /\ version = [t \in Tickers |-> 0]
    /\ wire = [t \in Tickers |-> NoPut]
    /\ answer = [t \in Tickers |-> "none"]

Goto(t, phase) == pc' = [pc EXCEPT ![t] = phase]

End(t, what) ==
    /\ Goto(t, "ended")
    /\ answer' = [answer EXCEPT ![t] = what]

-----------------------------------------------------------------------------
(* Acquisition.                                                            *)

\* tick_once reads the clock and enters the acquisition under its timeout.
Start(t) ==
    /\ pc[t] = "idle"
    /\ now <= LastStart
    /\ Goto(t, "loading")
    /\ began' = [began EXCEPT ![t] = now]
    /\ deadline' = [deadline EXCEPT ![t] = now + IOTimeout]
    /\ UNCHANGED <<now, lease, version, wire, answer>>

\* The loaded lease is in force: the tick answers hold.
LoadHeld(t) ==
    /\ pc[t] = "loading"
    /\ InForce(lease, Opened(t))
    /\ End(t, "hold")
    /\ UNCHANGED <<now, lease, began, deadline, version, wire>>

\* The loaded lease is absent, released or expired: send the conditional put.
LoadFree(t) ==
    /\ pc[t] = "loading"
    /\ ~InForce(lease, Opened(t))
    /\ Goto(t, "acquiring")
    /\ version' = [version EXCEPT ![t] = lease.version]
    /\ wire' = [wire EXCEPT ![t] = [expects |-> lease.version,
                                     state |-> "active"]]
    /\ UNCHANGED <<now, lease, began, deadline, answer>>

\* Precondition or AlreadyExists: the lease is read again and must exist.
Contended(t) ==
    /\ pc[t] = "contended"
    /\ End(t, IF lease.state = "absent" THEN "error" ELSE "hold")
    /\ UNCHANGED <<now, lease, began, deadline, version, wire>>

\* acquired_tick_lease: the lease read back is the one written.
Confirm(t) ==
    /\ pc[t] = "confirming"
    /\ IsOwn(lease, t)
    /\ Goto(t, "mutating")
    /\ version' = [version EXCEPT ![t] = lease.version]
    /\ deadline' = [deadline EXCEPT ![t] = now + MutationTimeout]
    /\ UNCHANGED <<now, lease, began, wire, answer>>

ConfirmChanged(t) ==
    /\ pc[t] = "confirming"
    /\ ~IsOwn(lease, t)
    /\ End(t, "error")
    /\ UNCHANGED <<now, lease, began, deadline, version, wire>>

-----------------------------------------------------------------------------
(* Mutation and release.                                                   *)

\* The mutation returned, failed or timed out: in every case release the
\* lease, provided the clock is inside its interval.
Release(t) ==
    /\ pc[t] = "mutating"
    /\ Clock(t) >= Opened(t)
    /\ Clock(t) < Opened(t) + TTL
    /\ Goto(t, "releasing")
    /\ deadline' = [deadline EXCEPT ![t] = now + IOTimeout]
    /\ wire' = [wire EXCEPT ![t] = [expects |-> version[t],
                                     state |-> "released"]]
    /\ UNCHANGED <<now, lease, began, version, answer>>

\* A process that was stalled past its lease refuses to release it.
ReleaseTooLate(t) ==
    /\ pc[t] = "mutating"
    /\ Clock(t) >= Opened(t) + TTL
    /\ End(t, "error")
    /\ UNCHANGED <<now, lease, began, deadline, version, wire>>

-----------------------------------------------------------------------------
(* The store.  It applies a put only at the version the put expects, and   *)
(* answers the process if that is still waiting.  A put stays on the wire  *)
(* until the client has an answer or gives up.                             *)

\* Mutant of Apply: the put is unconditional (PutMode::Overwrite).
ApplyOverwrite(t) ==
    /\ wire[t].expects <= lease.version
    /\ lease' = [version |-> lease.version + 1, owner |-> t,
                 acquired |-> Opened(t), state |-> wire[t].state]

Apply(t) ==
    /\ wire[t].expects = lease.version
    /\ lease' = [version |-> lease.version + 1, owner |-> t,
                 acquired |-> Opened(t), state |-> wire[t].state]

\* The conditional put lands.
Land(t) ==
    /\ wire[t] # NoPut
    /\ Apply(t)
    /\ wire' = [wire EXCEPT ![t] = NoPut]
    /\ \/ /\ pc[t] = "acquiring"
          /\ Goto(t, "confirming")
          /\ UNCHANGED answer
       \/ /\ pc[t] = "releasing"
          /\ \E what \in {"action", "error"} : End(t, what)
       \/ /\ pc[t] \notin {"acquiring", "releasing"}
          /\ UNCHANGED <<pc, answer>>
    /\ UNCHANGED <<now, began, deadline, version>>

\* The conditional put lands, but the answer is a failure that the client of
\* build_s3 retries by itself: the put is sent again, at a version that has
\* passed.
LandUnanswered(t) ==
    /\ wire[t] # NoPut
    /\ pc[t] \in {"acquiring", "releasing"}
    /\ Apply(t)
    /\ UNCHANGED <<now, pc, began, deadline, version, wire, answer>>

\* The conditional put is refused, perhaps because it was applied before: the
\* process cannot tell, and takes its own record for that of another.
Refuse(t) ==
    /\ wire[t] # NoPut
    /\ wire[t].expects # lease.version
    /\ wire' = [wire EXCEPT ![t] = NoPut]
    /\ \/ /\ pc[t] = "acquiring"
          /\ Goto(t, "contended")
          /\ UNCHANGED answer
       \/ /\ pc[t] = "releasing"
          /\ End(t, "error")
       \/ /\ pc[t] \notin {"acquiring", "releasing"}
          /\ UNCHANGED <<pc, answer>>
    /\ UNCHANGED <<now, lease, began, deadline, version>>

\* The put never reaches the store.
Lose(t) ==
    /\ wire[t] # NoPut
    /\ wire' = [wire EXCEPT ![t] = NoPut]
    /\ UNCHANGED <<now, lease, pc, began, deadline, version, answer>>

-----------------------------------------------------------------------------
(* Failures and time.                                                      *)

\* A lease request fails: the process gives up without undoing anything.
StoreError(t) ==
    /\ pc[t] \in LeaseIO \cup {"releasing"}
    /\ End(t, "error")
    /\ UNCHANGED <<now, lease, began, deadline, version, wire>>

\* Mutant of IOExpires: only the acquisition runs under a timeout.
IOExpiresAcquiring(t) ==
    /\ pc[t] \in LeaseIO
    /\ now >= deadline[t]
    /\ End(t, "error")
    /\ UNCHANGED <<now, lease, began, deadline, version, wire>>

\* Mutant of IOExpires: a release that timed out is dropped silently.
IOExpiresSilently(t) ==
    /\ pc[t] \in LeaseIO \cup {"releasing"}
    /\ now >= deadline[t]
    /\ End(t, IF pc[t] = "releasing" THEN "action" ELSE "error")
    /\ UNCHANGED <<now, lease, began, deadline, version, wire>>

\* tokio::time::timeout around the acquisition or the release.  (The timer
\* of the mutation leads to Release, like every other end of the mutation.)
IOExpires(t) ==
    /\ pc[t] \in LeaseIO \cup {"releasing"}
    /\ now >= deadline[t]
    /\ End(t, "error")
    /\ UNCHANGED <<now, lease, began, deadline, version, wire>>

MutationExpires(t) ==
    /\ now >= deadline[t]
    /\ Release(t) \/ ReleaseTooLate(t)

Crash(t) ==
    /\ pc[t] \in Live
    /\ Goto(t, "crashed")
    /\ UNCHANGED <<now, lease, began, deadline, version, wire, answer>>

\* bound: late enough for every process to finish.
MaxTime == LastStart + 2 * IOTimeout + MutationTimeout + 3 * Lag

\* Time passes, but no process notices a timer later than Lag after it fired.
Tick ==
    /\ now < MaxTime
    /\ \A t \in Tickers : pc[t] \in Live => now < deadline[t] + Lag
    /\ now' = now + 1
    /\ UNCHANGED <<lease, pc, began, deadline, version, wire, answer>>

Step(t) ==
    \/ Start(t) \/ LoadHeld(t) \/ LoadFree(t) \/ Contended(t)
    \/ Confirm(t) \/ ConfirmChanged(t) \/ Release(t) \/ ReleaseTooLate(t)
    \/ Land(t) \/ LandUnanswered(t) \/ Refuse(t) \/ Lose(t)
    \/ StoreError(t) \/ IOExpires(t) \/ Crash(t)

Next == Tick \/ \E t \in Tickers : Step(t)

Spec == Init /\ [][Next]_vars

(***************************************************************************)
(* Only the clock and the timers are fair: the store may never answer and  *)
(* the mutation may never return by itself.                                *)
(***************************************************************************)
Fairness ==
    /\ WF_vars(Tick)
    /\ \A t \in Tickers : WF_vars(IOExpires(t)) /\ WF_vars(MutationExpires(t))

FairSpec == Spec /\ Fairness

-----------------------------------------------------------------------------
(* Properties.                                                             *)

\* Every variable has its type.
TypeOK ==
    /\ now \in Nat
    /\ lease \in LeaseRecord
    /\ pc \in [Tickers -> Phases]
    /\ began \in [Tickers -> Nat]
    /\ deadline \in [Tickers -> Nat]
    /\ version \in [Tickers -> Nat]
    /\ wire \in [Tickers -> Put \cup {NoPut}]
    /\ answer \in [Tickers -> {"none", "hold", "action", "error"}]

Mutating == {t \in Tickers : pc[t] = "mutating"}

(***************************************************************************)
(* The clocks agree and the timers fire well enough for the three          *)
(* durations: the margin that the compile-time assertion leaves.           *)
(***************************************************************************)
Timely ==
    \A t, u \in Tickers :
        IOTimeout + MutationTimeout + 2 * Lag + Skew[u] - Skew[t] < TTL

(***************************************************************************)
(* The tick that is mutating control state owns the stored lease, and the  *)
(* lease is active: no other process can have taken it over, released it   *)
(* or overwritten it with a put that was delayed.  Hence at most one       *)
(* process mutates control state at any instant                            *)
(* (tick_once_with_records).                                               *)
(***************************************************************************)
MutatorOwnsLease ==
    \A t \in Mutating : IsOwn(lease, t) /\ version[t] = lease.version

(***************************************************************************)
(* A tick that reports its action has left no lease of its own in force,   *)
(* and nothing that could put one there later: the next tick need not wait *)
(* for an expiry (the release? of tick_once_with_records).  A tick that    *)
(* fails or dies gives no such promise, and neither does one that answers  *)
(* hold, because it may have been refused for its own record.              *)
(***************************************************************************)
ActionLeavesNoLease ==
    \A t \in Tickers : answer[t] = "action" =>
        /\ lease.owner = t => lease.state = "released"
        /\ wire[t] = NoPut

(***************************************************************************)
(* Whatever the delays and however stalled the processes are, the stored   *)
(* lease changes hands only by an acquisition, and only from a record that *)
(* was released or had expired on the new owner's clock; and a lease is    *)
(* released only by the process that holds it (the PutMode::Update         *)
(* conditions of acquire_tick_lease and release_tick_lease).               *)
(***************************************************************************)
LeaseHandover ==
    [][lease' # lease =>
        IF lease'.state = "active"
        THEN ~InForce(lease, Opened(lease'.owner))
        ELSE /\ lease.state = "active"
             /\ lease'.owner = lease.owner
             /\ lease'.acquired = lease.acquired]_vars

(***************************************************************************)
(* The facts behind these properties.  Timing: where the timers put the    *)
(* present instant.  Fencing: what the version a put expects tells about   *)
(* the record it would replace.  Quiet: a process that has reported its    *)
(* action holds nothing and has nothing on the wire.                       *)
(***************************************************************************)
TimingOf(t) ==
    /\ pc[t] # "idle" => began[t] <= now
    /\ pc[t] \in LeaseIO => deadline[t] = began[t] + IOTimeout
    /\ pc[t] = "mutating" =>
           deadline[t] <= began[t] + IOTimeout + Lag + MutationTimeout
    /\ pc[t] \in Live => now <= deadline[t] + Lag

Timing == \A t \in Tickers : TimingOf(t)

FencingOf(t) ==
    /\ wire[t] # NoPut =>
           /\ pc[t] \in {"acquiring", "releasing", "ended", "crashed"}
           /\ wire[t].expects <= lease.version
    /\ wire[t].state = "active" /\ wire[t].expects = lease.version =>
           ~InForce(lease, Opened(t))
    /\ wire[t].state = "released" /\ wire[t].expects = lease.version =>
           IsOwn(lease, t)
    /\ pc[t] = "mutating" =>
           /\ version[t] <= lease.version
           /\ version[t] = lease.version => IsOwn(lease, t)

Fencing == \A t \in Tickers : FencingOf(t)

QuietOf(t) ==
    /\ pc[t] = "releasing" => wire[t].state # "active"
    /\ answer[t] = "action" =>
           /\ pc[t] = "ended"
           /\ wire[t] = NoPut
           /\ lease.owner = t => lease.state = "released"

Quiet == \A t \in Tickers : QuietOf(t)

(***************************************************************************)
(* The three together are inductive; they hold in every reachable state of *)
(* acquire_tick_lease, release_tick_lease and tick_once_with_records.      *)
(***************************************************************************)
LeaseInv == Timing /\ Fencing /\ Quiet

(***************************************************************************)
(* Every tick process that starts comes to an end, even when the store     *)
(* never answers it: the two timeouts bound the whole command.             *)
(***************************************************************************)
EveryTickEnds ==
    \A t \in Tickers : pc[t] = "loading" ~> pc[t] \in {"ended", "crashed"}

(***************************************************************************)
(* What the lease promises, without clocks, versions and puts: the         *)
(* processes take turns in the mutation, and one leaves before the next    *)
(* enters.                                                                 *)
(***************************************************************************)
Turns == INSTANCE TickTurns WITH inside <- Mutating
TakeTurns == Turns!Spec
=============================================================================
