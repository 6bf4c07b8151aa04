----------------------------- MODULE GpuLaunch -----------------------------
(***************************************************************************)
(* The GPU launch chain of the control store.  A tick admits a dispatch by *)
(* writing, one object at a time,                                          *)
(*                                                                         *)
(*     intent (pending) -> claim -> outbox -> frontier pointer             *)
(*                      -> intent (terminal) -> no intent                  *)
(*                                                                         *)
(* and may die between any two of these writes.  The next tick finishes    *)
(* what the last one began, retires the pointers of dispatches that have   *)
(* ended, and only then admits new work under a bound on pending intents   *)
(* and pointers together.  Results arrive at any time from the operator's  *)
(* ingest commands, which do not take the tick lease.                      *)
(*                                                                         *)
(* One tick at a time runs (TickLease); every action below is one object   *)
(* store write of the tick, with the reads that precede it.                *)
(*                                                                         *)
(* Source: crates/milk-carton/src/records.rs, from                         *)
(* load_verified_gpu_launch_intent to ensure_gpu_launch_outbox, and the    *)
(* callers that admit teacher runs, student train jobs and student fanouts.*)
(***************************************************************************)
EXTENDS Integers, FiniteSets

CONSTANTS
    Dispatches,   \* dispatch ids
    NoDispatch,   \* no dispatch in hand
    Trains,       \* the dispatches that are student train/merge jobs
    Parent,       \* the train job a fanout follows, NoDispatch for the others
    Expiry,       \* expires_at of each dispatch
    Cap,          \* MAX_ACTIVE_GPU_LAUNCHES
    MaxTime,      \* bound on the clock
    MaxFaults     \* bound on ticks that fail or die

ASSUME DispatchAssumption ==
    /\ IsFiniteSet(Dispatches) /\ Trains \subseteq Dispatches
    /\ NoDispatch \notin Dispatches
    /\ Parent \in [Dispatches -> Dispatches \cup {NoDispatch}]
    /\ Expiry \in [Dispatches -> Nat]

ASSUME BoundsAssumption == Cap \in Nat /\ MaxTime \in Nat /\ MaxFaults \in Nat

VARIABLES
    \* the control store
    intent,     \* state of each intent object
    claims,     \* dispatches whose claim is stored
    outboxes,   \* dispatches whose outbox record is stored
    frontier,   \* dispatches with a pointer under frontier/gpu-launch/
    results,    \* dispatches whose terminal result is stored
    \* the tick
    pc,         \* the write it will make next
    tnow,       \* the instant it captured when it started
    todo,       \* dispatches its current pass has still to visit
    cur,        \* the dispatch in hand
    mode,       \* why it is in hand
    verdict,    \* whether it decided that cur is active or has ended
    goal,       \* what the frontier scan in progress is for
    scan,       \* pointers the scan has still to look at
    counted,    \* pointers the scan found active
    \* the world
    clock, faults,
    published   \* history: dispatches that ever had a pointer

store == <<intent, claims, outboxes, frontier, results, published>>
tick  == <<pc, tnow, todo, cur, mode, verdict, goal, scan, counted>>
vars  == <<store, tick, clock, faults>>

-----------------------------------------------------------------------------

Pending    == {d \in Dispatches : intent[d] = "pending"}
Intents    == {d \in Dispatches : intent[d] # "none"}
Expired(d) == Expiry[d] <= tnow

\* gpu_launch_is_terminal.
Terminal(d) == d \in results

\* verify_gpu_launch_intent_dependencies: a fanout needs its train result.
DependenciesHold(d) == Parent[d] = NoDispatch \/ Parent[d] \in results

\* enforce_gpu_launch_frontier_bound, after the scan: the pointers that stay,
\* and the pending intents that may still become pointers.
ActiveDispatches ==
    counted \cup {d \in Pending : ~Expired(d) /\ ~(d \in claims /\ Terminal(d))}

Init ==
    /\ intent = [d \in Dispatches |-> "none"]
    /\ claims = {} /\ outboxes = {} /\ frontier = {} /\ results = {}
    /\ published = {}
    /\ pc = "idle" /\ tnow = 0 /\ todo = {} /\ cur = NoDispatch
    /\ mode = "none" /\ verdict = "none" /\ goal = "none"
    /\ scan = {} /\ counted = {}
    /\ clock = 0 /\ faults = 0

-----------------------------------------------------------------------------
(* A tick starts, and reconciles the intents it finds.                     *)

\* A tick that admits without reconciling what the last one left.
BeginAfresh ==
    /\ pc = "idle"
    /\ Cardinality(Intents) <= Cap
    /\ pc' = "reconcile"
    /\ tnow' = clock
    /\ todo' = {}
    /\ UNCHANGED <<store, cur, mode, verdict, goal, scan, counted, clock, faults>>

\* A tick that reconciles only the intents still inside their interval.
BeginUnexpired ==
    /\ pc = "idle"
    /\ Cardinality(Intents) <= Cap
    /\ pc' = "reconcile"
    /\ tnow' = clock
    /\ todo' = {d \in Intents : Expiry[d] > clock}
    /\ UNCHANGED <<store, cur, mode, verdict, goal, scan, counted, clock, faults>>

\* tick_once_with_records, then reconcile_gpu_launch_intents lists the intents.
Begin ==
    /\ pc = "idle"
    /\ Cardinality(Intents) <= Cap
    /\ pc' = "reconcile"
    /\ tnow' = clock
    /\ todo' = Intents
    /\ UNCHANGED <<store, cur, mode, verdict, goal, scan, counted, clock, faults>>

\* A terminal intent only has to be removed.
DropTerminalIntent(d) ==
    /\ pc = "reconcile" /\ d \in todo
    /\ intent[d] = "terminal"
    /\ d \in claims /\ d \in outboxes /\ DependenciesHold(d)
    /\ intent' = [intent EXCEPT ![d] = "none"]
    /\ todo' = todo \ {d}
    /\ UNCHANGED <<claims, outboxes, frontier, results, published, pc, tnow, cur,
                   mode, verdict, goal, scan, counted, clock, faults>>

\* A recovery that takes the claim for stored because the intent is.
RecoverAtOutbox(d) ==
    /\ pc = "reconcile" /\ d \in todo
    /\ intent[d] = "pending"
    /\ DependenciesHold(d)
    /\ pc' = "outbox"
    /\ cur' = d /\ mode' = "reconcile"
    /\ todo' = todo \ {d}
    /\ UNCHANGED <<store, tnow, verdict, goal, scan, counted, clock, faults>>

\* A pending intent is materialised.
Recover(d) ==
    /\ pc = "reconcile" /\ d \in todo
    /\ intent[d] = "pending"
    /\ DependenciesHold(d)
    /\ pc' = "claim"
    /\ cur' = d /\ mode' = "reconcile"
    /\ todo' = todo \ {d}
    /\ UNCHANGED <<store, tnow, verdict, goal, scan, counted, clock, faults>>

\* Every intent is settled: sweep the frontier.
StartSweep ==
    /\ pc = "reconcile" /\ todo = {}
    /\ pc' = "scan" /\ goal' = "sweep"
    /\ scan' = frontier /\ counted' = {}
    /\ UNCHANGED <<store, tnow, todo, cur, mode, verdict, clock, faults>>

-----------------------------------------------------------------------------
(* The writes of one dispatch.                                             *)

PutClaim ==
    /\ pc = "claim"
    /\ claims' = claims \cup {cur}
    /\ pc' = "outbox"
    /\ UNCHANGED <<intent, outboxes, frontier, results, published, tnow, todo,
                   cur, mode, verdict, goal, scan, counted, clock, faults>>

\* A repair that looks at the result of the dispatch and not at its deadline.
WantsPointerUntilResult ==
    \/ mode = "fresh" /\ cur \notin Trains
    \/ ~Terminal(cur)

\* A pointer is wanted unless the dispatch has ended.  The teacher run and the
\* fanout that a tick has just admitted are launched without asking again.
WantsPointer ==
    \/ mode = "fresh" /\ cur \notin Trains
    \/ ~Expired(cur) /\ ~Terminal(cur)

PutOutbox ==
    /\ pc = "outbox"
    /\ outboxes' = outboxes \cup {cur}
    /\ verdict' = IF WantsPointer THEN "active" ELSE "ended"
    /\ pc' = "point"
    /\ UNCHANGED <<intent, claims, frontier, results, published, tnow, todo, cur,
                   mode, goal, scan, counted, clock, faults>>

\* Where the tick goes when the pointer is as it should be: a dispatch with an
\* intent terminalises it, one that was only checked again has none.
AfterPointer ==
    \/ mode \in {"reconcile", "fresh"} /\ pc' = "terminalize"
    \/ mode = "resume" /\ pc' = "resume"
    \/ mode = "settle" /\ pc' = "idle"
    \/ mode = "settle" /\ Terminal(cur) /\ pc' = "admit"

\* An ended dispatch loses its pointer.
RemovePointer ==
    /\ pc = "point" /\ verdict = "ended"
    /\ frontier' = frontier \ {cur}
    /\ AfterPointer
    /\ UNCHANGED <<intent, claims, outboxes, results, published, tnow, todo, cur,
                   mode, verdict, goal, scan, counted, clock, faults>>

\* The pointer is there already.
KeepPointer ==
    /\ pc = "point" /\ verdict = "active" /\ cur \in frontier
    /\ AfterPointer
    /\ UNCHANGED <<store, tnow, todo, cur, mode, verdict, goal, scan, counted,
                   clock, faults>>

\* The pointer is missing: enforce the bound before writing it.
ScanForPointer ==
    /\ pc = "point" /\ verdict = "active" /\ cur \notin frontier
    /\ pc' = "scan" /\ goal' = "pointer"
    /\ scan' = frontier /\ counted' = {}
    /\ UNCHANGED <<store, tnow, todo, cur, mode, verdict, clock, faults>>

\* terminalize_gpu_launch_intent: the chain is stored and the pointer is as
\* decided, so the intent is compare-and-swapped to terminal.
Terminalize ==
    /\ pc = "terminalize"
    /\ intent[cur] = "pending"
    /\ cur \in claims /\ cur \in outboxes
    /\ verdict = "active" <=> cur \in frontier
    /\ intent' = [intent EXCEPT ![cur] = "terminal"]
    /\ pc' = "delete"
    /\ UNCHANGED <<claims, outboxes, frontier, results, published, tnow, todo,
                   cur, mode, verdict, goal, scan, counted, clock, faults>>

\* The terminal intent is deleted.  Reconciliation goes on; a train job that
\* was just admitted has its outbox checked once more; another launch ends the
\* tick.
DeleteIntent ==
    /\ pc = "delete"
    /\ intent' = [intent EXCEPT ![cur] = "none"]
    /\ \/ mode = "reconcile" /\ pc' = "reconcile" /\ UNCHANGED mode
       \/ mode = "fresh" /\ cur \in Trains /\ pc' = "outbox" /\ mode' = "settle"
       \/ mode = "fresh" /\ cur \notin Trains /\ pc' = "idle" /\ UNCHANGED mode
    /\ UNCHANGED <<claims, outboxes, frontier, results, published, tnow, todo,
                   cur, verdict, goal, scan, counted, clock, faults>>

-----------------------------------------------------------------------------
(* The scan of enforce_gpu_launch_frontier_bound.                          *)

\* A sweep that waits for the deadline of dispatches that have their result.
RetiredByDeadline(d) == Expired(d)

Retired(d) == Terminal(d) \/ Expired(d)

\* A pointer whose dispatch has ended is deleted.
RetirePointer(d) ==
    /\ pc = "scan" /\ d \in scan
    /\ Retired(d)
    /\ frontier' = frontier \ {d}
    /\ scan' = scan \ {d}
    /\ UNCHANGED <<intent, claims, outboxes, results, published, pc, tnow, todo,
                   cur, mode, verdict, goal, counted, clock, faults>>

\* The others count against the bound.
CountPointer(d) ==
    /\ pc = "scan" /\ d \in scan
    /\ ~Retired(d)
    /\ counted' = counted \cup {d}
    /\ scan' = scan \ {d}
    /\ UNCHANGED <<store, pc, tnow, todo, cur, mode, verdict, goal, clock, faults>>

\* A bound that lets one dispatch too many in.
HasRoomOffByOne(d) ==
    /\ Cardinality(ActiveDispatches) <= Cap + 1
    /\ d # NoDispatch =>
         Cardinality(ActiveDispatches) <= Cap \/ d \in ActiveDispatches

\* The union is within the bound, and has room for d (NoDispatch: none wanted).
HasRoom(d) ==
    /\ Cardinality(ActiveDispatches) <= Cap
    /\ d # NoDispatch =>
         Cardinality(ActiveDispatches) < Cap \/ d \in ActiveDispatches

\* The tick's own sweep: what it retires makes room for what it may admit.  If
\* retention had work to do the tick ends here, otherwise it looks again at
\* the claims of the current teacher binding and student reservation.
EndSweep ==
    /\ pc = "scan" /\ scan = {} /\ goal = "sweep"
    /\ HasRoom(NoDispatch)
    /\ \/ pc' = "idle" /\ UNCHANGED todo
       \/ pc' = "resume" /\ todo' \in SUBSET claims
    /\ UNCHANGED <<store, tnow, cur, mode, verdict, goal, scan, counted, clock,
                   faults>>

\* begin_gpu_launch_intent: the intent is created.
PutIntent ==
    /\ pc = "scan" /\ scan = {} /\ goal = "intent"
    /\ HasRoom(cur)
    /\ Cardinality(Intents) < Cap
    /\ intent' = [intent EXCEPT ![cur] = "pending"]
    /\ pc' = "claim"
    /\ UNCHANGED <<claims, outboxes, frontier, results, published, tnow, todo,
                   cur, mode, verdict, goal, scan, counted, clock, faults>>

\* ensure_gpu_launch_outbox: the pointer is created.
PutPointer ==
    /\ pc = "scan" /\ scan = {} /\ goal = "pointer"
    /\ HasRoom(cur)
    /\ frontier' = frontier \cup {cur}
    /\ published' = published \cup {cur}
    /\ AfterPointer
    /\ UNCHANGED <<intent, claims, outboxes, results, tnow, todo, cur, mode,
                   verdict, goal, scan, counted, clock, faults>>

-----------------------------------------------------------------------------
(* The rest of the tick: known claims first, then at most one new launch.  *)

\* resume_pending_teacher_gpu_run and reconcile_student_gpu_launch_outboxes
\* check the outbox and the pointer of a stored claim.
Resume(d) ==
    /\ pc = "resume" /\ d \in todo
    /\ pc' = "outbox"
    /\ cur' = d /\ mode' = "resume"
    /\ todo' = todo \ {d}
    /\ UNCHANGED <<store, tnow, verdict, goal, scan, counted, clock, faults>>

EndResume ==
    /\ pc = "resume" /\ todo = {}
    /\ pc' = "admit"
    /\ UNCHANGED <<store, tnow, todo, cur, mode, verdict, goal, scan, counted,
                   clock, faults>>

\* A new dispatch, inside its interval, with its dependencies stored.
Admit(d) ==
    /\ pc = "admit"
    /\ d \notin claims /\ intent[d] = "none"
    /\ DependenciesHold(d) /\ ~Expired(d)
    /\ cur' = d /\ mode' = "fresh"
    /\ pc' = "scan" /\ goal' = "intent"
    /\ scan' = frontier /\ counted' = {}
    /\ UNCHANGED <<store, tnow, todo, verdict, clock, faults>>

Hold ==
    /\ pc = "admit"
    /\ pc' = "idle"
    /\ UNCHANGED <<store, tnow, todo, cur, mode, verdict, goal, scan, counted,
                   clock, faults>>

\* A bail!: the bound leaves no room, and the tick ends with an error.
Bail ==
    /\ pc = "scan" /\ scan = {}
    /\ \/ ~HasRoom(IF goal = "sweep" THEN NoDispatch ELSE cur)
       \/ goal = "intent" /\ Cardinality(Intents) >= Cap
    /\ pc' = "idle"
    /\ UNCHANGED <<store, tnow, todo, cur, mode, verdict, goal, scan, counted,
                   clock, faults>>

-----------------------------------------------------------------------------
(* The world.                                                              *)

\* A storage error, a timeout or a crash: the tick stops where it is.
Fail ==
    /\ pc # "idle" /\ faults < MaxFaults
    /\ pc' = "idle"
    /\ faults' = faults + 1
    /\ UNCHANGED <<store, tnow, todo, cur, mode, verdict, goal, scan, counted, clock>>

\* An ingest command stores the result of a claimed dispatch.
Ingest(d) ==
    /\ d \in claims
    /\ results' = results \cup {d}
    /\ results' # results
    /\ UNCHANGED <<intent, claims, outboxes, frontier, published, tick, clock, faults>>

Advance ==
    /\ clock < MaxTime
    /\ clock' = clock + 1
    /\ UNCHANGED <<store, tick, faults>>

TickStep ==
    \/ Begin \/ StartSweep \/ PutClaim \/ PutOutbox \/ RemovePointer
    \/ KeepPointer \/ ScanForPointer \/ Terminalize \/ DeleteIntent
    \/ EndSweep \/ PutIntent \/ PutPointer \/ EndResume \/ Hold \/ Bail
    \/ \E d \in Dispatches :
          \/ DropTerminalIntent(d) \/ Recover(d) \/ RetirePointer(d)
          \/ CountPointer(d) \/ Resume(d) \/ Admit(d)

Next == TickStep \/ Fail \/ Advance \/ \E d \in Dispatches : Ingest(d)

Spec == Init /\ [][Next]_vars

\* Ticks are invoked again and again and each makes progress; nothing else is
\* promised: results may never arrive and the clock may stop.
FairSpec == Spec /\ WF_vars(TickStep)

-----------------------------------------------------------------------------
(* Properties.                                                             *)

Locations == {"idle", "reconcile", "claim", "outbox", "point", "terminalize",
              "delete", "scan", "resume", "admit"}

\* Every variable has its type.
TypeOK ==
    /\ intent \in [Dispatches -> {"none", "pending", "terminal"}]
    /\ claims \subseteq Dispatches /\ outboxes \subseteq Dispatches
    /\ frontier \subseteq Dispatches /\ results \subseteq Dispatches
    /\ published \subseteq Dispatches
    /\ pc \in Locations
    /\ tnow \in Nat /\ clock \in Nat /\ faults \in Nat
    /\ todo \subseteq Dispatches
    /\ cur \in Dispatches \cup {NoDispatch}
    /\ pc \in {"claim", "outbox", "point", "terminalize", "delete"} =>
         cur \in Dispatches
    /\ pc = "scan" /\ goal \in {"intent", "pointer"} => cur \in Dispatches
    /\ mode \in {"none", "reconcile", "resume", "fresh", "settle"}
    /\ verdict \in {"none", "active", "ended"}
    /\ goal \in {"none", "sweep", "intent", "pointer"}
    /\ scan \subseteq Dispatches /\ counted \subseteq Dispatches

(***************************************************************************)
(* Whenever a provider job looks, a pointer leads to an outbox record and  *)
(* that to a claim, a terminal intent has its whole chain, and a fanout is *)
(* never claimed before its train result is stored: whatever write the     *)
(* last tick died at (the order of the puts in                             *)
(* materialize_gpu_launch_intent and ensure_gpu_launch_outbox).            *)
(***************************************************************************)
ChainComplete ==
    /\ frontier \subseteq outboxes
    /\ outboxes \subseteq claims
    /\ \A d \in Dispatches : intent[d] = "terminal" => d \in outboxes
    /\ \A d \in claims : DependenciesHold(d)

(***************************************************************************)
(* Pending intents and pointers together never exceed the bound, even      *)
(* those that have expired or ended and are still to be swept, so no       *)
(* listing of the frontier can run into its hard object bound              *)
(* (enforce_gpu_launch_frontier_bound).                                    *)
(***************************************************************************)
UnionBounded == Cardinality(frontier \cup Pending) <= Cap

(***************************************************************************)
(* At most one intent is stored at a time: a tick reconciles what the last *)
(* one left before it admits anything, and admits one dispatch; so the     *)
(* bound on intent objects never refuses a launch.                         *)
(***************************************************************************)
OneIntent == \A d, e \in Intents : d = e

(***************************************************************************)
(* The chain implements LaunchLifecycle: in particular a pointer that was  *)
(* retired never comes back, through any crash, recovery or late result.   *)
(***************************************************************************)
PhaseOf(d) ==
    IF d \in frontier THEN "launched"
    ELSE IF d \in published THEN "retired"
    ELSE IF d \in Pending THEN "reserved"
    ELSE IF d \in claims THEN "retired"
    ELSE "unborn"

Phase == [d \in Dispatches |-> PhaseOf(d)]

Lifecycle == INSTANCE LaunchLifecycle WITH phase <- Phase

ImplementsLifecycle == Lifecycle!Spec

-----------------------------------------------------------------------------
(* The inductive invariant behind ChainComplete, UnionBounded, OneIntent   *)
(* and ImplementsLifecycle.                                                *)

\* The tick is between the first and the last write of a dispatch.
Writing == \/ pc \in {"claim", "outbox", "point", "terminalize", "delete"}
           \/ pc = "scan" /\ goal = "pointer"

\* ... of a dispatch that has an intent, rather than one checked again.
Launching == Writing /\ mode \in {"reconcile", "fresh"}

\* What is stored of the dispatch in hand, by the write that comes next.
InHand ==
    /\ Writing => mode # "none"
    /\ Writing /\ pc # "claim" => cur \in claims
    /\ Writing /\ pc \notin {"claim", "outbox"} => cur \in outboxes
    /\ pc \in {"claim", "terminalize", "delete"} => Launching
    /\ Launching =>
         intent[cur] = IF pc = "delete" THEN "terminal" ELSE "pending"
    /\ pc = "claim" => DependenciesHold(cur)
    /\ pc = "resume" \/ (Writing /\ mode = "resume") => todo \subseteq claims
    /\ pc = "scan" => goal # "none"
    /\ pc = "scan" /\ goal = "intent" =>
         mode = "fresh" /\ DependenciesHold(cur) /\ cur \notin claims

\* Where the intents are: on the list of the reconciliation, or in hand.
IntentsKnown ==
    /\ OneIntent
    /\ pc = "reconcile" => Intents \subseteq todo
    /\ Launching /\ mode = "reconcile" => Intents \subseteq todo \cup {cur}
    /\ Launching /\ mode = "fresh" => Intents \subseteq {cur}
    /\ pc # "idle" /\ pc # "reconcile" /\ ~Launching => Intents = {}

\* A scan has still to visit, or has counted, every pointer there is.
ScanComplete ==
    /\ pc = "scan" => frontier = scan \cup counted /\ scan \cap counted = {}
    /\ pc = "scan" /\ goal = "pointer" => cur \notin frontier

\* A dispatch that has no pointer any more, or was settled without one, is
\* over at the instant of this tick and of all later ones.
OverForGood ==
    /\ tnow <= clock
    /\ frontier \subseteq published /\ published \subseteq outboxes
    /\ \A d \in Dispatches :
         /\ d \in published /\ d \notin frontier => Retired(d)
         /\ d \in claims /\ d \notin published /\ d \notin Pending => Retired(d)
    /\ Writing /\ mode = "fresh" /\ pc \in {"claim", "outbox"} =>
         cur \notin published
    /\ pc = "point" /\ verdict = "active" /\ cur \notin frontier => cur \notin published
    /\ pc = "point" /\ verdict = "active" /\ mode \in {"resume", "settle"} =>
         cur \in frontier
    /\ pc = "scan" /\ goal = "pointer" =>
         Launching /\ cur \notin published /\ verdict = "active"
    /\ pc \in {"point", "terminalize"} =>
         verdict = "active" \/ (verdict = "ended" /\ Retired(cur))

(***************************************************************************)
(* What every reachable state of the chain satisfies, between any two      *)
(* writes of a tick.                                                       *)
(***************************************************************************)
ChainInv ==
    /\ ChainComplete
    /\ InHand
    /\ IntentsKnown
    /\ ScanComplete
    /\ OverForGood
    /\ UnionBounded

-----------------------------------------------------------------------------

(***************************************************************************)
(* A tick that died half way is made good: every pending intent is         *)
(* eventually gone, its outbox is permanent, and its pointer has appeared  *)
(* unless the dispatch ended first.                                        *)
(***************************************************************************)
IntentsSettle ==
    \A d \in Dispatches :
        intent[d] = "pending" ~>
            /\ intent[d] = "none"
            /\ d \in outboxes
            /\ d \in published \/ Terminal(d) \/ Expiry[d] <= clock

(***************************************************************************)
(* The pointer of a dispatch that has its result, or whose time is over,   *)
(* is eventually removed, whatever the other dispatches do (the sweep of   *)
(* reconcile_gpu_launch_frontiers on every tick).                          *)
(***************************************************************************)
PointersRetire ==
    \A d \in Dispatches :
        d \in frontier /\ (Terminal(d) \/ Expiry[d] <= clock) ~> d \notin frontier
=============================================================================
