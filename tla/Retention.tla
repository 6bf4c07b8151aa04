----------------------------- MODULE Retention -----------------------------
(***************************************************************************)
(* Retention of captured traces and of their outcomes in the capture       *)
(* store.  The gateway stores a source (a trace or an outcome) behind an   *)
(* expiry marker that names its exact bytes and the instant it is due; the *)
(* tick buries due sources under a tombstone and, a grace period later,    *)
(* deletes them.  A tick with nothing to expire may claim a stored trace   *)
(* for a teacher, which takes its snapshot frontier away.  Gateway and     *)
(* tick are different processes that share nothing but the objects, so     *)
(* they interleave at every store operation, and either may die or be      *)
(* cancelled between two of them.                                          *)
(*                                                                         *)
(* Source: crates/milk-carton/src/records.rs (persist_event,               *)
(* persist_outcome, write_expiry_marker, expire_due,                       *)
(* persist_teacher_claim and their helpers) and main.rs (the outcome       *)
(* handler and its storage timeout).                                       *)
(***************************************************************************)
EXTENDS Integers, FiniteSets

CONSTANTS
    Writers,     \* gateway requests that store a source
    Sources,     \* traces and outcomes, each with one object key
    Traces,      \* those that are traces
    SourceOf,    \* the source each writer stores
    TraceOf,     \* the trace an outcome belongs to
    Keep,        \* retention, from the start of a write to the due instant
    Span,        \* the longest a write may take
    Grace,       \* RETENTION_DELETE_GRACE
    BatchLimit,  \* MAX_EXPIRY_BATCH
    LastStart,   \* bound: no write starts after this instant
    MaxTime,     \* bound on the clock
    MaxFaults,   \* bound on writes cancelled and ticks that die
    Nothing      \* no object, no tombstone, no marker in hand

ASSUME SourcesAssumption ==
    /\ Traces \subseteq Sources
    /\ SourceOf \in [Writers -> Sources]
    /\ TraceOf \in [Sources -> Traces]

\* The gateway gives every request a trace id of its own.
ASSUME TraceIdsAssumption ==
    \A v, w \in Writers :
        SourceOf[v] = SourceOf[w] /\ SourceOf[w] \in Traces => v = w

\* The bytes of an object, or what its expiry marker names; a tombstone.
Record    == [source : Sources, due : Nat]
Tombstone == [says : Nat, at : Nat]

ASSUME NothingAssumption == Nothing \notin Record /\ Nothing \notin Tombstone

ASSUME BoundsAssumption ==
    /\ Keep \in Nat /\ Span \in Nat /\ Grace \in Nat /\ BatchLimit \in Nat \ {0}
    /\ LastStart \in Nat /\ MaxTime \in Nat /\ MaxFaults \in Nat

(***************************************************************************)
(* A write takes less than the retention, and less than the grace period   *)
(* that protects the writers that looked before the tombstone appeared.    *)
(***************************************************************************)
ASSUME DurationsAssumption == Span < Keep /\ Span < Grace

VARIABLES
    objects,     \* the bytes stored for each source
    markers,     \* the expiry index
    frontiers,   \* traces with a snapshot frontier
    claimed,     \* traces that a teacher job is stored for
    tombstones,  \* of each source: what it says, and when it was stored
    \* gateway requests
    pc, began,
    \* the tick
    step, tnow, batch, cur,
    \* the world
    clock, faults,
    deleted      \* history: sources the tick has deleted

store  == <<objects, markers, frontiers, claimed, tombstones>>
writes == <<pc, began>>
tick   == <<step, tnow, batch, cur>>
vars   == <<store, writes, tick, clock, faults, deleted>>

-----------------------------------------------------------------------------

\* The bytes of an object are its source and the retention_until it carries.
Bytes(w)  == [source |-> SourceOf[w], due |-> began[w] + Keep]

\* An expiry marker names the source, the due instant and the exact bytes; the
\* bytes carry the due instant, so they say it all.
MarkerOf(w) == Bytes(w)

Tombstoned(s) == tombstones[s] # Nothing

\* ensure_source_live, load_trace: neither the outcome nor its trace is
\* buried, and the trace is there.  A trace only has to be unburied itself.
SourceLive(s) ==
    /\ ~Tombstoned(s) /\ ~Tombstoned(TraceOf[s])
    /\ s \notin Traces => objects[TraceOf[s]] # Nothing

Init ==
    /\ objects = [s \in Sources |-> Nothing]
    /\ markers = {} /\ frontiers = {} /\ claimed = {}
    /\ tombstones = [s \in Sources |-> Nothing]
    /\ pc = [w \in Writers |-> "new"]
    /\ began = [w \in Writers |-> 0]
    /\ step = "idle" /\ tnow = 0 /\ batch = {} /\ cur = Nothing
    /\ clock = 0 /\ faults = 0 /\ deleted = {}

Goto(w, where) == pc' = [pc EXCEPT ![w] = where]

-----------------------------------------------------------------------------
(* The gateway stores a source: marker first, then the object.             *)

\* The liveness check passes and the write begins.
Begin(w) ==
    /\ pc[w] = "new" /\ clock <= LastStart
    /\ SourceLive(SourceOf[w])
    /\ began' = [began EXCEPT ![w] = clock]
    /\ Goto(w, IF SourceOf[w] \in Traces THEN "frontier" ELSE "look")
    /\ UNCHANGED <<store, tick, clock, faults, deleted>>

\* The source is buried, or the trace of the outcome is not there.
Refuse(w) ==
    /\ pc[w] = "new"
    /\ ~SourceLive(SourceOf[w])
    /\ Goto(w, "refused")
    /\ UNCHANGED <<store, began, tick, clock, faults, deleted>>

PutFrontier(w) ==
    /\ pc[w] = "frontier"
    /\ frontiers' = frontiers \cup {SourceOf[w]}
    /\ Goto(w, "marker")
    /\ UNCHANGED <<objects, markers, claimed, tombstones, began, tick, clock, faults, deleted>>

\* An outcome that is stored already is compared, not stored again.
Look(w) ==
    /\ pc[w] = "look"
    /\ Goto(w, IF objects[SourceOf[w]] = Nothing THEN "marker" ELSE "compared")
    /\ UNCHANGED <<store, began, tick, clock, faults, deleted>>

\* write_expiry_marker.
PutMarker(w) ==
    /\ pc[w] = "marker"
    /\ markers' = markers \cup {MarkerOf(w)}
    /\ Goto(w, "object")
    /\ UNCHANGED <<objects, frontiers, claimed, tombstones, began, tick, clock, faults, deleted>>

\* The object is created ...
PutObject(w) ==
    /\ pc[w] = "object" /\ objects[SourceOf[w]] = Nothing
    /\ objects' = [objects EXCEPT ![SourceOf[w]] = Bytes(w)]
    /\ Goto(w, "recheck")
    /\ UNCHANGED <<markers, frontiers, claimed, tombstones, began, tick, clock, faults, deleted>>

\* A loser that takes the marker it shares with the winner for its own.
ObjectSameUnmarks(w) ==
    /\ pc[w] = "object" /\ objects[SourceOf[w]] = Bytes(w)
    /\ Goto(w, IF SourceOf[w] \in Traces THEN "recheck" ELSE "unmark")
    /\ UNCHANGED <<store, began, tick, clock, faults, deleted>>

\* ... or was created by another request, with the same bytes ...
ObjectSame(w) ==
    /\ pc[w] = "object" /\ objects[SourceOf[w]] = Bytes(w)
    /\ Goto(w, IF SourceOf[w] \in Traces THEN "recheck" ELSE "compared")
    /\ UNCHANGED <<store, began, tick, clock, faults, deleted>>

\* ... or with others, and then the marker of this request is one too many.
ObjectDiffers(w) ==
    /\ pc[w] = "object" /\ objects[SourceOf[w]] \notin {Nothing, Bytes(w)}
    /\ Goto(w, IF SourceOf[w] \in Traces THEN "failed" ELSE "unmark")
    /\ UNCHANGED <<store, began, tick, clock, faults, deleted>>

DropOwnMarker(w) ==
    /\ pc[w] = "unmark"
    /\ markers' = markers \ {MarkerOf(w)}
    /\ Goto(w, "compared")
    /\ UNCHANGED <<objects, frontiers, claimed, tombstones, began, tick, clock, faults, deleted>>

\* The answer: stored (or compared) while the source was not buried.
Finish(w) ==
    /\ pc[w] \in {"recheck", "compared"}
    /\ Goto(w, IF Tombstoned(SourceOf[w]) \/ Tombstoned(TraceOf[SourceOf[w]])
               THEN "failed" ELSE "stored")
    /\ UNCHANGED <<store, began, tick, clock, faults, deleted>>

Writing(w) == pc[w] \notin {"new", "stored", "refused", "failed"}

\* The storage timeout, a store error or a crash ends a write where it is.
Cancel(w) ==
    /\ Writing(w) /\ faults < MaxFaults
    /\ Goto(w, "failed")
    /\ faults' = faults + 1
    /\ UNCHANGED <<store, began, tick, clock, deleted>>

-----------------------------------------------------------------------------
(* expire_due: the first thing a tick does after the launch frontiers.     *)

\* load_due_expiry_markers: the index is listed latest due first, up to the
\* limit.
DueBatch(now) ==
    LET due == {m \in markers : m.due <= now}
    IN {b \in SUBSET due :
          /\ Cardinality(b) <= BatchLimit
          /\ Cardinality(b) = BatchLimit \/ b = due
          /\ \A m \in b, n \in due \ b : n.due <= m.due}

StartExpiry ==
    /\ step = "idle"
    /\ tnow' = clock
    /\ batch' \in DueBatch(clock) /\ batch' # {}
    /\ step' = "next"
    /\ UNCHANGED <<store, writes, cur, clock, faults, deleted>>

\* The batch is visited in the order of the due instants; the marker's
\* tombstone is created, or is there already and says the same.
Bury(m) ==
    /\ step = "next" /\ m \in batch
    /\ \A n \in batch : m.due <= n.due
    /\ IF ~Tombstoned(m.source)
       THEN tombstones' = [tombstones EXCEPT ![m.source] =
                              [says |-> m.due, at |-> clock]]
       ELSE tombstones[m.source].says = m.due /\ UNCHANGED tombstones
    /\ cur' = m
    /\ step' = "read"
    /\ UNCHANGED <<objects, markers, frontiers, claimed, writes, tnow, batch, clock,
                   faults, deleted>>

\* The tombstone there says something else: the tick fails.
BuryCollides(m) ==
    /\ step = "next" /\ m \in batch
    /\ \A n \in batch : m.due <= n.due
    /\ Tombstoned(m.source) /\ tombstones[m.source].says # m.due
    /\ step' = "idle"
    /\ UNCHANGED <<store, writes, tnow, batch, cur, clock, faults, deleted>>

\* There is no object: the frontier and the marker go.
ReadMissing ==
    /\ step = "read" /\ objects[cur.source] = Nothing
    /\ frontiers' = frontiers \ {cur.source}
    /\ step' = "lost"
    /\ UNCHANGED <<objects, markers, claimed, tombstones, writes, tnow, batch, cur, clock,
                   faults, deleted>>

\* A lost source is reported, and its marker left in the index.
DropLostMarkerReport ==
    /\ step = "lost"
    /\ batch' = batch \ {cur}
    /\ step' = "next"
    /\ UNCHANGED <<store, writes, tnow, cur, clock, faults, deleted>>

DropLostMarker ==
    /\ step = "lost"
    /\ markers' = markers \ {cur}
    /\ batch' = batch \ {cur}
    /\ step' = "next"
    /\ UNCHANGED <<objects, frontiers, claimed, tombstones, writes, tnow, cur, clock,
                   faults, deleted>>

\* The object is not the one the marker names: the tick fails.
ReadDiffers ==
    /\ step = "read" /\ objects[cur.source] \notin {Nothing, cur}
    /\ step' = "idle"
    /\ UNCHANGED <<store, writes, tnow, batch, cur, clock, faults, deleted>>

\* The tombstone is too young.
Defer ==
    /\ step = "read" /\ objects[cur.source] = cur
    /\ tombstones[cur.source].at + Grace > tnow
    /\ batch' = batch \ {cur}
    /\ step' = "next"
    /\ UNCHANGED <<store, writes, tnow, cur, clock, faults, deleted>>

\* A deletion that does not wait for the grace period.
DeleteObjectAtOnce ==
    /\ step = "read" /\ objects[cur.source] = cur
    /\ objects' = [objects EXCEPT ![cur.source] = Nothing]
    /\ deleted' = deleted \cup {cur.source}
    /\ step' = "gone"
    /\ UNCHANGED <<markers, frontiers, claimed, tombstones, writes, tnow, batch, cur, clock,
                   faults>>

\* A deletion that does not compare the digest of what it deletes.
DeleteObjectUnchecked ==
    /\ step = "read" /\ objects[cur.source] # Nothing
    /\ tombstones[cur.source].at + Grace <= tnow
    /\ objects' = [objects EXCEPT ![cur.source] = Nothing]
    /\ deleted' = deleted \cup {cur.source}
    /\ step' = "gone"
    /\ UNCHANGED <<markers, frontiers, claimed, tombstones, writes, tnow, batch, cur, clock,
                   faults>>

\* The tombstone is old enough.
DeleteObject ==
    /\ step = "read" /\ objects[cur.source] = cur
    /\ tombstones[cur.source].at + Grace <= tnow
    /\ objects' = [objects EXCEPT ![cur.source] = Nothing]
    /\ deleted' = deleted \cup {cur.source}
    /\ step' = "gone"
    /\ UNCHANGED <<markers, frontiers, claimed, tombstones, writes, tnow, batch, cur, clock,
                   faults>>

\* The object is still gone (DeletedForGood: the tick that would find it back
\* fails), and so goes its marker.
DeleteMarker ==
    /\ step = "gone" /\ objects[cur.source] = Nothing
    /\ markers' = markers \ {cur}
    /\ batch' = batch \ {cur}
    /\ step' = IF cur.source \in Traces THEN "frontier" ELSE "next"
    /\ UNCHANGED <<objects, frontiers, claimed, tombstones, writes, tnow, cur, clock,
                   faults, deleted>>

DeleteFrontier ==
    /\ step = "frontier"
    /\ frontiers' = frontiers \ {cur.source}
    /\ step' = "next"
    /\ UNCHANGED <<objects, markers, claimed, tombstones, writes, tnow, batch, cur, clock,
                   faults, deleted>>

EndExpiry ==
    /\ step = "next" /\ batch = {}
    /\ step' = "idle"
    /\ UNCHANGED <<store, writes, tnow, batch, cur, clock, faults, deleted>>

-----------------------------------------------------------------------------
(* persist_teacher_claim, in a tick that had nothing to expire.            *)

\* A claim that lets the frontier go before there is a job.
StartClaimHastily(s) ==
    /\ step = "idle" /\ \A m \in markers : m.due > clock
    /\ objects[s] # Nothing /\ objects[s].due > clock /\ ~Tombstoned(s)
    /\ cur' = objects[s] /\ frontiers' = frontiers \ {s}
    /\ step' = "claim"
    /\ UNCHANGED <<objects, markers, claimed, tombstones, writes, tnow, batch, clock,
                   faults, deleted>>

\* A stored trace is chosen for a teacher.  It is neither buried nor due at
\* the instant of this tick, which nothing else in the claim looks at.
StartClaim(s) ==
    /\ step = "idle" /\ \A m \in markers : m.due > clock
    /\ objects[s] # Nothing /\ objects[s].due > clock /\ ~Tombstoned(s)
    /\ cur' = objects[s]
    /\ step' = "claim"
    /\ UNCHANGED <<store, writes, tnow, batch, clock, faults, deleted>>

\* The teacher job is stored: first its index, from which a later tick
\* restores the rest.
PutClaim ==
    /\ step = "claim"
    /\ claimed' = claimed \cup {cur.source}
    /\ step' = "claimed"
    /\ UNCHANGED <<objects, markers, frontiers, tombstones, writes, tnow, batch,
                   cur, clock, faults, deleted>>

\* delete_snapshot_frontier: the trace stays, its frontier goes.
DropClaimedFrontier ==
    /\ step = "claimed"
    /\ frontiers' = frontiers \ {cur.source}
    /\ cur' = Nothing
    /\ step' = "idle"
    /\ UNCHANGED <<objects, markers, claimed, tombstones, writes, tnow, batch, clock,
                   faults, deleted>>

-----------------------------------------------------------------------------

\* The tick times out, fails or dies.
Crash ==
    /\ step # "idle" /\ faults < MaxFaults
    /\ step' = "idle"
    /\ faults' = faults + 1
    /\ UNCHANGED <<store, writes, tnow, batch, cur, clock, deleted>>

-----------------------------------------------------------------------------

WriteStep(w) ==
    \/ Begin(w) \/ Refuse(w) \/ PutFrontier(w) \/ Look(w) \/ PutMarker(w)
    \/ PutObject(w) \/ ObjectSame(w) \/ ObjectDiffers(w) \/ DropOwnMarker(w)
    \/ Finish(w)

TickStep ==
    \/ StartExpiry \/ ReadMissing \/ DropLostMarker \/ ReadDiffers \/ Defer
    \/ DeleteObject \/ DeleteMarker \/ DeleteFrontier \/ EndExpiry
    \/ \E m \in batch : Bury(m) \/ BuryCollides(m)
    \/ \E s \in Traces : StartClaim(s)
    \/ PutClaim \/ DropClaimedFrontier

\* Time passes, but no write outlives its timeout.
Advance ==
    /\ clock < MaxTime
    /\ \A w \in Writers : Writing(w) => clock < began[w] + Span
    /\ clock' = clock + 1
    /\ UNCHANGED <<store, writes, tick, faults, deleted>>

Next ==
    \/ TickStep \/ Crash \/ Advance
    \/ \E w \in Writers : WriteStep(w) \/ Cancel(w)

Spec == Init /\ [][Next]_vars

(***************************************************************************)
(* Every write ends (its storage timeout sees to that), ticks are invoked  *)
(* again and again, and time passes.                                       *)
(***************************************************************************)
Fairness ==
    /\ WF_vars(TickStep) /\ WF_vars(Advance)
    /\ \A w \in Writers : WF_vars(WriteStep(w))

FairSpec == Spec /\ Fairness

-----------------------------------------------------------------------------
(* Properties.                                                             *)

\* Every variable has its type.
TypeOK ==
    /\ objects \in [Sources -> Record \cup {Nothing}]
    /\ \A s \in Sources : objects[s] # Nothing => objects[s].source = s
    /\ markers \subseteq Record /\ batch \subseteq Record
    /\ frontiers \subseteq Traces /\ claimed \subseteq Traces /\ deleted \subseteq Sources
    /\ tombstones \in [Sources -> Tombstone \cup {Nothing}]
    /\ pc \in [Writers -> {"new", "frontier", "look", "marker", "object",
                           "recheck", "unmark", "compared", "stored", "refused",
                           "failed"}]
    /\ \A w \in Writers : pc[w] = "frontier" => SourceOf[w] \in Traces
    /\ began \in [Writers -> Nat]
    /\ step \in {"idle", "next", "read", "lost", "gone", "frontier", "claim", "claimed"}
    /\ tnow \in Nat /\ clock \in Nat /\ faults \in Nat
    /\ cur \in Record \cup {Nothing}
    /\ step \notin {"idle", "next"} => cur # Nothing
    /\ step \in {"claim", "claimed"} => cur.source \in Traces

(***************************************************************************)
(* Whatever is stored will be found again: an object always has its own    *)
(* marker in the expiry index, and a trace that has lost its frontier was  *)
(* claimed for a teacher, through concurrent submissions of the same       *)
(* outcome, cancelled writes and ticks that die (persist_event and         *)
(* persist_outcome put marker and frontier first, expire_due deletes the   *)
(* marker last, persist_teacher_claim stores the job before it deletes the *)
(* frontier).                                                              *)
(***************************************************************************)
SourcesIndexed ==
    \A s \in Sources : objects[s] # Nothing =>
        /\ objects[s] \in markers
        /\ s \in Traces => s \in frontiers \cup claimed

(***************************************************************************)
(* A stored source never changes, and is not deleted before its own        *)
(* retention and then the grace period have passed, whatever markers other *)
(* submissions left in the index (the digest check of expire_due).         *)
(***************************************************************************)
KeptUntilDue ==
    [][\A s \in Sources : objects[s] # Nothing =>
          \/ objects'[s] = objects[s]
          \/ objects'[s] = Nothing /\ objects[s].due + Grace <= clock]_vars

(***************************************************************************)
(* A deleted source is never stored again: not by a write that looked      *)
(* before the tombstone appeared, and not by a later one (the permanent    *)
(* tombstone and RETENTION_DELETE_GRACE).                                  *)
(***************************************************************************)
DeletedForGood == \A s \in deleted : objects[s] = Nothing

(***************************************************************************)
(* The facts behind these three.  A write in progress is younger than its  *)
(* timeout, began before the tombstone of its source, and has stored what  *)
(* it must have stored before its object.                                  *)
(***************************************************************************)
WriterInv(w) ==
    /\ began[w] <= clock
    /\ Writing(w) =>
         /\ clock <= began[w] + Span
         /\ Tombstoned(SourceOf[w]) => began[w] <= tombstones[SourceOf[w]].at
         /\ SourceOf[w] \in Traces /\ pc[w] # "frontier" => SourceOf[w] \in frontiers \cup claimed
    /\ pc[w] = "object" =>
         \/ MarkerOf(w) \in markers
         \/ objects[SourceOf[w]] \notin {Nothing, Bytes(w)}
    /\ pc[w] = "unmark" => objects[SourceOf[w]] \notin {Nothing, Bytes(w)}

\* A marker was written by a request that has begun.
Owned(m) == \E w \in Writers : pc[w] # "new" /\ m = MarkerOf(w)

Visiting == step \in {"read", "lost", "gone", "frontier"}

\* The tick visits due markers only, and behind their own tombstone.
TickInv ==
    /\ tnow <= clock
    /\ \A m \in batch : m.due <= tnow
    /\ \A m \in markers \cup batch : Owned(m)
    /\ Visiting =>
         /\ cur.due <= tnow /\ Owned(cur)
         /\ Tombstoned(cur.source) /\ tombstones[cur.source].says = cur.due
    /\ step = "lost" => objects[cur.source] # cur
    /\ step \in {"gone", "frontier"} => cur.source \in deleted
    /\ step = "claimed" => cur.source \in claimed

\* A tombstone is not older than what it says; a deletion waited for it.
TombstoneInv ==
    /\ \A s \in Sources : Tombstoned(s) =>
         /\ tombstones[s].says <= tombstones[s].at
         /\ tombstones[s].at <= clock
    /\ \A s \in deleted : Tombstoned(s) /\ tombstones[s].at + Grace <= clock

(***************************************************************************)
(* What every reachable state satisfies, between any two store operations  *)
(* of the gateway's writes and of the tick.                                *)
(***************************************************************************)
RetentionInv ==
    /\ SourcesIndexed
    /\ DeletedForGood
    /\ \A w \in Writers : WriterInv(w)
    /\ TickInv
    /\ TombstoneInv

Possible == [source : Sources, due : 0 .. LastStart + Keep]

\* The bound of the model leaves no time for a grace period that has begun.
OutOfTime ==
    \E m \in Possible :
        m \in markers /\ Tombstoned(m.source) /\ tombstones[m.source].at + Grace > MaxTime

\* A tick that reaches m fails: m does not describe the object it names, or
\* the tombstone was written for another marker.
Stuck(m) ==
    /\ m \in markers /\ m.due <= clock
    /\ \/ objects[m.source] \notin {Nothing, m}
       \/ Tombstoned(m.source) /\ tombstones[m.source].says # m.due

(***************************************************************************)
(* Every marker is worked off, with the object it names, unless a due      *)
(* marker that fits no object makes the ticks fail: crashes of a tick      *)
(* between any two deletions are made good.                                *)
(***************************************************************************)
DueExpires ==
    \A m \in Possible :
        m \in markers ~>
            \/ m \notin markers /\ objects[m.source] # m
            \/ OutOfTime
            \/ \E n \in Possible : Stuck(n)

(***************************************************************************)
(* Ticks drain the expiry index: every due source is tombstoned and then   *)
(* deleted.  "Repeated ticks drain all admitted work" (README.md); the     *)
(* test retention_expiry_tombstones_then_deletes_the_exact_source shows it *)
(* for one undisturbed write.                                              *)
(***************************************************************************)
ExpiryDrains ==
    \A m \in Possible :
        m \in markers ~>
            \/ m \notin markers /\ objects[m.source] # m
            \/ OutOfTime
=============================================================================
