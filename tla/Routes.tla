------------------------------- MODULE Routes -------------------------------
(***************************************************************************)
(* Route publication.  Operators prepare route manifests on top of the     *)
(* live route, publish them (objects first, then a commit, then the live   *)
(* pointer by compare-and-swap), and a gateway polls the pointer and       *)
(* replaces the policy it serves.                                          *)
(*                                                                         *)
(* A route is its manifest, and its revision the digest of it: manifests   *)
(* that are equal are one route.  What names a route or none is a set of   *)
(* at most one.  Signing is outside the program.                           *)
(*                                                                         *)
(* Source: crates/milk-carton/src/records.rs, publish_route and            *)
(* activate_route; main.rs, PrepareRouteProposal, PublishRoute and         *)
(* refresh_live_route; route.rs, RoutePublication and RoutePolicy.         *)
(***************************************************************************)
EXTENDS Integers, Sequences, FiniteSets

CONSTANTS
    Operators,      \* how many publications run at a time
    Proposals,      \* proposals that the harness stored
    Qualified,      \* those whose evidence qualifies the candidate
    Keys,           \* candidate API keys that routes are prepared for
    Credentials,    \* candidate API keys a gateway is started with
    CandidateSpan,  \* OPERATOR_CANDIDATE_VALID_FOR_SECONDS
    ZeroSpan,       \* OPERATOR_ZERO_VALID_FOR_SECONDS
    StartDelay,     \* MAX_PUBLICATION_START_DELAY_MINUTES
    Lag,            \* how far the clock of the gateway is behind
    MaxRoutes, MaxTime, MaxFaults    \* bounds: manifests, clock, faults

ASSUME RoutesAssumption ==
    /\ Qualified \subseteq Proposals /\ Qualified # {}
    /\ 0 \notin Keys \cup Credentials
    /\ CandidateSpan \in Nat /\ ZeroSpan \in Nat /\ StartDelay \in Nat /\ Lag \in Nat
    /\ MaxRoutes \in Nat /\ MaxTime \in Nat /\ MaxFaults \in Nat

VARIABLES
    proposed,   \* the proposal that is current, for the harness
    manifests,  \* the manifests that were prepared
    objects,    \* the route objects that are stored
    live,       \* the route of the live pointer, if it is there
    sent,       \* routes whose conditional put of the pointer is on its way
    op,         \* the publications under way, and the part each puts next
    history,    \* history: the routes that were live, in order
    policy,     \* the route the gateway serves, none at baseline
    expiry,     \* when its candidate stops, 0 when it has none
    key,        \* the candidate key the gateway was started with, 0 without
    poll,       \* what the poller of the gateway is doing
    now, faults

store   == <<proposed, manifests, objects, live, sent, history>>
gateway == <<policy, expiry, key, poll>>
vars    == <<store, op, gateway, now, faults>>

-----------------------------------------------------------------------------

Idle    == [step |-> "idle"]
Parts   == <<"content", "commit">>
Zero(r) == r.key = 0
Span(k) == IF k = 0 THEN ZeroSpan ELSE CandidateSpan

\* load_verified_route_commit: the objects of the route, where the manifest
\* and its signature are one content.
Committed(r) == \A i \in DOMAIN Parts : <<r, Parts[i]>> \in objects

\* verify_operator_route_preflight: the summary, the readiness, the eval, its
\* validation and the score that a proposal names agree with it and pass.
Qualifies(p) == p \in Qualified

\* A candidate needs a proposal that is current and qualifies, a zero route
\* one that is stored.
Preflight(r) == ~Zero(r) => r.proposal = proposed /\ Qualifies(r.proposal)

\* A zero route turns off the candidate of its own proposal; the same check
\* is made when it is prepared and in its lineage.
Lineage(r) ==
    /\ \A q \in r.prev : Committed(q)
    /\ Zero(r) => \E q \in r.prev : ~Zero(q) /\ q.proposal = r.proposal

Init ==
    /\ proposed = CHOOSE p \in Qualified : TRUE
    /\ manifests = {} /\ objects = {} /\ live = {} /\ sent = {} /\ history = <<>>
    /\ op = {}
    /\ policy = {} /\ expiry = 0 /\ key \in Credentials \cup {0} /\ poll = Idle
    /\ now = 0 /\ faults = 0

-----------------------------------------------------------------------------
(* Operators                                                               *)

\* prepare-route-proposal: a manifest on top of the live route, for the
\* candidate of a proposal and the key of the operator, or for its zero.
Prepare(p, k) ==
    LET m == [proposal |-> p, key |-> k, prev |-> live, from |-> now,
              until |-> now + Span(k)]
    IN  /\ Preflight(m) /\ Lineage(m)
        /\ m \notin manifests /\ Cardinality(manifests) < MaxRoutes
        /\ manifests' = manifests \cup {m}
        /\ UNCHANGED <<proposed, objects, live, sent, history, op, gateway, now, faults>>

\* publish-route verifies a signed manifest and the lineage it names.  Two
\* processes at one step of one route go on as one.
Publish(r) ==
    /\ Cardinality(op) < Operators
    /\ now < r.until /\ r.from <= now + StartDelay /\ r.until - r.from = Span(r.key)
    /\ Preflight(r) /\ Lineage(r)
    /\ op' = op \cup {[rev |-> r, part |-> 1]}
    /\ UNCHANGED <<store, gateway, now, faults>>

\* A variant that stores the commit when the pointer is there.
PutPartLast(o) ==
    /\ o.part <= Len(Parts)
    /\ objects' = objects \cup {<<o.rev, Parts[o.part]>>}
    /\ op' = (op \ {o}) \cup {[o EXCEPT !.part = Len(Parts) + 1]}
    /\ UNCHANGED <<proposed, manifests, live, sent, history, gateway, now, faults>>

\* put_create_same: the same bytes may be there already.
PutPart(o) ==
    /\ o.part <= Len(Parts)
    /\ objects' = objects \cup {<<o.rev, Parts[o.part]>>}
    /\ op' = (op \ {o}) \cup {[o EXCEPT !.part = @ + 1]}
    /\ UNCHANGED <<proposed, manifests, live, sent, history, gateway, now, faults>>

\* activate_route reads the pointer: the route is live already, or it sends a
\* put that replaces the predecessor the route names, or it fails.  Whatever
\* becomes of the put, the process only reads on: it reports the route when it
\* finds it live, and fails when it does not, or at its deadline.
Activate(o) ==
    /\ o.part > Len(Parts)
    /\ sent' = IF live = o.rev.prev THEN sent \cup {o.rev} ELSE sent
    /\ op' = op \ {o}
    /\ UNCHANGED <<proposed, manifests, objects, live, history, gateway, now, faults>>

\* A variant that replaces whatever pointer is there.
LandOverwrite(r) ==
    /\ r \in sent /\ sent' = sent \ {r}
    /\ live' = {r} /\ history' = Append(history, r)
    /\ UNCHANGED <<proposed, manifests, objects, op, gateway, now, faults>>

\* The store applies a put, at any time, to the pointer it was sent for, and
\* refuses it otherwise.
Land(r) ==
    /\ r \in sent /\ sent' = sent \ {r}
    /\ IF live = r.prev THEN live' = {r} /\ history' = Append(history, r)
       ELSE UNCHANGED <<live, history>>
    /\ UNCHANGED <<proposed, manifests, objects, op, gateway, now, faults>>

\* A put is lost.
Lose(r) ==
    /\ r \in sent /\ sent' = sent \ {r}
    /\ UNCHANGED <<proposed, manifests, objects, live, history, op, gateway, now, faults>>

\* The process dies or fails.
GiveUp(o) ==
    /\ faults < MaxFaults /\ faults' = faults + 1
    /\ op' = op \ {o}
    /\ UNCHANGED <<store, gateway, now>>

-----------------------------------------------------------------------------
(* The gateway                                                             *)

\* refresh_live_route takes the time before it loads anything.
StartPoll ==
    /\ poll = Idle
    /\ poll' = [step |-> "load", at |-> now - Lag]
    /\ UNCHANGED <<store, op, policy, expiry, key, now, faults>>

\* load_live_route, and nothing to do for the revision that is served.
LoadLive ==
    /\ poll.step = "load"
    /\ poll' = IF live \in {{}, policy} \/ \E r \in live : ~Committed(r) THEN Idle
               ELSE [step |-> "install", at |-> poll.at, rev |-> CHOOSE r \in live : TRUE]
    /\ UNCHANGED <<store, op, policy, expiry, key, now, faults>>

\* A variant that checks the credential of every route.
InstallChecked ==
    /\ poll.step = "install"
    /\ LET m == poll.rev
           dormant == poll.at >= m.until \/ poll.at < m.from \/ m.key = 0 \/ key = 0
       IN  IF key # 0 /\ key # m.key THEN UNCHANGED <<policy, expiry>>
           ELSE policy' = {m} /\ expiry' = IF dormant THEN 0 ELSE now + m.until - poll.at
    /\ poll' = Idle
    /\ UNCHANGED <<store, op, key, now, faults>>

\* A variant that keeps the deadline of the candidate before a dormant route.
InstallKeeping ==
    /\ poll.step = "install"
    /\ LET m == poll.rev
           dormant == poll.at >= m.until \/ poll.at < m.from \/ m.key = 0 \/ key = 0
       IN  IF ~dormant /\ key # m.key THEN UNCHANGED <<policy, expiry>>
           ELSE policy' = {m} /\ expiry' = IF dormant THEN expiry ELSE now + m.until - poll.at
    /\ poll' = Idle
    /\ UNCHANGED <<store, op, key, now, faults>>

\* RoutePolicy::from_signed_bytes, and replace_route_runtime.  A route that
\* is over, has not begun, is zero, or finds no key, is dormant.  A route for
\* another key is an error: the gateway keeps the policy it has.  The time
\* that is left counts from the install, the poll took it at its start.
Install ==
    /\ poll.step = "install"
    /\ LET m == poll.rev
           dormant == poll.at >= m.until \/ poll.at < m.from \/ m.key = 0 \/ key = 0
       IN  IF ~dormant /\ key # m.key THEN UNCHANGED <<policy, expiry>>
           ELSE policy' = {m} /\ expiry' = IF dormant THEN 0 ELSE now + m.until - poll.at
    /\ poll' = Idle
    /\ UNCHANGED <<store, op, key, now, faults>>

\* The store fails the poller.
PollFails ==
    /\ poll # Idle /\ faults < MaxFaults /\ faults' = faults + 1
    /\ poll' = Idle
    /\ UNCHANGED <<store, op, policy, expiry, key, now>>

\* The gateway is started again, at baseline and with the key it is given;
\* it refreshes before it listens.
Restart(k) ==
    /\ faults < MaxFaults /\ faults' = faults + 1
    /\ policy' = {} /\ expiry' = 0 /\ key' = k
    /\ poll' = [step |-> "load", at |-> now - Lag]
    /\ UNCHANGED <<store, op, now>>

\* The harness makes another proposal the current one.
Supersede(p) ==
    /\ p # proposed /\ faults < MaxFaults /\ faults' = faults + 1
    /\ proposed' = p
    /\ UNCHANGED <<manifests, objects, live, sent, history, op, gateway, now>>

Advance ==
    /\ now < MaxTime /\ now' = now + 1
    /\ UNCHANGED <<store, op, gateway, faults>>

-----------------------------------------------------------------------------

PollStep == StartPoll \/ LoadLive \/ Install

Next ==
    \/ \E p \in Proposals, k \in Keys \cup {0} : Prepare(p, k)
    \/ \E r \in manifests : Publish(r)
    \/ \E o \in op : PutPart(o) \/ Activate(o) \/ GiveUp(o)
    \/ \E r \in sent : Land(r) \/ Lose(r)
    \/ PollStep \/ PollFails \/ Advance
    \/ \E p \in Proposals : Supersede(p)
    \/ \E k \in Credentials \cup {0} : Restart(k)

Spec == Init /\ [][Next]_vars

\* The poller goes on.
FairSpec == Spec /\ WF_vars(PollStep)

-----------------------------------------------------------------------------
(* Properties                                                              *)

TypeOK ==
    /\ proposed \in Proposals
    /\ \A r \in manifests :
          /\ r.proposal \in Proposals /\ r.key \in Keys \cup {0}
          /\ r.from \in Nat /\ r.until \in Nat
    /\ objects \subseteq manifests \X {Parts[i] : i \in DOMAIN Parts}
    /\ live \subseteq manifests /\ policy \subseteq manifests
    /\ sent \subseteq manifests /\ history \in Seq(manifests)
    /\ op \subseteq [rev : manifests, part : 1 .. Len(Parts) + 1]
    /\ expiry \in Nat /\ key \in Credentials \cup {0}
    /\ poll \in {Idle} \cup [step : {"load"}, at : Int]
                       \cup [step : {"install"}, at : Int, rev : manifests]
    /\ now \in Nat /\ faults \in Nat

\* The routes that were live form a line: each was put over the one that its
\* signed manifest names, the first over none, no route was put over twice,
\* and a zero route follows the candidate of its own proposal.
LineOfRoutes ==
    /\ \A i \in DOMAIN history :
          LET r == history[i]
          IN  /\ r.prev = IF i = 1 THEN {} ELSE {history[i - 1]}
              /\ Zero(r) => \E q \in r.prev : ~Zero(q) /\ q.proposal = r.proposal
    /\ \A i, j \in DOMAIN history : i # j => history[i].prev # history[j].prev
    /\ live = IF history = <<>> THEN {} ELSE {history[Len(history)]}

\* A pointer never names a route whose objects are not all there, wherever
\* the publications of it died; and its predecessors stay readable.
LiveComplete == \A i \in DOMAIN history : Committed(history[i])

\* Requests go to a candidate only for the route that the gateway serves, one
\* that was live and is not zero, with the credential it was admitted with,
\* whatever routes and restarts came in between.
Serving == expiry # 0 /\ now < expiry

ServedOnPurpose ==
    Serving => \E i \in DOMAIN history : policy = {history[i]} /\ ~Zero(history[i]) /\ history[i].key = key

\* A zero route takes effect whatever key the gateway has: the candidate gets
\* no more requests, unless another route becomes live.
ZeroLive == \E r \in live : Zero(r)

ZeroTakesEffect == ZeroLive ~> (~Serving \/ ~ZeroLive)

=============================================================================
