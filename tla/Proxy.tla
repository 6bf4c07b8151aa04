------------------------------- MODULE Proxy -------------------------------
(***************************************************************************)
(* The request path of the gateway.  A request takes a permit of the       *)
(* gateway, reads its body, holds the route runtime it finds, goes to the  *)
(* candidate of that runtime or to the baseline, falls back to the         *)
(* baseline once, and streams the answer.  The poller replaces the runtime *)
(* under the requests, and clients leave when they like.                   *)
(*                                                                         *)
(* Permits are owned: what a request holds it lets go of when its handler  *)
(* or its response body is dropped.  A step of a handler ends at its next  *)
(* await, or where it reads what other requests write.                     *)
(*                                                                         *)
(* Source: crates/milk-carton/src/main.rs, proxy_openai, UpstreamBody,     *)
(* TraceRecorder and RouteRuntime; route.rs, RoutePolicy::decide.          *)
(***************************************************************************)
EXTENDS Integers, Sequences, FiniteSets

CONSTANTS
    Requests,        \* the requests that come in
    MaxInFlight,     \* max_in_flight of the gateway
    CandidateLimit,  \* candidate_max_in_flight of a runtime
    MaxRuntimes      \* bound: the runtimes that are installed

ASSUME ProxyAssumption ==
    /\ IsFiniteSet(Requests)
    /\ MaxInFlight \in Nat /\ CandidateLimit \in Nat /\ MaxRuntimes \in Nat

VARIABLES
    runtimes,  \* the route runtimes so far: whether one has a candidate
    fuse,      \* the runtimes whose candidate is unhealthy
    req,       \* the requests
    traces     \* the traces that the records were given of each request

vars == <<runtimes, fuse, req, traces>>

-----------------------------------------------------------------------------

Runtimes == DOMAIN runtimes
Current  == Len(runtimes)

New == [pc |-> "new", run |-> 0, target |-> "openai", slot |-> FALSE, route |-> "baseline",
        asked |-> <<>>, sse |-> FALSE, ended |-> FALSE, whole |-> FALSE, reply |-> "none"]

\* The permits that are taken, of the gateway and of the candidate of a runtime.
InFlight    == {q \in Requests : req[q].pc \notin {"new", "done"}}
Slots(r)    == {q \in Requests : req[q].slot /\ req[q].run = r}
At(q, pc)   == req[q].pc = pc
Asks(q)     == At(q, "await") /\ req[q].target = "candidate"

Init ==
    /\ runtimes \in {<<FALSE>>, <<TRUE>>} /\ fuse = {}
    /\ req = [q \in Requests |-> New]
    /\ traces = [q \in Requests |-> <<>>]

\* A variant that gives the catalog again when the body is dropped.
ObserveAgain(q, error) ==
    traces' = [traces EXCEPT ![q] = Append(@, [route |-> req[q].route, error |-> error])]

\* TraceRecorder::finish and finish_before_headers take the catalog of the
\* request, so that it is given to the records once.
Observe(q, error) ==
    traces' = IF traces[q] # <<>> THEN traces
              ELSE [traces EXCEPT ![q] = <<[route |-> req[q].route, error |-> error]>>]

\* The answer is over and what the request holds is dropped.
Done(q, reply) == req' = [req EXCEPT ![q].pc = "done", ![q].slot = FALSE, ![q].reply = reply]

-----------------------------------------------------------------------------
(* The handler                                                             *)

\* No key, or no permit.
Refuse(q) ==
    /\ At(q, "new") /\ Done(q, "local")
    /\ UNCHANGED <<runtimes, fuse, traces>>

Admit(q) ==
    /\ At(q, "new") /\ Cardinality(InFlight) < MaxInFlight
    /\ req' = [req EXCEPT ![q].pc = "read"]
    /\ UNCHANGED <<runtimes, fuse, traces>>

\* The body is too large, broken or late: an error without a route and
\* without a trace.
ReadFails(q) ==
    /\ At(q, "read") /\ Done(q, "local")
    /\ UNCHANGED <<runtimes, fuse, traces>>

\* The body is there.  The request holds on to the runtime it finds, and the
\* policy of the runtime decides.
Decide(q, chosen) ==
    /\ At(q, "read") /\ (chosen => runtimes[Current])
    /\ req' = [req EXCEPT ![q].run = Current,
                          ![q].pc = IF chosen THEN "health" ELSE "send"]
    /\ UNCHANGED <<runtimes, fuse, traces>>

\* The fuse of the candidate is read before a permit of it is taken.
Health(q) ==
    /\ At(q, "health")
    /\ req' = [req EXCEPT ![q] =
          IF req[q].run \in fuse THEN [@ EXCEPT !.pc = "send", !.route = "candidate_unhealthy"]
          ELSE [@ EXCEPT !.pc = "acquire"]]
    /\ UNCHANGED <<runtimes, fuse, traces>>

\* A permit of the candidate, if one is free.
Acquire(q) ==
    /\ At(q, "acquire")
    /\ req' = [req EXCEPT ![q] =
          IF Cardinality(Slots(req[q].run)) >= CandidateLimit
          THEN [@ EXCEPT !.pc = "send", !.route = "candidate_capacity"]
          ELSE [@ EXCEPT !.pc = "send", !.route = "candidate", !.target = "candidate", !.slot = TRUE]]
    /\ UNCHANGED <<runtimes, fuse, traces>>

\* The headers of the request cannot be forwarded.
BadHeaders(q) ==
    /\ At(q, "send") /\ Done(q, req[q].target) /\ Observe(q, "invalid_request_headers")
    /\ UNCHANGED <<runtimes, fuse>>

Send(q) ==
    /\ At(q, "send")
    /\ req' = [req EXCEPT ![q].pc = "await", ![q].asked = Append(@, req[q].target)]
    /\ UNCHANGED <<runtimes, fuse, traces>>

\* A variant that leaves the route of the catalog as it was decided.
FallbackUntold(q) ==
    /\ Asks(q)
    /\ fuse' = fuse \cup {req[q].run}
    /\ req' = [req EXCEPT ![q] = [@ EXCEPT !.pc = "resend", !.slot = FALSE, !.target = "openai"]]
    /\ UNCHANGED <<runtimes, traces>>

\* A variant that opens the fuse of the runtime that is installed.
FallbackCurrent(q) ==
    /\ Asks(q)
    /\ fuse' = fuse \cup {Current}
    /\ req' = [req EXCEPT ![q] = [@ EXCEPT !.pc = "resend", !.slot = FALSE, !.target = "openai",
                                           !.route = "candidate_failure"]]
    /\ UNCHANGED <<runtimes, traces>>

\* A variant that keeps the permit of the candidate.
FallbackHolding(q) ==
    /\ Asks(q)
    /\ fuse' = fuse \cup {req[q].run}
    /\ req' = [req EXCEPT ![q] = [@ EXCEPT !.pc = "resend", !.target = "openai",
                                           !.route = "candidate_failure"]]
    /\ UNCHANGED <<runtimes, traces>>

\* The candidate fails, redirects, or answers with a status of ill health or
\* with headers that cannot be forwarded.  The fuse of its runtime opens, its
\* permit is dropped, and the baseline is tried.
Fallback(q) ==
    /\ Asks(q)
    /\ fuse' = fuse \cup {req[q].run}
    /\ req' = [req EXCEPT ![q] = [@ EXCEPT !.pc = "resend", !.slot = FALSE, !.target = "openai",
                                           !.route = "candidate_failure"]]
    /\ UNCHANGED <<runtimes, traces>>

\* The baseline is asked in the time that the candidate left.
Resend(q) ==
    /\ At(q, "resend")
    /\ req' = [req EXCEPT ![q].pc = "await", ![q].asked = Append(@, req[q].target)]
    /\ UNCHANGED <<runtimes, fuse, traces>>

\* The baseline fails, redirects, or answers with headers that cannot be
\* forwarded; or no time is left to ask it.
BaselineFails(q) ==
    /\ At(q, "resend") \/ (At(q, "await") /\ ~Asks(q))
    /\ Done(q, "openai") /\ Observe(q, "upstream_unavailable")
    /\ UNCHANGED <<runtimes, fuse>>

\* The status and the headers go to the client.
Answer(q, sse) ==
    /\ At(q, "await")
    /\ req' = [req EXCEPT ![q].pc = "stream", ![q].sse = sse, ![q].reply = req[q].target]
    /\ UNCHANGED <<runtimes, fuse, traces>>

-----------------------------------------------------------------------------
(* The body                                                                *)

\* The terminal event of an event stream has passed.
Terminal(q) ==
    /\ At(q, "stream") /\ req[q].sse /\ ~req[q].ended
    /\ req' = [req EXCEPT ![q].ended = TRUE]
    /\ UNCHANGED <<runtimes, fuse, traces>>

\* poll_next ends with an error, or with the end of the body.  The permits
\* are kept until the body is dropped.
StreamFails(q) ==
    /\ At(q, "stream") /\ Observe(q, "stream_error")
    /\ req' = [req EXCEPT ![q].pc = "over"]
    /\ fuse' = IF req[q].target = "candidate" THEN fuse \cup {req[q].run} ELSE fuse
    /\ UNCHANGED runtimes

StreamEnds(q) ==
    /\ At(q, "stream")
    /\ Observe(q, IF req[q].sse /\ ~req[q].ended THEN "upstream_stream_incomplete" ELSE "none")
    /\ req' = [req EXCEPT ![q].pc = "over", ![q].whole = TRUE]
    /\ UNCHANGED <<runtimes, fuse>>

\* A variant in which the recorder is dropped as it is finished at the end.
DropAsEnd(q) ==
    /\ At(q, "stream") \/ At(q, "over")
    /\ Done(q, req[q].reply)
    /\ Observe(q, IF req[q].sse /\ ~req[q].ended THEN "upstream_stream_incomplete" ELSE "none")
    /\ UNCHANGED <<runtimes, fuse>>

\* The body is dropped, at its end or because the client left.
Drop(q) ==
    /\ At(q, "stream") \/ At(q, "over")
    /\ Done(q, req[q].reply)
    /\ Observe(q, IF req[q].ended THEN "none" ELSE "downstream_disconnected")
    /\ UNCHANGED <<runtimes, fuse>>

-----------------------------------------------------------------------------
(* Clients and the poller                                                  *)

\* The client leaves a handler that awaits: the handler is dropped, and what
\* it knows of the request with it.
Leave(q) ==
    /\ At(q, "read") \/ At(q, "await")
    /\ Done(q, "none")
    /\ UNCHANGED <<runtimes, fuse, traces>>

\* replace_route_runtime: a new policy, with a candidate of full health and
\* free permits, or without one.
Replace(candidate) ==
    /\ Len(runtimes) < MaxRuntimes /\ runtimes' = Append(runtimes, candidate)
    /\ UNCHANGED <<fuse, req, traces>>

-----------------------------------------------------------------------------

\* What a handler and its body do.
Step(q) ==
    \/ Refuse(q) \/ Admit(q) \/ ReadFails(q)
    \/ \E chosen \in BOOLEAN : Decide(q, chosen)
    \/ Health(q) \/ Acquire(q) \/ BadHeaders(q) \/ Send(q)
    \/ Fallback(q) \/ Resend(q) \/ BaselineFails(q)
    \/ \E sse \in BOOLEAN : Answer(q, sse)
    \/ Terminal(q) \/ StreamFails(q) \/ StreamEnds(q) \/ Drop(q)

Next ==
    \/ \E q \in Requests : Step(q) \/ Leave(q)
    \/ \E candidate \in BOOLEAN : Replace(candidate)

Spec == Init /\ [][Next]_vars

-----------------------------------------------------------------------------
(* Properties                                                              *)

Steps   == {"new", "read", "health", "acquire", "send", "await", "resend", "stream", "over", "done"}
Targets == {"openai", "candidate"}
Routes  == {"baseline", "candidate", "candidate_unhealthy", "candidate_capacity", "candidate_failure"}
Errors  == {"none", "invalid_request_headers", "upstream_unavailable", "stream_error",
            "upstream_stream_incomplete", "downstream_disconnected"}

Request == [pc : Steps, run : Nat, target : Targets, slot : BOOLEAN, route : Routes,
            asked : Seq(Targets), sse : BOOLEAN, ended : BOOLEAN, whole : BOOLEAN,
            reply : {"none", "local"} \cup Targets]

TypeOK ==
    /\ runtimes \in Seq(BOOLEAN) /\ fuse \subseteq Nat
    /\ req \in [Requests -> Request]
    /\ traces \in [Requests -> Seq([route : Routes, error : Errors])]

\* The gateway and the candidate of each runtime serve no more requests than
\* they admit, and no request that goes to the baseline, for whatever reason,
\* takes up the place of one at the candidate.
WithinLimits ==
    /\ Cardinality(InFlight) <= MaxInFlight
    /\ \A r \in Runtimes : Cardinality(Slots(r)) <= CandidateLimit
    /\ \A q \in Requests : req[q].slot <=> (req[q].target = "candidate" /\ q \in InFlight)

\* What the gateway can know of a complete answer: the terminal event of an
\* event stream, and the end of any other body.
Complete(q) == IF req[q].sse THEN req[q].ended ELSE req[q].whole

\* A request that is answered along a route leaves exactly one trace, any other
\* leaves none; and the trace says no error only when the answer was complete,
\* and always when a complete answer was read to its end, however the body
\* ends, fails or is dropped after that.
TracedOnce ==
    \A q \in Requests :
        /\ Len(traces[q]) = IF At(q, "over") \/ (At(q, "done") /\ req[q].reply \in Targets) THEN 1 ELSE 0
        /\ traces[q] # <<>> =>
               /\ traces[q][1].error = "none" => Complete(q)
               /\ req[q].whole /\ Complete(q) => traces[q][1].error = "none"

\* Of each provider a request asks once, the candidate first; and the trace,
\* the route header of the answer and who was asked agree.
RouteHonest ==
    \A q \in Requests :
        LET asked == req[q].asked
            route == req[q].route
        IN  /\ asked \in {<<>>, <<"openai">>, <<"candidate">>, <<"candidate", "openai">>}
            /\ route = "candidate_failure" <=> asked # <<>> /\ asked[1] = "candidate" /\ req[q].target = "openai"
            /\ req[q].reply \in Targets => (req[q].reply = "candidate") = (route = "candidate")
            /\ traces[q] # <<>> => traces[q][1].route = route

\* The fuse of a runtime is open exactly when its candidate failed a request
\* of that runtime, whichever runtime is installed by then.
FuseToBlame ==
    fuse = {r \in Runtimes : \E q \in Requests :
               /\ req[q].run = r
               /\ \/ req[q].route = "candidate_failure"
                  \/ req[q].target = "candidate" /\ traces[q] # <<>> /\ traces[q][1].error = "stream_error"}

=============================================================================
