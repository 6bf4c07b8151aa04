---------------------------- MODULE ProxyProofs ----------------------------
(***************************************************************************)
(* Proofs about the request path, for any number of requests, permits and  *)
(* runtimes.                                                               *)
(***************************************************************************)
EXTENDS Proxy, SequenceTheorems, FiniteSetTheorems, TLAPS

\* The sequences of the handler.
LEMMA Appended ==
    /\ \A x : Append(<<>>, x) = <<x>> /\ Len(<<x>>) = 1 /\ <<x>>[1] = x /\ <<x>> # <<>>
    /\ Append(<<"candidate">>, "openai") = <<"candidate", "openai">>
    /\ Len(<<>>) = 0
<1>1. \A x : Append(<<>>, x) = <<x>>
  OBVIOUS
<1>2. \A x : Len(<<x>>) = 1 /\ <<x>>[1] = x
  OBVIOUS
<1>3. Len(<<>>) = 0
  OBVIOUS
<1>4. \A x : <<x>> # <<>>
  BY <1>2, <1>3
<1>5. Append(<<"candidate">>, "openai") = <<"candidate", "openai">>
  <2> DEFINE s == Append(<<"candidate">>, "openai")
             t == <<"candidate", "openai">>
  <2>1. s \in Seq(Targets) /\ t \in Seq(Targets)
    BY DEF Targets
  <2>2. Len(s) = 2 /\ Len(t) = 2
    OBVIOUS
  <2>3. s[1] = t[1] /\ s[2] = t[2]
    OBVIOUS
  <2> HIDE DEF s, t
  <2>4. \A i \in 1 .. 2 : s[i] = t[i]
    BY <2>3
  <2> QED
    BY <2>1, <2>2, <2>4, SeqEqual DEF s, t
<1> QED
  BY <1>1, <1>2, <1>3, <1>4, <1>5

\* Every step keeps the types.
LEMMA TypeStep == TypeOK /\ [Next]_vars => TypeOK'
<1> SUFFICES ASSUME TypeOK, [Next]_vars PROVE TypeOK'
  OBVIOUS
<1> USE DEF TypeOK, Request, Steps, Targets, Routes, Errors, At, Asks, Done, Observe
<1>1. Current \in Nat
  BY LenProperties DEF Current
<1>2. ASSUME NEW q \in Requests, Step(q) \/ Leave(q) PROVE TypeOK'
  <2>0. req[q] \in Request
    OBVIOUS
  <2> SUFFICES req' \in [Requests -> Request]
               /\ traces' \in [Requests -> Seq([route : Routes, error : Errors])]
               /\ fuse' \subseteq Nat /\ runtimes' = runtimes
    OBVIOUS
  <2>a. ASSUME NEW m \in Request, req' = [req EXCEPT ![q] = m] PROVE req' \in [Requests -> Request]
    BY <2>a
  <2>b. ASSUME NEW e \in Errors, Observe(q, e) PROVE traces' \in [Requests -> Seq([route : Routes, error : Errors])]
    <3>1. [route |-> req[q].route, error |-> e] \in [route : Routes, error : Errors]
      BY <2>0
    <3> QED
      BY <2>b, <3>1
  <2>c. ASSUME NEW r \in {"none", "local"} \cup Targets, Done(q, r) PROVE req' \in [Requests -> Request]
    <3>1. [req[q] EXCEPT !.pc = "done", !.slot = FALSE, !.reply = r] \in Request
      BY <2>0
    <3>2. req' = [req EXCEPT ![q] = [req[q] EXCEPT !.pc = "done", !.slot = FALSE, !.reply = r]]
      BY <2>c
    <3> QED
      BY <2>a, <3>1, <3>2
  <2>1. CASE Refuse(q) \/ ReadFails(q) \/ Leave(q)
    BY <2>c, <2>1 DEF Refuse, ReadFails, Leave
  <2>2. CASE \E chosen \in BOOLEAN : Decide(q, chosen)
    <3>1. PICK pc \in {"health", "send"} : req' = [req EXCEPT ![q].run = Current, ![q].pc = pc]
      BY <2>2 DEF Decide
    <3>2. [req[q] EXCEPT !.run = Current, !.pc = pc] \in Request
      BY <2>0, <1>1
    <3>3. req' = [req EXCEPT ![q] = [req[q] EXCEPT !.run = Current, !.pc = pc]]
      BY <3>1
    <3> QED
      BY <2>a, <2>2, <3>2, <3>3 DEF Decide
  <2>3. CASE Health(q)
    BY <2>0, <2>3 DEF Health
  <2>4. CASE Acquire(q)
    BY <2>0, <2>4 DEF Acquire
  <2>5. CASE Send(q) \/ Resend(q)
    <3>1. Append(req[q].asked, req[q].target) \in Seq(Targets)
      BY <2>0, AppendProperties
    <3>2. [req[q] EXCEPT !.pc = "await", !.asked = Append(req[q].asked, req[q].target)] \in Request
      BY <2>0, <3>1
    <3>3. req' = [req EXCEPT ![q] = [req[q] EXCEPT !.pc = "await", !.asked = Append(req[q].asked, req[q].target)]]
      BY <2>5 DEF Send, Resend
    <3> QED
      BY <2>a, <2>5, <3>2, <3>3 DEF Send, Resend
  <2>6. CASE Fallback(q)
    BY <2>0, <2>6 DEF Fallback
  <2>7. ASSUME NEW sse \in BOOLEAN, Answer(q, sse) PROVE req' \in [Requests -> Request] /\ UNCHANGED <<runtimes, fuse, traces>>
    <3>1. [req[q] EXCEPT !.pc = "stream", !.sse = sse, !.reply = req[q].target] \in Request
      BY <2>0
    <3>2. req' = [req EXCEPT ![q] = [req[q] EXCEPT !.pc = "stream", !.sse = sse, !.reply = req[q].target]]
      BY <2>7 DEF Answer
    <3> QED
      BY <2>a, <2>7, <3>1, <3>2 DEF Answer
  <2>8. CASE Terminal(q)
    BY <2>0, <2>8 DEF Terminal
  <2>14. CASE Admit(q)
    BY <2>0, <2>14 DEF Admit
  <2> HIDE DEF Observe, Done
  <2>9. CASE BadHeaders(q)
    BY <2>0, <2>b, <2>c, <2>9 DEF BadHeaders
  <2>10. CASE BaselineFails(q)
    BY <2>b, <2>c, <2>10 DEF BaselineFails
  <2>11. CASE StreamFails(q)
    <3>1. fuse' \subseteq Nat /\ runtimes' = runtimes
      BY <2>0, <2>11 DEF StreamFails
    <3>2. [req[q] EXCEPT !.pc = "over"] \in Request
      BY <2>0
    <3>3. Observe(q, "stream_error") /\ req' = [req EXCEPT ![q] = [req[q] EXCEPT !.pc = "over"]]
      BY <2>11 DEF StreamFails
    <3> QED
      BY <2>a, <2>b, <3>1, <3>2, <3>3
  <2>12. CASE StreamEnds(q)
    <3>2. [req[q] EXCEPT !.pc = "over", !.whole = TRUE] \in Request
      BY <2>0
    <3>3. req' = [req EXCEPT ![q] = [req[q] EXCEPT !.pc = "over", !.whole = TRUE]] /\ UNCHANGED <<runtimes, fuse>>
      BY <2>12 DEF StreamEnds
    <3>4. \E e \in Errors : Observe(q, e)
      BY <2>12 DEF StreamEnds
    <3> QED
      BY <2>a, <2>b, <3>2, <3>3, <3>4
  <2>13. CASE Drop(q)
    <3>1. \E e \in Errors : Observe(q, e)
      BY <2>13 DEF Drop
    <3>2. req[q].reply \in {"none", "local"} \cup Targets
      BY <2>0
    <3> QED
      BY <2>b, <2>c, <2>13, <3>1, <3>2 DEF Drop
  <2> QED
    BY <1>2, <2>1, <2>2, <2>3, <2>4, <2>5, <2>6, <2>7, <2>8, <2>9, <2>10, <2>11, <2>12, <2>13, <2>14 DEF Step
<1>3. ASSUME NEW c \in BOOLEAN, Replace(c) PROVE TypeOK'
  BY <1>3, AppendProperties DEF Replace
<1>4. CASE UNCHANGED vars
  BY <1>4 DEF vars
<1> QED
  BY <1>2, <1>3, <1>4 DEF Next

LEMMA TypeInit == Init => TypeOK
<1> SUFFICES ASSUME Init PROVE TypeOK
  OBVIOUS
<1>1. runtimes \in Seq(BOOLEAN)
  <2>1. \A b \in BOOLEAN : <<b>> \in Seq(BOOLEAN)
    BY Appended, EmptySeq, AppendProperties
  <2> QED
    BY <2>1 DEF Init
<1>2. New \in Request
  BY EmptySeq DEF New, Request, Steps, Targets, Routes
<1> QED
  BY <1>1, <1>2, EmptySeq DEF Init, TypeOK

(***************************************************************************)
(* Type correctness.                                                       *)
(***************************************************************************)
THEOREM Typing == Spec => []TypeOK
  BY TypeInit, TypeStep, PTL DEF Spec

-----------------------------------------------------------------------------

(***************************************************************************)
(* The inductive invariant: what holds of one request m and its traces t.  *)
(* It ties the route to the target and to who was asked, for every step of *)
(* the handler, also where no property looks yet.                          *)
(***************************************************************************)
Early  == {"new", "read", "health", "acquire"}
Asking == {"await", "stream", "over"}

Good(m, t, n) ==
    /\ m.slot <=> m.target = "candidate" /\ m.pc \notin {"new", "done"}
    /\ m.route = "candidate" <=> m.target = "candidate"
    /\ m.pc \in Early => m.route = "baseline" /\ m.target = "openai"
    /\ m.pc \in Early \cup {"send"} => m.asked = <<>> /\ m.route # "candidate_failure"
    /\ m.pc \notin {"new", "read", "done"} => m.run \in 1 .. n
    /\ m.pc = "resend" => m.route = "candidate_failure" /\ m.asked = <<"candidate">>
    /\ m.pc \in Asking => m.asked # <<>>
    /\ m.route = "candidate_failure" =>
          m.run \in 1 .. n /\ m.target = "openai" /\ m.asked \in {<<"candidate">>, <<"candidate", "openai">>}
    /\ m.route # "candidate_failure" => m.asked \in {<<>>, <<m.target>>}
    /\ m.target = "candidate" => m.run \in 1 .. n
    /\ m.reply \in Targets => m.reply = m.target
    /\ m.pc \notin {"stream", "over", "done"} => m.reply = "none"
    /\ m.pc \in {"stream", "over"} => m.reply = m.target
    /\ Len(t) = IF m.pc = "over" \/ (m.pc = "done" /\ m.reply \in Targets) THEN 1 ELSE 0
    /\ t # <<>> => t[1].route = m.route

AllGood == Current # 0 /\ \A q \in Requests : Good(req[q], traces[q], Current)

LEMMA GoodStep == ASSUME TypeOK, AllGood, [Next]_vars PROVE AllGood'
<1> USE DEF TypeOK, Request, Targets, Early, Asking, At, Asks, Done, Observe
<1>1. \A q \in Requests : traces[q] = <<>> <=> Len(traces[q]) = 0
  BY EmptySeq
<1>2. Current \in Nat
  BY LenProperties DEF Current
<1>3. ASSUME NEW q \in Requests, Step(q) \/ Leave(q) PROVE AllGood'
  <2> SUFFICES runtimes' = runtimes
               /\ (\A p \in Requests \ {q} : req'[p] = req[p] /\ traces'[p] = traces[p])
               /\ Good(req'[q], traces'[q], Current)
    BY DEF AllGood, Current
  <2>0. Good(req[q], traces[q], Current) /\ req[q] \in Request
    BY DEF AllGood
  <2>1. CASE Refuse(q) \/ ReadFails(q)
    BY <2>0, <2>1 DEF Refuse, ReadFails, Good
  <2>15. CASE Admit(q)
    BY <2>0, <2>15 DEF Admit, Good
  <2>10. CASE Leave(q)
    BY <2>0, <2>10 DEF Leave, Good
  <2>11. CASE Health(q)
    <3>0. At(q, "health") /\ UNCHANGED <<runtimes, traces>>
      BY <2>11 DEF Health
    <3>1. CASE req' = [req EXCEPT ![q] = [@ EXCEPT !.pc = "send", !.route = "candidate_unhealthy"]]
      <4>1. req'[q] = [req[q] EXCEPT !.pc = "send", !.route = "candidate_unhealthy"] /\ \A p \in Requests \ {q} : req'[p] = req[p]
        BY <3>1
      <4>2. /\ req'[q].pc = "send" /\ req'[q].route = "candidate_unhealthy" /\ req'[q].target = req[q].target
            /\ req'[q].slot = req[q].slot
            /\ req'[q].asked = req[q].asked /\ req'[q].run = req[q].run /\ req'[q].reply = req[q].reply
        BY <2>0, <4>1
      <4> QED
        BY <2>0, <1>1, <3>0, <4>1, <4>2 DEF Good
    <3>2. CASE req' = [req EXCEPT ![q] = [@ EXCEPT !.pc = "acquire"]]
      <4>1. req'[q] = [req[q] EXCEPT !.pc = "acquire"] /\ \A p \in Requests \ {q} : req'[p] = req[p]
        BY <3>2
      <4>2. /\ req'[q].pc = "acquire" /\ req'[q].route = req[q].route /\ req'[q].target = req[q].target
            /\ req'[q].slot = req[q].slot
            /\ req'[q].asked = req[q].asked /\ req'[q].run = req[q].run /\ req'[q].reply = req[q].reply
        BY <2>0, <4>1
      <4> QED
        BY <2>0, <1>1, <3>0, <4>1, <4>2 DEF Good
    <3> QED
      BY <2>11, <3>1, <3>2 DEF Health
  <2>12. CASE Acquire(q)
    <3>0. At(q, "acquire") /\ UNCHANGED <<runtimes, traces>>
      BY <2>12 DEF Acquire
    <3>1. CASE req' = [req EXCEPT ![q] = [@ EXCEPT !.pc = "send", !.route = "candidate_capacity"]]
      <4>1. req'[q] = [req[q] EXCEPT !.pc = "send", !.route = "candidate_capacity"] /\ \A p \in Requests \ {q} : req'[p] = req[p]
        BY <3>1
      <4>2. /\ req'[q].pc = "send" /\ req'[q].route = "candidate_capacity" /\ req'[q].target = req[q].target
            /\ req'[q].slot = req[q].slot
            /\ req'[q].asked = req[q].asked /\ req'[q].run = req[q].run /\ req'[q].reply = req[q].reply
        BY <2>0, <4>1
      <4> QED
        BY <2>0, <1>1, <3>0, <4>1, <4>2 DEF Good
    <3>2. CASE req' = [req EXCEPT ![q] = [@ EXCEPT !.pc = "send", !.route = "candidate", !.target = "candidate", !.slot = TRUE]]
      <4>1. req'[q] = [req[q] EXCEPT !.pc = "send", !.route = "candidate", !.target = "candidate", !.slot = TRUE] /\ \A p \in Requests \ {q} : req'[p] = req[p]
        BY <3>2
      <4>2. /\ req'[q].pc = "send" /\ req'[q].route = "candidate" /\ req'[q].target = "candidate"
            /\ req'[q].slot
            /\ req'[q].asked = req[q].asked /\ req'[q].run = req[q].run /\ req'[q].reply = req[q].reply
        BY <2>0, <4>1
      <4> QED
        BY <2>0, <1>1, <3>0, <4>1, <4>2 DEF Good
    <3> QED
      BY <2>12, <3>1, <3>2 DEF Acquire
  <2>13. CASE Terminal(q)
    BY <2>0, <2>13 DEF Terminal, Good
  <2>2. CASE \E chosen \in BOOLEAN : Decide(q, chosen)
    <3>1. PICK pc \in {"health", "send"} : req' = [req EXCEPT ![q].run = Current, ![q].pc = pc]
      BY <2>2 DEF Decide
    <3>2. At(q, "read") /\ UNCHANGED <<runtimes, fuse, traces>>
      BY <2>2 DEF Decide
    <3>3. Current \in 1 .. Current
      BY <1>2 DEF AllGood
    <3>4. req'[q] = [req[q] EXCEPT !.run = Current, !.pc = pc]
      BY <3>1
    <3> QED
      BY <2>0, <3>1, <3>2, <3>3, <3>4 DEF Good
  <2>3. CASE Send(q) \/ Resend(q)
    BY <2>0, <2>3, Appended DEF Send, Resend, Good
  <2>4. CASE Fallback(q)
    <3>1. /\ req'[q] = [req[q] EXCEPT !.pc = "resend", !.slot = FALSE, !.target = "openai", !.route = "candidate_failure"]
          /\ \A p \in Requests \ {q} : req'[p] = req[p]
          /\ UNCHANGED <<runtimes, traces>> /\ Asks(q)
      BY <2>4 DEF Fallback
    <3>2. req[q].asked = <<"candidate">> /\ req[q].run \in 1 .. Current /\ <<"candidate">> # <<>>
      BY <2>0, <3>1, Appended DEF Good
    <3>3. Len(traces[q]) = 0
      BY <2>0, <3>1 DEF Good
    <3>4. /\ req'[q].pc = "resend" /\ ~req'[q].slot /\ req'[q].target = "openai"
          /\ req'[q].route = "candidate_failure" /\ req'[q].asked = <<"candidate">>
          /\ req'[q].run \in 1 .. Current /\ req'[q].reply = req[q].reply
      BY <2>0, <3>1, <3>2
    <3> QED
      BY <2>0, <1>1, <3>1, <3>2, <3>3, <3>4 DEF Good
  <2>5. CASE \E sse \in BOOLEAN : Answer(q, sse)
    BY <2>0, <2>5 DEF Answer, Good
  <2>6. CASE BadHeaders(q)
    BY <2>0, <1>1, <2>6, Appended DEF BadHeaders, Good
  <2>7. CASE BaselineFails(q)
    BY <2>0, <1>1, <2>7, Appended DEF BaselineFails, Good
  <2>8. CASE StreamFails(q)
    BY <2>0, <1>1, <2>8, Appended DEF StreamFails, Good
  <2>14. CASE StreamEnds(q)
    BY <2>0, <1>1, <2>14, Appended DEF StreamEnds, Good
  <2>9. CASE Drop(q)
    BY <2>0, <1>1, <2>9, Appended DEF Drop, Good
  <2> QED
    BY <1>3, <2>1, <2>2, <2>3, <2>4, <2>5, <2>6, <2>7, <2>8, <2>9, <2>10, <2>11, <2>12, <2>13, <2>14, <2>15 DEF Step
<1>4. ASSUME NEW c \in BOOLEAN, Replace(c) PROVE AllGood'
  <2>1. Current' = Current + 1 /\ req' = req /\ traces' = traces
    BY <1>4, AppendProperties DEF Replace, Current
  <2> QED
    BY <1>2, <2>1 DEF AllGood, Good
<1>5. CASE UNCHANGED vars
  BY <1>5 DEF vars, AllGood, Good, Current
<1> QED
  BY <1>3, <1>4, <1>5 DEF Next

LEMMA AlwaysGood == Spec => [](TypeOK /\ AllGood)
<1>1. Init => TypeOK /\ AllGood
  <2>0. Init => Current # 0
    <3>1. Init => \E b \in BOOLEAN : runtimes = <<b>>
      BY DEF Init
    <3> QED
      BY <3>1, Appended DEF Current
  <2> SUFFICES ASSUME Init, NEW q \in Requests PROVE Good(req[q], traces[q], Current)
    BY <2>0, TypeInit DEF AllGood
  <2>1. req[q] = New /\ traces[q] = <<>>
    BY DEF Init
  <2>2. /\ New.slot = FALSE /\ New.pc = "new" /\ New.target = "openai" /\ New.route = "baseline"
        /\ New.asked = <<>> /\ New.reply = "none"
    BY DEF New
  <2> HIDE DEF New
  <2> QED
    BY <2>1, <2>2, Appended DEF Good, Early, Asking, Targets
<1>2. TypeOK /\ AllGood /\ [Next]_vars => (TypeOK /\ AllGood)'
  BY TypeStep, GoodStep
<1> QED
  BY <1>1, <1>2, PTL DEF Spec

(***************************************************************************)
(* What the trace of one request says of its answer: a body that has not   *)
(* ended is not whole, only an event stream has a terminal event, and the  *)
(* trace of a whole answer is decided at its end.                          *)
(***************************************************************************)
Told(m, t) ==
    /\ m.pc \notin {"over", "done"} => ~m.whole
    /\ m.ended => m.sse /\ m.pc \in {"stream", "over", "done"}
    /\ t # <<>> /\ t[1].error = "none" => IF m.sse THEN m.ended ELSE m.whole
    /\ t # <<>> /\ m.whole /\ (m.sse => m.ended) => t[1].error = "none"

AllTold == \A q \in Requests : Told(req[q], traces[q])

LEMMA ToldStep == ASSUME TypeOK, AllGood, AllTold, [Next]_vars PROVE AllTold'
<1> USE DEF TypeOK, Request, At, Asks, Done, Observe
<1>1. ASSUME NEW q \in Requests, Step(q) \/ Leave(q) PROVE AllTold'
  <2> SUFFICES (\A p \in Requests \ {q} : req'[p] = req[p] /\ traces'[p] = traces[p])
               /\ Told(req'[q], traces'[q])
    BY DEF AllTold
  <2>0. Told(req[q], traces[q]) /\ req[q] \in Request
    BY DEF AllTold
  <2>a. req[q].pc \notin {"over", "done"} => traces[q] = <<>>
    BY EmptySeq DEF AllGood, Good
  <2>1. CASE Refuse(q) \/ ReadFails(q) \/ Leave(q)
    <3>1. /\ req[q].pc \in {"new", "read", "await"} /\ UNCHANGED traces
          /\ \E reply \in {"none", "local"} : Done(q, reply)
      BY <2>1 DEF Refuse, ReadFails, Leave
    <3>2. traces[q] = <<>> /\ traces'[q] = <<>> /\ ~req[q].whole /\ ~req[q].ended
      BY <2>0, <2>a, <3>1 DEF Told
    <3>3. /\ req'[q].pc = "done" /\ req'[q].whole = req[q].whole /\ req'[q].ended = req[q].ended
          /\ \A p \in Requests \ {q} : req'[p] = req[p]
      BY <2>0, <3>1
    <3> QED
      BY <3>1, <3>2, <3>3 DEF Told
  <2>2. CASE Admit(q)
    <3>1. req[q].pc = "new" /\ req' = [req EXCEPT ![q].pc = "read"] /\ UNCHANGED traces
      BY <2>2 DEF Admit
    <3> QED
      BY <2>0, <2>a, <3>1 DEF Told
  <2>11. CASE Send(q) \/ Resend(q)
    <3>1. /\ req[q].pc \in {"send", "resend"} /\ UNCHANGED traces
          /\ req' = [req EXCEPT ![q].pc = "await", ![q].asked = Append(@, req[q].target)]
      BY <2>11 DEF Send, Resend
    <3>2. /\ req'[q].pc = "await" /\ req'[q].whole = req[q].whole /\ req'[q].ended = req[q].ended
          /\ \A p \in Requests \ {q} : req'[p] = req[p]
      BY <2>0, <3>1
    <3> QED
      BY <2>0, <2>a, <3>1, <3>2 DEF Told
  <2>12. CASE Terminal(q)
    <3>1. At(q, "stream") /\ req[q].sse /\ req' = [req EXCEPT ![q].ended = TRUE] /\ UNCHANGED traces
      BY <2>12 DEF Terminal
    <3> QED
      BY <2>0, <2>a, <3>1 DEF Told
  <2>3. CASE \E chosen \in BOOLEAN : Decide(q, chosen)
    <3>1. PICK pc \in {"health", "send"} : req' = [req EXCEPT ![q].run = Current, ![q].pc = pc]
      BY <2>3 DEF Decide
    <3>2. At(q, "read") /\ UNCHANGED traces
      BY <2>3 DEF Decide
    <3> QED
      BY <2>0, <2>a, <3>1, <3>2 DEF Told
  <2>4. CASE Health(q)
    BY <2>0, <2>a, <2>4 DEF Health, Told
  <2>5. CASE Acquire(q)
    BY <2>0, <2>a, <2>5 DEF Acquire, Told
  <2>6. CASE Fallback(q)
    BY <2>0, <2>a, <2>6 DEF Fallback, Told
  <2>7. CASE \E sse \in BOOLEAN : Answer(q, sse)
    BY <2>0, <2>a, <2>7 DEF Answer, Told
  <2>8. CASE BadHeaders(q) \/ BaselineFails(q) \/ StreamFails(q)
    <3>1. /\ req[q].pc \in {"send", "resend", "await", "stream"}
          /\ \E e \in {"invalid_request_headers", "upstream_unavailable", "stream_error"} : Observe(q, e)
      BY <2>8 DEF BadHeaders, BaselineFails, StreamFails
    <3>2. /\ \A p \in Requests \ {q} : req'[p] = req[p] /\ traces'[p] = traces[p]
          /\ req'[q].pc \in {"over", "done"} /\ req'[q].sse = req[q].sse
          /\ req'[q].ended = req[q].ended /\ req'[q].whole = req[q].whole
      BY <2>0, <2>8 DEF BadHeaders, BaselineFails, StreamFails
    <3>3. ~req[q].whole /\ traces[q] = <<>> /\ (req[q].ended => req[q].sse)
      BY <2>0, <2>a, <3>1 DEF Told
    <3>4. traces'[q] # <<>> /\ traces'[q][1].error # "none"
      BY <3>1, <3>3, Appended
    <3> QED
      BY <3>2, <3>3, <3>4 DEF Told
  <2>9. CASE StreamEnds(q)
    BY <2>0, <2>a, <2>9, Appended DEF StreamEnds, Told
  <2>10. CASE Drop(q)
    <3>1. \A p \in Requests \ {q} : req'[p] = req[p] /\ traces'[p] = traces[p]
      BY <2>10 DEF Drop
    <3>2. /\ req'[q].pc = "done" /\ req'[q].sse = req[q].sse
          /\ req'[q].ended = req[q].ended /\ req'[q].whole = req[q].whole
          /\ req[q].ended => req[q].sse
      BY <2>0, <2>10 DEF Drop, Told
    <3>3. CASE At(q, "over")
      <4>0. Good(req[q], traces[q], Current)
        BY DEF AllGood
      <4>1. traces[q] # <<>>
        <5>1. Len(traces[q]) = 1
          BY <3>3, <4>0 DEF Good
        <5>2. traces[q] = <<>> => Len(traces[q]) = 0
          BY Appended
        <5> QED
          BY <5>1, <5>2
      <4>2. traces'[q] = traces[q]
        BY <2>10, <4>1 DEF Drop
      <4> QED
        BY <2>0, <3>1, <3>2, <4>2 DEF Told
    <3>4. CASE At(q, "stream")
      <4>1. traces[q] = <<>> /\ ~req[q].whole
        BY <2>0, <2>a, <3>4 DEF Told
      <4>2. /\ traces'[q] # <<>>
            /\ traces'[q][1].error = IF req[q].ended THEN "none" ELSE "downstream_disconnected"
        BY <2>10, <4>1, Appended DEF Drop
      <4>3. req[q].ended => req[q].sse
        BY <2>0 DEF Told
      <4> QED
        BY <3>1, <3>2, <4>1, <4>2, <4>3 DEF Told
    <3> QED
      BY <2>10, <3>3, <3>4 DEF Drop
  <2> QED
    BY <1>1, <2>1, <2>2, <2>3, <2>4, <2>5, <2>6, <2>7, <2>8, <2>9, <2>10, <2>11, <2>12 DEF Step
<1>2. CASE (\E c \in BOOLEAN : Replace(c)) \/ UNCHANGED vars
  BY <1>2 DEF Replace, vars, AllTold
<1> QED
  BY <1>1, <1>2 DEF Next

(***************************************************************************)
(* One trace of each request that is answered along a route, and it says   *)
(* no error only of a complete answer (UpstreamBody, TraceRecorder).       *)
(***************************************************************************)
THEOREM OneTrace == Spec => []TracedOnce
<1>1. Init => AllTold
  BY DEF Init, New, AllTold, Told
<1>2. TypeOK /\ AllGood /\ AllTold /\ [Next]_vars => AllTold'
  BY ToldStep
<1>3. TypeOK /\ AllGood /\ AllTold => TracedOnce
  BY DEF AllGood, Good, AllTold, Told, TracedOnce, Complete, At, TypeOK
<1> QED
  BY <1>1, <1>2, <1>3, AlwaysGood, PTL DEF Spec

(***************************************************************************)
(* The trace, the route header and who was asked agree (proxy_openai).     *)
(***************************************************************************)
THEOREM Honest == Spec => []RouteHonest
<1>1. TypeOK /\ AllGood => RouteHonest
  <2> SUFFICES ASSUME TypeOK, AllGood, NEW q \in Requests
               PROVE  LET asked == req[q].asked
                          route == req[q].route
                      IN  /\ asked \in {<<>>, <<"openai">>, <<"candidate">>, <<"candidate", "openai">>}
                          /\ route = "candidate_failure" <=> asked # <<>> /\ asked[1] = "candidate" /\ req[q].target = "openai"
                          /\ req[q].reply \in Targets => (req[q].reply = "candidate") = (route = "candidate")
                          /\ traces[q] # <<>> => traces[q][1].route = route
    BY DEF RouteHonest
  <2>1. Good(req[q], traces[q], Current) /\ req[q].target \in Targets
    BY DEF AllGood, TypeOK, Request
  <2>2. req[q].asked \in {<<>>, <<"openai">>, <<"candidate">>, <<"candidate", "openai">>}
    BY <2>1 DEF Good, Targets
  <2>3. CASE req[q].route = "candidate_failure"
    <3>1. <<"candidate">>[1] = "candidate" /\ <<"candidate", "openai">>[1] = "candidate"
      OBVIOUS
    <3>2. <<"candidate">> # <<>> /\ <<"candidate", "openai">> # <<>>
      OBVIOUS
    <3>3. req[q].asked \in {<<"candidate">>, <<"candidate", "openai">>} /\ req[q].target = "openai"
      BY <2>1, <2>3 DEF Good
    <3>4. req[q].asked # <<>> /\ req[q].asked[1] = "candidate"
      BY <3>1, <3>2, <3>3
    <3> QED
      BY <2>1, <2>2, <2>3, <3>3, <3>4 DEF Good
  <2>4. CASE req[q].route # "candidate_failure"
    <3>1. req[q].asked # <<>> => req[q].asked[1] = req[q].target
      BY <2>1, <2>4, Appended DEF Good
    <3> QED
      BY <2>1, <2>2, <2>4, <3>1 DEF Good, Targets
  <2> QED
    BY <2>3, <2>4
<1> QED
  BY <1>1, AlwaysGood, PTL

-----------------------------------------------------------------------------

\* The permits.  A request takes one in Admit, and one in Acquire; in every
\* other step it holds what it held, or less.
Limits ==
    /\ Cardinality(InFlight) <= MaxInFlight
    /\ \A r \in Runtimes : Cardinality(Slots(r)) <= CandidateLimit

LEMMA Finite == \A r : IsFiniteSet(InFlight) /\ IsFiniteSet(Slots(r))
  BY FS_Subset, ProxyAssumption DEF InFlight, Slots

LEMMA OneMore ==
    ASSUME NEW S, NEW T, NEW x, NEW k \in Nat, IsFiniteSet(S), T \subseteq S \cup {x}, Cardinality(S) < k
    PROVE  Cardinality(T) <= k
<1>1. IsFiniteSet(S \cup {x}) /\ Cardinality(S \cup {x}) <= k /\ Cardinality(S \cup {x}) \in Nat
  <2>1. Cardinality(S) \in Nat
    BY FS_CardinalityType
  <2>2. IsFiniteSet(S \cup {x}) /\ Cardinality(S \cup {x}) = IF x \in S THEN Cardinality(S) ELSE Cardinality(S) + 1
    BY FS_AddElement
  <2> QED
    BY <2>1, <2>2
<1>2. Cardinality(T) \in Nat /\ Cardinality(T) <= Cardinality(S \cup {x})
  BY <1>1, FS_Subset, FS_CardinalityType
<1> QED
  BY <1>1, <1>2

LEMMA NoMore ==
    ASSUME NEW S, NEW T, NEW k \in Nat, IsFiniteSet(S), T \subseteq S, Cardinality(S) <= k
    PROVE  Cardinality(T) <= k
<1>1. Cardinality(S) \in Nat /\ Cardinality(T) \in Nat /\ Cardinality(T) <= Cardinality(S)
  BY FS_Subset, FS_CardinalityType
<1> QED
  BY <1>1

\* What a step other than Admit and Acquire does to the permits.
LEMMA Released ==
    ASSUME TypeOK, AllGood, [Next]_vars,
           ~ \E q \in Requests : Admit(q), ~ \E q \in Requests : Acquire(q)
    PROVE  InFlight' \subseteq InFlight /\ \A r : Slots(r)' \subseteq Slots(r)
<1> USE DEF TypeOK, Request, InFlight, Slots, At, Asks, Done
<1>1. ASSUME NEW q \in Requests, Step(q) \/ Leave(q)
      PROVE  InFlight' \subseteq InFlight /\ \A r : Slots(r)' \subseteq Slots(r)
  <2> SUFFICES /\ \A p \in Requests \ {q} : req'[p] = req[p]
               /\ req'[q].pc \notin {"new", "done"} => req[q].pc \notin {"new", "done"}
               /\ req'[q].slot => req[q].slot /\ req'[q].run = req[q].run
    OBVIOUS
  <2>1. CASE Refuse(q) \/ ReadFails(q) \/ Leave(q)
    BY <2>1 DEF Refuse, ReadFails, Leave
  <2>2. CASE \E chosen \in BOOLEAN : Decide(q, chosen)
    <3>1. ~req[q].slot
      BY <2>2 DEF Decide, AllGood, Good, Early
    <3> QED
      BY <2>2, <3>1 DEF Decide
  <2>3. CASE Health(q)
    BY <2>3 DEF Health
  <2>4. CASE Send(q) \/ Resend(q)
    BY <2>4 DEF Send, Resend
  <2>5. CASE Fallback(q)
    BY <2>5 DEF Fallback
  <2>6. CASE \E sse \in BOOLEAN : Answer(q, sse)
    BY <2>6 DEF Answer
  <2>7. CASE Terminal(q) \/ StreamFails(q) \/ StreamEnds(q)
    BY <2>7 DEF Terminal, StreamFails, StreamEnds
  <2>8. CASE BadHeaders(q) \/ BaselineFails(q) \/ Drop(q)
    BY <2>8 DEF BadHeaders, BaselineFails, Drop
  <2> QED
    BY <1>1, <2>1, <2>2, <2>3, <2>4, <2>5, <2>6, <2>7, <2>8 DEF Step
<1>2. CASE (\E c \in BOOLEAN : Replace(c)) \/ UNCHANGED vars
  BY <1>2 DEF Replace, vars
<1> QED
  BY <1>1, <1>2 DEF Next

LEMMA LimitsStep == ASSUME TypeOK, AllGood, Limits, [Next]_vars PROVE Limits'
<1> USE ProxyAssumption
<1>1. \A r : Slots(r) # {} => r \in Runtimes
  <2> SUFFICES ASSUME NEW r, NEW q \in Slots(r) PROVE r \in Runtimes
    OBVIOUS
  <2>1. q \in Requests /\ Good(req[q], traces[q], Current) /\ req[q].run = r /\ req[q].target = "candidate"
    BY DEF Slots, AllGood, Good
  <2> QED
    BY <2>1, LenProperties DEF Good, Runtimes, Current, TypeOK
<1>2. \A r : Cardinality(Slots(r)) <= CandidateLimit
  <2> SUFFICES ASSUME NEW r, r \notin Runtimes PROVE Cardinality(Slots(r)) <= CandidateLimit
    BY DEF Limits
  <2> QED
    BY <1>1, FS_EmptySet
<1>3. ASSUME NEW q \in Requests, Admit(q) PROVE Limits'
  <2>1. InFlight' \subseteq InFlight \cup {q} /\ Cardinality(InFlight) < MaxInFlight
    BY <1>3 DEF Admit, InFlight, TypeOK, Request
  <2>2. \A r : Slots(r)' \subseteq Slots(r)
    BY <1>3 DEF Admit, Slots, TypeOK, Request
  <2>3. Cardinality(InFlight') <= MaxInFlight
    <3> HIDE DEF InFlight
    <3> QED
      BY <2>1, Finite, OneMore
  <2>4. \A r : Cardinality(Slots(r)') <= CandidateLimit
    BY <1>2, <2>2, Finite, NoMore
  <2> QED
    BY <2>3, <2>4 DEF Limits
<1>4. ASSUME NEW q \in Requests, Acquire(q) PROVE Limits'
  <2>1. InFlight' \subseteq InFlight
    BY <1>4 DEF Acquire, InFlight, TypeOK, Request, At
  <2>2. CASE Cardinality(Slots(req[q].run)) < CandidateLimit
    <3>1. \A r : Slots(r)' \subseteq Slots(r) \/ (r = req[q].run /\ Slots(r)' \subseteq Slots(r) \cup {q})
      BY <1>4 DEF Acquire, Slots, TypeOK, Request
    <3>2. ASSUME NEW r PROVE Cardinality(Slots(r)') <= CandidateLimit
      <4>1. CASE Slots(r)' \subseteq Slots(r)
        BY <1>2, <4>1, Finite, NoMore
      <4>2. CASE r = req[q].run /\ Slots(r)' \subseteq Slots(r) \cup {q}
        BY <2>2, <4>2, Finite, OneMore
      <4> QED
        BY <3>1, <4>1, <4>2
    <3>3. Cardinality(InFlight') <= MaxInFlight
      BY <2>1, Finite, NoMore DEF Limits
    <3> QED
      BY <3>2, <3>3 DEF Limits
  <2>3. CASE ~(Cardinality(Slots(req[q].run)) < CandidateLimit)
    <3>1. Cardinality(Slots(req[q].run)) >= CandidateLimit
      BY <2>3, Finite, FS_CardinalityType
    <3>2. \A r : Slots(r)' \subseteq Slots(r)
      BY <1>4, <3>1 DEF Acquire, Slots, TypeOK, Request
    <3> QED
      BY <1>2, <2>1, <3>2, Finite, NoMore DEF Limits
  <2> QED
    BY <2>2, <2>3
<1>5. CASE ~(\E q \in Requests : Admit(q)) /\ ~(\E q \in Requests : Acquire(q))
  <2>1. InFlight' \subseteq InFlight /\ \A r : Slots(r)' \subseteq Slots(r)
    BY <1>5, Released
  <2> QED
    BY <1>2, <2>1, Finite, NoMore DEF Limits
<1> QED
  BY <1>3, <1>4, <1>5

(***************************************************************************)
(* No more requests in flight than the gateway, and the candidate of each  *)
(* runtime, admit (proxy_openai).                                          *)
(***************************************************************************)
THEOREM Limited == Spec => []WithinLimits
<1>1. Init => Limits
  <2> SUFFICES ASSUME Init PROVE Limits
    OBVIOUS
  <2>1. InFlight = {} /\ \A r : Slots(r) = {}
    BY DEF Init, New, InFlight, Slots
  <2> QED
    BY <2>1, FS_EmptySet, ProxyAssumption DEF Limits
<1>2. TypeOK /\ AllGood /\ Limits /\ [Next]_vars => Limits'
  BY LimitsStep
<1>3. TypeOK /\ AllGood /\ Limits => WithinLimits
  BY DEF WithinLimits, Limits, AllGood, Good, InFlight
<1> QED
  BY <1>1, <1>2, <1>3, AlwaysGood, PTL DEF Spec

-----------------------------------------------------------------------------

\* What a request has against the candidate of its runtime.
Blames(q) ==
    \/ req[q].route = "candidate_failure"
    \/ req[q].target = "candidate" /\ traces[q] # <<>> /\ traces[q][1].error = "stream_error"

\* A request that blames the candidate got its runtime, and it blames that
\* runtime ever after.
LEMMA BlamedRuntime ==
    ASSUME TypeOK, AllGood, NEW q \in Requests, Blames(q)
    PROVE  req[q].run \in Runtimes
<1>1. Good(req[q], traces[q], Current)
  BY DEF AllGood
<1>2. req[q].run \in 1 .. Current
  BY <1>1 DEF Good, Blames
<1> QED
  BY <1>2, LenProperties DEF Runtimes, Current, TypeOK

LEMMA BlameSteps ==
    ASSUME TypeOK, AllGood, NEW q \in Requests, Step(q) \/ Leave(q)
    PROVE  \/ fuse' = fuse /\ Blames(q)' = Blames(q) /\ (Blames(q) => req'[q].run = req[q].run)
           \/ fuse' = fuse \cup {req[q].run} /\ Blames(q)' /\ req'[q].run = req[q].run
<1> USE DEF TypeOK, Request, At, Asks, Done, Observe
<1>0. Good(req[q], traces[q], Current) /\ (Len(traces[q]) = 0 <=> traces[q] = <<>>)
  BY EmptySeq DEF AllGood
<1>1. CASE Refuse(q) \/ ReadFails(q) \/ Leave(q) \/ Terminal(q) \/ Admit(q)
  BY <1>1 DEF Refuse, ReadFails, Leave, Terminal, Admit, Blames
<1>2. CASE \E chosen \in BOOLEAN : Decide(q, chosen)
  <2>1. ~Blames(q)
    BY <1>0, <1>2 DEF Decide, Good, Early, Blames
  <2>2. fuse' = fuse /\ traces' = traces /\ req'[q].route = req[q].route /\ req'[q].target = req[q].target
    BY <1>2 DEF Decide
  <2> QED
    BY <2>1, <2>2 DEF Blames
<1>3. CASE Health(q) \/ Acquire(q)
  <2>1. traces[q] = <<>> /\ req[q].route = "baseline" /\ fuse' = fuse /\ traces' = traces
    BY <1>0, <1>3 DEF Health, Acquire, Good, Early
  <2>2. req'[q].route # "candidate_failure"
    <3>1. CASE Health(q)
      BY <2>1, <3>1 DEF Health
    <3>2. CASE Acquire(q)
      BY <2>1, <3>2 DEF Acquire
    <3> QED
      BY <1>3, <3>1, <3>2
  <2> QED
    BY <2>1, <2>2 DEF Blames
<1>4. CASE Send(q) \/ Resend(q)
  BY <1>4 DEF Send, Resend, Blames
<1>5. CASE Fallback(q)
  BY <1>5 DEF Fallback, Blames
<1>6. CASE \E sse \in BOOLEAN : Answer(q, sse)
  BY <1>6 DEF Answer, Blames
<1>7. CASE BadHeaders(q) \/ BaselineFails(q) \/ StreamEnds(q) \/ Drop(q)
  <2>1. /\ fuse' = fuse /\ req'[q].run = req[q].run
        /\ req'[q].route = req[q].route /\ req'[q].target = req[q].target
    BY <1>7 DEF BadHeaders, BaselineFails, StreamEnds, Drop
  <2>2. traces'[q] = traces[q] \/ (traces[q] = <<>> /\ traces'[q][1].error # "stream_error")
    BY <1>7, Appended DEF BadHeaders, BaselineFails, StreamEnds, Drop
  <2> QED
    BY <2>1, <2>2 DEF Blames
<1>8. CASE StreamFails(q)
  <2>1. traces[q] = <<>>
    BY <1>0, <1>8 DEF StreamFails, Good
  <2>2. /\ traces'[q] # <<>> /\ traces'[q][1].error = "stream_error" /\ req'[q].run = req[q].run
        /\ req'[q].route = req[q].route /\ req'[q].target = req[q].target
    BY <2>1, <1>8, Appended DEF StreamFails
  <2>3. CASE req[q].target = "candidate"
    BY <1>8, <2>2, <2>3 DEF StreamFails, Blames
  <2>4. CASE req[q].target # "candidate"
    BY <1>8, <2>1, <2>2, <2>4 DEF StreamFails, Blames
  <2> QED
    BY <2>3, <2>4
<1> QED
  BY <1>1, <1>2, <1>3, <1>4, <1>5, <1>6, <1>7, <1>8 DEF Step

LEMMA FuseStep == ASSUME TypeOK, AllGood, FuseToBlame, [Next]_vars PROVE FuseToBlame'
<1>1. fuse = {r \in Runtimes : \E q \in Requests : req[q].run = r /\ Blames(q)}
  BY DEF FuseToBlame, Blames
<1>2. SUFFICES fuse' = {r \in Runtimes' : \E q \in Requests : req'[q].run = r /\ Blames(q)'}
  BY DEF FuseToBlame, Blames
<1>3. ASSUME NEW q \in Requests, Step(q) \/ Leave(q)
      PROVE  fuse' = {r \in Runtimes' : \E p \in Requests : req'[p].run = r /\ Blames(p)'}
  <2>1. /\ Runtimes' = Runtimes
        /\ \A p \in Requests \ {q} : req'[p] = req[p] /\ Blames(p)' = Blames(p)
    <3>1. runtimes' = runtimes /\ \A p \in Requests \ {q} : req'[p] = req[p] /\ traces'[p] = traces[p]
      BY <1>3 DEF Step, Leave, Refuse, ReadFails, Admit, Decide, Health, Acquire, BadHeaders, Send, Fallback,
                  Resend, BaselineFails, Answer, Terminal, StreamFails, StreamEnds, Drop, Done, Observe, TypeOK
    <3> QED
      BY <3>1 DEF Runtimes, Blames
  <2>2. CASE fuse' = fuse /\ Blames(q)' = Blames(q) /\ (Blames(q) => req'[q].run = req[q].run)
    BY <1>1, <2>1, <2>2
  <2>3. CASE fuse' = fuse \cup {req[q].run} /\ Blames(q)' /\ req'[q].run = req[q].run
    <3>1. TypeOK' /\ Good(req'[q], traces'[q], Current')
      BY TypeStep, GoodStep DEF AllGood
    <3>2. req'[q].run \in 1 .. Current'
      BY <2>3, <3>1 DEF Good, Blames
    <3>3. req'[q].run \in Runtimes'
      BY <3>1, <3>2, LenProperties DEF Runtimes, Current, TypeOK
    <3> QED
      BY <1>1, <2>1, <2>3, <3>3
  <2> QED
    BY <1>3, <2>2, <2>3, BlameSteps
<1>4. ASSUME NEW c \in BOOLEAN, Replace(c)
      PROVE  fuse' = {r \in Runtimes' : \E p \in Requests : req'[p].run = r /\ Blames(p)'}
  <2>1. Runtimes \subseteq Runtimes' /\ UNCHANGED <<fuse, req, traces>>
    BY <1>4, AppendProperties, LenProperties DEF Replace, Runtimes, TypeOK
  <2>2. \A q \in Requests : Blames(q)' = Blames(q) /\ (Blames(q) => req[q].run \in Runtimes)
    BY <2>1, BlamedRuntime DEF Blames
  <2> QED
    BY <1>1, <2>1, <2>2
<1>5. CASE UNCHANGED vars
  BY <1>1, <1>5 DEF vars, Runtimes, Blames
<1> QED
  BY <1>3, <1>4, <1>5 DEF Next

(***************************************************************************)
(* The fuse of a runtime is open exactly when its candidate failed a       *)
(* request of that runtime (CandidateHealth).                              *)
(***************************************************************************)
THEOREM Blamed == Spec => []FuseToBlame
<1>1. Init => FuseToBlame
  BY DEF Init, New, FuseToBlame
<1>2. TypeOK /\ AllGood /\ FuseToBlame /\ [Next]_vars => FuseToBlame'
  BY FuseStep
<1> QED
  BY <1>1, <1>2, AlwaysGood, PTL DEF Spec

=============================================================================
