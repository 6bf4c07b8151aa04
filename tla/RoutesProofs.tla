---------------------------- MODULE RoutesProofs ----------------------------
(***************************************************************************)
(* Proofs about route publication, for any proposals, keys, spans and lag, *)
(* and for any number of publications that run at a time.                  *)
(***************************************************************************)
EXTENDS Routes, SequenceTheorems, TLAPS

\* Every step keeps the types.
LEMMA TypeStep == TypeOK /\ [Next]_vars => TypeOK'
<1> USE RoutesAssumption
<1> SUFFICES ASSUME TypeOK, [Next]_vars PROVE TypeOK'
  OBVIOUS
<1> USE DEF TypeOK, Idle, Parts, store, gateway
<1>1. ASSUME NEW p \in Proposals, NEW k \in Keys \cup {0}, Prepare(p, k) PROVE TypeOK'
  <2>1. PICK m : /\ manifests' = manifests \cup {m}
                 /\ m = [proposal |-> p, key |-> k, prev |-> live, from |-> now, until |-> now + Span(k)]
    BY <1>1 DEF Prepare
  <2>2. Span(k) \in Nat
    BY DEF Span
  <2>3. history \in Seq(manifests')
    BY <2>1, SeqMonotonic, Zenon
  <2> QED
    BY <1>1, <2>1, <2>2, <2>3 DEF Prepare
<1>2. ASSUME NEW r \in manifests, Publish(r) PROVE TypeOK'
  BY <1>2 DEF Publish
<1>3. ASSUME NEW o \in op, PutPart(o) PROVE TypeOK'
  <2>1. o.part \in 1 .. 2 /\ o.rev \in manifests
    BY <1>3 DEF PutPart
  <2>2. <<o.rev, Parts[o.part]>> \in manifests \X {Parts[i] : i \in DOMAIN Parts}
    BY <2>1
  <2>3. [o EXCEPT !.part = @ + 1] \in [rev : manifests, part : 1 .. Len(Parts) + 1]
    BY <2>1
  <2> QED
    BY <1>3, <2>2, <2>3 DEF PutPart
<1>4. ASSUME NEW o \in op, Activate(o) PROVE TypeOK'
  BY <1>4 DEF Activate
<1>5. ASSUME NEW o \in op, GiveUp(o) PROVE TypeOK'
  BY <1>5 DEF GiveUp
<1>6. ASSUME NEW r \in sent, Land(r) PROVE TypeOK'
  <2>1. Append(history, r) \in Seq(manifests)
    BY <1>6, AppendProperties
  <2> QED
    BY <1>6, <2>1 DEF Land
<1>7. ASSUME NEW r \in sent, Lose(r) PROVE TypeOK'
  BY <1>7 DEF Lose
<1>8. CASE StartPoll
  BY <1>8 DEF StartPoll
<1>9. CASE LoadLive
  <2>1. CASE live = {} \/ poll' = Idle
    BY <1>9, <2>1 DEF LoadLive
  <2>2. CASE live # {} /\ poll' # Idle
    <3>1. (CHOOSE r \in live : TRUE) \in manifests
      BY <2>2
    <3> QED
      BY <1>9, <2>2, <3>1 DEF LoadLive
  <2> QED
    BY <2>1, <2>2
<1>10. CASE Install
  BY <1>10 DEF Install
<1>11. CASE PollFails
  BY <1>11 DEF PollFails
<1>12. CASE Advance
  BY <1>12 DEF Advance
<1>13. ASSUME NEW p \in Proposals, Supersede(p) PROVE TypeOK'
  BY <1>13 DEF Supersede
<1>14. ASSUME NEW k \in Credentials \cup {0}, Restart(k) PROVE TypeOK'
  BY <1>14 DEF Restart
<1>15. CASE UNCHANGED vars
  BY <1>15 DEF vars
<1> QED
  BY <1>1, <1>2, <1>3, <1>4, <1>5, <1>6, <1>7, <1>8, <1>9, <1>10, <1>11, <1>12, <1>13, <1>14, <1>15
  DEF Next, PollStep

(***************************************************************************)
(* Type correctness.                                                       *)
(***************************************************************************)
THEOREM Typing == Spec => []TypeOK
<1>1. Init => TypeOK
  BY RoutesAssumption DEF Init, TypeOK, Idle
<1> QED
  BY <1>1, TypeStep, PTL DEF Spec

-----------------------------------------------------------------------------

(***************************************************************************)
(* The inductive invariant.  Everything it says is kept because objects    *)
(* and manifests only grow: a process puts the objects in order, so that a *)
(* put of the pointer is sent for a complete route only.                   *)
(***************************************************************************)
Prepared == \A r \in manifests : Lineage(r)

InOrder ==
    /\ \A o \in op : \A i \in DOMAIN Parts : i < o.part => <<o.rev, Parts[i]>> \in objects
    /\ \A r \in sent : Committed(r)

WasLive(r) == \E i \in DOMAIN history : history[i] = r

GatewayInv ==
    /\ poll.step = "install" => WasLive(poll.rev)
    /\ expiry # 0 => \E r \in manifests : WasLive(r) /\ policy = {r} /\ ~Zero(r) /\ r.key = key

RoutesInv == TypeOK /\ Prepared /\ InOrder /\ LineOfRoutes /\ LiveComplete /\ GatewayInv

\* What was stored stays stored.
LEMMA Kept == ASSUME objects \subseteq objects', NEW r
              PROVE  /\ Committed(r) => Committed(r)'
                     /\ Lineage(r) => Lineage(r)'
  BY DEF Committed, Lineage, Zero

\* Objects and manifests only grow, and a manifest is prepared with the
\* lineage that publish-route verifies again.
LEMMA StoreGrows ==
    ASSUME TypeOK, [Next]_vars
    PROVE  /\ objects \subseteq objects'
           /\ \A r \in manifests' \ manifests : Lineage(r)
  BY DEF Next, PollStep, vars, store, gateway, Prepare, Publish, PutPart, Activate, GiveUp, Land, Lose,
         StartPoll, LoadLive, Install, PollFails, Advance, Supersede, Restart

LEMMA PreparedStep == ASSUME TypeOK, Prepared, [Next]_vars PROVE Prepared'
  BY StoreGrows, Kept DEF Prepared

\* The line of routes changes only when the store applies a put.
LEMMA LineSteps ==
    ASSUME TypeOK, [Next]_vars
    PROVE  \/ UNCHANGED <<live, history>>
           \/ \E r \in sent : live = r.prev /\ live' = {r} /\ history' = Append(history, r)
  BY DEF Next, PollStep, vars, store, gateway, Prepare, Publish, PutPart, Activate, GiveUp, Land, Lose,
         StartPoll, LoadLive, Install, PollFails, Advance, Supersede, Restart

LEMMA InOrderStep == ASSUME TypeOK, InOrder, [Next]_vars PROVE InOrder'
<1>1. objects \subseteq objects'
  BY StoreGrows
<1>2. \A r : Committed(r) => Committed(r)'
  BY <1>1, Kept
<1>3. ASSUME NEW o \in op, PutPart(o) PROVE InOrder'
  <2>1. o.part \in 1 .. 2
    BY <1>3 DEF PutPart, TypeOK, Parts
  <2>2. /\ op' = (op \ {o}) \cup {[o EXCEPT !.part = @ + 1]} /\ sent' = sent
        /\ objects' = objects \cup {<<o.rev, Parts[o.part]>>}
    BY <1>3 DEF PutPart
  <2>3. /\ [o EXCEPT !.part = @ + 1].part = o.part + 1
        /\ [o EXCEPT !.part = @ + 1].rev = o.rev
    BY DEF TypeOK
  <2>4. \A i \in DOMAIN Parts : i < o.part + 1 => <<o.rev, Parts[i]>> \in objects'
    <3> SUFFICES ASSUME NEW i \in DOMAIN Parts, i < o.part + 1 PROVE <<o.rev, Parts[i]>> \in objects'
      OBVIOUS
    <3>1. i \in Nat /\ (i < o.part \/ i = o.part)
      BY <2>1 DEF Parts
    <3> QED
      BY <3>1, <2>2 DEF InOrder
  <2> QED
    BY <1>1, <1>2, <2>2, <2>3, <2>4 DEF InOrder
<1>4. ASSUME NEW o \in op, Activate(o) PROVE InOrder'
  <2>1. \A i \in DOMAIN Parts : i < o.part
    BY <1>4 DEF Activate, TypeOK, Parts
  <2>2. Committed(o.rev)
    BY <2>1 DEF InOrder, Committed
  <2> QED
    BY <1>1, <1>2, <1>4, <2>2 DEF InOrder, Activate
<1>5. ASSUME NEW r \in manifests, Publish(r) PROVE InOrder'
  <2>1. op' = op \cup {[rev |-> r, part |-> 1]} /\ sent' = sent
    BY <1>5 DEF Publish, store
  <2>2. \A i \in DOMAIN Parts : ~(i < [rev |-> r, part |-> 1].part)
    BY DEF Parts
  <2> QED
    BY <1>1, <1>2, <2>1, <2>2 DEF InOrder
<1>6. (\E o \in op : PutPart(o) \/ Activate(o)) \/ (\E r \in manifests : Publish(r))
      \/ (op' \subseteq op /\ sent' \subseteq sent)
  BY DEF Next, PollStep, vars, store, gateway, Prepare, GiveUp, Land, Lose,
         StartPoll, LoadLive, Install, PollFails, Advance, Supersede, Restart
<1> QED
  BY <1>1, <1>2, <1>3, <1>4, <1>5, <1>6 DEF InOrder

\* A route that is put over the live one makes the line longer by one: no
\* route of the line has the live one for its predecessor.
LEMMA LineStep == ASSUME TypeOK, Prepared, LineOfRoutes, [Next]_vars PROVE LineOfRoutes'
<1>1. CASE UNCHANGED <<live, history>>
  BY <1>1 DEF LineOfRoutes, Zero
<1>2. ASSUME NEW r \in sent, live = r.prev, live' = {r}, history' = Append(history, r)
      PROVE  LineOfRoutes'
  <2> DEFINE n == Len(history)
  <2>1. history \in Seq(manifests) /\ r \in manifests /\ n \in Nat /\ DOMAIN history = 1 .. n
    BY <1>2, LenProperties DEF TypeOK
  <2>2. /\ DOMAIN history' = 1 .. n + 1 /\ Len(history') = n + 1 /\ history'[n + 1] = r
        /\ \A i \in 1 .. n : history'[i] = history[i]
    BY <1>2, <2>1, AppendProperties
  <2>3. r.prev = IF n = 0 THEN {} ELSE {history[n]}
    BY <1>2, <2>1, EmptySeq DEF LineOfRoutes
  <2>4. Zero(r) => \E q \in r.prev : ~Zero(q) /\ q.proposal = r.proposal
    BY <2>1 DEF Prepared, Lineage
  <2>5. \A i \in 1 .. n : history[i].prev = IF i = 1 THEN {} ELSE {history[i - 1]}
    BY <2>1 DEF LineOfRoutes
  <2>6. \A i, j \in 1 .. n : i # j => history[i].prev # history[j].prev /\ history[i] # history[j]
    BY <2>1 DEF LineOfRoutes
  <2>7. \A i \in 1 .. n : history[i].prev # r.prev
    <3> SUFFICES ASSUME NEW i \in 1 .. n PROVE history[i].prev # r.prev
      OBVIOUS
    <3>1. n # 0 /\ r.prev = {history[n]}
      BY <2>1, <2>3
    <3>2. CASE i = 1
      BY <2>5, <3>1, <3>2
    <3>3. CASE i # 1
      <4>1. i - 1 \in 1 .. n /\ n \in 1 .. n /\ i - 1 # n
        BY <2>1, <3>1, <3>3
      <4>2. history[i - 1] # history[n]
        BY <2>6, <4>1
      <4> QED
        BY <2>5, <3>1, <3>3, <4>2
    <3> QED
      BY <3>2, <3>3
  <2>8. \A i \in 1 .. n + 1 : history'[i].prev = IF i = 1 THEN {} ELSE {history'[i - 1]}
    <3> SUFFICES ASSUME NEW i \in 1 .. n + 1
                 PROVE  history'[i].prev = IF i = 1 THEN {} ELSE {history'[i - 1]}
      OBVIOUS
    <3>1. CASE i = n + 1
      BY <2>1, <2>2, <2>3, <3>1
    <3>2. CASE i # n + 1
      <4>1. i \in 1 .. n /\ (i # 1 => i - 1 \in 1 .. n)
        BY <2>1, <3>2
      <4>2. history'[i] = history[i] /\ (i # 1 => history'[i - 1] = history[i - 1])
        BY <2>2, <4>1
      <4> QED
        BY <2>5, <4>1, <4>2
    <3> QED
      BY <3>1, <3>2
  <2>9. \A i \in 1 .. n + 1 :
           Zero(history'[i]) => \E q \in history'[i].prev : ~Zero(q) /\ q.proposal = history'[i].proposal
    <3> SUFFICES ASSUME NEW i \in 1 .. n + 1, Zero(history'[i])
                 PROVE  \E q \in history'[i].prev : ~Zero(q) /\ q.proposal = history'[i].proposal
      OBVIOUS
    <3>1. CASE i = n + 1
      BY <2>2, <2>4, <3>1
    <3>2. CASE i # n + 1
      <4>1. i \in DOMAIN history /\ history'[i] = history[i]
        BY <2>1, <2>2, <3>2
      <4> QED
        BY <4>1 DEF LineOfRoutes
    <3> QED
      BY <3>1, <3>2
  <2>10. \A i, j \in 1 .. n + 1 : i # j => history'[i].prev # history'[j].prev
    <3> SUFFICES ASSUME NEW i \in 1 .. n + 1, NEW j \in 1 .. n + 1, i # j
                 PROVE  history'[i].prev # history'[j].prev
      OBVIOUS
    <3>1. \/ i \in 1 .. n /\ j \in 1 .. n
          \/ i \in 1 .. n /\ j = n + 1
          \/ i = n + 1 /\ j \in 1 .. n
      BY <2>1
    <3> QED
      BY <2>2, <2>6, <2>7, <3>1
  <2>11. history' # <<>> /\ live' = {history'[Len(history')]}
    BY <1>2, <2>1, <2>2
  <2> QED
    BY <2>2, <2>8, <2>9, <2>10, <2>11 DEF LineOfRoutes, Zero
<1> QED
  BY <1>1, <1>2, LineSteps

LEMMA CompleteStep == ASSUME TypeOK, InOrder, LiveComplete, [Next]_vars PROVE LiveComplete'
<1>1. \A r : Committed(r) => Committed(r)'
  BY StoreGrows, Kept
<1>2. CASE UNCHANGED <<live, history>>
  BY <1>1, <1>2 DEF LiveComplete
<1>3. ASSUME NEW r \in sent, history' = Append(history, r) PROVE LiveComplete'
  <2>1. Committed(r)'
    BY <1>1 DEF InOrder
  <2>2. \A i \in DOMAIN history' : history'[i] = r \/ (i \in DOMAIN history /\ history'[i] = history[i])
    BY <1>3, AppendProperties, LenProperties DEF TypeOK
  <2> QED
    BY <1>1, <2>1, <2>2 DEF LiveComplete
<1> QED
  BY <1>2, <1>3, LineSteps

\* What the gateway installs was live when it was loaded.
LEMMA GatewayStep ==
    ASSUME TypeOK, LineOfRoutes, GatewayInv, [Next]_vars, TypeOK' PROVE GatewayInv'
<1>1. \A r : WasLive(r) => WasLive(r)'
  <2> SUFFICES ASSUME NEW r, WasLive(r) PROVE WasLive(r)'
    OBVIOUS
  <2>1. CASE UNCHANGED <<live, history>>
    BY <2>1 DEF WasLive
  <2>2. ASSUME NEW p \in sent, history' = Append(history, p) PROVE WasLive(r)'
    <3>1. PICK i \in DOMAIN history : history[i] = r
      BY DEF WasLive
    <3>2. /\ history \in Seq(manifests) /\ p \in manifests
      BY DEF TypeOK
    <3>3. i \in DOMAIN history' /\ history'[i] = history[i]
      BY <2>2, <3>2, AppendProperties, LenProperties
    <3> QED
      BY <3>1, <3>3 DEF WasLive
  <2> QED
    BY <2>1, <2>2, LineSteps
<1>2. manifests \subseteq manifests'
  BY DEF Next, PollStep, vars, store, gateway, Prepare, Publish, PutPart, Activate, GiveUp, Land, Lose,
         StartPoll, LoadLive, Install, PollFails, Advance, Supersede, Restart
<1>3. CASE LoadLive
  <2>1. \A r \in live : WasLive(r)
    BY LenProperties, EmptySeq DEF LineOfRoutes, WasLive, TypeOK
  <2>2. poll' = Idle \/ \E r \in live : poll' = [step |-> "install", at |-> poll.at, rev |-> r]
    BY <1>3 DEF LoadLive
  <2> QED
    BY <1>1, <1>2, <1>3, <2>1, <2>2 DEF LoadLive, GatewayInv, Idle, store, Zero
<1>4. CASE Install
  <2>1. poll' = Idle /\ UNCHANGED <<manifests, history, key>>
    BY <1>4 DEF Install, store
  <2>2. CASE UNCHANGED <<policy, expiry>>
    BY <1>1, <2>1, <2>2 DEF GatewayInv, Idle, Zero
  <2>3. CASE policy' = {poll.rev} /\ (expiry' # 0 => ~Zero(poll.rev) /\ key = poll.rev.key)
    <3>1. WasLive(poll.rev) /\ poll.rev \in manifests
      BY <1>4 DEF Install, GatewayInv, TypeOK, Idle
    <3> QED
      BY <1>1, <2>1, <2>3, <3>1 DEF GatewayInv, Idle, Zero
  <2> QED
    BY <1>4, <2>2, <2>3 DEF Install, Zero
<1>5. CASE StartPoll \/ PollFails \/ UNCHANGED gateway
  BY <1>1, <1>2, <1>5 DEF StartPoll, PollFails, gateway, store, GatewayInv, Idle, Zero
<1>6. ASSUME NEW k \in Credentials \cup {0}, Restart(k) PROVE GatewayInv'
  BY <1>6 DEF Restart, GatewayInv
<1>7. LoadLive \/ Install \/ StartPoll \/ PollFails \/ UNCHANGED gateway \/ \E k \in Credentials \cup {0} : Restart(k)
  BY DEF Next, PollStep, vars, store, gateway, Prepare, Publish, PutPart, Activate, GiveUp, Land, Lose,
         Advance, Supersede
<1> QED
  BY <1>3, <1>4, <1>5, <1>6, <1>7

LEMMA Invariance == Spec => []RoutesInv
<1>1. Init => RoutesInv
  <2> SUFFICES ASSUME Init PROVE RoutesInv
    OBVIOUS
  <2>1. TypeOK
    BY RoutesAssumption DEF Init, TypeOK, Idle
  <2>2. history = <<>> /\ DOMAIN history = {}
    BY DEF Init
  <2> QED
    BY <2>1, <2>2 DEF Init, RoutesInv, Prepared, InOrder, LineOfRoutes, LiveComplete, GatewayInv, Idle
<1>2. RoutesInv /\ [Next]_vars => RoutesInv'
  BY TypeStep, PreparedStep, InOrderStep, LineStep, CompleteStep, GatewayStep DEF RoutesInv
<1> QED
  BY <1>1, <1>2, PTL DEF Spec

(***************************************************************************)
(* The store keeps one line of routes, however many publications race for  *)
(* the pointer and however late their puts arrive (activate_route).        *)
(***************************************************************************)
THEOREM OneLine == Spec => []LineOfRoutes
  BY Invariance, PTL DEF RoutesInv

(***************************************************************************)
(* The pointer never names a route whose objects are not all there         *)
(* (publish_route).                                                        *)
(***************************************************************************)
THEOREM Complete == Spec => []LiveComplete
  BY Invariance, PTL DEF RoutesInv

(***************************************************************************)
(* A candidate is served for a route that was live and is not zero, with   *)
(* the credential it was admitted with (from_signed_bytes).                *)
(***************************************************************************)
THEOREM OnPurpose == Spec => []ServedOnPurpose
<1>1. RoutesInv => ServedOnPurpose
  BY DEF RoutesInv, GatewayInv, WasLive, ServedOnPurpose, Serving
<1> QED
  BY <1>1, Invariance, PTL

=============================================================================
