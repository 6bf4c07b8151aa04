-------------------------- MODULE GpuLaunchProofs --------------------------
(***************************************************************************)
(* Proofs about the GPU launch chain, for any finite set of dispatches,    *)
(* any deadlines and any bound.                                            *)
(***************************************************************************)
EXTENDS GpuLaunch, FiniteSetTheorems, TLAPS

(***************************************************************************)
(* Every write of a tick, and every event around it, keeps the types.      *)
(***************************************************************************)
LEMMA TypingStep ==
  ASSUME TypeOK, [Next]_vars
  PROVE  TypeOK'
<1> USE DispatchAssumption, BoundsAssumption DEF TypeOK, Locations, Intents, store, tick
<1>1. CASE Begin
  BY <1>1 DEF Begin
<1>2. CASE StartSweep
  BY <1>2 DEF StartSweep
<1>3. CASE PutClaim
  BY <1>3 DEF PutClaim
<1>4. CASE PutOutbox
  BY <1>4 DEF PutOutbox
<1>5. CASE RemovePointer
  BY <1>5 DEF RemovePointer, AfterPointer
<1>6. CASE KeepPointer
  BY <1>6 DEF KeepPointer, AfterPointer
<1>7. CASE ScanForPointer
  BY <1>7 DEF ScanForPointer
<1>8. CASE Terminalize
  BY <1>8 DEF Terminalize
<1>9. CASE DeleteIntent
  BY <1>9 DEF DeleteIntent
<1>10. CASE EndSweep
  BY <1>10 DEF EndSweep
<1>11. CASE PutIntent
  BY <1>11 DEF PutIntent
<1>12. CASE PutPointer
  BY <1>12 DEF PutPointer, AfterPointer
<1>13. CASE EndResume
  BY <1>13 DEF EndResume
<1>14. CASE Hold
  BY <1>14 DEF Hold
<1>15. CASE Bail
  BY <1>15 DEF Bail
<1>16. CASE Fail
  BY <1>16 DEF Fail
<1>17. CASE Advance
  BY <1>17 DEF Advance
<1>18. ASSUME NEW d \in Dispatches, DropTerminalIntent(d) PROVE TypeOK'
  BY <1>18 DEF DropTerminalIntent
<1>19. ASSUME NEW d \in Dispatches, Recover(d) PROVE TypeOK'
  BY <1>19 DEF Recover
<1>20. ASSUME NEW d \in Dispatches, RetirePointer(d) PROVE TypeOK'
  BY <1>20 DEF RetirePointer
<1>21. ASSUME NEW d \in Dispatches, CountPointer(d) PROVE TypeOK'
  BY <1>21 DEF CountPointer
<1>22. ASSUME NEW d \in Dispatches, Resume(d) PROVE TypeOK'
  BY <1>22 DEF Resume
<1>23. ASSUME NEW d \in Dispatches, Admit(d) PROVE TypeOK'
  BY <1>23 DEF Admit
<1>24. ASSUME NEW d \in Dispatches, Ingest(d) PROVE TypeOK'
  BY <1>24 DEF Ingest
<1>25. CASE UNCHANGED vars
  BY <1>25 DEF vars, store, tick
<1> QED
  BY <1>1, <1>2, <1>3, <1>4, <1>5, <1>6, <1>7, <1>8, <1>9, <1>10, <1>11, <1>12, <1>13,
     <1>14, <1>15, <1>16, <1>17, <1>18, <1>19, <1>20, <1>21, <1>22, <1>23, <1>24, <1>25
     DEF Next, TickStep

(***************************************************************************)
(* Type correctness of the launch chain in every reachable state.          *)
(***************************************************************************)
THEOREM Typing == Spec => []TypeOK
<1>1. Init => TypeOK
  BY DispatchAssumption DEF Init, TypeOK, Locations
<1> QED
  BY <1>1, TypingStep, PTL DEF Spec

(***************************************************************************)
(* The order of the writes keeps the chain complete.                       *)
(***************************************************************************)
LEMMA ChainCompleteStep ==
  ASSUME TypeOK, ChainComplete, InHand, [Next]_vars
  PROVE  ChainComplete'
<1> USE DEF ChainComplete, DependenciesHold, store, tick
<1>1. CASE Begin
  BY <1>1 DEF Begin
<1>2. CASE StartSweep
  BY <1>2 DEF StartSweep
<1>3. CASE PutClaim
  BY <1>3 DEF PutClaim, InHand
<1>4. CASE PutOutbox
  BY <1>4 DEF PutOutbox, InHand, Writing
<1>5. CASE RemovePointer
  BY <1>5 DEF RemovePointer, AfterPointer
<1>6. CASE KeepPointer
  BY <1>6 DEF KeepPointer, AfterPointer
<1>7. CASE ScanForPointer
  BY <1>7 DEF ScanForPointer
<1>8. CASE Terminalize
  BY <1>8 DEF Terminalize
<1>9. CASE DeleteIntent
  BY <1>9 DEF DeleteIntent
<1>10. CASE EndSweep
  BY <1>10 DEF EndSweep
<1>11. CASE PutIntent
  BY <1>11 DEF PutIntent
<1>12. CASE PutPointer
  BY <1>12 DEF PutPointer, AfterPointer, InHand, Writing
<1>13. CASE EndResume
  BY <1>13 DEF EndResume
<1>14. CASE Hold
  BY <1>14 DEF Hold
<1>15. CASE Bail
  BY <1>15 DEF Bail
<1>16. CASE Fail
  BY <1>16 DEF Fail
<1>17. CASE Advance
  BY <1>17 DEF Advance
<1>18. ASSUME NEW d \in Dispatches, DropTerminalIntent(d) PROVE ChainComplete'
  BY <1>18 DEF DropTerminalIntent
<1>19. ASSUME NEW d \in Dispatches, Recover(d) PROVE ChainComplete'
  BY <1>19 DEF Recover
<1>20. ASSUME NEW d \in Dispatches, RetirePointer(d) PROVE ChainComplete'
  BY <1>20 DEF RetirePointer
<1>21. ASSUME NEW d \in Dispatches, CountPointer(d) PROVE ChainComplete'
  BY <1>21 DEF CountPointer
<1>22. ASSUME NEW d \in Dispatches, Resume(d) PROVE ChainComplete'
  BY <1>22 DEF Resume
<1>23. ASSUME NEW d \in Dispatches, Admit(d) PROVE ChainComplete'
  BY <1>23 DEF Admit
<1>24. ASSUME NEW d \in Dispatches, Ingest(d) PROVE ChainComplete'
  BY <1>24 DEF Ingest
<1>25. CASE UNCHANGED vars
  BY <1>25 DEF vars, store, tick
<1> QED
  BY <1>1, <1>2, <1>3, <1>4, <1>5, <1>6, <1>7, <1>8, <1>9, <1>10, <1>11, <1>12, <1>13,
     <1>14, <1>15, <1>16, <1>17, <1>18, <1>19, <1>20, <1>21, <1>22, <1>23, <1>24, <1>25
     DEF Next, TickStep

(***************************************************************************)
(* The tick's picture of the dispatch in hand stays true.                  *)
(***************************************************************************)
LEMMA InHandStep ==
  ASSUME TypeOK, TypeOK', ChainComplete, InHand, [Next]_vars
  PROVE  InHand'
<1> USE DEF InHand, Writing, Launching, DependenciesHold, store, tick
<1>1. CASE Begin
  BY <1>1 DEF Begin
<1>2. CASE StartSweep
  BY <1>2 DEF StartSweep
<1>3. CASE PutClaim
  BY <1>3 DEF PutClaim
<1>4. CASE PutOutbox
  BY <1>4 DEF PutOutbox
<1>5. CASE RemovePointer
  BY <1>5 DEF RemovePointer, AfterPointer
<1>6. CASE KeepPointer
  BY <1>6 DEF KeepPointer, AfterPointer
<1>7. CASE ScanForPointer
  BY <1>7 DEF ScanForPointer
<1>8. CASE Terminalize
  BY <1>8 DEF Terminalize, TypeOK
<1>9. CASE DeleteIntent
  BY <1>9 DEF DeleteIntent, TypeOK
<1>10. CASE EndSweep
  BY <1>10 DEF EndSweep
<1>11. CASE PutIntent
  BY <1>11 DEF PutIntent, TypeOK
<1>12. CASE PutPointer
  BY <1>12 DEF PutPointer, AfterPointer
<1>13. CASE EndResume
  BY <1>13 DEF EndResume
<1>14. CASE Hold
  BY <1>14 DEF Hold
<1>15. CASE Bail
  BY <1>15 DEF Bail
<1>16. CASE Fail
  BY <1>16 DEF Fail
<1>17. CASE Advance
  BY <1>17 DEF Advance
<1>18. ASSUME NEW d \in Dispatches, DropTerminalIntent(d) PROVE InHand'
  BY <1>18 DEF DropTerminalIntent
<1>19. ASSUME NEW d \in Dispatches, Recover(d) PROVE InHand'
  BY <1>19 DEF Recover
<1>20. ASSUME NEW d \in Dispatches, RetirePointer(d) PROVE InHand'
  BY <1>20 DEF RetirePointer
<1>21. ASSUME NEW d \in Dispatches, CountPointer(d) PROVE InHand'
  BY <1>21 DEF CountPointer
<1>22. ASSUME NEW d \in Dispatches, Resume(d) PROVE InHand'
  BY <1>22 DEF Resume
<1>23. ASSUME NEW d \in Dispatches, Admit(d) PROVE InHand'
  BY <1>23 DEF Admit
<1>24. ASSUME NEW d \in Dispatches, Ingest(d) PROVE InHand'
  BY <1>24 DEF Ingest
<1>25. CASE UNCHANGED vars
  BY <1>25 DEF vars, store, tick
<1> QED
  BY <1>1, <1>2, <1>3, <1>4, <1>5, <1>6, <1>7, <1>8, <1>9, <1>10, <1>11, <1>12, <1>13,
     <1>14, <1>15, <1>16, <1>17, <1>18, <1>19, <1>20, <1>21, <1>22, <1>23, <1>24, <1>25
     DEF Next, TickStep

(***************************************************************************)
(* A tick knows of every stored intent, and there is at most one.          *)
(***************************************************************************)
LEMMA IntentsStep ==
  ASSUME TypeOK, InHand, IntentsKnown, [Next]_vars
  PROVE  IntentsKnown'
<1> USE DEF IntentsKnown, OneIntent, Intents, Writing, Launching, store, tick
<1>1. CASE Begin
  BY <1>1 DEF Begin
<1>2. CASE StartSweep
  BY <1>2 DEF StartSweep
<1>3. CASE PutClaim
  BY <1>3 DEF PutClaim, TypeOK, InHand
<1>4. CASE PutOutbox
  BY <1>4 DEF PutOutbox, TypeOK, InHand
<1>5. CASE RemovePointer
  BY <1>5 DEF RemovePointer, AfterPointer, TypeOK, InHand
<1>6. CASE KeepPointer
  BY <1>6 DEF KeepPointer, AfterPointer, TypeOK, InHand
<1>7. CASE ScanForPointer
  BY <1>7 DEF ScanForPointer, TypeOK, InHand
<1>8. CASE Terminalize
  BY <1>8 DEF Terminalize, TypeOK, InHand
<1>9. CASE DeleteIntent
  BY <1>9 DEF DeleteIntent, TypeOK, InHand
<1>10. CASE EndSweep
  BY <1>10 DEF EndSweep
<1>11. CASE PutIntent
  BY <1>11 DEF PutIntent, TypeOK, InHand
<1>12. CASE PutPointer
  BY <1>12 DEF PutPointer, AfterPointer, TypeOK, InHand
<1>13. CASE EndResume
  BY <1>13 DEF EndResume
<1>14. CASE Hold
  BY <1>14 DEF Hold
<1>15. CASE Bail
  BY <1>15 DEF Bail
<1>16. CASE Fail
  BY <1>16 DEF Fail
<1>17. CASE Advance
  BY <1>17 DEF Advance
<1>18. ASSUME NEW d \in Dispatches, DropTerminalIntent(d) PROVE IntentsKnown'
  BY <1>18 DEF DropTerminalIntent, TypeOK, InHand
<1>19. ASSUME NEW d \in Dispatches, Recover(d) PROVE IntentsKnown'
  BY <1>19 DEF Recover
<1>20. ASSUME NEW d \in Dispatches, RetirePointer(d) PROVE IntentsKnown'
  BY <1>20 DEF RetirePointer
<1>21. ASSUME NEW d \in Dispatches, CountPointer(d) PROVE IntentsKnown'
  BY <1>21 DEF CountPointer
<1>22. ASSUME NEW d \in Dispatches, Resume(d) PROVE IntentsKnown'
  BY <1>22 DEF Resume
<1>23. ASSUME NEW d \in Dispatches, Admit(d) PROVE IntentsKnown'
  BY <1>23 DEF Admit
<1>24. ASSUME NEW d \in Dispatches, Ingest(d) PROVE IntentsKnown'
  BY <1>24 DEF Ingest
<1>25. CASE UNCHANGED vars
  BY <1>25 DEF vars, store, tick
<1> QED
  BY <1>1, <1>2, <1>3, <1>4, <1>5, <1>6, <1>7, <1>8, <1>9, <1>10, <1>11, <1>12, <1>13,
     <1>14, <1>15, <1>16, <1>17, <1>18, <1>19, <1>20, <1>21, <1>22, <1>23, <1>24, <1>25
     DEF Next, TickStep

(***************************************************************************)
(* Nobody adds a pointer while a scan is under way.                        *)
(***************************************************************************)
LEMMA ScanStep ==
  ASSUME TypeOK, ScanComplete, [Next]_vars
  PROVE  ScanComplete'
<1> USE DEF ScanComplete, store, tick
<1>1. CASE Begin
  BY <1>1 DEF Begin
<1>2. CASE StartSweep
  BY <1>2 DEF StartSweep
<1>3. CASE PutClaim
  BY <1>3 DEF PutClaim
<1>4. CASE PutOutbox
  BY <1>4 DEF PutOutbox
<1>5. CASE RemovePointer
  BY <1>5 DEF RemovePointer, AfterPointer
<1>6. CASE KeepPointer
  BY <1>6 DEF KeepPointer, AfterPointer
<1>7. CASE ScanForPointer
  BY <1>7 DEF ScanForPointer
<1>8. CASE Terminalize
  BY <1>8 DEF Terminalize
<1>9. CASE DeleteIntent
  BY <1>9 DEF DeleteIntent
<1>10. CASE EndSweep
  BY <1>10 DEF EndSweep
<1>11. CASE PutIntent
  BY <1>11 DEF PutIntent
<1>12. CASE PutPointer
  BY <1>12 DEF PutPointer, AfterPointer
<1>13. CASE EndResume
  BY <1>13 DEF EndResume
<1>14. CASE Hold
  BY <1>14 DEF Hold
<1>15. CASE Bail
  BY <1>15 DEF Bail
<1>16. CASE Fail
  BY <1>16 DEF Fail
<1>17. CASE Advance
  BY <1>17 DEF Advance
<1>18. ASSUME NEW d \in Dispatches, DropTerminalIntent(d) PROVE ScanComplete'
  BY <1>18 DEF DropTerminalIntent
<1>19. ASSUME NEW d \in Dispatches, Recover(d) PROVE ScanComplete'
  BY <1>19 DEF Recover
<1>20. ASSUME NEW d \in Dispatches, RetirePointer(d) PROVE ScanComplete'
  BY <1>20 DEF RetirePointer
<1>21. ASSUME NEW d \in Dispatches, CountPointer(d) PROVE ScanComplete'
  BY <1>21 DEF CountPointer
<1>22. ASSUME NEW d \in Dispatches, Resume(d) PROVE ScanComplete'
  BY <1>22 DEF Resume
<1>23. ASSUME NEW d \in Dispatches, Admit(d) PROVE ScanComplete'
  BY <1>23 DEF Admit
<1>24. ASSUME NEW d \in Dispatches, Ingest(d) PROVE ScanComplete'
  BY <1>24 DEF Ingest
<1>25. CASE UNCHANGED vars
  BY <1>25 DEF vars, store, tick
<1> QED
  BY <1>1, <1>2, <1>3, <1>4, <1>5, <1>6, <1>7, <1>8, <1>9, <1>10, <1>11, <1>12, <1>13,
     <1>14, <1>15, <1>16, <1>17, <1>18, <1>19, <1>20, <1>21, <1>22, <1>23, <1>24, <1>25
     DEF Next, TickStep

(***************************************************************************)
(* A dispatch that is over stays over, and is given no pointer again.      *)
(***************************************************************************)
LEMMA OverStep ==
  ASSUME TypeOK, ChainComplete, InHand, IntentsKnown, ScanComplete, OverForGood, [Next]_vars
  PROVE  OverForGood'
<1> USE DispatchAssumption DEF OverForGood, TypeOK, Pending, InHand, Retired, Expired, Terminal, Writing, Launching, store, tick
<1>1. CASE Begin
  BY <1>1 DEF Begin, TypeOK
<1>2. CASE StartSweep
  BY <1>2 DEF StartSweep
<1>3. CASE PutClaim
  BY <1>3 DEF PutClaim, TypeOK, InHand, Pending, IntentsKnown, Intents, ChainComplete
<1>4. CASE PutOutbox
  BY <1>4 DEF PutOutbox, WantsPointer, InHand, Pending, Intents, IntentsKnown, TypeOK, ChainComplete
<1>5. CASE RemovePointer
  BY <1>5 DEF RemovePointer, AfterPointer, InHand, Pending, TypeOK
<1>6. CASE KeepPointer
  BY <1>6 DEF KeepPointer, AfterPointer, InHand
<1>7. CASE ScanForPointer
  BY <1>7 DEF ScanForPointer, InHand
<1>8. CASE Terminalize
  BY <1>8 DEF Terminalize, TypeOK, InHand, Pending, IntentsKnown, Intents, ChainComplete
<1>9. CASE DeleteIntent
  BY <1>9 DEF DeleteIntent, TypeOK, InHand, Pending, IntentsKnown, Intents, ChainComplete
<1>10. CASE EndSweep
  BY <1>10 DEF EndSweep
<1>11. CASE PutIntent
  BY <1>11 DEF PutIntent, TypeOK, InHand, Pending, IntentsKnown, Intents, ChainComplete
<1>12. CASE PutPointer
  BY <1>12 DEF PutPointer, AfterPointer, TypeOK, InHand, Pending, IntentsKnown, Intents, ChainComplete
<1>13. CASE EndResume
  BY <1>13 DEF EndResume
<1>14. CASE Hold
  BY <1>14 DEF Hold
<1>15. CASE Bail
  BY <1>15 DEF Bail
<1>16. CASE Fail
  BY <1>16 DEF Fail
<1>17. CASE Advance
  BY <1>17 DEF Advance, TypeOK
<1>18. ASSUME NEW d \in Dispatches, DropTerminalIntent(d) PROVE OverForGood'
  BY <1>18 DEF DropTerminalIntent, TypeOK, InHand, Pending, IntentsKnown, Intents, ChainComplete
<1>19. ASSUME NEW d \in Dispatches, Recover(d) PROVE OverForGood'
  BY <1>19 DEF Recover
<1>20. ASSUME NEW d \in Dispatches, RetirePointer(d) PROVE OverForGood'
  BY <1>20 DEF RetirePointer
<1>21. ASSUME NEW d \in Dispatches, CountPointer(d) PROVE OverForGood'
  BY <1>21 DEF CountPointer
<1>22. ASSUME NEW d \in Dispatches, Resume(d) PROVE OverForGood'
  BY <1>22 DEF Resume
<1>23. ASSUME NEW d \in Dispatches, Admit(d) PROVE OverForGood'
  BY <1>23 DEF Admit, ChainComplete, TypeOK
<1>24. ASSUME NEW d \in Dispatches, Ingest(d) PROVE OverForGood'
  BY <1>24 DEF Ingest
<1>25. CASE UNCHANGED vars
  BY <1>25 DEF vars, store, tick
<1> QED
  BY <1>1, <1>2, <1>3, <1>4, <1>5, <1>6, <1>7, <1>8, <1>9, <1>10, <1>11, <1>12, <1>13,
     <1>14, <1>15, <1>16, <1>17, <1>18, <1>19, <1>20, <1>21, <1>22, <1>23, <1>24, <1>25
     DEF Next, TickStep

(***************************************************************************)
(* A launch is admitted only where the union of pending intents and        *)
(* pointers leaves room, and turning an intent into a pointer does not     *)
(* grow the union.                                                         *)
(***************************************************************************)
LEMMA UnionStep ==
  ASSUME TypeOK, ChainComplete, InHand, IntentsKnown, ScanComplete,
         UnionBounded, OverForGood, [Next]_vars
  PROVE  UnionBounded'
<1> DEFINE union == frontier \cup Pending
<1>1. /\ IsFiniteSet(union) /\ IsFiniteSet(frontier)
      /\ Cardinality(union) \in Nat /\ Cardinality(frontier) \in Nat
  <2>1. union \subseteq Dispatches /\ frontier \subseteq Dispatches
    BY DEF TypeOK, Pending
  <2> QED
    BY <2>1, DispatchAssumption, FS_Subset, FS_CardinalityType
<1>2. CASE PutIntent
  <2>1. frontier = counted /\ Pending = {} /\ cur \notin frontier
    BY <1>2 DEF PutIntent, ScanComplete, IntentsKnown, InHand, ChainComplete,
           Launching, Writing, Intents, Pending
  <2>2. Cardinality(frontier) < Cap
    <3>1. ActiveDispatches = frontier
      BY <2>1 DEF ActiveDispatches
    <3> QED
      BY <1>1, <1>2, <2>1, <3>1, DispatchAssumption, BoundsAssumption
         DEF PutIntent, HasRoom, TypeOK
  <2>3. union' \subseteq frontier \cup {cur}
    BY <1>2, <2>1 DEF PutIntent, TypeOK, Pending
  <2>4. /\ IsFiniteSet(frontier \cup {cur})
        /\ Cardinality(frontier \cup {cur}) = Cardinality(frontier) + 1
    BY <1>1, <2>1, FS_AddElement
  <2>5. Cardinality(union') <= Cardinality(frontier \cup {cur})
    BY <2>3, <2>4, FS_Subset
  <2>6. Cardinality(union') \in Nat
    BY <2>3, <2>4, FS_Subset, FS_CardinalityType
  <2> QED
    BY <1>1, <2>2, <2>4, <2>5, <2>6, BoundsAssumption DEF UnionBounded
<1>3. CASE ~PutIntent
  <2>1. union' \subseteq union
    <3>1. CASE PutPointer
      <4>1. cur \in Pending
        BY <3>1 DEF PutPointer, InHand, Launching, Writing, Pending, TypeOK,
               OverForGood
      <4> QED
        BY <3>1, <4>1 DEF PutPointer, Pending
    <3>2. CASE ~PutPointer
      <4>1. frontier' \subseteq frontier
        BY <1>3, <3>2 DEF Next, TickStep, vars, store, tick, Begin, StartSweep,
               PutClaim, PutOutbox, RemovePointer, KeepPointer, ScanForPointer,
               Terminalize, DeleteIntent, EndSweep, EndResume, Hold, Bail,
               DropTerminalIntent, Recover, RetirePointer, CountPointer, Resume,
               Admit, Fail, Advance, Ingest
      <4>2. Pending' \subseteq Pending
        BY <1>3, <3>2 DEF Next, TickStep, vars, store, tick, Begin, StartSweep,
               PutClaim, PutOutbox, RemovePointer, KeepPointer, ScanForPointer,
               Terminalize, DeleteIntent, EndSweep, EndResume, Hold, Bail,
               DropTerminalIntent, Recover, RetirePointer, CountPointer, Resume,
               Admit, Fail, Advance, Ingest, Pending, TypeOK
      <4> QED
        BY <4>1, <4>2
    <3> QED
      BY <3>1, <3>2
  <2>2. Cardinality(union') <= Cardinality(union) /\ Cardinality(union') \in Nat
    BY <1>1, <2>1, FS_Subset, FS_CardinalityType
  <2> QED
    BY <1>1, <2>2, BoundsAssumption DEF UnionBounded
<1> QED
  BY <1>2, <1>3

(***************************************************************************)
(* Every reachable state of the launch chain, between any two writes of a  *)
(* tick and after any crash, satisfies the invariant.                      *)
(***************************************************************************)
THEOREM ChainInvariant == Spec => [](TypeOK /\ ChainInv)
<1>1. Init => TypeOK /\ ChainInv
  <2> SUFFICES ASSUME Init PROVE TypeOK /\ ChainInv
    OBVIOUS
  <2> USE DispatchAssumption, BoundsAssumption DEF Init
  <2>1. TypeOK /\ ChainComplete /\ InHand /\ ScanComplete
    BY DEF TypeOK, Locations, ChainComplete, InHand, ScanComplete, Writing, Launching
  <2>2. IntentsKnown /\ OverForGood
    BY DEF IntentsKnown, OneIntent, Intents, Writing, Launching, OverForGood
  <2>3. UnionBounded
    <3>1. frontier \cup Pending = {}
      BY DEF Pending
    <3> QED
      BY <3>1, FS_EmptySet DEF UnionBounded
  <2> QED
    BY <2>1, <2>2, <2>3 DEF ChainInv
<1>2. TypeOK /\ ChainInv /\ [Next]_vars
        => (TypeOK /\ ChainInv)'
  BY TypingStep, ChainCompleteStep, InHandStep, IntentsStep, ScanStep, OverStep,
     UnionStep DEF ChainInv
<1> QED
  BY <1>1, <1>2, PTL DEF Spec

(***************************************************************************)
(* A pointer always leads to an outbox record and a claim, a terminal      *)
(* intent has its whole chain, and a claimed fanout has its train result,  *)
(* for any finite set of dispatches and whatever write a tick dies at.     *)
(***************************************************************************)
THEOREM CompleteChains == Spec => []ChainComplete
BY ChainInvariant, PTL DEF ChainInv

(***************************************************************************)
(* The union of pending intents and pointers keeps within the bound, for   *)
(* every bound and any finite set of dispatches.                           *)
(***************************************************************************)
THEOREM BoundedUnion == Spec => []UnionBounded
BY ChainInvariant, PTL DEF ChainInv

(***************************************************************************)
(* There is at most one intent in any reachable state.                     *)
(***************************************************************************)
THEOREM SingleIntent == Spec => []OneIntent
BY ChainInvariant, PTL DEF ChainInv, IntentsKnown

(***************************************************************************)
(* Every write of a tick is a step of the life of one dispatch, or is      *)
(* invisible to it.                                                        *)
(***************************************************************************)
LEMMA LifecycleStep ==
  ASSUME TypeOK, ChainInv, [Next]_vars
  PROVE  [Lifecycle!Next]_Phase
<1> USE DEF ChainInv
<1>1. CASE PutIntent
  <2>1. /\ cur \in Dispatches
        /\ cur \notin claims /\ cur \notin frontier /\ cur \notin published
        /\ Pending = {} /\ frontier = counted
    BY <1>1 DEF PutIntent, ScanComplete, IntentsKnown, InHand, ChainComplete,
           Launching, Writing, Intents, Pending, OverForGood, TypeOK
  <2>2. Phase[cur] = "unborn"
    BY <2>1 DEF Phase, PhaseOf
  <2>3. Lifecycle!Cardinality(Lifecycle!Live(Phase)) < Cap
    <3>1. Lifecycle!Live(Phase) = frontier
      BY <2>1 DEF Lifecycle!Live, Phase, PhaseOf, TypeOK
    <3>2. ActiveDispatches = frontier
      BY <2>1 DEF ActiveDispatches
    <3>3. Cardinality(frontier) < Cap
      BY <1>1, <2>1, <3>2, DispatchAssumption DEF PutIntent, HasRoom
    <3>4. Lifecycle!Cardinality(frontier) = Cardinality(frontier)
      BY DEF Cardinality, Lifecycle!Cardinality
    <3> QED
      BY <3>1, <3>3, <3>4
  <2>4. Phase' = [Phase EXCEPT ![cur] = "reserved"]
    BY <1>1, <2>1 DEF PutIntent, Phase, PhaseOf, Pending, TypeOK
  <2>5. Lifecycle!Reserve(cur)
    BY <2>2, <2>3, <2>4 DEF Lifecycle!Reserve
  <2> QED
    BY <2>1, <2>5 DEF Lifecycle!Next
<1>2. CASE PutPointer
  <2>1. /\ cur \in Pending /\ cur \in Dispatches
        /\ cur \notin frontier /\ cur \notin published
    BY <1>2 DEF PutPointer, InHand, Launching, Writing, Pending, TypeOK,
           OverForGood, ScanComplete
  <2>2. Phase[cur] = "reserved"
    BY <2>1 DEF Phase, PhaseOf
  <2>3. Phase' = [Phase EXCEPT ![cur] = "launched"]
    BY <1>2, <2>1 DEF PutPointer, Phase, PhaseOf, Pending
  <2> QED
    BY <2>1, <2>2, <2>3 DEF Lifecycle!Next, Lifecycle!Launch
<1>3. CASE RemovePointer
  <2>1. CASE cur \in frontier
    <3>1. cur \in Dispatches /\ cur \in published
      BY <2>1 DEF TypeOK, OverForGood
    <3>2. Phase[cur] = "launched"
      BY <2>1, <3>1 DEF Phase, PhaseOf
    <3>3. Phase' = [Phase EXCEPT ![cur] = "retired"]
      BY <1>3, <2>1, <3>1 DEF RemovePointer, Phase, PhaseOf, Pending
    <3> QED
      BY <3>1, <3>2, <3>3 DEF Lifecycle!Next, Lifecycle!Retire
  <2>2. CASE cur \notin frontier
    BY <1>3, <2>2 DEF RemovePointer, Phase, PhaseOf, Pending
  <2> QED
    BY <2>1, <2>2
<1>4. ASSUME NEW d \in Dispatches, RetirePointer(d) PROVE [Lifecycle!Next]_Phase
  <2>1. d \in frontier /\ d \in published
    BY <1>4 DEF RetirePointer, ScanComplete, OverForGood
  <2>2. Phase[d] = "launched"
    BY <2>1 DEF Phase, PhaseOf
  <2>3. Phase' = [Phase EXCEPT ![d] = "retired"]
    BY <1>4, <2>1 DEF RetirePointer, Phase, PhaseOf, Pending
  <2> QED
    BY <2>2, <2>3 DEF Lifecycle!Next, Lifecycle!Retire
<1>5. CASE Terminalize
  <2>1. cur \in Dispatches /\ cur \in Pending /\ cur \in claims
    BY <1>5 DEF Terminalize, TypeOK, Pending
  <2>2. Pending' = Pending \ {cur}
    BY <1>5, <2>1 DEF Terminalize, TypeOK, Pending
  <2>3. CASE cur \in frontier \cup published
    BY <1>5, <2>2, <2>3 DEF Terminalize, Phase, PhaseOf
  <2>4. CASE cur \notin frontier \cup published
    <3>1. Phase[cur] = "reserved"
      BY <2>1, <2>4 DEF Phase, PhaseOf
    <3>2. Phase' = [Phase EXCEPT ![cur] = "retired"]
      BY <1>5, <2>1, <2>2, <2>4 DEF Terminalize, Phase, PhaseOf
    <3> QED
      BY <2>1, <3>1, <3>2 DEF Lifecycle!Next, Lifecycle!Retire
  <2> QED
    BY <2>3, <2>4
<1>6. CASE PutClaim
  <2>1. cur \in Pending
    BY <1>6 DEF PutClaim, InHand, Launching, Writing, Pending, TypeOK
  <2>2. UNCHANGED <<frontier, published, Pending>> /\ claims' = claims \cup {cur}
    BY <1>6 DEF PutClaim, Pending
  <2> QED
    BY <2>1, <2>2 DEF Phase, PhaseOf
<1>7. CASE DeleteIntent
  <2>1. intent[cur] = "terminal"
    BY <1>7 DEF DeleteIntent, InHand, Launching, Writing
  <2>2. Pending' = Pending
    BY <1>7, <2>1 DEF DeleteIntent, Pending, TypeOK
  <2> QED
    BY <1>7, <2>2 DEF DeleteIntent, Phase, PhaseOf
<1>8. ASSUME NEW d \in Dispatches, DropTerminalIntent(d) PROVE [Lifecycle!Next]_Phase
  <2>1. Pending' = Pending
    BY <1>8 DEF DropTerminalIntent, Pending, TypeOK
  <2> QED
    BY <1>8, <2>1 DEF DropTerminalIntent, Phase, PhaseOf
<1>9. CASE UNCHANGED <<intent, claims, frontier, published>>
  BY <1>9 DEF Phase, PhaseOf, Pending
<1> QED
  BY <1>1, <1>2, <1>3, <1>4, <1>5, <1>6, <1>7, <1>8, <1>9
     DEF Next, TickStep, vars, store, tick, Begin, StartSweep, PutOutbox,
         KeepPointer, ScanForPointer, EndSweep, EndResume, Hold, Bail, Recover,
         CountPointer, Resume, Admit, Fail, Advance, Ingest

(***************************************************************************)
(* The launch chain implements LaunchLifecycle: every dispatch is          *)
(* reserved, launched and retired at most once and never comes back, with  *)
(* at most Cap reserved or launched together, through any crash, recovery  *)
(* and late result.                                                        *)
(***************************************************************************)
THEOREM Implements == Spec => ImplementsLifecycle
<1>1. Init => Lifecycle!Init
  BY DEF Init, Lifecycle!Init, Phase, PhaseOf, Pending
<1>2. TypeOK /\ ChainInv /\ [Next]_vars
        => [Lifecycle!Next]_Phase
  BY LifecycleStep DEF ChainInv
<1> QED
  BY <1>1, <1>2, ChainInvariant, PTL DEF Spec, ImplementsLifecycle, Lifecycle!Spec
=============================================================================
