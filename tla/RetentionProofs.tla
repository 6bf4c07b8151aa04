-------------------------- MODULE RetentionProofs --------------------------
(***************************************************************************)
(* Proofs about retention, for any number of writes, sources and ticks and *)
(* any durations within DurationsAssumption.                               *)
(***************************************************************************)
EXTENDS Retention, TLAPS

(***************************************************************************)
(* Type correctness, through every write, every expiry and every crash.    *)
(***************************************************************************)
THEOREM Typing == Spec => []TypeOK
<1> USE SourcesAssumption, BoundsAssumption, NothingAssumption
<1>1. Init => TypeOK
  BY DEF Init, TypeOK
<1>2. TypeOK /\ [Next]_vars => TypeOK'
  <2> SUFFICES ASSUME TypeOK, [Next]_vars PROVE TypeOK'
    OBVIOUS
  <2> USE DEF TypeOK, Record, Tombstone
  <2>1. ASSUME NEW w \in Writers, Begin(w) PROVE TypeOK'
    BY <2>1 DEF Begin, Goto, Bytes, MarkerOf, store, tick
  <2>2. ASSUME NEW w \in Writers, Refuse(w) PROVE TypeOK'
    BY <2>2 DEF Refuse, Goto, Bytes, MarkerOf, store, tick
  <2>3. ASSUME NEW w \in Writers, PutFrontier(w) PROVE TypeOK'
    BY <2>3 DEF PutFrontier, Goto, Bytes, MarkerOf, store, tick
  <2>4. ASSUME NEW w \in Writers, Look(w) PROVE TypeOK'
    BY <2>4 DEF Look, Goto, Bytes, MarkerOf, store, tick
  <2>5. ASSUME NEW w \in Writers, PutMarker(w) PROVE TypeOK'
    BY <2>5 DEF PutMarker, Goto, Bytes, MarkerOf, store, tick
  <2>6. ASSUME NEW w \in Writers, PutObject(w) PROVE TypeOK'
    BY <2>6 DEF PutObject, Goto, Bytes, MarkerOf, store, tick
  <2>7. ASSUME NEW w \in Writers, ObjectSame(w) PROVE TypeOK'
    BY <2>7 DEF ObjectSame, Goto, Bytes, MarkerOf, store, tick
  <2>8. ASSUME NEW w \in Writers, ObjectDiffers(w) PROVE TypeOK'
    BY <2>8 DEF ObjectDiffers, Goto, Bytes, MarkerOf, store, tick
  <2>9. ASSUME NEW w \in Writers, DropOwnMarker(w) PROVE TypeOK'
    BY <2>9 DEF DropOwnMarker, Goto, Bytes, MarkerOf, store, tick
  <2>10. ASSUME NEW w \in Writers, Finish(w) PROVE TypeOK'
    BY <2>10 DEF Finish, Goto, Bytes, MarkerOf, store, tick
  <2>11. ASSUME NEW w \in Writers, Cancel(w) PROVE TypeOK'
    BY <2>11 DEF Cancel, Goto, Bytes, MarkerOf, store, tick
  <2>12. CASE StartExpiry
    BY <2>12 DEF StartExpiry, store, writes, DueBatch
  <2>13. CASE ReadMissing
    BY <2>13 DEF ReadMissing, store, writes
  <2>14. CASE DropLostMarker
    BY <2>14 DEF DropLostMarker, store, writes
  <2>15. CASE ReadDiffers
    BY <2>15 DEF ReadDiffers, store, writes
  <2>16. CASE Defer
    BY <2>16 DEF Defer, store, writes
  <2>17. CASE DeleteObject
    BY <2>17 DEF DeleteObject, store, writes
  <2>18. CASE DeleteMarker
    BY <2>18 DEF DeleteMarker, store, writes
  <2>19. CASE DeleteFrontier
    BY <2>19 DEF DeleteFrontier, store, writes
  <2>20. CASE EndExpiry
    BY <2>20 DEF EndExpiry, store, writes
  <2>21. ASSUME NEW m \in batch, Bury(m) PROVE TypeOK'
    BY <2>21 DEF Bury, writes
  <2>22. ASSUME NEW m \in batch, BuryCollides(m) PROVE TypeOK'
    BY <2>22 DEF BuryCollides, store, writes
  <2>26. ASSUME NEW s \in Traces, StartClaim(s) PROVE TypeOK'
    BY <2>26 DEF StartClaim, store, writes
  <2>27. CASE PutClaim
    BY <2>27 DEF PutClaim, writes
  <2>28. CASE DropClaimedFrontier
    BY <2>28 DEF DropClaimedFrontier, writes
  <2>23. CASE Crash
    BY <2>23 DEF Crash, store, writes
  <2>24. CASE Advance
    BY <2>24 DEF Advance, store, writes, tick
  <2>25. CASE UNCHANGED vars
    BY <2>25 DEF vars, store, writes, tick
  <2> QED
    BY <2>1, <2>2, <2>3, <2>4, <2>5, <2>6, <2>7, <2>8, <2>9, <2>10, <2>11,
       <2>12, <2>13, <2>14, <2>15, <2>16, <2>17, <2>18, <2>19, <2>20,
       <2>21, <2>22, <2>23, <2>24, <2>25, <2>26, <2>27, <2>28 DEF Next, WriteStep, TickStep
<1> QED
  BY <1>1, <1>2, PTL DEF Spec

-----------------------------------------------------------------------------
(* Why neither the tick nor another request can undo a write in progress.  *)


\* Whatever a write in progress marks is not due yet.
LEMMA Young ==
  ASSUME TypeOK, RetentionInv, NEW w \in Writers, Writing(w)
  PROVE  clock < MarkerOf(w).due
<1> USE SourcesAssumption, BoundsAssumption, DurationsAssumption
<1>1. began[w] \in Nat /\ clock \in Nat /\ clock <= began[w] + Span
  BY DEF TypeOK, RetentionInv, WriterInv
<1> QED
  BY <1>1 DEF MarkerOf, Bytes

\* The tombstone of a source that is being written is too young to delete it.
LEMMA Protected ==
  ASSUME TypeOK, RetentionInv, NEW w \in Writers, Writing(w),
         Tombstoned(SourceOf[w])
  PROVE  clock < tombstones[SourceOf[w]].at + Grace
<1> USE SourcesAssumption, BoundsAssumption, DurationsAssumption
<1>1. began[w] \in Nat /\ clock \in Nat /\ clock <= began[w] + Span
  BY DEF TypeOK, RetentionInv, WriterInv
<1>2. tombstones[SourceOf[w]].at \in Nat
  BY DEF TypeOK, Tombstone, Tombstoned
<1>3. began[w] <= tombstones[SourceOf[w]].at
  BY DEF RetentionInv, WriterInv
<1> QED
  BY <1>1, <1>2, <1>3

\* A source that was deleted is not being written.
LEMMA NotDeleted ==
  ASSUME TypeOK, RetentionInv, NEW w \in Writers, Writing(w)
  PROVE  SourceOf[w] \notin deleted
<1> USE SourcesAssumption
<1> SUFFICES ASSUME SourceOf[w] \in deleted PROVE FALSE
  OBVIOUS
<1>1. /\ Tombstoned(SourceOf[w])
      /\ tombstones[SourceOf[w]].at + Grace <= clock
  BY DEF RetentionInv, TombstoneInv
<1>2. clock < tombstones[SourceOf[w]].at + Grace
  BY <1>1, Protected
<1>3. tombstones[SourceOf[w]].at \in Nat /\ clock \in Nat
  BY <1>1 DEF TypeOK, Tombstone, Tombstoned
<1> QED
  BY <1>1, <1>2, <1>3, BoundsAssumption

\* The tick never visits the marker of a write in progress.
LEMMA NotVisited ==
  ASSUME TypeOK, RetentionInv, Visiting, NEW w \in Writers, Writing(w)
  PROVE  /\ cur # MarkerOf(w)
         /\ SourceOf[w] \in Traces => cur.source # SourceOf[w]
<1> USE SourcesAssumption, BoundsAssumption
<1>1. /\ cur.due <= tnow /\ tnow <= clock /\ Owned(cur)
      /\ cur.due \in Nat /\ tnow \in Nat /\ clock \in Nat
  BY DEF RetentionInv, TickInv, TypeOK, Visiting, Record
<1>2. clock < MarkerOf(w).due /\ MarkerOf(w).due \in Nat
  BY Young DEF MarkerOf, Bytes, TypeOK
<1>3. cur # MarkerOf(w)
  BY <1>1, <1>2
<1>4. PICK v \in Writers : cur = MarkerOf(v)
  BY <1>1 DEF Owned
<1>5. cur.source = SourceOf[v]
  BY <1>4 DEF MarkerOf, Bytes
<1> QED
  BY <1>3, <1>4, <1>5, TraceIdsAssumption

(***************************************************************************)
(* RetentionInv is inductive: every store operation of a write and of a    *)
(* tick preserves it.                                                      *)
(***************************************************************************)
LEMMA Preserved ==
  ASSUME TypeOK, TypeOK', RetentionInv, [Next]_vars
  PROVE  RetentionInv'
<1> USE SourcesAssumption, BoundsAssumption, NothingAssumption
<1>1. ASSUME NEW w \in Writers, Begin(w) PROVE RetentionInv'
  <2>1. SourcesIndexed' /\ DeletedForGood' /\ TickInv' /\ TombstoneInv'
    BY <1>1 DEF Begin, Goto, store, tick, RetentionInv, SourcesIndexed,
       DeletedForGood, TickInv, Visiting, Owned, Tombstoned, MarkerOf,
       Bytes, TombstoneInv, TypeOK
  <2>2. \A v \in Writers : WriterInv(v)'
    <3>1. began[w]' = clock /\ clock \in Nat /\ Writing(w)' /\ pc'[w] \in {"frontier", "look"}
      BY <1>1 DEF Begin, Goto, Writing, TypeOK
    <3>2. WriterInv(w)'
      <4>1. ~Tombstoned(SourceOf[w])'
        BY <1>1 DEF Begin, SourceLive, Tombstoned, store
      <4>2. pc'[w] = "frontier" <=> SourceOf[w] \in Traces
        BY <1>1 DEF Begin, Goto, TypeOK
      <4> QED
        BY <1>1, <3>1, <4>1, <4>2 DEF Begin, WriterInv, store
    <3>3. ASSUME NEW v \in Writers, v # w PROVE WriterInv(v)'
      BY <1>1, <3>3 DEF Begin, Goto, store, tick, RetentionInv, WriterInv, Writing,
         Tombstoned, MarkerOf, Bytes, TypeOK
    <3> QED
      BY <3>2, <3>3
  <2> QED
    BY <2>1, <2>2 DEF RetentionInv
<1>2. ASSUME NEW w \in Writers, Refuse(w) PROVE RetentionInv'
  BY <1>2 DEF Refuse, Goto, store, tick, RetentionInv, SourcesIndexed,
     DeletedForGood, WriterInv, Writing, Tombstoned, MarkerOf, Bytes,
     TickInv, Visiting, Owned, TombstoneInv, TypeOK
<1>3. ASSUME NEW w \in Writers, PutFrontier(w) PROVE RetentionInv'
  BY <1>3 DEF PutFrontier, Goto, store, tick, RetentionInv,
     SourcesIndexed, DeletedForGood, WriterInv, Writing, Tombstoned,
     MarkerOf, Bytes, TickInv, Visiting, Owned, TombstoneInv, TypeOK
<1>4. ASSUME NEW w \in Writers, Look(w) PROVE RetentionInv'
  BY <1>4 DEF Look, Goto, store, tick, RetentionInv, SourcesIndexed,
     DeletedForGood, WriterInv, Writing, Tombstoned, MarkerOf, Bytes,
     TickInv, Visiting, Owned, TombstoneInv, TypeOK
<1>5. ASSUME NEW w \in Writers, PutMarker(w) PROVE RetentionInv'
  BY <1>5 DEF PutMarker, Goto, store, tick, RetentionInv, SourcesIndexed,
     DeletedForGood, WriterInv, Writing, Tombstoned, MarkerOf, Bytes,
     TickInv, Visiting, Owned, TombstoneInv, TypeOK
<1>6. ASSUME NEW w \in Writers, PutObject(w) PROVE RetentionInv'
  <2>1. TombstoneInv'
    BY <1>6 DEF PutObject, Goto, store, tick, RetentionInv, TombstoneInv,
       Tombstoned, TypeOK
  <2>2. \A v \in Writers : WriterInv(v)'
    BY <1>6 DEF PutObject, Goto, store, tick, RetentionInv, WriterInv,
       Writing, Tombstoned, MarkerOf, Bytes, TypeOK
  <2>3. SourcesIndexed'
    <3>1. MarkerOf(w) \in markers
      BY <1>6 DEF PutObject, RetentionInv, WriterInv
    <3>2. SourceOf[w] \in Traces => SourceOf[w] \in frontiers \cup claimed
      BY <1>6 DEF PutObject, RetentionInv, WriterInv, Writing
    <3> QED
      BY <1>6, <3>1, <3>2 DEF PutObject, RetentionInv, SourcesIndexed, MarkerOf, TypeOK
  <2>4. DeletedForGood'
    <3>1. SourceOf[w] \notin deleted
      BY <1>6, NotDeleted DEF PutObject, Writing
    <3> QED
      BY <1>6, <3>1 DEF PutObject, RetentionInv, DeletedForGood, TypeOK
  <2>5. TickInv'
    <3>1. Visiting => cur # Bytes(w)
      BY <1>6, NotVisited DEF PutObject, Writing, MarkerOf
    <3>2. ASSUME NEW m, Owned(m) PROVE Owned(m)'
      BY <1>6, <3>2 DEF PutObject, Goto, Owned, MarkerOf, Bytes, TypeOK
    <3>3. Visiting => cur.source \in Sources
      BY DEF Visiting, TypeOK, Record
    <3> QED
      BY <1>6, <3>1, <3>2, <3>3 DEF PutObject, tick, RetentionInv, TickInv, Visiting,
         Tombstoned, TypeOK
  <2> QED
    BY <2>1, <2>2, <2>3, <2>4, <2>5 DEF RetentionInv
<1>7. ASSUME NEW w \in Writers, ObjectSame(w) PROVE RetentionInv'
  BY <1>7 DEF ObjectSame, Goto, store, tick, RetentionInv, SourcesIndexed,
     DeletedForGood, WriterInv, Writing, Tombstoned, MarkerOf, Bytes,
     TickInv, Visiting, Owned, TombstoneInv, TypeOK
<1>8. ASSUME NEW w \in Writers, ObjectDiffers(w) PROVE RetentionInv'
  BY <1>8 DEF ObjectDiffers, Goto, store, tick, RetentionInv,
     SourcesIndexed, DeletedForGood, WriterInv, Writing, Tombstoned,
     MarkerOf, Bytes, TickInv, Visiting, Owned, TombstoneInv, TypeOK
<1>9. ASSUME NEW w \in Writers, DropOwnMarker(w) PROVE RetentionInv'
  <2>1. DeletedForGood' /\ TickInv' /\ TombstoneInv'
    BY <1>9 DEF DropOwnMarker, Goto, store, tick, RetentionInv,
       DeletedForGood, TickInv, Visiting, Owned, Tombstoned, MarkerOf,
       Bytes, TombstoneInv, TypeOK
  <2>2. \A v \in Writers : WriterInv(v)'
    BY <1>9 DEF DropOwnMarker, Goto, store, tick, RetentionInv, WriterInv,
       Writing, Tombstoned, MarkerOf, Bytes, TypeOK
  <2>3. SourcesIndexed'
    <3>1. objects[SourceOf[w]] # MarkerOf(w)
      BY <1>9 DEF DropOwnMarker, RetentionInv, WriterInv, MarkerOf
    <3>2. ASSUME NEW s \in Sources, objects[s] # Nothing PROVE objects[s] # MarkerOf(w)
      BY <3>1, <3>2 DEF TypeOK, MarkerOf, Bytes
    <3> QED
      BY <1>9, <3>2 DEF DropOwnMarker, RetentionInv, SourcesIndexed
  <2> QED
    BY <2>1, <2>2, <2>3 DEF RetentionInv
<1>10. ASSUME NEW w \in Writers, Finish(w) PROVE RetentionInv'
  BY <1>10 DEF Finish, Goto, store, tick, RetentionInv, SourcesIndexed,
     DeletedForGood, WriterInv, Writing, Tombstoned, MarkerOf, Bytes,
     TickInv, Visiting, Owned, TombstoneInv, TypeOK
<1>11. ASSUME NEW w \in Writers, Cancel(w) PROVE RetentionInv'
  BY <1>11 DEF Cancel, Goto, store, tick, RetentionInv, SourcesIndexed,
     DeletedForGood, WriterInv, Writing, Tombstoned, MarkerOf, Bytes,
     TickInv, Visiting, Owned, TombstoneInv, TypeOK
<1>12. CASE StartExpiry
  BY <1>12 DEF StartExpiry, store, writes, DueBatch, RetentionInv,
     SourcesIndexed, DeletedForGood, WriterInv, Writing, Tombstoned,
     MarkerOf, Bytes, TickInv, Visiting, Owned, TombstoneInv, TypeOK
<1>13. CASE ReadMissing
  <2>1. SourcesIndexed' /\ DeletedForGood' /\ TickInv' /\ TombstoneInv'
    BY <1>13 DEF ReadMissing, store, writes, RetentionInv, SourcesIndexed,
       DeletedForGood, TickInv, Visiting, Owned, Tombstoned, MarkerOf,
       Bytes, TombstoneInv, TypeOK
  <2>2. \A v \in Writers : WriterInv(v)'
    <3> SUFFICES ASSUME NEW v \in Writers PROVE WriterInv(v)'
      OBVIOUS
    <3>1. Visiting
      BY <1>13 DEF ReadMissing, Visiting
    <3>2. Writing(v) => cur # MarkerOf(v) /\ (SourceOf[v] \in Traces => cur.source # SourceOf[v])
      BY <3>1, NotVisited
    <3> QED
      BY <1>13, <3>2 DEF ReadMissing, writes, RetentionInv, WriterInv, Writing, Tombstoned,
         MarkerOf, Bytes, TypeOK
  <2> QED
    BY <2>1, <2>2 DEF RetentionInv
<1>14. CASE DropLostMarker
  <2>1. DeletedForGood' /\ TickInv' /\ TombstoneInv'
    BY <1>14 DEF DropLostMarker, store, writes, RetentionInv,
       DeletedForGood, TickInv, Visiting, Owned, Tombstoned, MarkerOf,
       Bytes, TombstoneInv, TypeOK
  <2>2. SourcesIndexed'
    <3>1. objects[cur.source] # cur /\ cur \in Record
      BY <1>14 DEF DropLostMarker, RetentionInv, TickInv, TypeOK
    <3>2. ASSUME NEW s \in Sources, objects[s] # Nothing PROVE objects[s] # cur
      BY <3>1, <3>2 DEF TypeOK
    <3> QED
      BY <1>14, <3>2 DEF DropLostMarker, RetentionInv, SourcesIndexed
  <2>3. \A v \in Writers : WriterInv(v)'
    <3> SUFFICES ASSUME NEW v \in Writers PROVE WriterInv(v)'
      OBVIOUS
    <3>1. Visiting
      BY <1>14 DEF DropLostMarker, Visiting
    <3>2. Writing(v) => cur # MarkerOf(v) /\ (SourceOf[v] \in Traces => cur.source # SourceOf[v])
      BY <3>1, NotVisited
    <3> QED
      BY <1>14, <3>2 DEF DropLostMarker, writes, RetentionInv, WriterInv, Writing, Tombstoned,
         MarkerOf, Bytes, TypeOK
  <2> QED
    BY <2>1, <2>2, <2>3 DEF RetentionInv
<1>15. CASE ReadDiffers
  BY <1>15 DEF ReadDiffers, store, writes, RetentionInv, SourcesIndexed,
     DeletedForGood, WriterInv, Writing, Tombstoned, MarkerOf, Bytes,
     TickInv, Visiting, Owned, TombstoneInv, TypeOK
<1>16. CASE Defer
  BY <1>16 DEF Defer, store, writes, RetentionInv, SourcesIndexed,
     DeletedForGood, WriterInv, Writing, Tombstoned, MarkerOf, Bytes,
     TickInv, Visiting, Owned, TombstoneInv, TypeOK
<1>17. CASE DeleteObject
  <2>1. SourcesIndexed' /\ DeletedForGood' /\ TickInv'
    BY <1>17 DEF DeleteObject, store, writes, RetentionInv,
       SourcesIndexed, DeletedForGood, TickInv, Visiting, Owned,
       Tombstoned, MarkerOf, Bytes, TypeOK
  <2>2. \A v \in Writers : WriterInv(v)'
    <3> SUFFICES ASSUME NEW v \in Writers PROVE WriterInv(v)'
      OBVIOUS
    <3>1. Visiting
      BY <1>17 DEF DeleteObject, Visiting
    <3>2. Tombstoned(cur.source) /\ tombstones[cur.source].at + Grace <= clock
      <4>1. tnow <= clock /\ Tombstoned(cur.source)
        BY <3>1 DEF RetentionInv, TickInv
      <4>2. cur.source \in Sources
        BY <3>1 DEF Visiting, TypeOK, Record
      <4>3. tombstones[cur.source].at \in Nat /\ tnow \in Nat /\ clock \in Nat
        BY <4>1, <4>2 DEF TypeOK, Tombstone, Tombstoned
      <4> QED
        BY <1>17, <4>1, <4>3 DEF DeleteObject
    <3>3. Writing(v) => SourceOf[v] # cur.source
      <4> SUFFICES ASSUME Writing(v), SourceOf[v] = cur.source PROVE FALSE
        OBVIOUS
      <4>1. clock < tombstones[cur.source].at + Grace
        BY <3>2, Protected
      <4>2. tombstones[cur.source].at \in Nat /\ clock \in Nat
        BY <3>2 DEF TypeOK, Tombstone, Tombstoned
      <4> QED
        BY <3>2, <4>1, <4>2
    <3> QED
      BY <1>17, <3>3 DEF DeleteObject, writes, RetentionInv, WriterInv, Writing,
         Tombstoned, MarkerOf, Bytes, TypeOK
  <2>3. TombstoneInv'
    <3>1. Visiting /\ tnow <= clock /\ Tombstoned(cur.source) /\ cur.source \in Sources
      BY <1>17 DEF DeleteObject, Visiting, RetentionInv, TickInv, TypeOK, Record
    <3>2. tombstones[cur.source].at \in Nat /\ tnow \in Nat /\ clock \in Nat
      BY <3>1 DEF TypeOK, Tombstone, Tombstoned
    <3>3. tombstones[cur.source].at + Grace <= clock
      BY <1>17, <3>1, <3>2 DEF DeleteObject
    <3> QED
      BY <1>17, <3>1, <3>3 DEF DeleteObject, RetentionInv, TombstoneInv, Tombstoned
  <2> QED
    BY <2>1, <2>2, <2>3 DEF RetentionInv
<1>18. CASE DeleteMarker
  <2>1. SourcesIndexed' /\ DeletedForGood' /\ TickInv' /\ TombstoneInv'
    BY <1>18 DEF DeleteMarker, store, writes, RetentionInv,
       SourcesIndexed, DeletedForGood, TickInv, Visiting, Owned,
       Tombstoned, MarkerOf, Bytes, TombstoneInv, TypeOK
  <2>2. \A v \in Writers : WriterInv(v)'
    <3> SUFFICES ASSUME NEW v \in Writers PROVE WriterInv(v)'
      OBVIOUS
    <3>1. Visiting
      BY <1>18 DEF DeleteMarker, Visiting
    <3>2. Writing(v) => cur # MarkerOf(v) /\ (SourceOf[v] \in Traces => cur.source # SourceOf[v])
      BY <3>1, NotVisited
    <3> QED
      BY <1>18, <3>2 DEF DeleteMarker, writes, RetentionInv, WriterInv, Writing, Tombstoned,
         MarkerOf, Bytes, TypeOK
  <2> QED
    BY <2>1, <2>2 DEF RetentionInv
<1>19. CASE DeleteFrontier
  <2>1. DeletedForGood' /\ TickInv' /\ TombstoneInv'
    BY <1>19 DEF DeleteFrontier, store, writes, RetentionInv,
       DeletedForGood, TickInv, Visiting, Owned, Tombstoned, MarkerOf,
       Bytes, TombstoneInv, TypeOK
  <2>2. SourcesIndexed'
    <3>1. objects[cur.source] = Nothing
      BY <1>19 DEF DeleteFrontier, RetentionInv, TickInv, DeletedForGood
    <3> QED
      BY <1>19, <3>1 DEF DeleteFrontier, RetentionInv, SourcesIndexed
  <2>3. \A v \in Writers : WriterInv(v)'
    <3> SUFFICES ASSUME NEW v \in Writers PROVE WriterInv(v)'
      OBVIOUS
    <3>1. Visiting
      BY <1>19 DEF DeleteFrontier, Visiting
    <3>2. Writing(v) => cur # MarkerOf(v) /\ (SourceOf[v] \in Traces => cur.source # SourceOf[v])
      BY <3>1, NotVisited
    <3> QED
      BY <1>19, <3>2 DEF DeleteFrontier, writes, RetentionInv, WriterInv, Writing, Tombstoned,
         MarkerOf, Bytes, TypeOK
  <2> QED
    BY <2>1, <2>2, <2>3 DEF RetentionInv
<1>20. CASE EndExpiry
  BY <1>20 DEF EndExpiry, store, writes, RetentionInv, SourcesIndexed,
     DeletedForGood, WriterInv, Writing, Tombstoned, MarkerOf, Bytes,
     TickInv, Visiting, Owned, TombstoneInv, TypeOK
<1>21. ASSUME NEW m \in batch, Bury(m) PROVE RetentionInv'
  <2>1. SourcesIndexed' /\ DeletedForGood'
    BY <1>21 DEF Bury, store, writes, RetentionInv, SourcesIndexed,
       DeletedForGood, TypeOK
  <2>2. \A v \in Writers : WriterInv(v)'
    BY <1>21 DEF Bury, store, writes, RetentionInv, WriterInv, Writing,
       Tombstoned, MarkerOf, Bytes, TypeOK
  <2>3. TickInv'
    <3>1. m.due <= tnow /\ Owned(m) /\ m.source \in Sources /\ m.due \in Nat
      BY <1>21 DEF RetentionInv, TickInv, TypeOK, Record
    <3>2. ASSUME NEW n, Owned(n) PROVE Owned(n)'
      BY <1>21, <3>2 DEF Bury, writes, Owned, MarkerOf, Bytes
    <3>3. Tombstoned(m.source)' /\ tombstones'[m.source].says = m.due
      <4>1. CASE ~Tombstoned(m.source)
        <5>1. tombstones'[m.source] = [says |-> m.due, at |-> clock]
          BY <1>21, <3>1, <4>1 DEF Bury, TypeOK
        <5> QED
          BY <3>1, <5>1 DEF Tombstoned, Tombstone, TypeOK
      <4>2. CASE Tombstoned(m.source)
        BY <1>21, <4>2 DEF Bury, Tombstoned
      <4> QED
        BY <4>1, <4>2
    <3> QED
      BY <1>21, <3>1, <3>2, <3>3 DEF Bury, RetentionInv, TickInv, Visiting
  <2>4. TombstoneInv'
    <3>1. m.due <= tnow /\ tnow <= clock /\ m.source \in Sources
      BY <1>21 DEF RetentionInv, TickInv, TypeOK, Record
    <3>2. m.due \in Nat /\ tnow \in Nat /\ clock \in Nat
      BY <1>21 DEF TypeOK, Record
    <3>3. CASE ~Tombstoned(m.source)
      <4>1. /\ tombstones' = [tombstones EXCEPT ![m.source] = [says |-> m.due, at |-> clock]]
            /\ UNCHANGED <<clock, deleted>>
        BY <1>21, <3>3 DEF Bury
      <4>2. m.source \notin deleted
        BY <3>3 DEF RetentionInv, TombstoneInv
      <4>3. ASSUME NEW s \in Sources, Tombstoned(s)'
            PROVE  tombstones'[s].says <= tombstones'[s].at /\ tombstones'[s].at <= clock
        <5>1. CASE s = m.source
          <6>1. tombstones'[s] = [says |-> m.due, at |-> clock]
            BY <4>1, <5>1 DEF TypeOK
          <6> QED
            BY <3>1, <3>2, <6>1
        <5>2. CASE s # m.source
          BY <4>1, <4>3, <5>2 DEF RetentionInv, TombstoneInv, Tombstoned, TypeOK
        <5> QED
          BY <5>1, <5>2
      <4>4. ASSUME NEW s \in deleted
            PROVE  Tombstoned(s)' /\ tombstones'[s].at + Grace <= clock
        BY <4>1, <4>2, <4>4 DEF RetentionInv, TombstoneInv, Tombstoned, TypeOK
      <4> QED
        BY <4>1, <4>3, <4>4 DEF TombstoneInv
    <3>4. CASE Tombstoned(m.source)
      BY <1>21, <3>4 DEF Bury, RetentionInv, TombstoneInv, Tombstoned
    <3> QED
      BY <3>3, <3>4
  <2> QED
    BY <2>1, <2>2, <2>3, <2>4 DEF RetentionInv
<1>22. ASSUME NEW m \in batch, BuryCollides(m) PROVE RetentionInv'
  BY <1>22 DEF BuryCollides, store, writes, RetentionInv, SourcesIndexed,
     DeletedForGood, WriterInv, Writing, Tombstoned, MarkerOf, Bytes,
     TickInv, Visiting, Owned, TombstoneInv, TypeOK
<1>26. ASSUME NEW s \in Traces, StartClaim(s) PROVE RetentionInv'
  BY <1>26 DEF StartClaim, store, writes, RetentionInv, SourcesIndexed,
     DeletedForGood, WriterInv, Writing, Tombstoned, MarkerOf, Bytes,
     TickInv, Visiting, Owned, TombstoneInv, TypeOK
<1>27. CASE PutClaim
  BY <1>27 DEF PutClaim, writes, RetentionInv, SourcesIndexed,
     DeletedForGood, WriterInv, Writing, Tombstoned, MarkerOf, Bytes,
     TickInv, Visiting, Owned, TombstoneInv, TypeOK
<1>28. CASE DropClaimedFrontier
  <2>1. cur.source \in claimed
    BY <1>28 DEF DropClaimedFrontier, RetentionInv, TickInv
  <2> QED
    BY <1>28, <2>1 DEF DropClaimedFrontier, writes, RetentionInv, SourcesIndexed,
       DeletedForGood, WriterInv, Writing, Tombstoned, MarkerOf, Bytes,
       TickInv, Visiting, Owned, TombstoneInv, TypeOK
<1>23. CASE Crash
  BY <1>23 DEF Crash, store, writes, RetentionInv, SourcesIndexed,
     DeletedForGood, WriterInv, Writing, Tombstoned, MarkerOf, Bytes,
     TickInv, Visiting, Owned, TombstoneInv, TypeOK
<1>24. CASE Advance
  <2>1. SourcesIndexed' /\ DeletedForGood' /\ TickInv'
    BY <1>24 DEF Advance, store, writes, tick, RetentionInv,
       SourcesIndexed, DeletedForGood, TickInv, Visiting, Owned,
       Tombstoned, MarkerOf, Bytes, TypeOK
  <2>2. \A v \in Writers : WriterInv(v)'
    BY <1>24 DEF Advance, store, writes, tick, RetentionInv, WriterInv,
       Writing, Tombstoned, MarkerOf, Bytes, TypeOK
  <2>3. TombstoneInv'
    <3>1. clock \in Nat /\ clock' = clock + 1 /\ UNCHANGED <<tombstones, deleted>>
      BY <1>24 DEF Advance, store, TypeOK
    <3>2. ASSUME NEW s \in Sources, Tombstoned(s)
          PROVE  tombstones[s].at \in Nat /\ tombstones[s].at <= clock
      BY <3>2 DEF RetentionInv, TombstoneInv, TypeOK, Tombstone, Tombstoned
    <3>3. deleted \subseteq Sources
      BY DEF TypeOK
    <3>4. ASSUME NEW s \in Sources, Tombstoned(s) PROVE tombstones[s].at <= clock'
      BY <3>1, <3>2, <3>4
    <3>5. ASSUME NEW s \in deleted PROVE tombstones[s].at + Grace <= clock'
      <4>1. Tombstoned(s) /\ tombstones[s].at + Grace <= clock
        BY DEF RetentionInv, TombstoneInv
      <4> QED
        BY <3>1, <3>2, <3>3, <4>1
    <3> QED
      BY <3>1, <3>4, <3>5 DEF RetentionInv, TombstoneInv, Tombstoned
  <2> QED
    BY <2>1, <2>2, <2>3 DEF RetentionInv
<1>25. CASE UNCHANGED vars
  BY <1>25 DEF vars, store, writes, tick, RetentionInv, SourcesIndexed,
     DeletedForGood, WriterInv, Writing, Tombstoned, MarkerOf, Bytes,
     TickInv, Visiting, Owned, TombstoneInv, TypeOK
<1> QED
  BY <1>1, <1>2, <1>3, <1>4, <1>5, <1>6, <1>7, <1>8, <1>9, <1>10, <1>11,
     <1>12, <1>13, <1>14, <1>15, <1>16, <1>17, <1>18, <1>19, <1>20, <1>21,
     <1>22, <1>23, <1>24, <1>25, <1>26, <1>27, <1>28 DEF Next, WriteStep, TickStep

(***************************************************************************)
(* RetentionInv in every reachable state: what a write has stored, what it *)
(* may still store, and what the tick has in hand, agree.                  *)
(***************************************************************************)
THEOREM Invariant == Spec => []RetentionInv
<1>1. Init => RetentionInv
  BY SourcesAssumption, BoundsAssumption
     DEF Init, RetentionInv, SourcesIndexed, DeletedForGood, WriterInv, Writing,
         Tombstoned, TickInv, Visiting, TombstoneInv
<1>2. TypeOK /\ TypeOK' /\ RetentionInv /\ [Next]_vars => RetentionInv'
  BY Preserved
<1> QED
  BY <1>1, <1>2, Typing, PTL DEF Spec

(***************************************************************************)
(* Whatever is stored is in the expiry index, and a trace has its frontier *)
(* or was claimed for a teacher (persist_event, persist_outcome,           *)
(* expire_due, persist_teacher_claim).                                     *)
(***************************************************************************)
THEOREM Indexed == Spec => []SourcesIndexed
<1>1. RetentionInv => SourcesIndexed
  BY DEF RetentionInv
<1> QED
  BY <1>1, Invariant, PTL

(***************************************************************************)
(* What expire_due deleted is never stored again.                          *)
(***************************************************************************)
THEOREM GoneForGood == Spec => []DeletedForGood
<1>1. RetentionInv => DeletedForGood
  BY DEF RetentionInv
<1> QED
  BY <1>1, Invariant, PTL

(***************************************************************************)
(* A stored source keeps its bytes until its retention and the grace       *)
(* period are over.                                                        *)
(***************************************************************************)
THEOREM Kept == Spec => KeptUntilDue
<1> USE SourcesAssumption, BoundsAssumption
<1> DEFINE Keeps(s) == \/ objects'[s] = objects[s]
                       \/ objects'[s] = Nothing /\ objects[s].due + Grace <= clock
<1>1. ASSUME TypeOK, RetentionInv, [Next]_vars, NEW s \in Sources, objects[s] # Nothing
      PROVE  Keeps(s)
  <2>1. CASE UNCHANGED objects
    BY <2>1
  <2>2. ASSUME NEW w \in Writers, PutObject(w) PROVE Keeps(s)
    BY <1>1, <2>2 DEF PutObject, TypeOK
  <2>3. CASE DeleteObject
    <3>1. CASE s = cur.source
      <4>1. objects[s] = cur /\ tombstones[s].at + Grace <= tnow /\ Visiting
        BY <2>3, <3>1 DEF DeleteObject, Visiting
      <4>2. /\ tnow <= clock /\ Tombstoned(s)
            /\ tombstones[s].says = cur.due /\ cur.due <= tombstones[s].at
        BY <1>1, <3>1, <4>1 DEF RetentionInv, TickInv, TombstoneInv
      <4>3. /\ tombstones[s].at \in Nat /\ cur.due \in Nat
            /\ tnow \in Nat /\ clock \in Nat
        BY <1>1, <4>1, <4>2 DEF TypeOK, Tombstone, Tombstoned, Record, Visiting
      <4>4. objects[s].due + Grace <= clock
        BY <4>1, <4>2, <4>3
      <4> QED
        BY <1>1, <2>3, <3>1, <4>4 DEF DeleteObject, TypeOK
    <3>2. CASE s # cur.source
      BY <1>1, <2>3, <3>2 DEF DeleteObject, TypeOK
    <3> QED
      BY <3>1, <3>2
  <2> QED
    BY <1>1, <2>1, <2>2, <2>3
       DEF Next, TickStep, WriteStep, Begin, Refuse, PutFrontier, Look, PutMarker,
           ObjectSame, ObjectDiffers, DropOwnMarker, Finish, Cancel, StartExpiry,
           Bury, BuryCollides, ReadMissing, DropLostMarker, ReadDiffers, Defer,
           DeleteMarker, DeleteFrontier, EndExpiry, StartClaim, PutClaim,
           DropClaimedFrontier, Crash, Advance, vars, store
<1>2. TypeOK /\ RetentionInv /\ [Next]_vars =>
        [\A s \in Sources : objects[s] # Nothing =>
            \/ objects'[s] = objects[s]
            \/ objects'[s] = Nothing /\ objects[s].due + Grace <= clock]_vars
  BY <1>1
<1> QED
  BY <1>2, Typing, Invariant, PTL DEF Spec, KeptUntilDue
=============================================================================
