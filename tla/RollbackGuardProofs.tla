------------------------- MODULE RollbackGuardProofs -------------------------
(***************************************************************************)
(* The rollback limit holds for every chain height and every limit, as     *)
(* long as no way to lose the streak is taken.  The invariant is           *)
(* StreakCovers of RollbackGuard: both copies of the streak cover the      *)
(* highest block the replica held, so the depth a reorg is measured with   *)
(* is at least the depth from that block.                                  *)
(***************************************************************************)
EXTENDS RollbackGuard, TLAPS

USE MaxTipAssumption, MaxDepthAssumption

\* Every step of the replica keeps the types.
LEMMA TypeStep ==
    TypeOK /\ [Next]_vars => TypeOK'
<1> SUFFICES ASSUME TypeOK, [Next]_vars PROVE TypeOK'
    OBVIOUS
<1>1. ASSUME NEW h \in Handlers, NEW t \in Tips, ReorgCheck(h, t) PROVE TypeOK'
    BY <1>1 DEF TypeOK, Ways, Tips, Handlers, Appliers, Null, Larger, Smaller, ReorgCheck, Waits, HaltFor, Expire, Expired, DepthFor, Peak, Forgets, Recorded, durable, guard, appliers, reorgs
<1>2. ASSUME NEW h \in Handlers, ReorgLock(h) PROVE TypeOK'
    BY <1>2 DEF TypeOK, Ways, Tips, Handlers, Appliers, Null, Larger, Smaller, ReorgLock, Goes, Ends, Locked, durable, guard, appliers, reorgs
<1>3. ASSUME NEW h \in Handlers, ReorgRecord(h) PROVE TypeOK'
    BY <1>3 DEF TypeOK, Ways, Tips, Handlers, Appliers, Null, Larger, Smaller, ReorgRecord, Record, Goes, Ends, HaltFor, Forgets, Late, Expired, Peak, DepthFor, durable, guard, appliers, reorgs
<1>4. ASSUME NEW h \in Handlers, ReorgDelete(h) PROVE TypeOK'
    BY <1>4 DEF TypeOK, Ways, Tips, Handlers, Appliers, Null, Larger, Smaller, ReorgDelete, Goes, Ends, HaltFor, Forgets, durable, guard, appliers, reorgs
<1>5. ASSUME NEW h \in Handlers, ReorgClose(h) PROVE TypeOK'
    BY <1>5 DEF TypeOK, Ways, Tips, Handlers, Appliers, Null, Larger, Smaller, ReorgClose, Ends, durable, guard, appliers, reorgs
<1>6. CASE BlockStart
    BY <1>6 DEF TypeOK, Ways, Tips, Handlers, Appliers, Null, Larger, Smaller, BlockStart, Applies, durable, guard, appliers, reorgs
<1>7. CASE BlockApply
    BY <1>7 DEF TypeOK, Ways, Tips, Handlers, Appliers, Null, Larger, Smaller, BlockApply, Applies, Locked, durable, guard, appliers, reorgs
<1>8. ASSUME NEW hi \in Tips, CatchUpApply(hi) PROVE TypeOK'
    BY <1>8 DEF TypeOK, Ways, Tips, Handlers, Appliers, Null, Larger, Smaller, CatchUpApply, Applies, Locked, durable, guard, appliers, reorgs
<1>9. ASSUME NEW hi \in Tips, SnapshotApply(hi) PROVE TypeOK'
    BY <1>9 DEF TypeOK, Ways, Tips, Handlers, Appliers, Null, Larger, Smaller, SnapshotApply, Reset, ResetSaved, Locked, durable, guard, appliers, reorgs
<1>10. ASSUME NEW a \in Appliers, Advance(a) PROVE TypeOK'
    BY <1>10 DEF TypeOK, Ways, Tips, Handlers, Appliers, Null, Larger, Smaller, Advance, Applies, HaltFor, Forgets, durable, guard, appliers, reorgs
<1>11. CASE ClearHalt
    BY <1>11 DEF TypeOK, Ways, Tips, Handlers, Appliers, Null, Larger, Smaller, ClearHalt, Reset, ResetSaved, Forgets, Recorded, durable, guard, appliers, reorgs
<1>12. CASE Restart
    BY <1>12 DEF TypeOK, Ways, Tips, Handlers, Appliers, Null, Larger, Smaller, Restart, Reset, Forgets, durable, guard, appliers, reorgs
<1>13. CASE UNCHANGED vars
    BY <1>13 DEF TypeOK, vars
<1>14. QED
    BY <1>1, <1>2, <1>3, <1>4, <1>5, <1>6, <1>7, <1>8, <1>9, <1>10, <1>11, <1>12, <1>13 DEF Next

\* The guard, the reorg handlers and the appliers stay well typed, for every
\* height and every limit.
THEOREM TypeCorrect == Spec => []TypeOK
<1>1. Init => TypeOK
    BY DEF Init, TypeOK, Tips, Handlers, Appliers, Ways, Null
<1>2. QED
    BY <1>1, TypeStep, PTL DEF Spec

\* A streak that was lost stays lost: forgot keeps the way it was lost.
LEMMA KeptBefore ==
    [Next]_vars /\ Kept' => Kept
<1> SUFFICES ASSUME [Next]_vars, Kept' PROVE Kept
    OBVIOUS
<1>1. ASSUME NEW h \in Handlers, NEW t \in Tips, ReorgCheck(h, t) PROVE Kept
    BY <1>1 DEF ReorgCheck, Waits, HaltFor, Expire, Expired, DepthFor, Peak, Forgets, Recorded, Kept
<1>2. ASSUME NEW h \in Handlers, ReorgLock(h) PROVE Kept
    BY <1>2 DEF ReorgLock, Kept
<1>3. ASSUME NEW h \in Handlers, ReorgRecord(h) PROVE Kept
    BY <1>3 DEF ReorgRecord, Record, Goes, Ends, HaltFor, Forgets, Late, Expired, Peak, DepthFor, Kept
<1>4. ASSUME NEW h \in Handlers, ReorgDelete(h) PROVE Kept
    BY <1>4 DEF ReorgDelete, Goes, Ends, HaltFor, Forgets, Kept
<1>5. ASSUME NEW h \in Handlers, ReorgClose(h) PROVE Kept
    BY <1>5 DEF ReorgClose, Kept
<1>6. CASE BlockStart
    BY <1>6 DEF BlockStart, Kept
<1>7. CASE BlockApply
    BY <1>7 DEF BlockApply, Kept
<1>8. ASSUME NEW hi \in Tips, CatchUpApply(hi) PROVE Kept
    BY <1>8 DEF CatchUpApply, Kept
<1>9. ASSUME NEW hi \in Tips, SnapshotApply(hi) PROVE Kept
    BY <1>9 DEF SnapshotApply, Kept
<1>10. ASSUME NEW a \in Appliers, Advance(a) PROVE Kept
    BY <1>10 DEF Advance, Applies, HaltFor, Forgets, Kept
<1>11. CASE ClearHalt
    BY <1>11 DEF ClearHalt, Reset, ResetSaved, Forgets, Recorded, Kept
<1>12. CASE Restart
    BY <1>12 DEF Restart, Reset, Forgets, Kept
<1>13. CASE UNCHANGED vars
    BY <1>13 DEF Kept, vars
<1>14. QED
    BY <1>1, <1>2, <1>3, <1>4, <1>5, <1>6, <1>7, <1>8, <1>9, <1>10, <1>11, <1>12, <1>13 DEF Next

\* The parts of StreakCovers while the streak is kept.
Holds == Exclusive /\ Checked /\ TipStored /\ Streak

\* The apply lock: a handler enters only when no handler is in.
LEMMA ExclusiveStep ==
    TypeOK /\ Kept /\ Holds /\ [Next]_vars /\ Kept' => Exclusive'
<1> SUFFICES ASSUME TypeOK, Kept, Holds, [Next]_vars, Kept' PROVE Exclusive'
    OBVIOUS
<1>1. ASSUME NEW h \in Handlers, NEW t \in Tips, ReorgCheck(h, t) PROVE Exclusive'
    BY <1>1 DEF TypeOK, Kept, Tips, Handlers, Appliers, Null, Larger, Smaller, ReorgCheck, Waits, HaltFor, Expire, Expired, DepthFor, Peak, Forgets, Recorded, durable, guard, appliers, reorgs, Holds, Exclusive, LockSteps
<1>2. ASSUME NEW h \in Handlers, ReorgLock(h) PROVE Exclusive'
    BY <1>2 DEF TypeOK, Kept, Tips, Handlers, Appliers, Null, Larger, Smaller, ReorgLock, Goes, Ends, Locked, durable, guard, appliers, reorgs, Holds, Exclusive, LockSteps
<1>3. ASSUME NEW h \in Handlers, ReorgRecord(h) PROVE Exclusive'
    BY <1>3 DEF TypeOK, Kept, Tips, Handlers, Appliers, Null, Larger, Smaller, ReorgRecord, Record, Goes, Ends, HaltFor, Forgets, Late, Expired, Peak, DepthFor, durable, guard, appliers, reorgs, Holds, Exclusive, LockSteps
<1>4. ASSUME NEW h \in Handlers, ReorgDelete(h) PROVE Exclusive'
    BY <1>4 DEF TypeOK, Kept, Tips, Handlers, Appliers, Null, Larger, Smaller, ReorgDelete, Goes, Ends, HaltFor, Forgets, durable, guard, appliers, reorgs, Holds, Exclusive, LockSteps
<1>5. ASSUME NEW h \in Handlers, ReorgClose(h) PROVE Exclusive'
    BY <1>5 DEF TypeOK, Kept, Tips, Handlers, Appliers, Null, Larger, Smaller, ReorgClose, Ends, durable, guard, appliers, reorgs, Holds, Exclusive, LockSteps
<1>6. CASE BlockStart
    BY <1>6 DEF TypeOK, Kept, Tips, Handlers, Appliers, Null, Larger, Smaller, BlockStart, Applies, durable, guard, appliers, reorgs, Holds, Exclusive, LockSteps
<1>7. CASE BlockApply
    BY <1>7 DEF TypeOK, Kept, Tips, Handlers, Appliers, Null, Larger, Smaller, BlockApply, Applies, Locked, durable, guard, appliers, reorgs, Holds, Exclusive, LockSteps
<1>8. ASSUME NEW hi \in Tips, CatchUpApply(hi) PROVE Exclusive'
    BY <1>8 DEF TypeOK, Kept, Tips, Handlers, Appliers, Null, Larger, Smaller, CatchUpApply, Applies, Locked, durable, guard, appliers, reorgs, Holds, Exclusive, LockSteps
<1>9. ASSUME NEW hi \in Tips, SnapshotApply(hi) PROVE Exclusive'
    BY <1>9 DEF TypeOK, Kept, Tips, Handlers, Appliers, Null, Larger, Smaller, SnapshotApply, Reset, ResetSaved, Locked, durable, guard, appliers, reorgs, Holds, Exclusive, LockSteps
<1>10. ASSUME NEW a \in Appliers, Advance(a) PROVE Exclusive'
    BY <1>10 DEF TypeOK, Kept, Tips, Handlers, Appliers, Null, Larger, Smaller, Advance, Applies, HaltFor, Forgets, durable, guard, appliers, reorgs, Holds, Exclusive, LockSteps
<1>11. CASE ClearHalt
    BY <1>11 DEF TypeOK, Kept, Tips, Handlers, Appliers, Null, Larger, Smaller, ClearHalt, Reset, ResetSaved, Forgets, Recorded, durable, guard, appliers, reorgs, Holds, Exclusive, LockSteps
<1>12. CASE Restart
    BY <1>12 DEF TypeOK, Kept, Tips, Handlers, Appliers, Null, Larger, Smaller, Restart, Reset, Forgets, durable, guard, appliers, reorgs, Holds, Exclusive, LockSteps
<1>13. CASE UNCHANGED vars
    BY <1>13 DEF vars, Holds, Exclusive, LockSteps
<1>14. QED
    BY <1>1, <1>2, <1>3, <1>4, <1>5, <1>6, <1>7, <1>8, <1>9, <1>10, <1>11, <1>12, <1>13 DEF Next

\* Nothing moves under the rollback that holds the lock.
LEMMA CheckedStep ==
    TypeOK /\ Kept /\ Holds /\ [Next]_vars /\ Kept' => Checked'
<1> SUFFICES ASSUME TypeOK, Kept, Holds, [Next]_vars, Kept' PROVE Checked'
    OBVIOUS
<1>1. ASSUME NEW h \in Handlers, NEW t \in Tips, ReorgCheck(h, t) PROVE Checked'
    BY <1>1 DEF TypeOK, Kept, Tips, Handlers, Appliers, Null, Larger, Smaller, ReorgCheck, Waits, HaltFor, Expire, Expired, DepthFor, Peak, Forgets, Recorded, durable, guard, appliers, reorgs, Holds, Exclusive, Checked, TipStored, Streak, Covers, LockSteps
<1>2. ASSUME NEW h \in Handlers, ReorgLock(h) PROVE Checked'
    BY <1>2 DEF TypeOK, Kept, Tips, Handlers, Appliers, Null, Larger, Smaller, ReorgLock, Goes, Ends, Locked, durable, guard, appliers, reorgs, Holds, Exclusive, Checked, TipStored, Streak, Covers, LockSteps
<1>3. ASSUME NEW h \in Handlers, ReorgRecord(h) PROVE Checked'
  <2> USE <1>3 DEF TypeOK, Tips, Handlers, Null, Smaller, ReorgRecord
  <2>1. Exclusive /\ Checked /\ Streak /\ pc[h] = "lower"
    BY DEF Holds
  <2>2. \A g \in Handlers : g # h => pc'[g] = pc[g] /\ pc[g] \notin LockSteps
    BY <2>1 DEF Exclusive, LockSteps, Goes, Ends
  <2>3. CASE pc'[h] # "delete"
    BY <2>2, <2>3 DEF Checked, LockSteps, Goes, Ends
  <2>4. CASE pc'[h] = "delete"
    <3>1. /\ Record(target[h]) /\ savedPeak' = peak' /\ savedLow' = low'
          /\ ~Late(h) /\ stored' = stored /\ tip' = tip /\ high' = high
          /\ target' = target /\ deep' = deep
      BY <2>4 DEF Goes, Ends, Forgets, Kept
    <3>2. tip = stored /\ target[h] <= tip
      BY <3>1 DEF Late
    <3>3. high <= Peak
      <4>1. \A g \in Handlers : pc[g] # "delete"
        BY <2>1, <2>2 DEF LockSteps
      <4>2. high <= stored \/ Covers(peak, low)
        BY <2>1, <4>1 DEF Streak
      <4>3. QED
        BY <4>2, <3>2 DEF Peak, Expired, Covers
    <3>4. deep[h] = "no" => target[h] > high - MaxDepth /\ Covers(peak, low)'
      <4>1. SUFFICES ASSUME deep[h] = "no" PROVE target[h] > high - MaxDepth /\ high <= low' + MaxDepth
        BY <3>1, <3>2, <3>3 DEF Covers, Record, Peak
      <4>2. Peak - target[h] + 1 <= MaxDepth
        BY <3>1, <4>1 DEF Late, DepthFor, Peak
      <4>3. target[h] > high - MaxDepth
        BY <4>2, <3>3 DEF Peak
      <4>4. CASE low = Null \/ Expired
        BY <3>1, <4>3, <4>4 DEF Record
      <4>5. CASE low # Null /\ ~Expired
        <5>1. high <= stored \/ high <= low + MaxDepth
          BY <2>1, <2>2 DEF Streak, Covers, LockSteps
        <5>2. tip < low + MaxDepth
          BY <2>1, <4>5 DEF Streak, Expired
        <5>3. QED
          BY <3>1, <3>2, <4>3, <4>5, <5>1, <5>2 DEF Record
      <4>6. QED
        BY <4>3, <4>4, <4>5
    <3>5. QED
      BY <2>2, <2>4, <3>1, <3>2, <3>4 DEF Checked, LockSteps, Covers, Record, Peak
  <2>5. QED
    BY <2>3, <2>4
<1>4. ASSUME NEW h \in Handlers, ReorgDelete(h) PROVE Checked'
    BY <1>4 DEF TypeOK, Kept, Tips, Handlers, Appliers, Null, Larger, Smaller, ReorgDelete, Goes, Ends, HaltFor, Forgets, durable, guard, appliers, reorgs, Holds, Exclusive, Checked, TipStored, Streak, Covers, LockSteps
<1>5. ASSUME NEW h \in Handlers, ReorgClose(h) PROVE Checked'
    BY <1>5 DEF TypeOK, Kept, Tips, Handlers, Appliers, Null, Larger, Smaller, ReorgClose, Ends, durable, guard, appliers, reorgs, Holds, Exclusive, Checked, TipStored, Streak, Covers, LockSteps
<1>6. CASE BlockStart
    BY <1>6 DEF TypeOK, Kept, Tips, Handlers, Appliers, Null, Larger, Smaller, BlockStart, Applies, durable, guard, appliers, reorgs, Holds, Exclusive, Checked, TipStored, Streak, Covers, LockSteps
<1>7. CASE BlockApply
    BY <1>7 DEF TypeOK, Kept, Tips, Handlers, Appliers, Null, Larger, Smaller, BlockApply, Applies, Locked, durable, guard, appliers, reorgs, Holds, Exclusive, Checked, TipStored, Streak, Covers, LockSteps
<1>8. ASSUME NEW hi \in Tips, CatchUpApply(hi) PROVE Checked'
    BY <1>8 DEF TypeOK, Kept, Tips, Handlers, Appliers, Null, Larger, Smaller, CatchUpApply, Applies, Locked, durable, guard, appliers, reorgs, Holds, Exclusive, Checked, TipStored, Streak, Covers, LockSteps
<1>9. ASSUME NEW hi \in Tips, SnapshotApply(hi) PROVE Checked'
    BY <1>9 DEF TypeOK, Kept, Tips, Handlers, Appliers, Null, Larger, Smaller, SnapshotApply, Reset, ResetSaved, Locked, durable, guard, appliers, reorgs, Holds, Exclusive, Checked, TipStored, Streak, Covers, LockSteps
<1>10. ASSUME NEW a \in Appliers, Advance(a) PROVE Checked'
    BY <1>10 DEF TypeOK, Kept, Tips, Handlers, Appliers, Null, Larger, Smaller, Advance, Applies, HaltFor, Forgets, durable, guard, appliers, reorgs, Holds, Exclusive, Checked, TipStored, Streak, Covers, LockSteps
<1>11. CASE ClearHalt
    BY <1>11 DEF TypeOK, Kept, Tips, Handlers, Appliers, Null, Larger, Smaller, ClearHalt, Reset, ResetSaved, Forgets, Recorded, durable, guard, appliers, reorgs, Holds, Exclusive, Checked, TipStored, Streak, Covers, LockSteps
<1>12. CASE Restart
    BY <1>12 DEF TypeOK, Kept, Tips, Handlers, Appliers, Null, Larger, Smaller, Restart, Reset, Forgets, durable, guard, appliers, reorgs, Holds, Exclusive, Checked, TipStored, Streak, Covers, LockSteps
<1>13. CASE UNCHANGED vars
    BY <1>13 DEF vars, Holds, Exclusive, Checked, TipStored, Streak, Covers, LockSteps
<1>14. QED
    BY <1>1, <1>2, <1>3, <1>4, <1>5, <1>6, <1>7, <1>8, <1>9, <1>10, <1>11, <1>12, <1>13 DEF Next

\* The tip in memory follows the rows.
LEMMA TipStoredStep ==
    TypeOK /\ Kept /\ Holds /\ [Next]_vars /\ Kept' => TipStored'
<1> SUFFICES ASSUME TypeOK, Kept, Holds, [Next]_vars, Kept' PROVE TipStored'
    OBVIOUS
<1>1. ASSUME NEW h \in Handlers, NEW t \in Tips, ReorgCheck(h, t) PROVE TipStored'
    BY <1>1 DEF TypeOK, Kept, Tips, Handlers, Appliers, Null, Larger, Smaller, ReorgCheck, Waits, HaltFor, Expire, Expired, DepthFor, Peak, Forgets, Recorded, durable, guard, appliers, reorgs, Holds, Exclusive, Checked, TipStored, Streak, Covers, LockSteps
<1>2. ASSUME NEW h \in Handlers, ReorgLock(h) PROVE TipStored'
    BY <1>2 DEF TypeOK, Kept, Tips, Handlers, Appliers, Null, Larger, Smaller, ReorgLock, Goes, Ends, Locked, durable, guard, appliers, reorgs, Holds, Exclusive, Checked, TipStored, Streak, Covers, LockSteps
<1>3. ASSUME NEW h \in Handlers, ReorgRecord(h) PROVE TipStored'
    BY <1>3 DEF TypeOK, Kept, Tips, Handlers, Appliers, Null, Larger, Smaller, ReorgRecord, Record, Goes, Ends, HaltFor, Forgets, Late, Expired, Peak, DepthFor, durable, guard, appliers, reorgs, Holds, Exclusive, Checked, TipStored, Streak, Covers, LockSteps
<1>4. ASSUME NEW h \in Handlers, ReorgDelete(h) PROVE TipStored'
    BY <1>4 DEF TypeOK, Kept, Tips, Handlers, Appliers, Null, Larger, Smaller, ReorgDelete, Goes, Ends, HaltFor, Forgets, durable, guard, appliers, reorgs, Holds, Exclusive, Checked, TipStored, Streak, Covers, LockSteps
<1>5. ASSUME NEW h \in Handlers, ReorgClose(h) PROVE TipStored'
    BY <1>5 DEF TypeOK, Kept, Tips, Handlers, Appliers, Null, Larger, Smaller, ReorgClose, Ends, durable, guard, appliers, reorgs, Holds, Exclusive, Checked, TipStored, Streak, Covers, LockSteps
<1>6. CASE BlockStart
    BY <1>6 DEF TypeOK, Kept, Tips, Handlers, Appliers, Null, Larger, Smaller, BlockStart, Applies, durable, guard, appliers, reorgs, Holds, Exclusive, Checked, TipStored, Streak, Covers, LockSteps
<1>7. CASE BlockApply
    BY <1>7 DEF TypeOK, Kept, Tips, Handlers, Appliers, Null, Larger, Smaller, BlockApply, Applies, Locked, durable, guard, appliers, reorgs, Holds, Exclusive, Checked, TipStored, Streak, Covers, LockSteps
<1>8. ASSUME NEW hi \in Tips, CatchUpApply(hi) PROVE TipStored'
    BY <1>8 DEF TypeOK, Kept, Tips, Handlers, Appliers, Null, Larger, Smaller, CatchUpApply, Applies, Locked, durable, guard, appliers, reorgs, Holds, Exclusive, Checked, TipStored, Streak, Covers, LockSteps
<1>9. ASSUME NEW hi \in Tips, SnapshotApply(hi) PROVE TipStored'
    BY <1>9 DEF TypeOK, Kept, Tips, Handlers, Appliers, Null, Larger, Smaller, SnapshotApply, Reset, ResetSaved, Locked, durable, guard, appliers, reorgs, Holds, Exclusive, Checked, TipStored, Streak, Covers, LockSteps
<1>10. ASSUME NEW a \in Appliers, Advance(a) PROVE TipStored'
    BY <1>10 DEF TypeOK, Kept, Tips, Handlers, Appliers, Null, Larger, Smaller, Advance, Applies, HaltFor, Forgets, durable, guard, appliers, reorgs, Holds, Exclusive, Checked, TipStored, Streak, Covers, LockSteps
<1>11. CASE ClearHalt
    BY <1>11 DEF TypeOK, Kept, Tips, Handlers, Appliers, Null, Larger, Smaller, ClearHalt, Reset, ResetSaved, Forgets, Recorded, durable, guard, appliers, reorgs, Holds, Exclusive, Checked, TipStored, Streak, Covers, LockSteps
<1>12. CASE Restart
    BY <1>12 DEF TypeOK, Kept, Tips, Handlers, Appliers, Null, Larger, Smaller, Restart, Reset, Forgets, durable, guard, appliers, reorgs, Holds, Exclusive, Checked, TipStored, Streak, Covers, LockSteps
<1>13. CASE UNCHANGED vars
    BY <1>13 DEF vars, Holds, Exclusive, Checked, TipStored, Streak, Covers, LockSteps
<1>14. QED
    BY <1>1, <1>2, <1>3, <1>4, <1>5, <1>6, <1>7, <1>8, <1>9, <1>10, <1>11, <1>12, <1>13 DEF Next

\* The streak is recorded before the rows go, and ends only above what was held.
LEMMA StreakStep ==
    TypeOK /\ Kept /\ Holds /\ [Next]_vars /\ Kept' => Streak'
<1> SUFFICES ASSUME TypeOK, Kept, Holds, [Next]_vars, Kept' PROVE Streak'
    OBVIOUS
<1>1. ASSUME NEW h \in Handlers, NEW t \in Tips, ReorgCheck(h, t) PROVE Streak'
    BY <1>1 DEF TypeOK, Kept, Tips, Handlers, Appliers, Null, Larger, Smaller, ReorgCheck, Waits, HaltFor, Expire, Expired, DepthFor, Peak, Forgets, Recorded, durable, guard, appliers, reorgs, Holds, Exclusive, Checked, TipStored, Streak, Covers, LockSteps
<1>2. ASSUME NEW h \in Handlers, ReorgLock(h) PROVE Streak'
    BY <1>2 DEF TypeOK, Kept, Tips, Handlers, Appliers, Null, Larger, Smaller, ReorgLock, Goes, Ends, Locked, durable, guard, appliers, reorgs, Holds, Exclusive, Checked, TipStored, Streak, Covers, LockSteps
<1>3. ASSUME NEW h \in Handlers, ReorgRecord(h) PROVE Streak'
    BY <1>3 DEF TypeOK, Kept, Tips, Handlers, Appliers, Null, Larger, Smaller, ReorgRecord, Record, Goes, Ends, HaltFor, Forgets, Late, Expired, Peak, DepthFor, durable, guard, appliers, reorgs, Holds, Exclusive, Checked, TipStored, Streak, Covers, LockSteps
<1>4. ASSUME NEW h \in Handlers, ReorgDelete(h) PROVE Streak'
    BY <1>4 DEF TypeOK, Kept, Tips, Handlers, Appliers, Null, Larger, Smaller, ReorgDelete, Goes, Ends, HaltFor, Forgets, durable, guard, appliers, reorgs, Holds, Exclusive, Checked, TipStored, Streak, Covers, LockSteps
<1>5. ASSUME NEW h \in Handlers, ReorgClose(h) PROVE Streak'
    BY <1>5 DEF TypeOK, Kept, Tips, Handlers, Appliers, Null, Larger, Smaller, ReorgClose, Ends, durable, guard, appliers, reorgs, Holds, Exclusive, Checked, TipStored, Streak, Covers, LockSteps
<1>6. CASE BlockStart
    BY <1>6 DEF TypeOK, Kept, Tips, Handlers, Appliers, Null, Larger, Smaller, BlockStart, Applies, durable, guard, appliers, reorgs, Holds, Exclusive, Checked, TipStored, Streak, Covers, LockSteps
<1>7. CASE BlockApply
    BY <1>7 DEF TypeOK, Kept, Tips, Handlers, Appliers, Null, Larger, Smaller, BlockApply, Applies, Locked, durable, guard, appliers, reorgs, Holds, Exclusive, Checked, TipStored, Streak, Covers, LockSteps
<1>8. ASSUME NEW hi \in Tips, CatchUpApply(hi) PROVE Streak'
    BY <1>8 DEF TypeOK, Kept, Tips, Handlers, Appliers, Null, Larger, Smaller, CatchUpApply, Applies, Locked, durable, guard, appliers, reorgs, Holds, Exclusive, Checked, TipStored, Streak, Covers, LockSteps
<1>9. ASSUME NEW hi \in Tips, SnapshotApply(hi) PROVE Streak'
    BY <1>9 DEF TypeOK, Kept, Tips, Handlers, Appliers, Null, Larger, Smaller, SnapshotApply, Reset, ResetSaved, Locked, durable, guard, appliers, reorgs, Holds, Exclusive, Checked, TipStored, Streak, Covers, LockSteps
<1>10. ASSUME NEW a \in Appliers, Advance(a) PROVE Streak'
    BY <1>10 DEF TypeOK, Kept, Tips, Handlers, Appliers, Null, Larger, Smaller, Advance, Applies, HaltFor, Forgets, durable, guard, appliers, reorgs, Holds, Exclusive, Checked, TipStored, Streak, Covers, LockSteps
<1>11. CASE ClearHalt
    BY <1>11 DEF TypeOK, Kept, Tips, Handlers, Appliers, Null, Larger, Smaller, ClearHalt, Reset, ResetSaved, Forgets, Recorded, durable, guard, appliers, reorgs, Holds, Exclusive, Checked, TipStored, Streak, Covers, LockSteps
<1>12. CASE Restart
    BY <1>12 DEF TypeOK, Kept, Tips, Handlers, Appliers, Null, Larger, Smaller, Restart, Reset, Forgets, durable, guard, appliers, reorgs, Holds, Exclusive, Checked, TipStored, Streak, Covers, LockSteps
<1>13. CASE UNCHANGED vars
    BY <1>13 DEF vars, Holds, Exclusive, Checked, TipStored, Streak, Covers, LockSteps
<1>14. QED
    BY <1>1, <1>2, <1>3, <1>4, <1>5, <1>6, <1>7, <1>8, <1>9, <1>10, <1>11, <1>12, <1>13 DEF Next

\* Both copies of the streak cover the depth already spent, for every height and
\* every limit.
THEOREM SpentDepthKnown == Spec => []StreakCovers
<1>1. Init => StreakCovers
    BY DEF Init, StreakCovers, Exclusive, Checked, TipStored, Streak, LockSteps, Handlers, Null, Tips
<1>2. TypeOK /\ StreakCovers /\ [Next]_vars => StreakCovers'
    BY KeptBefore, ExclusiveStep, CheckedStep, TipStoredStep, StreakStep DEF StreakCovers, Holds
<1>3. QED
    BY <1>1, <1>2, TypeCorrect, PTL DEF Spec

\* The rows a rollback deletes without a retroactive quorum lie within MaxDepth of
\* the highest block held, for every height and every limit.
THEOREM RollbackLimit == Spec => DepthBounded
<1>1. StreakCovers => (Kept => RewindBounded)
    BY DEF StreakCovers, Checked, RewindBounded
<1>2. QED
    BY <1>1, SpentDepthKnown, PTL DEF DepthBounded

=============================================================================
