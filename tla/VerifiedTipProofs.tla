------------------------- MODULE VerifiedTipProofs --------------------------
(***************************************************************************)
(* VerifiedTip, the rest of the proof: the walk, the live path and the     *)
(* catch-up keep their parts of the inductive invariant of                 *)
(* VerifiedTipParts, and the theorems follow.                              *)
(***************************************************************************)
EXTENDS VerifiedTipParts

USE DEF Heights, Unset, Unloaded, Content, Gen,
        durable, halts, live, reorg, pass, walk

\* Rows vouched for stay so when a block is only ever added.
LEMMA VouchedGrown ==
  ASSUME Before, LiveApply \/ CatchUpApply \/ BootApply
  PROVE  \A h \in Heights : Vouched(h) => Vouched(h)'
<1> USE MaxHeightAssumption
<1>1. CASE LiveApply
  BY <1>1, StateSorts, ZenonT(30) DEF LiveApply, Vouched, Before, Sorts
<1>2. CASE CatchUpApply
  <2>1. \A h \in Heights : rows[h] # "none" => rows'[h] = rows[h]
    BY <1>2, StateSorts, RangeCases, ZenonT(30) DEF RangeApplied, Before
  <2> QED BY <2>1, ZenonT(30) DEF Vouched
<1>3. CASE BootApply
  <2>1. PICK hi \in Heights :
          /\ rows' = [h \in Heights |-> IF h <= hi THEN "seed" ELSE "none"]
          /\ \A h \in Heights : h > hi => rows[h] = "none"
    BY <1>3, GuardedSnapshot, Zenon DEF Before
  <2> QED BY <2>1 DEF Vouched
<1> QED BY <1>1, <1>2, <1>3, ZenonT(30)

\* A live block acts on its answer only while its generation stands.
LEMMA GuardedLive == Guarded' /\ LiveJudge /\ livePc = "ok" => ~RowsChangedSince(liveGen)
BY ZenonT(30) DEF LiveJudge, Guarded, Unguarded, When

\* A pass joins only a walk that read its tip late enough.
LEMMA GuardedJoin ==
  Guarded' /\ CatchUpSince /\ passPc' = "tail" =>
    walkPc \in {"idle", "tip"} \/ ~(walkTip < passSince - 1)
<1> SUFFICES ASSUME Guarded', CatchUpSince, passPc' = "tail"
             PROVE  walkPc \in {"idle", "tip"} \/ ~(walkTip < passSince - 1)
  BY ZenonT(30)
<1>1. Unguarded(When(walkPc \notin {"idle", "tip"} /\ walkTip < passSince - 1, "join"))
  BY ZenonT(30) DEF CatchUpSince, PassDone
<1> QED BY <1>1, ZenonT(30) DEF Guarded, Unguarded, When

\* Those who wait go on waiting, over rows that stay vouched for.
LEMMA WaitKept ==
  ASSUME WaitSound, WalkPlaced' => WalkPlaced, UNCHANGED <<lastApplied, walkTip>>,
         \A h \in Heights : Vouched(h) => Vouched(h)',
         livePc' = "tail" <=> livePc = "tail",
         livePc' = "tail" => UNCHANGED liveN,
         reorgPc' # "close" => reorgPc # "close",
         reorgPc' # "idle" => reorgPc # "idle" /\ UNCHANGED reorgB,
         passPc' = "tail" /\ ~RowsChangedSince(passGen)' =>
           passPc = "tail" /\ ~RowsChangedSince(passGen) /\ UNCHANGED passSince
  PROVE  WaitSound'
BY ZenonT(30) DEF WaitSound, Covered

\* Whoever waits for a walk builds on nothing above its tip but verified blocks.
LEMMA WaitSoundStep == Before /\ [Next]_vars => WaitSound'
<1> USE MaxHeightAssumption
<1>1. Before /\ (ClearHalt \/ MarkerWriteDone \/ Follow \/ UNCHANGED vars) => WaitSound'
  BY WaitKept, ZenonT(30) DEF ClearHalt, MarkerWriteDone, Follow, vars, Before, Safe,
     WalkPlaced, RowsChangedSince, Removing, Vouched
<1>2. Before /\ WalkTip => WaitSound'
  <2> SUFFICES ASSUME Before, WalkTip PROVE WaitSound' BY ZenonT(30)
  <2>1. CASE WalkReturns("held")
    BY <2>1, ZenonT(30) DEF WaitSound, WalkPlaced, WalkReturns, WalkDone
  <2>2. ASSUME NEW t \in 0..MaxHeight, IsTip(t), walkTip' = t, UNCHANGED <<live, pass>>
        PROVE  WaitSound'
    <3>1. UNCHANGED <<rows, lastApplied, reorg>> BY Zenon DEF WalkTip
    <3>2. reorgPc # "close" => lastApplied <= t
      BY <2>2, StateSorts, SMTT(30) DEF IsTip, Shape, Stored, Before, Sorts, Safe
    <3>3. reorgPc # "idle" => reorgB - 1 <= t
      BY <2>2, StateSorts, SMTT(30) DEF IsTip, Shape, Stored, Before, Sorts, Safe
    <3>4. livePc # "idle" => liveN - 1 <= t
      BY <2>2, StateSorts, SMTT(30) DEF IsTip, Shape, Stored, Before, Sorts, Safe
    <3>5. passPc = "tail" /\ ~RowsChangedSince(passGen) => passSince - 1 <= t
      BY <2>2, StateSorts, SMTT(30) DEF IsTip, CatchUpSound, Stored, Before, Sorts, Safe
    <3>6. RowsChangedSince(passGen)' <=> RowsChangedSince(passGen)
      BY <2>2, <3>1, ZenonT(30) DEF RowsChangedSince, Removing
    <3> QED
      BY <2>2, <3>1, <3>2, <3>3, <3>4, <3>5, <3>6, ZenonT(30) DEF WaitSound
  <2> QED BY <2>1, <2>2, Zenon DEF WalkTip
<1>3. Before /\ (WalkMarker \/ WalkLoad \/ WalkLoaded) => WaitSound'
  <2> SUFFICES ASSUME Before, WalkMarker \/ WalkLoad \/ WalkLoaded PROVE WaitSound'
    BY ZenonT(30)
  <2>1. UNCHANGED <<rows, lastApplied, reorg>> /\ WalkPlaced
    BY ZenonT(30) DEF WalkMarker, WalkLoad, WalkLoaded, WalkPlaced
  <2>2. \/ walkPc' = "idle"
        \/ UNCHANGED <<walkTip, live, pass>>
    BY ZenonT(30) DEF WalkMarker, WalkLoad, WalkLoaded, WalkFrom, WalkReturns, WalkDone
  <2>3. CASE walkPc' = "idle" BY <2>3, ZenonT(30) DEF WaitSound, WalkPlaced
  <2>4. CASE UNCHANGED <<walkTip, live, pass>>
    BY <2>1, <2>4, WaitKept, ZenonT(30) DEF Before, Safe, RowsChangedSince, Removing,
       Vouched
  <2> QED BY <2>2, <2>3, <2>4, ZenonT(30)
<1>4. Before /\ (WalkSeed \/ WalkPersist) => WaitSound'
  BY WaitKept, ZenonT(30) DEF WalkSeed, WalkPersist, Before, Safe, WalkPlaced,
     RowsChangedSince, Removing, Vouched
<1>5. Before /\ (WalkRead \/ WalkJudge \/ WalkEnd) => WaitSound'
  <2> SUFFICES ASSUME Before, WalkRead \/ WalkJudge \/ WalkEnd PROVE WaitSound'
    BY ZenonT(30)
  <2>1. UNCHANGED <<rows, lastApplied, reorg>> /\ WalkPlaced
    BY ZenonT(30) DEF WalkRead, WalkJudge, WalkEnd, WalkPlaced
  <2>2. \/ walkPc' = "idle"
        \/ UNCHANGED <<walkTip, live, pass>>
    BY ZenonT(30) DEF WalkRead, WalkJudge, WalkEnd, WalkReturns, WalkDone
  <2>3. CASE walkPc' = "idle" BY <2>3, ZenonT(30) DEF WaitSound, WalkPlaced
  <2>4. CASE UNCHANGED <<walkTip, live, pass>>
    BY <2>1, <2>4, WaitKept, ZenonT(30) DEF Before, Safe, RowsChangedSince, Removing,
       Vouched
  <2> QED BY <2>2, <2>3, <2>4, ZenonT(30)
<1>6. Before /\ (\E n \in Heights : LiveStart(n)) => WaitSound'
  <2>1. ASSUME NEW n \in Heights, LiveStart(n)
        PROVE  /\ UNCHANGED <<rows, lastApplied, reorg, pass>> /\ reorgPc = "idle"
               /\ livePc = "idle" /\ UNCHANGED walkTip
               /\ WalkPlaced' => WalkPlaced
               /\ livePc' = "tail" => liveN' = lastApplied + 1
    BY <2>1, ZenonT(30) DEF LiveStart, JoinWalk, WalkPlaced
  <2> QED
    BY <2>1, StateSorts, SMTT(30) DEF Before, Sorts, Safe, WaitSound, Covered, Vouched,
       RowsChangedSince, Removing
<1>7. Before /\ (LiveVerify \/ LiveAdvance \/ CatchUpStart) => WaitSound'
  BY WaitKept, ZenonT(30) DEF LiveVerify, LiveAdvance, LiveDone, CatchUpStart, Before,
     Safe, WalkPlaced, RowsChangedSince, Removing, Vouched
<1>8. Before /\ LiveApply => WaitSound'
  BY VouchedGrown, WaitKept, ZenonT(30) DEF LiveApply, LiveDone, Before, Safe,
     WalkPlaced, RowsChangedSince, Removing
<1>9. Before /\ LiveJudge => WaitSound'
  <2> SUFFICES ASSUME Before, LiveJudge PROVE WaitSound' BY ZenonT(30)
  <2>1. /\ UNCHANGED <<rows, reorg, pass, walk>> /\ livePc \in {"halt", "error", "ok"}
        /\ livePc' \in {"idle", "advance"}
        /\ UNCHANGED lastApplied \/ (livePc = "ok" /\ lastApplied' = liveN)
    BY ZenonT(30) DEF LiveJudge, LiveDone
  <2>2. CASE UNCHANGED lastApplied
    BY <2>1, <2>2, WaitKept, ZenonT(30) DEF Before, Safe, WalkPlaced, RowsChangedSince,
       Removing, Vouched
  <2>3. CASE livePc = "ok" /\ lastApplied' = liveN
    <3>1. Covered(liveN)
      BY <2>1, <2>3, GuardedLive, StateSorts, SMTT(30) DEF Before, Sorts, Safe,
         LiveSound, LiveCounts, Covered
    <3> QED
      BY <2>1, <2>3, <3>1, ZenonT(30) DEF Before, Safe, WaitSound, WalkPlaced, Covered,
         Vouched, RowsChangedSince, Removing
  <2> QED BY <2>1, <2>2, <2>3, ZenonT(30)
<1>10. Before /\ (\E b \in Heights : ReorgStart(b)) => WaitSound'
  <2>1. ASSUME NEW b \in Heights, ReorgStart(b)
        PROVE  /\ UNCHANGED <<rows, lastApplied, live, pass, walk>>
               /\ livePc = "idle" /\ reorgPc = "idle" /\ b <= lastApplied
               /\ UNCHANGED reorg \/ (reorgPc' = "lock" /\ reorgB' = b)
    BY <2>1, ZenonT(30) DEF ReorgStart
  <2> QED
    BY <2>1, StateSorts, SMTT(30) DEF Before, Sorts, Safe, WaitSound, WalkPlaced,
       Covered, Vouched, RowsChangedSince, Removing
<1>11. Before /\ (ReorgOpen \/ ReorgLower \/ ReorgFail) => WaitSound'
  BY WaitKept, ZenonT(30) DEF ReorgOpen, ReorgLower, ReorgFail, ReorgDone,
     BumpRowGeneration, Before, Safe, WalkPlaced, RowsChangedSince, Removing, Vouched
<1>12. Before /\ ReorgDelete => WaitSound'
  <2> SUFFICES ASSUME Before, ReorgDelete PROVE WaitSound' BY ZenonT(30)
  <2>1. /\ UNCHANGED <<live, reorgB, pass, walk>>
        /\ livePc = "idle" /\ reorgPc = "delete" /\ reorgPc' = "close" /\ Removing'
    BY ZenonT(30) DEF ReorgDelete, Removing, Before, Turns
  <2>2. Covered(reorgB - 1) => Covered(reorgB - 1)'
    BY StateSorts, SMTT(30) DEF ReorgDelete, Covered, Vouched, Before, Sorts
  <2> QED
    BY <2>1, <2>2, ZenonT(30) DEF Before, Safe, WaitSound, WalkPlaced, RowsChangedSince
<1>13. Before /\ ReorgClose => WaitSound'
  BY ZenonT(30) DEF ReorgClose, ReorgDone, Before, Safe, Turns, WaitSound, WalkPlaced,
     Covered, Vouched, RowsChangedSince
<1>14. Before /\ (CatchUpTip \/ CatchUpDownload \/ CatchUpAudit) => WaitSound'
  BY WaitKept, ZenonT(30) DEF CatchUpTip, CatchUpDownload, CatchUpAudit, CatchUpFails,
     PassDone, JoinWalk, Before, Safe, WalkPlaced, RowsChangedSince, Removing, Vouched
<1>15. Before /\ CatchUpSince => WaitSound'
  <2> SUFFICES ASSUME Before, CatchUpSince PROVE WaitSound' BY ZenonT(30)
  <2>1. /\ UNCHANGED <<rows, lastApplied, live, reorg, walkTip>>
        /\ WalkPlaced' => WalkPlaced
        /\ passPc' = "tail" => UNCHANGED passSince
    BY ZenonT(30) DEF CatchUpSince, JoinWalk, PassDone, WalkPlaced
  <2>2. CASE passPc' # "tail"
    BY <2>1, <2>2, WaitKept, ZenonT(30) DEF Before, Safe, Vouched
  <2>3. CASE passPc' = "tail"
    <3>1. WalkPlaced => passSince - 1 <= walkTip
      BY <2>3, GuardedJoin, StateSorts DEF WalkPlaced, Before, Sorts
    <3> QED
      BY <2>1, <2>3, <3>1, ZenonT(30) DEF Before, Safe, WaitSound, Covered, Vouched
  <2> QED BY <2>2, <2>3, ZenonT(30)
<1>16. Before /\ CatchUpApply => WaitSound'
  <2> SUFFICES ASSUME Before, CatchUpApply PROVE WaitSound' BY ZenonT(30)
  <2>1. /\ passPc = "apply" /\ passPc' # "tail" /\ UNCHANGED <<live, reorg, walk>>
        /\ WalkPlaced => livePc = "tail" /\ reorgPc = "idle"
    BY ZenonT(30) DEF CatchUpApply, CatchUpFails, PassDone, WalkPlaced, Before, Turns
  <2>2. \A h \in Heights : Vouched(h) => Vouched(h)' BY VouchedGrown, ZenonT(30)
  <2> QED
    BY <2>1, <2>2, ZenonT(30) DEF Before, Safe, WaitSound, WalkPlaced, Covered
<1>17. Before /\ BootApply => WaitSound'
  BY VouchedGrown, WaitKept, ZenonT(30) DEF BootApply, Before, Safe, WalkPlaced
<1>18. Before /\ BootClose => WaitSound'
  BY ZenonT(30) DEF BootClose, Before, Safe, Turns, WaitSound, WalkPlaced, Shape,
     Covered, Vouched
<1>19. Before /\ (BootAdopt \/ BootFail) => WaitSound'
  BY WaitKept, ZenonT(30) DEF BootAdopt, BootFail, CatchUpFails, PassDone, Before, Safe,
     WalkPlaced, Vouched
<1>20. Before /\ StartSync => WaitSound'
  BY ZenonT(30) DEF StartSync, Before, Turns, WaitSound, WalkPlaced
<1>21. Before /\ Restart => WaitSound'
  BY ZenonT(30) DEF Restart, WalkDone, WaitSound, WalkPlaced
<1> QED
  BY <1>1, <1>2, <1>3, <1>4, <1>5, <1>6, <1>7, <1>8, <1>9, <1>10, <1>11, <1>12, <1>13,
     <1>14, <1>15, <1>16, <1>17, <1>18, <1>19, <1>20, <1>21, ZenonT(30) DEF Next, WalkStep,
     LiveStep, ReorgStep, PassStep

\* A walk that stands still, over rows that stay vouched for.
LEMMA WalkKept ==
  ASSUME Before, WalkCounts' => WalkCounts,
         UNCHANGED <<walkPc, walkTip, walkH, verdict>>,
         \A h \in Heights : Vouched(h) => Vouched(h)'
  PROVE  WalkSound'
<1>1. WalkSound /\ (WalkCounts => walkH \in Heights)
  BY StateSorts DEF Before, Sorts, Safe, Ranges, WalkCounts, WalkActive
<1> QED BY <1>1, ZenonT(30) DEF WalkSound, Covered

\* A walk that starts from v, once the memory marker is v.
LEMMA WalkStarted ==
  ASSUME NEW v \in Int, Marker', UNCHANGED rows, vtip' = v, WalkFrom(v)
  PROVE  WalkSound'
<1>1. Covered(v) BY Zenon DEF Marker, Covered, Vouched
<1>2. CASE walkPc' \in {"idle", "seed"}
  BY <1>2, ZenonT(30) DEF WalkSound, WalkCounts, WalkActive
<1>3. CASE walkPc' = "read" /\ walkH' = v + 1
  <2>1. \A h \in Heights : h <= walkH' - 1 => h <= v
    BY <1>3, MaxHeightAssumption
  <2>2. Covered(walkH - 1)' BY <1>1, <2>1, Zenon DEF Covered, Vouched
  <2> QED BY <1>3, <2>2, ZenonT(30) DEF WalkSound
<1> QED BY <1>2, <1>3, ZenonT(30) DEF WalkFrom, WalkReturns, WalkDone

\* A walk whose generation stands has covered everything below it.
LEMMA WalkSoundStep == Before /\ [Next]_vars => WalkSound'
<1> USE MaxHeightAssumption
<1>1. Before /\ (ClearHalt \/ MarkerWriteDone \/ Follow \/ UNCHANGED vars) => WalkSound'
  BY WalkKept, ZenonT(30) DEF ClearHalt, MarkerWriteDone, Follow, vars, Before, Safe,
     WalkCounts, WalkActive, RowsChangedSince, Removing, Vouched
<1>2. Before /\ (WalkTip \/ WalkLoad) => WalkSound'
  BY ZenonT(30) DEF WalkTip, WalkLoad, WalkReturns, WalkDone, WalkSound, WalkCounts,
     WalkActive
<1>3. Before /\ WalkMarker => WalkSound'
  <2> SUFFICES ASSUME Before, WalkMarker PROVE WalkSound' BY ZenonT(30)
  <2>1. Marker' BY MarkerStep, Zenon DEF Next, WalkStep
  <2>2. UNCHANGED rows /\ vtip' = vtip BY Zenon DEF WalkMarker
  <2>3. vtip \in Int BY StateSorts DEF Before, Sorts
  <2>4. CASE WalkFrom(vtip) BY <2>1, <2>2, <2>3, <2>4, WalkStarted, Zenon
  <2>5. CASE walkPc' \in {"idle", "load"}
    BY <2>5, ZenonT(30) DEF WalkSound, WalkCounts, WalkActive
  <2> QED BY <2>4, <2>5, ZenonT(30) DEF WalkMarker, WalkReturns, WalkDone
<1>4. Before /\ WalkLoaded => WalkSound'
  <2> SUFFICES ASSUME Before, WalkLoaded PROVE WalkSound' BY ZenonT(30)
  <2>1. Marker' BY MarkerStep, Zenon DEF Next, WalkStep
  <2>2. UNCHANGED rows /\ vtip' = walkStart /\ WalkFrom(walkStart)
    BY Zenon DEF WalkLoaded, SetMemoryTip
  <2>3. walkStart \in Int BY StateSorts DEF Before, Sorts
  <2> QED BY <2>1, <2>2, <2>3, WalkStarted, Zenon
<1>5. Before /\ WalkSeed => WalkSound'
  <2> SUFFICES ASSUME Before, WalkSeed PROVE WalkSound' BY ZenonT(30)
  <2>1. Marker' BY MarkerStep, Zenon DEF Next, WalkStep
  <2>2. UNCHANGED rows /\ vtip' = walkTip - 1 /\ walkPc' = "read" /\ walkH' = walkTip
    BY Zenon DEF WalkSeed, SetMemoryTip
  <2> QED BY <2>1, <2>2, ZenonT(30) DEF Marker, WalkSound, Covered, Vouched
<1>6. Before /\ WalkRead => WalkSound'
  <2> SUFFICES ASSUME Before, WalkRead PROVE WalkSound' BY ZenonT(30)
  <2>1. CASE walkPc' = "idle" BY <2>1, ZenonT(30) DEF WalkSound, WalkCounts, WalkActive
  <2>2. CASE walkPc' # "idle"
    <3>1. /\ ~RowsChangedSince(walkGen) /\ walkPc = "read" /\ walkPc' = "judge"
          /\ UNCHANGED <<rows, walkH>> /\ Answers(walkH, verdict')
      BY <2>2, ZenonT(30) DEF WalkRead, WalkReturns, WalkDone
    <3>2. verdict' = "ok" => Vouched(walkH) BY <3>1, ZenonT(30) DEF Answers, Recomputes
    <3>3. Covered(walkH - 1)
      BY <3>1, ZenonT(30) DEF Before, Safe, WalkSound, WalkCounts, WalkActive
    <3> QED BY <3>1, <3>2, <3>3, ZenonT(30) DEF WalkSound, Covered, Vouched
  <2> QED BY <2>1, <2>2, ZenonT(30)
<1>7. Before /\ WalkJudge => WalkSound'
  <2> SUFFICES ASSUME Before, WalkJudge PROVE WalkSound' BY ZenonT(30)
  <2>1. CASE walkPc' = "idle" BY <2>1, ZenonT(30) DEF WalkSound, WalkCounts, WalkActive
  <2>2. CASE walkPc' # "idle"
    <3>1. /\ ~RowsChangedSince(walkGen) /\ walkPc = "judge" /\ UNCHANGED <<rows, verdict>>
          /\ \/ walkPc' = "persist" /\ UNCHANGED walkH
             \/ walkPc' = "read" /\ walkH' = walkH + 1 /\ verdict = "ok"
      BY <2>2, ZenonT(30) DEF WalkJudge, WalkReturns, WalkDone
    <3>2. Covered(walkH - 1) /\ (verdict = "ok" => Vouched(walkH))
      BY <3>1, ZenonT(30) DEF Before, Safe, WalkSound, WalkCounts, WalkActive
    <3> QED
      BY <3>1, <3>2, StateSorts, SMTT(30) DEF Before, Sorts, WalkSound, Covered, Vouched
  <2> QED BY <2>1, <2>2, ZenonT(30)
<1>8. Before /\ WalkPersist => WalkSound'
  <2> SUFFICES ASSUME Before, WalkPersist, WalkCounts' PROVE WalkSound'
    BY ZenonT(30) DEF WalkSound
  <2>1. /\ walkPc = "persist" /\ UNCHANGED <<rows, verdict, walkTip, walkGen, reorg, pass>>
        /\ \/ walkPc' = "settle" /\ UNCHANGED walkH
           \/ walkPc' = "end" /\ UNCHANGED walkH /\ walkH = walkTip /\ verdict = "ok"
           \/ walkPc' = "read" /\ walkH' = walkH + 1 /\ verdict = "ok"
    BY ZenonT(30) DEF WalkPersist
  <2>2. WalkCounts
    BY <2>1, ZenonT(30) DEF WalkCounts, WalkActive, RowsChangedSince, Removing
  <2>3. Covered(walkH - 1) /\ (verdict = "ok" => Vouched(walkH))
    BY <2>1, <2>2, ZenonT(30) DEF Before, Safe, WalkSound
  <2> QED
    BY <2>1, <2>3, StateSorts, SMTT(30) DEF Before, Sorts, WalkSound, Covered, Vouched
<1>9. Before /\ (WalkEnd \/ Restart) => WalkSound'
  BY ZenonT(30) DEF WalkEnd, Restart, WalkReturns, WalkDone, WalkSound, WalkCounts,
     WalkActive
<1>10. Before /\ (\E n \in Heights : LiveStart(n)) => WalkSound'
  <2>1. ASSUME NEW n \in Heights, LiveStart(n)
        PROVE  UNCHANGED <<rows, reorg, pass>> /\ (UNCHANGED walk \/ walkPc' = "tip")
    BY <2>1, ZenonT(30) DEF LiveStart, JoinWalk
  <2> QED
    BY <2>1, ZenonT(30) DEF Before, Safe, WalkSound, WalkCounts, WalkActive, Covered,
       Vouched, RowsChangedSince, Removing
<1>11. Before /\ (LiveVerify \/ LiveJudge \/ LiveAdvance \/ CatchUpStart) => WalkSound'
  BY WalkKept, ZenonT(30) DEF LiveVerify, LiveJudge, LiveAdvance, CatchUpStart, Before,
     Safe, WalkCounts, WalkActive, RowsChangedSince, Removing, Vouched
<1>12. Before /\ LiveApply => WalkSound'
  BY VouchedGrown, WalkKept, ZenonT(30) DEF LiveApply, Before, Safe, WalkCounts,
     WalkActive, RowsChangedSince, Removing
<1>13. Before /\ (\E b \in Heights : ReorgStart(b)) => WalkSound'
  BY WalkKept, ZenonT(30) DEF ReorgStart, Before, Safe, WalkCounts, WalkActive,
     RowsChangedSince, Removing, Vouched
<1>14. Before /\ ReorgOpen => WalkSound'
  BY WalkKept, ZenonT(30) DEF ReorgOpen, ReorgDone, BumpRowGeneration, Before, Safe,
     WalkCounts, WalkActive, RowsChangedSince, Removing, Vouched
<1>15. Before /\ (ReorgLower \/ ReorgDelete \/ ReorgClose \/ ReorgFail) => WalkSound'
  BY ZenonT(30) DEF ReorgLower, ReorgDelete, ReorgClose, ReorgFail, BumpRowGeneration,
     WalkSound, WalkCounts, RowsChangedSince, Removing
<1>16. Before /\ (CatchUpTip \/ CatchUpDownload) => WalkSound'
  BY WalkKept, ZenonT(30) DEF CatchUpTip, CatchUpDownload, CatchUpFails, PassDone,
     Before, Safe, WalkCounts, WalkActive, RowsChangedSince, Removing, Vouched
<1>17. Before /\ (CatchUpSince \/ CatchUpAudit) => WalkSound'
  <2>1. CatchUpSince \/ CatchUpAudit =>
          /\ UNCHANGED <<rows, reorg>> /\ passPc # "bootClose" /\ passPc' # "bootClose"
          /\ UNCHANGED walk \/ walkPc' = "tip"
    BY ZenonT(30) DEF CatchUpSince, CatchUpAudit, PassDone, JoinWalk
  <2> QED
    BY <2>1, ZenonT(30) DEF Before, Safe, WalkSound, WalkCounts, WalkActive, Covered,
       Vouched, RowsChangedSince, Removing
<1>18. Before /\ CatchUpApply => WalkSound'
  <2> SUFFICES ASSUME Before, CatchUpApply PROVE WalkSound' BY ZenonT(30)
  <2>1. ~Removing /\ UNCHANGED <<reorg, walk>>
    BY StateSorts, RangeCases, Zenon DEF Before
  <2> QED
    BY <2>1, VouchedGrown, WalkKept, ZenonT(30) DEF Before, Safe, WalkCounts,
       WalkActive, RowsChangedSince
<1>19. Before /\ (BootApply \/ BootClose \/ BootAdopt) => WalkSound'
  BY ZenonT(30) DEF BootApply, BootClose, BootAdopt, BumpRowGeneration, WalkSound,
     WalkCounts, RowsChangedSince
<1>20. Before /\ BootFail => WalkSound'
  BY WalkKept, ZenonT(30) DEF BootFail, BumpRowGeneration, CatchUpFails, PassDone,
     Before, Safe, WalkCounts, WalkActive, RowsChangedSince, Removing, Vouched
<1>21. Before /\ StartSync => WalkSound'
  BY Zenon DEF StartSync, Before, WalkSound, WalkCounts, WalkActive, Turns
<1> QED
  BY <1>1, <1>2, <1>3, <1>4, <1>5, <1>6, <1>7, <1>8, <1>9, <1>10, <1>11, <1>12, <1>13,
     <1>14, <1>15, <1>16, <1>17, <1>18, <1>19, <1>20, <1>21, ZenonT(30) DEF Next, WalkStep,
     LiveStep, ReorgStep, PassStep

\* A walk that returns lets a live block in over verified blocks only.
LEMMA LiveReturned ==
  ASSUME Before, WalkPlaced, UNCHANGED <<rows, reorg>>,
         NEW r, WalkReturns(r), r = "ok" => Covered(walkTip)
  PROVE  LiveSound'
<1> USE MaxHeightAssumption
<1>1. CASE UNCHANGED live
  <2>1. RowsChangedSince(liveGen)' <=> RowsChangedSince(liveGen)
    BY <1>1, ZenonT(30) DEF WalkReturns, PassDone, RowsChangedSince, Removing
  <2> QED
    BY <1>1, <2>1, ZenonT(30) DEF Before, Safe, LiveSound, LiveCounts, Covered, Vouched
<1>2. CASE livePc' = "idle" BY <1>2, ZenonT(30) DEF LiveSound, LiveCounts
<1>3. CASE livePc = "tail" /\ livePc' = "apply" /\ UNCHANGED liveN /\ r = "ok"
  <2>1. Covered(liveN - 1)
    BY <1>3, StateSorts, SMTT(30) DEF Before, Sorts, Safe, WaitSound, Covered
  <2> QED BY <1>3, <2>1, ZenonT(30) DEF LiveSound, Covered, Vouched
<1> QED BY <1>1, <1>2, <1>3, ZenonT(30) DEF WalkReturns, LiveDone

\* A walk that starts from v and returns at once did so at the marker.
LEMMA LiveStarted ==
  ASSUME Before, WalkPlaced, UNCHANGED <<rows, reorg>>, Marker',
         NEW v, vtip' = v, WalkFrom(v)
  PROVE  LiveSound'
<1>1. Covered(v) BY Zenon DEF Marker, Covered, Vouched
<1>2. CASE v = walkTip /\ WalkReturns("ok") BY <1>1, <1>2, LiveReturned, Zenon
<1>3. CASE UNCHANGED <<live, pass>>
  BY <1>3, ZenonT(30) DEF Before, Safe, LiveSound, LiveCounts, Covered, Vouched,
     RowsChangedSince, Removing
<1> QED BY <1>2, <1>3, ZenonT(30) DEF WalkFrom

\* A live block that stands still, over rows that stay vouched for.
LEMMA LiveKept ==
  ASSUME Before, UNCHANGED <<livePc, liveN>>, LiveCounts' => LiveCounts,
         \A h \in Heights : Vouched(h) => Vouched(h)',
         livePc = "apply" /\ rows'[liveN] = "none" => rows[liveN] = "none"
  PROVE  LiveSound'
<1>1. LiveSound /\ (livePc # "idle" => liveN \in Heights)
  BY StateSorts, MaxHeightAssumption DEF Before, Sorts, Safe, Ranges
<1> QED BY <1>1, ZenonT(30) DEF LiveSound, LiveCounts, Covered

\* A live block is let in over verified blocks only.
LEMMA LiveSoundStep == Before /\ [Next]_vars => LiveSound'
<1> USE MaxHeightAssumption
<1>1. Before /\ (ClearHalt \/ MarkerWriteDone \/ Follow \/ UNCHANGED vars) => LiveSound'
  BY LiveKept, ZenonT(30) DEF ClearHalt, MarkerWriteDone, Follow, vars, LiveCounts,
     Vouched, RowsChangedSince, Removing
<1>2. Before /\ (WalkTip \/ WalkLoad \/ WalkSeed) => LiveSound'
  <2> SUFFICES ASSUME Before, WalkTip \/ WalkLoad \/ WalkSeed PROVE LiveSound'
    BY ZenonT(30)
  <2>1. UNCHANGED <<rows, reorg>> BY ZenonT(30) DEF WalkTip, WalkLoad, WalkSeed
  <2>2. CASE UNCHANGED <<live, pass>>
    BY <2>1, <2>2, LiveKept, ZenonT(30) DEF LiveCounts, Vouched, RowsChangedSince,
       Removing
  <2>3. CASE WalkReturns("held")
    <3>1. UNCHANGED live \/ livePc' = "idle"
      BY <2>3, ZenonT(30) DEF WalkReturns, LiveDone
    <3>2. Removing' <=> Removing
      BY <2>1, <2>3, ZenonT(30) DEF WalkReturns, PassDone, Removing
    <3>3. CASE UNCHANGED live
      BY <2>1, <3>2, <3>3, LiveKept, ZenonT(30) DEF LiveCounts, Vouched,
         RowsChangedSince
    <3>4. CASE livePc' = "idle" BY <3>4, ZenonT(30) DEF LiveSound, LiveCounts
    <3> QED BY <3>1, <3>3, <3>4, ZenonT(30)
  <2> QED BY <2>2, <2>3, ZenonT(30) DEF WalkTip, WalkLoad, WalkSeed
<1>3. Before /\ WalkMarker => LiveSound'
  <2> SUFFICES ASSUME Before, WalkMarker PROVE LiveSound' BY ZenonT(30)
  <2>1. Marker' BY MarkerStep, Zenon DEF Next, WalkStep
  <2>2. UNCHANGED <<rows, reorg>> /\ vtip' = vtip /\ WalkPlaced
    BY ZenonT(30) DEF WalkMarker, WalkPlaced
  <2>3. CASE WalkFrom(vtip) BY <2>1, <2>2, <2>3, LiveStarted, Zenon
  <2>4. CASE walkTip = 0 /\ WalkReturns("ok")
    <3>1. Covered(walkTip) BY <2>4 DEF Covered
    <3> QED BY <2>2, <2>4, <3>1, LiveReturned, Zenon
  <2>5. CASE UNCHANGED <<live, pass>>
    BY <2>2, <2>5, LiveKept, ZenonT(30) DEF LiveCounts, Vouched, RowsChangedSince,
       Removing
  <2> QED BY <2>3, <2>4, <2>5, ZenonT(30) DEF WalkMarker
<1>4. Before /\ WalkLoaded => LiveSound'
  <2> SUFFICES ASSUME Before, WalkLoaded PROVE LiveSound' BY ZenonT(30)
  <2>1. Marker' BY MarkerStep, Zenon DEF Next, WalkStep
  <2>2. /\ UNCHANGED <<rows, reorg>> /\ vtip' = walkStart /\ WalkPlaced
        /\ WalkFrom(walkStart)
    BY ZenonT(30) DEF WalkLoaded, SetMemoryTip, WalkPlaced
  <2> QED BY <2>1, <2>2, LiveStarted, Zenon
<1>5. Before /\ (WalkRead \/ WalkJudge \/ WalkPersist) => LiveSound'
  <2> SUFFICES ASSUME Before, WalkRead \/ WalkJudge \/ WalkPersist PROVE LiveSound'
    BY ZenonT(30)
  <2>1. UNCHANGED <<rows, reorg>> /\ WalkPlaced
    BY ZenonT(30) DEF WalkRead, WalkJudge, WalkPersist, WalkPlaced
  <2>2. CASE UNCHANGED <<live, pass>>
    BY <2>1, <2>2, LiveKept, ZenonT(30) DEF LiveCounts, Vouched, RowsChangedSince,
       Removing
  <2>3. CASE WalkReturns("held") BY <2>1, <2>3, LiveReturned, ZenonT(30)
  <2> QED BY <2>2, <2>3, ZenonT(30) DEF WalkRead, WalkJudge, WalkPersist
<1>6. Before /\ WalkEnd => LiveSound'
  <2> SUFFICES ASSUME Before, WalkEnd PROVE LiveSound' BY ZenonT(30)
  <2>1. UNCHANGED <<rows, reorg>> /\ WalkPlaced BY ZenonT(30) DEF WalkEnd, WalkPlaced
  <2>2. PICK r \in {"ok", "held", "halted"} :
          /\ WalkReturns(r)
          /\ r = "ok" => walkPc = "end" /\ ~RowsChangedSince(walkGen)
    BY ZenonT(30) DEF WalkEnd
  <2>3. r = "ok" => Covered(walkTip)
    BY <2>2, ZenonT(30) DEF Before, Safe, WalkSound, WalkCounts, WalkActive
  <2> QED BY <2>1, <2>2, <2>3, LiveReturned, Zenon
<1>7. Before /\ (\E n \in Heights : LiveStart(n)) => LiveSound'
  <2>1. ASSUME NEW n \in Heights, LiveStart(n)
        PROVE  /\ UNCHANGED <<rows, vtip>> /\ livePc = "idle"
               /\ \/ livePc' = "idle"
                  \/ livePc' = "apply" /\ vtip = lastApplied /\ liveN' = lastApplied + 1
                  \/ livePc' = "tail"
    BY <2>1, ZenonT(30) DEF LiveStart
  <2> QED
    BY <2>1, StateSorts, SMTT(30) DEF Before, Sorts, Safe, Marker, LiveSound,
       LiveCounts, Covered, Vouched
<1>8. Before /\ LiveApply => LiveSound'
  <2> SUFFICES ASSUME Before, LiveApply PROVE LiveSound' BY ZenonT(30)
  <2>1. \A h \in Heights : Vouched(h) => Vouched(h)' BY VouchedGrown, ZenonT(30)
  <2>2. CASE livePc' = "idle" BY <2>2, ZenonT(30) DEF LiveSound, LiveCounts
  <2>3. CASE livePc' = "verify" /\ UNCHANGED <<liveN, liveGen>>
    <3>1. LiveCounts' => Covered(liveN - 1)
      BY <2>3, ZenonT(30) DEF LiveApply, Before, Safe, LiveSound, LiveCounts,
         RowsChangedSince, Removing
    <3> QED BY <2>1, <2>3, <3>1, ZenonT(30) DEF LiveSound, Covered
  <2> QED BY <2>2, <2>3, Zenon DEF LiveApply, LiveDone
<1>9. Before /\ LiveVerify => LiveSound'
  BY ZenonT(30) DEF LiveVerify, Before, Safe, LiveSound, LiveCounts, Covered, Vouched,
     RowsChangedSince, Removing, Recomputes
<1>10. Before /\ LiveJudge => LiveSound'
  BY ZenonT(30) DEF LiveJudge, LiveDone, Before, Safe, LiveSound, LiveCounts, Covered,
     Vouched, RowsChangedSince, Removing
<1>11. Before /\ (LiveAdvance \/ Restart) => LiveSound'
  BY ZenonT(30) DEF LiveAdvance, LiveDone, LiveSound, LiveCounts, Restart
<1>12. Before /\ (\E b \in Heights : ReorgStart(b)) => LiveSound'
  BY ZenonT(30) DEF ReorgStart, LiveSound, LiveCounts
<1>13. Before /\ ReorgOpen => LiveSound'
  BY LiveKept, ZenonT(30) DEF ReorgOpen, ReorgDone, BumpRowGeneration, LiveCounts,
     Vouched, RowsChangedSince, Removing
<1>14. Before /\ (ReorgLower \/ ReorgDelete \/ ReorgClose \/ ReorgFail \/ StartSync)
      => LiveSound'
  BY ZenonT(30) DEF ReorgLower, Before, LiveSound, LiveCounts, Turns, ReorgDelete,
     ReorgClose, ReorgFail, StartSync
<1>15. Before /\ (CatchUpStart \/ CatchUpTip \/ CatchUpSince \/ CatchUpDownload \/
      CatchUpAudit) => LiveSound'
  <2>1. (CatchUpStart \/ CatchUpTip \/ CatchUpSince \/ CatchUpDownload \/ CatchUpAudit) =>
          UNCHANGED <<rows, live, reorg>> /\ passPc # "bootClose"
    BY ZenonT(30) DEF CatchUpStart, CatchUpTip, CatchUpSince, CatchUpDownload,
       CatchUpAudit
  <2> QED
    BY <2>1, LiveKept, ZenonT(30) DEF LiveCounts, Vouched, RowsChangedSince, Removing
<1>16. Before /\ CatchUpApply => LiveSound'
  <2> SUFFICES ASSUME Before, CatchUpApply PROVE LiveSound' BY ZenonT(30)
  <2>1. ~Removing /\ UNCHANGED <<live, reorg>>
    BY StateSorts, RangeCases, Zenon DEF Before
  <2>2. \A h \in Heights : rows'[h] = "none" => rows[h] = "none"
    BY StateSorts, RangeCases, ZenonT(30) DEF RangeApplied, Before
  <2>3. livePc = "apply" => liveN \in Heights
    BY StateSorts DEF Before, Sorts, Ranges
  <2> QED
    BY <2>1, <2>2, <2>3, VouchedGrown, LiveKept, ZenonT(30) DEF LiveCounts,
       RowsChangedSince
<1>17. Before /\ BootApply => LiveSound'
  <2> SUFFICES ASSUME Before, BootApply PROVE LiveSound' BY ZenonT(30)
  <2>1. UNCHANGED <<livePc, liveN>> /\ ~LiveCounts'
    BY Zenon DEF BootApply, BumpRowGeneration, LiveCounts, RowsChangedSince
  <2>2. PICK hi \in Heights :
          /\ rows' = [h \in Heights |-> IF h <= hi THEN "seed" ELSE "none"]
          /\ \A h \in Heights : h > hi => rows[h] = "none"
    BY GuardedSnapshot, Zenon DEF Before
  <2>3. livePc = "apply" => liveN \in Heights
    BY StateSorts DEF Before, Sorts, Ranges
  <2>4. livePc = "apply" /\ rows'[liveN] = "none" => rows[liveN] = "none"
    BY <2>2, <2>3
  <2> QED BY <2>1, <2>4, VouchedGrown, LiveKept, ZenonT(30)
<1>18. Before /\ (BootClose \/ BootAdopt \/ BootFail) => LiveSound'
  <2>1. (BootClose \/ BootAdopt \/ BootFail) =>
          /\ UNCHANGED <<rows, livePc, liveN, reorg>>
          /\ liveGen' = "moved" \/ (UNCHANGED liveGen /\ passPc # "bootClose")
    BY ZenonT(30) DEF BootClose, BootAdopt, BootFail, BumpRowGeneration
  <2> QED
    BY <2>1, LiveKept, ZenonT(30) DEF LiveCounts, Vouched, RowsChangedSince, Removing
<1> QED
  BY <1>1, <1>2, <1>3, <1>4, <1>5, <1>6, <1>7, <1>8, <1>9, <1>10, <1>11, <1>12, <1>13,
     <1>14, <1>15, <1>16, <1>17, <1>18, ZenonT(30) DEF Next, WalkStep, LiveStep, ReorgStep,
     PassStep

\* A walk that returns lets a range be downloaded for a verified tip only.
LEMMA CatchUpReturned ==
  ASSUME Before, WalkPlaced, UNCHANGED <<rows, lastApplied, reorg>>,
         NEW r, WalkReturns(r), r = "ok" => Covered(walkTip)
  PROVE  CatchUpSound'
<1> USE MaxHeightAssumption
<1>1. CASE UNCHANGED pass
  BY <1>1, ZenonT(30) DEF Before, Safe, CatchUpSound, RangeCounts, Stored, Covered,
     Vouched, RowsChangedSince, Removing
<1>2. CASE passPc' = "idle" BY <1>2, ZenonT(30) DEF CatchUpSound, RangeCounts
<1>3. CASE /\ passPc = "tail" /\ passPc' = "download" /\ UNCHANGED <<passSince, passGen>>
           /\ r = "ok"
  <2>1. ~RowsChangedSince(passGen) => Covered(passSince - 1)
    BY <1>3, StateSorts, SMTT(30) DEF Before, Sorts, Safe, WaitSound, Covered
  <2>2. RowsChangedSince(passGen)' <=> RowsChangedSince(passGen)
    BY <1>3, ZenonT(30) DEF RowsChangedSince, Removing
  <2> QED
    BY <1>3, <2>1, <2>2, ZenonT(30) DEF CatchUpSound, RangeCounts, Covered, Vouched
<1> QED BY <1>1, <1>2, <1>3, ZenonT(30) DEF WalkReturns, PassDone

\* A walk that starts from v and returns at once did so at the marker.
LEMMA CatchUpStarted ==
  ASSUME Before, WalkPlaced, UNCHANGED <<rows, lastApplied, reorg>>, Marker',
         NEW v, vtip' = v, WalkFrom(v)
  PROVE  CatchUpSound'
<1>1. Covered(v) BY Zenon DEF Marker, Covered, Vouched
<1>2. CASE v = walkTip /\ WalkReturns("ok") BY <1>1, <1>2, CatchUpReturned, Zenon
<1>3. CASE UNCHANGED <<live, pass>>
  BY <1>3, ZenonT(30) DEF Before, Safe, CatchUpSound, RangeCounts, Stored, Covered,
     Vouched, RowsChangedSince, Removing
<1> QED BY <1>2, <1>3, ZenonT(30) DEF WalkFrom

\* A pass that stands still, over rows that stay stored and vouched for.
LEMMA CatchUpKept ==
  ASSUME Before, UNCHANGED <<passPc, passSince, passGen>>,
         passPc = "adopt" => UNCHANGED lastApplied,
         RowsChangedSince(passGen) => RowsChangedSince(passGen)',
         \A h \in Heights : Vouched(h) => Vouched(h)',
         \A h \in Heights : rows[h] # "none" => rows'[h] # "none"
  PROVE  CatchUpSound'
<1>1. CatchUpSound /\ (passPc \in {"since", "tail"} => passSince - 1 \in 0..MaxHeight)
  BY StateSorts, MaxHeightAssumption DEF Before, Sorts, Safe, Ranges
<1> QED
  BY <1>1, MaxHeightAssumption, SMTT(30) DEF CatchUpSound, RangeCounts, Stored, Covered

\* A range is downloaded for a verified tip, and a snapshot tip is adopted as one.
LEMMA CatchUpSoundStep == Before /\ [Next]_vars => CatchUpSound'
<1> USE MaxHeightAssumption
<1>1. Before /\ (ClearHalt \/ MarkerWriteDone \/ Follow \/ UNCHANGED vars) =>
      CatchUpSound'
  BY CatchUpKept, ZenonT(30) DEF ClearHalt, MarkerWriteDone, Follow, vars, Vouched,
     RowsChangedSince, Removing
<1>2. Before /\ WalkTip => CatchUpSound'
  <2> SUFFICES ASSUME Before, WalkTip PROVE CatchUpSound' BY ZenonT(30)
  <2>1. UNCHANGED <<rows, lastApplied, reorg>> BY ZenonT(30) DEF WalkTip
  <2>2. CASE UNCHANGED pass
    BY <2>1, <2>2, CatchUpKept, ZenonT(30) DEF Vouched, RowsChangedSince, Removing
  <2>3. CASE passPc' = "idle" BY <2>3, ZenonT(30) DEF CatchUpSound, RangeCounts
  <2> QED BY <2>2, <2>3, ZenonT(30) DEF WalkTip, WalkReturns, PassDone
<1>3. Before /\ WalkMarker => CatchUpSound'
  <2> SUFFICES ASSUME Before, WalkMarker PROVE CatchUpSound' BY ZenonT(30)
  <2>1. Marker' BY MarkerStep, Zenon DEF Next, WalkStep
  <2>2. UNCHANGED <<rows, lastApplied, reorg>> /\ vtip' = vtip /\ WalkPlaced
    BY ZenonT(30) DEF WalkMarker, WalkPlaced
  <2>3. CASE WalkFrom(vtip) BY <2>1, <2>2, <2>3, CatchUpStarted, Zenon
  <2>4. CASE walkTip = 0 /\ WalkReturns("ok")
    <3>1. Covered(walkTip) BY <2>4 DEF Covered
    <3> QED BY <2>2, <2>4, <3>1, CatchUpReturned, Zenon
  <2>5. CASE UNCHANGED <<live, pass>>
    BY <2>2, <2>5, CatchUpKept, ZenonT(30) DEF Vouched, RowsChangedSince, Removing
  <2> QED BY <2>3, <2>4, <2>5, ZenonT(30) DEF WalkMarker
<1>4. Before /\ WalkLoaded => CatchUpSound'
  <2> SUFFICES ASSUME Before, WalkLoaded PROVE CatchUpSound' BY ZenonT(30)
  <2>1. Marker' BY MarkerStep, Zenon DEF Next, WalkStep
  <2>2. /\ UNCHANGED <<rows, lastApplied, reorg>> /\ vtip' = walkStart /\ WalkPlaced
        /\ WalkFrom(walkStart)
    BY ZenonT(30) DEF WalkLoaded, SetMemoryTip, WalkPlaced
  <2> QED BY <2>1, <2>2, CatchUpStarted, Zenon
<1>5. Before /\ (WalkLoad \/ WalkSeed \/ WalkRead \/ WalkJudge \/ WalkPersist) =>
      CatchUpSound'
  <2> SUFFICES ASSUME Before, WalkLoad \/ WalkSeed \/ WalkRead \/ WalkJudge \/ WalkPersist
               PROVE  CatchUpSound'
    BY ZenonT(30)
  <2>1. UNCHANGED <<rows, lastApplied, reorg>> /\ WalkPlaced
    BY ZenonT(30) DEF WalkLoad, WalkSeed, WalkRead, WalkJudge, WalkPersist, WalkPlaced
  <2>2. CASE UNCHANGED pass
    BY <2>1, <2>2, CatchUpKept, ZenonT(30) DEF Vouched, RowsChangedSince, Removing
  <2>3. CASE WalkReturns("held") BY <2>1, <2>3, CatchUpReturned, ZenonT(30)
  <2> QED
    BY <2>2, <2>3, ZenonT(30) DEF WalkLoad, WalkSeed, WalkRead, WalkJudge, WalkPersist
<1>6. Before /\ WalkEnd => CatchUpSound'
  <2> SUFFICES ASSUME Before, WalkEnd PROVE CatchUpSound' BY ZenonT(30)
  <2>1. UNCHANGED <<rows, lastApplied, reorg>> /\ WalkPlaced
    BY ZenonT(30) DEF WalkEnd, WalkPlaced
  <2>2. PICK r \in {"ok", "held", "halted"} :
          /\ WalkReturns(r)
          /\ r = "ok" => walkPc = "end" /\ ~RowsChangedSince(walkGen)
    BY ZenonT(30) DEF WalkEnd
  <2>3. r = "ok" => Covered(walkTip)
    BY <2>2, ZenonT(30) DEF Before, Safe, WalkSound, WalkCounts, WalkActive
  <2> QED BY <2>1, <2>2, <2>3, CatchUpReturned, Zenon
<1>7. Before /\ ((\E n \in Heights : LiveStart(n)) \/ LiveVerify \/ LiveAdvance \/
      (\E b \in Heights : ReorgStart(b))) => CatchUpSound'
  BY CatchUpKept, ZenonT(30) DEF LiveStart, LiveVerify, LiveAdvance, ReorgStart,
     Vouched, RowsChangedSince, Removing
<1>8. Before /\ LiveApply => CatchUpSound'
  <2> SUFFICES ASSUME Before, LiveApply PROVE CatchUpSound' BY ZenonT(30)
  <2>1. \A h \in Heights : rows[h] # "none" => rows'[h] # "none"
    BY StateSorts, ZenonT(30) DEF LiveApply, Before, Sorts
  <2>2. UNCHANGED <<lastApplied, reorg, pass>> BY Zenon DEF LiveApply
  <2> QED
    BY <2>1, <2>2, VouchedGrown, CatchUpKept, ZenonT(30) DEF RowsChangedSince, Removing
<1>9. Before /\ LiveJudge => CatchUpSound'
  <2> SUFFICES ASSUME Before, LiveJudge PROVE CatchUpSound' BY ZenonT(30)
  <2>1. /\ UNCHANGED <<rows, reorg, pass>>
        /\ UNCHANGED lastApplied \/ (livePc = "ok" /\ lastApplied' = liveN)
    BY ZenonT(30) DEF LiveJudge
  <2>2. CASE UNCHANGED lastApplied
    BY <2>1, <2>2, CatchUpKept, ZenonT(30) DEF Vouched, RowsChangedSince, Removing
  <2>3. CASE livePc = "ok" /\ lastApplied' = liveN
    <3>1. Covered(liveN)
      BY <2>1, <2>3, GuardedLive, StateSorts, SMTT(30) DEF Before, Sorts, Safe,
         LiveSound, LiveCounts, Covered
    <3> QED
      BY <2>1, <2>3, <3>1, ZenonT(30) DEF Before, Safe, CatchUpSound, RangeCounts,
         Stored, Covered, Vouched, RowsChangedSince, Removing
  <2> QED BY <2>1, <2>2, <2>3, ZenonT(30)
<1>10. Before /\ ReorgOpen => CatchUpSound'
  <2> SUFFICES ASSUME Before, ReorgOpen PROVE CatchUpSound' BY ZenonT(30)
  <2>1. CASE RowsChangedSince(passGen)'
    <3>1. UNCHANGED passPc BY ZenonT(30) DEF ReorgOpen
    <3> QED BY <2>1, <3>1, ZenonT(30) DEF CatchUpSound, RangeCounts
  <2>2. CASE UNCHANGED <<rows, lastApplied, pass>> /\ reorgPc = "lock" /\ reorgPc' = "idle"
    BY <2>2, CatchUpKept, ZenonT(30) DEF Vouched, RowsChangedSince, Removing
  <2> QED BY <2>1, <2>2, ZenonT(30) DEF ReorgOpen, ReorgDone, RowsChangedSince
<1>11. Before /\ (ReorgLower \/ ReorgDelete \/ ReorgClose \/ ReorgFail) => CatchUpSound'
  BY ZenonT(30) DEF ReorgLower, ReorgDelete, ReorgClose, ReorgFail, CatchUpSound,
     RangeCounts, RowsChangedSince, Removing
<1>12. Before /\ (CatchUpStart \/ StartSync \/ CatchUpApply \/ CatchUpAudit \/ Restart)
      => CatchUpSound'
  BY ZenonT(30) DEF CatchUpStart, CatchUpSound, RangeCounts, StartSync, CatchUpApply,
     CatchUpFails, PassDone, CatchUpAudit, Restart
<1>13. Before /\ CatchUpTip => CatchUpSound'
  <2>1. ASSUME NEW t \in 0..MaxHeight, IsTip(t), passSince' = t + 1, UNCHANGED rows,
               passPc' = "since"
        PROVE  CatchUpSound'
    BY <2>1 DEF CatchUpSound, RangeCounts, Stored, IsTip
  <2>2. ASSUME passPc' = "idle" PROVE CatchUpSound'
    BY <2>2, ZenonT(30) DEF CatchUpSound, RangeCounts
  <2> QED BY <2>1, <2>2, ZenonT(30) DEF CatchUpTip, CatchUpFails, PassDone
<1>14. Before /\ CatchUpSince => CatchUpSound'
  <2> SUFFICES ASSUME Before, CatchUpSince PROVE CatchUpSound' BY ZenonT(30)
  <2>1. /\ UNCHANGED <<rows, lastApplied, reorg>> /\ passPc = "since"
        /\ passPc' \in {"idle", "tail", "download"}
        /\ passPc' # "idle" => UNCHANGED <<passSince, passGen>>
        /\ passPc' = "download" => passSince = 1
    BY ZenonT(30) DEF CatchUpSince, PassDone
  <2> QED
    BY <2>1, SMTT(30) DEF Before, Safe, CatchUpSound, RangeCounts, Stored, Covered,
       RowsChangedSince, Removing
<1>15. Before /\ CatchUpDownload => CatchUpSound'
  <2> SUFFICES ASSUME Before, CatchUpDownload PROVE CatchUpSound' BY ZenonT(30)
  <2>1. /\ UNCHANGED <<rows, reorg>> /\ passPc = "download"
        /\ passPc' \in {"apply", "boot", "idle"}
        /\ passPc' = "apply" => UNCHANGED <<passSince, passGen>>
    BY ZenonT(30) DEF CatchUpDownload, CatchUpFails, PassDone
  <2> QED
    BY <2>1, ZenonT(30) DEF Before, Safe, CatchUpSound, RangeCounts, Covered, Vouched,
       RowsChangedSince, Removing
<1>16. Before /\ (BootApply \/ BootAdopt \/ BootFail) => CatchUpSound'
  BY ZenonT(30) DEF BootApply, BootAdopt, BootFail, CatchUpFails, PassDone,
     CatchUpSound, RangeCounts
<1>17. Before /\ BootClose => CatchUpSound'
  BY ZenonT(30) DEF BootClose, Before, Safe, CatchUpSound, RangeCounts, Covered,
     Vouched, Shape
<1> QED
  BY <1>1, <1>2, <1>3, <1>4, <1>5, <1>6, <1>7, <1>8, <1>9, <1>10, <1>11, <1>12, <1>13,
     <1>14, <1>15, <1>16, <1>17, ZenonT(30) DEF Next, WalkStep, LiveStep, ReorgStep,
     PassStep

\* A replica that has just bootstrapped satisfies the inductive invariant.
LEMMA InitIInv == Init => IInv
<1> SUFFICES ASSUME Init, Guarded PROVE Safe BY InitTypes, ZenonT(30) DEF IInv
<1> USE MaxHeightAssumption
<1>1. PICK b \in Heights :
        /\ rows = [h \in Heights |-> IF h <= b THEN "seed" ELSE "none"]
        /\ marker = b /\ vtip = b /\ lastApplied = b /\ markerWrite = Unset
        /\ phase = "following" /\ livePc = "idle" /\ reorgPc = "idle"
        /\ passPc = "idle" /\ walkPc = "idle"
  BY ZenonT(30) DEF Init, Guarded, When
<1>2. Shape BY <1>1, SMTT(30) DEF Shape, Stored
<1>3. Marker /\ Loaded
  BY <1>1, SMTT(30) DEF Marker, Loaded, WalkActive, Covered, Vouched
<1>4. WaitSound /\ WalkSound /\ LiveSound /\ CatchUpSound
  BY <1>1, ZenonT(30) DEF WaitSound, WalkPlaced, WalkSound, WalkCounts, WalkActive,
     LiveSound, LiveCounts, CatchUpSound, RangeCounts
<1> QED BY <1>2, <1>3, <1>4, ZenonT(30) DEF Safe

\* Every step preserves the inductive invariant.
LEMMA NextIInv == IInv /\ [Next]_vars => IInv'
<1> SUFFICES ASSUME IInv, [Next]_vars PROVE IInv' BY ZenonT(30)
<1>1. TypeOK' /\ Ranges' /\ Turns'
  BY HaltStep, StateStep, RangesStep, TurnsStep, ZenonT(30) DEF IInv, TypeOK
<1>2. ASSUME Guarded' PROVE Safe'
  <2>1. Before BY <1>2, GuardedStep, ZenonT(30) DEF Before, IInv, TypeOK
  <2>2. Shape' /\ Marker' /\ Loaded'
    BY <2>1, ShapeStep, MarkerStep, LoadedStep, ZenonT(30)
  <2>3. WaitSound' /\ WalkSound' /\ LiveSound' /\ CatchUpSound'
    BY <2>1, WaitSoundStep, WalkSoundStep, LiveSoundStep, CatchUpSoundStep, ZenonT(30)
  <2> QED BY <2>2, <2>3, ZenonT(30) DEF Safe
<1> QED BY <1>1, <1>2, ZenonT(30) DEF IInv

\* The inductive invariant holds in every reachable state.
THEOREM InductiveInvariant == Spec => []IInv
<1> QED BY InitIInv, NextIInv, PTL DEF Spec

\* As long as no step was taken that the row generation does not guard, the
\* verified-tip marker, in memory and on disk, vouches only for blocks that are
\* stored and reproduced their own hashes or came with the trusted snapshot.
THEOREM MarkerSoundness == Spec => []MarkerSoundWhileGuarded
<1>1. IInv => MarkerSoundWhileGuarded
  BY MaxHeightAssumption, ZenonT(30) DEF IInv, MarkerSoundWhileGuarded, MarkerSound,
     Safe, Marker, Covered
<1> QED BY <1>1, InductiveInvariant, PTL

\* A step that stores a block stores it over blocks that are vouched for.
LEMMA StepBuildsOnVouched == IInv /\ [Next]_vars /\ Guarded' => BuildsOnVouched
<1> SUFFICES ASSUME IInv, [Next]_vars, Guarded' PROVE BuildsOnVouched BY ZenonT(30)
<1> USE MaxHeightAssumption
<1>1. StateOK /\ Ranges /\ Turns /\ Safe BY GuardedStep, ZenonT(30) DEF IInv, TypeOK
<1>2. CASE LiveApply
  BY <1>1, <1>2, SMTT(30) DEF LiveApply, BuildsOnVouched, StateOK, Safe, LiveSound,
     Covered, Vouched
<1>3. CASE CatchUpApply
  <2>1. CASE UNCHANGED rows BY <2>1, ZenonT(30) DEF BuildsOnVouched
  <2>2. ASSUME NEW hi \in passSince..MaxHeight, RangeApplied(hi) PROVE BuildsOnVouched
    <3>1. passPc = "apply" /\ ~Removing
      BY <1>1, <1>3, StateSorts, RangeCases, Zenon
    <3>2. Covered(passSince - 1)
      BY <1>1, <2>2, <3>1, StateSorts, ZenonT(30) DEF RangeApplied, Safe, CatchUpSound,
         RangeCounts, RowsChangedSince, Sorts
    <3>3. passSince \in Int BY <1>1, StateSorts DEF Sorts
    <3>4. \A n, h \in Heights :
            rows[n] = "none" /\ rows'[n] # "none" /\ h < n /\ rows[h] # "none" =>
              h <= passSince - 1 /\ rows'[h] = rows[h]
      BY <2>2, <3>3, SMTT(30) DEF RangeApplied
    <3> QED BY <3>2, <3>4, ZenonT(30) DEF BuildsOnVouched, Covered, Vouched
  <2> QED BY <1>1, <1>3, <2>1, <2>2, StateSorts, RangeCases, Zenon
<1>4. CASE BootApply BY <1>4, SMTT(30) DEF BootApply, BuildsOnVouched
<1>5. CASE ReorgDelete BY <1>5, ZenonT(30) DEF ReorgDelete, BuildsOnVouched
<1>6. CASE UNCHANGED rows BY <1>6, ZenonT(30) DEF BuildsOnVouched
<1>7. LiveApply \/ CatchUpApply \/ BootApply \/ ReorgDelete \/ UNCHANGED rows
  BY Zenon DEF Next, WalkStep, LiveStep, ReorgStep, PassStep, vars, ClearHalt,
     MarkerWriteDone, WalkTip, WalkMarker, WalkLoad, WalkLoaded, WalkSeed, WalkRead,
     WalkJudge, WalkPersist, WalkEnd, LiveStart, LiveVerify, LiveJudge, LiveAdvance,
     ReorgStart, ReorgOpen, ReorgLower, ReorgClose, ReorgFail, CatchUpStart, CatchUpTip,
     CatchUpSince, CatchUpDownload, CatchUpAudit, BootClose, BootAdopt, BootFail,
     StartSync, Follow, Restart
<1> QED BY <1>2, <1>3, <1>4, <1>5, <1>6, <1>7, ZenonT(30)

\* As long as no unguarded step was taken, a live block or a catch-up range is
\* committed only over stored blocks that are all vouched for.
THEOREM NothingBuiltOnUnverified == Spec => AdvanceOnVerified
<1>1. IInv /\ [Next]_vars => [Guarded' => BuildsOnVouched]_vars
  BY StepBuildsOnVouched, ZenonT(30)
<1> QED BY <1>1, InductiveInvariant, PTL DEF Spec, AdvanceOnVerified
=============================================================================
