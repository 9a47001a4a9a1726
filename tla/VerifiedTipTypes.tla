-------------------------- MODULE VerifiedTipTypes --------------------------
(***************************************************************************)
(* Type correctness of VerifiedTip for every MaxHeight and WriteStep: the  *)
(* types, the ranges of the cursors their arithmetic needs, and the turns  *)
(* the activities take.  They hold whatever steps were taken;              *)
(* VerifiedTipParts adds the parts of the inductive invariant that hold    *)
(* as long as no unguarded step was.                                       *)
(***************************************************************************)
EXTENDS VerifiedTip, TLAPS

\* A walk that has found its range.
WalkActive == walkPc \in {"read", "judge", "persist", "settle", "end"}

\* Cursors stay in range, whatever happened.
Ranges ==
    /\ WalkActive => /\ walkStart \in 1..walkH
                     /\ walkH <= walkTip
    /\ walkPc \in {"load", "loaded", "seed"} => walkTip >= 1
    /\ livePc # "idle" => liveN >= 1
    /\ reorgPc # "idle" => reorgB >= 1
    /\ passPc \in {"since", "download", "apply"} => passSince >= 1
    /\ passPc = "tail" => passSince >= 2
    /\ passPc \in {"bootClose", "adopt"} => passHi >= 1

\* A reorg and a live block take turns on the event chain; a rollback and a
\* full snapshot take turns on the apply lock; a walk has someone waiting, and
\* nobody is at work before start().
Turns ==
    /\ phase = "stopped" => passPc = "idle"
    /\ phase # "following" => livePc = "idle" /\ reorgPc = "idle"
    /\ livePc = "idle" \/ reorgPc = "idle"
    /\ reorgPc \in {"lower", "delete", "close"} => passPc # "bootClose"
    /\ walkPc # "idle" => livePc = "tail" \/ passPc \in {"tail", "verify"}

-----------------------------------------------------------------------------
USE DEF Heights, Unset, Unloaded, Content, Gen, Kinds,
        durable, halts, live, reorg, pass, walk

\* Every step leaves the halt flags Boolean.
LEMMA HaltStep == HaltOK /\ [Next]_vars => HaltOK'
<1>1. HaltOK /\ (ClearHalt \/ MarkerWriteDone \/ Follow \/ UNCHANGED vars) => HaltOK'
  BY Zenon DEF ClearHalt, MarkerWriteDone, Follow, vars, HaltOK
<1>2. HaltOK /\ WalkStep => HaltOK'
  BY Zenon DEF WalkStep, WalkTip, WalkMarker, WalkLoad, WalkLoaded, WalkSeed, WalkRead,
     WalkJudge, WalkPersist, WalkEnd, HaltOK, HaltOnDivergence
<1>3. HaltOK /\ ((\E n \in Heights : LiveStart(n)) \/ LiveApply \/ LiveVerify \/
      LiveJudge \/ LiveAdvance) => HaltOK'
  BY Zenon DEF LiveStart, LiveApply, LiveVerify, LiveJudge, LiveAdvance, HaltOK,
     HaltOnDivergence
<1>4. HaltOK /\ ((\E b \in Heights : ReorgStart(b)) \/ ReorgOpen \/ ReorgLower \/
      ReorgDelete \/ ReorgClose \/ ReorgFail) => HaltOK'
  BY Zenon DEF ReorgStart, ReorgOpen, ReorgLower, ReorgDelete, ReorgClose, ReorgFail,
     HaltOK, HaltOnDivergence
<1>5. HaltOK /\ (CatchUpStart \/ CatchUpTip \/ CatchUpSince \/ CatchUpDownload \/
      CatchUpApply \/
      CatchUpAudit) => HaltOK'
  BY Zenon DEF CatchUpStart, CatchUpTip, CatchUpSince, CatchUpDownload, CatchUpFails,
     CatchUpApply, CatchUpAudit, HaltOK, HaltOnDivergence
<1>6. HaltOK /\ (BootApply \/ BootClose \/ BootAdopt \/ BootFail \/ StartSync \/
      Restart) => HaltOK'
  BY ZenonT(30) DEF BootApply, BootClose, BootAdopt, BootFail, CatchUpFails, StartSync,
     Restart, HaltOK, HaltOnDivergence
<1> QED
  BY <1>1, <1>2, <1>3, <1>4, <1>5, <1>6, ZenonT(30) DEF Next, WalkStep, LiveStep,
     ReorgStep, PassStep

\* Every step preserves the types; the cursors' ranges bound their arithmetic.
LEMMA StateStep == StateOK /\ Ranges /\ [Next]_vars => StateOK'
<1> USE MaxHeightAssumption, WriteStepAssumption
<1>1. StateOK /\ Ranges /\ WalkStep => StateOK'
  <2>1. StateOK /\ Ranges /\ WalkTip => StateOK'
    BY DEF WalkTip, WalkReturns, WalkDone, LiveDone, PassDone, StateOK
  <2>2. StateOK /\ Ranges /\ WalkMarker => StateOK'
    BY SMTT(30) DEF WalkMarker, WalkFrom, WalkReturns, WalkDone, LiveDone, PassDone,
       StateOK
  <2>3. StateOK /\ Ranges /\ WalkLoad => StateOK'
    BY DEF WalkLoad, WalkReturns, WalkDone, LiveDone, PassDone, StateOK
  <2>4. StateOK /\ Ranges /\ WalkLoaded => StateOK'
    BY SMTT(30) DEF WalkLoaded, SetMemoryTip, Unguarded, When, Kinds, WalkFrom,
       WalkReturns, WalkDone, LiveDone, PassDone, StateOK
  <2>5. StateOK /\ Ranges /\ WalkSeed => StateOK'
    BY DEF WalkSeed, SetMemoryTip, Unguarded, When, Kinds, Ranges, StateOK
  <2>6. StateOK /\ Ranges /\ WalkRead => StateOK'
    BY DEF WalkRead, WalkReturns, WalkDone, LiveDone, PassDone, StateOK
  <2>7. StateOK /\ Ranges /\ WalkJudge => StateOK'
    BY SMTT(30) DEF WalkJudge, WalkReturns, WalkDone, LiveDone, PassDone, Ranges,
       WalkActive, MarkerDue, StateOK
  <2>8. StateOK /\ Ranges /\ WalkPersist => StateOK'
    BY DEF WalkPersist, Ranges, WalkActive, StateOK
  <2>9. StateOK /\ Ranges /\ WalkEnd => StateOK'
    BY DEF WalkEnd, WalkReturns, WalkDone, LiveDone, PassDone, StateOK
  <2> QED
    BY <2>1, <2>2, <2>3, <2>4, <2>5, <2>6, <2>7, <2>8, <2>9, ZenonT(30) DEF WalkStep
<1>2. StateOK /\ Ranges /\ LiveStep => StateOK'
  <2>1. StateOK /\ Ranges /\ LiveApply => StateOK' BY DEF LiveApply, LiveDone, StateOK
  <2>2. StateOK /\ Ranges /\ LiveVerify => StateOK' BY DEF LiveVerify, StateOK
  <2>3. ASSUME StateOK, Ranges, LiveJudge PROVE StateOK'
    <3>1. unguarded' \subseteq Kinds
      BY <2>3, Zenon DEF LiveJudge, Unguarded, When, Kinds, StateOK
    <3> QED BY <2>3, <3>1 DEF LiveJudge, LiveDone, StateOK
  <2>4. StateOK /\ Ranges /\ LiveAdvance => StateOK'
    BY DEF LiveAdvance, LiveDone, StateOK
  <2> QED BY <2>1, <2>2, <2>3, <2>4, ZenonT(30) DEF LiveStep
<1>3. StateOK /\ Ranges /\ ReorgStep => StateOK'
  <2>1. StateOK /\ Ranges /\ ReorgOpen => StateOK'
    BY DEF ReorgOpen, ReorgDone, BumpRowGeneration, StateOK
  <2>2. StateOK /\ Ranges /\ ReorgLower => StateOK' BY DEF ReorgLower, StateOK
  <2>3. StateOK /\ Ranges /\ ReorgDelete => StateOK' BY DEF ReorgDelete, StateOK
  <2>4. StateOK /\ Ranges /\ ReorgClose => StateOK'
    BY DEF ReorgClose, ReorgDone, BumpRowGeneration, Ranges, StateOK
  <2>5. StateOK /\ Ranges /\ ReorgFail => StateOK'
    BY DEF ReorgFail, ReorgDone, BumpRowGeneration, StateOK
  <2> QED BY <2>1, <2>2, <2>3, <2>4, <2>5, ZenonT(30) DEF ReorgStep
<1>4. StateOK /\ Ranges /\ PassStep => StateOK'
  <2>1. StateOK /\ Ranges /\ CatchUpTip => StateOK'
    BY SMTT(30) DEF CatchUpTip, CatchUpFails, PassDone, StateOK
  <2>2. ASSUME StateOK, Ranges, CatchUpSince PROVE StateOK'
    <3>1. unguarded' \subseteq Kinds
      BY <2>2, Zenon DEF CatchUpSince, SetMemoryTip, Unguarded, When, Kinds, StateOK
    <3> QED
      BY <2>2, <3>1, SMTT(30) DEF CatchUpSince, SetMemoryTip, PassDone, JoinWalk,
         StateOK
  <2>3. StateOK /\ Ranges /\ CatchUpDownload => StateOK'
    BY DEF CatchUpDownload, CatchUpFails, PassDone, StateOK
  <2>4. ASSUME StateOK, Ranges, CatchUpApply PROVE StateOK'
    <3>1. unguarded' \subseteq Kinds
      BY <2>4, Zenon DEF CatchUpApply, Unguarded, When, Kinds, StateOK
    <3>2. rows' \in [Heights -> Content]
      BY <2>4, ZenonT(30) DEF CatchUpApply, StateOK, Content, Heights
    <3>3. /\ UNCHANGED <<marker, phase, vtip, markerWrite, live, reorg, walk>>
          /\ \/ /\ passPc' = "audit" /\ passHi' \in passSince..MaxHeight
                /\ lastApplied' \in passSince..MaxHeight /\ UNCHANGED <<passSince, passGen>>
             \/ PassDone /\ UNCHANGED lastApplied
      BY <2>4, Zenon DEF CatchUpApply, CatchUpFails
    <3>4. passPc = "apply" BY <2>4, Zenon DEF CatchUpApply
    <3> QED
      BY <2>4, <3>1, <3>2, <3>3, <3>4 DEF live, reorg, walk, PassDone, Ranges, StateOK
  <2>5. StateOK /\ Ranges /\ CatchUpAudit => StateOK'
    BY DEF CatchUpAudit, PassDone, JoinWalk, StateOK
  <2>6. StateOK /\ Ranges /\ BootApply => StateOK'
    BY DEF BootApply, BumpRowGeneration, Unguarded, When, Kinds, StateOK
  <2>7. StateOK /\ Ranges /\ BootClose => StateOK'
    BY DEF BootClose, BumpRowGeneration, StateOK
  <2>8. StateOK /\ Ranges /\ BootAdopt => StateOK'
    BY DEF BootAdopt, BumpRowGeneration, PassDone, Unguarded, When, Kinds, StateOK
  <2>9. StateOK /\ Ranges /\ BootFail => StateOK'
    BY DEF BootFail, BumpRowGeneration, CatchUpFails, PassDone, StateOK
  <2> QED
    BY <2>1, <2>2, <2>3, <2>4, <2>5, <2>6, <2>7, <2>8, <2>9, ZenonT(30) DEF PassStep
<1>5. StateOK /\ Ranges /\ ClearHalt => StateOK' BY DEF ClearHalt, StateOK
<1>6. StateOK /\ Ranges /\ MarkerWriteDone => StateOK' BY DEF MarkerWriteDone, StateOK
<1>7. StateOK /\ Ranges /\ (\E n \in Heights : LiveStart(n)) => StateOK'
  BY DEF LiveStart, JoinWalk, StateOK
<1>8. StateOK /\ Ranges /\ (\E b \in Heights : ReorgStart(b)) => StateOK'
  BY DEF ReorgStart, StateOK
<1>9. StateOK /\ Ranges /\ CatchUpStart => StateOK' BY DEF CatchUpStart, StateOK
<1>10. StateOK /\ Ranges /\ StartSync => StateOK' BY DEF StartSync, StateOK
<1>11. StateOK /\ Ranges /\ Follow => StateOK' BY DEF Follow, StateOK
<1>12. StateOK /\ Ranges /\ Restart => StateOK'
  BY DEF Restart, LiveDone, ReorgDone, PassDone, WalkDone, StateOK
<1>13. StateOK /\ Ranges /\ UNCHANGED vars => StateOK' BY DEF vars, StateOK
<1> QED
  BY <1>1, <1>2, <1>3, <1>4, <1>5, <1>6, <1>7, <1>8, <1>9, <1>10, <1>11, <1>12, <1>13,
     ZenonT(30) DEF Next

\* Every step keeps the cursors in range.
LEMMA RangesStep == StateOK /\ Ranges /\ [Next]_vars => Ranges'
<1> USE MaxHeightAssumption, WriteStepAssumption
<1>1. StateOK /\ Ranges /\ WalkStep => Ranges'
  <2>1. StateOK /\ Ranges /\ WalkTip => Ranges'
    BY ZenonT(30) DEF WalkTip, WalkReturns, WalkDone, LiveDone, PassDone, Ranges,
       WalkActive
  <2>2. StateOK /\ Ranges /\ WalkMarker => Ranges'
    BY SMTT(30) DEF WalkMarker, WalkFrom, WalkReturns, WalkDone, LiveDone, PassDone,
       StateOK, Ranges, WalkActive
  <2>3. StateOK /\ Ranges /\ WalkLoad => Ranges'
    BY ZenonT(30) DEF WalkLoad, WalkReturns, WalkDone, LiveDone, PassDone, Ranges,
       WalkActive
  <2>4. StateOK /\ Ranges /\ WalkLoaded => Ranges'
    BY SMTT(30) DEF WalkLoaded, WalkFrom, WalkReturns, WalkDone, LiveDone, PassDone,
       StateOK, Ranges, WalkActive
  <2>5. StateOK /\ Ranges /\ WalkSeed => Ranges'
    BY DEF WalkSeed, StateOK, Ranges, WalkActive
  <2>6. StateOK /\ Ranges /\ WalkRead => Ranges'
    BY ZenonT(30) DEF WalkRead, WalkReturns, WalkDone, LiveDone, PassDone, Ranges,
       WalkActive
  <2>7. StateOK /\ Ranges /\ WalkJudge => Ranges'
    BY DEF WalkJudge, WalkReturns, WalkDone, LiveDone, PassDone, StateOK, Ranges,
       WalkActive, MarkerDue
  <2>8. StateOK /\ Ranges /\ WalkPersist => Ranges'
    BY DEF WalkPersist, StateOK, Ranges, WalkActive
  <2>9. StateOK /\ Ranges /\ WalkEnd => Ranges'
    BY DEF WalkEnd, WalkReturns, WalkDone, LiveDone, PassDone, StateOK, Ranges,
       WalkActive
  <2> QED
    BY <2>1, <2>2, <2>3, <2>4, <2>5, <2>6, <2>7, <2>8, <2>9, ZenonT(30) DEF WalkStep
<1>2. StateOK /\ Ranges /\ LiveStep => Ranges'
  <2>1. StateOK /\ Ranges /\ LiveApply => Ranges'
    BY ZenonT(30) DEF LiveApply, LiveDone, Ranges, WalkActive
  <2>2. StateOK /\ Ranges /\ LiveVerify => Ranges'
    BY ZenonT(30) DEF LiveVerify, Ranges, WalkActive
  <2>3. StateOK /\ Ranges /\ LiveJudge => Ranges'
    BY ZenonT(30) DEF LiveJudge, LiveDone, Ranges, WalkActive
  <2>4. StateOK /\ Ranges /\ LiveAdvance => Ranges'
    BY ZenonT(30) DEF LiveAdvance, LiveDone, Ranges, WalkActive
  <2> QED BY <2>1, <2>2, <2>3, <2>4, ZenonT(30) DEF LiveStep
<1>3. StateOK /\ Ranges /\ ReorgStep => Ranges'
  <2>1. StateOK /\ Ranges /\ ReorgOpen => Ranges'
    BY ZenonT(30) DEF ReorgOpen, ReorgDone, Ranges, WalkActive
  <2>2. StateOK /\ Ranges /\ ReorgLower => Ranges'
    BY ZenonT(30) DEF ReorgLower, Ranges, WalkActive
  <2>3. StateOK /\ Ranges /\ ReorgDelete => Ranges'
    BY ZenonT(30) DEF ReorgDelete, Ranges, WalkActive
  <2>4. StateOK /\ Ranges /\ ReorgClose => Ranges'
    BY ZenonT(30) DEF ReorgClose, ReorgDone, Ranges, WalkActive
  <2>5. StateOK /\ Ranges /\ ReorgFail => Ranges'
    BY ZenonT(30) DEF ReorgFail, ReorgDone, Ranges, WalkActive
  <2> QED BY <2>1, <2>2, <2>3, <2>4, <2>5, ZenonT(30) DEF ReorgStep
<1>4. StateOK /\ Ranges /\ PassStep => Ranges'
  <2>1. StateOK /\ Ranges /\ CatchUpTip => Ranges'
    BY DEF CatchUpTip, CatchUpFails, PassDone, Ranges, WalkActive
  <2>2. StateOK /\ Ranges /\ CatchUpSince => Ranges'
    BY DEF CatchUpSince, PassDone, JoinWalk, StateOK, Ranges, WalkActive
  <2>3. StateOK /\ Ranges /\ CatchUpDownload => Ranges'
    BY ZenonT(30) DEF CatchUpDownload, CatchUpFails, PassDone, Ranges, WalkActive
  <2>4. StateOK /\ Ranges /\ CatchUpApply => Ranges'
    BY ZenonT(30) DEF CatchUpApply, CatchUpFails, PassDone, Ranges, WalkActive
  <2>5. StateOK /\ Ranges /\ CatchUpAudit => Ranges'
    BY ZenonT(30) DEF CatchUpAudit, PassDone, JoinWalk, Ranges, WalkActive
  <2>6. StateOK /\ Ranges /\ BootApply => Ranges'
    BY DEF BootApply, Ranges, WalkActive
  <2>7. StateOK /\ Ranges /\ BootClose => Ranges'
    BY ZenonT(30) DEF BootClose, Ranges, WalkActive
  <2>8. StateOK /\ Ranges /\ BootAdopt => Ranges'
    BY ZenonT(30) DEF BootAdopt, PassDone, Ranges, WalkActive
  <2>9. StateOK /\ Ranges /\ BootFail => Ranges'
    BY ZenonT(30) DEF BootFail, CatchUpFails, PassDone, Ranges, WalkActive
  <2> QED
    BY <2>1, <2>2, <2>3, <2>4, <2>5, <2>6, <2>7, <2>8, <2>9, ZenonT(30) DEF PassStep
<1>5. StateOK /\ Ranges /\ ClearHalt => Ranges'
  BY ZenonT(30) DEF ClearHalt, Ranges, WalkActive
<1>6. StateOK /\ Ranges /\ MarkerWriteDone => Ranges'
  BY ZenonT(30) DEF MarkerWriteDone, Ranges, WalkActive
<1>7. StateOK /\ Ranges /\ (\E n \in Heights : LiveStart(n)) => Ranges'
  BY DEF LiveStart, JoinWalk, Ranges, WalkActive
<1>8. StateOK /\ Ranges /\ (\E b \in Heights : ReorgStart(b)) => Ranges'
  BY DEF ReorgStart, Ranges, WalkActive
<1>9. StateOK /\ Ranges /\ CatchUpStart => Ranges'
  BY ZenonT(30) DEF CatchUpStart, Ranges, WalkActive
<1>10. StateOK /\ Ranges /\ StartSync => Ranges'
  BY ZenonT(30) DEF StartSync, Ranges, WalkActive
<1>11. StateOK /\ Ranges /\ Follow => Ranges'
  BY ZenonT(30) DEF Follow, Ranges, WalkActive
<1>12. StateOK /\ Ranges /\ Restart => Ranges'
  BY ZenonT(30) DEF Restart, LiveDone, ReorgDone, PassDone, WalkDone, Ranges, WalkActive
<1>13. StateOK /\ Ranges /\ UNCHANGED vars => Ranges'
  BY ZenonT(30) DEF vars, Ranges, WalkActive
<1> QED
  BY <1>1, <1>2, <1>3, <1>4, <1>5, <1>6, <1>7, <1>8, <1>9, <1>10, <1>11, <1>12, <1>13,
     ZenonT(30) DEF Next

\* Every step keeps the turns.
LEMMA TurnsStep == StateOK /\ Turns /\ [Next]_vars => Turns'
<1>1. StateOK /\ Turns /\ WalkStep => Turns'
  <2>1. StateOK /\ Turns /\ WalkTip => Turns'
    BY ZenonT(30) DEF WalkTip, WalkReturns, WalkDone, PassDone, Turns
  <2>2. StateOK /\ Turns /\ WalkMarker => Turns'
    BY ZenonT(30) DEF WalkMarker, WalkFrom, WalkReturns, WalkDone, PassDone, Turns
  <2>3. StateOK /\ Turns /\ WalkLoad => Turns'
    BY ZenonT(30) DEF WalkLoad, WalkReturns, WalkDone, PassDone, Turns
  <2>4. StateOK /\ Turns /\ WalkLoaded => Turns'
    BY ZenonT(30) DEF WalkLoaded, WalkFrom, WalkReturns, WalkDone, PassDone, Turns
  <2>5. StateOK /\ Turns /\ WalkSeed => Turns' BY ZenonT(30) DEF WalkSeed, Turns
  <2>6. StateOK /\ Turns /\ WalkRead => Turns'
    BY ZenonT(30) DEF WalkRead, WalkReturns, WalkDone, PassDone, Turns
  <2>7. StateOK /\ Turns /\ WalkJudge => Turns'
    BY ZenonT(30) DEF WalkJudge, WalkReturns, WalkDone, PassDone, Turns
  <2>8. StateOK /\ Turns /\ WalkPersist => Turns' BY ZenonT(30) DEF WalkPersist, Turns
  <2>9. StateOK /\ Turns /\ WalkEnd => Turns'
    BY ZenonT(30) DEF WalkEnd, WalkReturns, WalkDone, PassDone, Turns
  <2> QED
    BY <2>1, <2>2, <2>3, <2>4, <2>5, <2>6, <2>7, <2>8, <2>9, ZenonT(30) DEF WalkStep
<1>2. StateOK /\ Turns /\ LiveStep => Turns'
  <2>1. StateOK /\ Turns /\ LiveApply => Turns'
    BY ZenonT(30) DEF LiveApply, Turns
  <2>2. StateOK /\ Turns /\ LiveVerify => Turns' BY ZenonT(30) DEF LiveVerify, Turns
  <2>3. StateOK /\ Turns /\ LiveJudge => Turns'
    BY ZenonT(30) DEF LiveJudge, Turns
  <2>4. StateOK /\ Turns /\ LiveAdvance => Turns'
    BY ZenonT(30) DEF LiveAdvance, Turns
  <2> QED BY <2>1, <2>2, <2>3, <2>4, ZenonT(30) DEF LiveStep
<1>3. StateOK /\ Turns /\ ReorgStep => Turns'
  <2>1. StateOK /\ Turns /\ ReorgOpen => Turns'
    BY ZenonT(30) DEF ReorgOpen, Turns, LockFree, Removing
  <2>2. StateOK /\ Turns /\ ReorgLower => Turns' BY ZenonT(30) DEF ReorgLower, Turns
  <2>3. StateOK /\ Turns /\ ReorgDelete => Turns' BY ZenonT(30) DEF ReorgDelete, Turns
  <2>4. StateOK /\ Turns /\ ReorgClose => Turns'
    BY ZenonT(30) DEF ReorgClose, Turns
  <2>5. StateOK /\ Turns /\ ReorgFail => Turns'
    BY ZenonT(30) DEF ReorgFail, Turns
  <2> QED BY <2>1, <2>2, <2>3, <2>4, <2>5, ZenonT(30) DEF ReorgStep
<1>4. StateOK /\ Turns /\ PassStep => Turns'
  <2>1. StateOK /\ Turns /\ CatchUpTip => Turns'
    BY ZenonT(30) DEF CatchUpTip, CatchUpFails, PassDone, Turns
  <2>2. StateOK /\ Turns /\ CatchUpSince => Turns'
    BY ZenonT(30) DEF CatchUpSince, PassDone, Turns
  <2>3. StateOK /\ Turns /\ CatchUpDownload => Turns'
    BY ZenonT(30) DEF CatchUpDownload, CatchUpFails, PassDone, Turns
  <2>4. StateOK /\ Turns /\ CatchUpApply => Turns'
    BY ZenonT(30) DEF CatchUpApply, Turns, LockFree, Removing
  <2>5. StateOK /\ Turns /\ CatchUpAudit => Turns'
    BY ZenonT(30) DEF CatchUpAudit, PassDone, Turns
  <2>6. StateOK /\ Turns /\ BootApply => Turns'
    BY ZenonT(30) DEF BootApply, Turns, LockFree, Removing
  <2>7. StateOK /\ Turns /\ BootClose => Turns'
    BY ZenonT(30) DEF BootClose, Turns
  <2>8. StateOK /\ Turns /\ BootAdopt => Turns'
    BY ZenonT(30) DEF BootAdopt, PassDone, Turns
  <2>9. StateOK /\ Turns /\ BootFail => Turns'
    BY ZenonT(30) DEF BootFail, CatchUpFails, PassDone, Turns
  <2> QED
    BY <2>1, <2>2, <2>3, <2>4, <2>5, <2>6, <2>7, <2>8, <2>9, ZenonT(30) DEF PassStep
<1>5. StateOK /\ Turns /\ ClearHalt => Turns' BY ZenonT(30) DEF ClearHalt, Turns
<1>6. StateOK /\ Turns /\ MarkerWriteDone => Turns'
  BY ZenonT(30) DEF MarkerWriteDone, Turns
<1>7. StateOK /\ Turns /\ (\E n \in Heights : LiveStart(n)) => Turns'
  BY ZenonT(30) DEF LiveStart, Turns
<1>8. StateOK /\ Turns /\ (\E b \in Heights : ReorgStart(b)) => Turns'
  BY ZenonT(30) DEF ReorgStart, Turns
<1>9. StateOK /\ Turns /\ CatchUpStart => Turns' BY ZenonT(30) DEF CatchUpStart, Turns
<1>10. StateOK /\ Turns /\ StartSync => Turns' BY ZenonT(30) DEF StartSync, Turns
<1>11. StateOK /\ Turns /\ Follow => Turns' BY ZenonT(30) DEF Follow, Turns
<1>12. StateOK /\ Turns /\ Restart => Turns'
  BY ZenonT(30) DEF Restart, LiveDone, ReorgDone, PassDone, WalkDone, Turns
<1>13. StateOK /\ Turns /\ UNCHANGED vars => Turns' BY ZenonT(30) DEF vars, Turns
<1> QED
  BY <1>1, <1>2, <1>3, <1>4, <1>5, <1>6, <1>7, <1>8, <1>9, <1>10, <1>11, <1>12, <1>13,
     ZenonT(30) DEF Next

\* The initial states.
LEMMA InitTypes == Init => TypeOK /\ Ranges /\ Turns
<1> USE MaxHeightAssumption
<1>1. Init => HaltOK BY ZenonT(30) DEF Init, HaltOK
<1>2. Init => StateOK
  <2>1. Init => unguarded \subseteq Kinds BY Zenon DEF Init, When, Kinds
  <2> QED BY <2>1 DEF Init, StateOK
<1>3. Init => Ranges /\ Turns BY ZenonT(30) DEF Init, Ranges, Turns, WalkActive
<1> QED BY <1>1, <1>2, <1>3, ZenonT(30) DEF TypeOK

\* Type correctness of the replica, whatever the heights and the write step.
THEOREM TypeCorrect == Spec => []TypeOK
<1>1. TypeOK /\ Ranges /\ [Next]_vars => (TypeOK /\ Ranges)'
  BY HaltStep, StateStep, RangesStep, ZenonT(30) DEF TypeOK
<1> QED BY <1>1, InitTypes, PTL DEF Spec
=============================================================================
