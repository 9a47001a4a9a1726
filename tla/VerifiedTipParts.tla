-------------------------- MODULE VerifiedTipParts --------------------------
(***************************************************************************)
(* The marker of the verified tip is sound and nothing is built on an      *)
(* unverified block, for every MaxHeight and WriteStep.  The inductive     *)
(* invariant comes first, in named parts; then one lemma for each part.    *)
(* VerifiedTipProofs has the last of these and the theorems that follow.   *)
(***************************************************************************)
EXTENDS VerifiedTipTypes

\* Every block at or below m is vouched for.
Covered(m) == \A h \in Heights : h <= m => Vouched(h)
Stored(h) == h >= 1 => rows[h] # "none"

WalkPlaced == walkPc \notin {"idle", "tip"}
WalkCounts == WalkActive /\ ~RowsChangedSince(walkGen)
LiveCounts == livePc # "idle" /\ ~RowsChangedSince(liveGen)
RangeCounts == /\ passPc \in {"download", "apply"}
               /\ ~RowsChangedSince(passGen)

\* What is stored has no gap, and the cursors point into it.
Shape ==
    /\ \A h, k \in Heights : k < h /\ rows[h] # "none" => rows[k] # "none"
    /\ reorgPc # "close" => Stored(lastApplied)
    /\ livePc # "idle" => Stored(liveN - 1)
    /\ reorgPc # "idle" => Stored(reorgB - 1)
    /\ passPc = "bootClose" => Covered(passHi)

\* The marker in memory, on disk and on its way there.
Marker ==
    /\ marker >= 0 /\ Covered(marker)
    /\ vtip # Unset /\ Covered(vtip)
    /\ vtip >= 0 => marker <= vtip /\ markerWrite <= vtip
    /\ vtip = Unloaded => markerWrite = Unset
    /\ reorgPc # "idle" /\ reorgPc # "lock" => vtip # Unloaded
    /\ reorgPc \in {"delete", "close"} =>
         vtip < reorgB /\ marker < reorgB /\ markerWrite = Unset
    /\ walkPc = "loaded" /\ vtip = Unloaded => walkStart = marker

\* The marker has been read before anyone compares a block with it.
Loaded ==
    /\ WalkActive \/ walkPc = "seed" => vtip # Unloaded
    /\ walkPc = "marker" /\ walkTip = 0 => vtip # Unloaded
    /\ phase = "stopped" /\ lastApplied = 0 => IsTip(0)
    /\ phase = "syncing" /\ passPc \in {"tip", "since", "tail", "download", "apply",
                                      "audit", "verify"} => lastApplied >= 1
    /\ phase = "following" /\ lastApplied = 0 => vtip # Unloaded
    /\ livePc = "tail" /\ liveN = 1 => vtip # Unloaded
    /\ livePc \notin {"idle", "tail"} => vtip # Unloaded

\* Whoever waits for a walk, or will, builds on nothing above the tip it read but
\* verified blocks.
WaitSound ==
    WalkPlaced =>
        /\ livePc # "tail" /\ reorgPc # "close" =>
             lastApplied <= walkTip \/ Covered(lastApplied)
        /\ reorgPc # "idle" => reorgB - 1 <= walkTip \/ Covered(reorgB - 1)
        /\ livePc = "tail" => liveN - 1 <= walkTip \/ Covered(liveN - 1)
        /\ passPc = "tail" /\ ~RowsChangedSince(passGen) => passSince - 1 <= walkTip

\* A walk whose generation still stands has covered everything below it.
WalkSound ==
    WalkCounts =>
        /\ Covered(walkH - 1)
        /\ walkPc \in {"judge", "persist"} /\ verdict = "ok" => Vouched(walkH)
        /\ walkPc = "end" => Covered(walkTip)

\* A live block was let in over verified blocks only, and once recomputed is one.
LiveSound ==
    /\ livePc = "apply" /\ rows[liveN] = "none" => Covered(liveN - 1)
    /\ LiveCounts =>
         /\ livePc # "tail" => Covered(liveN - 1)
         /\ livePc \in {"ok", "advance"} => Vouched(liveN)

\* A range is downloaded for a verified tip; a snapshot tip is adopted as one.
CatchUpSound ==
    /\ passPc \in {"since", "tail"} /\ ~RowsChangedSince(passGen) => Stored(passSince - 1)
    /\ RangeCounts => Covered(passSince - 1)
    /\ passPc = "adopt" /\ ~RowsChangedSince(passGen) => Covered(lastApplied)

Safe == /\ Shape /\ Marker /\ Loaded
        /\ WaitSound /\ WalkSound /\ LiveSound /\ CatchUpSound

\* The inductive invariant: the cursors are in range and, as long as no
\* unguarded step was taken, the parts above hold together.
IInv == /\ TypeOK
        /\ Ranges
        /\ Turns
        /\ Guarded => Safe

-----------------------------------------------------------------------------
(* What is stored, and the marker: the first parts that need Guarded.      *)

USE DEF Heights, Unset, Unloaded, Content, Gen,
        durable, halts, live, reorg, pass, walk

\* What a guarded step may assume of the state it starts in.
Before == StateOK /\ Ranges /\ Turns /\ Safe /\ Guarded'

\* The sorts of what the parts speak of.
Sorts ==
    /\ rows \in [Heights -> Content]
    /\ marker \in -1..MaxHeight /\ vtip \in -2..MaxHeight
    /\ markerWrite \in -1..MaxHeight
    /\ lastApplied \in 0..MaxHeight /\ liveN \in 0..MaxHeight
    /\ reorgB \in 0..MaxHeight /\ walkH \in 0..MaxHeight
    /\ walkTip \in 0..MaxHeight /\ walkStart \in -1..MaxHeight
    /\ passSince \in 0..MaxHeight + 1 /\ passHi \in 0..MaxHeight
    /\ liveGen \in Gen /\ walkGen \in Gen /\ passGen \in Gen

LEMMA StateSorts == StateOK => Sorts
BY ZenonT(30) DEF StateOK, Sorts

\* No step makes an unguarded run guarded again.
LEMMA GuardedStep == Guarded' /\ [Next]_vars => Guarded
<1>1. Guarded' /\ (ClearHalt \/ MarkerWriteDone \/ Follow \/ UNCHANGED vars \/
      StartSync \/ Restart) => Guarded
  BY ZenonT(30) DEF ClearHalt, Guarded, MarkerWriteDone, Follow, vars, StartSync,
     Restart
<1>2. Guarded' /\ WalkStep => Guarded
  BY ZenonT(30) DEF WalkStep, WalkTip, WalkMarker, WalkLoad, WalkLoaded, WalkSeed,
     SetMemoryTip, Unguarded, Guarded, WalkRead, WalkJudge, WalkPersist, WalkEnd
<1>3. Guarded' /\ ((\E n \in Heights : LiveStart(n)) \/ LiveApply \/ LiveVerify \/
      LiveJudge \/ LiveAdvance) => Guarded
  BY ZenonT(30) DEF LiveStart, Guarded, LiveApply, LiveVerify, LiveJudge, Unguarded,
     LiveAdvance
<1>4. Guarded' /\ ((\E b \in Heights : ReorgStart(b)) \/ ReorgOpen \/ ReorgLower \/
      ReorgDelete \/ ReorgClose \/ ReorgFail) => Guarded
  BY ZenonT(30) DEF ReorgStart, Guarded, ReorgOpen, ReorgLower, ReorgDelete, ReorgClose,
     ReorgFail
<1>5. Guarded' /\ (CatchUpStart \/ CatchUpTip \/ CatchUpSince \/ CatchUpDownload \/
      CatchUpApply \/ CatchUpAudit) => Guarded
  BY ZenonT(30) DEF CatchUpStart, Guarded, CatchUpTip, CatchUpSince, SetMemoryTip,
     CatchUpDownload, CatchUpApply, Unguarded, CatchUpAudit
<1>6. Guarded' /\ (BootApply \/ BootClose \/ BootAdopt \/ BootFail) => Guarded
  BY ZenonT(30) DEF BootApply, Guarded, Unguarded, BootClose, BootAdopt, BootFail
<1> QED
  BY <1>1, <1>2, <1>3, <1>4, <1>5, <1>6, ZenonT(30) DEF Next, WalkStep, LiveStep,
     ReorgStep, PassStep

\* A guarded memory marker is set no lower than the stored one and the one on its
\* way there, and no higher than the one in memory.
LEMMA GuardedTip ==
  \A v \in Int : Guarded' /\ SetMemoryTip(v) =>
     vtip' = v /\ ~(marker > v) /\ ~(markerWrite > v) /\ vtip \notin 0..v - 1
BY ZenonT(30) DEF Guarded, SetMemoryTip, Unguarded, When

\* A guarded range up to hi is committed on the rows its tip was read from.
RangeApplied(hi) ==
    /\ passPc' = "audit" /\ lastApplied' = hi
    /\ passGen # "moved"
    /\ \A h \in Heights : h \in passSince..hi => rows[h] = "none" /\ rows'[h] # "none"
    /\ \A h \in Heights : h \notin passSince..hi => rows'[h] = rows[h]

\* A guarded catch-up apply commits such a range or abandons it.
LEMMA RangeCases ==
  ASSUME Sorts, Ranges, Guarded', CatchUpApply
  PROVE  /\ passPc = "apply" /\ ~Removing
         /\ UNCHANGED <<marker, phase, vtip, markerWrite, live, reorg, walk>>
         /\ \/ PassDone /\ UNCHANGED <<rows, lastApplied>>
            \/ \E hi \in passSince..MaxHeight : RangeApplied(hi)
<1>1. passPc = "apply" /\ ~Removing /\ passSince >= 1
  BY Zenon DEF CatchUpApply, LockFree, Ranges
<1>2. ASSUME NEW hi \in passSince..MaxHeight,
             NEW c \in [passSince..hi -> {"good", "bad"}],
             rows' = [h \in Heights |-> IF h \in passSince..hi THEN c[h] ELSE rows[h]],
             Unguarded(When(passGen = "moved", "range") \cup
                       When(\E h \in passSince..hi : rows[h] # "none", "overlap")),
             passPc' = "audit", lastApplied' = hi
      PROVE  RangeApplied(hi)
  <2>1. passGen # "moved" /\ \A h \in passSince..hi : rows[h] = "none"
    BY <1>2, ZenonT(30) DEF Guarded, Unguarded, When
  <2>2. \A h \in Heights : /\ h \in passSince..hi => rows'[h] # "none"
                           /\ h \notin passSince..hi => rows'[h] = rows[h]
    BY <1>2, ZenonT(30)
  <2> QED BY <1>2, <2>1, <2>2, Zenon DEF RangeApplied
<1> QED BY <1>1, <1>2, ZenonT(30) DEF CatchUpApply, CatchUpFails

\* A guarded snapshot leaves no stored block without a row.
LEMMA GuardedSnapshot ==
  Guarded' /\ BootApply =>
    \E hi \in Heights :
      /\ passHi' = hi
      /\ rows' = [h \in Heights |-> IF h <= hi THEN "seed" ELSE "none"]
      /\ \A h \in Heights : h > hi => rows[h] = "none"
BY ZenonT(30) DEF BootApply, Guarded, Unguarded, When

\* Cursors that stay, over rows that stay, still point into what is stored.
LEMMA ShapeKept ==
  ASSUME Shape, UNCHANGED rows,
         reorgPc' # "close" => reorgPc # "close" /\ UNCHANGED lastApplied,
         livePc' # "idle" => livePc # "idle" /\ UNCHANGED liveN,
         reorgPc' # "idle" => reorgPc # "idle" /\ UNCHANGED reorgB,
         passPc' = "bootClose" => passPc = "bootClose" /\ UNCHANGED passHi
  PROVE  Shape'
BY ZenonT(30) DEF Shape, Stored, Covered, Vouched

\* What is stored stays without gaps, and the cursors point into it.
LEMMA ShapeStep == Before /\ [Next]_vars => Shape'
<1> USE MaxHeightAssumption
<1>1. Before /\ WalkStep => Shape'
  <2>1. Before /\ WalkTip => Shape'
    BY ShapeKept, ZenonT(30) DEF Before, Safe, WalkTip, WalkReturns, LiveDone, PassDone
  <2>2. Before /\ WalkMarker => Shape'
    BY ShapeKept, ZenonT(30) DEF Before, Safe, WalkMarker, WalkFrom, WalkReturns,
       LiveDone, PassDone
  <2>3. Before /\ WalkLoad => Shape'
    BY ShapeKept, ZenonT(30) DEF Before, Safe, WalkLoad, WalkReturns, LiveDone, PassDone
  <2>4. Before /\ WalkLoaded => Shape'
    BY ShapeKept, ZenonT(30) DEF Before, Safe, WalkLoaded, WalkFrom, WalkReturns,
       LiveDone, PassDone
  <2>5. Before /\ WalkSeed => Shape'
    BY ShapeKept, ZenonT(30) DEF Before, Safe, WalkSeed
  <2>6. Before /\ WalkRead => Shape'
    BY ShapeKept, ZenonT(30) DEF Before, Safe, WalkRead, WalkReturns, LiveDone, PassDone
  <2>7. Before /\ WalkJudge => Shape'
    BY ShapeKept, ZenonT(30) DEF Before, Safe, WalkJudge, WalkReturns, LiveDone,
       PassDone
  <2>8. Before /\ WalkPersist => Shape'
    BY ShapeKept, ZenonT(30) DEF Before, Safe, WalkPersist
  <2>9. Before /\ WalkEnd => Shape'
    BY ShapeKept, ZenonT(30) DEF Before, Safe, WalkEnd, WalkReturns, LiveDone, PassDone
  <2> QED
    BY <2>1, <2>2, <2>3, <2>4, <2>5, <2>6, <2>7, <2>8, <2>9, ZenonT(30) DEF WalkStep
<1>2. Before /\ LiveStep => Shape'
  <2>1. Before /\ LiveApply => Shape'
    <3> SUFFICES ASSUME Before, LiveApply PROVE Shape' BY ZenonT(30)
    <3>1. \A h \in Heights : rows[h] # "none" => rows'[h] # "none"
      BY StateSorts, ZenonT(30) DEF LiveApply, Before, Sorts
    <3>2. \A h \in Heights : rows'[h] # "none" => rows[h] # "none" \/ h = liveN
      BY StateSorts, ZenonT(30) DEF LiveApply, Before, Sorts
    <3>3. liveN \in Heights /\ Stored(liveN - 1)
      BY StateSorts DEF LiveApply, Ranges, Before, Sorts, Safe, Shape
    <3>4. \A h, k \in Heights : k < h /\ rows'[h] # "none" => rows'[k] # "none"
      BY <3>1, <3>2, <3>3, SMTT(30) DEF Stored, Before, Safe, Shape
    <3>5. \A h \in Heights : Vouched(h) => Vouched(h)'
      BY StateSorts, ZenonT(30) DEF LiveApply, Vouched, Before, Sorts
    <3> QED
      BY <3>1, <3>4, <3>5 DEF LiveApply, LiveDone, Stored, Covered, Before, StateOK,
         Safe, Shape
  <2>2. Before /\ LiveVerify => Shape'
    BY ShapeKept, ZenonT(30) DEF Before, Safe, LiveVerify
  <2>3. Before /\ LiveJudge => Shape'
    <3>1. Before /\ LiveJudge /\ livePc = "ok" => ~RowsChangedSince(liveGen)
      BY ZenonT(30) DEF LiveJudge, Before, Guarded, Unguarded, When
    <3> QED
      BY <3>1, ZenonT(30) DEF LiveJudge, LiveDone, Before, Safe, Shape, Stored, Covered,
         Vouched, LiveSound, LiveCounts
  <2>4. Before /\ LiveAdvance => Shape'
    BY ShapeKept, ZenonT(30) DEF Before, Safe, LiveAdvance, LiveDone
  <2> QED BY <2>1, <2>2, <2>3, <2>4, ZenonT(30) DEF LiveStep
<1>3. Before /\ ReorgStep => Shape'
  <2>1. Before /\ ReorgOpen => Shape'
    BY ShapeKept, ZenonT(30) DEF Before, Safe, ReorgOpen, ReorgDone
  <2>2. Before /\ ReorgLower => Shape'
    BY ShapeKept, ZenonT(30) DEF Before, Safe, ReorgLower
  <2>3. Before /\ ReorgDelete => Shape'
    BY StateSorts, SMTT(30) DEF ReorgDelete, Before, Sorts, Safe, Shape, Stored, Turns
  <2>4. Before /\ ReorgClose => Shape'
    BY ZenonT(30) DEF ReorgClose, ReorgDone, Before, Safe, Shape, Stored, Covered,
       Vouched
  <2>5. Before /\ ReorgFail => Shape'
    BY ShapeKept, ZenonT(30) DEF Before, Safe, ReorgFail, ReorgDone
  <2> QED BY <2>1, <2>2, <2>3, <2>4, <2>5, ZenonT(30) DEF ReorgStep
<1>4. Before /\ PassStep => Shape'
  <2>1. Before /\ CatchUpTip => Shape'
    BY ShapeKept, ZenonT(30) DEF Before, Safe, CatchUpTip, CatchUpFails, PassDone
  <2>2. Before /\ CatchUpSince => Shape'
    BY ShapeKept, ZenonT(30) DEF Before, Safe, CatchUpSince, PassDone
  <2>3. Before /\ CatchUpDownload => Shape'
    BY ShapeKept, ZenonT(30) DEF Before, Safe, CatchUpDownload, CatchUpFails, PassDone
  <2>4. Before /\ CatchUpApply => Shape'
    <3> SUFFICES ASSUME Before, CatchUpApply PROVE Shape' BY ZenonT(30)
    <3>1. passPc = "apply" /\ ~Removing /\ UNCHANGED <<live, reorg>>
      BY StateSorts, RangeCases, Zenon DEF Before
    <3>2. CASE PassDone /\ UNCHANGED <<rows, lastApplied>>
      BY <3>1, <3>2, ShapeKept, ZenonT(30) DEF PassDone, Before, Safe
    <3>3. ASSUME NEW hi \in passSince..MaxHeight, RangeApplied(hi) PROVE Shape'
      <4>1. Covered(passSince - 1) /\ passSince >= 1
        BY <3>1, <3>3, StateSorts, ZenonT(30) DEF RangeApplied, CatchUpSound,
           RangeCounts, RowsChangedSince, Ranges, Before, Safe, Sorts
      <4>2. passSince \in Int BY StateSorts DEF Before, Sorts
      <4>3. \A h \in Heights : rows[h] # "none" \/ h <= hi => rows'[h] # "none"
        BY <3>3, <4>1, <4>2, SMTT(30) DEF RangeApplied, Covered, Vouched
      <4>4. \A h \in Heights : rows'[h] # "none" => rows[h] # "none" \/ h <= hi
        BY <3>3, <4>2, SMTT(30) DEF RangeApplied
      <4>5. (\A h, k \in Heights : k < h /\ rows[h] # "none" => rows[k] # "none")'
        BY <3>3, <4>2, <4>3, <4>4, SMTT(30) DEF Before, Safe, Shape
      <4>6. passPc' = "audit" /\ lastApplied' = hi BY <3>3, Zenon DEF RangeApplied
      <4> QED
        BY <3>1, <4>1, <4>2, <4>3, <4>5, <4>6, StateSorts, SMTT(60) DEF Stored, Before,
           Sorts, Safe, Shape
    <3> QED BY <3>2, <3>3, StateSorts, RangeCases, Zenon DEF Before
  <2>5. Before /\ CatchUpAudit => Shape'
    BY ShapeKept, ZenonT(30) DEF Before, Safe, CatchUpAudit, PassDone
  <2>6. Before /\ BootApply => Shape'
    <3> SUFFICES ASSUME Before, BootApply PROVE Shape' BY ZenonT(30)
    <3>1. PICK hi \in Heights :
            /\ passHi' = hi
            /\ rows' = [h \in Heights |-> IF h <= hi THEN "seed" ELSE "none"]
            /\ \A h \in Heights : h > hi => rows[h] = "none"
      BY GuardedSnapshot, Zenon DEF Before
    <3>2. \A h \in Heights : /\ h <= hi => rows'[h] = "seed"
                             /\ rows'[h] # "none" <=> h <= hi
                             /\ rows[h] # "none" => rows'[h] # "none"
      BY <3>1
    <3>3. UNCHANGED <<livePc, liveN, lastApplied, reorg>> BY Zenon DEF BootApply
    <3> QED
      BY <3>1, <3>2, <3>3, StateSorts, SMTT(30) DEF Before, Sorts, Safe, Shape, Stored,
         Covered, Vouched
  <2>7. Before /\ BootClose => Shape'
    BY StateSorts, SMTT(30) DEF BootClose, Before, Sorts, Safe, Shape, Stored, Covered,
       Vouched
  <2>8. Before /\ BootAdopt => Shape'
    BY ShapeKept, ZenonT(30) DEF Before, Safe, BootAdopt, PassDone
  <2>9. Before /\ BootFail => Shape'
    BY ShapeKept, ZenonT(30) DEF Before, Safe, BootFail, CatchUpFails, PassDone
  <2> QED
    BY <2>1, <2>2, <2>3, <2>4, <2>5, <2>6, <2>7, <2>8, <2>9, ZenonT(30) DEF PassStep
<1>5. Before /\ ClearHalt => Shape'
  BY ShapeKept, ZenonT(30) DEF Before, Safe, ClearHalt
<1>6. Before /\ MarkerWriteDone => Shape'
  BY ShapeKept, ZenonT(30) DEF Before, Safe, MarkerWriteDone
<1>7. Before /\ (\E n \in Heights : LiveStart(n)) => Shape'
  <2>1. ASSUME NEW n \in Heights, LiveStart(n)
        PROVE  /\ UNCHANGED <<rows, lastApplied, reorg, pass>> /\ reorgPc = "idle"
               /\ UNCHANGED live \/ liveN' = lastApplied + 1
    BY <2>1, ZenonT(30) DEF LiveStart
  <2> QED
    BY <2>1, StateSorts, SMTT(60) DEF Before, Sorts, Safe, Shape, Stored, Covered,
       Vouched
<1>8. Before /\ (\E b \in Heights : ReorgStart(b)) => Shape'
  BY StateSorts, SMTT(30) DEF ReorgStart, Before, Sorts, Safe, Shape, Stored, Covered,
     Vouched
<1>9. Before /\ CatchUpStart => Shape'
  BY ShapeKept, ZenonT(30) DEF Before, Safe, CatchUpStart
<1>10. Before /\ StartSync => Shape'
  BY ShapeKept, ZenonT(30) DEF Before, Safe, StartSync
<1>11. Before /\ Follow => Shape'
  BY ShapeKept, ZenonT(30) DEF Before, Safe, Follow
<1>12. Before /\ Restart => Shape'
  BY SMTT(30) DEF Restart, LiveDone, ReorgDone, PassDone, Before, Safe, Shape, Stored,
     IsTip
<1>13. Before /\ UNCHANGED vars => Shape'
  BY ShapeKept, ZenonT(30) DEF Before, Safe, vars
<1> QED
  BY <1>1, <1>2, <1>3, <1>4, <1>5, <1>6, <1>7, <1>8, <1>9, <1>10, <1>11, <1>12, <1>13,
     ZenonT(30) DEF Next

\* A marker that stays is still covered when every block vouched for stays so.
LEMMA MarkerGrown ==
  ASSUME Marker, UNCHANGED <<marker, vtip, markerWrite>>,
         \A h \in Heights : Vouched(h) => Vouched(h)',
         reorgPc' \notin {"idle", "lock"} => reorgPc \notin {"idle", "lock"},
         reorgPc' \in {"delete", "close"} =>
           reorgPc \in {"delete", "close"} /\ UNCHANGED reorgB,
         walkPc' = "loaded" => walkPc = "loaded" /\ UNCHANGED walkStart
  PROVE  Marker'
BY ZenonT(30) DEF Marker, Covered

\* A marker that stays, over rows that stay, is still covered.
LEMMA MarkerKept ==
  ASSUME Marker, UNCHANGED <<rows, marker, vtip, markerWrite>>,
         reorgPc' \notin {"idle", "lock"} => reorgPc \notin {"idle", "lock"},
         reorgPc' \in {"delete", "close"} =>
           reorgPc \in {"delete", "close"} /\ UNCHANGED reorgB,
         walkPc' = "loaded" => walkPc = "loaded" /\ UNCHANGED walkStart
  PROVE  Marker'
BY MarkerGrown, ZenonT(30) DEF Vouched

\* The marker stays covered, in memory, on disk and on its way there.
LEMMA MarkerStep == Before /\ [Next]_vars => Marker'
<1> USE MaxHeightAssumption
<1>1. Before /\ WalkStep => Marker'
  <2>1. Before /\ WalkTip => Marker'
    BY MarkerKept, ZenonT(30) DEF Before, Safe, WalkTip, WalkReturns, WalkDone
  <2>2. Before /\ WalkMarker => Marker'
    BY MarkerKept, ZenonT(30) DEF Before, Safe, WalkMarker, WalkFrom, WalkReturns,
       WalkDone
  <2>3. Before /\ WalkLoad => Marker'
    BY ZenonT(30) DEF WalkLoad, WalkReturns, WalkDone, Before, Safe, Marker, Covered,
       Vouched
  <2>4. Before /\ WalkLoaded => Marker'
    <3> SUFFICES ASSUME Before, WalkLoaded PROVE Marker' BY ZenonT(30)
    <3>1. /\ walkPc = "loaded" /\ walkPc' # "loaded"
          /\ UNCHANGED <<rows, marker, markerWrite, reorg>>
      BY ZenonT(30) DEF WalkLoaded, WalkFrom, WalkReturns, WalkDone
    <3>2. walkStart \in Int BY StateSorts DEF Before, Sorts
    <3>3. /\ vtip' = walkStart /\ ~(marker > walkStart)
          /\ ~(markerWrite > walkStart) /\ vtip \notin 0..walkStart - 1
      BY <3>2, GuardedTip, Zenon DEF WalkLoaded, Before
    <3> QED
      BY <3>1, <3>3, StateSorts, SMTT(30) DEF Before, Sorts, Safe, Marker, Covered,
         Vouched
  <2>5. Before /\ WalkSeed => Marker'
    <3> SUFFICES ASSUME Before, WalkSeed PROVE Marker' BY ZenonT(30)
    <3>1. /\ walkPc = "seed" /\ walkPc' = "read"
          /\ UNCHANGED <<rows, marker, markerWrite, reorg>>
      BY ZenonT(30) DEF WalkSeed
    <3>2. walkTip - 1 \in Int BY StateSorts DEF Before, Sorts
    <3>3. /\ vtip' = walkTip - 1 /\ ~(marker > walkTip - 1)
          /\ ~(markerWrite > walkTip - 1) /\ vtip \notin 0..(walkTip - 1) - 1
      BY <3>2, GuardedTip, Zenon DEF WalkSeed, Before
    <3>4. vtip >= 0
      BY <3>1, StateSorts DEF Before, Sorts, Safe, Marker, Loaded
    <3> QED
      BY <3>1, <3>3, <3>4, StateSorts, SMTT(30) DEF Before, Sorts, Safe, Marker,
         Covered, Vouched
  <2>6. Before /\ WalkRead => Marker'
    BY MarkerKept, ZenonT(30) DEF Before, Safe, WalkRead, WalkReturns, WalkDone
  <2>7. Before /\ WalkJudge => Marker'
    <3> SUFFICES ASSUME Before, WalkJudge PROVE Marker' BY ZenonT(30)
    <3>1. /\ walkPc = "judge" /\ walkPc' # "loaded"
          /\ UNCHANGED <<rows, marker, markerWrite, reorg>>
      BY ZenonT(30) DEF WalkJudge, WalkReturns, WalkDone
    <3>2. CASE UNCHANGED vtip BY <3>1, <3>2, MarkerKept, ZenonT(30) DEF Before, Safe
    <3>3. CASE vtip' # vtip
      <4>1. /\ vtip' = walkH /\ walkH > vtip /\ verdict = "ok"
            /\ ~RowsChangedSince(walkGen)
        BY <3>3, ZenonT(30) DEF WalkJudge
      <4>2. Covered(walkH - 1) /\ Vouched(walkH)
        BY <3>1, <4>1, ZenonT(30) DEF Before, Safe, WalkSound, WalkCounts, WalkActive
      <4>3. ~Removing BY <4>1, ZenonT(30) DEF RowsChangedSince
      <4>4. vtip >= 0
        BY <3>1, StateSorts DEF Before, Sorts, Safe, Marker, Loaded, WalkActive
      <4> QED
        BY <3>1, <4>1, <4>2, <4>3, <4>4, StateSorts, SMTT(30) DEF Before, Sorts, Safe,
           Marker, Covered, Vouched, Removing
    <3> QED BY <3>2, <3>3, ZenonT(30)
  <2>8. Before /\ WalkPersist => Marker'
    BY SMTT(30) DEF WalkPersist, Before, Safe, Marker, Covered, Vouched,
       RowsChangedSince, Removing
  <2>9. Before /\ WalkEnd => Marker'
    BY MarkerKept, ZenonT(30) DEF Before, Safe, WalkEnd, WalkReturns, WalkDone
  <2> QED
    BY <2>1, <2>2, <2>3, <2>4, <2>5, <2>6, <2>7, <2>8, <2>9, ZenonT(30) DEF WalkStep
<1>2. Before /\ LiveStep => Marker'
  <2>1. Before /\ LiveApply => Marker'
    <3> SUFFICES ASSUME Before, LiveApply PROVE Marker' BY ZenonT(30)
    <3>1. \A h \in Heights : Vouched(h) => Vouched(h)'
      BY StateSorts, ZenonT(30) DEF LiveApply, Vouched, Before, Sorts
    <3> QED BY <3>1, MarkerGrown, ZenonT(30) DEF LiveApply, Before, Safe
  <2>2. Before /\ LiveVerify => Marker'
    BY MarkerKept, ZenonT(30) DEF Before, Safe, LiveVerify
  <2>3. Before /\ LiveJudge => Marker'
    BY MarkerKept, ZenonT(30) DEF Before, Safe, LiveJudge
  <2>4. Before /\ LiveAdvance => Marker'
    BY StateSorts, SMTT(30) DEF LiveAdvance, Before, Sorts, Safe, Marker, Covered,
       Vouched, RowsChangedSince, Removing, LiveSound, LiveCounts, Loaded
  <2> QED BY <2>1, <2>2, <2>3, <2>4, ZenonT(30) DEF LiveStep
<1>3. Before /\ ReorgStep => Marker'
  <2>1. Before /\ ReorgOpen => Marker'
    BY StateSorts, SMTT(30) DEF ReorgOpen, ReorgDone, Before, Sorts, Safe, Marker,
       Covered, Vouched
  <2>2. Before /\ ReorgLower => Marker'
    BY StateSorts, SMTT(30) DEF ReorgLower, Before, Sorts, Safe, Marker, Covered,
       Vouched, Ranges
  <2>3. Before /\ ReorgDelete => Marker'
    BY StateSorts, SMTT(30) DEF ReorgDelete, Before, Sorts, Safe, Marker, Covered,
       Vouched
  <2>4. Before /\ ReorgClose => Marker'
    BY MarkerKept, ZenonT(30) DEF Before, Safe, ReorgClose, ReorgDone
  <2>5. Before /\ ReorgFail => Marker'
    BY MarkerKept, ZenonT(30) DEF Before, Safe, ReorgFail, ReorgDone
  <2> QED BY <2>1, <2>2, <2>3, <2>4, <2>5, ZenonT(30) DEF ReorgStep
<1>4. Before /\ PassStep => Marker'
  <2>1. Before /\ CatchUpTip => Marker'
    BY MarkerKept, ZenonT(30) DEF Before, Safe, CatchUpTip
  <2>2. Before /\ CatchUpSince => Marker'
    <3> SUFFICES ASSUME Before, CatchUpSince PROVE Marker' BY ZenonT(30)
    <3>1. /\ UNCHANGED <<rows, marker, markerWrite, reorg>>
          /\ walkPc' = "loaded" => walkPc = "loaded" /\ UNCHANGED walkStart
      BY ZenonT(30) DEF CatchUpSince, JoinWalk
    <3>2. CASE UNCHANGED vtip BY <3>1, <3>2, MarkerKept, ZenonT(30) DEF Before, Safe
    <3>3. CASE SetMemoryTip(0)
      <4>1. vtip' = 0 /\ ~(marker > 0) /\ ~(markerWrite > 0) /\ vtip \notin 0..0 - 1
        <5>1. 0 \in Int OBVIOUS
        <5> QED BY <3>3, <5>1, GuardedTip, Zenon DEF Before
      <4> QED
        BY <3>1, <4>1, StateSorts, SMTT(30) DEF Before, Sorts, Safe, Marker, Covered,
           Ranges
    <3> QED BY <3>2, <3>3, Zenon DEF CatchUpSince
  <2>3. Before /\ CatchUpDownload => Marker'
    BY MarkerKept, ZenonT(30) DEF Before, Safe, CatchUpDownload
  <2>4. Before /\ CatchUpApply => Marker'
    <3> SUFFICES ASSUME Before, CatchUpApply PROVE Marker' BY ZenonT(30)
    <3>1. /\ UNCHANGED <<marker, vtip, markerWrite, reorg, walk>>
          /\ \A h \in Heights : rows[h] # "none" => rows'[h] = rows[h]
      BY StateSorts, RangeCases, ZenonT(30) DEF RangeApplied, Before
    <3>2. \A h \in Heights : Vouched(h) => Vouched(h)'
      BY <3>1, ZenonT(30) DEF Vouched
    <3> QED BY <3>1, <3>2, MarkerGrown, ZenonT(30) DEF Before, Safe
  <2>5. Before /\ CatchUpAudit => Marker'
    BY MarkerKept, ZenonT(30) DEF Before, Safe, CatchUpAudit, JoinWalk
  <2>6. Before /\ BootApply => Marker'
    <3> SUFFICES ASSUME Before, BootApply PROVE Marker' BY ZenonT(30)
    <3>1. UNCHANGED <<marker, vtip, markerWrite, reorg, walkPc, walkStart>>
      BY Zenon DEF BootApply
    <3>2. PICK hi \in Heights :
            /\ rows' = [h \in Heights |-> IF h <= hi THEN "seed" ELSE "none"]
            /\ \A h \in Heights : h > hi => rows[h] = "none"
      BY GuardedSnapshot, Zenon DEF Before
    <3>3. \A h \in Heights : Vouched(h) => Vouched(h)' BY <3>2 DEF Vouched
    <3> QED BY <3>1, <3>3, MarkerGrown, ZenonT(30) DEF Before, Safe
  <2>7. Before /\ BootClose => Marker'
    BY MarkerKept, ZenonT(30) DEF Before, Safe, BootClose
  <2>8. Before /\ BootAdopt => Marker'
    <3> SUFFICES ASSUME Before, BootAdopt PROVE Marker' BY ZenonT(30)
    <3>1. ~RowsChangedSince(passGen) /\ marker' # Unset /\ ~(marker' > lastApplied)
      BY ZenonT(30) DEF BootAdopt, Before, Guarded, Unguarded, When
    <3>2. Covered(lastApplied)
      BY <3>1, ZenonT(30) DEF BootAdopt, Before, Safe, CatchUpSound
    <3> QED
      BY <3>1, <3>2, StateSorts, SMTT(30) DEF BootAdopt, Before, Sorts, Safe, Marker,
         Covered, Vouched, RowsChangedSince, Removing
  <2>9. Before /\ BootFail => Marker'
    BY MarkerKept, ZenonT(30) DEF Before, Safe, BootFail
  <2> QED
    BY <2>1, <2>2, <2>3, <2>4, <2>5, <2>6, <2>7, <2>8, <2>9, ZenonT(30) DEF PassStep
<1>5. Before /\ ClearHalt => Marker'
  BY MarkerKept, ZenonT(30) DEF Before, Safe, ClearHalt
<1>6. Before /\ Follow => Marker'
  BY MarkerKept, ZenonT(30) DEF Before, Safe, Follow
<1>7. Before /\ UNCHANGED vars => Marker'
  BY MarkerKept, ZenonT(30) DEF Before, Safe, vars
<1>8. Before /\ MarkerWriteDone => Marker'
  BY StateSorts, SMTT(30) DEF MarkerWriteDone, Before, Sorts, Safe, Marker, Covered,
     Vouched
<1>9. Before /\ (\E n \in Heights : LiveStart(n)) => Marker'
  BY MarkerKept, ZenonT(30) DEF Before, Safe, LiveStart, JoinWalk
<1>10. Before /\ (\E b \in Heights : ReorgStart(b)) => Marker'
  BY MarkerKept, ZenonT(30) DEF Before, Safe, ReorgStart
<1>11. Before /\ CatchUpStart => Marker'
  BY MarkerKept, ZenonT(30) DEF Before, Safe, CatchUpStart
<1>12. Before /\ StartSync => Marker'
  BY MarkerKept, ZenonT(30) DEF Before, Safe, StartSync
<1>13. Before /\ Restart => Marker'
  <2>1. Restart => /\ rows' = rows /\ vtip' = Unloaded /\ markerWrite' = Unset
                   /\ marker' \in {marker, markerWrite} /\ (marker' = marker \/ marker' # Unset)
                   /\ reorgPc' = "idle" /\ walkPc' = "idle"
    BY ZenonT(30) DEF Restart, ReorgDone, WalkDone
  <2> QED
    BY <2>1, StateSorts, SMTT(30) DEF Before, Sorts, Safe, Marker, Covered, Vouched
<1> QED
  BY <1>1, <1>2, <1>3, <1>4, <1>5, <1>6, <1>7, <1>8, <1>9, <1>10, <1>11, <1>12, <1>13,
     ZenonT(30) DEF Next

\* A walk that returns leaves the marker loaded for those who go on.
LEMMA LoadedReturn ==
  ASSUME Loaded, UNCHANGED <<rows, phase, vtip, lastApplied>>
  PROVE  /\ WalkReturns("held") => Loaded'
         /\ \A r \in {"held", "halted", "ok"} :
              WalkReturns(r) /\ vtip # Unloaded => Loaded'
<1> SUFFICES ASSUME NEW r \in {"held", "halted", "ok"}, WalkReturns(r),
                    r = "held" \/ vtip # Unloaded
             PROVE  Loaded'
  BY ZenonT(30)
<1>1. walkPc' = "idle" BY Zenon DEF WalkReturns, WalkDone
<1>2. \/ UNCHANGED live
      \/ livePc' = "idle"
      \/ livePc' = "apply" /\ vtip # Unloaded
  BY ZenonT(30) DEF WalkReturns, LiveDone
<1>3. \/ UNCHANGED pass
      \/ passPc' = "idle"
      \/ passPc = "tail" /\ passPc' = "download"
  BY Zenon DEF WalkReturns, PassDone
<1> QED BY <1>1, <1>2, <1>3, ZenonT(30) DEF Loaded, WalkActive, IsTip

\* A walk that starts from a loaded marker keeps it loaded.
LEMMA LoadedFrom ==
  ASSUME Loaded, UNCHANGED <<rows, phase, lastApplied>>, vtip' # Unloaded,
         NEW v, WalkFrom(v)
  PROVE  Loaded'
<1>1. \/ UNCHANGED pass
      \/ passPc' = "idle"
      \/ passPc = "tail" /\ passPc' = "download"
  BY ZenonT(30) DEF WalkFrom, WalkReturns, PassDone
<1>2. walkPc' # "marker" BY ZenonT(30) DEF WalkFrom, WalkReturns, WalkDone
<1> QED BY <1>1, <1>2, ZenonT(30) DEF Loaded, IsTip

\* The marker stays loaded when the rows, the phase and the memory tip stay.
LEMMA LoadedKept ==
  ASSUME Loaded, UNCHANGED <<rows, phase, lastApplied>>, vtip = vtip' \/ vtip' # Unloaded,
         \/ UNCHANGED <<livePc, liveN>>
         \/ livePc' = "idle"
         \/ livePc \notin {"idle", "tail"} /\ livePc' # "tail",
         UNCHANGED <<walkPc, walkTip>> \/ walkPc' \in {"idle", "tip"},
         \/ UNCHANGED passPc
         \/ passPc' \in {"idle", "boot", "bootClose", "adopt"}
         \/ phase = "following"
         \/ /\ passPc \in {"tip", "since", "tail", "download", "apply", "audit", "verify"}
            /\ passPc' \in {"tip", "since", "tail", "download", "apply", "audit", "verify"}
  PROVE  Loaded'
BY ZenonT(30) DEF Loaded, WalkActive, IsTip

\* The marker stays loaded once someone compares a block with it.
LEMMA LoadedStep == Before /\ [Next]_vars => Loaded'
<1> USE MaxHeightAssumption
<1>1. Before /\ WalkStep => Loaded'
  <2>1. Before /\ WalkTip => Loaded'
    <3> SUFFICES ASSUME Before, WalkTip PROVE Loaded' BY ZenonT(30)
    <3>1. UNCHANGED <<rows, phase, vtip, lastApplied, reorg>> BY ZenonT(30) DEF WalkTip
    <3>2. CASE WalkReturns("held")
      BY <3>1, <3>2, LoadedReturn, Zenon DEF Before, Safe
    <3>3. ASSUME NEW t \in 0..MaxHeight, IsTip(t), walkTip' = t, walkPc' = "marker",
                 UNCHANGED <<live, pass>>
          PROVE  Loaded'
      <4>1. t = 0 => vtip # Unloaded
        <5>1. phase \in {"stopped", "syncing", "following"}
          BY Zenon DEF Before, StateOK
        <5>2. t = 0 => \A h \in Heights : rows[h] = "none"
          BY <3>3 DEF IsTip
        <5>3. t = 0 /\ reorgPc # "close" => lastApplied = 0
          BY <5>2, StateSorts, SMTT(30) DEF Shape, Stored, Before, Sorts, Safe
        <5>4. t = 0 /\ livePc = "tail" => liveN = 1
          BY <5>2, StateSorts, SMTT(30) DEF Shape, Stored, Before, Sorts, Safe, Ranges
        <5>5. walkPc = "tip" BY Zenon DEF WalkTip
        <5> QED
          BY <5>1, <5>3, <5>4, <5>5 DEF Marker, Loaded, Turns, Before, Safe
      <4> QED
        BY <3>1, <3>3, <4>1, ZenonT(30) DEF Before, Safe, Loaded, WalkActive, IsTip
    <3> QED BY <3>2, <3>3, Zenon DEF WalkTip
  <2>2. Before /\ WalkMarker => Loaded'
    <3> SUFFICES ASSUME Before, WalkMarker PROVE Loaded' BY ZenonT(30)
    <3>1. UNCHANGED <<rows, phase, vtip, lastApplied, reorg>>
      BY ZenonT(30) DEF WalkMarker
    <3>2. CASE walkTip = 0 /\ WalkReturns("ok")
      <4>1. vtip # Unloaded BY <3>2, ZenonT(30) DEF WalkMarker, Before, Safe, Loaded
      <4> QED BY <3>1, <3>2, <4>1, LoadedReturn, Zenon DEF Before, Safe
    <3>3. CASE /\ walkTip # 0 /\ vtip = Unloaded
               /\ walkPc' = "load" /\ UNCHANGED <<live, pass>>
      BY <3>1, <3>3, ZenonT(30) DEF Before, Safe, Loaded, WalkActive, IsTip
    <3>4. CASE vtip # Unloaded /\ WalkFrom(vtip)
      BY <3>1, <3>4, LoadedFrom, Zenon DEF Before, Safe
    <3> QED BY <3>2, <3>3, <3>4, Zenon DEF WalkMarker
  <2>3. Before /\ WalkLoad => Loaded'
    <3> SUFFICES ASSUME Before, WalkLoad PROVE Loaded' BY ZenonT(30)
    <3>1. UNCHANGED <<rows, phase, vtip, lastApplied, reorg>> BY ZenonT(30) DEF WalkLoad
    <3>2. CASE WalkReturns("held")
      BY <3>1, <3>2, LoadedReturn, Zenon DEF Before, Safe
    <3>3. CASE walkPc' = "loaded" /\ UNCHANGED <<live, pass>>
      BY <3>1, <3>3, ZenonT(30) DEF Before, Safe, Loaded, WalkActive, IsTip
    <3> QED BY <3>2, <3>3, Zenon DEF WalkLoad
  <2>4. Before /\ WalkLoaded => Loaded'
    <3> SUFFICES ASSUME Before, WalkLoaded PROVE Loaded' BY ZenonT(30)
    <3>1. UNCHANGED <<rows, phase, lastApplied, reorg>> /\ WalkFrom(walkStart)
      BY ZenonT(30) DEF WalkLoaded
    <3>2. vtip' # Unloaded
      BY StateSorts DEF WalkLoaded, SetMemoryTip, Before, Sorts
    <3> QED BY <3>1, <3>2, LoadedFrom, Zenon DEF Before, Safe
  <2>5. Before /\ WalkSeed => Loaded'
    <3> SUFFICES ASSUME Before, WalkSeed PROVE Loaded' BY ZenonT(30)
    <3>1. /\ UNCHANGED <<rows, phase, lastApplied, reorg, live, pass>>
          /\ walkPc' = "read" /\ vtip' = walkTip - 1
      BY ZenonT(30) DEF WalkSeed, SetMemoryTip
    <3> QED
      BY <3>1, StateSorts, SMTT(30) DEF Before, Sorts, Safe, Loaded, WalkActive, IsTip
  <2>6. Before /\ WalkRead => Loaded'
    <3> SUFFICES ASSUME Before, WalkRead PROVE Loaded' BY ZenonT(30)
    <3>1. UNCHANGED <<rows, phase, vtip, lastApplied>> BY ZenonT(30) DEF WalkRead
    <3>2. CASE WalkReturns("held")
      BY <3>1, <3>2, LoadedReturn, Zenon DEF Before, Safe
    <3>3. CASE walkPc = "read" /\ walkPc' = "judge" /\ UNCHANGED <<live, pass>>
      BY <3>1, <3>3, ZenonT(30) DEF Before, Safe, Loaded, WalkActive, IsTip
    <3> QED BY <3>2, <3>3, Zenon DEF WalkRead
  <2>7. Before /\ WalkJudge => Loaded'
    <3> SUFFICES ASSUME Before, WalkJudge PROVE Loaded' BY ZenonT(30)
    <3>1. UNCHANGED <<rows, phase, lastApplied>> /\ walkPc = "judge"
      BY ZenonT(30) DEF WalkJudge
    <3>2. CASE WalkReturns("held") /\ UNCHANGED vtip
      BY <3>1, <3>2, LoadedReturn, Zenon DEF Before, Safe
    <3>3. CASE /\ vtip' = IF verdict = "ok" /\ walkH > vtip THEN walkH ELSE vtip
               /\ walkPc' \in {"persist", "read"} /\ UNCHANGED <<live, pass>>
      BY <3>1, <3>3, StateSorts, SMTT(30) DEF Before, Sorts, Safe, Loaded, WalkActive,
         IsTip
    <3> QED BY <3>2, <3>3, Zenon DEF WalkJudge
  <2>8. Before /\ WalkPersist => Loaded'
    BY ZenonT(30) DEF WalkPersist, Before, Safe, Loaded, WalkActive, IsTip
  <2>9. Before /\ WalkEnd => Loaded'
    <3> SUFFICES ASSUME Before, WalkEnd PROVE Loaded' BY ZenonT(30)
    <3>1. UNCHANGED <<rows, phase, vtip, lastApplied>> /\ walkPc \in {"settle", "end"}
      BY ZenonT(30) DEF WalkEnd
    <3>2. vtip # Unloaded BY <3>1, ZenonT(30) DEF Before, Safe, Loaded, WalkActive
    <3>3. \E r \in {"held", "halted", "ok"} : WalkReturns(r) BY ZenonT(30) DEF WalkEnd
    <3> QED BY <3>1, <3>2, <3>3, LoadedReturn, Zenon DEF Before, Safe
  <2> QED
    BY <2>1, <2>2, <2>3, <2>4, <2>5, <2>6, <2>7, <2>8, <2>9, ZenonT(30) DEF WalkStep
<1>2. Before /\ LiveStep => Loaded'
  <2>1. Before /\ LiveApply => Loaded'
    BY ZenonT(30) DEF LiveApply, LiveDone, Before, Safe, Loaded, WalkActive, Turns
  <2>2. Before /\ LiveVerify => Loaded'
    BY LoadedKept, ZenonT(30) DEF LiveVerify, Before, Safe
  <2>3. Before /\ LiveJudge => Loaded'
    BY StateSorts, ZenonT(30) DEF LiveJudge, LiveDone, Before, Sorts, Safe, Loaded,
       WalkActive, Turns, Ranges
  <2>4. Before /\ LiveAdvance => Loaded'
    BY StateSorts, LoadedKept DEF LiveAdvance, LiveDone, Before, Sorts, Safe
  <2> QED BY <2>1, <2>2, <2>3, <2>4, ZenonT(30) DEF LiveStep
<1>3. Before /\ ReorgStep => Loaded'
  <2>1. Before /\ ReorgOpen => Loaded'
    <3>1. Before => marker # Unloaded BY StateSorts DEF Before, Sorts
    <3> QED
      BY <3>1, LoadedKept, ZenonT(30) DEF ReorgOpen, BumpRowGeneration, Before, Safe,
         Loaded
  <2>2. Before /\ ReorgLower => Loaded'
    BY StateSorts, LoadedKept, SMTT(30) DEF ReorgLower, Before, Sorts, Safe
  <2>3. Before /\ ReorgDelete => Loaded'
    BY ZenonT(30) DEF ReorgDelete, Before, Safe, Loaded, WalkActive, Turns
  <2>4. Before /\ ReorgClose => Loaded'
    BY ZenonT(30) DEF ReorgClose, Before, Safe, Loaded, Marker, WalkActive, Turns
  <2>5. Before /\ ReorgFail => Loaded'
    BY LoadedKept, ZenonT(30) DEF ReorgFail, Before, Safe, Turns
  <2> QED BY <2>1, <2>2, <2>3, <2>4, <2>5, ZenonT(30) DEF ReorgStep
<1>4. Before /\ PassStep => Loaded'
  <2>1. Before /\ CatchUpTip => Loaded'
    BY LoadedKept, ZenonT(30) DEF CatchUpTip, CatchUpFails, PassDone, Before, Safe
  <2>2. Before /\ CatchUpSince => Loaded'
    <3>1. CatchUpSince => /\ UNCHANGED <<rows, phase, lastApplied, live>>
                          /\ vtip' \in {vtip, 0}
                          /\ UNCHANGED <<walkPc, walkTip>> \/ walkPc' = "tip"
                          /\ passPc = "since" /\ passPc' \in {"idle", "tail", "download"}
      BY ZenonT(30) DEF CatchUpSince, SetMemoryTip, JoinWalk, PassDone
    <3> QED BY <3>1, LoadedKept DEF Before, Safe
  <2>3. Before /\ CatchUpDownload => Loaded'
    BY LoadedKept, ZenonT(30) DEF CatchUpDownload, CatchUpFails, PassDone, Before, Safe
  <2>4. Before /\ CatchUpApply => Loaded'
    <3> SUFFICES ASSUME Before, CatchUpApply PROVE Loaded' BY ZenonT(30)
    <3>1. UNCHANGED <<vtip, phase, live, walk>> /\ passPc = "apply"
      BY StateSorts, RangeCases, Zenon DEF Before
    <3>2. CASE PassDone /\ UNCHANGED <<rows, lastApplied>>
      BY <3>1, <3>2, LoadedKept, ZenonT(30) DEF PassDone, Before, Safe
    <3>3. ASSUME NEW hi \in passSince..MaxHeight, RangeApplied(hi) PROVE Loaded'
      <4>1. lastApplied' >= 1
        BY <3>1, <3>3, StateSorts DEF RangeApplied, Before, Sorts, Ranges
      <4> QED BY <3>1, <4>1, SMTT(30) DEF Before, Safe, Loaded, WalkActive, Turns
    <3> QED BY <3>2, <3>3, StateSorts, RangeCases, Zenon DEF Before
  <2>5. Before /\ CatchUpAudit => Loaded'
    BY LoadedKept, ZenonT(30) DEF CatchUpAudit, JoinWalk, PassDone, Before, Safe
  <2>6. Before /\ BootApply => Loaded'
    BY ZenonT(30) DEF BootApply, Before, Safe, Loaded, WalkActive, Turns
  <2>7. Before /\ BootClose => Loaded'
    BY SMTT(30) DEF BootClose, Before, Safe, Loaded, WalkActive, Ranges, Turns
  <2>8. Before /\ BootAdopt => Loaded'
    BY StateSorts, LoadedKept, SMTT(30) DEF BootAdopt, PassDone, Before, Sorts, Safe
  <2>9. Before /\ BootFail => Loaded'
    BY LoadedKept, ZenonT(30) DEF BootFail, CatchUpFails, PassDone, Before, Safe
  <2> QED
    BY <2>1, <2>2, <2>3, <2>4, <2>5, <2>6, <2>7, <2>8, <2>9, ZenonT(30) DEF PassStep
<1>5. Before /\ (ClearHalt \/ MarkerWriteDone \/ Follow \/ UNCHANGED vars) => Loaded'
  <2>1. Before /\ (ClearHalt \/ MarkerWriteDone) => Loaded'
    BY LoadedKept, ZenonT(30) DEF ClearHalt, MarkerWriteDone, Before, Safe
  <2>2. Before /\ (Follow \/ UNCHANGED vars) => Loaded'
    BY SMTT(30) DEF Follow, vars, Before, Safe, Loaded, WalkActive, IsTip
  <2> QED BY <2>1, <2>2, Zenon
<1>6. Before /\ (\E n \in Heights : LiveStart(n)) => Loaded'
  <2>1. ASSUME NEW n \in Heights, LiveStart(n)
        PROVE  /\ UNCHANGED <<vtip, phase, lastApplied>> /\ phase = "following"
               /\ UNCHANGED rows
               /\ UNCHANGED <<walkPc, walkTip>> \/ walkPc' = "tip"
               /\ UNCHANGED passPc
               /\ \/ UNCHANGED live
                  \/ livePc' = "apply" /\ vtip = lastApplied
                  \/ livePc' = "tail" /\ liveN' = lastApplied + 1
    BY <2>1, ZenonT(30) DEF LiveStart, JoinWalk
  <2> QED BY <2>1, StateSorts, SMTT(30) DEF Before, Sorts, Safe, Loaded, WalkActive
<1>7. Before /\ (\E b \in Heights : ReorgStart(b)) => Loaded'
  BY LoadedKept, ZenonT(30) DEF ReorgStart, Before, Safe
<1>8. Before /\ CatchUpStart => Loaded'
  BY LoadedKept, ZenonT(30) DEF CatchUpStart, Before, Safe
<1>9. Before /\ StartSync => Loaded'
  BY StateSorts, SMTT(30) DEF StartSync, Before, Sorts, Safe, Loaded, WalkActive
<1>10. Before /\ Restart => Loaded'
  BY ZenonT(30) DEF Restart, LiveDone, WalkDone, Loaded, WalkActive, IsTip
<1> QED
  BY <1>1, <1>2, <1>3, <1>4, <1>5, <1>6, <1>7, <1>8, <1>9, <1>10, ZenonT(30) DEF Next
=============================================================================
