------------------------------ MODULE VerifiedTip ------------------------------
(***************************************************************************)
(* The replica of a recompute-verifying, full-history indexer client with  *)
(* one source: the rows it has committed, the durable verified-tip marker  *)
(* (client/verified_tip.js), and the activities of ClientSync              *)
(* (client/sync.js) that commit, verify, remove or replace rows beside     *)
(* each other:                                                             *)
(*                                                                         *)
(*   live   applyAndVerifyBlock, one block of the event stream             *)
(*   reorg  handleReorg / applyReorgRollback                               *)
(*   pass   runIncrementalCatchUp, and the full bootstrap it falls back to *)
(*   walk   walkUnverifiedTail, shared by everyone who asks for it         *)
(*                                                                         *)
(* A step is what the process does between two awaits.  The apply lock is  *)
(* held exactly while rows are being removed or replaced over several      *)
(* steps; an apply that is one transaction is one step.  A row generation  *)
(* is only ever compared with the value captured earlier, so a capture is  *)
(* "same" until a bump of the generation makes it "moved".                 *)
(***************************************************************************)
EXTENDS Integers

CONSTANTS
    MaxHeight,    \* bound on block heights
    WriteStep     \* MARKER_WRITE_STEP

ASSUME MaxHeightAssumption == MaxHeight \in Nat \ {0}
ASSUME WriteStepAssumption == WriteStep \in Nat \ {0}

VARIABLES
    rows,         \* durable: what is committed at each height
    marker,       \* durable: sync_state verified_tip:indexer
    haltRow,      \* durable: an uncleared sync_halt row (or its copy)
    phase,        \* stopped, syncing (start() before live-follow), following
    halted,       \* _halted
    vtip,         \* _verifiedTip
    lastApplied,  \* lastAppliedBlock
    markerWrite,  \* the marker write in flight at the head of _markerWrites
    livePc, liveN, liveGen,
    reorgPc, reorgB,
    passPc, passSince, passHi, passGen,
    walkPc, walkStart, walkTip, walkH, walkGen, verdict,
    unguarded     \* history: the kinds of steps taken that nothing guards
                  \* (see Unguarded)

durable == <<rows, marker, haltRow>>
halts == <<halted, haltRow>>
live == <<livePc, liveN, liveGen>>
reorg == <<reorgPc, reorgB>>
pass == <<passPc, passSince, passHi, passGen>>
walk == <<walkPc, walkStart, walkTip, walkH, walkGen, verdict>>
vars == <<rows, marker, haltRow, phase, halted, vtip, lastApplied, markerWrite,
          live, reorg, pass, walk, unguarded>>

Heights == 1..MaxHeight
Unset == -1       \* null: sync_state holds no marker
Unloaded == -2    \* undefined: this process has not read the marker yet

\* A row was carried by a full snapshot, whose history is taken on trust, or
\* reproduces its own committed hashes on its predecessor, or does not.
Content == {"none", "seed", "good", "bad"}
Vouched(h) == rows[h] \in {"seed", "good"}
IsTip(t) == /\ t # 0 => rows[t] # "none"
            /\ \A h \in Heights : h > t => rows[h] = "none"

Gen == {"same", "moved"}
Kinds == {"range", "overlap", "adopt", "cursor", "snapshot", "memory", "join",
          "write"}

HaltOK == haltRow \in BOOLEAN /\ halted \in BOOLEAN

StateOK ==
    /\ rows \in [Heights -> Content]
    /\ marker \in -1..MaxHeight
    /\ phase \in {"stopped", "syncing", "following"}
    /\ vtip \in -2..MaxHeight
    /\ lastApplied \in 0..MaxHeight
    /\ markerWrite \in -1..MaxHeight
    /\ livePc \in {"idle", "tail", "apply", "verify", "halt", "error", "ok", "advance"}
    /\ liveN \in 0..MaxHeight /\ liveGen \in Gen
    /\ reorgPc \in {"idle", "lock", "lower", "delete", "close"}
    /\ reorgB \in 0..MaxHeight
    /\ passPc \in {"idle", "tip", "since", "tail", "download", "apply", "audit",
                   "verify", "boot", "bootClose", "adopt"}
    /\ passSince \in 0..MaxHeight + 1 /\ passHi \in 0..MaxHeight /\ passGen \in Gen
    /\ walkPc \in {"idle", "tip", "marker", "load", "loaded", "seed",
                   "read", "judge", "persist", "settle", "end"}
    /\ walkStart \in -1..MaxHeight /\ walkTip \in 0..MaxHeight /\ walkH \in 0..MaxHeight
    /\ walkGen \in Gen /\ verdict \in {"ok", "halt", "held"}
    /\ unguarded \subseteq Kinds

TypeOK == HaltOK /\ StateOK

-----------------------------------------------------------------------------
(* Row removals, the apply lock and the generation.                        *)

\* _rowRemovalsInFlight > 0; the same activities hold the apply lock.
Removing == reorgPc \in {"lower", "delete", "close"} \/ passPc = "bootClose"
LockFree == ~Removing

RowsChangedSince(gen) == gen = "moved" \/ Removing

\* bumpRowGeneration.  (passGen is history: the code captures no generation for
\* a range or a snapshot.)
BumpRowGeneration == liveGen' = "moved" /\ walkGen' = "moved"

\* Steps that use what they read before rows or the marker changed, or that lose
\* a marker write the marker's meaning needs:
\*   range     a catch-up range is committed on a tip read before a removal
\*   overlap   a catch-up range is committed over blocks stored since its tip
\*             was read, and replaces them
\*   adopt     the tip of a full snapshot is adopted after a removal
\*   cursor    a live block verified before a removal becomes the memory tip
\*   snapshot  a full snapshot replaces the rows and ends below the stored tip
\*   memory    a tip or marker read earlier sets the memory marker below the
\*             stored one, or above one lowered since
\*   join      a catch-up takes the verdict of a walk whose tip was read before
\*             the blocks it resumes from were committed
\*   write     the fail-soft write of an adopted tip is lost while the stored
\*             marker is absent or higher
Unguarded(kinds) == unguarded' = unguarded \cup kinds
When(taken, kind) == IF taken THEN {kind} ELSE {}

\* _verifiedTip is set, outside the marker write queue, from an earlier read.
SetMemoryTip(v) ==
    /\ vtip' = v
    /\ Unguarded(When(marker > v \/ markerWrite > v \/ vtip \in 0..v - 1, "memory"))

\* haltOnDivergence and persistHalt: in force at once; the durable write lands
\* or (sync_halt and its sync_state copy both failing) is lost.
HaltOnDivergence ==
    /\ halted' = TRUE
    /\ \/ haltRow' = haltRow
       \/ ~halted /\ haltRow' = TRUE

\* clearHalt, by the operator.
ClearHalt ==
    /\ halted
    /\ halted' = FALSE /\ haltRow' = FALSE
    /\ UNCHANGED <<rows, marker, phase, vtip, lastApplied, markerWrite,
                   live, reorg, pass, walk, unguarded>>

\* The head of the marker write queue reaches the database, or fails softly.
MarkerWriteDone ==
    /\ markerWrite # Unset
    /\ marker' \in {marker, markerWrite}
    /\ markerWrite' = Unset
    /\ UNCHANGED <<rows, halts, phase, vtip, lastApplied,
                   live, reorg, pass, walk, unguarded>>

LiveDone == livePc' = "idle" /\ liveN' = 0 /\ liveGen' = "moved"
ReorgDone == reorgPc' = "idle" /\ reorgB' = 0
PassDone == passPc' = "idle" /\ passSince' = 0 /\ passHi' = 0 /\ passGen' = "moved"
WalkDone == /\ walkPc' = "idle" /\ walkGen' = "moved" /\ verdict' = "ok"
            /\ walkStart' = 0 /\ walkTip' = 0 /\ walkH' = 0

-----------------------------------------------------------------------------
(* The walk over the unverified tail.                                      *)

\* verifyUnverifiedTail answers 'halted' or 'held' at once in these states.
TailRefused == halted \/ (walkPc = "idle" /\ Removing)

\* Otherwise the caller starts a walk or joins the one in progress.
JoinWalk ==
    \/ /\ walkPc = "idle"
       /\ walkPc' = "tip" /\ walkGen' = "same"
       /\ UNCHANGED <<walkStart, walkTip, walkH, verdict>>
    \/ walkPc # "idle" /\ UNCHANGED walk

\* The walk returns: live and catch-up callers go on only after 'ok'.
WalkReturns(result) ==
    /\ WalkDone
    /\ \/ livePc # "tail" /\ UNCHANGED live
       \/ /\ livePc = "tail" /\ result = "ok"
          /\ livePc' = "apply" /\ liveGen' = "same" /\ UNCHANGED liveN
       \/ livePc = "tail" /\ result # "ok" /\ LiveDone
    /\ \/ passPc \notin {"tail", "verify"} /\ UNCHANGED pass
       \/ /\ passPc = "tail" /\ result = "ok"
          /\ passPc' = "download" /\ UNCHANGED <<passSince, passHi, passGen>>
       \/ (passPc = "verify" \/ (passPc = "tail" /\ result # "ok")) /\ PassDone

\* walkUnverifiedTail up to its range, a step per await.  The stored tip is read ...
WalkTip ==
    /\ walkPc = "tip"
    /\ \/ WalkReturns("held")               \* the read failed
       \/ /\ \E t \in 0..MaxHeight : IsTip(t) /\ walkTip' = t
          /\ walkPc' = "marker"
          /\ UNCHANGED <<walkStart, walkH, walkGen, verdict, live, pass>>
    /\ UNCHANGED <<durable, phase, halted, vtip, lastApplied, markerWrite, reorg,
                   unguarded>>

\* With the tip read and the memory marker at v: a marker that is absent or above
\* the tip is seeded; otherwise the blocks between the two are walked.
WalkFrom(v) ==
    \/ /\ v = Unset \/ v > walkTip
       /\ walkPc' = "seed"
       /\ UNCHANGED <<walkStart, walkTip, walkH, walkGen, verdict, live, pass>>
    \/ v = walkTip /\ WalkReturns("ok")
    \/ /\ v \in 0..walkTip - 1
       /\ walkPc' = "read" /\ walkStart' = v + 1 /\ walkH' = v + 1
       /\ UNCHANGED <<walkTip, walkGen, verdict, live, pass>>

\* ... the marker is looked at in memory ...
WalkMarker ==
    /\ walkPc = "marker"
    /\ \/ walkTip = 0 /\ WalkReturns("ok")
       \/ /\ walkTip # 0 /\ vtip = Unloaded
          /\ walkPc' = "load"
          /\ UNCHANGED <<walkStart, walkTip, walkH, walkGen, verdict, live, pass>>
       \/ walkTip # 0 /\ vtip # Unloaded /\ WalkFrom(vtip)
    /\ UNCHANGED <<durable, phase, halted, vtip, lastApplied, markerWrite, reorg,
                   unguarded>>

\* ... loaded when this process has not read it (walkStart holds the answer) ...
WalkLoad ==
    /\ walkPc = "load"
    /\ \/ WalkReturns("held")               \* the read failed
       \/ /\ walkPc' = "loaded" /\ walkStart' = marker
          /\ UNCHANGED <<walkTip, walkH, walkGen, verdict, live, pass>>
    /\ UNCHANGED <<durable, phase, halted, vtip, lastApplied, markerWrite, reorg,
                   unguarded>>

WalkLoaded ==
    /\ walkPc = "loaded"
    /\ SetMemoryTip(walkStart)
    /\ WalkFrom(walkStart)
    /\ UNCHANGED <<durable, phase, halted, lastApplied, markerWrite, reorg>>

\* ... and seeded below the tip that was read.
WalkSeed ==
    /\ walkPc = "seed"
    /\ SetMemoryTip(walkTip - 1)
    /\ walkPc' = "read" /\ walkStart' = walkTip /\ walkH' = walkTip
    /\ UNCHANGED <<durable, phase, halted, lastApplied, markerWrite,
                   walkTip, walkGen, verdict, live, reorg, pass>>

\* What evaluateCommittedBlock can answer.  A block recomputes on the committed
\* hash of the block below; a read or recompute that keeps failing is a halt
\* verdict, and at the stored tip a state_hash that cannot be computed holds.
Recomputes(h) == Vouched(h) /\ (h > 1 => rows[h - 1] # "none")
Answers(h, v) ==
    \/ v = "halt"
    \/ v = "ok" /\ Recomputes(h)
    \/ v = "held" /\ (rows[h] = "none" \/ (h = walkTip /\ Recomputes(h)))

\* One block of verifyCommittedWindow: checked before the read ...
WalkRead ==
    /\ walkPc = "read"
    /\ \/ RowsChangedSince(walkGen) /\ WalkReturns("held")
       \/ /\ ~RowsChangedSince(walkGen)
          /\ \E v \in {"ok", "halt", "held"} : Answers(walkH, v) /\ verdict' = v
          /\ walkPc' = "judge"
          /\ UNCHANGED <<walkStart, walkTip, walkH, walkGen, live, pass>>
    /\ UNCHANGED <<durable, phase, halted, vtip, lastApplied, markerWrite, reorg,
                   unguarded>>

\* Mutant: the last block of the range is not due.
MarkerDue_StepOnly == (walkH - walkStart + 1) % WriteStep = 0

MarkerDue == (walkH - walkStart + 1) % WriteStep = 0 \/ walkH = walkTip

\* ... and after it: a block that verified raises the marker in memory.
WalkJudge ==
    /\ walkPc = "judge"
    /\ \/ RowsChangedSince(walkGen) /\ WalkReturns("held") /\ UNCHANGED vtip
       \/ /\ ~RowsChangedSince(walkGen)
          /\ vtip' = IF verdict = "ok" /\ walkH > vtip THEN walkH ELSE vtip
          /\ \/ /\ verdict # "ok" \/ MarkerDue
                /\ walkPc' = "persist" /\ UNCHANGED walkH
             \/ /\ verdict = "ok" /\ ~MarkerDue
                /\ walkPc' = "read" /\ walkH' = walkH + 1
          /\ UNCHANGED <<walkStart, walkTip, walkGen, verdict, live, pass>>
    /\ UNCHANGED <<durable, phase, halted, lastApplied, markerWrite, reorg, unguarded>>

\* persistVerifiedTip, in turn in the marker write queue.
WalkPersist ==
    /\ walkPc = "persist"
    /\ markerWrite = Unset
    /\ markerWrite' = IF RowsChangedSince(walkGen) \/ vtip \in {Unset, Unloaded, marker}
                      THEN Unset ELSE vtip
    /\ \/ verdict # "ok" /\ walkPc' = "settle" /\ UNCHANGED walkH
       \/ verdict = "ok" /\ walkH = walkTip /\ walkPc' = "end" /\ UNCHANGED walkH
       \/ verdict = "ok" /\ walkH # walkTip /\ walkPc' = "read" /\ walkH' = walkH + 1
    /\ UNCHANGED <<durable, phase, halted, vtip, lastApplied, walkStart, walkTip,
                   walkGen, verdict, live, reorg, pass, unguarded>>

\* settleUnverifiedBlock for a failed block; the end of the range otherwise.
WalkEnd ==
    /\ \/ /\ walkPc = "settle" /\ verdict = "halt"
          /\ HaltOnDivergence
          /\ WalkReturns("halted")
       \/ /\ walkPc = "settle" /\ verdict # "halt"
          /\ WalkReturns("held")
          /\ UNCHANGED halts
       \/ /\ walkPc = "end"
          /\ WalkReturns(IF RowsChangedSince(walkGen) THEN "held" ELSE "ok")
          /\ UNCHANGED halts
    /\ UNCHANGED <<rows, marker, phase, vtip, lastApplied, markerWrite, reorg, unguarded>>

-----------------------------------------------------------------------------
(* A live block: applyAndVerifyBlock.                                      *)

\* Mutant: the block is let in without looking at the unverified tail.
LiveStart_NoTailCheck(n) ==
    /\ phase = "following" /\ ~halted
    /\ livePc = "idle" /\ reorgPc = "idle"
    /\ n = lastApplied + 1
    /\ livePc' = "apply" /\ liveN' = n /\ liveGen' = "same"
    /\ UNCHANGED <<durable, phase, halted, vtip, lastApplied, markerWrite,
                   reorg, pass, walk, unguarded>>

\* The event chain delivers the block above the in-memory tip.
LiveStart(n) ==
    /\ phase = "following" /\ ~halted
    /\ livePc = "idle" /\ reorgPc = "idle"
    /\ n = lastApplied + 1
    /\ \/ /\ HaltOnDivergence                 \* checkTrainActivation
          /\ UNCHANGED <<live, walk>>
       \/ /\ vtip = lastApplied
          /\ livePc' = "apply" /\ liveN' = n /\ liveGen' = "same"
          /\ UNCHANGED <<halts, walk>>
       \/ /\ vtip # lastApplied /\ ~TailRefused
          /\ livePc' = "tail" /\ liveN' = n /\ liveGen' = "moved"
          /\ JoinWalk
          /\ UNCHANGED halts
    /\ UNCHANGED <<rows, marker, phase, vtip, lastApplied, markerWrite,
                   reorg, pass, unguarded>>

\* applyBlock under the apply lock: a block that is already stored is skipped.
LiveApply ==
    /\ livePc = "apply" /\ LockFree
    /\ \/ /\ rows[liveN] = "none"
          /\ \E c \in {"good", "bad"} : rows' = [rows EXCEPT ![liveN] = c]
          /\ livePc' = "verify" /\ UNCHANGED <<liveN, liveGen>>
       \/ /\ rows[liveN] # "none"
          /\ livePc' = "verify" /\ UNCHANGED <<rows, liveN, liveGen>>
       \/ LiveDone /\ UNCHANGED rows          \* the transaction failed
    /\ UNCHANGED <<marker, halts, phase, vtip, lastApplied, markerWrite,
                   reorg, pass, walk, unguarded>>

\* The recompute and the state checks read the rows: they pass, diverge, or fail
\* to run, and rows being removed under the reads can give any answer ...
LiveVerify ==
    /\ livePc = "verify"
    /\ \/ livePc' \in {"halt", "error"}
       \/ livePc' = "ok" /\ (Removing \/ Recomputes(liveN))
    /\ UNCHANGED <<durable, phase, halted, vtip, lastApplied, markerWrite,
                   liveN, liveGen, reorg, pass, walk, unguarded>>

\* ... and the answer is acted on: a halt, a block held unverified, or a new tip.
LiveJudge ==
    /\ \/ /\ livePc = "halt"
          /\ HaltOnDivergence
          /\ LiveDone /\ UNCHANGED <<lastApplied, unguarded>>
       \/ /\ livePc = "error"
          /\ LiveDone /\ UNCHANGED <<halts, lastApplied, unguarded>>
       \/ /\ livePc = "ok"
          /\ livePc' = "advance" /\ UNCHANGED <<liveN, liveGen>>
          /\ lastApplied' = liveN
          /\ Unguarded(When(RowsChangedSince(liveGen), "cursor"))
          /\ UNCHANGED halts
    /\ UNCHANGED <<rows, marker, phase, vtip, markerWrite, reorg, pass, walk>>

\* advanceVerifiedTip, in turn in the marker write queue.
LiveAdvance ==
    /\ livePc = "advance"
    /\ markerWrite = Unset
    /\ \/ /\ RowsChangedSince(liveGen) \/ liveN <= vtip
          /\ UNCHANGED <<vtip, markerWrite>>
       \/ /\ ~RowsChangedSince(liveGen) /\ liveN > vtip
          /\ vtip' = liveN /\ markerWrite' = liveN
    /\ LiveDone
    /\ UNCHANGED <<durable, phase, halted, lastApplied, reorg, pass, walk, unguarded>>

-----------------------------------------------------------------------------
(* A reorg: handleReorg and applyReorgRollback.                            *)

\* A rewind deeper than the rollback guard admits halts instead.
ReorgStart(b) ==
    /\ phase = "following" /\ ~halted
    /\ livePc = "idle" /\ reorgPc = "idle"
    /\ b <= lastApplied
    /\ \/ reorgPc' = "lock" /\ reorgB' = b /\ UNCHANGED halts
       \/ HaltOnDivergence /\ UNCHANGED reorg
    /\ UNCHANGED <<rows, marker, phase, vtip, lastApplied, markerWrite,
                   live, pass, walk, unguarded>>

\* Under the lock: refused once halted, else beginRowRemoval, up to the
\* lowering's turn in the marker write queue.
ReorgOpen ==
    /\ reorgPc = "lock" /\ LockFree
    /\ \/ halted /\ ReorgDone /\ UNCHANGED <<vtip, liveGen, walkGen, passGen>>
       \/ /\ ~halted
          /\ reorgPc' = "lower" /\ UNCHANGED reorgB
          /\ BumpRowGeneration /\ passGen' = "moved"
          /\ vtip' = IF vtip = Unloaded THEN marker ELSE vtip
    /\ UNCHANGED <<durable, phase, halted, lastApplied, markerWrite, livePc, liveN,
                   passPc, passSince, passHi,
                   walkPc, walkStart, walkTip, walkH, verdict, unguarded>>

\* Mutant: only the memory marker is lowered.
ReorgLower_MemoryOnly ==
    /\ reorgPc = "lower"
    /\ markerWrite = Unset
    /\ vtip' = IF vtip \in 0..reorgB - 1 THEN vtip ELSE reorgB - 1
    /\ reorgPc' = "delete"
    /\ UNCHANGED <<durable, phase, halted, lastApplied, markerWrite,
                   live, reorgB, pass, walk, unguarded>>

\* lowerVerifiedTip: durable before memory, and before any row goes.
ReorgLower ==
    /\ reorgPc = "lower"
    /\ markerWrite = Unset
    /\ \/ vtip \in 0..reorgB - 1 /\ UNCHANGED <<marker, vtip>>
       \/ /\ vtip \notin 0..reorgB - 1
          /\ marker' = reorgB - 1 /\ vtip' = reorgB - 1
    /\ reorgPc' = "delete"
    /\ UNCHANGED <<rows, halts, phase, lastApplied, markerWrite,
                   live, reorgB, pass, walk, unguarded>>

\* The rollback transaction.
ReorgDelete ==
    /\ reorgPc = "delete"
    /\ rows' = [h \in Heights |-> IF h >= reorgB THEN "none" ELSE rows[h]]
    /\ reorgPc' = "close"
    /\ UNCHANGED <<marker, halts, phase, vtip, lastApplied, markerWrite,
                   live, reorgB, pass, walk, unguarded>>

\* endRowRemoval, the lock released, the in-memory tip moved down.
ReorgClose ==
    /\ reorgPc = "close"
    /\ BumpRowGeneration /\ passGen' = "moved"
    /\ lastApplied' = reorgB - 1
    /\ ReorgDone
    /\ UNCHANGED <<durable, phase, halted, vtip, markerWrite, livePc, liveN,
                   passPc, passSince, passHi,
                   walkPc, walkStart, walkTip, walkH, verdict, unguarded>>

\* A marker, guard or rollback write that failed: nothing was deleted, the
\* removal closes and the client halts (haltForReorgRollbackFailure).
ReorgFail ==
    /\ reorgPc \in {"lower", "delete"}
    /\ BumpRowGeneration /\ passGen' = "moved"
    /\ HaltOnDivergence
    /\ ReorgDone
    /\ UNCHANGED <<rows, marker, phase, vtip, lastApplied, markerWrite, livePc, liveN,
                   passPc, passSince, passHi,
                   walkPc, walkStart, walkTip, walkH, verdict, unguarded>>

-----------------------------------------------------------------------------
(* A catch-up pass, and the full bootstrap.                                *)

CatchUpStart ==
    /\ phase = "following" /\ ~halted
    /\ passPc = "idle"
    /\ passPc' = "tip"
    /\ UNCHANGED <<durable, phase, halted, vtip, lastApplied, markerWrite,
                   live, reorg, passSince, passHi, passGen, walk, unguarded>>

\* handleIncrementalCatchUpFailure and the refusals of a range: the pass ends,
\* some of them (train gate, repeated duplicate key, schema) with a halt.
CatchUpFails == PassDone /\ (HaltOnDivergence \/ UNCHANGED halts)

\* The committed tip is read ...
CatchUpTip ==
    /\ passPc = "tip"
    /\ \/ /\ \E t \in 0..MaxHeight : IsTip(t) /\ passSince' = t + 1
          /\ passPc' = "since" /\ passGen' = "same"
          /\ UNCHANGED <<halts, passHi>>
       \/ CatchUpFails                       \* the read failed
    /\ UNCHANGED <<rows, marker, phase, vtip, lastApplied, markerWrite,
                   live, reorg, walk, unguarded>>

\* ... and is the resume point, once every block up to it verified.
CatchUpSince ==
    /\ passPc = "since"
    /\ \/ /\ passSince = 1
          /\ SetMemoryTip(0)                 \* startVerifiedTipBelow
          /\ passPc' = "download"
          /\ UNCHANGED <<passSince, passHi, passGen, walk>>
       \/ /\ passSince # 1
          /\ \/ TailRefused /\ PassDone /\ UNCHANGED <<walk, unguarded>>
             \/ /\ ~TailRefused
                /\ passPc' = "tail" /\ UNCHANGED <<passSince, passHi, passGen>>
                /\ JoinWalk
                /\ Unguarded(When(walkPc \notin {"idle", "tip"} /\ walkTip < passSince - 1,
                                  "join"))
          /\ UNCHANGED vtip
    /\ UNCHANGED <<durable, phase, halted, lastApplied, markerWrite, live, reorg>>

\* The range arrives; or nothing newer or a fault ends the pass; or it is over
\* the content limit, which a full-history replica answers with a bootstrap.
CatchUpDownload ==
    /\ passPc = "download"
    /\ \/ /\ passSince <= MaxHeight
          /\ passPc' = "apply" /\ UNCHANGED <<halts, passSince, passHi, passGen>>
       \/ passPc' = "boot" /\ UNCHANGED <<halts, passSince, passHi, passGen>>
       \/ CatchUpFails
    /\ UNCHANGED <<rows, marker, phase, vtip, lastApplied, markerWrite,
                   live, reorg, walk, unguarded>>

\* applyIncrementalSnapshot, one transaction under the lock.  A block of the range
\* that is stored by then is replaced (its blocks row deleted and inserted again,
\* its keyless rows doubled) unless one of its keyed rows collides, which like
\* any fault abandons the whole range.
CatchUpApply ==
    /\ passPc = "apply" /\ LockFree
    /\ \/ \E hi \in passSince..MaxHeight :
             /\ \E c \in [passSince..hi -> {"good", "bad"}] :
                   rows' = [h \in Heights |-> IF h \in passSince..hi THEN c[h] ELSE rows[h]]
             /\ Unguarded(When(passGen = "moved", "range") \cup
                          When(\E h \in passSince..hi : rows[h] # "none", "overlap"))
             /\ passPc' = "audit" /\ passHi' = hi /\ UNCHANGED <<passSince, passGen>>
             /\ lastApplied' = hi
             /\ UNCHANGED halts
       \/ CatchUpFails /\ UNCHANGED <<rows, lastApplied, unguarded>>
    /\ UNCHANGED <<marker, phase, vtip, markerWrite, live, reorg, walk>>

\* verifyIncrementalCatchUpRange.
CatchUpAudit ==
    /\ passPc = "audit"
    /\ \/ /\ PassDone                         \* the source echoed another range
          /\ HaltOnDivergence
          /\ UNCHANGED walk
       \/ TailRefused /\ PassDone /\ UNCHANGED <<halts, walk>>
       \/ /\ ~TailRefused
          /\ passPc' = "verify" /\ UNCHANGED <<passSince, passHi, passGen>>
          /\ JoinWalk
          /\ UNCHANGED halts
    /\ UNCHANGED <<rows, marker, phase, vtip, lastApplied, markerWrite, live, reorg,
                   unguarded>>

\* bootstrapApplySnapshot: every row is replaced.
BootApply ==
    /\ passPc = "boot" /\ LockFree
    /\ \E hi \in Heights :
         /\ rows' = [h \in Heights |-> IF h <= hi THEN "seed" ELSE "none"]
         /\ Unguarded(When(\E h \in Heights : h > hi /\ rows[h] # "none", "snapshot"))
         /\ passPc' = "bootClose" /\ passHi' = hi /\ UNCHANGED <<passSince, passGen>>
    /\ BumpRowGeneration
    /\ UNCHANGED <<marker, halts, phase, vtip, lastApplied, markerWrite, livePc, liveN,
                   reorg, walkPc, walkStart, walkTip, walkH, verdict>>

BootClose ==
    /\ passPc = "bootClose"
    /\ BumpRowGeneration
    /\ lastApplied' = passHi
    /\ passPc' = "adopt" /\ passGen' = "same" /\ UNCHANGED <<passSince, passHi>>
    /\ UNCHANGED <<durable, phase, halted, vtip, markerWrite, livePc, liveN,
                   reorg, walkPc, walkStart, walkTip, walkH, verdict, unguarded>>

\* adoptVerifiedTip(lastAppliedBlock), fail-soft, in turn in the queue.
BootAdopt ==
    /\ passPc = "adopt"
    /\ markerWrite = Unset
    /\ BumpRowGeneration
    /\ vtip' = lastApplied
    /\ marker' \in {marker, lastApplied}
    /\ Unguarded(When(RowsChangedSince(passGen), "adopt") \cup
                 When(marker' = Unset \/ marker' > lastApplied, "write"))
    /\ PassDone
    /\ UNCHANGED <<rows, halts, phase, lastApplied, markerWrite, livePc, liveN,
                   reorg, walkPc, walkStart, walkTip, walkH, verdict>>

\* The schema, download, apply or cross-check of the snapshot failed or halted:
\* the next round starts over, or the pass ends.
BootFail ==
    /\ passPc \in {"boot", "adopt"}
    /\ BumpRowGeneration \/ UNCHANGED <<liveGen, walkGen>>
    /\ \/ CatchUpFails
       \/ passPc' = "boot" /\ UNCHANGED <<halts, passSince, passHi, passGen>>
    /\ UNCHANGED <<rows, marker, phase, vtip, lastApplied, markerWrite, livePc, liveN,
                   reorg, walkPc, walkStart, walkTip, walkH, verdict, unguarded>>

-----------------------------------------------------------------------------
(* Start, crash and restart.                                               *)

\* start() past the halt check: an empty replica bootstraps, a stored one
\* verifies its tail and catches up.
StartSync ==
    /\ phase = "stopped" /\ ~halted
    /\ phase' = "syncing"
    /\ passPc' = IF IsTip(0) THEN "boot" ELSE "tip"
    /\ UNCHANGED <<durable, halted, vtip, lastApplied, markerWrite,
                   live, reorg, passSince, passHi, passGen, walk, unguarded>>

\* ensureLiveFollowTip and beginLiveFollow, halted or not.
Follow ==
    /\ phase = "syncing"
    /\ passPc = "idle"
    /\ lastApplied > 0
    /\ phase' = "following"
    /\ UNCHANGED <<durable, halted, vtip, lastApplied, markerWrite,
                   live, reorg, pass, walk, unguarded>>

\* The process dies anywhere (a marker write in flight may still land) and a
\* new one reads the durable halt and the stored tip.
Restart ==
    /\ marker' \in {marker} \cup ({markerWrite} \ {Unset})
    /\ halted' = haltRow
    /\ \E t \in 0..MaxHeight : IsTip(t) /\ lastApplied' = t
    /\ phase' = "stopped"
    /\ vtip' = Unloaded
    /\ markerWrite' = Unset
    /\ LiveDone /\ ReorgDone /\ PassDone /\ WalkDone
    /\ UNCHANGED <<rows, haltRow, unguarded>>

\* A replica that has just bootstrapped from a full snapshot, whose fail-soft
\* marker write landed or was lost.
Init ==
    \E b \in Heights :
        /\ rows = [h \in Heights |-> IF h <= b THEN "seed" ELSE "none"]
        /\ marker \in {b, Unset}
        /\ unguarded = When(marker # b, "write")
        /\ haltRow = FALSE /\ halted = FALSE
        /\ phase = "following"
        /\ vtip = b /\ lastApplied = b
        /\ markerWrite = Unset
        /\ livePc = "idle" /\ liveN = 0 /\ liveGen = "moved"
        /\ reorgPc = "idle" /\ reorgB = 0
        /\ passPc = "idle" /\ passSince = 0 /\ passHi = 0 /\ passGen = "moved"
        /\ walkPc = "idle" /\ walkGen = "moved" /\ verdict = "ok"
        /\ walkStart = 0 /\ walkTip = 0 /\ walkH = 0

WalkStep == \/ WalkTip \/ WalkMarker \/ WalkLoad \/ WalkLoaded \/ WalkSeed
            \/ WalkRead \/ WalkJudge \/ WalkPersist \/ WalkEnd
LiveStep == LiveApply \/ LiveVerify \/ LiveJudge \/ LiveAdvance
ReorgStep == ReorgOpen \/ ReorgLower \/ ReorgDelete \/ ReorgClose \/ ReorgFail
PassStep == \/ CatchUpTip \/ CatchUpSince \/ CatchUpDownload \/ CatchUpApply \/ CatchUpAudit
            \/ BootApply \/ BootClose \/ BootAdopt \/ BootFail

Next ==
    \/ ClearHalt \/ MarkerWriteDone
    \/ WalkStep \/ LiveStep \/ ReorgStep \/ PassStep
    \/ \E n \in Heights : LiveStart(n)
    \/ \E b \in Heights : ReorgStart(b)
    \/ CatchUpStart \/ StartSync \/ Follow \/ Restart

Spec == Init /\ [][Next]_vars

-----------------------------------------------------------------------------
(* Properties.                                                             *)

Guarded == unguarded = {}

\* The marker never vouches for a block that was not recomputed: every block
\* at or below it, in memory and on disk, is stored and reproduces its own
\* committed hashes or came with the trusted full snapshot, whatever was
\* interleaved, lost or restarted (verified_tip.js, header).
MarkerSound ==
    \A h \in Heights : h <= marker \/ h <= vtip => Vouched(h)

\* The marker is sound as long as no unguarded step was taken.
MarkerSoundWhileGuarded == Guarded => MarkerSound

BuildsOnVouched ==
    \A n, h \in Heights :
        /\ rows[n] = "none" /\ rows'[n] # "none"
        /\ h < n /\ rows[h] # "none"
        => rows'[h] \in {"seed", "good"}

\* Nothing is built on a block that was not recomputed: when a live block or a
\* catch-up range commits, every block stored below it is vouched for
\* (liveBlockBlockedByUnverifiedTail, runIncrementalCatchUp).
AdvanceOnVerified == [][Guarded' => BuildsOnVouched]_vars

\* No unguarded step was taken but ranges committed on a tip that has moved since
\* it was read, down by a rollback or up by a live block.
OnlyRange == unguarded \subseteq {"range", "overlap"}

NoBadBlockCovered == \A h \in Heights : rows[h] = "bad" => h > marker

\* The stored marker covers no stored block that fails to reproduce its own
\* hashes, even when a catch-up range is committed on a tip that has moved since
\* it was read (applyIncrementalCatchUpSnapshot does not look again).
AfterRange == OnlyRange => NoBadBlockCovered
=============================================================================
