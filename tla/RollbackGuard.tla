----------------------------- MODULE RollbackGuard -----------------------------
(***************************************************************************)
(* The cumulative rollback-depth guard of a replica (client/               *)
(* rollback_guard.js, and its durable copy in client/sync.js).  A reorg is *)
(* handled by the event chain, or by the quorum timer of a report that     *)
(* waited for a second source; each checks its depth first and then waits  *)
(* for the apply lock.  Blocks, catch-up ranges, full snapshots, operator  *)
(* clears, crashes and restarts come in between.                           *)
(***************************************************************************)
EXTENDS Integers

CONSTANTS
    MaxTip,       \* bound on block heights
    MaxDepth      \* maxRollbackDepth

ASSUME MaxTipAssumption == MaxTip \in Nat \ {0}
ASSUME MaxDepthAssumption == MaxDepth \in Nat \ {0}

VARIABLES
    stored,               \* durable: the highest stored block
    savedPeak, savedLow,  \* durable: sync_state rollback_guard
    tip,                  \* lastAppliedBlock
    peak, low,            \* the streak of the guard
    halt,                 \* why the client is halted
    apc, height,          \* an applier: a block on the event chain, a pass
    pc, target, deep,     \* a reorg per handler; deep: admitted over the limit
    high,                 \* history: the highest block held since the streak was
                          \* last given up on purpose
    forgot                \* history: how the streak was lost, or the limit missed

durable == <<stored, savedPeak, savedLow>>
guard == <<peak, low>>
appliers == <<apc, height>>
reorgs == <<pc, target, deep>>
vars == <<stored, savedPeak, savedLow, tip, peak, low, halt, apc, height, pc, target, deep,
          high, forgot>>

Handlers == {"chain", "timer"}
Appliers == {"block", "pass"}
Tips == 0..MaxTip
Null == -1
Larger(a, b) == IF a > b THEN a ELSE b
Smaller(a, b) == IF a < b THEN a ELSE b
Ways == {"none", "late", "race", "ghost", "read", "unspent", "several"}

TypeOK ==
    /\ stored \in Tips /\ tip \in Tips /\ high \in Tips
    /\ savedPeak \in -1..MaxTip /\ savedLow \in -1..MaxTip
    /\ peak \in -1..MaxTip /\ low \in -1..MaxTip
    /\ halt \in {"no", "depth", "invalid", "other"}
    /\ apc \in [Appliers -> {"idle", "apply", "advance"}]
    /\ height \in [Appliers -> Tips]
    /\ pc \in [Handlers -> {"idle", "lock", "lower", "delete", "close"}]
    /\ target \in [Handlers -> Tips]
    /\ \A h \in Handlers : pc[h] # "idle" => target[h] # 0
    /\ deep \in [Handlers -> {"no", "yes"}]
    /\ forgot \in Ways

Forgets(way, taken) ==
    forgot' = IF ~taken THEN forgot
              ELSE IF forgot \in {"none", way} THEN way ELSE "several"

-----------------------------------------------------------------------------
(* The guard.                                                              *)

\* Mutant: the streak ends when the replica climbs back over its lowest target.
Expired_AtLow == peak # Null /\ (tip >= peak \/ tip >= low)

\* expire: the streak ends at its peak, or a full limit above its lowest target.
Expired == peak # Null /\ (tip >= peak \/ tip - low >= MaxDepth)
Expire == /\ peak' = IF Expired THEN Null ELSE peak
          /\ low' = IF Expired THEN Null ELSE low

\* depthFor, after its expire.
Peak == IF peak = Null \/ Expired THEN tip ELSE peak
DepthFor(t) == Peak - t + 1

\* record.
Record(t) == /\ peak' = Peak
             /\ low' = IF low = Null \/ Expired THEN t ELSE Smaller(low, t)

LockSteps == {"lower", "delete", "close"}
Locked == \E h \in Handlers : pc[h] \in LockSteps
Recorded(h) == pc[h] \in {"delete", "close"}
Reset == peak' = Null /\ low' = Null

\* resetRollbackGuardState: the saved copy is deleted, fail-soft.
ResetSaved == \/ savedPeak' = Null /\ savedLow' = Null
              \/ UNCHANGED <<savedPeak, savedLow>>

HaltFor(why) == halt' = IF halt = "no" THEN why ELSE halt
Goes(h, step) == pc' = [pc EXCEPT ![h] = step] /\ UNCHANGED <<target, deep>>
Waits(h, t, d) == /\ pc' = [pc EXCEPT ![h] = "lock"]
                  /\ target' = [target EXCEPT ![h] = t]
                  /\ deep' = [deep EXCEPT ![h] = d]
Ends(h) == /\ pc' = [pc EXCEPT ![h] = "idle"]
           /\ target' = [target EXCEPT ![h] = 0]
           /\ deep' = [deep EXCEPT ![h] = "no"]
Applies(a, step, n) == /\ apc' = [apc EXCEPT ![a] = step]
                       /\ height' = [height EXCEPT ![a] = n]

-----------------------------------------------------------------------------
(* A reorg.                                                                *)

\* handleSourceReorg and handleReorg up to the apply lock: the depth is checked
\* against the tip of the moment.  A report may also only be counted, or be
\* dropped for want of a quorum, after the guard was asked.
ReorgCheck(h, t) ==
    /\ halt = "no" /\ pc[h] = "idle"
    /\ h = "chain" => apc["block"] = "idle"
    /\ t \in 1..tip
    /\ Expire
    /\ \/ DepthFor(t) <= MaxDepth /\ Waits(h, t, "no") /\ UNCHANGED halt
       \/ DepthFor(t) > MaxDepth /\ Waits(h, t, "yes") /\ UNCHANGED halt   \* admitted
       \/ DepthFor(t) > MaxDepth /\ HaltFor("depth") /\ UNCHANGED reorgs
       \/ UNCHANGED <<halt, reorgs>>
    /\ Forgets("race", Expired /\ \E g \in Handlers : Recorded(g))
    /\ UNCHANGED <<durable, tip, appliers, high>>

\* applyReorgRollback takes the lock.
ReorgLock(h) ==
    /\ pc[h] = "lock" /\ ~Locked
    /\ IF halt = "no" THEN Goes(h, "lower") ELSE Ends(h)
    /\ UNCHANGED <<durable, tip, guard, halt, appliers, high, forgot>>

\* What the depth check saw no longer holds when the lock is taken.
Late(h) == \/ tip # stored
           \/ target[h] > tip
           \/ deep[h] = "no" /\ DepthFor(target[h]) > MaxDepth

\* The guard records the rewind and saves its streak before any row goes; a
\* write that fails halts instead.
ReorgRecord(h) ==
    /\ pc[h] = "lower"
    /\ \/ /\ Record(target[h])
          /\ \/ /\ savedPeak' = peak' /\ savedLow' = low'
                /\ Goes(h, "delete") /\ UNCHANGED halt
                /\ Forgets("late", Late(h))
             \/ /\ Ends(h) /\ HaltFor("other")
                /\ UNCHANGED <<savedPeak, savedLow>>
                /\ Forgets("unspent", deep[h] = "yes" \/ Late(h))
       \/ /\ Ends(h) /\ HaltFor("other")       \* the marker write failed
          /\ UNCHANGED <<savedPeak, savedLow, guard, forgot>>
    /\ UNCHANGED <<stored, tip, appliers, high>>

\* The rollback transaction.
ReorgDelete(h) ==
    /\ pc[h] = "delete"
    /\ \/ /\ stored' = Smaller(stored, target[h] - 1)
          /\ high' = IF deep[h] = "yes" THEN stored' ELSE high
          /\ Goes(h, "close") /\ UNCHANGED <<halt, forgot>>
       \/ /\ Ends(h) /\ HaltFor("other")
          /\ Forgets("unspent", deep[h] = "yes")
          /\ UNCHANGED <<stored, high>>
    /\ UNCHANGED <<savedPeak, savedLow, tip, guard, appliers>>

ReorgClose(h) ==
    /\ pc[h] = "close"
    /\ tip' = target[h] - 1
    /\ Ends(h)
    /\ UNCHANGED <<durable, guard, halt, appliers, high, forgot>>

-----------------------------------------------------------------------------
(* What moves the tip, and the operator.                                   *)

\* handleBlock admits the next block.
BlockStart ==
    /\ halt = "no" /\ apc["block"] = "idle" /\ pc["chain"] = "idle"
    /\ tip < MaxTip
    /\ Applies("block", "apply", tip + 1)
    /\ UNCHANGED <<durable, tip, guard, halt, reorgs, high, forgot>>

\* applyAndVerifyBlock commits it under the lock.
BlockApply ==
    /\ apc["block"] = "apply" /\ ~Locked
    /\ \/ /\ stored' = Larger(stored, height["block"]) /\ high' = Larger(high, stored')
          /\ Applies("block", "advance", height["block"])
       \/ Applies("block", "idle", 0) /\ UNCHANGED <<stored, high>>
    /\ UNCHANGED <<savedPeak, savedLow, tip, guard, halt, reorgs, forgot>>

\* A catch-up range, committed under the lock.
CatchUpApply(hi) ==
    /\ halt = "no" /\ apc["pass"] = "idle" /\ ~Locked
    /\ hi > stored
    /\ stored' = hi /\ high' = Larger(high, hi)
    /\ Applies("pass", "advance", hi)
    /\ UNCHANGED <<savedPeak, savedLow, tip, guard, halt, reorgs, forgot>>

\* bootstrapApplySnapshot: a full snapshot replaces every row and gives up the
\* streak.
SnapshotApply(hi) ==
    /\ halt = "no" /\ apc["pass"] = "idle" /\ ~Locked
    /\ stored' = hi /\ tip' = hi /\ high' = hi
    /\ Reset /\ ResetSaved
    /\ UNCHANGED <<halt, appliers, reorgs, forgot>>

\* Mutant: the tip becomes the next block to expect.
Advance_Next(a) ==
    /\ apc[a] = "advance"
    /\ Applies(a, "idle", 0)
    /\ tip' = height[a] + 1 /\ Forgets("ghost", stored # height[a])
    /\ UNCHANGED <<durable, guard, halt, reorgs, high>>

\* The applier advances lastAppliedBlock once it is out of the lock; a block or a
\* pass that fails after its commit does not, and may halt.
Advance(a) ==
    /\ apc[a] = "advance"
    /\ Applies(a, "idle", 0)
    /\ \/ tip' = height[a] /\ Forgets("ghost", stored # height[a]) /\ UNCHANGED halt
       \/ HaltFor("other") /\ UNCHANGED <<tip, forgot>>
       \/ UNCHANGED <<tip, halt, forgot>>
    /\ UNCHANGED <<durable, guard, reorgs, high>>

\* The operator's clear of a depth halt, or of a saved row that does not parse,
\* gives up the streak; any other clear keeps it.
ClearHalt ==
    /\ halt # "no"
    /\ halt' = "no"
    /\ \/ /\ halt = "depth" /\ Reset /\ ResetSaved /\ high' = stored
          /\ Forgets("race", \E h \in Handlers : Recorded(h))
       \/ /\ halt = "invalid" /\ Reset /\ high' = stored
          /\ savedPeak' = Null /\ savedLow' = Null
          /\ UNCHANGED forgot
       \/ halt = "other" /\ UNCHANGED <<guard, savedPeak, savedLow, high, forgot>>
    /\ UNCHANGED <<stored, tip, appliers, reorgs>>

\* A crash anywhere, and the start of the next process: loadRollbackGuardState
\* reads the saved streak, and a read that fails counts as no streak.
Restart ==
    /\ tip' = stored
    /\ apc' = [a \in Appliers |-> "idle"] /\ height' = [a \in Appliers |-> 0]
    /\ pc' = [h \in Handlers |-> "idle"]
    /\ target' = [h \in Handlers |-> 0] /\ deep' = [h \in Handlers |-> "no"]
    /\ LET unspent == \E h \in Handlers : pc[h] = "delete" /\ deep[h] = "yes" IN
       \/ /\ savedLow <= savedPeak
          /\ peak' = savedPeak /\ low' = savedLow
          /\ halt' \in {halt, "no"}
          /\ Forgets("unspent", unspent)
       \/ /\ savedLow > savedPeak
          /\ Reset /\ halt' = "invalid"
          /\ Forgets("unspent", unspent)
       \/ /\ Reset /\ halt' \in {halt, "no"}
          /\ Forgets("read", savedPeak # Null)
    /\ UNCHANGED <<durable, high>>

Init ==
    \E t \in Tips :
        /\ stored = t /\ tip = t /\ high = t
        /\ peak = Null /\ low = Null /\ savedPeak = Null /\ savedLow = Null
        /\ halt = "no"
        /\ apc = [a \in Appliers |-> "idle"] /\ height = [a \in Appliers |-> 0]
        /\ pc = [h \in Handlers |-> "idle"]
        /\ target = [h \in Handlers |-> 0] /\ deep = [h \in Handlers |-> "no"]
        /\ forgot = "none"

Next ==
    \/ \E h \in Handlers :
          \/ \E t \in Tips : ReorgCheck(h, t)
          \/ ReorgLock(h) \/ ReorgRecord(h) \/ ReorgDelete(h) \/ ReorgClose(h)
    \/ BlockStart \/ BlockApply
    \/ \E hi \in Tips : CatchUpApply(hi) \/ SnapshotApply(hi)
    \/ \E a \in Appliers : Advance(a)
    \/ ClearHalt \/ Restart

Spec == Init /\ [][Next]_vars

-----------------------------------------------------------------------------
(* Properties.                                                             *)

\* Nothing loses the streak on the way here ...
Kept == forgot = "none"
\* ... or one way of losing it is let in.
OnlyBy(way) == forgot \in {"none", way}

\* A streak covers what the replica held: it does not end before the replica is
\* back at the highest block it held.
Covers(p, l) == p # Null /\ high <= p /\ high <= l + MaxDepth

\* One rollback holds the lock at a time ...
Exclusive == \A g, h \in Handlers : pc[g] \in LockSteps /\ pc[h] \in LockSteps => g = h

\* ... it still is the one that was checked ...
Checked ==
    \A h \in Handlers :
        /\ pc[h] = "delete" =>
              /\ tip = stored /\ target[h] <= stored /\ savedPeak # Null
              /\ deep[h] = "no" => /\ target[h] > high - MaxDepth
                                   /\ Covers(peak, low) /\ Covers(savedPeak, savedLow)
        /\ pc[h] = "close" => stored = target[h] - 1

\* ... and outside it the tip in memory is not above the rows.
TipStored == tip <= stored \/ \E h \in Handlers : pc[h] = "close"

\* The depth already spent is known in memory and in the database: unless the
\* replica is back at the highest block it held, both hold a streak that covers
\* it.  The one exception is a rewind a retroactive quorum admitted, until its
\* rows go.
Streak ==
    /\ low <= peak /\ savedLow <= savedPeak /\ halt # "invalid"
    /\ \/ high <= stored
       \/ Covers(peak, low) /\ Covers(savedPeak, savedLow)
       \/ \E h \in Handlers : pc[h] = "delete" /\ deep[h] = "yes"

StreakCovers == Kept => Exclusive /\ Checked /\ TipStored /\ Streak

\* Rows that a rollback deletes without a retroactive quorum are at most MaxDepth
\* deep, counted from the highest block the replica held since the streak was
\* last given up on purpose (a full snapshot, an admitted deep rewind, the
\* operator's clear): however the rewind is split, and whatever crashes in between.
RewindBounded ==
    \A h \in Handlers :
        pc[h] = "delete" /\ pc'[h] = "close" /\ deep[h] = "no" => target[h] > high - MaxDepth

\* applyReorgRollback keeps the limit as long as no way to lose the streak is taken.
DepthBounded == [][Kept => RewindBounded]_vars

\* The same, when the read of the saved streak at a start may fail: the error is
\* swallowed and the streak starts empty (loadRollbackGuardState, getSyncState).
AfterRead == [][OnlyBy("read") => RewindBounded]_vars
=============================================================================
