---------------------------- MODULE HaltPersistence ----------------------------
(***************************************************************************)
(* The durable halt of a replica (client/halt_persistence.js, db/          *)
(* sync_halt.js and the halt parts of client/sync.js).  A halt is raised   *)
(* in memory, written to sync_halt, copied to sync_state when that write   *)
(* fails and written again on a timer; operators clear it; a start reads   *)
(* it back before anything is applied.  Every query can fail, every write  *)
(* can be in flight while the halt it was issued for is cleared and another*)
(* one raised, and the process can die at any step.                        *)
(***************************************************************************)
EXTENDS Integers, Sequences, Functions

CONSTANTS
    Blocks,       \* the blocks halts are raised at
    MaxHalts,     \* bound on the halt objects of one process
    Operators     \* clear requests that can be in flight at once

None == 0         \* _halted = null, no copy, no timer
Halts == 1..MaxHalts
Synthetic == -1   \* for a block: the halt of a halt state that could not be read

ASSUME BlocksAssumption == Blocks \subseteq Nat \ {None}
ASSUME MaxHaltsAssumption == MaxHalts \in Nat

VARIABLES
    rows,         \* durable: the blocks of the active sync_halt rows, oldest first
    copy,         \* durable: the block of sync_state halt_pending
    halted,       \* _halted: an object of this process
    blockOf, made,  \* its objects so far
    haltDurable,  \* _haltDurable
    ownCopy,      \* _pendingHaltCopy
    timer,        \* _haltPersistTimer: the halt it writes
    work,         \* steps in flight of persistHalt and retryHaltPersist
    clearPc, seen, wasDurable,     \* clearHalt, per operator
    phase,        \* how far start() is
    standing,     \* history: the block of the halt nobody acknowledged
    unguarded     \* history: the kind of step taken that nothing guards

durable == <<rows, copy>>
objects == <<blockOf, made>>
memory == <<halted, objects, haltDurable, ownCopy, timer>>
clears == <<clearPc, seen, wasDurable>>
history == <<standing, unguarded>>
vars == <<rows, copy, halted, blockOf, made, haltDurable, ownCopy, timer, work,
          clearPc, seen, wasDurable, phase, standing, unguarded>>

\* write: recordHalt of persistHalt; wrote: its row is in; copy: the write failed
\* and the copy is being written; drop: the copy is being deleted; rewrite and
\* rewrote: the same for a retry.
Steps == {"write", "wrote", "copy", "drop", "rewrite", "rewrote"}

AnyBlock == Blocks \cup {Synthetic}

\* The values the state can have: every object made in this process stands for a
\* block, and everything in memory refers to such an object.
TypeOK ==
    /\ rows \in Seq(AnyBlock) /\ copy \in AnyBlock \cup {None}
    /\ blockOf \in [Halts -> AnyBlock \cup {None}] /\ made \in 0..MaxHalts
    /\ \A h \in Halts : blockOf[h] = None <=> h > made
    /\ halted \in 0..made /\ timer \in 0..made
    /\ haltDurable \in BOOLEAN /\ ownCopy \in BOOLEAN
    /\ work \subseteq Steps \X (1..made)
    /\ clearPc \in [Operators -> {"idle", "update", "drop"}]
    /\ seen \in [Operators -> 0..made]
    /\ wasDurable \in [Operators -> BOOLEAN]
    /\ phase \in {"read", "reread", "held", "restore", "restored", "run"}
    /\ standing \in Blocks \cup {None}
    /\ unguarded \in {"none", "late", "clear", "stale", "hidden", "several"}

Newest == rows[Len(rows)]
Takes(kind, taken) ==
    unguarded' = IF ~taken THEN unguarded
                 ELSE IF unguarded \in {"none", kind} THEN kind ELSE "several"

\* A step issued for h finishes while another halt is in force.
Late(h) == halted \notin {None, h}

\* A halt object for block b comes into force.
Installs(b) ==
    /\ made < MaxHalts
    /\ made' = made + 1 /\ halted' = made'
    /\ blockOf' = [blockOf EXCEPT ![made'] = b]

IsSynthetic == halted # None /\ blockOf[halted] = Synthetic

\* recordHalt: no second active row for the block of the newest one (one a failed
\* pre-check adds changes nothing that is read).
Recorded(h) ==
    IF rows # <<>> /\ Newest = blockOf[h] THEN rows ELSE Append(rows, blockOf[h])

Becomes(step, next, h) == work' = (work \ {<<step, h>>}) \cup {<<next, h>>}
Ends(step, h) == work' = work \ {<<step, h>>}

-----------------------------------------------------------------------------
(* Raising a halt and writing it.                                          *)

\* haltOnDivergence, haltOnSchemaFailure and haltOnCatchUpTooLarge: ignored while
\* halted, else the halt is in force at once and persistHalt begins.
Raise(b) ==
    /\ phase = "run" /\ halted = None
    /\ Installs(b)
    /\ standing' = b
    /\ work' = work \cup {<<"write", made'>>}
    /\ UNCHANGED <<durable, haltDurable, ownCopy, timer, clears, phase, unguarded>>

\* Mutant: a failed write leaves _haltDurable as it was.
Write_Silent(h) ==
    /\ <<"write", h>> \in work
    /\ \/ rows' = Recorded(h) /\ Becomes("write", "wrote", h) /\ UNCHANGED <<ownCopy, unguarded>>
       \/ /\ ownCopy' = TRUE /\ Becomes("write", "copy", h)
          /\ Takes("late", Late(h)) /\ UNCHANGED rows
    /\ UNCHANGED <<copy, halted, objects, haltDurable, timer, clears, phase, standing>>

\* The INSERT of persistHalt lands or fails.
Write(h) ==
    /\ <<"write", h>> \in work
    /\ \/ /\ rows' = Recorded(h) /\ Becomes("write", "wrote", h)
          /\ UNCHANGED <<haltDurable, ownCopy, unguarded>>
       \/ /\ haltDurable' = FALSE /\ ownCopy' = TRUE /\ Becomes("write", "copy", h)
          /\ Takes("late", Late(h)) /\ UNCHANGED rows
    /\ UNCHANGED <<copy, halted, objects, timer, clears, phase, standing>>

\* persistHalt goes on after its row is in; clearPendingHaltCopy.
Wrote(h) ==
    /\ <<"wrote", h>> \in work
    /\ haltDurable' = TRUE /\ ownCopy' = FALSE
    /\ IF ownCopy THEN Becomes("wrote", "drop", h) ELSE Ends("wrote", h)
    /\ Takes("late", Late(h))
    /\ UNCHANGED <<durable, halted, objects, timer, clears, phase, standing>>

\* Mutant: no retry is scheduled after the copy.
WriteCopy_NoRetry(h) ==
    /\ <<"copy", h>> \in work
    /\ copy' \in {blockOf[h], copy}
    /\ Ends("copy", h)
    /\ Takes("late", Late(h))
    /\ UNCHANGED <<rows, halted, objects, haltDurable, ownCopy, timer, clears, phase, standing>>

\* writePendingHaltCopy, fail-soft, and then scheduleHaltPersistRetry, which
\* replaces whatever timer there is.
WriteCopy(h) ==
    /\ <<"copy", h>> \in work
    /\ copy' \in {blockOf[h], copy}
    /\ timer' = h
    /\ Ends("copy", h)
    /\ Takes("late", Late(h))
    /\ UNCHANGED <<rows, halted, objects, haltDurable, ownCopy, clears, phase, standing>>

\* dropPendingHaltCopy on behalf of a write that landed, fail-soft.
DropCopy(h) ==
    /\ <<"drop", h>> \in work
    /\ copy' \in {None, copy}
    /\ Ends("drop", h)
    /\ Takes("late", Late(h))
    /\ UNCHANGED <<rows, memory, clears, phase, standing>>

\* The retry timer: skipped when its halt is no longer in force.
TimerFires ==
    /\ timer # None
    /\ timer' = None
    /\ work' = IF halted = timer THEN work \cup {<<"rewrite", timer>>} ELSE work
    /\ UNCHANGED <<durable, halted, objects, haltDurable, ownCopy, clears, phase, history>>

\* retryHaltPersist: a failure schedules the next retry without looking which halt
\* is in force by now.
Rewrite(h) ==
    /\ <<"rewrite", h>> \in work
    /\ \/ /\ rows' = Recorded(h) /\ Becomes("rewrite", "rewrote", h)
          /\ UNCHANGED <<timer, unguarded>>
       \/ /\ timer' = h /\ Ends("rewrite", h)
          /\ Takes("late", Late(h)) /\ UNCHANGED rows
    /\ UNCHANGED <<copy, halted, objects, haltDurable, ownCopy, clears, phase, standing>>

Rewrote(h) ==
    /\ <<"rewrote", h>> \in work
    /\ IF halted = h
       THEN /\ haltDurable' = TRUE /\ ownCopy' = FALSE
            /\ IF ownCopy THEN Becomes("rewrote", "drop", h) ELSE Ends("rewrote", h)
       ELSE Ends("rewrote", h) /\ UNCHANGED <<haltDurable, ownCopy>>
    /\ UNCHANGED <<durable, halted, objects, timer, clears, phase, history>>

-----------------------------------------------------------------------------
(* Clearing.                                                               *)

\* The clear route and clearHalt up to its first query.  A synthetic halt is only
\* dropped from memory.
ClearStart(o) ==
    /\ clearPc[o] = "idle" /\ halted # None
    /\ timer' = None /\ haltDurable' = TRUE
    /\ IF IsSynthetic
       THEN halted' = None /\ UNCHANGED clears
       ELSE /\ clearPc' = [clearPc EXCEPT ![o] = "update"]
            /\ seen' = [seen EXCEPT ![o] = halted]
            /\ wasDurable' = [wasDurable EXCEPT ![o] = haltDurable]
            /\ UNCHANGED halted
    /\ UNCHANGED <<durable, objects, ownCopy, work, phase, history>>

ClearEnds(o) == /\ clearPc' = [clearPc EXCEPT ![o] = "idle"]
                /\ seen' = [seen EXCEPT ![o] = None]
                /\ wasDurable' = [wasDurable EXCEPT ![o] = TRUE]

\* The UPDATE of sync_halt; when it fails the halt stays in force and an owed write
\* is resumed.
ClearUpdate(o) ==
    /\ clearPc[o] = "update"
    /\ \/ /\ rows' = <<>> /\ clearPc' = [clearPc EXCEPT ![o] = "drop"]
          /\ Takes("clear", halted # seen[o])
          /\ UNCHANGED <<seen, wasDurable, haltDurable, timer>>
       \/ /\ ClearEnds(o)
          /\ Takes("stale", wasDurable[o] /\ ~haltDurable)
          /\ haltDurable' = wasDurable[o]
          /\ timer' = IF ~wasDurable[o] /\ halted # None THEN halted ELSE timer
          /\ UNCHANGED rows
    /\ UNCHANGED <<copy, halted, objects, ownCopy, work, phase, standing>>

\* dropPendingHaltCopy, fail-soft, and the halt goes.
ClearDrop(o) ==
    /\ clearPc[o] = "drop"
    /\ copy' \in {None, copy} /\ ownCopy' = FALSE
    /\ halted' = None
    /\ standing' = IF standing = blockOf[seen[o]] THEN None ELSE standing
    /\ IF halted # seen[o] THEN Takes("clear", TRUE)
       ELSE Takes("hidden", standing \notin {None, blockOf[seen[o]]})
    /\ ClearEnds(o)
    /\ UNCHANGED <<rows, objects, haltDurable, timer, work, phase>>

-----------------------------------------------------------------------------
(* Starting.                                                               *)

\* resolveStartupHalt.
ReadHalt ==
    /\ phase = "read"
    /\ \/ rows = <<>> /\ phase' = "restore" /\ UNCHANGED <<halted, objects>>
       \/ rows # <<>> /\ Installs(Newest) /\ phase' = "held"
       \/ Installs(Synthetic) /\ phase' = "reread"
    /\ UNCHANGED <<durable, haltDurable, ownCopy, timer, work, clears, history>>

\* retryStartupHaltRead, until the read succeeds or an operator clears.
RereadHalt ==
    /\ phase = "reread" /\ phase' = "held"
    /\ \/ IsSynthetic /\ rows = <<>> /\ halted' = None /\ UNCHANGED objects
       \/ IsSynthetic /\ rows # <<>> /\ Installs(Newest)
       \/ ~IsSynthetic /\ UNCHANGED <<halted, objects>>
    /\ UNCHANGED <<durable, haltDurable, ownCopy, timer, work, clears, history>>

\* waitForStartupHalt, and start() again.
HeldEnds ==
    /\ phase = "held" /\ halted = None
    /\ phase' = "read"
    /\ UNCHANGED <<durable, memory, work, clears, history>>

\* Mutant: a copy that cannot be read counts as no copy.
RestoreCopy_Soft ==
    /\ phase = "restore"
    /\ \/ phase' = "run" /\ UNCHANGED <<halted, objects, ownCopy, work>>
       \/ /\ copy # None /\ Installs(copy) /\ ownCopy' = TRUE
          /\ work' = work \cup {<<"write", made'>>}
          /\ phase' = "restored"
    /\ UNCHANGED <<durable, haltDurable, timer, clears, history>>

\* Mutant: an absent copy is not told from a stored one.
RestoreCopy_Absent ==
    /\ phase = "restore"
    /\ Installs(copy) /\ ownCopy' = TRUE
    /\ work' = work \cup {<<"write", made'>>}
    /\ phase' = "restored"
    /\ UNCHANGED <<durable, haltDurable, timer, clears, history>>

\* restorePendingHalt.
RestoreCopy ==
    /\ phase = "restore"
    /\ \/ copy = None /\ phase' = "run" /\ UNCHANGED <<halted, objects, ownCopy, work>>
       \/ /\ copy # None /\ Installs(copy) /\ ownCopy' = TRUE
          /\ work' = work \cup {<<"write", made'>>}
          /\ phase' = "restored"
       \/ Installs(Synthetic) /\ phase' = "held" /\ UNCHANGED <<ownCopy, work>>
    /\ UNCHANGED <<durable, haltDurable, timer, clears, history>>

\* The write of the restored halt is awaited; then an empty replica idles on the
\* halt, another one follows while halted.
Restored ==
    /\ phase = "restored"
    /\ \A s \in {"write", "wrote", "copy", "drop"} : <<s, made>> \notin work
    /\ phase' \in {"run", "held"}
    /\ UNCHANGED <<durable, memory, work, clears, history>>

\* The process dies and the next one starts.  A halt that reached neither sync_halt
\* nor sync_state is gone.
Restart ==
    /\ phase' = "read" /\ halted' = None
    /\ made' = 0 /\ blockOf' = [h \in Halts |-> None]
    /\ haltDurable' = TRUE /\ ownCopy' = FALSE
    /\ timer' = None /\ work' = {}
    /\ clearPc' = [o \in Operators |-> "idle"] /\ seen' = [o \in Operators |-> None]
    /\ wasDurable' = [o \in Operators |-> TRUE]
    /\ standing' = IF standing \in {copy} \cup Range(rows) THEN standing ELSE None
    /\ UNCHANGED <<durable, unguarded>>

Init ==
    /\ rows = <<>> /\ copy = None
    /\ made = 0 /\ blockOf = [h \in Halts |-> None]
    /\ halted = None /\ haltDurable = TRUE /\ ownCopy = FALSE /\ timer = None /\ work = {}
    /\ clearPc = [o \in Operators |-> "idle"] /\ seen = [o \in Operators |-> None]
    /\ wasDurable = [o \in Operators |-> TRUE]
    /\ phase = "read" /\ standing = None /\ unguarded = "none"

Start == ReadHalt \/ RereadHalt \/ HeldEnds \/ RestoreCopy \/ Restored

Next ==
    \/ \E b \in Blocks : Raise(b)
    \/ TimerFires \/ Start \/ Restart
    \/ \E h \in Halts : \/ Write(h) \/ Wrote(h) \/ WriteCopy(h) \/ DropCopy(h)
                       \/ Rewrite(h) \/ Rewrote(h)
    \/ \E o \in Operators : ClearStart(o) \/ ClearUpdate(o) \/ ClearDrop(o)

Spec == Init /\ [][Next]_vars

-----------------------------------------------------------------------------
(* Properties.                                                             *)

\* No step was taken that nothing guards ...
Guarded == unguarded = "none"
\* ... or only steps of one kind.
OnlyBy(kind) == unguarded \in {"none", kind}

Busy(h) == \E s \in Steps : <<s, h>> \in work
Clearing == \E o \in Operators : clearPc[o] # "idle"
Settled == halted # None /\ ~IsSynthetic /\ ~Busy(halted) /\ ~Clearing

Stands == phase = "run" /\ halted = None => standing = None

\* A replica that runs un-halted owes nobody an acknowledgement: a halt that
\* reached sync_halt or its copy stays in force over crashes, failed reads and
\* failed clears until an operator who saw it clears it (resolveStartupHalt,
\* restorePendingHalt, clearHalt).
HaltStands == Guarded => Stands

\* isHaltDurable tells the truth once the write came back: the halt in force has an
\* active row for its block.
DurableIsRecorded == Guarded => (Settled /\ haltDurable => blockOf[halted] \in Range(rows))

\* A halt in force whose row is owed has its retry scheduled.
RetryScheduled == Settled /\ ~blockOf[halted] \in Range(rows) => timer = halted

\* persistHalt and retryHaltPersist: the retry goes on until the write lands or the
\* halt is cleared.
RetryGoesOn == Guarded => RetryScheduled

\* The same, when steps of a halt that was cleared may finish under the next one:
\* their failure replaces the timer of the halt in force.
RetryAfterLate == OnlyBy("late") => RetryScheduled
=============================================================================
