----------------------------- MODULE SourceQuorum -----------------------------
(***************************************************************************)
(* An indexer replica that follows several sources: it applies a block when *)
(* a quorum of its sources reports it, falls back to an uncontested report  *)
(* when a timer runs out (unless HASH_CONFIRM_STRICT refuses it), strikes   *)
(* and evicts sources that dissent, and refills a gap from one source by    *)
(* catch-up.                                                                *)
(*                                                                          *)
(* Honest sources have block One at every height; Other is a block none of  *)
(* them has.  A report is a block and a state hash (0 for null).  Events of *)
(* all sources are handled one after the other; the timers run beside them, *)
(* and each has awaited work (a job) of its own.  A stream that reopens      *)
(* starts a catch-up beside the events; all catch-ups share one pass, and    *)
(* all who wait for the unverified tail share one walk.  A halt ends the     *)
(* behaviour: clearing it is in HaltPersistence, the walk and its marker in  *)
(* detail in VerifiedTip.  Reports of reorganisations, the one a fork at the *)
(* head makes included, are not part of this module, and catch-up is served  *)
(* by an honest source.                                                      *)
(***************************************************************************)
EXTENDS Integers, Sequences, FiniteSets, FiniteSetsExt

CONSTANTS
  N,          \* number of sources; a source is its index
  Quorum,     \* SOURCE_QUORUM
  EvictAt,    \* strikes that evict a source
  MaxHeight,  \* blocks of the chain above block 0, which the replica starts with
  MaxFaults   \* streams that close with a block lost and queries that fail, together

ASSUME QuorumAssumption ==
  /\ N \in Nat \ {0, 1} /\ Quorum \in 1 .. N /\ 2 * Quorum > N
  /\ EvictAt \in Nat \ {0} /\ MaxHeight \in Nat \ {0} /\ MaxFaults \in Nat

Sources == 1 .. N
Heights == 1 .. MaxHeight
One == 1
Other == 2
Mixed == 3  \* the rows of two copies of a block, in tables that have no key
NoReport == <<0, 0>>

VARIABLES
  strict,   \* HASH_CONFIRM_STRICT
  dissent,  \* the sources that are not honest
  pos,      \* the last block each source has streamed
  tip,      \* lastAppliedBlock, the cursor in memory
  applied,  \* the block stored at each height, with its state hash
  via,      \* how it came: by "quorum", by "timer" or by "catchup"
  held,     \* pendingHashes: the report of each source at a height
  timer,    \* _applyTimers: the report whose arrival armed it
  strictBlocks, \* _strictConfirmPending
  strikes,  \* _sourceStrikes
  evicted,  \* _evictedSources
  halted,   \* the reason of the halt in force, "" for none
  jobs,     \* blocks being applied, by the event chain or by a timer
  down,     \* _sourcesNeedingRecovery: sources whose stream is closed
  pass,     \* _catchUpInFlight: the catch-up pass there is
  pending,  \* _catchUpPending
  walk,     \* _tailVerify: the blocks the walk over the unverified tail recomputes
  verified, \* _verifiedTip
  faults,   \* how many of the faults there were
  late      \* a state hash was recomputed below the stored tip

sourceVars == <<dissent, pos, down>>
passVars == <<pass, pending>>
tailVars == <<walk, verified>>
chainVars == <<tip, applied, via>>
blockVars == <<held, timer, strictBlocks>>
penalties == <<strikes, evicted>>
vars == <<strict, sourceVars, faults, chainVars, blockVars, penalties, halted, jobs, passVars,
          tailVars, late>>

Reports == (1 .. Other) \X (0 .. 2)
Job == [by : {"chain", "timer"}, do : {"tail", "apply", "verify"},
        n : Heights, b : 1 .. Other, st : 0 .. 2]
NoPass == [by |-> "", do |-> "", since |-> 0, before |-> 0]
Pass == [by : {"chain", "recovery"}, do : {"tip", "tail", "fetch", "audit"},
         since : 0 .. MaxHeight + 1, before : 0 .. MaxHeight]

\* The event chain waits for the pass or for a block of its own
ChainWork == {j \in jobs : j.by = "chain"} \union {p \in {pass} : p.by = "chain"}

TypeOK ==
  /\ strict \in BOOLEAN
  /\ dissent \subseteq Sources /\ pos \in [Sources -> 0 .. MaxHeight]
  /\ tip \in 0 .. MaxHeight /\ applied \in [Heights -> (0 .. Mixed) \X (0 .. 2)]
  /\ via \in [Heights -> {"", "quorum", "timer", "catchup"}]
  /\ held \in [Heights -> [Sources -> Reports \union {NoReport}]]
  /\ timer \in [Heights -> Reports \union {NoReport}]
  /\ strictBlocks \subseteq Heights
  /\ \A s \in Sources : Len(strikes[s]) <= EvictAt
  /\ evicted \subseteq Sources /\ Cardinality(Sources \ evicted) >= 2
  /\ halted \in {"", "no-quorum", "recompute", "state", "fault"}
  /\ jobs \subseteq Job /\ pass \in Pass \union {NoPass} /\ Cardinality(ChainWork) <= 1
  /\ pending \in BOOLEAN /\ down \subseteq Sources
  /\ walk \subseteq Heights /\ verified \in 0 .. MaxHeight
  /\ faults \in 0 .. MaxFaults /\ late \in BOOLEAN

---------------------------------------------------------------------------
(* Sources *)

Active == Sources \ evicted
effectiveQuorum == Min({Quorum, Cardinality(Active)})
primarySource == Min(Active)

\* The rows of the block at h reproduce its hashes, which fold the hash stored below
Links(b, h) ==
  /\ b # Mixed
  /\ h > 1 => /\ applied[h - 1] # NoReport
              /\ b = Other \/ applied[h - 1][1] \in {b, Mixed}

\* The last block stored, which the cursor may trail
Stored == {h \in Heights : applied[h] # NoReport}
Top == Max(Stored \union {0})

\* What an honest source reports for the block at h: no state hash below its burst tip
Honest(h) == {One} \X (IF h < MaxHeight THEN {0, 1} ELSE {1})

\* What another source may report: the block or a different one, with a state hash of its own
Faulty == {One, Other} \X {2}

\* One of the bounded number of faults
Fault == faults < MaxFaults /\ faults' = faults + 1

---------------------------------------------------------------------------
(* The tally of the reports held at a height *)

HeldBy(reports) == {s \in Active : reports[s] # NoReport}
StatesOf(reports, b) == {reports[s][2] : s \in {x \in HeldBy(reports) : reports[x][1] = b}} \ {0}

\* A variant: a null state hash is a vote of its own
voteKey_Apart(reports, r) == r

\* A null state hash joins the one its block is reported with
voteKey(reports, r) ==
  LET states == StatesOf(reports, r[1])
  IN  IF r[2] = 0 /\ Cardinality(states) = 1 THEN <<r[1], Max(states)>> ELSE r

abstains(reports, r) == r[2] = 0 /\ Cardinality(StatesOf(reports, r[1])) > 1
Keys(reports) == {voteKey(reports, reports[s]) : s \in HeldBy(reports)}
Group(reports, key) == {s \in HeldBy(reports) : voteKey(reports, reports[s]) = key}

Dissenters(reports, key) ==
  {s \in HeldBy(reports) : voteKey(reports, reports[s]) # key /\ ~abstains(reports, reports[s])}

LastStrikes(q) == IF Len(q) > EvictAt THEN SubSeq(q, Len(q) - EvictAt + 1, Len(q)) ELSE q
Struck(s, n) ==
  IF Len(strikes[s]) > 0 /\ strikes[s][Len(strikes[s])] = n THEN strikes[s]
  ELSE LastStrikes(Append(strikes[s], n))

\* strikeSource for each of S in turn, evictSource unless it would leave fewer than two
strikeSources(S, n) ==
  LET due == {s \in S : Len(Struck(s, n)) >= EvictAt}
      out == {s \in due : Cardinality(Active) - Cardinality({x \in due : x <= s}) >= 2}
  IN  /\ evicted' = evicted \union out
      /\ strikes' = [s \in Sources |-> IF s \in out THEN <<>>
                                       ELSE IF s \in S THEN Struck(s, n) ELSE strikes[s]]

EmptyReports == [s \in Sources |-> NoReport]
DropBlock(n) ==
  /\ held' = [held EXCEPT ![n] = EmptyReports]
  /\ timer' = [timer EXCEPT ![n] = NoReport]
  /\ strictBlocks' = strictBlocks \ {n}

\* haltOnDivergence: everything on hold is dropped
Halt(reason) ==
  /\ halted' = IF halted = "" THEN reason ELSE halted
  /\ held' = [h \in Heights |-> EmptyReports]
  /\ timer' = [h \in Heights |-> NoReport]
  /\ strictBlocks' = {}

\* It halts the replica or not, as HALT_ON_DIVERGENCE says
rejectBlockWithoutQuorum(n) ==
  \/ Halt("no-quorum")
  \/ /\ held' = [held EXCEPT ![n] = EmptyReports]
     /\ timer' = [timer EXCEPT ![n] = NoReport]
     /\ strictBlocks' = IF strict THEN strictBlocks \union {n} ELSE strictBlocks \ {n}
     /\ UNCHANGED halted

---------------------------------------------------------------------------
(* Work in flight *)

incrementalCatchUpBlocked == halted # "" \/ strictBlocks # {}

\* A new pass; the cursor is kept to see whether the pass makes progress
StartPass(who, cursor) ==
  /\ pass' = [by |-> who, do |-> "tip", since |-> 0, before |-> cursor]
  /\ pending' = FALSE

\* incrementalCatchUp: refused, folded into the pass there is, or started.  The event
\* chain waits for a pass it joined
incrementalCatchUp(who) ==
  \/ incrementalCatchUpBlocked /\ UNCHANGED passVars
  \/ /\ ~incrementalCatchUpBlocked /\ pass = NoPass
     /\ StartPass(who, tip)
  \/ /\ ~incrementalCatchUpBlocked /\ pass # NoPass
     /\ pending' = TRUE
     /\ pass' = IF who = "chain" THEN [pass EXCEPT !.by = "chain"] ELSE pass

\* The pass ends; a trigger folded into one that made progress gets another pass
EndPass(cursor) ==
  IF pending /\ cursor # pass.before /\ halted' = "" /\ strictBlocks' = {}
    THEN StartPass(pass.by, cursor)
    ELSE pass' = NoPass /\ pending' = FALSE

\* applyBlockEvent: the block waits for the unverified tail unless the marker is at the cursor
applyBlockEvent(who, n, r) ==
  jobs' = jobs \union {[by |-> who, do |-> IF verified = tip THEN "apply" ELSE "tail",
                        n |-> n, b |-> r[1], st |-> r[2]]}

---------------------------------------------------------------------------
(* A block *)

handleBlockQuorum(s, n, r) ==
  LET reports == [held[n] EXCEPT ![s] = r]
      key == voteKey(reports, r)
  IN  IF ~abstains(reports, r) /\ Cardinality(Group(reports, key)) >= effectiveQuorum
        THEN /\ strikeSources(Dissenters(reports, key), n)
             /\ DropBlock(n)
             /\ applyBlockEvent("chain", n, key)
             /\ UNCHANGED halted
      ELSE IF Cardinality(HeldBy(reports)) >= Cardinality(Active)
        THEN rejectBlockWithoutQuorum(n) /\ UNCHANGED <<penalties, jobs>>
      ELSE /\ held' = [held EXCEPT ![n] = reports]
           /\ timer' = IF timer[n] = NoReport THEN [timer EXCEPT ![n] = r] ELSE timer
           /\ UNCHANGED <<strictBlocks, penalties, halted, jobs>>

\* A variant: the next block and a block beyond it are told apart by nothing
handleBlock_NoGap(s, n, r) ==
  /\ IF n <= tip \/ s \in evicted THEN UNCHANGED <<blockVars, penalties, halted, jobs>>
     ELSE handleBlockQuorum(s, n, r)
  /\ UNCHANGED passVars

\* handleBlock: a duplicate, a gap, or the next block
handleBlock(s, n, r) ==
  \/ /\ n <= tip
     /\ UNCHANGED <<blockVars, penalties, halted, jobs, passVars>>
  \/ /\ n > tip + 1
     /\ incrementalCatchUp("chain")
     /\ UNCHANGED <<blockVars, penalties, halted, jobs>>
  \/ /\ n = tip + 1
     /\ IF s \in evicted THEN UNCHANGED <<blockVars, penalties, halted, jobs>>
        ELSE handleBlockQuorum(s, n, r)
     /\ UNCHANGED passVars

---------------------------------------------------------------------------
(* Events of the sources *)

\* A variant: events are handled beside each other
Receiving_Any(s) == halted = "" /\ s \notin down

\* The message handler waits for the event before this one
Receiving(s) == halted = "" /\ s \notin down /\ ChainWork = {}

\* The next block of a source arrives
Deliver(s) ==
  /\ Receiving(s) /\ pos[s] < MaxHeight
  /\ pos' = [pos EXCEPT ![s] = @ + 1]
  /\ \E r \in Honest(pos[s] + 1) : handleBlock(s, pos[s] + 1, r)
  /\ UNCHANGED <<strict, dissent, down, faults, chainVars, tailVars, late>>

\* handleWebSocketClose: the stream of a source closes and its next block is lost
Lose(s) ==
  /\ Fault /\ pos[s] < MaxHeight
  /\ pos' = [pos EXCEPT ![s] = @ + 1]
  /\ down' = down \union {s}
  /\ UNCHANGED <<strict, dissent, chainVars, blockVars, penalties, halted, jobs, passVars,
                 tailVars, late>>

\* handleWebSocketOpen: the catch-up of a stream that is back runs beside the event chain
Reopen(s) ==
  /\ s \in down \ evicted
  /\ down' = down \ {s}
  /\ incrementalCatchUp("recovery")
  /\ UNCHANGED <<strict, dissent, pos, faults, chainVars, blockVars, penalties, halted, jobs,
                 tailVars, late>>

\* A source that is not honest reports its next block
Misreport(s) ==
  /\ s \in dissent /\ Receiving(s) /\ pos[s] < MaxHeight
  /\ pos' = [pos EXCEPT ![s] = @ + 1]
  /\ \E r \in Faulty : handleBlock(s, pos[s] + 1, r)
  /\ UNCHANGED <<strict, dissent, down, faults, chainVars, tailVars, late>>

\* handleEvent for a status: a height beyond the next block starts a catch-up
Status(s) ==
  /\ Receiving(s) /\ s \notin evicted
  /\ pos[s] > tip + 1
  /\ incrementalCatchUp("chain")
  /\ UNCHANGED <<strict, sourceVars, faults, chainVars, blockVars, penalties, halted, jobs,
                 tailVars, late>>

---------------------------------------------------------------------------
(* Timers *)

\* A variant: strict confirmation is not asked for
BlockTimeout_Lax(n) ==
  /\ timer[n] # NoReport
  /\ timer' = [timer EXCEPT ![n] = NoReport]
  /\ applyBlockEvent("timer", n, timer[n])
  /\ UNCHANGED <<strict, sourceVars, faults, chainVars, held, strictBlocks, penalties, halted,
                 passVars, tailVars, late>>

\* armBlockQuorumTimer's callback
BlockTimeout(n) ==
  LET key == voteKey(held[n], timer[n])
  IN
  /\ timer[n] # NoReport
  /\ IF held[n] = EmptyReports \/ tip >= n
       THEN /\ timer' = [timer EXCEPT ![n] = NoReport]
            /\ UNCHANGED <<held, strictBlocks, halted, jobs>>
     ELSE IF strict
       THEN /\ timer' = [timer EXCEPT ![n] = NoReport]
            /\ strictBlocks' = strictBlocks \union {n}
            /\ UNCHANGED <<held, halted, jobs>>
     ELSE IF Cardinality(Keys(held[n])) > 1
       THEN rejectBlockWithoutQuorum(n) /\ UNCHANGED jobs
     ELSE /\ timer' = [timer EXCEPT ![n] = NoReport]
          /\ IF key \in Keys(held[n])
               THEN applyBlockEvent("timer", n, key) /\ UNCHANGED held
               ELSE held' = [held EXCEPT ![n] = EmptyReports] /\ UNCHANGED jobs
          /\ UNCHANGED <<strictBlocks, halted>>
  /\ UNCHANGED <<strict, sourceVars, faults, chainVars, penalties, passVars, tailVars, late>>

---------------------------------------------------------------------------
(* The application of a block *)

Ends(j) == jobs' = jobs \ {j}

\* What a timer does after its block, applied or not: the reports it acted on are dropped
AfterJobs(done) ==
  /\ held' = [h \in Heights |-> IF \E j \in done : j.by = "timer" /\ j.n = h
                                THEN EmptyReports ELSE held[h]]
  /\ UNCHANGED <<timer, strictBlocks, halted>>

\* applyBlock in its transaction: a block that is there already is skipped, and a
\* transaction that fails leaves nothing
Apply(j) ==
  /\ j.do = "apply"
  /\ \/ /\ IF applied[j.n] = NoReport
             THEN /\ applied' = [applied EXCEPT ![j.n] = <<j.b, j.st>>]
                  /\ via' = [via EXCEPT ![j.n] = IF j.by = "chain" THEN "quorum" ELSE "timer"]
             ELSE UNCHANGED <<applied, via>>
        /\ jobs' = (jobs \ {j}) \union {[j EXCEPT !.do = "verify"]}
        /\ UNCHANGED <<blockVars, halted, faults>>
     \/ Fault /\ Ends(j) /\ AfterJobs({j}) /\ UNCHANGED <<applied, via>>
  /\ UNCHANGED <<strict, sourceVars, tip, penalties, passVars, tailVars, late>>

\* finishAppliedBlock, advanceVerifiedTip and clearAppliedBlockWork
Finish(j) ==
  /\ tip' = j.n
  /\ verified' = Max({verified, j.n})
  /\ held' = [h \in Heights |-> IF h <= j.n THEN EmptyReports ELSE held[h]]
  /\ timer' = [h \in Heights |-> IF h <= j.n THEN NoReport ELSE timer[h]]
  /\ UNCHANGED <<strictBlocks, halted>>

\* What the state hash of a block says of the rows: below the stored tip later blocks
\* have changed rows it covers, or not
StateDiffers(r, h) ==
  \/ r[1] # Other /\ r[2] = 2 /\ UNCHANGED late
  \/ r[2] # 0 /\ Top > h /\ late' = TRUE

StateAgrees(r) == r[1] = Other \/ r[2] # 2

\* The rest of applyAndVerifyBlock; a query that fails leaves the block unverified and
\* the cursor below it
Verify(j) ==
  LET sound == applied[j.n][1] = j.b /\ Links(j.b, j.n)
  IN
  /\ j.do = "verify"
  /\ \/ ~sound /\ Halt("recompute") /\ UNCHANGED <<tip, verified, late, faults>>
     \/ /\ sound /\ StateDiffers(<<j.b, j.st>>, j.n)
        /\ Halt("state") /\ UNCHANGED <<tip, verified, faults>>
     \/ sound /\ StateAgrees(<<j.b, j.st>>) /\ Finish(j) /\ UNCHANGED <<late, faults>>
     \/ Fault /\ AfterJobs({j}) /\ UNCHANGED <<tip, verified, late>>
  /\ Ends(j)
  /\ UNCHANGED <<strict, sourceVars, applied, via, penalties, passVars, walk>>

---------------------------------------------------------------------------
(* The catch-up pass *)

\* The pass asks for the walk, which a halt in force refuses
AskWalk(step, since, cursor) ==
  IF halted = "" THEN pass' = [pass EXCEPT !.do = step, !.since = since] /\ UNCHANGED pending
  ELSE EndPass(cursor)

\* runIncrementalCatchUp reads the stored tip, or fails
PassTip ==
  /\ pass.do = "tip"
  /\ UNCHANGED <<strict, sourceVars, chainVars, blockVars, penalties, halted, jobs, tailVars, late>>
  /\ \/ AskWalk("tail", Top + 1, tip) /\ UNCHANGED faults
     \/ Fault /\ EndPass(tip)

\* What becomes of a stored block when a range brings it again: the row of the block is
\* replaced, rows of tables without a key are there twice
Rewritten(h) == IF applied[h][1] = Mixed THEN {Mixed} ELSE {One, Mixed}

\* The range of the primary source, which may have more than it streamed, lands in one
\* transaction above the tip that was read, whatever has been stored since, and the cursor
\* follows before anything else runs; or it fails: there is nothing newer, a key is there,
\* or the transfer or a query fails
Fetch ==
  /\ pass.do = "fetch"
  /\ UNCHANGED <<strict, sourceVars, blockVars, penalties, halted, jobs, tailVars, late>>
  /\ \/ \E top \in pass.since .. MaxHeight :
          /\ top >= pos[primarySource]
          /\ \E b \in [pass.since .. top -> {One, Mixed}] :
               /\ \A h \in pass.since .. top :
                    b[h] \in IF h \in Stored THEN Rewritten(h) ELSE {One}
               /\ applied' = [h \in Heights |->
                              IF h \in DOMAIN b THEN <<b[h], 1>> ELSE applied[h]]
          /\ via' = [h \in Heights |-> IF h \in pass.since .. top THEN "catchup" ELSE via[h]]
          /\ tip' = top
          /\ AskWalk("audit", 0, top) /\ UNCHANGED faults
     \/ /\ UNCHANGED chainVars
        /\ IF pass.since > pos[primarySource] \/ pass.since <= Top THEN UNCHANGED faults
           ELSE Fault
        /\ EndPass(tip)

---------------------------------------------------------------------------
(* The walk over the unverified tail: before a block that finds the marker away from the *)
(* cursor, before a range and after it                                                   *)

Blocked == {j \in jobs : j.do = "tail"}
PassWaits == pass.do \in {"tail", "audit"}

\* The walk ends: those who wait for it go on when it found the tail verified
Return(ok) ==
  /\ walk' = {}
  /\ jobs' = IF ok THEN (jobs \ Blocked) \union {[j EXCEPT !.do = "apply"] : j \in Blocked}
             ELSE jobs \ Blocked
  /\ IF ok /\ pass.do = "tail" THEN pass' = [pass EXCEPT !.do = "fetch"] /\ UNCHANGED pending
     ELSE IF PassWaits THEN EndPass(tip)
     ELSE UNCHANGED passVars

Held == Fault /\ AfterJobs(Blocked) /\ Return(FALSE) /\ UNCHANGED <<verified, late>>

\* walkUnverifiedTail reads the stored tip, which leaves it nothing to do or the blocks
\* above the marker, or fails
WalkTip ==
  /\ walk = {} /\ (Blocked # {} \/ PassWaits)
  /\ \/ /\ Top <= verified
        /\ UNCHANGED <<blockVars, halted, verified, late, faults>>
        /\ Return(TRUE)
     \/ /\ Top > verified
        /\ walk' = verified + 1 .. Top
        /\ UNCHANGED <<blockVars, halted, jobs, passVars, verified, late, faults>>
     \/ Held
  /\ UNCHANGED <<strict, sourceVars, chainVars, penalties>>

\* verifyCommittedRange: each of the blocks is recomputed, at the tip that was read the
\* state hash too; a query that goes on failing halts or holds the replica
Walk ==
  LET bad == {h \in walk : applied[h] = NoReport \/ ~Links(applied[h][1], h)}
      end == Max(walk)
  IN
  /\ walk # {}
  /\ \/ /\ bad # {}
        /\ Halt("recompute") /\ Return(FALSE)
        /\ verified' = Max({verified, Min(bad) - 1}) /\ UNCHANGED <<late, faults>>
     \/ /\ bad = {} /\ StateDiffers(applied[end], end)
        /\ Halt("state") /\ Return(FALSE)
        /\ verified' = Max({verified, end - 1}) /\ UNCHANGED faults
     \/ /\ bad = {} /\ StateAgrees(applied[end])
        /\ verified' = Max({verified, end})
        /\ UNCHANGED <<blockVars, halted, late, faults>>
        /\ Return(TRUE)
     \/ Held
     \/ Fault /\ Halt("fault") /\ Return(FALSE) /\ UNCHANGED <<verified, late>>
  /\ UNCHANGED <<strict, sourceVars, chainVars, penalties>>

---------------------------------------------------------------------------
Init ==
  /\ strict \in BOOLEAN
  /\ dissent \in {k .. N : k \in N - Quorum + 2 .. N + 1}
  /\ pos = [s \in Sources |-> 0]
  /\ tip = 0
  /\ applied = [h \in Heights |-> NoReport] /\ via = [h \in Heights |-> ""]
  /\ held = [h \in Heights |-> EmptyReports] /\ timer = [h \in Heights |-> NoReport]
  /\ strictBlocks = {}
  /\ strikes = [s \in Sources |-> <<>>] /\ evicted = {}
  /\ halted = "" /\ jobs = {} /\ faults = 0 /\ late = FALSE
  /\ down = {} /\ pass = NoPass /\ pending = FALSE /\ walk = {} /\ verified = 0

Next ==
  \/ \E s \in Sources : Deliver(s) \/ Lose(s) \/ Reopen(s) \/ Misreport(s) \/ Status(s)
  \/ \E h \in Heights : BlockTimeout(h)
  \/ \E j \in jobs : Apply(j) \/ Verify(j)
  \/ PassTip \/ Fetch \/ WalkTip \/ Walk

Spec == Init /\ [][Next]_vars

---------------------------------------------------------------------------
(* Properties *)

\* A block that came by a quorum (handleBlockQuorum) is one an honest source has, as long as
\* fewer sources than the quorum are not honest, whatever was evicted and re-tallied before;
\* under HASH_CONFIRM_STRICT so is every block the live stream brought.
Vouched ==
  \A h \in Stored : applied[h][1] = Other => ~strict /\ via[h] = "timer"

\* No honest source is struck or evicted by strikeSource, not
\* even for the null state hash it ships below its burst tip.
HonestKept ==
  \A s \in Sources \ dissent : strikes[s] = <<>> /\ s \notin evicted

\* With honest sources no verdict halts the replica, through every order of deliveries,
\* timeouts, catch-ups and walks, unless a state hash was recomputed below the stored tip
\* (haltOnLiveStateHashDivergence, evaluateStoredStateHash) or a range landed on blocks
\* already stored (applyIncrementalSnapshot); a walk whose queries fail stops it on purpose.
HaltsForCause ==
  dissent = {} /\ ~late /\ (\A h \in Stored : applied[h][1] # Mixed) => halted \in {"", "fault"}

\* A height that timed out under HASH_CONFIRM_STRICT is not filled by catch-up ("A height
\* recorded here blocks single-source catch-up until the block is confirmed by a second
\* source over the live stream", client/sync.js).
StrictGateHolds == \A h \in strictBlocks \cap Stored : via[h] # "catchup"

\* With honest sources no state hash halts the replica ("halts are reserved for
\* genuine DATA divergence", client/sync.js).
StateHaltsMeanDivergence == dissent = {} => halted # "state"

====
