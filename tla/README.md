# A TLA+ model of xchain-sync

xchain-sync replicates the databases of an XChain indexer or decoder. A **server** polls
a source database, keeps a public log of the blocks it has streamed, and serves snapshots,
proofs and a WebSocket stream. A **client** bootstraps a replica from one or several
servers, follows their streams, recomputes the hashes of what it applied, rolls back when
the source reorganises, and halts when the data does not agree with itself. Both are
single-threaded Node.js processes: everything between two `await`s is atomic, everything
across one can be interleaved with any other handler or timer, and the process can die at
any of them. That is the grain of all modules here: **a step is the code between two
awaits**.

Paths in this file are relative to `src/src/` unless they say otherwise.

## 1. Inventory

| part | code | state | operations |
|---|---|---|---|
| Verified-tip marker | `client/verified_tip.js`, `client/sync.js` | `_verifiedTip`, `sync_state verified_tip:*`, write chain `_markerWrites`, row generation | load, raise, lower, seed, tail walk |
| Block, reorg and catch-up handlers | `client/sync.js` | stored rows, `lastAppliedBlock`, apply lock, event chain, in-flight pass | live block, reorg, catch-up, full bootstrap, start, crash |
| Rollback-depth guard | `client/rollback_guard.js`, `client/sync.js` | streak (peak, low) and its copy in `sync_state` | check, record, expire, reset, load |
| Halt and its persistence | `client/halt_persistence.js`, `db/sync_halt.js`, `client/sync.js`, `api.js` | `_halted`, `_haltDurable`, row in `sync_halt`, copy in `sync_state`, retry timer | raise, write, copy, retry, clear, start |
| Block quorum | `client/sync.js` | `pendingHashes`, `_applyTimers`, strikes, evictions, strict heights | report, tally, accept, reject, time out, evict, catch up |
| Reorg quorum | `client/sync.js` | `_pendingReorgs` and timers | vote, time out, agree, prune |
| Stream | `client/sync.js` | sockets, reconnect timers, watchdog | connect, lose, reconnect, probe |
| Bootstrap | `client/sync.js` | sources tried, page cursor, wiped replica | full and truncated bootstrap, retry |
| Applier and rollback of rows | `client/applier.js`, `client/rollback.js` | table rows | apply block, snapshot, replacement; delete, restore |
| Checkpoints and pinned validators | `checkpoint.js`, `client/pinned_validators.js`, `consensus/stake_weighted_quorum.js` | anchor, validator set | verify, advance, rotate |
| Poll loop | `server/poller.js` | cursor, guard hash, recent hashes | poll, find the fork, announce, stream, restart |
| Transparency log | `server/transparency_log.js` | `sync_meta`, `merkle_epochs`, `merkle_reorgs` | record, commit epoch, prune, retain, backfill, prove |
| Merkle trees, state commitment | `server/merkle_tree.js`, `merkle.js`, `state_commitment/` | none (pure) / tree nodes | root, proof, verify, incremental update |
| Broadcaster, snapshot builder, API, service | `server/block_broadcaster.js`, `server/snapshot_builder.js`, `api.js`, `sync_service.js` | subscriptions, back-pressure, limits | subscribe, heartbeat, build, drain |
| Gates, schema, database layer, utilities | `consensus/`, `schema/`, `table_lifecycle/`, `db/` | tables of settings | reads |

`PROJECT.json` lists every part with the files it is made of, and a reason for each one
that is not modelled.

**Interactions.** The poll loop writes the log and hands blocks and reorgs to the
broadcaster; the stream delivers them to the client, whose event chain hands them to the
quorum (several sources) or directly to the apply and reorg handlers; these consult the
marker before they build on a block, the guard before they rewind, and the halt before
they do anything. Catch-up and bootstrap bypass the stream and write beside it, under the
apply lock or without it. A start rebuilds all of this from `sync_state`, `sync_halt` and
the stored tip.

**What makes it hard.** Values read before an await and used after it (the tip of a
catch-up, the depth of a rollback, the strict gate, the hash of the poll); a verdict
computed from rows that are being replaced; writes that land after a later one was issued;
queries whose failure is swallowed; a crash between two writes that belong together; timers
that run beside the event chain; a long legal sequence (a deep rewind in shallow steps).
The `hazards` of `PROJECT.json` name each one at its line with the property that watches it.

**What must hold.** The marker vouches only for recomputed blocks; nothing is built on an
unverified one; a rewind is bounded however it is split; a halt outlives crashes until an
operator acknowledges it, and its write is retried; a reorganisation of the source is
found; a proof served verifies, and no root disappears without an audit row; a quorum
applies only what an honest source has, does not punish honest sources, and halts only for
a cause.

## 2. Plan

Order of work, and what it will be checked for. Items 1 to 5 are done.

1. `VerifiedTip` with `VerifiedTipTypes`, `VerifiedTipParts`, `VerifiedTipProofs`: marker and
   replica lifecycle. Heights 1..3.
2. `RollbackGuard`, `RollbackGuardProofs`. Heights 0..4, limit 2.
3. `HaltPersistence`. Two blocks, two halts per process, two operators.
4. `TransparencyLog` and `Poller`, which composes the log with the poll loop and the source.
5. `SourceQuorum`: votes on blocks of several sources.
6. `ReorgQuorum`: votes on reorganisations, their timers, strict and retroactive
   admission; votes kept only for stored heights.
7. `Stream`: reconnect timers, watchdog, decoder link. Liveness: a
   block announced is eventually applied, with fairness of timers and status events.
8. `Bootstrap`, `Applier`, `Rollback`: a crash inside a full snapshot, retries over
   sources; apply and rollback as inverse operations on table classes.
9. Pure operators against a reference definition: the log's Merkle tree and proofs, the
   incremental state commitment, the stake-weighted threshold.
10. `Checkpoint`, `Broadcaster`, `Snapshot`, `Service`, train gate, migration runner.
11. An abstract `Replication` (a follower's chain is a prefix of the source's, up to
    announced reorganisations) and the composition of `Poller` with a client shown to
    implement it.
12. Proofs: `HaltStands` and `DurableIsRecorded`, `ProofsVerify` and `RootsAreAudited`,
    `Vouched` and `HonestKept`, then the refinement of item 11.

Where two runs of a component ask related questions they will be folded together as the
later modules bring runs of their own.

## 3. Conventions

* Variables carry the names of the code's fields where TLA+ allows it; the comment beside
  each names the field or table. `PROJECT.json` maps every definition to its lines.
* Blocks are their heights, with what the properties tell apart: `VerifiedTip` has rows
  that came with a trusted snapshot, reproduce their hashes, or do not; `Poller` names a
  block by its branch; `SourceQuorum` has the block of the honest sources and another one.
* Nulls are small negative numbers or 0, named (`Unset`, `Unloaded`, `Null`, `None`).
* A query that can fail has a disjunct in which it does, with what the caller makes of it:
  an exception, a swallowed error, or an empty result.
* **Departures.** Some interleavings break a guarantee because the code does not guard
  them. They are not cut out of the model: the step is there, and a history variable
  (`unguarded`, `forgot`, `late`) records its *kind*. A passing property is stated for
  behaviours without such a step (`Guarded`, `Kept`): the kinds named below are the
  assumption under which it is checked and proved. They are the ones this model, at its
  grain, turned up; what a module's abstractions leave out could hold another. Where a comment
  of the code claims more than the guarded property, a run of its own admits the kinds in
  question and shows the claim violated. The constraint
  of a passing run stops exploring after a departure, where its properties claim nothing.
* Definitions named `X_Word` are mutants of `X`, each a plausible slip in the code of `X`
  that makes the property it is listed for fail. No specification uses them.

## 4. Modules

### VerifiedTip

One recompute-verifying, full-history indexer replica with one source. Durable state:
`rows` (what is committed at each height), `marker` (`verified_tip:indexer`), `haltRow`.
In memory: `vtip` (`_verifiedTip`), `lastApplied`, the marker write in flight, and the
program counters and locals of four activities that interleave freely:

| actions | code |
|---|---|
| `WalkTip`, `WalkMarker`, `WalkLoad`, `WalkLoaded`, `WalkSeed` | `walkUnverifiedTail` up to its range, `loadVerifiedTip`, `seedVerifiedTip` |
| `WalkRead`, `WalkJudge`, `WalkPersist`, `WalkEnd` | `verifyCommittedWindow`, `persistVerifiedTip`, `settleUnverifiedBlock` |
| `LiveStart` ... `LiveAdvance` | `applyAndVerifyBlock`, `liveBlockBlockedByUnverifiedTail`, `advanceVerifiedTip` |
| `ReorgStart` ... `ReorgClose`, `ReorgFail` | `handleReorg`, `applyReorgRollback`, `lowerVerifiedTip` |
| `CatchUpStart`, `CatchUpTip`, `CatchUpSince` ... `CatchUpAudit`, `BootApply` ... `BootFail` | `runIncrementalCatchUp`, the full bootstrap it falls back to, `adoptVerifiedTip` |
| `StartSync`, `Follow`, `Restart`, `ClearHalt`, `MarkerWriteDone` | start, live-follow, crash and restart, operator, the database |

A row generation is only ever compared with a value captured earlier, so a capture is
`"same"` until a bump makes it `"moved"`: the counter is unbounded in the code and two-valued
here without loss.

A catch-up range starts above the tip that was read and lands on whatever is stored by then.
A block of it that is there already is rewritten: `insertRows` deletes and inserts the
`blocks` row and adds the rows of tables without a key a second time, so the new content is
a free choice of `good` and `bad`; or a key collides and the whole range is abandoned.

*Abstractions.* A range is verified as one window; the retry after a heal of a catch-up is
the end of one pass and the start of another; the pending key an earlier build may have left
(`LEGACY_PENDING_PREFIX`) and the base of a truncated replica do not exist; triggers folded
into a pass are in `SourceQuorum`.
*Departures* (`unguarded`): `range`, a range committed on a tip read before a removal;
`overlap`, a range committed over blocks stored since its tip was read; `adopt`, a snapshot
tip adopted after a removal; `cursor`, a live block verified before one becomes the memory
tip; `snapshot`, a full snapshot that ends below the stored tip; `memory`, a walk or a pass
sets the memory marker, from a tip or marker it read earlier, below the stored marker or above
one lowered since; `join`, a catch-up takes the verdict of a walk whose tip was read before the
blocks it resumes from; `write`, the fail-soft write of an adopted tip lost while the stored
marker is absent or higher.

### RollbackGuard

The streak in memory (`peak`, `low`) and saved (`savedPeak`, `savedLow`), the stored and the
in-memory tip, two reorg handlers (the event chain and a quorum timer: `ReorgCheck`,
`ReorgLock`, `ReorgRecord`, `ReorgDelete`, `ReorgClose`), a live block and a catch-up pass
(`BlockStart`, `BlockApply`, `CatchUpApply`, `SnapshotApply`, `Advance`), the operator's
clear and restarts. `high` is history: the highest block held since the streak was last
given up on purpose. Block 0 is never rewound; which deep rewinds a retroactive quorum
admits is a free choice.
*Departures* (`forgot`): `late`, the depth was measured against a tip that changed before
the lock was free; `race`, a second handler ends the streak between record and new tip;
`ghost`, an applier sets the memory tip over rows already gone; `unspent`, the guard
recorded a rewind over the limit (admitted, or measured late) whose rows then stayed; `read`, the saved streak could not be read.

### HaltPersistence

Halts are objects of one process (`blockOf`), because the code compares them by identity.
`rows` and `copy` are the two durable places, `work` the writes in flight, `timer` the halt
the retry timer is for, `clearPc` an operator's clear in flight. `Raise`, `Write` ...
`DropCopy`, `TimerFires`, `Rewrite`, `Rewrote`, `ClearStart` ... `ClearDrop`, and the start
sequence `ReadHalt`, `RereadHalt`, `HeldEnds`, `RestoreCopy`, `Restored`, with `Restart` at
any point.
*Abstractions.* A query that reports an error changed nothing; rows repeated for one block
are one; concurrent retries of one object are one; a damaged copy and the halts of the
rollback guard are left out.
*Departures*: `late`, a step of a cleared halt finishes under the next one; `clear`, the
halt dropped is not the one the operator saw; `stale`, the durable flag put back after a
failed clear is out of date; `hidden`, a late row hides the halt recorded before it.

### TransparencyLog and Poller

`TransparencyLog` has the three tables and every statement that changes them: `InsertLeaf`,
`InsertEpoch`, `CompleteMarker`, `DeleteThrough` (retention), `InsertMarkers`,
`DeleteEpochs`, `DeleteFrom` (a prune), `FillGap`, `Recommit` (backfill), each of which may
miss (`hits`). A root is the function of leaves it was built from. `Poller` extends it with
the source chain (`SourceGrow`, `SourceReorg`) and the poll loop, one action per await:
cursor initialisation, REORG markers, the content-hash check, the walk back to the fork, the
prune, the announcement, the read snapshot, and per block leaf, root, audit marker,
retention and publication. `Restart` may come anywhere and is followed by the backfill.
`view` is what a follower connected throughout holds. The indexer and the decoder (no log,
no REORG events) are two initial states.
*Abstractions.* Blocks of the source are contiguous; every reorganisation of an indexer
writes a REORG event; the rewind target driven by rules is left out; the markers of one
prune are inserted in one step, as are a gap's leaf and an epoch's recommit; the
hundred-block cap may end a batch at any block; payloads have no content.
*Departures*: `race`, a batch read from a branch that does not continue the guarded block,
with nothing left to tell; `unread`, a failed hash read taken for an unchanged block;
`shallow`, the recorded hashes end above the fork; `lost`, a write of a prune fails
unnoticed; `audit`, a crash between a root and its audit marker.

### SourceQuorum

An indexer replica with several sources, of which fewer than a quorum are not honest.

| actions | code |
|---|---|
| `Deliver`, `Misreport`, `Status` | events of a source, handled one after the other by `handleBlock` and `handleBlockQuorum`: tally with null state hashes, acceptance, rejection, strikes, eviction and the re-tally after it |
| `Lose`, `Reopen` | `handleWebSocketClose`, `handleWebSocketOpen`: a stream that is back starts a catch-up beside the event chain |
| `BlockTimeout` | the fallback timer of `armBlockQuorumTimer` |
| `Apply`, `Verify` | `applyAndVerifyBlock`, for the event chain or for a timer |
| `PassTip`, `Fetch` | the one catch-up pass, `runIncrementalCatchUp` |
| `WalkTip`, `Walk` | the one walk over the unverified tail, which blocks and passes wait for |

All triggers share one pass (`pass`, `_catchUpInFlight`). One that comes during a pass sets
`pending`, and the pass is run again when it moved the cursor and nothing blocks catch-up
(`EndPass`). A live block that finds the marker away from the cursor waits for the walk and is
refused unless the walk ends well; an apply or a verification that fails leaves the block
unapplied or unverified and the cursor below it. A range may bring more than the source has
streamed, and may land on blocks stored since its tip was read: such a block is replaced or
left with the rows of both copies (`Mixed`), which reproduces no hash.

*Abstractions.* Votes on reorganisations are left to `ReorgQuorum`, the one a fork at the head
makes included; catch-up is served by an honest source; the commit of a range and the cursor
are one step (no await lies between them for a full-history replica); the awaits inside a walk
and the write of the marker are in `VerifiedTip`; strikes do not age, since the chain is
shorter than their window; whether a rejected height halts (`HALT_ON_DIVERGENCE`) is a free
choice; train activation, checkpoints and the bootstrap an oversized range falls back to are
left out; a halt ends the behaviour. `MaxFaults` bounds closed streams and failing queries
together.
*Departures*: `late`, a state hash is recomputed below the stored tip; a `Mixed` block is
stored.

## 5. Runs

Passing runs. The number of distinct states is TLC's; each finishes in under three minutes.

| run | bounds | states | what it shows |
|---|---|---|---|
| `verified_tip` | heights 1..3, write step 2 | 1,427,920 | `MarkerSoundWhileGuarded`: the marker, in memory and on disk, covers only blocks that were recomputed or came with the trusted snapshot. `AdvanceOnVerified`: nothing commits over an unverified block. |
| `rollback_guard` | heights 0..4, limit 2 | 292,765 | `DepthBounded`: no rollback goes deeper than the limit below the highest block held, however it is split over reorgs, failures and restarts. |
| `halt_persistence` | 2 blocks, 2 halts per process, 2 operators (symmetric) | 1,276,952 | `HaltStands`: a recorded halt stays in force until acknowledged. `DurableIsRecorded`: the durable flag is true only of a recorded halt. `RetryGoesOn`: an owed write has its retry. |
| `server_poller` | 4 heights, 3 branches, epochs of 2, retention 2, reorgs up to 2 deep, 3 recorded hashes | 984,264 | `ChangesAreFound`: when a poll has nothing to find, log and stream are the source's. `ProofsVerify`: a proof served is of the leaves under the root. `RootsAreAudited`: no root is taken back without its audit row. |
| `source_quorum` | 3 sources, quorum 2, one strike evicts, 2 heights, 1 fault | 1,271,133 | `Vouched`: a quorum applies only what an honest source has; under strict confirmation so does the live stream. `HonestKept`: honest sources are neither struck nor evicted. `HaltsForCause`: with honest sources no verdict halts the replica, unless a state hash was recomputed below the tip or a range landed on a stored block; a walk whose queries keep failing halts it on purpose. |

Runs that refute a statement of the repository. `findings` in `PROJECT.json` quotes it.

| run | statement | what happens |
|---|---|---|
| `catch_up_on_stale_tip` | a range begins strictly above committed data (`client/sync.js:1972`), and the marker covers only blocks whose rows reproduced their hashes (`client/verified_tip.js:19`) | a recovery catch-up reads the tip; a live block is applied, verified and covered by the marker; the range lands on it and the walk after it starts above the marker |
| `rollback_after_lost_read` | no failure falls back to an empty streak (`client/sync.js:4232`) | the read fault is swallowed below `loadRollbackGuardState`, the streak starts empty |
| `halt_retry_replaced` | the write is retried until it lands or the halt is cleared (`client/halt_persistence.js:27`) | the late failure of a cleared halt takes over the timer of the next one |
| `reorg_behind_the_check` | the hash comparison detects replacement blocks (`server/poller.js:311`) | the source reorganises between the comparison and the read snapshot |
| `prune_fault_unnoticed` | a fault propagates so that the prune is retried (`server/transparency_log.js:220`) | the deletes swallow it, the cursor is rewound, orphaned leaves stay |
| `halt_without_divergence` | halts are reserved for data divergence (`client/sync.js:3961`) | a timer verifies a block that a catch-up has since buried, and its state hash no longer recomputes |
| `strict_gate_overtaken` | a strict height blocks single-source catch-up (`client/sync.js:503`) | a catch-up let through before the timeout commits the height after it |

`catch_up_on_stale_tip` admits both ways in which the tip can move, up (`overlap`) and down
(`range`). The shortest counterexample is the one above. With `range` alone TLC finds a longer
one: a reorg leaves a range above a hole and a second one leaves the cursor above missing rows;
a walk on the empty replica answers ok, so a live block is applied there, a range lands below
it, and the live block's own `advanceVerifiedTip` writes a marker that covers a range block
nobody recomputed. A walk alone never carries the marker across a hole.

**Why the bounds are enough to be interesting.** Three heights hold a verified block, an
unverified one on it and one to build; write step 2 makes both a due and a skipped marker
write happen. With limit 2 and heights 0..4 a rewind can be split in three and the replica
can climb back part of the way. Two halts in one process are what a late write needs to meet
a successor; two operators can race. Four heights are two epochs, so that one can be
committed and retained while the other reorganises, and the third branch allows a
reorganisation during the handling of another. Three sources with quorum 2 allow one that is
not honest, and eviction leaves two, the least the code keeps; two heights give a gap, a
duplicate and a block above one that is held; one fault lets a stream close and its catch-up
run beside the events, or a query fail, and misreports are not counted. Reports are held only
at the next height and reorganisations are left out, so a timer never meets the report of a
source evicted since. Every action of the five modules is taken.

**Deadlock** is checked except in `source_quorum` and its two companions, where the bounded
chain comes to its end and a halt ends the behaviour.

**Fairness.** None is assumed and no liveness is claimed yet. `RetryGoesOn` is the safety
half of "the write is eventually retried": the timer is there. The liveness the code does
promise (following resumes after a lost socket or a coalesced trigger) rests on timers and
status events, and comes with the `Stream` module. Two waits the code leaves to an operator,
an unreadable halt copy at a start and a strict height nobody confirms, are hazards with a
note: no fairness of the code ends them.

## 6. Proofs

TLAPS checks 2,737 obligations. The theorems hold for every value of the constants under
the assumptions of the modules: `MaxHeight`, `WriteStep`, `MaxTip` and `MaxDepth` are
positive naturals.

**VerifiedTip.** `VerifiedTipTypes!TypeCorrect` (type invariant);
`VerifiedTipProofs!MarkerSoundness` (`Spec => []MarkerSoundWhileGuarded`) and
`NothingBuiltOnUnverified` (`Spec => AdvanceOnVerified`).
`MarkerSound` is not inductive: a walk raises the marker because of a verdict formed earlier,
so the invariant has to say what each activity may rely on while its generation stands.
`VerifiedTipParts!IInv` has these parts: `Ranges` and `Turns` (of `VerifiedTipTypes`) hold
always (cursor ranges; who excludes whom on the event chain and on the apply lock); `Shape` (no gap in what is stored,
cursors point into it), `Marker` (memory, disk and the write in flight are covered, and from
the lowering on all three lie below a rollback), `Loaded` (nobody compares with a marker not
read), `WaitSound` (what a live block or a pass that waits for a walk will find when it
returns), `WalkSound`, `LiveSound` and `CatchUpSound` (what a current generation guarantees to
a walk, a live block, a range) hold while guarded. An overlapping range is not excluded by the
invariant: it is a departure, and the proof shows that every other range starts above all that
is stored. `VerifiedTipParts` and
`VerifiedTipProofs` have one lemma per part and in it one step per action; `GuardedStep`
(a guarded state has only guarded predecessors) lets each lemma assume all parts before the
step.

**RollbackGuard.** `TypeCorrect`, `SpentDepthKnown` (`Spec => []StreakCovers`) and
`RollbackLimit` (`Spec => DepthBounded`). The strengthening says that one rollback holds the
lock (`Exclusive`), that it still is the one that was checked (`Checked`), that the memory
tip is not above the rows outside a rollback (`TipStored`), and that memory and database both
hold a streak that covers `high` unless the replica is back at it (`Streak`). The limit
follows from `Checked` at the deleting step.

**Only model-checked.** Everything about `HaltPersistence`, `Poller`, `TransparencyLog` and
`SourceQuorum`. Liveness and `ENABLED` are outside what the prover handles, as is what a
recursive definition computes for every input, and will stay with TLC.

## 7. Not modelled

The parts of section 2 from item 6 on. Beyond the plan: SQL projections and digests (block
hasher, updated rows, derived rewards), tables of activation heights, logging, metrics and
codecs, which have no state of their own that replication depends on. `PROJECT.json` gives
the reason for each.

## 8. Running

    tlc -config VerifiedTip.cfg VerifiedTip          # and likewise for the other cfgs
    tlc -config HaltPersistence.cfg MCHaltPersistence
    tlapm VerifiedTipProofs.tla                      # and the other modules with theorems
