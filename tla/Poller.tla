-------------------------------- MODULE Poller --------------------------------
(***************************************************************************)
(* The server's poll loop over one source database: it finds new blocks and *)
(* reorganisations of the source chain, keeps the transparency log in step  *)
(* and streams block and reorg events to the followers that are connected.  *)
(*                                                                          *)
(* The source (an indexer or decoder database) grows and reorganises        *)
(* between any two awaits of the loop, and the process may die at any of    *)
(* them.  A query that fails without { rethrow } reads as an empty result   *)
(* or an executed write.                                                    *)
(***************************************************************************)
EXTENDS TransparencyLog

CONSTANTS
  Reach,   \* the deepest reorganisation of the source
  HashCap  \* recentHashCap, at least Reach

ASSUME PollerAssumption == Reach \in Nat \ {0} /\ HashCap \in Nat /\ HashCap >= Reach

VARIABLES
  dbType,  \* "indexer" (with log and REORG markers) or "decoder"
  src,     \* blocks of the source, as the sequence of their branches
  branch,  \* the branch the source is on
  high,    \* the highest block the source ever had
  marker,  \* lowest block of the REORG events not read yet, 0 for none
  cursor,  \* lastPolledBlock, Unset for null
  guard,   \* lastPolledBlockHash, 0 for null
  recent,  \* recentBroadcastHashes, 0 where the map has no entry
  pc,      \* the await the loop stands at
  tip,     \* poll's currentBlock
  fork,    \* poll's forkBlock
  why,     \* the path that found the fork: "marker", "forward" or "drop"
  snap,    \* the read snapshot of streamNewBlocks
  gaps,    \* backfillGaps: blocks still to record
  redo,    \* backfillGaps: epochs still to recommit
  view,    \* what a follower connected throughout holds, 0 for nothing
  overlaid,\* the last snapshot did not continue the block the guard names
  unguarded \* first kind of step taken that the code does not guard against

sourceVars == <<src, branch, high>>
pollVars == <<cursor, guard, recent, tip, fork, why, snap, gaps, redo, view>>
vars == <<logVars, dbType, sourceVars, marker, pollVars, pc, overlaid, unguarded>>

PCs == {"backfill", "idle", "init", "markers", "check", "walk", "mark", "epochs",
        "meta", "announce", "open", "record", "commit", "complete", "retain", "publish"}

\* race: blocks of a new branch streamed on top of an old one, nothing left to tell
\* unread: a failed read taken for an empty one; shallow: the recorded hashes ran out
\* lost: a write of a prune that failed unnoticed; audit: a crash before a marker was completed
Kinds == {"none", "race", "unread", "shallow", "lost", "audit"}

TypeOK ==
  /\ LogTypeOK
  /\ dbType \in {"indexer", "decoder"}
  /\ src \in UNION {[1 .. n -> 1 .. MaxBranch] : n \in 1 .. MaxHeight}
  /\ branch \in 1 .. MaxBranch /\ high \in Len(src) .. MaxHeight
  /\ marker \in 0 .. MaxHeight /\ cursor \in Unset .. MaxHeight
  /\ guard \in Blocks /\ recent \in [Heights -> Blocks] /\ view \in [Heights -> Blocks]
  /\ pc \in PCs /\ tip \in 0 .. MaxHeight /\ fork \in 0 .. MaxHeight
  /\ why \in {"", "marker", "forward", "drop"} /\ Len(snap) \in 0 .. MaxHeight
  /\ gaps \subseteq Heights /\ redo \subseteq Epochs
  /\ overlaid \in BOOLEAN /\ unguarded \in Kinds
  /\ dbType = "decoder" => Recorded = {} /\ marker = 0

Flag(kind, p) == unguarded' = IF unguarded = "none" /\ p THEN kind ELSE unguarded

\* sourceBlockHash over a chain: 0 for a block it does not have
HashAt(chain, h) == IF h \in 1 .. Len(chain) THEN chain[h] ELSE 0
EmptyMap == [h \in Heights |-> 0]

\* poll's locals, at the end of a poll
LocalsEnd == tip' = 0 /\ fork' = 0 /\ why' = "" /\ snap' = <<>>

\* A read without rethrow answers with the hash or, on a failed query, with null
Reads(h) == {HashAt(src, h), 0}

---------------------------------------------------------------------------
(* The source *)

SourceGrow ==
  /\ Len(src) < MaxHeight
  /\ src' = Append(src, branch)
  /\ high' = IF Len(src') > high THEN Len(src') ELSE high
  /\ UNCHANGED <<logVars, dbType, branch, marker, pollVars, pc, overlaid, unguarded>>

\* The source rolls back to below f; an indexer writes a REORG event with it
SourceReorg(f) ==
  /\ branch < MaxBranch
  /\ f \in 2 .. Len(src) /\ f > high - Reach
  /\ src' = SubSeq(src, 1, f - 1)
  /\ branch' = branch + 1
  /\ marker' = IF dbType = "decoder" THEN 0
               ELSE IF marker = 0 THEN f ELSE Min({marker, f})
  /\ UNCHANGED <<logVars, dbType, high, pollVars, pc, overlaid, unguarded>>

---------------------------------------------------------------------------
(* Start *)

\* seedReorgWindow: the recorded hashes down from c without a hole
Suffix(f, c) ==
  [h \in Heights |-> IF h <= c /\ h > c - HashCap /\ \A k \in h .. c : f[k] # 0
                     THEN f[h] ELSE 0]

\* A variant: the window is seeded from the live source
Durable_Live == [h \in Heights |-> HashAt(src, h)]

\* What the window is seeded from: the log, or the decoder's own blocks
Durable == IF dbType = "indexer" THEN meta ELSE [h \in Heights |-> HashAt(src, h)]

\* The process dies and start() runs; "read" is whether the high-water mark was read
Restart(read) ==
  LET c == IF dbType = "decoder" THEN Len(src)
           ELSE IF read THEN HighWaterMark(meta) ELSE Unset
  IN  /\ cursor' = c
      /\ recent' = IF c = Unset THEN EmptyMap ELSE Suffix(Durable, c)
      /\ guard' = IF c = Unset THEN 0 ELSE Durable[c]
      /\ marker' = 0
      /\ gaps' = IF dbType = "indexer" THEN Gaps(Len(src)) ELSE {}
      /\ redo' = {}
      /\ pc' = IF gaps' = {} THEN "idle" ELSE "backfill"
      /\ view' = EmptyMap
      /\ LocalsEnd
      /\ overlaid' = FALSE
      /\ unguarded' = IF unguarded # "none" THEN unguarded
                      ELSE IF overlaid THEN "race"
                      ELSE IF c = Unset /\ Recorded # {} THEN "unread"
                      ELSE IF pc = "complete" /\ pending[EpochOf(cursor + 1)] # 0 THEN "audit"
                      ELSE "none"
      /\ UNCHANGED <<logVars, dbType, sourceVars>>

\* backfillGaps: one missing block, read from the live source
BackfillBlock(hits) ==
  /\ pc = "backfill" /\ gaps # {}
  /\ LET n == Min(gaps)
         b == HashAt(src, n)
     IN  /\ gaps' = gaps \ {n}
         /\ IF b = 0 THEN UNCHANGED <<logVars, redo>>
            ELSE /\ FillGap(n, b, hits)
                 /\ redo' = redo \union ({EpochOf(n)} \intersect Epochs)
  /\ UNCHANGED <<dbType, sourceVars, marker, cursor, guard, recent, tip, fork, why,
                 snap, view, pc, overlaid, unguarded>>

\* backfillGaps: the epochs the gaps touched, once they are full
BackfillEpochs(hits) ==
  /\ pc = "backfill" /\ gaps = {}
  /\ LET due == {e \in redo : EpochEnd(e) <= HighWaterMark(meta)}
     IN  IF due = {}
         THEN redo' = {} /\ pc' = "idle" /\ UNCHANGED logVars
         ELSE /\ Recommit(Min(due), hits)
              /\ redo' = due \ {Min(due)}
              /\ UNCHANGED pc
  /\ UNCHANGED <<dbType, sourceVars, marker, cursor, guard, recent, tip, fork, why,
                 snap, gaps, view, overlaid, unguarded>>

---------------------------------------------------------------------------
(* poll *)

\* getLastBlock; a fresh cursor takes the tip and reads its hash next
PollStart ==
  /\ pc = "idle"
  /\ IF cursor = Unset
     THEN cursor' = Len(src) /\ pc' = "init" /\ UNCHANGED tip
     ELSE tip' = Len(src) /\ pc' = "markers" /\ UNCHANGED cursor
  /\ UNCHANGED <<logVars, dbType, sourceVars, marker, guard, recent, fork, why, snap, gaps,
                 redo, view, overlaid, unguarded>>

initializePollCursor ==
  /\ pc = "init"
  /\ guard' \in Reads(cursor)
  /\ pc' = "idle"
  /\ UNCHANGED <<logVars, dbType, sourceVars, marker, cursor, recent, tip, fork, why,
                 snap, gaps, redo, view, overlaid, unguarded>>

\* A read with rethrow fails: poll throws and the loop starts it over
PollThrows ==
  /\ pc \in {"markers", "record"}
  /\ pc' = "idle"
  /\ LocalsEnd
  /\ UNCHANGED <<logVars, dbType, sourceVars, marker, cursor, guard, recent, gaps, redo,
                 view, overlaid, unguarded>>

\* pruneFrom is a no-op without a log
PruneStep == IF dbType = "indexer" THEN "mark" ELSE "announce"

handleReorgMarkers ==
  /\ pc = "markers"
  /\ marker' = 0
  /\ IF marker # 0 /\ marker <= cursor
     THEN fork' = marker /\ why' = "marker" /\ pc' = PruneStep /\ tip' = 0
     ELSE pc' = "check" /\ UNCHANGED <<fork, why, tip>>
  /\ UNCHANGED <<logVars, dbType, sourceVars, cursor, guard, recent, snap, gaps,
                 redo, view, overlaid, unguarded>>

\* handleNetForwardReorg's comparison, and where poll goes on without one
CheckHash(hash) ==
  /\ pc = "check"
  /\ hash \in Reads(cursor)
  /\ IF guard # 0 /\ hash # 0 /\ hash # guard
     THEN fork' = cursor /\ why' = "forward" /\ pc' = "walk"
     ELSE IF tip < cursor
     THEN fork' = tip + 1 /\ why' = "drop" /\ pc' = "walk"
     ELSE pc' = (IF cursor < tip THEN "open" ELSE "idle") /\ UNCHANGED <<fork, why>>
  /\ tip' = 0
  /\ Flag("unread", hash # HashAt(src, cursor) /\ HashAt(src, cursor) # guard)
  /\ UNCHANGED <<logVars, dbType, sourceVars, marker, cursor, guard, recent, snap,
                 gaps, redo, view, overlaid>>

Held(h) == meta[h] # 0 \/ view[h] # 0

\* resolveForkPoint: one height down the recorded hashes
resolveForkPoint(hash) ==
  LET below == fork - 1
      known == below >= 1 /\ recent[below] # 0
      deeper == known /\ hash # 0 /\ hash # recent[below]
  IN  /\ pc = "walk"
      /\ hash \in Reads(below)
      /\ fork' = IF deeper THEN below ELSE fork
      /\ pc' = IF deeper THEN "walk" ELSE PruneStep
      /\ unguarded' = IF unguarded # "none" THEN unguarded
                      ELSE IF known /\ hash # HashAt(src, below)
                              /\ HashAt(src, below) # recent[below] THEN "unread"
                      ELSE IF ~known /\ \E h \in 1 .. below : Held(h) THEN "shallow"
                      ELSE "none"
      /\ UNCHANGED <<logVars, dbType, sourceVars, marker, cursor, guard, recent, tip, why,
                     snap, gaps, redo, view, overlaid>>

\* pruneFrom, a query at a time; a query that fails does not stop it
PruneMarkers(hits) ==
  /\ pc = "mark" /\ InsertMarkers(fork, hits) /\ pc' = "epochs"
  /\ Flag("lost", ~hits)
  /\ UNCHANGED <<dbType, sourceVars, marker, pollVars, overlaid>>

PruneEpochs(hits) ==
  /\ pc = "epochs" /\ DeleteEpochs(fork, hits) /\ pc' = "meta"
  /\ Flag("lost", ~hits)
  /\ UNCHANGED <<dbType, sourceVars, marker, pollVars, overlaid>>

PruneLeaves(hits) ==
  /\ pc = "meta" /\ DeleteFrom(fork, hits) /\ pc' = "announce"
  /\ overlaid' = (overlaid /\ why # "marker")
  /\ Flag("lost", ~hits)
  /\ UNCHANGED <<dbType, sourceVars, marker, pollVars>>

\* broadcastReorg, the cursor below the fork, and the guard for it
broadcastReorg(hash) ==
  LET c == fork - 1
      known == c >= 1 /\ recent[c] # 0
  IN  /\ pc = "announce"
      /\ hash \in Reads(c)
      /\ view' = [h \in Heights |-> IF h >= fork THEN 0 ELSE view[h]]
      /\ cursor' = c
      /\ guard' = IF known THEN recent[c] ELSE IF why = "forward" THEN 0 ELSE hash
      /\ pc' = "idle"
      /\ LocalsEnd
      /\ Flag("unread", ~known /\ hash # HashAt(src, c))
      /\ UNCHANGED <<logVars, dbType, sourceVars, marker, recent, gaps, redo, overlaid>>

---------------------------------------------------------------------------
(* streamNewBlocks *)

nextBlock == cursor + 1

\* A variant: a decoder's blocks are recorded too
RecordStep_Always == "record"

RecordStep == IF dbType = "indexer" THEN "record" ELSE "publish"

\* beginReadSnapshot pins the source for the batch
OpenSnapshot ==
  LET streams == cursor < Len(src)
      breaks == streams /\ guard # 0 /\ HashAt(src, cursor) # guard
  IN  /\ pc = "open"
      /\ snap' = IF streams THEN src ELSE <<>>
      /\ pc' = IF streams THEN RecordStep ELSE "idle"
      /\ overlaid' = (overlaid \/ (breaks /\ dbType = "indexer"))
      /\ Flag("race", breaks /\ dbType = "decoder")
      /\ UNCHANGED <<logVars, dbType, sourceVars, marker, cursor, guard, recent, tip, fork,
                     why, gaps, redo, view>>

RecordLeaf(hits) ==
  /\ pc = "record" /\ InsertLeaf(nextBlock, snap[nextBlock], hits)
  /\ pc' = IF Boundary(nextBlock) THEN "commit" ELSE "publish"
  /\ UNCHANGED <<dbType, sourceVars, marker, pollVars, overlaid, unguarded>>

CommitEpoch(hits) ==
  /\ pc = "commit" /\ InsertEpoch(EpochOf(nextBlock), hits)
  /\ pc' = IF roots[EpochOf(nextBlock)] = NoRoot /\ RootToCommit(meta, EpochOf(nextBlock)) # NoRoot
           THEN "complete" ELSE "retain"
  /\ UNCHANGED <<dbType, sourceVars, marker, pollVars, overlaid, unguarded>>

CommitMarker(hits) ==
  /\ pc = "complete" /\ CompleteMarker(EpochOf(nextBlock), hits) /\ pc' = "retain"
  /\ Flag("lost", ~hits /\ pending[EpochOf(nextBlock)] # 0)
  /\ UNCHANGED <<dbType, sourceVars, marker, pollVars, overlaid>>

Retain(hits) ==
  /\ pc = "retain" /\ DeleteThrough(hits) /\ pc' = "publish"
  /\ UNCHANGED <<dbType, sourceVars, marker, pollVars, overlaid, unguarded>>

\* publishBlockPayload and the cursor; the hundred-block cap may end the batch
publishBlockPayload ==
  /\ pc = "publish"
  /\ view' = [view EXCEPT ![nextBlock] = snap[nextBlock]]
  /\ guard' = snap[nextBlock]
  /\ recent' = [h \in Heights |-> IF h = nextBlock THEN snap[nextBlock]
                                  ELSE IF h = nextBlock - HashCap - 1 THEN 0 ELSE recent[h]]
  /\ cursor' = nextBlock
  /\ \/ pc' = "idle" /\ LocalsEnd
     \/ nextBlock < Len(snap) /\ pc' = RecordStep /\ UNCHANGED <<tip, fork, why, snap>>
  /\ UNCHANGED <<logVars, dbType, sourceVars, marker, gaps, redo, overlaid, unguarded>>

---------------------------------------------------------------------------

Init ==
  /\ LogInit
  /\ dbType \in {"indexer", "decoder"}
  /\ src = <<1>> /\ branch = 1 /\ high = 1 /\ marker = 0
  /\ cursor = (IF dbType = "decoder" THEN 1 ELSE Unset)
  /\ guard = (IF dbType = "decoder" THEN 1 ELSE 0)
  /\ recent = [h \in Heights |-> IF dbType = "decoder" /\ h = 1 THEN 1 ELSE 0]
  /\ pc = "idle" /\ tip = 0 /\ fork = 0 /\ why = "" /\ snap = <<>>
  /\ gaps = {} /\ redo = {} /\ view = EmptyMap
  /\ overlaid = FALSE /\ unguarded = "none"

Source == SourceGrow \/ \E f \in Heights : SourceReorg(f)

Query(hits) ==
  \/ BackfillBlock(hits) \/ BackfillEpochs(hits)
  \/ PruneMarkers(hits) \/ PruneEpochs(hits) \/ PruneLeaves(hits)
  \/ RecordLeaf(hits) \/ CommitEpoch(hits) \/ CommitMarker(hits) \/ Retain(hits)

Poll ==
  \/ PollStart \/ initializePollCursor \/ PollThrows \/ handleReorgMarkers
  \/ \E hash \in Blocks : CheckHash(hash) \/ resolveForkPoint(hash) \/ broadcastReorg(hash)
  \/ OpenSnapshot \/ publishBlockPayload
  \/ \E hits \in BOOLEAN : Query(hits)

Next == Source \/ Poll \/ \E read \in BOOLEAN : Restart(read)

Spec == Init /\ [][Next]_vars

---------------------------------------------------------------------------
(* Properties *)

Guarded == unguarded = "none"

\* The next poll would see neither a marker nor a changed hash nor a lower tip
NothingToFind ==
  /\ pc = "idle" /\ cursor # Unset
  /\ marker = 0 \/ marker > cursor
  /\ cursor <= Len(src)
  /\ guard \in {0, HashAt(src, cursor)}

OnSource(f) == \A h \in Heights : h <= cursor /\ f[h] # 0 => f[h] = HashAt(src, h)

\* Whenever a poll would find no sign of a reorganisation, there has been none:
\* every leaf of the log and every block streamed is the source's.
ChangesAreFound == Guarded /\ NothingToFind => OnSource(meta) /\ OnSource(view)

\* The same when only snapshots that break off from the guarded block are let in:
\* poll says its hash comparison "detects replacement blocks even when the source
\* remains ahead".
OnlyRace == unguarded \in {"none", "race"}
ReplacementsAreDetected == OnlyRace /\ NothingToFind => OnSource(meta) /\ OnSource(view)

\* The same when only failed writes of a prune are let in: pruneFrom says a fault
\* "propagates so the poll loop retries the whole prune".
OnlyLost == unguarded \in {"none", "lost"}
FaultsAreRetried == OnlyLost /\ NothingToFind => OnSource(meta)

\* getProof hands out a proof only of leaves the epoch's root was built from
ProofsVerify ==
  Guarded => \A e \in Epochs :
    Served(e) => LeavesIn(meta, FirstLeaf(roots[e]), LastLeaf(roots[e])) = roots[e]

\* A reorganisation takes no root back without an audit row that keeps it
RootTakenBack(e) == pc = "epochs" /\ roots[e] # NoRoot /\ roots'[e] = NoRoot
RootsAreAudited ==
  [][\A e \in Epochs : Guarded /\ RootTakenBack(e) => <<e, roots[e]>> \in audited]_vars
===============================================================================
