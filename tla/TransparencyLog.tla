--------------------------- MODULE TransparencyLog ---------------------------
(***************************************************************************)
(* The server's transparency log: one leaf per block it has streamed        *)
(* (sync_meta), one Merkle root per full epoch (merkle_epochs) and an audit *)
(* trail of the roots a reorganisation took back (merkle_reorgs).           *)
(*                                                                          *)
(* A block is named by the branch of the source chain it lies on: 0 is no   *)
(* block, and two branches never share a block at one height.  A root is    *)
(* the function of leaves it was built from (the tree is collision free),   *)
(* the empty function when the epoch has no root.                           *)
(***************************************************************************)
EXTENDS Integers, FiniteSets, Sequences, FiniteSetsExt, Functions

CONSTANTS
  MaxHeight,      \* blocks the source chain may have
  MaxBranch,      \* branches the source chain may have
  EpochSize,      \* MERKLE_EPOCH_SIZE
  RetentionBlocks \* SYNC_META_RETENTION_BLOCKS, floored; 0 keeps everything

ASSUME LogAssumption ==
  /\ MaxHeight \in Nat \ {0} /\ MaxBranch \in Nat \ {0}
  /\ EpochSize \in Nat \ {0} /\ RetentionBlocks \in Nat

VARIABLES
  meta,    \* sync_meta: the branch recorded at each height
  roots,   \* merkle_epochs: the leaves under each epoch's root
  pending, \* merkle_reorgs with new_root NULL: their start block, or 0
  audited  \* merkle_reorgs: the old roots on record, as <<epoch, root>>

logVars == <<meta, roots, pending, audited>>

Heights == 1 .. MaxHeight
Epochs == 1 .. (MaxHeight \div EpochSize)
Blocks == 0 .. MaxBranch
NoRoot == <<>>
Unset == -1

RecordedIn(m) == {h \in Heights : m[h] # 0}
Recorded == RecordedIn(meta)

\* getHighWaterMark, Unset when nothing is recorded
HighWaterMark(m) == IF RecordedIn(m) = {} THEN Unset ELSE Max(RecordedIn(m))

EpochOf(n) == (n + EpochSize - 1) \div EpochSize
EpochStart(e) == (e - 1) * EpochSize + 1
EpochEnd(e) == e * EpochSize

\* findSyncMetaLeaves(first, last)
LeavesIn(m, first, last) ==
  LET hs == {h \in Heights : first <= h /\ h <= last /\ m[h] # 0}
  IN  IF hs = {} THEN NoRoot ELSE Restrict(m, hs)

FirstLeaf(root) == Min(DOMAIN root)
LastLeaf(root) == Max(DOMAIN root)

Committed == {e \in Epochs : roots[e] # NoRoot}

\* INSERT IGNORE: a height already recorded keeps its leaf
WithLeaf(n, b) == IF meta[n] = 0 THEN [meta EXCEPT ![n] = b] ELSE meta

Boundary(n) == n % EpochSize = 0

\* A pending marker says the epoch was once committed from an earlier leaf
reorgedLeavesTruncated(e, root) == pending[e] # 0 /\ FirstLeaf(root) > pending[e]

\* The root commitEpoch inserts for e, NoRoot when it returns early
RootToCommit(m, e) ==
  LET root == LeavesIn(m, EpochStart(e), EpochEnd(e))
  IN  IF root = NoRoot \/ reorgedLeavesTruncated(e, root) THEN NoRoot ELSE root

\* pruneSyncMeta: the last block of the highest committed epoch that lies
\* outside the window, 0 when there is none or an epoch straddles it
PruneBoundary(m, r) ==
  LET cutoff == HighWaterMark(m) - RetentionBlocks
      rs == {r[e] : e \in Epochs} \ {NoRoot}
      bound == Max({0} \union {x \in {LastLeaf(root) : root \in rs} : x <= cutoff})
      straddles == \E root \in rs : FirstLeaf(root) <= bound /\ LastLeaf(root) > bound
  IN  IF RetentionBlocks = 0 \/ cutoff < 1 \/ straddles THEN 0 ELSE bound

Retained(m, r) == [h \in Heights |-> IF h <= PruneBoundary(m, r) THEN 0 ELSE m[h]]

\* A variant: epochs that start at or after the fork
Invalidated_Starting(fork) == {e \in Committed : FirstLeaf(roots[e]) >= fork}

\* findEpochsEndingAtOrAfter
Invalidated(fork) == {e \in Committed : LastLeaf(roots[e]) >= fork}

\* findGaps: source blocks strictly inside the recorded range, unrecorded
Gaps(tip) ==
  {h \in Heights : h <= tip /\ meta[h] = 0 /\ h < HighWaterMark(meta)
                   /\ \E l \in Recorded : l < h}

\* getProof: the epoch has a root, and as many leaves as the root counted
Served(e) ==
  /\ e \in Committed
  /\ LET rows == LeavesIn(meta, FirstLeaf(roots[e]), LastLeaf(roots[e]))
     IN  Cardinality(DOMAIN rows) = Cardinality(DOMAIN roots[e])

LogTypeOK ==
  /\ meta \in [Heights -> Blocks]
  /\ DOMAIN roots = Epochs
  /\ \A e \in Committed : /\ DOMAIN roots[e] \subseteq EpochStart(e) .. EpochEnd(e)
                          /\ \A h \in DOMAIN roots[e] : roots[e][h] \in Blocks \ {0}
  /\ pending \in [Epochs -> 0 .. MaxHeight]

LogInit ==
  /\ meta = [h \in Heights |-> 0]
  /\ roots = [e \in Epochs |-> NoRoot]
  /\ pending = [e \in Epochs |-> 0]
  /\ audited = {}

(* The queries, one await each; "hits" is whether the database executed it *)
(* (doQuery logs an error and returns [], so the caller goes on as if so). *)

\* recordBlock: recordSyncMetaHashes
InsertLeaf(n, b, hits) ==
  /\ meta' = IF hits THEN WithLeaf(n, b) ELSE meta
  /\ UNCHANGED <<roots, pending, audited>>

\* commitEpoch: insertMerkleEpoch, unless the epoch already has a root
InsertEpoch(e, hits) ==
  /\ roots' = IF hits /\ roots[e] = NoRoot
              THEN [roots EXCEPT ![e] = RootToCommit(meta, e)] ELSE roots
  /\ UNCHANGED <<meta, pending, audited>>

\* A variant: the marker of a re-committed epoch stays open
CompleteMarker_Never(e, hits) == UNCHANGED logVars

\* commitEpoch: backfillReorgMarkerRoot
CompleteMarker(e, hits) ==
  /\ pending' = IF hits THEN [pending EXCEPT ![e] = 0] ELSE pending
  /\ UNCHANGED <<meta, roots, audited>>

\* pruneSyncMeta: deleteSyncMetaThrough
DeleteThrough(hits) ==
  /\ meta' = IF hits THEN Retained(meta, roots) ELSE meta
  /\ UNCHANGED <<roots, pending, audited>>

\* pruneFrom: insertReorgMarker for each invalidated epoch without a pending one
InsertMarkers(fork, hits) ==
  LET new == IF hits THEN {e \in Invalidated(fork) : pending[e] = 0} ELSE {}
  IN  /\ pending' = [e \in Epochs |->
                       IF e \in new THEN FirstLeaf(roots[e]) ELSE pending[e]]
      /\ audited' = audited \union {<<e, roots[e]>> : e \in new}
      /\ UNCHANGED <<meta, roots>>

\* pruneFrom: deleteEpochsEndingAtOrAfter
DeleteEpochs(fork, hits) ==
  /\ roots' = IF hits THEN [e \in Epochs |-> IF e \in Invalidated(fork) THEN NoRoot ELSE roots[e]]
              ELSE roots
  /\ UNCHANGED <<meta, pending, audited>>

\* pruneFrom: deleteSyncMetaFrom
DeleteFrom(fork, hits) ==
  /\ meta' = IF hits THEN [h \in Heights |-> IF h >= fork THEN 0 ELSE meta[h]] ELSE meta
  /\ UNCHANGED <<roots, pending, audited>>

\* recordBlock of a gap, whole: its leaf and, at an epoch boundary, the commit
\* and the retention sweep
FillGap(n, b, hits) ==
  LET e == EpochOf(n)
      m == WithLeaf(n, b)
      commits == Boundary(n) /\ roots[e] = NoRoot /\ RootToCommit(m, e) # NoRoot
      r == IF commits THEN [roots EXCEPT ![e] = RootToCommit(m, e)] ELSE roots
  IN  /\ UNCHANGED audited
      /\ IF hits
         THEN /\ meta' = IF Boundary(n) THEN Retained(m, r) ELSE m
              /\ roots' = r
              /\ pending' = IF commits THEN [pending EXCEPT ![e] = 0] ELSE pending
         ELSE UNCHANGED <<meta, roots, pending>>

\* recommitEpoch: the old root is dropped and the epoch committed afresh
Recommit(e, hits) ==
  LET new == RootToCommit(meta, e)
  IN  /\ roots' = IF hits THEN [roots EXCEPT ![e] = new] ELSE roots
      /\ pending' = IF hits /\ new # NoRoot THEN [pending EXCEPT ![e] = 0] ELSE pending
      /\ UNCHANGED <<meta, audited>>
==============================================================================
