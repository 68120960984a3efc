------------------------------- MODULE LfsAlloc -------------------------------
(***************************************************************************)
(* The block allocator of littlefs (lfs_alloc and the lookahead buffer).   *)
(*                                                                         *)
(* used is what a traversal of the file system visits: the blocks of the   *)
(* committed tree and of the open files.  inflight are the blocks handed   *)
(* out since that no traversal sees yet.  The lookahead buffer is a window *)
(* of positions behind start, marks the positions found in use when the    *)
(* window was scanned, and ckpoint the number of blocks that may still be  *)
(* looked at before the file system counts as full.                        *)
(***************************************************************************)
EXTENDS Integers

CONSTANTS BLOCK_COUNT,      \* blocks of the formatted file system
          MAX_BLOCKS,       \* what it can grow to
          LOOKAHEAD,        \* 8 * lookahead_size
          GrowsAnytime      \* lfs_fs_grow other than right after a mount

ASSUME AllocAssumption ==
  /\ BLOCK_COUNT \in Nat /\ BLOCK_COUNT > 1
  /\ MAX_BLOCKS \in Nat /\ MAX_BLOCKS >= BLOCK_COUNT
  /\ LOOKAHEAD \in Nat /\ LOOKAHEAD > 0
  /\ GrowsAnytime \in BOOLEAN

VARIABLES block_count,
          start, next, size, marks, ckpoint,    \* lfs->lookahead
          used, inflight,
          pc,          \* "idle", or "alloc" inside lfs_alloc
          result,      \* what the last lfs_alloc returned: a block or an error
          unseen       \* blocks freed since a scan last covered them

lookahead == <<start, next, size, marks, ckpoint>>
vars == <<block_count, lookahead, used, inflight, pc, result, unseen>>

None == -1          \* no answer yet
NOSPC == -2         \* LFS_ERR_NOSPC
FAILED == -3        \* the error of a traversal

Blocks == 0..block_count - 1
Min2(a, b) == IF a < b THEN a ELSE b

\* x % block_count, for the sums of two of its residues.
Wrap(x) == IF x >= block_count THEN x - block_count ELSE x
At(p) == Wrap(start + p)

Superblock == {0, 1}

\* A mounted file system; the blocks of its superblock are never freed.
Init ==
  /\ block_count = BLOCK_COUNT
  /\ start \in Blocks
  /\ next = 0 /\ size = 0 /\ marks = {} /\ ckpoint = block_count
  /\ used \in SUBSET Blocks /\ Superblock \subseteq used
  /\ inflight = {} /\ unseen = {} /\ pc = "idle" /\ result = None

\* lfs_alloc_drop
DropTo(s) ==
  /\ start' = s /\ next' = 0 /\ size' = 0 /\ marks' = {} /\ ckpoint' = block_count

\* Mutant: lfs_alloc_scan that keeps the marks of the window before.
ScanStale ==
  LET s == At(next)
      n == Min2(LOOKAHEAD, ckpoint)
      Position(b) == IF b >= s THEN b - s ELSE b - s + block_count
  IN  /\ start' = s /\ next' = 0 /\ size' = n
      /\ marks' = {p \in marks : p < n}
      /\ unseen' = {b \in unseen : Position(b) >= n}
      /\ UNCHANGED ckpoint

\* lfs_alloc_scan: the window moves to the first position not looked at, and
\* its marks are set by a traversal (lfs_alloc_lookahead).
Scan ==
  LET s == At(next)
      n == Min2(LOOKAHEAD, ckpoint)
      Position(b) == IF b >= s THEN b - s ELSE b - s + block_count
  IN  /\ start' = s /\ next' = 0 /\ size' = n
      /\ marks' = {p \in 0..n - 1 : \E b \in used : Position(b) = p}
      /\ unseen' = {b \in unseen : Position(b) >= n}
      /\ UNCHANGED ckpoint

\* A traversal that fails leaves no window at all.
ScanFails ==
  /\ DropTo(At(next)) /\ UNCHANGED unseen

------------------------------------------------------------------------------
(* lfs_alloc                                                               *)

AllocCall ==
  /\ pc = "idle" /\ pc' = "alloc" /\ result' = None
  /\ UNCHANGED <<block_count, lookahead, used, inflight, unseen>>

Looking == pc = "alloc" /\ next < size

AllocSkip ==
  /\ Looking /\ next \in marks
  /\ next' = next + 1 /\ ckpoint' = ckpoint - 1
  /\ UNCHANGED <<block_count, start, size, marks, used, inflight, pc, result, unseen>>

\* The next position worth looking at, or the end of the window.
IsNextFree(q) ==
  /\ q > next /\ q <= size
  /\ q = size \/ q \notin marks
  /\ \A r \in next + 1..q - 1 : r \in marks

\* Mutant: lfs_alloc without the eager search, which leaves the position it took.
AllocTakeKeeps ==
  /\ Looking /\ next \notin marks
  /\ result' = At(next) /\ inflight' = inflight \cup {At(next)}
  /\ pc' = "idle"
  /\ UNCHANGED <<block_count, start, next, size, marks, ckpoint, used, unseen>>

AllocTake ==
  /\ Looking /\ next \notin marks
  /\ result' = At(next) /\ inflight' = inflight \cup {At(next)}
  /\ \E q \in next + 1..size :
       IsNextFree(q) /\ next' = q /\ ckpoint' = ckpoint - (q - next)
  /\ pc' = "idle"
  /\ UNCHANGED <<block_count, start, size, marks, used, unseen>>

Exhausted == pc = "alloc" /\ next >= size

\* Mutant: lfs_alloc that gives up at the end of a window.
AllocNospcEarly ==
  /\ Exhausted
  /\ result' = NOSPC /\ pc' = "idle"
  /\ UNCHANGED <<block_count, lookahead, used, inflight, unseen>>

AllocNospc ==
  /\ Exhausted /\ ckpoint <= 0
  /\ result' = NOSPC /\ pc' = "idle"
  /\ UNCHANGED <<block_count, lookahead, used, inflight, unseen>>

\* Mutant: lfs_alloc that checkpoints at every scan.
AllocScanRenews ==
  /\ Exhausted
  /\ start' = At(next) /\ next' = 0 /\ size' = Min2(LOOKAHEAD, block_count)
  /\ marks' = {p \in 0..Min2(LOOKAHEAD, block_count) - 1 :
                 \E b \in used : Wrap(At(next) + p) = b}
  /\ ckpoint' = block_count
  /\ UNCHANGED <<block_count, used, inflight, pc, result, unseen>>

AllocScan ==
  /\ Exhausted /\ ckpoint > 0
  /\ Scan
  /\ UNCHANGED <<block_count, used, inflight, pc, result>>

\* Its caller returns the error and lets go of what it had allocated.
AllocScanFails ==
  /\ Exhausted /\ ckpoint > 0
  /\ DropTo(At(next)) /\ result' = FAILED /\ pc' = "idle"
  /\ inflight' = {} /\ unseen' = unseen \cup inflight
  /\ UNCHANGED <<block_count, used>>

------------------------------------------------------------------------------
(* The callers of the allocator.                                           *)

\* lfs_alloc_ckpoint, called when everything allocated is in the tree.
Checkpoint ==
  /\ pc = "idle" /\ inflight = {}
  /\ ckpoint' = block_count
  /\ UNCHANGED <<block_count, start, next, size, marks, used, inflight, pc, result, unseen>>

\* A commit makes allocated blocks reachable, others no longer.
Commit ==
  /\ pc = "idle"
  /\ \E kept \in SUBSET inflight : \E freed \in {{}} \cup {{b} : b \in used \ Superblock} :
       /\ kept # {} \/ freed # {}
       /\ used' = (used \ freed) \cup kept
       /\ inflight' = {}
       /\ unseen' = (unseen \ kept) \cup freed \cup (inflight \ kept)
  /\ UNCHANGED <<block_count, lookahead, pc, result>>

\* An operation that fails forgets what it allocated.
Abandon ==
  /\ pc = "idle" /\ inflight # {}
  /\ inflight' = {} /\ unseen' = unseen \cup inflight
  /\ UNCHANGED <<block_count, lookahead, used, pc, result>>

\* A power loss or an unmount, and the next mount: the window starts at a
\* random block (lfs->seed % block_count) and is empty.
Mount ==
  /\ \E seed \in Blocks : DropTo(seed)
  /\ inflight' = {} /\ pc' = "idle" /\ result' = None
  /\ unseen' = unseen \cup inflight
  /\ UNCHANGED <<block_count, used>>

\* lfs_fs_gc: fill the window ahead of need.
Gc ==
  /\ pc = "idle" /\ inflight = {}
  /\ size < Min2(LOOKAHEAD, block_count)
  /\ Scan
  /\ UNCHANGED <<block_count, used, inflight, pc, result>>

GcFails ==
  /\ pc = "idle" /\ inflight = {}
  /\ size < Min2(LOOKAHEAD, block_count)
  /\ ScanFails
  /\ UNCHANGED <<block_count, used, inflight, pc, result>>

\* lfs_fs_grow: a larger block_count, the window as it was.  The checkpoint
\* does not cover the new blocks, so any block may be left out until the next.
Grow ==
  /\ pc = "idle" /\ inflight = {}
  /\ GrowsAnytime \/ size = 0
  /\ \E n \in block_count + 1..MAX_BLOCKS :
       /\ block_count' = n
       /\ unseen' = 0..n - 1
  /\ UNCHANGED <<lookahead, used, inflight, pc, result>>

AllocStep == AllocSkip \/ AllocTake \/ AllocNospc \/ AllocScan \/ AllocScanFails

Next ==
  \/ AllocCall \/ AllocSkip \/ AllocTake \/ AllocNospc \/ AllocScan \/ AllocScanFails
  \/ Checkpoint \/ Commit \/ Abandon \/ Mount \/ Gc \/ GcFails \/ Grow

Spec == Init /\ [][Next]_vars

\* lfs_alloc runs under the lock of its file system, to its end.
FairSpec == Spec /\ WF_vars(AllocStep)
------------------------------------------------------------------------------
(* Properties                                                              *)

\* The window lies inside the blocks and within what the checkpoint allows,
\* so that no position of it is looked at twice ("this prevents the math in
\* lfs_alloc from underflowing").
TypeOK ==
  /\ block_count \in BLOCK_COUNT..MAX_BLOCKS
  /\ start \in Blocks
  /\ size \in 0..block_count /\ next \in 0..size
  /\ ckpoint \in 0..block_count /\ size - next <= ckpoint
  /\ marks \subseteq 0..block_count - 1
  /\ used \subseteq Blocks /\ inflight \subseteq Blocks /\ unseen \subseteq Blocks
  /\ pc \in {"idle", "alloc"}
  /\ result \in 0..MAX_BLOCKS - 1 \cup {None, NOSPC, FAILED}

\* Every position the window still offers is a block nothing refers to,
\* whatever was allocated, committed, freed or lost since it was scanned
\* (lfs_alloc hands such positions out without looking again).
WindowSound ==
  \A p \in next..size - 1 : p \notin marks => At(p) \notin used \cup inflight

\* The window is within its bounds and offers free blocks only
\* (lfs_alloc_scan, lfs_alloc).
Inv == TypeOK /\ WindowSound

\* lfs_alloc never hands out a block that the tree uses or that an operation
\* in progress has already been given.
AllocFresh ==
  [][result' # result /\ result' >= 0 => result' \notin used \cup inflight]_vars

\* "No more free space" is reported only if every block nobody uses became
\* free after the scan that last covered it (lfs_alloc, ckpoint <= 0).
NospcHonest ==
  [][result' # result /\ result' = NOSPC => Blocks \ (used \cup inflight) \subseteq unseen]_vars

\* A call of lfs_alloc returns, full file system or not ("to keep our block
\* allocator from spinning forever when our filesystem is full").
AllocReturns == pc = "alloc" ~> pc = "idle"
==============================================================================
