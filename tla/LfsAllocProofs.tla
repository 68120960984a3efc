---------------------------- MODULE LfsAllocProofs ----------------------------
(***************************************************************************)
(* The block allocator for every number of blocks and every lookahead      *)
(* buffer: it hands out free blocks only, and it says that the file system *)
(* is full only when it is.                                                *)
(*                                                                         *)
(* The invariants of LfsAlloc are not inductive: that no position of the   *)
(* window is in flight follows from how far the allocator may still look.  *)
(* Ahead(p) is the p-th block it is to look at.  Those it may look at are  *)
(* not in flight (Unclaimed), and all others are in use, in flight or were *)
(* freed after a scan (Covered).                                           *)
(***************************************************************************)
EXTENDS LfsAlloc, TLAPS

Ahead(p) == Wrap(At(next) + p)

Unclaimed == \A p \in 0..ckpoint - 1 : Ahead(p) \notin inflight

Covered ==
  \A b \in Blocks \ (used \cup inflight \cup unseen) :
    \E p \in 0..ckpoint - 1 : Ahead(p) = b /\ (next + p < size => next + p \notin marks)

IInv == TypeOK /\ WindowSound /\ Unclaimed /\ Covered

------------------------------------------------------------------------------
(* Positions: start + next, a block to look at and a whole turn ahead.     *)

LEMMA WrapInBlocks ==
  ASSUME block_count \in Nat, NEW x \in 0..2 * block_count - 1
  PROVE  Wrap(x) \in Blocks
  BY DEF Wrap, Blocks

LEMMA TypeOfNext ==
  ASSUME TypeOK
  PROVE  /\ block_count \in Nat \ {0} /\ start \in Nat /\ start < block_count
         /\ next \in Nat /\ size \in Nat /\ next <= size /\ size <= block_count
         /\ ckpoint \in Nat /\ ckpoint <= block_count /\ size - next <= ckpoint
  BY AllocAssumption DEF TypeOK, Blocks

LEMMA NextInBlocks ==
  ASSUME TypeOK
  PROVE  At(next) \in Nat /\ At(next) < block_count
  BY TypeOfNext DEF At, Wrap

LEMMA AheadInBlocks ==
  ASSUME TypeOK, NEW p \in 0..block_count - 1
  PROVE  Ahead(p) \in Blocks
  BY TypeOfNext, NextInBlocks DEF Ahead, Wrap, Blocks

\* The window lies ahead.
LEMMA WindowAhead ==
  ASSUME TypeOK, NEW p \in next..size - 1
  PROVE  /\ At(p) = Ahead(p - next) /\ p - next \in 0..ckpoint - 1
         /\ At(p) \in Blocks
  BY TypeOfNext DEF Ahead, At, Wrap, Blocks

\* Two places ahead are the same block only if they are the same place.
LEMMA AheadInjective ==
  ASSUME TypeOK, NEW p \in 0..block_count - 1, NEW q \in 0..block_count - 1, Ahead(p) = Ahead(q)
  PROVE  p = q
  BY TypeOfNext, NextInBlocks DEF Ahead, Wrap

\* Every block is ahead.
LEMMA BlockAhead ==
  ASSUME TypeOK, NEW b \in Blocks
  PROVE  \E p \in 0..block_count - 1 : Ahead(p) = b
<1> DEFINE p == IF b >= At(next) THEN b - At(next) ELSE b - At(next) + block_count
<1>1. p \in 0..block_count - 1 /\ Ahead(p) = b
  BY TypeOfNext, NextInBlocks DEF Ahead, Wrap, Blocks
<1> QED BY <1>1

------------------------------------------------------------------------------
(* The first state, and the steps that start a window anew.                *)

LEMMA InitInvariant == Init => IInv
<1> SUFFICES ASSUME Init PROVE IInv
  OBVIOUS
<1>1. TypeOK
  BY AllocAssumption DEF Init, TypeOK, Blocks, Superblock
<1>2. WindowSound /\ Unclaimed
  BY DEF Init, WindowSound, Unclaimed
<1>3. Covered
  <2> SUFFICES ASSUME NEW b \in Blocks
               PROVE  \E p \in 0..ckpoint - 1 :
                        Ahead(p) = b /\ (next + p < size => next + p \notin marks)
    BY DEF Covered
  <2>1. PICK p \in 0..block_count - 1 : Ahead(p) = b
    BY <1>1, BlockAhead
  <2> QED BY <2>1, <1>1, TypeOfNext DEF Init
<1> QED BY <1>1, <1>2, <1>3 DEF IInv

\* With an empty window, a full checkpoint and nothing in flight there is
\* nothing to show but the types.
LEMMA AnewInvariant ==
  ASSUME NEW n \in Nat \ {0}, NEW s \in 0..n - 1, TypeOK',
         block_count' = n, start' = s, next' = 0, size' = 0, ckpoint' = n, inflight' = {}
  PROVE  IInv'
<1>1. WindowSound' /\ Unclaimed'
  BY DEF WindowSound, Unclaimed
<1>2. Covered'
  <2> SUFFICES ASSUME NEW b \in 0..n - 1
               PROVE  \E p \in 0..n - 1 : Ahead(p)' = b
    BY DEF Covered, Blocks
  <2> DEFINE p == IF b >= s THEN b - s ELSE b - s + n
  <2>1. p \in 0..n - 1
    OBVIOUS
  <2>2. Ahead(p)' = b
    BY DEF Ahead, At, Wrap
  <2> QED BY <2>1, <2>2
<1> QED BY <1>1, <1>2 DEF IInv

------------------------------------------------------------------------------
(* Steps that look at positions.                                           *)

LEMMA SkipInvariant == IInv /\ AllocSkip => IInv'
<1> SUFFICES ASSUME IInv, AllocSkip PROVE IInv'
  OBVIOUS
<1> USE DEF IInv
<1>1. /\ next' = next + 1 /\ ckpoint' = ckpoint - 1 /\ next < size /\ next \in marks
      /\ UNCHANGED <<block_count, start, size, marks, used, inflight, pc, result, unseen>>
  BY DEF AllocSkip, Looking
<1>2. \A p \in 0..ckpoint - 2 : Ahead(p)' = Ahead(p + 1)
  BY <1>1, TypeOfNext DEF Ahead, At, Wrap
<1>3. TypeOK'
  BY <1>1, TypeOfNext DEF TypeOK, Blocks
<1>4. WindowSound'
  BY <1>1, TypeOfNext DEF WindowSound, At, Wrap
<1>5. Unclaimed'
  BY <1>1, <1>2, TypeOfNext DEF Unclaimed
<1>6. Covered'
  <2> SUFFICES ASSUME NEW b \in Blocks \ (used \cup inflight \cup unseen)
               PROVE  \E p \in 0..ckpoint - 2 :
                        Ahead(p + 1) = b /\ (next + 1 + p < size => next + 1 + p \notin marks)
    BY <1>1, <1>2, TypeOfNext DEF Covered, Blocks
  <2>1. PICK p \in 0..ckpoint - 1 : Ahead(p) = b /\ (next + p < size => next + p \notin marks)
    BY DEF Covered
  <2>2. p # 0
    BY <1>1, <2>1, TypeOfNext
  <2> QED BY <2>1, <2>2, TypeOfNext
<1> QED BY <1>3, <1>4, <1>5, <1>6

\* The block that is handed out is the first ahead; the ones passed over with
\* it are marked.
LEMMA TakeInvariant == IInv /\ AllocTake => IInv'
<1> SUFFICES ASSUME IInv, AllocTake PROVE IInv'
  OBVIOUS
<1> USE DEF IInv
<1>1. PICK q \in next + 1..size : IsNextFree(q) /\ next' = q /\ ckpoint' = ckpoint - (q - next)
  BY DEF AllocTake
<1>2. /\ next < size /\ next \notin marks /\ pc' = "idle"
      /\ result' = At(next) /\ inflight' = inflight \cup {At(next)}
      /\ UNCHANGED <<block_count, start, size, marks, used, unseen>>
  BY DEF AllocTake, Looking
<1>3. q \in Nat /\ next < q /\ q <= size /\ \A r \in next + 1..q - 1 : r \in marks
  BY <1>1, TypeOfNext DEF IsNextFree
<1> DEFINE d == q - next
<1>4. d \in Nat \ {0} /\ d <= ckpoint /\ q = next + d
  BY <1>3, TypeOfNext
<1>5. \A p \in 0..ckpoint - d - 1 : Ahead(p)' = Ahead(p + d)
  BY <1>1, <1>2, <1>4, TypeOfNext, <1>3 DEF Ahead, At, Wrap
<1>6. At(next) = Ahead(0) /\ At(next) \in Blocks
  BY <1>2, WindowAhead, TypeOfNext
<1>7. TypeOK'
  <2>1. At(next) \in 0..MAX_BLOCKS - 1
    BY <1>6, AllocAssumption DEF TypeOK, Blocks
  <2>2. next' \in 0..size /\ ckpoint' \in 0..block_count /\ size - next' <= ckpoint'
    BY <1>1, <1>3, <1>4, TypeOfNext
  <2> QED BY <1>2, <1>6, <2>1, <2>2 DEF TypeOK, Blocks
<1>8. \A p \in 1..ckpoint - 1 : Ahead(p) \notin inflight \cup {At(next)}
  BY <1>6, TypeOfNext, AheadInjective DEF Unclaimed
<1>9. Unclaimed'
  BY <1>1, <1>2, <1>4, <1>5, <1>8, TypeOfNext DEF Unclaimed
<1>10. WindowSound'
  <2> SUFFICES ASSUME NEW p \in q..size - 1, p \notin marks
               PROVE  At(p) \notin used \cup inflight \cup {At(next)}
    BY <1>1, <1>2 DEF WindowSound, At, Wrap
  <2>1. p \in next..size - 1 /\ p - next \in 1..ckpoint - 1
    BY <1>3, TypeOfNext
  <2>2. At(p) = Ahead(p - next)
    BY <2>1, WindowAhead
  <2>3. At(p) \notin used \cup inflight
    BY <2>1 DEF WindowSound
  <2> QED BY <2>1, <2>2, <2>3, <1>8
<1>11. Covered'
  <2> SUFFICES ASSUME NEW b \in Blocks \ (used \cup inflight \cup {At(next)} \cup unseen)
               PROVE  \E p \in 0..ckpoint - d - 1 :
                        Ahead(p + d) = b /\ (q + p < size => q + p \notin marks)
    BY <1>1, <1>2, <1>4, <1>5, TypeOfNext DEF Covered, Blocks
  <2>1. PICK p \in 0..ckpoint - 1 : Ahead(p) = b /\ (next + p < size => next + p \notin marks)
    BY DEF Covered
  <2>2. p # 0
    BY <1>6, <2>1
  <2>3. ~(p < d)
    BY <1>3, <1>4, <2>1, <2>2, TypeOfNext
  <2>4. p - d \in 0..ckpoint - d - 1 /\ (p - d) + d = p /\ q + (p - d) = next + p
    BY <1>4, <2>3, TypeOfNext
  <2> QED BY <2>1, <2>4
<1> QED BY <1>7, <1>9, <1>10, <1>11

\* A scan moves the window to the first block ahead and leaves what is ahead
\* as it was; its marks are the blocks in use.
LEMMA ScanInvariant ==
  ASSUME IInv, Scan, UNCHANGED <<block_count, used, inflight, result>>, pc' \in {"idle", "alloc"}
  PROVE  IInv'
<1> DEFINE s == At(next)
           n == Min2(LOOKAHEAD, ckpoint)
           Position(b) == IF b >= s THEN b - s ELSE b - s + block_count
<1> USE DEF IInv
<1>1. /\ start' = s /\ next' = 0 /\ size' = n /\ ckpoint' = ckpoint
      /\ marks' = {p \in 0..n - 1 : \E b \in used : Position(b) = p}
      /\ unseen' = {b \in unseen : Position(b) >= n}
      /\ UNCHANGED <<block_count, used, inflight, result>>
  BY DEF Scan
<1>2. s \in Nat /\ s < block_count /\ n \in Nat /\ n <= ckpoint
  BY NextInBlocks, TypeOfNext, AllocAssumption DEF Min2
<1>3. \A p \in 0..ckpoint - 1 : Ahead(p)' = Ahead(p) /\ At(p)' = Ahead(p)
  BY <1>1, <1>2, TypeOfNext DEF Ahead, At, Wrap
<1>4. \A p \in 0..block_count - 1 : Position(Ahead(p)) = p
  BY <1>2, TypeOfNext DEF Ahead, Wrap
<1>5. \A b \in Blocks : Position(b) \in 0..block_count - 1 /\ Ahead(Position(b)) = b
  BY <1>2, TypeOfNext DEF Ahead, Wrap, Blocks
<1> HIDE DEF Position, n, s
<1>6. TypeOK'
  <2>1. size' \in 0..block_count /\ next' \in 0..size' /\ size' - next' <= ckpoint'
    BY <1>1, <1>2, TypeOfNext
  <2>2. marks' \subseteq 0..block_count - 1
    BY <1>1, <1>2, TypeOfNext
  <2>3. start' \in Blocks
    BY <1>1, <1>2, TypeOfNext DEF Blocks
  <2>4. unseen' \subseteq Blocks
    BY <1>1 DEF TypeOK
  <2> QED BY <1>1, <2>1, <2>2, <2>3, <2>4 DEF TypeOK, Blocks
<1>7. WindowSound'
  <2> SUFFICES ASSUME NEW p \in 0..n - 1, p \notin marks'
               PROVE  Ahead(p) \notin used \cup inflight
    BY <1>1, <1>2, <1>3, TypeOfNext DEF WindowSound
  <2>1. p \in 0..ckpoint - 1 /\ p \in 0..block_count - 1
    BY <1>2, TypeOfNext
  <2> QED BY <1>1, <1>4, <2>1 DEF Unclaimed
<1>8. Unclaimed'
  BY <1>1, <1>3 DEF Unclaimed
<1>9. Covered'
  <2> SUFFICES ASSUME NEW b \in Blocks \ (used \cup inflight \cup unseen')
               PROVE  \E p \in 0..ckpoint - 1 : Ahead(p) = b /\ (p < n => p \notin marks')
    BY <1>1, <1>2, <1>3, TypeOfNext DEF Covered, Blocks
  <2>1. PICK p \in 0..ckpoint - 1 : Ahead(p) = b
    <3>1. CASE b \in unseen
      BY <3>1, <1>1, <1>2, <1>5, TypeOfNext
    <3>2. CASE b \notin unseen
      BY <3>2 DEF Covered
    <3> QED BY <3>1, <3>2
  <2>2. p \notin marks'
    <3> SUFFICES ASSUME NEW c \in used, Position(c) = p PROVE FALSE
      BY <1>1
    <3>1. Ahead(p) = c
      BY <1>5 DEF TypeOK
    <3> QED BY <3>1, <2>1
  <2> QED BY <2>1, <2>2
<1> QED BY <1>6, <1>7, <1>8, <1>9

------------------------------------------------------------------------------
(* The steps of the callers.                                               *)

\* Steps that leave the window, what is used and what is in flight alone.
LEMMA QuietInvariant ==
  ASSUME IInv, UNCHANGED <<block_count, lookahead, used, inflight, unseen>>,
         pc' \in {"idle", "alloc"}, result' \in {None, NOSPC, FAILED, result}
  PROVE  IInv'
<1> USE DEF IInv, lookahead
<1>1. TypeOK'
  BY DEF TypeOK, Blocks
<1>2. WindowSound'
  BY DEF WindowSound, At, Wrap
<1>3. Unclaimed'
  BY DEF Unclaimed, Ahead, At, Wrap
<1>4. Covered'
  BY DEF Covered, Blocks, Ahead, At, Wrap
<1> QED BY <1>1, <1>2, <1>3, <1>4

LEMMA DropInvariant ==
  ASSUME IInv, NEW s \in Blocks, DropTo(s), UNCHANGED <<block_count, used>>, inflight' = {},
         unseen' \subseteq unseen \cup inflight,
         pc' \in {"idle", "alloc"}, result' \in {None, NOSPC, FAILED, result}
  PROVE  IInv'
<1> USE DEF IInv
<1>1. start' = s /\ next' = 0 /\ size' = 0 /\ marks' = {} /\ ckpoint' = block_count
  BY DEF DropTo
<1>2. TypeOK'
  <2>1. unseen' \subseteq Blocks
    BY DEF TypeOK
  <2> QED BY <1>1, <2>1, TypeOfNext DEF TypeOK, Blocks
<1> QED BY <1>1, <1>2, TypeOfNext, AnewInvariant DEF Blocks

\* With nothing in flight every block is ahead, or among those looked at.
LEMMA CheckpointInvariant == IInv /\ Checkpoint => IInv'
<1> SUFFICES ASSUME IInv, Checkpoint PROVE IInv'
  OBVIOUS
<1> USE DEF IInv
<1>1. /\ inflight = {} /\ ckpoint' = block_count
      /\ UNCHANGED <<block_count, start, next, size, marks, used, inflight, pc, result, unseen>>
  BY DEF Checkpoint
<1>2. TypeOK'
  BY <1>1, TypeOfNext DEF TypeOK, Blocks
<1>3. WindowSound' /\ Unclaimed'
  BY <1>1 DEF WindowSound, Unclaimed, At, Wrap
<1>4. Covered'
  <2> SUFFICES ASSUME NEW b \in Blocks \ (used \cup inflight \cup unseen)
               PROVE  \E p \in 0..block_count - 1 :
                        Ahead(p) = b /\ (next + p < size => next + p \notin marks)
    BY <1>1 DEF Covered, Blocks, Ahead, At, Wrap
  <2>1. PICK p \in 0..ckpoint - 1 : Ahead(p) = b /\ (next + p < size => next + p \notin marks)
    BY DEF Covered
  <2> QED BY <2>1, TypeOfNext
<1> QED BY <1>2, <1>3, <1>4

\* What a commit frees was freed after the scan; what it puts into the tree
\* was in flight.
LEMMA CommitInvariant == IInv /\ (Commit \/ Abandon) => IInv'
<1> SUFFICES ASSUME IInv, Commit \/ Abandon PROVE IInv'
  OBVIOUS
<1> USE DEF IInv, lookahead
<1>1. PICK kept \in SUBSET inflight, freed \in SUBSET used :
        /\ used' = (used \ freed) \cup kept /\ inflight' = {}
        /\ unseen' = (unseen \ kept) \cup freed \cup (inflight \ kept)
        /\ UNCHANGED <<block_count, lookahead, pc, result>>
  <2>1. CASE Commit
    BY <2>1 DEF Commit
  <2>2. CASE Abandon
    <3>1. used' = (used \ {}) \cup {} /\ unseen' = (unseen \ {}) \cup {} \cup (inflight \ {})
      BY <2>2 DEF Abandon
    <3> QED BY <2>2, <3>1 DEF Abandon
  <2> QED BY <2>1, <2>2
<1>2. TypeOK'
  <2>1. used' \subseteq Blocks /\ unseen' \subseteq Blocks /\ inflight' \subseteq Blocks
    BY <1>1 DEF TypeOK
  <2> QED BY <1>1, <2>1 DEF TypeOK, Blocks
<1>3. WindowSound'
  <2>1. used' \cup inflight' \subseteq used \cup inflight
    BY <1>1
  <2> QED BY <1>1, <2>1 DEF WindowSound, At, Wrap
<1>4. Unclaimed'
  BY <1>1 DEF Unclaimed
<1>5. Covered'
  <2>1. \A p : Ahead(p)' = Ahead(p)
    BY <1>1 DEF Ahead, At, Wrap
  <2>2. Blocks' \ (used' \cup inflight' \cup unseen') \subseteq Blocks \ (used \cup inflight \cup unseen)
    BY <1>1 DEF Blocks
  <2> QED BY <1>1, <2>1, <2>2 DEF Covered
<1> QED BY <1>2, <1>3, <1>4, <1>5

\* Right after a mount the window is empty; of what grows nothing is known.
LEMMA GrowInvariant == ~GrowsAnytime /\ IInv /\ Grow => IInv'
<1> SUFFICES ASSUME ~GrowsAnytime, IInv, Grow PROVE IInv'
  OBVIOUS
<1> USE DEF IInv, lookahead
<1>1. PICK n \in block_count + 1..MAX_BLOCKS :
        /\ size = 0 /\ inflight = {} /\ block_count' = n /\ unseen' = 0..n - 1
        /\ UNCHANGED <<lookahead, used, inflight, pc, result>>
  BY DEF Grow
<1>2. n \in Nat /\ n > block_count /\ n \in BLOCK_COUNT..MAX_BLOCKS
  BY AllocAssumption DEF TypeOK
<1>3. TypeOK'
  <2>1. Blocks \subseteq 0..n - 1 /\ 0..block_count - 1 \subseteq 0..n - 1
        /\ 0..block_count \subseteq 0..n
    BY <1>2, TypeOfNext DEF Blocks
  <2>2. start' \in 0..n - 1 /\ used' \subseteq 0..n - 1 /\ marks' \subseteq 0..n - 1
        /\ ckpoint' \in 0..n
    BY <1>1, <2>1 DEF TypeOK
  <2>3. size' \in 0..n /\ next' \in 0..size' /\ size' - next' <= ckpoint'
    BY <1>1, <1>2, TypeOfNext
  <2>4. pc' \in {"idle", "alloc"} /\ result' \in 0..MAX_BLOCKS - 1 \cup {None, NOSPC, FAILED}
    BY <1>1 DEF TypeOK
  <2> QED BY <1>1, <1>2, <2>2, <2>3, <2>4 DEF TypeOK, Blocks
<1>4. WindowSound' /\ Unclaimed'
  BY <1>1, TypeOfNext DEF WindowSound, Unclaimed
<1>5. Covered'
  BY <1>1 DEF Covered, Blocks
<1> QED BY <1>3, <1>4, <1>5

LEMMA NextInvariant == ~GrowsAnytime /\ IInv /\ [Next]_vars => IInv'
<1> SUFFICES ASSUME ~GrowsAnytime, IInv, [Next]_vars PROVE IInv'
  OBVIOUS
<1>0. pc \in {"idle", "alloc"} /\ At(next) \in Blocks
  BY NextInBlocks, TypeOfNext DEF IInv, TypeOK, Blocks
<1>1. CASE AllocCall
  BY <1>1, QuietInvariant DEF AllocCall
<1>2. CASE AllocSkip
  BY <1>2, SkipInvariant
<1>3. CASE AllocTake
  BY <1>3, TakeInvariant
<1>4. CASE AllocNospc
  BY <1>4, QuietInvariant DEF AllocNospc
<1>5. CASE AllocScan
  BY <1>0, <1>5, ScanInvariant DEF AllocScan
<1>6. CASE AllocScanFails
  BY <1>0, <1>6, DropInvariant DEF AllocScanFails
<1>7. CASE Checkpoint
  BY <1>7, CheckpointInvariant
<1>8. CASE Commit \/ Abandon
  BY <1>8, CommitInvariant
<1>9. CASE Mount
  <2>1. PICK seed \in Blocks : DropTo(seed)
    BY <1>9 DEF Mount
  <2> QED BY <1>9, <2>1, DropInvariant DEF Mount
<1>10. CASE Gc
  BY <1>0, <1>10, ScanInvariant DEF Gc
<1>11. CASE GcFails
  BY <1>0, <1>11, DropInvariant DEF GcFails, ScanFails
<1>12. CASE Grow
  BY <1>12, GrowInvariant
<1>13. CASE UNCHANGED vars
  BY <1>0, <1>13, QuietInvariant DEF vars
<1> QED BY <1>1, <1>2, <1>3, <1>4, <1>5, <1>6, <1>7, <1>8, <1>9, <1>10, <1>11, <1>12, <1>13 DEF Next

------------------------------------------------------------------------------
(* What is promised                                                        *)

\* The strengthened invariant holds in every state, unless the file system grows
\* behind the allocator's back (GrowsAnytime).
THEOREM Invariance == ASSUME ~GrowsAnytime PROVE Spec => []IInv
<1>1. Init => IInv
  BY InitInvariant
<1>2. IInv /\ [Next]_vars => IInv'
  BY NextInvariant
<1> QED BY <1>1, <1>2, PTL DEF Spec

\* No counter of the window runs below zero or past the window (lfs_alloc,
\* lfs_alloc_scan), and no position the window offers is used or in flight,
\* whatever was committed and freed since it was scanned.
THEOREM WindowIsSound == ASSUME ~GrowsAnytime PROVE Spec => []Inv
<1>1. IInv => Inv
  BY DEF IInv, Inv
<1> QED BY <1>1, Invariance, PTL

\* lfs_alloc hands out free blocks only, for every size of the file system and
\* of the lookahead buffer.
THEOREM BlocksAreFresh == ASSUME ~GrowsAnytime PROVE Spec => AllocFresh
<1> DEFINE Fresh == result' # result /\ result' >= 0 => result' \notin used \cup inflight
<1>1. IInv /\ [Next]_vars => [Fresh]_vars
  <2> SUFFICES ASSUME IInv, Next, result' # result, result' >= 0
               PROVE  result' \notin used \cup inflight
    OBVIOUS
  <2>1. AllocTake
    BY DEF Next, AllocCall, AllocSkip, AllocNospc, AllocScan, AllocScanFails, Checkpoint, Commit,
           Abandon, Mount, Gc, GcFails, Grow, None, NOSPC, FAILED
  <2>2. result' = At(next) /\ next < size /\ next \notin marks
    BY <2>1 DEF AllocTake, Looking
  <2>3. next \in next..size - 1
    BY <2>2, TypeOfNext DEF IInv
  <2> QED BY <2>2, <2>3 DEF IInv, WindowSound
<1> QED BY <1>1, Invariance, PTL DEF Spec, AllocFresh

\* lfs_alloc reports a full file system only if whatever is free was freed
\* after the scan that covered it.
THEOREM NospcIsHonest == ASSUME ~GrowsAnytime PROVE Spec => NospcHonest
<1> DEFINE Honest == result' # result /\ result' = NOSPC => Blocks \ (used \cup inflight) \subseteq unseen
<1>1. IInv /\ [Next]_vars => [Honest]_vars
  <2> SUFFICES ASSUME IInv, Next, result' # result, result' = NOSPC
               PROVE  Blocks \ (used \cup inflight) \subseteq unseen
    OBVIOUS
  <2>1. AllocNospc
    <3>1. ~AllocTake
      BY NextInBlocks DEF IInv, AllocTake, NOSPC
    <3> QED BY <3>1 DEF Next, AllocCall, AllocSkip, AllocScan, AllocScanFails, Checkpoint, Commit,
           Abandon, Mount, Gc, GcFails, Grow, None, NOSPC, FAILED
  <2>2. 0..ckpoint - 1 = {}
    BY <2>1, TypeOfNext DEF IInv, AllocNospc
  <2> QED BY <2>2 DEF IInv, Covered
<1> QED BY <1>1, Invariance, PTL DEF Spec, NospcHonest
===============================================================================
