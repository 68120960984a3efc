-------------------------------- MODULE LfsFile -------------------------------
(***************************************************************************)
(* The files of littlefs: a list of blocks with skip pointers that is      *)
(* copied on write, small files kept in the directory entry, handles with  *)
(* what they have not synced yet, and the allocator's scan of all that is  *)
(* in use.                                                                 *)
(*                                                                         *)
(* A cell stands for a word: a pointer or a byte of data take one each.    *)
(* One call is one step; the power may go between any two, and since a     *)
(* call changes nothing but blocks that are handed out to it and, at its   *)
(* end, the directory entry, a loss in the middle is a loss after it or    *)
(* before it.  Reading through the caches is reading the block (BlockCache *)
(* shows it).  A bad block shows when it is erased, when a cache full of   *)
(* data goes to it, or when the cache is flushed in the end.  The entry is *)
(* replaced as a whole (LfsPair and LfsTree).                              *)
(***************************************************************************)
EXTENDS Integers, Sequences, FiniteSets, Functions

CONSTANTS Handle,
          BLOCKS, BLOCK_SIZE,   \* in cells
          INLINE_MAX,           \* lfs->inline_max
          FILE_MAX,             \* lfs->file_max; see Index
          FileSizes, Seeks, Writes, Truncs,     \* the cells of the arguments
          Modes,                \* "rw", "trunc", "append"
          BadKinds,             \* how blocks may fail: a subset of Kinds
          DustyCalls,           \* what a dusty handle must not do: see Pinned
          MaxBad, MaxCalls      \* bounds

VARIABLES dk,           \* what is programmed in each block
          bad,          \* how each block fails
          entry,        \* the directory entry of the file
          hs,           \* the handles, lfs_file_t
          call,         \* the last call
          got,          \* what the last read returned
          view,         \* what each handle reads, and
          stored        \* a mount finds: both follow from the rest

vars == <<dk, bad, entry, hs, call, got, view, stored>>

Block == 1..BLOCKS
Kinds == {"erase", "first", "later", "flush"}
INLINE == 0             \* LFS_BLOCK_INLINE
Closed == <<0 - 1>>      \* the view of a closed handle

Least(a, b) == IF a < b THEN a ELSE b
Most(a, b) == IF a > b THEN a ELSE b

------------------------------------------------------------------------------
(* The list of blocks: block n > 0 starts with the numbers of the blocks   *)
(* n - 1, n - 2, n - 4, ... as long as the step divides n.                 *)

Positions == 0..FILE_MAX
popc[n \in Positions] == IF n = 0 THEN 0 ELSE (n % 2) + popc[n \div 2]
ctz[n \in Positions \ {0}] == IF n % 2 = 1 THEN 0 ELSE 1 + ctz[n \div 2]
npw2[n \in Positions \ {0}] == IF n = 1 THEN 0 ELSE 1 + npw2[(n + 1) \div 2]

\* lfs_ctz_index: the block of a position, and the place in the block.  With
\* blocks of 6 cells it is right up to position 31, where FILE_MAX ends.
Index ==
  [pos \in Positions |->
    LET b == BLOCK_SIZE - 2
        i == (pos - (popc[pos \div b - 1] + 2)) \div b
    IN  IF pos < b THEN [i |-> 0, off |-> pos]
        ELSE [i |-> i, off |-> pos - b * i - popc[i]]]

CellAt(d, block, n) ==
  IF block \in Block /\ n <= Len(d[block]) THEN d[block][n] ELSE 0

\* lfs_ctz_find: how far to go at once, and the block number i of a list.
Skip == [current \in Positions, target \in Positions |->
          IF current <= target THEN 0
          ELSE Least(npw2[current - target + 1] - 1, ctz[current])]

NthBlock(d, head, size, i) ==
  LET walk[current \in Nat, block \in Nat] ==
        IF current <= i THEN block
        ELSE CHOOSE found \in {walk[current - 2^skip, CellAt(d, block, skip + 1)] :
                                 skip \in {Skip[current, i]}} : TRUE
  IN  walk[Index[size - 1].i, head]

Find(d, head, size, pos) ==
  LET at(index) == [block |-> NthBlock(d, head, size, index.i), off |-> index.off]
  IN  IF size = 0 THEN [block |-> INLINE, off |-> 0] ELSE at(Index[pos])

\* lfs_ctz_traverse: 0 is the mark of a pointer that leads nowhere.
Traverse(d, head, size) ==
  LET walk[block \in Nat, index \in Int] ==
        IF block \notin Block THEN {0}
        ELSE IF index = 0 THEN {block}
        ELSE LET n == 2 - (index % 2)
             IN  {block} \cup (IF n = 2 THEN {CellAt(d, block, 1)} \cap Block ELSE {})
                   \cup walk[CellAt(d, block, n), index - n]
  IN  IF size = 0 THEN {} ELSE walk[head, Index[size - 1].i]

\* The cells from pos on, up to a position to.
Cells(d, head, size, pos, to) ==
  LET At(places) ==
        LET chain == [i \in {at.i : at \in Range(places)} |-> NthBlock(d, head, size, i)]
        IN  CHOOSE cells \in {[n \in DOMAIN places |-> CellAt(d, blocks[places[n].i], places[n].off + 1)] :
                               blocks \in {chain}} : TRUE
  IN  IF to <= pos THEN <<>>
      ELSE CHOOSE cells \in {At(places) : places \in {[n \in 1..to - pos |-> Index[pos + n - 1]]}} : TRUE

------------------------------------------------------------------------------
(* A call is worked out on s: the blocks, the handle f that is called, the *)
(* blocks handed out since the last checkpoint, and the error.             *)

Cut(d, n) == SubSeq(d, 1, n)
Splice(buf, pos, cells) ==
  Cut(buf, pos) \o cells \o SubSeq(buf, pos + Len(cells) + 1, Len(buf))

\* Mutant: the blocks of a handle that another one outdated are not listed.
ListsOfDirty(f) ==
  IF ~f.open \/ f.inl THEN {}
  ELSE (IF f.dirty THEN {<<f.head, f.size>>} ELSE {})
         \cup (IF f.writing THEN {<<f.block, f.pos>>} ELSE {})

\* lfs_fs_traverse_, as far as the file goes: the list that is stored, and
\* those of the open files, by their heads and sizes.
ListsOf(f) ==
  IF ~f.open \/ f.inl THEN {}
  ELSE (IF f.dirty \/ f.dusty THEN {<<f.head, f.size>>} ELSE {})
         \cup (IF f.writing THEN {<<f.block, f.pos>>} ELSE {})

InUse(s) ==
  UNION {Traverse(s.dk, list[1], list[2]) :
           list \in (IF entry.inl THEN {} ELSE {<<entry.head, entry.size>>}) \cup ListsOf(s.f)
                      \cup UNION {ListsOf(hs[g]) : g \in Handle \ {s.h}}}

Ckpoint(s) == [s EXCEPT !.taken = {}]
Failed(s) == [s EXCEPT !.err = TRUE]

\* lfs_alloc until a block is good enough: none if the scan fails, or none is left.
Alloc(s, kinds) ==
  LET Taking(b) == [block |-> b, taken |-> s.taken \cup {c \in Block : c <= b}]
      First(ok) == Taking(CHOOSE c \in ok : \A o \in ok : c <= o)
      Outside(used) == IF 0 \in used THEN {} ELSE {b \in Block \ used : bad[b] \notin kinds}
      FirstOf(ok) == IF ok = {} THEN [block |-> 0, taken |-> s.taken] ELSE First(ok)
  IN  FirstOf(Outside(InUse(s) \cup s.taken))

\* lfs_ctz_extend: a copy of the last block, or a new one behind it.
NewHead(d, head, size) ==
  LET ptr[n \in Nat] == IF n = 1 THEN head ELSE CellAt(d, ptr[n - 1], n - 1)
      After(last) == IF last.off + 1 # BLOCK_SIZE THEN Cut(d[head], last.off + 1)
                     ELSE [n \in 1..ctz[last.i + 1] + 1 |-> ptr[n]]
  IN  IF size = 0 THEN <<>> ELSE After(Index[size - 1])

\* Takes the block to write at next; the one to extend is looked up first if
\* nothing was written yet.
Extend(s) ==
  LET f == s.f
      head == IF ~f.writing /\ f.pos > 0 THEN Find(s.dk, f.head, f.size, f.pos - 1).block
              ELSE f.block
      With(t, a) == IF a.block = 0 THEN {Failed(t)}
                    ELSE {[t EXCEPT !.dk[a.block] = new, !.taken = a.taken, !.f.block = a.block,
                                    !.f.off = Len(new), !.f.writing = TRUE] :
                           new \in {NewHead(t.dk, t.f.block, t.f.pos)}}
  IN  UNION {With(t, Alloc(t, {"erase"})) : t \in {Ckpoint([s EXCEPT !.f.block = head])}}

\* lfs_file_relocate: what exists into a new block.
Relocate(s) ==
  UNION {IF a.block = 0 THEN {Failed(s)}
         ELSE {[s EXCEPT !.dk[a.block] = Cut(IF s.f.inl THEN s.f.buf ELSE s.dk[s.f.block], s.f.off),
                         !.taken = a.taken, !.f.block = a.block, !.f.writing = TRUE]}
         : a \in {Alloc(s, {"erase", "first", "later"})}}

\* lfs_file_outline
Outline(s) ==
  {IF r.err THEN r ELSE [r EXCEPT !.f.inl = FALSE] :
     r \in Relocate(Ckpoint([s EXCEPT !.f.off = s.f.pos]))}

\* One round of lfs_file_flushedwrite: what fits into the block.
Chunk(x) ==
  LET s == x.s
      f == s.f
      next == IF f.writing /\ f.off # BLOCK_SIZE THEN {s}
              ELSE IF f.inl THEN {[s EXCEPT !.f.block = INLINE, !.f.off = f.pos, !.f.writing = TRUE]}
              ELSE Extend(s)
      kind == IF f.writing /\ f.off # BLOCK_SIZE THEN "later" ELSE "first"
      Good(t) == IF ~t.err /\ ~t.f.inl /\ bad[t.f.block] = kind THEN Relocate(t) ELSE {t}
      Put(t) ==
        LET n == Least(Len(x.rest), BLOCK_SIZE - t.f.off)
            cells == SubSeq(x.rest, 1, n)
            at == [t EXCEPT !.f.pos = @ + n, !.f.off = @ + n]
        IN  IF t.err THEN [s |-> t, rest |-> <<>>]
            ELSE [s |-> Ckpoint(IF t.f.inl THEN [at EXCEPT !.f.buf = Splice(@, t.f.off, cells)]
                                ELSE [at EXCEPT !.dk[t.f.block] = Cut(@, t.f.off) \o cells]),
                  rest |-> SubSeq(x.rest, n + 1, Len(x.rest))]
  IN  IF x.rest = <<>> THEN {x} ELSE {Put(t) : t \in UNION {Good(u) : u \in next}}

\* lfs_file_flushedwrite
WriteAll(s, cells) ==
  LET run[n \in Nat] == IF n = 0 THEN {[s |-> s, rest |-> cells]}
                        ELSE UNION {Chunk(x) : x \in run[n - 1]}
  IN  IF s.err THEN {s} ELSE {x.s : x \in run[Len(cells)]}

WriteCells(s, cells) ==
  LET TooLong == s.f.inl /\ Most(s.f.pos + Len(cells), s.f.size) > INLINE_MAX
  IN  {IF t.err THEN [t EXCEPT !.f.erred = TRUE] ELSE t :
         t \in UNION {WriteAll(u, cells) : u \in IF TooLong THEN Outline(s) ELSE {s}}}

\* lfs_file_flush: what follows the cells written is copied behind them.
Flush(s) ==
  LET pos == s.f.pos
      r == [s EXCEPT !.f.reading = FALSE]
      tail == Cells(s.dk, s.f.head, s.f.size, pos, s.f.size)
      Sound(t) == IF ~t.err /\ bad[t.f.block] = "flush"
                  THEN Relocate(t) ELSE {t}
      Done(t) == [t EXCEPT !.f.head = t.f.block, !.f.size = t.f.pos, !.f.writing = FALSE,
                           !.f.dirty = TRUE, !.f.pos = pos]
  IN  IF ~s.f.writing THEN {r}
      ELSE IF s.f.inl THEN {Done([r EXCEPT !.f.pos = Most(pos, s.f.size)])}
      ELSE {IF t.err THEN t ELSE Done(t) : t \in UNION {Sound(u) : u \in WriteCells(r, tail)}}

FileSize(f) == IF f.writing THEN Most(f.pos, f.size) ELSE f.size

\* lfs_file_flushedread: x gathers the cells read.
ReadRound(x, n) ==
  LET s == x.s
      f == s.f
      left == Least(n, x.to - f.pos)
      at == IF f.reading /\ f.off # BLOCK_SIZE THEN [block |-> f.block, off |-> f.off]
            ELSE IF f.inl THEN [block |-> INLINE, off |-> f.pos]
            ELSE Find(s.dk, f.head, f.size, f.pos)
      m == Least(left, BLOCK_SIZE - at.off)
      Cell(i) == IF f.inl THEN f.buf[i] ELSE CellAt(s.dk, at.block, i)
  IN  IF left <= 0 THEN x
      ELSE [x EXCEPT !.s.f = [f EXCEPT !.reading = TRUE, !.block = at.block, !.off = at.off + m,
                                       !.pos = @ + m],
                     !.cells = @ \o [i \in 1..m |-> Cell(at.off + i)]]

ReadCells(s, n) ==
  LET to == Least(s.f.pos + n, s.f.size)
      run[k \in Nat] == IF k = 0 THEN {[s |-> s, to |-> to, cells |-> <<>>]}
                        ELSE {ReadRound(x, n) : x \in run[k - 1]}
  IN  run[n]

\* lfs_file_seek_: within the block that is read there is no need to flush, if
\* the cache happens to hold the place.
SeekTo(s, npos) ==
  LET f == s.f
      near == /\ f.reading /\ f.off # BLOCK_SIZE
              /\ Index[f.pos].i = Index[npos].i
  IN  IF npos = f.pos THEN {s}
      ELSE {IF t.err THEN t ELSE [t EXCEPT !.f.pos = npos] : t \in Flush(s)}
             \cup IF near THEN {[s EXCEPT !.f.pos = npos, !.f.off = Index[npos].off]} ELSE {}

\* Those of op that follow without an error
Then(states, op(_)) == UNION {IF t.err THEN {t} ELSE op(t) : t \in states}

Zeros(n) == [i \in 1..Most(0, n) |-> 0]

\* lfs_file_write_
WriteTo(s, cells) ==
  LET clean == IF s.f.reading THEN Flush(s) ELSE {s}
      AtEnd(t) == {IF t.f.append /\ t.f.pos < t.f.size THEN [t EXCEPT !.f.pos = t.f.size] ELSE t}
      Fill(t) == IF t.f.writing \/ t.f.pos <= t.f.size THEN {t}
                 ELSE WriteCells([t EXCEPT !.f.pos = t.f.size], Zeros(t.f.pos - t.f.size))
      Fits(t) == {IF t.f.pos + Len(cells) > FILE_MAX THEN Failed(t) ELSE t}
      Put(t) == WriteCells(t, cells)
      Reset(t) == {[t EXCEPT !.f.dusty = FALSE, !.f.erred = FALSE]}
  IN  Then(Then(Then(Then(Then(clean, AtEnd), Fits), Fill), Put), Reset)

\* lfs_file_truncate_
ToInline(s, size) ==
  LET In(x) == [x.s EXCEPT !.f.head = INLINE, !.f.size = size, !.f.dirty = TRUE, !.f.reading = TRUE,
                           !.f.inl = TRUE, !.f.buf = x.cells]
      Cut0(t) == {In(x) : x \in ReadCells(t, size)}
  IN  Then(SeekTo(s, 0), Cut0)

\* Mutant: a truncation leaves the position where it was flushed.
ToFewerInPlace(s, size) ==
  LET Cut0(t) == {[t EXCEPT !.f.block = Find(t.dk, t.f.head, t.f.size, size - 1).block,
                            !.f.head = Find(t.dk, t.f.head, t.f.size, size - 1).block,
                            !.f.size = size, !.f.dirty = TRUE, !.f.reading = TRUE]}
  IN  Then(Flush(s), Cut0)

ToFewer(s, size) ==
  LET Cut0(t) ==
        LET block == Find(t.dk, t.f.head, t.f.size, size - 1).block
        IN  {[t EXCEPT !.f.block = block, !.f.pos = size, !.f.head = block, !.f.size = size,
                       !.f.dirty = TRUE, !.f.reading = TRUE]}
  IN  Then(Flush(s), Cut0)

ToMore(s, size) ==
  LET Fill(t) == WriteTo(t, Zeros(size - t.f.pos))
  IN  Then(SeekTo(s, FileSize(s.f)), Fill)

TruncateTo(s, size) ==
  LET Back(t) == SeekTo(t, s.f.pos)
  IN  Then(IF size < FileSize(s.f)
           THEN (IF size <= INLINE_MAX THEN ToInline(s, size) ELSE ToFewer(s, size))
           ELSE IF size > FileSize(s.f) THEN ToMore(s, size) ELSE {s}, Back)

------------------------------------------------------------------------------
(* The calls                                                               *)

\* What a handle reads: what it wrote behind the last flush, and behind that
\* what was there.
View(d, f) ==
  IF ~f.open THEN Closed
  ELSE IF f.inl THEN Cut(f.buf, FileSize(f))
  ELSE IF f.writing
  THEN Cells(d, f.block, f.pos, 0, f.pos) \o Cells(d, f.head, f.size, f.pos, f.size)
  ELSE Cells(d, f.head, f.size, 0, f.size)

Contents(d, e) == IF e.inl THEN e.buf ELSE Cells(d, e.head, e.size, 0, e.size)

Shown == /\ view' = [h \in Handle |-> View(dk', hs'[h])]
         /\ stored' = Contents(dk', entry')

NoFile == [open |-> FALSE, append |-> FALSE, pos |-> 0, off |-> 0, block |-> INLINE, head |-> INLINE,
           size |-> 0, buf |-> <<>>, inl |-> TRUE, reading |-> FALSE, writing |-> FALSE,
           dirty |-> FALSE, dusty |-> FALSE, erred |-> FALSE]

On(h) == [dk |-> dk, h |-> h, f |-> hs[h], taken |-> {}, err |-> FALSE]

\* What a call of h did, with result s.
Returns(op, h, n, s) ==
  /\ dk' = s.dk /\ hs' = [hs EXCEPT ![h] = s.f]
  /\ call' = [op |-> op, h |-> h, n |-> n, ok |-> ~s.err, append |-> s.f.append,
              count |-> call.count + 1]
  /\ UNCHANGED bad

Calls(h) == hs[h].open /\ call.count < MaxCalls

Open(h, mode) ==
  /\ ~hs[h].open /\ call.count < MaxCalls
  /\ LET kept == [NoFile EXCEPT !.open = TRUE, !.append = (mode = "append"),
                                !.head = entry.head, !.size = entry.size, !.inl = entry.inl,
                                !.buf = entry.buf]
         f == IF mode = "trunc" THEN [NoFile EXCEPT !.open = TRUE, !.dirty = TRUE] ELSE kept
     IN  Returns("open", h, IF mode = "trunc" THEN 0 ELSE 1, [On(h) EXCEPT !.f = f])
  /\ got' = <<>> /\ UNCHANGED entry

Read(h, n) ==
  /\ Calls(h)
  /\ \E s \in (IF hs[h].writing THEN Flush(On(h)) ELSE {On(h)}) :
       IF s.err THEN Returns("read", h, n, s) /\ got' = <<>>
       ELSE \E x \in ReadCells(s, n) : Returns("read", h, n, x.s) /\ got' = x.cells
  /\ UNCHANGED entry

\* A write, and a sync that has nothing to store, take from a dusty handle the
\* mark that keeps its blocks in use.
Pinned(h) == ~DustyCalls /\ hs[h].dusty
Unsynced(h) == hs[h].dirty \/ hs[h].writing

MayChange(h) == Calls(h) /\ ~Pinned(h)

Write(h, n) ==
  /\ MayChange(h)
  /\ \E s \in WriteTo(On(h), [i \in 1..n |-> call.count + 1]) : Returns("write", h, n, s)
  /\ got' = <<>> /\ UNCHANGED entry

Seek(h, n) ==
  /\ Calls(h) /\ n # hs[h].pos
  /\ \E s \in SeekTo(On(h), n) : Returns("seek", h, n, s)
  /\ got' = <<>> /\ UNCHANGED entry

Truncate(h, n) ==
  /\ MayChange(h)
  /\ \E s \in TruncateTo(On(h), n) : Returns("truncate", h, n, s)
  /\ got' = <<>> /\ UNCHANGED entry

\* lfs_file_sync_: the other handles of the file get dusty.
Stored(f) == [head |-> f.head, size |-> f.size, inl |-> f.inl,
              buf |-> IF f.inl THEN Cut(f.buf, f.size) ELSE <<>>]

SyncDone(h, s, f) ==
  /\ dk' = s.dk /\ entry' = IF s.f.dirty THEN Stored(s.f) ELSE entry
  /\ hs' = [g \in Handle |-> IF g = h THEN f
                             ELSE IF hs[g].open THEN [hs[g] EXCEPT !.dusty = TRUE] ELSE hs[g]]

CallOf(op, h, ok) ==
  /\ call' = [op |-> op, h |-> h, n |-> 0, ok |-> ok, append |-> FALSE, count |-> call.count + 1]
  /\ got' = <<>> /\ UNCHANGED bad

Sync(h) ==
  /\ Calls(h) /\ (Pinned(h) => Unsynced(h))
  /\ \E s \in Flush(On(h)) :
       /\ ~s.err /\ CallOf("sync", h, TRUE)
       /\ SyncDone(h, s, [s.f EXCEPT !.dirty = FALSE, !.dusty = FALSE, !.erred = FALSE])

\* There is no room for the data or for the commit.
SyncFails(h) ==
  /\ Calls(h)
  /\ \E s \in Flush(On(h)) :
       /\ s.err \/ s.f.dirty
       /\ CallOf("sync", h, FALSE)
       /\ dk' = s.dk /\ hs' = [hs EXCEPT ![h] = [s.f EXCEPT !.erred = TRUE]]
       /\ UNCHANGED entry

\* lfs_file_close_: a sync, which may fail, unless a call failed.
Close(h) ==
  /\ Calls(h)
  /\ IF hs[h].erred
     THEN CallOf("close", h, FALSE) /\ hs' = [hs EXCEPT ![h] = NoFile] /\ UNCHANGED <<dk, entry>>
     ELSE \E s \in Flush(On(h)) :
            \/ ~s.err /\ CallOf("close", h, TRUE) /\ SyncDone(h, s, NoFile)
            \/ /\ s.err \/ s.f.dirty
               /\ CallOf("close", h, FALSE)
               /\ dk' = s.dk /\ hs' = [hs EXCEPT ![h] = NoFile] /\ UNCHANGED entry

PowerLoss ==
  /\ \E h \in Handle : hs[h].open
  /\ call.count < MaxCalls
  /\ hs' = [h \in Handle |-> NoFile]
  /\ \E h \in Handle : CallOf("loss", h, TRUE)
  /\ UNCHANGED <<dk, entry>>

\* A file of n cells that lies in the blocks from 1 on.
FirstEntry(n) == [head |-> IF n <= INLINE_MAX THEN INLINE ELSE Index[n - 1].i + 1, size |-> n,
                  inl |-> n <= INLINE_MAX, buf |-> IF n <= INLINE_MAX THEN [i \in 1..n |-> 0] ELSE <<>>]

FirstBlock(n, b) ==
  LET here == {p \in 0..n - 1 : Index[p].i = b - 1}
      pointers == IF b = 1 THEN <<>> ELSE [j \in 1..ctz[b - 1] + 1 |-> b - 2^(j - 1)]
  IN  IF n <= INLINE_MAX \/ here = {} THEN <<>>
      ELSE pointers \o [p \in 1..Cardinality(here) |-> 0]

Init ==
  /\ bad \in {b \in [Block -> BadKinds \cup {"good"}] :
                Cardinality({c \in Block : b[c] # "good"}) <= MaxBad}
  /\ hs = [h \in Handle |-> NoFile]
  /\ \E n \in FileSizes : /\ entry = FirstEntry(n)
                          /\ dk = [b \in Block |-> FirstBlock(n, b)]
  /\ call = [op |-> "none", h |-> "none", n |-> 0, ok |-> TRUE, append |-> FALSE, count |-> 0]
  /\ got = <<>>
  /\ view = [h \in Handle |-> Closed] /\ stored = Contents(dk, entry)

Call ==
  \/ \E h \in Handle :
       \/ \E mode \in Modes : Open(h, mode)
       \/ \E n \in Writes : Write(h, n) \/ Read(h, n)
       \/ \E n \in Seeks : Seek(h, n)
       \/ \E n \in Truncs : Truncate(h, n)
       \/ Sync(h) \/ SyncFails(h) \/ Close(h)
  \/ PowerLoss

Next == Call /\ Shown

Spec == Init /\ [][Next]_vars

------------------------------------------------------------------------------
(* Properties                                                              *)

Views == INSTANCE FileView
  WITH pos <- [h \in Handle |-> hs[h].pos],
       unsynced <- {h \in Handle : Unsynced(h)}

\* Every handle reads what it opened with its own writes and truncations on
\* it, whatever other handles store, free and overwrite; a sync or a close
\* stores this and nothing else does; a bad block, a file system that is full
\* and a power loss change none of it (lfs_file_write_ to lfs_file_sync_, with
\* lfs_fs_traverse_ for what must not be overwritten).
ImplementsFileView == Views!Spec

\* What the model stores fits: no block is overfull, and an inline file is
\* as long as its cache says and fits the entry.
TypeOK ==
  /\ \A b \in Block : Len(dk[b]) <= BLOCK_SIZE
  /\ \A h \in Handle : hs[h].inl => FileSize(hs[h]) = Len(hs[h].buf) /\ hs[h].size <= INLINE_MAX
  /\ entry.inl => entry.size <= INLINE_MAX

\* A handle that goes on reading where it stopped, or that seeks within the
\* block it has (lfs_file_seek_), is at the block and the place its position
\* has in its list: also after the list was truncated under it
\* (lfs_file_truncate_, "so seeking back ... does not get confused").
PlaceFollows ==
  \A h \in Handle :
    LET f == hs[h] IN
    f.open /\ f.reading /\ ~f.inl /\ f.off # BLOCK_SIZE /\ f.pos < f.size =>
      Find(dk, f.head, f.size, f.pos) = [block |-> f.block, off |-> f.off]

\* Every handle is where its position says, in blocks that hold what they can
\* (lfs_file_truncate_, lfs_file_flushedwrite).
Inv == TypeOK /\ PlaceFollows
===============================================================================
