-------------------------------- MODULE LfsPair -------------------------------
(***************************************************************************)
(* One metadata pair of littlefs: the commits to it (lfs_dir_commit,       *)
(* lfs_dir_compact, lfs_dir_commitcrc), the fetch that finds its entries   *)
(* again (lfs_dir_fetchmatch), power losses at every prog and blocks that  *)
(* go bad.                                                                 *)
(*                                                                         *)
(* A block is a revision and UNITS program units.  A unit holds one tag    *)
(* with its data; the tag that ends a commit holds the forward crc too.    *)
(* Of the exclusive-or that chains tags only bit 31 is kept: top is that   *)
(* bit as it is on disk, and a tag is valid if it equals the bit the tag   *)
(* before it left.  A checksum matches what it was computed from only.     *)
(***************************************************************************)
EXTENDS LfsTags, FiniteSets

CONSTANTS BLOCKS,           \* blocks 1 and 2 are the pair, the others are free
          UNITS,            \* program units of a block after its revision
          REVS,             \* revisions are counted modulo REVS
          CYCLES,           \* (block_cycles + 1) | 1, 0: pairs never move
          Name, Content,    \* numbers from 1 on
          FirstName,        \* the file the pair starts with
          EMPTY,            \* the content of a new file
          ErasedTo,         \* what an erase leaves: "ones" or "anything"
          StaleSyncs,       \* a file is synced after a commit to its pair failed
          MaxCommits, MaxLosses, MaxBad     \* bounds

\* Numbers name files and contents; the pair starts with five units used.
ASSUME PairAssumption ==
  /\ BLOCKS \in Nat /\ BLOCKS >= 2 /\ UNITS \in Nat /\ UNITS >= 5
  /\ REVS \in Nat /\ REVS >= 4 /\ CYCLES \in Nat
  /\ Name \subseteq Nat \ {0} /\ FirstName \in Name
  /\ Content \subseteq Nat \ {0} /\ EMPTY \in Content
  /\ ErasedTo \subseteq {"ones", "anything"} /\ StaleSyncs \in BOOLEAN
  /\ MaxCommits \in Nat /\ MaxLosses \in Nat /\ MaxBad \in Nat

VARIABLES dev,          \* the blocks
          bad,          \* blocks that refuse or ignore progs, or belong to others
          erasing,      \* member of ErasedTo
          parent,       \* the pair as the rest of the file system knows it
          dir,          \* the lfs_mdir_t of an open file in the pair
          op,           \* the commit in progress
          found,        \* what a mount and a fetch would find now
          programmed,   \* last unit programmed since the block was erased
          commits, losses

device == <<dev, found, programmed>>
vars == <<device, bad, erasing, parent, dir, op, commits, losses>>

Block == 1..BLOCKS
Units == 1..UNITS
Bits == {0, 1}

------------------------------------------------------------------------------
(* Words on disk and the fetch                                             *)

Word(top, tag) == [top |-> top, tag |-> tag, covers |-> <<>>, fcrc |-> <<>>]
Blank == Word(1, Tag("blank", 0, 0))
Junk(top, n) == Word(top, Tag("junk", n, 0))
IsAttr(w) == w.tag.type \in {"create", "delete", "name", "struct"}

\* What a crc sees of a unit.
Digest(w) == <<w.top, w.tag>>
NoFcrc == <<>>

\* lfs_scmp of revisions
Scmp(a, b) == LET d == (a - b + REVS) % REVS
              IN  IF d < REVS \div 2 THEN d ELSE d - REVS

\* What the tag of unit i leaves for bit 31 of the next; 0 is the start.
LeftTop(units, i) ==
  CASE i = 0 -> 1
    [] i > 0 /\ units[i].tag.type = "crc" -> units[i].tag.id
    [] OTHER -> 0

\* Units i + 1 to j hold one whole commit: valid tags, the last one a crc of
\* all before it, in the first commit of the revision too.
Header(rev, i) == IF i = 0 THEN <<<<1, Tag("rev", rev, 0)>>>> ELSE <<>>

IsCommit(blocks, b, i, j) ==
  LET units == blocks[b].units
  IN  /\ units[j].tag.type = "crc"
      /\ \A k \in i + 1..j : units[k].top = LeftTop(units, k - 1)
      /\ \A k \in i + 1..j - 1 : IsAttr(units[k])
      /\ units[j].covers = Header(blocks[b].rev, i) \o [k \in 1..j - i - 1 |-> Digest(units[i + k])]

\* The end of the last commit that a scan from the start reaches.
ScanEnd(blocks, b) ==
  LET from[i \in 0..UNITS] ==
        IF \E j \in i + 1..UNITS : IsCommit(blocks, b, i, j)
        THEN from[CHOOSE j \in i + 1..UNITS : IsCommit(blocks, b, i, j)] ELSE i
  IN  from[0]

LogOf(blocks, b, off) ==
  LET units == blocks[b].units
      upto[i \in 0..off] ==
        CASE i = 0 -> <<>>
          [] i > 0 /\ units[i].tag.type # "crc" -> Append(upto[i - 1], units[i].tag)
          [] OTHER -> upto[i - 1]
  IN  upto[off]

\* Mutant: the forward crc is not looked at.
SeemsErasedUnchecked(blocks, b, off) ==
  off < UNITS /\ blocks[b].units[off + 1].top # LeftTop(blocks[b].units, off)

\* Behind the last commit: no valid tag, and the unit the forward crc saw.
SeemsErased(blocks, b, off) ==
  LET units == blocks[b].units
  IN  /\ off < UNITS
      /\ units[off + 1].top # LeftTop(units, off)
      /\ units[off].fcrc = Digest(units[off + 1])

\* lfs_dir_fetch: the block with the later revision, or the other one.
NoDir == [pair |-> <<>>, rev |-> 0, off |-> 0, top |-> 1, erased |-> FALSE, log |-> <<>>]

FetchOrder(blocks, pair) ==
  IF Scmp(blocks[pair[2]].rev, blocks[pair[1]].rev) > 0 THEN <<pair[2], pair[1]>> ELSE pair

DirAt(blocks, pair) ==
  [off \in 0..UNITS |->
     [pair |-> pair, rev |-> blocks[pair[1]].rev, off |-> off,
      top |-> LeftTop(blocks[pair[1]].units, off),
      erased |-> SeemsErased(blocks, pair[1], off), log |-> LogOf(blocks, pair[1], off)]]

Fetch(blocks, pair) ==
  LET p == FetchOrder(blocks, pair)
  IN  CASE ScanEnd(blocks, p[1]) > 0 -> DirAt(blocks, p)[ScanEnd(blocks, p[1])]
        [] ScanEnd(blocks, p[1]) = 0 /\ ScanEnd(blocks, p[2]) > 0 ->
             DirAt(blocks, <<p[2], p[1]>>)[ScanEnd(blocks, p[2])]
        [] OTHER -> NoDir

------------------------------------------------------------------------------
(* The device                                                              *)

Refetch == found' = Fetch(dev', parent)

\* A unit is programmed unless the block ignores it.
Prog(b, i, w) ==
  IF bad[b] = "noop" THEN UNCHANGED device
  ELSE /\ dev' = [dev EXCEPT ![b].units[i] = w]
       /\ programmed' = [programmed EXCEPT ![b] = IF @ < i THEN i ELSE @]
       /\ Refetch

Refuses(b) == bad[b] = "error"

BlankUnits == [i \in Units |-> Blank]

EraseBlock(b) ==
  IF bad[b] = "noop" THEN UNCHANGED device
  ELSE /\ dev' = IF erasing = "ones"
                 THEN [dev EXCEPT ![b] = [rev |-> REVS - 1, units |-> BlankUnits]]
                 ELSE dev
       /\ programmed' = [programmed EXCEPT ![b] = 0]
       /\ Refetch

------------------------------------------------------------------------------
(* The commit in progress.  pc is what is done next; block, off, top and   *)
(* covers are struct lfs_commit.                                           *)

Idle == [pc |-> "idle", mode |-> "none", dir |-> NoDir, attrs |-> <<>>, words |-> <<>>,
         block |-> 0, off |-> 0, top |-> 1, covers |-> <<>>, tired |-> FALSE,
         relocated |-> FALSE, tried |-> {}, target |-> <<>>, result |-> "none"]

\* A directory of one file as its last compaction left it; the other block
\* still holds the revision before, a commit longer.
CrcOf(top, covers, next) ==
  [top |-> top, tag |-> Tag("crc", 0, 0), covers |-> covers, fcrc |-> Digest(next)]

FirstRev == REVS - 2
FirstLog == <<Tag("name", 0, FirstName), Tag("struct", 0, EMPTY)>>
FirstUnits(rev, after) ==
  [BlankUnits EXCEPT ![1] = Word(1, FirstLog[1]), ![2] = Word(0, FirstLog[2]),
                     ![3] = CrcOf(0, Header(rev, 0) \o <<<<1, FirstLog[1]>>, <<0, FirstLog[2]>>>>,
                                  Blank),
                     ![4] = after[1], ![5] = after[2]]
FirstBlock == [rev |-> FirstRev, units |-> FirstUnits(FirstRev, <<Blank, Blank>>)]
OldBlock ==
  [rev |-> FirstRev - 1,
   units |-> FirstUnits(FirstRev - 1,
               <<Word(0, FirstLog[2]), CrcOf(0, <<<<0, FirstLog[2]>>>>, Blank)>>)]

\* A device without free blocks is looked at with one way to erase only.
Init ==
  /\ parent = <<1, 2>> /\ erasing \in ErasedTo
  /\ dev = [b \in Block |-> CASE b = 1 -> FirstBlock [] b = 2 -> OldBlock
                               [] OTHER -> [rev |-> REVS - 1, units |-> BlankUnits]]
  /\ dir = [pair |-> parent, rev |-> FirstRev, off |-> 3, top |-> 0,
            erased |-> TRUE, log |-> FirstLog]
  /\ found = dir
  /\ bad \in {[b \in Block |-> IF b \in taken THEN "taken" ELSE "no"] :
               taken \in IF erasing = "ones" THEN {{}, 3..BLOCKS} ELSE {{}}}
  /\ op = Idle
  /\ programmed = [b \in Block |-> CASE b = 1 -> 3 [] b = 2 -> 5 [] OTHER -> 0]
  /\ commits = 0 /\ losses = 0

\* lfs_dir_relocatingcommit: append if the rest of the block is erased.
Begin(d, attrs) ==
  LET words == Expand(d.log, attrs)
      new == [Idle EXCEPT !.dir = d, !.attrs = attrs, !.target = Replay(d.log \o words)]
  IN  /\ op.pc = "idle" /\ commits < MaxCommits /\ commits' = commits + 1
      /\ op' = IF d.erased
               THEN [new EXCEPT !.pc = "write", !.mode = "append", !.words = words,
                                !.block = d.pair[1], !.off = d.off, !.top = d.top]
               ELSE [new EXCEPT !.pc = "compact"]
      /\ UNCHANGED <<device, bad, erasing, parent, dir, losses>>

\* lfs_file_open with LFS_O_CREAT: an empty file
Create ==
  \E n \in Name :
    LET f == Find(found.log, n)
    IN  /\ ~f.found
        /\ Begin(found, <<Tag("create", f.id, 0), Tag("name", f.id, n),
                          Tag("struct", f.id, EMPTY)>>)

\* The lfs_mdir_t of the open file is what a fetch finds.  It may not know of
\* erased units behind the last commit, and a full block has none.
Current ==
  /\ dir = [found EXCEPT !.erased = dir.erased]
  /\ dir.erased => found.erased \/ dir.off = UNITS

\* lfs_file_sync of an open file, with the lfs_mdir_t it keeps
Sync ==
  /\ StaleSyncs \/ Current
  /\ \E id \in 0..Count(dir.log) - 1, c \in Content : Begin(dir, <<Tag("struct", id, c)>>)

\* lfs_remove
Remove ==
  \E n \in Name :
    LET f == Find(found.log, n)
    IN  f.found /\ Begin(found, <<Tag("delete", f.id, 0)>>)

\* lfs_rename inside one pair
Rename ==
  \E n, m \in Name :
    LET old == Find(found.log, n)
        new == Find(found.log, m)
        newold == IF ~new.found /\ new.id <= old.id THEN old.id + 1 ELSE old.id
        replaced == IF new.found THEN <<Tag("delete", new.id, 0)>> ELSE <<>>
    IN  /\ n # m /\ old.found
        /\ Begin(found, replaced \o <<Tag("create", new.id, 0), Tag("name", new.id, m),
                                       Tag("move", new.id, old.id), Tag("delete", newold, 0)>>)

\* The end of a commit.
Return(result) == op' = [Idle EXCEPT !.result = result]

\* Mutant: a compaction that fails is tried on the same block again.
CorruptRetry == IF op.mode = "append" THEN [op EXCEPT !.pc = "compact"]
                ELSE [op EXCEPT !.pc = "erase"]

\* LFS_ERR_CORRUPT from the device or the check.
Corrupt == IF op.mode = "append" THEN [op EXCEPT !.pc = "compact"]
           ELSE [op EXCEPT !.pc = "relocate", !.relocated = TRUE]

\* lfs_dir_compact up to its loop; lfs_dir_needsrelocation
StartCompact ==
  LET rev == (op.dir.rev + 1) % REVS
      tired == CYCLES > 0 /\ rev % CYCLES = 0
  IN  /\ op.pc = "compact"
      /\ op' = [op EXCEPT !.mode = "compact", !.tired = tired, !.relocated = tired,
                          !.dir.rev = rev,
                          !.words = Compacted(op.dir.log, op.attrs, 0,
                                              Count(op.dir.log \o op.attrs)),
                          !.pc = IF tired THEN "relocate" ELSE "erase"]
      /\ UNCHANGED <<device, bad, erasing, parent, dir, commits, losses>>

\* relocate: half of the pair moves to a block that nothing uses.
Free == {b \in Block : bad[b] # "taken"}
          \ ({parent[1], parent[2], op.dir.pair[1], op.dir.pair[2]} \cup op.tried)

Relocate ==
  /\ op.pc = "relocate"
  /\ \/ \E b \in Free :
          op' = [op EXCEPT !.pc = "erase", !.tired = FALSE, !.dir.pair[2] = b,
                           !.tried = @ \cup {b}]
     \/ /\ Free = {} /\ op.tired
        /\ op' = [op EXCEPT !.pc = "erase", !.tired = FALSE]
     \/ Free = {} /\ ~op.tired /\ Return("nospc")
  /\ UNCHANGED <<device, bad, erasing, parent, dir, commits, losses>>

Erase ==
  LET b == op.dir.pair[2]
  IN  /\ op.pc = "erase"
      /\ IF Refuses(b)
         THEN op' = Corrupt /\ UNCHANGED device
         ELSE /\ EraseBlock(b)
              /\ op' = [op EXCEPT !.pc = "rev", !.block = b, !.off = 0, !.top = 1]
      /\ UNCHANGED <<bad, erasing, parent, dir, commits, losses>>

ProgRevision(b, rev) ==
  /\ dev' = [dev EXCEPT ![b].rev = rev]
  /\ Refetch /\ UNCHANGED programmed

ProgRev ==
  /\ op.pc = "rev"
  /\ IF Refuses(op.block)
     THEN op' = Corrupt /\ UNCHANGED device
     ELSE /\ IF bad[op.block] = "noop" THEN UNCHANGED device
             ELSE ProgRevision(op.block, op.dir.rev)
          /\ op' = [op EXCEPT !.pc = "write", !.covers = Header(op.dir.rev, 0)]
  /\ UNCHANGED <<bad, erasing, parent, dir, commits, losses>>

\* The next tag to write: lfs_dir_commitattr leaves room for a crc.
Written == Len(op.covers) - (IF op.mode = "compact" THEN 1 ELSE 0)
Pending == op.pc = "write" /\ Written < Len(op.words)
NextWord == Word(op.top, op.words[Written + 1])

\* commit->end leaves room for the crc.
Room(off) == off + 1 <= UNITS - 1

CommitAttr ==
  /\ Pending
  /\ IF ~Room(op.off)
     THEN /\ IF op.mode = "append" THEN op' = [op EXCEPT !.pc = "compact"] ELSE Return("nospc")
          /\ UNCHANGED device
     ELSE IF Refuses(op.block)
     THEN op' = Corrupt /\ UNCHANGED device
     ELSE /\ Prog(op.block, op.off + 1, NextWord)
          /\ op' = [op EXCEPT !.off = @ + 1, !.top = 0, !.covers = Append(@, Digest(NextWord))]
  /\ UNCHANGED <<bad, erasing, parent, dir, commits, losses>>

\* Mutant: the commit's padding is not perturbed.
EperturbNone(b, i) == 1

\* lfs_dir_commitcrc: eperturb makes the next prog change bit 31 of the unit
\* behind the commit, and the forward crc tells whether it still is erased.
Eperturb(b, i) == IF i <= UNITS THEN dev[b].units[i].top ELSE 1
Fcrc(b, i) == IF i <= UNITS THEN Digest(dev[b].units[i]) ELSE NoFcrc

CrcWord ==
  [top |-> op.top, tag |-> Tag("crc", 1 - Eperturb(op.block, op.off + 2), 0),
   covers |-> op.covers, fcrc |-> Fcrc(op.block, op.off + 2)]

CommitCrc ==
  /\ op.pc = "write" /\ ~Pending
  /\ IF Refuses(op.block)
     THEN op' = Corrupt /\ UNCHANGED device
     ELSE /\ Prog(op.block, op.off + 1, CrcWord)
          /\ op' = [op EXCEPT !.pc = "verify", !.off = @ + 1, !.top = CrcWord.tag.id]
  /\ UNCHANGED <<bad, erasing, parent, dir, commits, losses>>

\* The commit is read back and compared with the checksums of what was meant.
ReadsBack ==
  LET b == dev[op.block]
      begin == op.off - 1 - Len(op.words)
      read == [i \in 1..Len(op.words) |-> Digest(b.units[begin + i])]
      crc == b.units[op.off]
  IN  /\ op.covers = (IF op.mode = "compact" THEN Header(b.rev, 0) ELSE <<>>) \o read
      /\ crc.tag.type = "crc" /\ crc.covers = op.covers

Updated ==
  LET d == [op.dir EXCEPT !.off = op.off, !.top = op.top]
  IN  IF op.mode = "append" THEN [d EXCEPT !.log = @ \o op.words]
      ELSE [d EXCEPT !.log = op.words, !.pair = <<op.dir.pair[2], op.dir.pair[1]>>]

Verify ==
  /\ op.pc = "verify"
  /\ IF ~ReadsBack THEN op' = Corrupt /\ UNCHANGED dir
     ELSE /\ dir' = Updated
          /\ IF op.relocated THEN op' = [op EXCEPT !.pc = "parent", !.dir = Updated]
             ELSE Return("ok")
  /\ UNCHANGED <<device, bad, erasing, parent, commits, losses>>

\* lfs_dir_orphaningcommit: the moved pair is entered in its parent, which is
\* a commit to another pair.
UpdateParent ==
  /\ op.pc = "parent"
  /\ parent' = op.dir.pair /\ op' = [op EXCEPT !.pc = "done"]
  /\ found' = Fetch(dev, op.dir.pair)
  /\ UNCHANGED <<dev, bad, erasing, dir, programmed, commits, losses>>

Finish ==
  /\ op.pc = "done" /\ Return("ok")
  /\ UNCHANGED <<device, bad, erasing, parent, dir, commits, losses>>

------------------------------------------------------------------------------
(* The environment                                                         *)

\* What a prog or an erase leaves if the power goes while it runs: not what
\* was there before.
TornUnit ==
  \/ Pending /\ Room(op.off)
  \/ op.pc = "write" /\ ~Pending

Torn ==
  \/ UNCHANGED device
  \/ /\ TornUnit
     /\ \E top, n \in Bits :
          /\ Digest(Junk(top, n)) # Digest(dev[op.block].units[op.off + 1])
          /\ Prog(op.block, op.off + 1, Junk(top, n))
  \/ /\ op.pc = "rev" /\ bad[op.block] = "no"
     /\ \E rev \in 0..REVS - 1 : ProgRevision(op.block, rev)
  \/ /\ op.pc = "erase" /\ bad[op.dir.pair[2]] = "no"
     /\ \E rev \in 0..REVS - 1, top \in Bits :
          dev' = [dev EXCEPT ![op.dir.pair[2]] =
                   [rev |-> rev, units |-> [i \in Units |-> Junk(top, 0)]]]
     /\ programmed' = [programmed EXCEPT ![op.dir.pair[2]] = UNITS]
     /\ Refetch

\* A power loss, the mount after it, and the fetch of the pair.
PowerLoss ==
  /\ losses < MaxLosses /\ losses' = losses + 1
  /\ op.pc # "idle" /\ Torn
  /\ Return("lost")
  /\ UNCHANGED <<bad, erasing, parent, commits>>
  /\ dir' = found'

\* The open file is closed and opened again.
Reopen ==
  /\ op.pc = "idle" /\ dir # found
  /\ dir' = found
  /\ UNCHANGED <<device, bad, erasing, parent, op, commits, losses>>

GoesBad ==
  /\ Cardinality({b \in Block : bad[b] \in {"error", "noop"}}) < MaxBad
  /\ \E b \in Block, how \in {"error", "noop"} :
       bad[b] = "no" /\ bad' = [bad EXCEPT ![b] = how]
  /\ op.pc \in {"erase", "rev", "write"}
  /\ UNCHANGED <<device, erasing, parent, dir, op, commits, losses>>

CommitStep == StartCompact \/ Relocate \/ Erase \/ ProgRev \/ CommitAttr \/ CommitCrc
              \/ Verify \/ UpdateParent \/ Finish

Next ==
  \/ Create \/ Sync \/ Remove \/ Rename
  \/ StartCompact \/ Relocate \/ Erase \/ ProgRev \/ CommitAttr \/ CommitCrc
  \/ Verify \/ UpdateParent \/ Finish
  \/ PowerLoss \/ Reopen \/ GoesBad

Spec == Init /\ [][Next]_vars /\ WF_vars(CommitStep)

------------------------------------------------------------------------------
(* Properties                                                              *)

\* No commit is programmed past the end of its block (lfs_dir_commitattr).
TypeOK ==
  /\ parent \in Block \X Block /\ parent[1] # parent[2]
  /\ dir.pair \in Block \X Block /\ dir.off \in 0..UNITS
  /\ op.off \in 0..UNITS /\ op.tried \subseteq Block
  /\ programmed \in [Block -> 0..UNITS]
  /\ \A b \in Block : dev[b].rev \in 0..REVS - 1

\* A fetch says that the rest of a block is erased only if nothing was
\* programmed there since its erase, not even by a commit that the power cut
\* short (forward crcs, eperturb).
ErasedIsErased ==
  found.erased => programmed[found.pair[1]] <= found.off

\* A commit programs erased units only: "Program a region in a block. The block
\* must have previously been erased." (lfs.h:168).
ProgsErased ==
  op.pc = "write" /\ bad[op.block] # "noop" => programmed[op.block] <= op.off

\* After a commit that succeeds, and after a mount, an open file's lfs_mdir_t
\* is what a fetch would find (fixmlist in lfs_dir_relocatingcommit), unless
\* the block ignores progs and happened to hold what the check expects.
OpenDirCurrent ==
  op.pc = "idle" /\ op.result # "nospc" /\ bad[dir.pair[1]] # "noop" => Current

\* Commits end within their block, what a fetch takes for erased is so, only
\* erased units are programmed (lfs_dir_commitattr, lfs_dir_commitcrc), and
\* open files follow.
Inv == TypeOK /\ ErasedIsErased /\ ProgsErased /\ OpenDirCurrent

\* Looking a tag up backwards, counting entries and searching for a name give
\* what applying the log in order gives, and the entries stay sorted.
LookupsAgree ==
  LET log == found.log
      l == Replay(log)
  IN  /\ Count(log) = Len(l)
      /\ \A i \in DOMAIN l :
           /\ GetSlice(log, "name", i - 1) = [found |-> TRUE, val |-> l[i].name]
           /\ GetSlice(log, "struct", i - 1) = [found |-> TRUE, val |-> l[i].struct]
      /\ \A n \in Name :
           LET f == Find(log, n)
           IN  /\ f.found <=> \E i \in DOMAIN l : l[i].name = n
               /\ f.found => l[f.id + 1].name = n
               /\ ~f.found => f.id = Cardinality({i \in DOMAIN l : l[i].name < n})
      /\ \A i, j \in DOMAIN l : i < j => l[i].name < l[j].name

\* A compaction, split anywhere, keeps the entries the log and the attributes
\* of the commit describe.
CompactKeeps ==
  op.pc = "compact" =>
    LET log == op.dir.log
        n == Count(log \o op.attrs)
    IN  \A split \in 0..n :
          Replay(Compacted(log, op.attrs, 0, split))
            \o Replay(Compacted(log, op.attrs, split, n)) = op.target

\* The pair is an atomic store of its entries.
NoCommit == <<NoEntry>>
Corrupted == <<NoEntry, NoEntry>>
Contents == IF found = NoDir THEN Corrupted ELSE Replay(found.log)

Atomic == INSTANCE AtomicCommit
  WITH State <- Seq([name : Name, struct : Content]),
       stored <- Contents,
       wanted <- IF op.pc = "idle" THEN NoCommit ELSE op.target,
       outcome <- CASE op.pc # "idle" \/ op.result = "none" -> "none"
                    [] op.pc = "idle" /\ op.result = "ok" -> "ok"
                    [] OTHER -> "failed"

\* A mount finds the entries before a commit or after it (lfs_dir_commit).
ImplementsAtomicCommit == Atomic!Spec

\* Every commit returns, whatever blocks go bad.
CommitsReturn == op.pc # "idle" ~> op.pc = "idle"
==============================================================================
