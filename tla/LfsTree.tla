-------------------------------- MODULE LfsTree -------------------------------
(***************************************************************************)
(* The directory tree of littlefs: mkdir, remove, rename and the commits   *)
(* of several metadata pairs they are made of, the relocation of a pair    *)
(* and the two references to it, pairs that split and are dropped, the     *)
(* global state that announces a move or orphans, and the recovery after   *)
(* a power loss.                                                           *)
(*                                                                         *)
(* One commit to a metadata pair is one step (LfsPair shows that it is     *)
(* atomic); the power may go between any two.  Whether a commit is         *)
(* appended, compacted, moves half of the pair to another block or splits  *)
(* it depends on sizes and revisions the model leaves out: any of them can *)
(* happen.  A gstate on disk is a set, of a mark for orphans and of moves; *)
(* the exclusive-or of gstates is their symmetric difference.  Ids count   *)
(* from 1, as positions do.                                                *)
(***************************************************************************)
EXTENDS Integers, Sequences, FiniteSets

CONSTANTS BLOCKS,           \* blocks 1 and 2 are the superblock's pair
          Name,             \* numbers from 1 on, at least 1..3
          GoesOnTorn,       \* operations go on with what a failure left in RAM
          TiredStays,       \* a tired block may stay where a gstate has to be written
          SplitMoves,       \* a pair may split and relocate in one commit
          FixAllocates,     \* so it may when half an orphan is fixed after a loss
          Kinds,            \* of the operations that are called
          MaxOps, MaxLosses, MaxCompacts, MaxMoves   \* bounds

VARIABLES dev,          \* what a fetch finds in each block
          list,         \* the pairs on disk, as their tails order them
          tree,         \* what a mount would show: paths and contents
          gstate,       \* lfs->gstate
          gdisk,        \* lfs->gdisk
          gdelta,       \* lfs->gdelta
          taken,        \* blocks handed out since the last checkpoint
          file,         \* an open file in lfs->mlist
          hook,         \* the mdir an operation hooks into lfs->mlist
          op,           \* the operation in progress
          cm,           \* lfs_dir_orphaningcommit in progress
          de,           \* lfs_fs_deorphan in progress
          torn,         \* (history) what failures left in RAM since the mount: a
                        \* "gstate" not to be written, a "pair" that nothing names
          count         \* of operations, losses, compactions and splits, moves

globals == <<gstate, gdisk, gdelta>>
disk == <<dev, list, tree>>
vars == <<disk, globals, taken, file, hook, op, cm, de, torn, count>>

Block == 1..BLOCKS
Null == <<0, 0>>
Root == <<1, 2>>
Pair == (0..BLOCKS) \X (0..BLOCKS)

\* lfs_pair_cmp(p, q) == 0, and lfs_pair_issync
Shares(p, q) == p[1] = q[1] \/ p[2] = q[2] \/ p[1] = q[2] \/ p[2] = q[1]
InSync(p, q) == p = q \/ p = <<q[2], q[1]>>

------------------------------------------------------------------------------
(* The global state                                                        *)

Orphans == [pair |-> Null, id |-> 1]
NoMove == [pair |-> Null, id |-> 0]
NoGstate == [orphans |-> 0, move |-> NoMove]

\* lfs_gstate_xor
Xor(g, h) == (g \ h) \cup (h \ g)

\* What goes to the disk: that there are orphans, not how many.
OnDisk(g) == (IF g.orphans > 0 THEN {Orphans} ELSE {}) \cup ({g.move} \ {NoMove})

Moves(g) == g \ {Orphans}

\* lfs_mount_: the count of orphans is at least 1 if there are any.
Mounted(g) == [orphans |-> IF Orphans \in g THEN 1 ELSE 0,
               move |-> IF Moves(g) = {} THEN NoMove ELSE CHOOSE v \in Moves(g) : TRUE]

\* lfs_fs_preporphans, lfs_fs_prepmove, lfs_gstate_hasmovehere
PrepOrphans(g, n) == [g EXCEPT !.orphans = @ + n]
PrepMove(g, id, pair) == [g EXCEPT !.move = [pair |-> pair, id |-> id]]
NoPrepMove(g) == [g EXCEPT !.move = NoMove]
HasMoveHere(g, pair) == g.move # NoMove /\ Shares(g.move.pair, pair)

------------------------------------------------------------------------------
(* Directories on disk                                                     *)

\* An lfs_mdir_t; a block holds one without its pair.  new: it was not fetched;
\* sup: it has a superblock entry, which is none of ents.
NoMdir == [pair |-> Null, new |-> FALSE, sup |-> FALSE, rev |-> 0, ents |-> <<>>,
           tail |-> Null, split |-> FALSE, gd |-> {}]
OnBlock(m) == [m EXCEPT !.pair = Null, !.new = FALSE]

\* lfs_dir_fetch: the block with the later revision.
Fetch(dv, pair) ==
  IF dv[pair[2]].rev > dv[pair[1]].rev
  THEN [dv[pair[2]] EXCEPT !.pair = <<pair[2], pair[1]>>]
  ELSE [dv[pair[1]] EXCEPT !.pair = pair]

\* The list of all metadata pairs that the tails form.
TailList(dv) ==
  LET walk[p \in Pair, n \in 0..BLOCKS] ==
        IF p = Null \/ n = 0 THEN <<>>
        ELSE LET m == Fetch(dv, p) IN <<m>> \o walk[m.tail, n - 1]
  IN  walk[Root, BLOCKS]

\* The pairs of one directory.
Chain(dv, pair) ==
  LET walk[p \in Pair, n \in 0..BLOCKS] ==
        LET m == Fetch(dv, p)
        IN  IF m.split /\ n > 0 THEN <<m>> \o walk[m.tail, n - 1] ELSE <<m>>
  IN  walk[pair, BLOCKS]

\* The gstate a mount finds: all deltas of the list.
DiskGstate(l) ==
  LET sum[n \in 0..Len(l)] == IF n = 0 THEN {} ELSE Xor(l[n].gd, sum[n - 1])
  IN  sum[Len(l)]

\* Mutant: a move is not looked at.
HiddenNot(m, g) == {}

\* The synthetic moves of lfs_dir_getslice and lfs_dir_fetchmatch: an entry
\* that is moved away is not there.
Hidden(m, g) == {v.id : v \in {u \in Moves(g) : Shares(u.pair, m.pair)}}

Entry(name, kind, data) == [name |-> name, kind |-> kind, data |-> data]

EntriesOf(dv, g, pair) ==
  UNION {UNION {{chain[k].ents[i] : i \in DOMAIN chain[k].ents \ Hidden(chain[k], g)}
                : k \in DOMAIN chain} : chain \in {Chain(dv, pair)}}

\* What is mounted: the path, kind and contents of everything.
Depth == 4
TreeOf(dv, g) ==
  LET below[n \in 1..Depth, path \in Seq(Name), pair \in Pair] ==
        UNION {IF e.kind = "file" THEN {<<Append(path, e.name), "file", e.data>>}
               ELSE {<<Append(path, e.name), "dir", Null>>}
                    \cup (IF n = Depth THEN {} ELSE below[n + 1, Append(path, e.name), e.data])
               : e \in EntriesOf(dv, g, pair)}
  IN  below[1, <<>>, Root]

\* lfs_dir_find in one directory: the pair and id of a name, or those it is to
\* be inserted at.
First(S) == CHOOSE i \in S : \A j \in S : i <= j

FindIn(chain, name) ==
  LET At(m) == {i \in DOMAIN m.ents : m.ents[i].name >= name}
      last == Len(chain)
      k == First({j \in 1..last : At(chain[j]) # {} \/ j = last})
      id == First(At(chain[k]) \cup {Len(chain[k].ents) + 1})
  IN  [m |-> chain[k], id |-> id, last |-> chain[last],
       found |-> id <= Len(chain[k].ents) /\ chain[k].ents[id].name = name]

Find(path) ==
  LET from[n \in 1..Len(path), pair \in Pair] ==
        LET found == {FindIn(chain, path[n]) : chain \in {Chain(dev, pair)}}
            f == CHOOSE x \in found : TRUE
        IN  IF n = Len(path) THEN f ELSE from[n + 1, f.m.ents[f.id].data]
  IN  from[1, Root]

Front(path) == SubSeq(path, 1, Len(path) - 1)

\* lfs_fs_pred: the pair whose tail is pair.
Pred(pair) ==
  LET hits == {i \in DOMAIN list : list[i].tail # Null /\ Shares(list[i].tail, pair)}
  IN  IF hits = {} THEN NoMdir ELSE list[First(hits)]

\* lfs_fs_parent: the entry of the directory pair, as far as it is not hidden.
Parent(pair) ==
  LET Ids(m) == {i \in DOMAIN m.ents : m.ents[i].kind = "dir" /\ Shares(m.ents[i].data, pair)}
      hits == {k \in DOMAIN list :
                 Ids(list[k]) # {} /\ ~(Ids(list[k]) \subseteq Hidden(list[k], gdisk))}
      m == list[First(hits)]
      i == First(Ids(m))
  IN  IF hits = {} THEN [m |-> NoMdir, id |-> 0, data |-> Null]
      ELSE [m |-> m, data |-> m.ents[i].data,
            id |-> i - Cardinality({h \in Hidden(m, gdisk) : h < i})]

------------------------------------------------------------------------------
(* One commit (lfs_dir_relocatingcommit)                                   *)

Del(id) == [t |-> "del", id |-> id]
Ins(id, ent) == [t |-> "ins", id |-> id, ent |-> ent]
SetData(id, data) == [t |-> "set", id |-> id, data |-> data]
NewTail(pair, split) == [t |-> "tail", pair |-> pair, split |-> split]

Apply(m, a) ==
  CASE a.t = "del" -> [m EXCEPT !.ents = SubSeq(@, 1, a.id - 1) \o SubSeq(@, a.id + 1, Len(@))]
    [] a.t = "ins" -> [m EXCEPT !.ents = SubSeq(@, 1, a.id - 1) \o <<a.ent>> \o SubSeq(@, a.id, Len(@))]
    [] a.t = "set" -> [m EXCEPT !.ents[a.id].data = a.data]
    [] a.t = "tail" -> [m EXCEPT !.tail = a.pair, !.split = a.split]

ApplyAll(m, attrs) ==
  LET from[n \in 0..Len(attrs)] == IF n = 0 THEN m ELSE Apply(from[n - 1], attrs[n])
  IN  from[Len(attrs)]

\* hasdelete && dir->count == 0
Emptied(m, attrs) ==
  /\ \E i \in DOMAIN attrs : attrs[i].t = "del"
  /\ ApplyAll(m, attrs).ents = <<>> /\ ~m.sup

\* lfs_fs_traverse with orphans: the pairs of the list and of all entries.
InUse ==
  UNION {{list[i].pair[1], list[i].pair[2]}
           \cup UNION {{list[i].ents[j].data[1], list[i].ents[j].data[2]} :
                       j \in {k \in DOMAIN list[i].ents : list[i].ents[k].kind = "dir"}}
         : i \in DOMAIN list}

\* The blocks lfs_alloc hands out, in the order of their numbers.
Free ==
  LET Nth(n, free) == CHOOSE b \in free : Cardinality({c \in free : c < b}) = n - 1
  IN  CHOOSE seq \in {[n \in 1..Cardinality(free) |-> Nth(n, free)] :
                       free \in {Block \ (InUse \cup taken)}} : TRUE

\* state: LFS_OK_RELOCATED is "moved".
Outcome(dv, m, state, gd, took) ==
  [dev |-> dv, m |-> [m EXCEPT !.new = FALSE], state |-> state, gdisk |-> gd, took |-> took]

Delta(g) == Xor(Xor(OnDisk(g), gdisk), gdelta)

\* n in the block it is in, with the gstate.
Appended(n, g) ==
  IF n.new THEN {}
  ELSE {Outcome([dev EXCEPT ![m.pair[1]] = OnBlock(m)], m, "ok", OnDisk(g), {})
        : m \in {[n EXCEPT !.gd = Xor(@, Delta(g))]}}

\* lfs_dir_compact: n in the other block, with the gstate.
Compacted(n, g) ==
  IF count.compacts >= MaxCompacts /\ ~n.new THEN {}
  ELSE {Outcome([dev EXCEPT ![m.pair[1]] = OnBlock(m)], m, "ok", OnDisk(g), {})
        : m \in {[n EXCEPT !.rev = @ + 1, !.pair = <<@[2], @[1]>>, !.gd = Xor(@, Delta(g))]}}

\* The superblock's pair stays where it is.
MayMove(pair) == ~InSync(pair, Root) /\ count.moves < MaxMoves

\* A new block in place of a bad or a tired one.  When there is no room a tired
\* block stays, and all goes on as if it had not.  (gate: not where a gstate waits)
NewBlock(n, g, free) ==
  IF ~MayMove(n.pair) THEN {}
  ELSE IF free # <<>> THEN {free[1]}
  ELSE IF Free = <<>> /\ (OnDisk(g) = gdisk \/ TiredStays) THEN {n.pair[2]} ELSE {}

\* Mutant: a relocated pair gets the gstate.
RelocatedWithGstate(n, g, free) ==
  {Outcome([dev EXCEPT ![m.pair[1]] = OnBlock(m)], m, "moved", OnDisk(g), {m.pair[1]} \ {n.pair[2]})
   : m \in {[n EXCEPT !.rev = @ + 1, !.pair = <<b, @[1]>>, !.gd = Xor(@, Delta(g))]
            : b \in NewBlock(n, g, free)}}

\* The pair is not in the tree yet, so the gstate has to wait for the commit that
\* puts it there.
Relocated(n, g, free) ==
  {Outcome([dev EXCEPT ![m.pair[1]] = OnBlock(m)], m, "moved", gdisk, {m.pair[1]} \ {n.pair[2]})
   : m \in {[n EXCEPT !.rev = @ + 1, !.pair = <<b, @[1]>>, !.gd = Xor(@, gdelta)]
            : b \in NewBlock(n, g, free)}}

\* lfs_dir_splittingcompact, lfs_dir_split: the entries from k on go to a new
\* pair, with the gstate; what is left is compacted.
Split(n, g, k, free) ==
  LET pair == <<free[1], free[2]>>
      tail == [n EXCEPT !.pair = pair, !.rev = dev[free[2]].rev + 1, !.sup = @ /\ k = 1,
                        !.ents = SubSeq(@, k, Len(@)), !.gd = Delta(g)]
      rest(p) == [n EXCEPT !.pair = p, !.rev = @ + 1, !.ents = SubSeq(@, 1, k - 1),
                           !.tail = pair, !.split = TRUE]
      With(m, state, took) ==
        Outcome([dev EXCEPT ![free[1]] = OnBlock(tail), ![m.pair[1]] = OnBlock(m)], m, state,
                OnDisk(g), {free[1], free[2]} \cup took)
  IN  IF count.compacts >= MaxCompacts \/ Len(free) < 2 THEN {}
      ELSE {With(rest(<<n.pair[2], n.pair[1]>>), "ok", {})}
             \cup IF ~SplitMoves \/ ~MayMove(n.pair) \/ Len(free) < 3 THEN {}
                  ELSE {With(rest(<<free[3], n.pair[1]>>), "moved", {free[3]})}

\* A superblock that is written too much expands: all its entries move to a new
\* pair with a superblock entry of its own, if there is room enough.
MayExpand(pair) == InSync(pair, Root) /\ BLOCKS - Cardinality(InUse) > BLOCKS \div 8

\* All that a commit of attrs to the mdir m can do, with gstate g.
Outcomes(m, attrs, g) ==
  UNION {Appended(n, g) \cup Compacted(n, g) \cup Relocated(n, g, free)
           \cup UNION {Split(n, g, k, free) :
                     k \in 2..Len(n.ents) \cup (IF MayExpand(n.pair) THEN {1} ELSE {})}
         : n \in {ApplyAll(m, attrs)},
           free \in {IF de.powerloss /\ de.pass = 0 /\ ~FixAllocates THEN <<>> ELSE Free}}

\* Mutant: an entry that is inserted in front of an open one is overlooked.
ShiftedIdDown(id, a) == IF a.t = "del" /\ a.id < id THEN id - 1 ELSE id

\* fixmlist: an mdir in lfs->mlist with an id follows a commit to its pair.
ShiftedId(id, a) ==
  CASE a.t = "del" /\ a.id < id -> id - 1
    [] a.t = "ins" /\ a.id <= id -> id + 1
    [] OTHER -> id

IdsAfter(id, attrs) ==
  LET ids[n \in 0..Len(attrs)] == IF n = 0 THEN id ELSE ShiftedId(ids[n - 1], attrs[n])
  IN  ids

Follow(h, pair, m, attrs, dv) ==
  LET ids == IdsAfter(h.id, attrs)
      gone == \E n \in DOMAIN attrs : attrs[n] = Del(ids[n - 1])
      rest == <<m>> \o (IF m.split THEN Chain(dv, m.tail) ELSE <<>>)
      down[k \in 1..Len(rest), id \in Nat] ==
        IF id > Len(rest[k].ents) /\ k < Len(rest) THEN down[k + 1, id - Len(rest[k].ents)]
        ELSE [open |-> TRUE, m |-> rest[k], id |-> id]
  IN  IF ~h.open \/ ~Shares(h.m.pair, pair) THEN h
      ELSE IF gone /\ (ids[Len(attrs)] <= Len(m.ents) \/ ~m.split)
      THEN [h EXCEPT !.m.pair = Null]
      ELSE down[1, ids[Len(attrs)]]

\* A commit of attrs to m with outcome r.
Effect(r, m, attrs, g) ==
  /\ dev' = r.dev /\ list' = TailList(r.dev)
  /\ tree' = TreeOf(r.dev, DiskGstate(list'))
  /\ gstate' = g /\ gdisk' = r.gdisk /\ gdelta' = {}
  /\ taken' = taken \cup r.took
  /\ file' = Follow(file, m.pair, r.m, attrs, r.dev)
  /\ hook' = Follow(hook, m.pair, r.m, attrs, r.dev)
  /\ count' = [count EXCEPT !.moves = @ + (IF r.state = "moved" THEN 1 ELSE 0),
                            !.compacts = @ + (IF ~m.new /\ (Cardinality(r.took) > 1 \/ r.m.pair = <<m.pair[2], m.pair[1]>>)
                                            THEN 1 ELSE 0)]

------------------------------------------------------------------------------
(* Starting point: the root with the directories 1 and 2; 1 holds a file.  *)

InMlist(m, id) == [open |-> TRUE, m |-> m, id |-> id]
NotInMlist == [open |-> FALSE, m |-> NoMdir, id |-> 0]

\* Where a walk along the tails starts
BeforeRoot == [NoMdir EXCEPT !.split = TRUE, !.tail = Root]

NoOp == [kind |-> "none", pc |-> "idle", path |-> <<>>, to |-> <<>>, target |-> {},
         m |-> NoMdir, from |-> NoMdir, id |-> 0, fromId |-> 0,
         result |-> "none"]
NoCm == [st |-> "none", m |-> NoMdir, attrs |-> <<>>, lpair |-> Null, ldir |-> NoMdir,
         parent |-> FALSE, orphans |-> FALSE]
NoDe == [st |-> "none", pass |-> 0, pdir |-> NoMdir, powerloss |-> FALSE, more |-> FALSE]

Dir(ents, tail) == [NoMdir EXCEPT !.rev = 1, !.ents = ents, !.tail = tail]

\* order: that of the tails
FirstDev(order) ==
  LET After(pair) == IF order[1] = pair THEN order[2] ELSE Null
  IN  [b \in Block |->
        CASE b = 1 -> [Dir(<<Entry(1, "dir", <<3, 4>>), Entry(2, "dir", <<5, 6>>)>>, order[1])
                       EXCEPT !.sup = TRUE]
          [] b = 3 -> Dir(<<Entry(3, "file", <<1, 0>>)>>, After(<<3, 4>>))
          [] b = 5 -> Dir(<<>>, After(<<5, 6>>))
          [] OTHER -> NoMdir]

Init ==
  /\ dev \in {FirstDev(<<<<3, 4>>, <<5, 6>>>>), FirstDev(<<<<5, 6>>, <<3, 4>>>>)}
  /\ list = TailList(dev) /\ tree = TreeOf(dev, {})
  /\ gstate = NoGstate /\ gdisk = {} /\ gdelta = {} /\ taken = {}
  /\ file \in {NotInMlist, InMlist(Fetch(dev, <<3, 4>>), 1)}
  /\ hook = NotInMlist /\ op = NoOp /\ cm = NoCm /\ de = NoDe /\ torn = {}
  /\ count = [ops |-> 0, losses |-> 0, compacts |-> 0, moves |-> 0]

------------------------------------------------------------------------------
(* lfs_dir_orphaningcommit: a commit and what it entails in other pairs    *)

Commit(m, attrs) == cm' = [NoCm EXCEPT !.st = "commit", !.m = m, !.attrs = attrs]

\* The commit of an operation, and of the program step after it.
OpCommit(m, attrs, pc) == Commit(m, attrs) /\ op' = [op EXCEPT !.pc = pc]

\* The commit is over: lfs_dir_commit looks for the orphans it may have left.
Committed(m, orphans) ==
  /\ cm' = [NoCm EXCEPT !.m = m, !.orphans = orphans]
  /\ de' = IF orphans /\ de.st = "none"
           THEN [NoDe EXCEPT !.st = "pass", !.pdir = BeforeRoot]
           ELSE de

\* The pair moved, or the commit is over.
AfterCommit(r, old) ==
  IF r.state = "moved"
  THEN cm' = [cm EXCEPT !.st = "parent", !.lpair = old, !.ldir = r.m, !.parent = FALSE] /\ UNCHANGED de
  ELSE Committed(cm.m, cm.orphans)

\* A pair that is not the first of its directory and becomes empty is dropped.
ToBeDropped(m, attrs) ==
  /\ Emptied(m, attrs)
  /\ Pred(m.pair).split

CommitFirst ==
  /\ cm.st = "commit" /\ ~ToBeDropped(cm.m, cm.attrs)
  /\ \E r \in Outcomes(cm.m, cm.attrs, gstate) :
       /\ Effect(r, cm.m, cm.attrs, gstate)
       /\ IF r.state = "moved"
          THEN cm' = [cm EXCEPT !.st = "parent", !.m = r.m, !.lpair = cm.m.pair, !.ldir = r.m]
               /\ UNCHANGED de
          ELSE Committed(r.m, FALSE)
  /\ UNCHANGED <<op, torn>>

\* The predecessor takes over the tail and the gstate of the dropped pair.
CommitDrop ==
  /\ cm.st = "commit" /\ ToBeDropped(cm.m, cm.attrs)
  /\ LET m == ApplyAll(cm.m, cm.attrs)
         pred == Pred(cm.m.pair)
         attrs == <<NewTail(m.tail, m.split)>>
     IN  /\ gdelta' = Xor(gdelta, cm.m.gd)
         /\ file' = Follow(file, cm.m.pair, m, cm.attrs, dev)
         /\ hook' = Follow(hook, cm.m.pair, m, cm.attrs, dev)
         /\ cm' = [cm EXCEPT !.st = "drop", !.m = m, !.ldir = pred, !.attrs = attrs]
  /\ UNCHANGED <<disk, gstate, gdisk, taken, op, de, count, torn>>

CommitDropped ==
  /\ cm.st = "drop"
  /\ \E r \in Outcomes(cm.ldir, cm.attrs, gstate) :
       /\ Effect(r, cm.ldir, cm.attrs, gstate)
       /\ AfterCommit(r, cm.ldir.pair)
  /\ UNCHANGED <<op, torn>>

\* A move that is pending in a pair is fixed when the pair is committed to,
\* since its relocation would outdate the move.
FixMove(g, pair) == IF HasMoveHere(g, pair) THEN <<Del(g.move.id)>> ELSE <<>>
FixedMove(g, pair) == IF HasMoveHere(g, pair) THEN NoPrepMove(g) ELSE g

\* The parent gets the new pair; until the list has it too there is an orphan.
ParentGstate(par) == FixedMove(PrepOrphans(gstate, 1), par.pair)

CommitParent ==
  /\ cm.st = "parent"
  /\ \E par \in {Parent(cm.lpair)} :
       LET here == HasMoveHere(gstate, par.m.pair)
           g == ParentGstate(par.m)
           id == IF here /\ gstate.move.id < par.id THEN par.id - 1 ELSE par.id
           attrs == FixMove(gstate, par.m.pair) \o <<SetData(id, cm.ldir.pair)>>
       IN  IF par.m = NoMdir
           THEN cm' = [cm EXCEPT !.st = "pred"]
                /\ UNCHANGED <<disk, globals, taken, file, hook, count>>
           ELSE \E r \in Outcomes(par.m, attrs, g) :
                  /\ Effect(r, par.m, attrs, g)
                  /\ cm' = IF r.state = "moved"
                           THEN [cm EXCEPT !.lpair = par.m.pair, !.ldir = r.m, !.orphans = TRUE]
                           ELSE [cm EXCEPT !.st = "pred", !.parent = TRUE]
  /\ UNCHANGED <<op, de, torn>>

PredAttrs(pred) == FixMove(gstate, pred.pair) \o <<NewTail(cm.ldir.pair, pred.split)>>

\* lfs_dir_relocatingcommit(..., NULL) of a delete that leaves no entry
AssertFails ==
  /\ cm.st = "pred"
  /\ LET pred == Pred(cm.lpair)
     IN  pred # NoMdir /\ Emptied(pred, PredAttrs(pred))

\* The predecessor gets the new pair.
PredGstate(pred) ==
  FixedMove(IF gstate.orphans > 0 /\ cm.parent THEN PrepOrphans(gstate, -1) ELSE gstate,
            pred.pair)

CommitPred ==
  /\ cm.st = "pred" /\ ~AssertFails
  /\ \E pred \in {Pred(cm.lpair)} :
       LET g == PredGstate(pred)
       IN  IF pred = NoMdir
           THEN Committed(cm.m, cm.orphans)
                /\ UNCHANGED <<disk, globals, taken, file, hook, count>>
           ELSE \E r \in Outcomes(pred, PredAttrs(pred), g) :
                  Effect(r, pred, PredAttrs(pred), g) /\ AfterCommit(r, pred.pair)
  /\ UNCHANGED <<op, torn>>

CommitSteps == CommitFirst \/ CommitDrop \/ CommitDropped \/ CommitParent \/ CommitPred

------------------------------------------------------------------------------
(* lfs_fs_deorphan                                                         *)

Resting == cm.st = "none" /\ de.st = "none"

\* Mutant: orphans that are fixed are still counted.
OrphansFixedKept(g) == g

\* Orphans are counted as fixed when a pass found no more.
OrphansFixed(g) == [g EXCEPT !.orphans = 0]

\* pdir is not the first of a list of pairs: the next pair is a directory.
DeorphanStep ==
  /\ de.st = "pass" /\ cm.st = "none"
  /\ \E par \in {Parent(de.pdir.tail)} :
       LET p == de.pdir
           head == p.tail # Null /\ ~p.split
           half == head /\ de.pass = 0 /\ par.m # NoMdir /\ ~InSync(par.data, p.tail)
           orphan == head /\ de.pass = 1 /\ par.m = NoMdir /\ de.powerloss
           next == Fetch(dev, p.tail)
       IN  CASE half ->
                  /\ Commit(p, FixMove(gstate, p.pair) \o <<NewTail(par.data, FALSE)>>)
                  /\ gstate' = FixedMove(gstate, p.pair)
                  /\ de' = [de EXCEPT !.st = "fixing"] /\ UNCHANGED gdelta
             [] orphan ->
                  /\ gdelta' = Xor(gdelta, next.gd)
                  /\ Commit(p, <<NewTail(next.tail, next.split)>>)
                  /\ de' = [de EXCEPT !.st = "fixing"] /\ UNCHANGED gstate
             [] p.tail = Null ->
                  /\ IF de.pass = 1 /\ ~de.more
                     THEN gstate' = OrphansFixed(gstate) /\ de' = NoDe
                     ELSE /\ de' = [de EXCEPT !.pass = IF de.more THEN 0 ELSE 1,
                                              !.pdir = BeforeRoot, !.more = FALSE]
                          /\ UNCHANGED gstate
                  /\ UNCHANGED <<gdelta, cm>>
             [] OTHER -> de' = [de EXCEPT !.pdir = next] /\ UNCHANGED <<gstate, gdelta, cm>>
  /\ UNCHANGED <<disk, gdisk, taken, file, hook, op, count, torn>>

DeorphanFixed ==
  /\ de.st = "fixing" /\ cm.st = "none"
  /\ de' = [de EXCEPT !.st = "pass", !.pdir = cm.m, !.more = @ \/ cm.orphans]
  /\ UNCHANGED <<disk, globals, taken, file, hook, op, cm, count, torn>>

------------------------------------------------------------------------------
(* Operations.  What they are to do is fixed when they start.              *)

\* (bound: two levels, and no name below itself)
Paths == {<<n>> : n \in Name} \cup {p \in Name \X Name : p[1] # p[2]}
Exists(path) == \E x \in tree : x[1] = path
IsDir(path) == \E x \in tree : x[1] = path /\ x[2] = "dir"
Empty(path) == ~\E x \in tree : Len(x[1]) > Len(path) /\ SubSeq(x[1], 1, Len(path)) = path
HasParent(path) == Len(path) = 1 \/ IsDir(Front(path))
Under(path, x) == Len(x) >= Len(path) /\ SubSeq(x, 1, Len(path)) = path

\* The path of the open file: the VFS refuses to remove or rename it (EBUSY).
OpenPath ==
  IF ~file.open THEN {}
  ELSE {x[1] : x \in {y \in tree : y[2] = "file" /\ y[3][1] = 1}}

Begin(kind, path, to, target) ==
  /\ "gstate" \notin torn \/ GoesOnTorn
  /\ kind \in Kinds /\ op.pc = "idle" /\ Resting /\ count.ops < MaxOps
  /\ op' = [NoOp EXCEPT !.kind = kind, !.pc = "consistent", !.path = path, !.to = to, !.target = target]
  /\ count' = [count EXCEPT !.ops = @ + 1]
  /\ taken' = {}
  /\ UNCHANGED <<disk, globals, file, hook, cm, de, torn>>

FileNo(n) == <<n + 1, 0>>

BeginMkdir ==
  \E p \in Paths : /\ ~Exists(p) /\ HasParent(p)
                   /\ Begin("mkdir", p, p, tree \cup {<<p, "dir", Null>>})

BeginCreate ==
  \E p \in Paths : /\ ~Exists(p) /\ HasParent(p)
                   /\ Begin("create", p, p, tree \cup {<<p, "file", FileNo(count.ops + 1)>>})

BeginRemove ==
  \E p \in Paths : /\ Exists(p) /\ Empty(p) /\ p \notin OpenPath
                   /\ Begin("remove", p, p, {x \in tree : x[1] # p})

BeginRename ==
  \E p, q \in Paths :
    /\ Exists(p) /\ HasParent(q) /\ p # q /\ ~Under(p, q)
    /\ p \notin OpenPath /\ q \notin OpenPath
    /\ Exists(q) => Empty(q) /\ IsDir(q) = IsDir(p)
    /\ Begin("rename", p, q,
             {x \in tree : ~Under(p, x[1]) /\ x[1] # q}
               \cup {<<q \o SubSeq(x[1], Len(p) + 1, Len(x[1])), x[2], x[3]>> :
                     x \in {y \in tree : Under(p, y[1])}})

\* lfs_file_sync of the open file does not look for consistency first.
BeginSync ==
  /\ "sync" \in Kinds /\ file.open /\ file.m.pair # Null
  /\ torn = {} \/ GoesOnTorn
  /\ op.pc = "idle" /\ Resting /\ count.ops < MaxOps
  /\ count' = [count EXCEPT !.ops = @ + 1]
  /\ taken' = {}
  /\ op' = [NoOp EXCEPT !.kind = "sync", !.pc = "end",
                        !.target = {x \in tree : x[3][1] # 1} \cup
                                   {<<x[1], "file", <<1, 1>>>> : x \in {y \in tree : y[3][1] = 1}}]
  /\ Commit(file.m, <<SetData(file.id, <<1, 1>>)>>)
  /\ UNCHANGED <<disk, globals, file, hook, de, torn>>

\* Mutant: a move that a power loss interrupted is left as it is.
ConsistentNoDemove ==
  /\ op.pc = "consistent" /\ Resting
  /\ op' = [op EXCEPT !.pc = op.kind]
  /\ UNCHANGED <<disk, globals, taken, file, hook, cm, de, count, torn>>

\* lfs_fs_forceconsistency: lfs_fs_demove, then lfs_fs_deorphan.
Consistent ==
  /\ op.pc = "consistent" /\ Resting
  /\ CASE Moves(gdisk) # {} ->
            LET v == Mounted(gdisk).move
            IN  /\ gstate' = NoPrepMove(gstate)
                /\ Commit(Fetch(dev, v.pair), <<Del(v.id)>>)
                /\ UNCHANGED <<op, de>>
       [] Moves(gdisk) = {} /\ gstate.orphans > 0 ->
            /\ de' = [NoDe EXCEPT !.st = "pass", !.powerloss = TRUE,
                                  !.pdir = BeforeRoot]
            /\ UNCHANGED <<gstate, op, cm>>
       [] OTHER -> op' = [op EXCEPT !.pc = op.kind] /\ UNCHANGED <<gstate, cm, de>>
  /\ UNCHANGED <<disk, gdisk, gdelta, taken, file, hook, count, torn>>

Step(pc) == op.pc = pc /\ Resting

Create ==
  /\ Step("create")
  /\ \E f \in {Find(op.path)} :
       OpCommit(f.m, <<Ins(f.id, Entry(op.path[Len(op.path)], "file", FileNo(count.ops)))>>, "end")
  /\ UNCHANGED <<disk, globals, taken, file, hook, de, count, torn>>

\* lfs_mkdir: a new pair that points where the directory's last pair does, ...
Mkdir ==
  /\ Step("mkdir")
  /\ \E f \in {Find(op.path)}, free \in {Free} :
       IF Len(free) < 2
       THEN op' = [NoOp EXCEPT !.result = "failed"] /\ UNCHANGED <<taken, cm>>
       ELSE /\ taken' = taken \cup {free[1], free[2]}
            /\ Commit([NoMdir EXCEPT !.pair = <<free[2], free[1]>>, !.new = TRUE,
                                     !.rev = dev[free[2]].rev],
                      <<NewTail(f.last.tail, FALSE)>>)
            /\ op' = [op EXCEPT !.pc = "mkdir pred", !.m = f.m, !.id = f.id, !.from = f.last]
  /\ UNCHANGED <<disk, globals, file, hook, de, count, torn>>

\* ... is put behind that last pair, if it is not the one to be changed, ...
MkdirPred ==
  /\ Step("mkdir pred")
  /\ IF op.m.split
     THEN /\ gstate' = PrepOrphans(gstate, 1)
          /\ hook' = InMlist(op.m, 1)
          /\ Commit(op.from, <<NewTail(cm.m.pair, FALSE)>>)
          /\ op' = [op EXCEPT !.pc = "mkdir unhook", !.from = cm.m]
     ELSE /\ op' = [op EXCEPT !.pc = "mkdir insert", !.from = cm.m]
          /\ UNCHANGED <<gstate, hook, cm>>
  /\ UNCHANGED <<disk, gdisk, gdelta, taken, file, de, count, torn>>

MkdirUnhook ==
  /\ Step("mkdir unhook")
  /\ gstate' = PrepOrphans(gstate, -1)
  /\ op' = [op EXCEPT !.pc = "mkdir insert", !.m = hook.m]
  /\ hook' = NotInMlist
  /\ UNCHANGED <<disk, gdisk, gdelta, taken, file, cm, de, count, torn>>

\* ... and entered.
MkdirInsert ==
  /\ Step("mkdir insert")
  /\ OpCommit(op.m, <<Ins(op.id, Entry(op.path[Len(op.path)], "dir", op.from.pair))>>
                      \o (IF op.m.split THEN <<>> ELSE <<NewTail(op.from.pair, FALSE)>>), "end")
  /\ UNCHANGED <<disk, globals, taken, file, hook, de, count, torn>>

\* A directory that is to go is an orphan until it is dropped; NOTEMPTY if it
\* has entries or further pairs.
Refuse == /\ op' = [NoOp EXCEPT !.result = "refused"]
          /\ UNCHANGED <<gstate, hook, cm>>

ToGo(ent) == Fetch(dev, ent.data)
NotEmpty(ent) == ent.kind = "dir" /\ (ToGo(ent).ents # <<>> \/ ToGo(ent).split)

Remove ==
  /\ Step("remove")
  /\ \E f \in {Find(op.path)} : \E ent \in {f.m.ents[f.id]} :
       IF NotEmpty(ent) THEN Refuse
       ELSE /\ gstate' = IF ent.kind = "dir" THEN PrepOrphans(gstate, 1) ELSE gstate
            /\ hook' = IF ent.kind = "dir" THEN InMlist(ToGo(ent), 1) ELSE hook
            /\ OpCommit(f.m, <<Del(f.id)>>, "drop")
  /\ UNCHANGED <<disk, gdisk, gdelta, taken, file, de, count, torn>>

\* The directory's predecessor takes over its tail and its gstate.
DropDir ==
  /\ Step("drop") /\ hook' = NotInMlist
  /\ IF gstate.orphans > 0
     THEN /\ gstate' = PrepOrphans(gstate, -1)
          /\ gdelta' = Xor(gdelta, hook.m.gd)
          /\ OpCommit(Pred(hook.m.pair), <<NewTail(hook.m.tail, hook.m.split)>>, "end")
     ELSE op' = [op EXCEPT !.pc = "end"] /\ UNCHANGED <<gstate, gdelta, cm>>
  /\ UNCHANGED <<disk, gdisk, taken, file, de, count, torn>>

Rename ==
  /\ Step("rename")
  /\ \E old \in {Find(op.path)}, new \in {Find(op.to)} :
       LET ent == old.m.ents[old.id]
           prev == new.m.ents[new.id]
           same == Shares(old.m.pair, new.m.pair)
           oldId == IF ~new.found /\ same /\ new.id <= old.id THEN old.id + 1 ELSE old.id
           dirGoes == new.found /\ prev.kind = "dir"
           g == IF dirGoes THEN PrepOrphans(gstate, 1) ELSE gstate
       IN  IF new.found /\ NotEmpty(prev) THEN Refuse
           ELSE /\ gstate' = IF same THEN g ELSE PrepMove(g, oldId, old.m.pair)
                /\ hook' = IF dirGoes THEN InMlist(ToGo(prev), 1) ELSE hook
                /\ Commit(new.m, (IF new.found THEN <<Del(new.id)>> ELSE <<>>)
                                 \o <<Ins(new.id, Entry(op.to[Len(op.to)], ent.kind, ent.data))>>
                                 \o (IF same THEN <<Del(oldId)>> ELSE <<>>))
                /\ op' = [op EXCEPT !.pc = IF same THEN "drop" ELSE "moved",
                                    !.from = old.m, !.fromId = old.id]
  /\ UNCHANGED <<disk, gdisk, gdelta, taken, file, de, count, torn>>

\* The old entry is deleted, unless a commit did it on the way.
RenameMoved ==
  /\ Step("moved")
  /\ IF gstate.move # NoMove
     THEN gstate' = NoPrepMove(gstate) /\ OpCommit(op.from, <<Del(op.fromId)>>, "drop")
     ELSE op' = [op EXCEPT !.pc = "drop"] /\ UNCHANGED <<gstate, cm>>
  /\ UNCHANGED <<disk, gdisk, gdelta, taken, file, hook, de, count, torn>>

End ==
  /\ Step("end")
  /\ op' = [NoOp EXCEPT !.result = "ok"] /\ cm' = NoCm
  /\ UNCHANGED <<disk, globals, taken, file, hook, de, count, torn>>

------------------------------------------------------------------------------
(* Failures                                                                *)

\* The gstate in RAM is not the one to be written next: it announces a move that
\* did not happen, forgets an orphan, or takes over what was not taken over.
Ahead(g) ==
  \/ g.move # Mounted(gdisk).move
  \/ g.orphans = 0 /\ Orphans \in gdisk
  \/ gdelta # {}

\* No room: what was changed in RAM stays changed.  (gate: the gstate is not in a
\* pair that is not in the list yet)
GivesUp(g) ==
  /\ gdisk = DiskGstate(list) \/ GoesOnTorn
  /\ gstate' = g
  /\ torn' = torn \cup (IF Ahead(g) THEN {"gstate"} ELSE {})
                  \cup (IF cm.st \in {"parent", "pred"} /\ ~cm.parent THEN {"pair"} ELSE {})
  /\ op' = [NoOp EXCEPT !.result = "failed"]
  /\ cm' = NoCm /\ de' = NoDe /\ hook' = NotInMlist
  /\ UNCHANGED <<disk, gdisk, gdelta, taken, file, count>>

\* A commit fails, or the one that a drop entails in the predecessor.
Fail == cm.st \in {"commit", "drop"} /\ GivesUp(gstate)

\* The commit is done, but not in the parent or the predecessor of its relocated
\* pair: the copies in lfs->mlist have followed, and the gstate is prepared.
FailElsewhere ==
  \/ /\ cm.st = "parent"
     /\ \E par \in {Parent(cm.lpair).m} : par # NoMdir /\ GivesUp(ParentGstate(par))
  \/ /\ cm.st = "pred" /\ ~AssertFails
     /\ \E pred \in {Pred(cm.lpair)} : pred # NoMdir /\ GivesUp(PredGstate(pred))

\* RAM is lost; the gstate is mounted from the disk.
Reboot(result) ==
  /\ gdisk' = DiskGstate(list) /\ gstate' = Mounted(gdisk') /\ gdelta' = {}
  /\ op' = [NoOp EXCEPT !.result = result]
  /\ cm' = NoCm /\ de' = NoDe /\ hook' = NotInMlist /\ file' = NotInMlist /\ taken' = {}
  /\ torn' = {}
  /\ UNCHANGED <<disk>>

PowerLoss ==
  /\ op.pc # "idle" /\ count.losses < MaxLosses
  /\ Reboot("lost") /\ count' = [count EXCEPT !.losses = @ + 1]

\* A mount repairs what a failure left in RAM.  (bound: it counts as a power loss)
Remount ==
  /\ op.pc = "idle" /\ torn # {} /\ count.losses < MaxLosses
  /\ Reboot(IF op.result = "failed" THEN "lost" ELSE op.result)
  /\ count' = [count EXCEPT !.losses = @ + 1]

\* LFS_ASSERT(pdir) in lfs_dir_relocatingcommit resets the program.
Abort == AssertFails /\ Reboot("assert") /\ UNCHANGED count

Advance ==
  \/ CommitSteps \/ DeorphanStep \/ DeorphanFixed \/ Consistent \/ Create
  \/ Mkdir \/ MkdirPred \/ MkdirUnhook \/ MkdirInsert
  \/ Remove \/ DropDir \/ Rename \/ RenameMoved \/ End \/ Abort

Next ==
  \/ BeginMkdir \/ BeginCreate \/ BeginRemove \/ BeginRename \/ BeginSync
  \/ CommitFirst \/ CommitDrop \/ CommitDropped \/ CommitParent \/ CommitPred
  \/ DeorphanStep \/ DeorphanFixed \/ Consistent \/ Create
  \/ Mkdir \/ MkdirPred \/ MkdirUnhook \/ MkdirInsert
  \/ Remove \/ DropDir \/ Rename \/ RenameMoved \/ End
  \/ Fail \/ FailElsewhere \/ PowerLoss \/ Remount \/ Abort

Spec == Init /\ [][Next]_vars /\ WF_vars(Advance)

------------------------------------------------------------------------------
(* Properties                                                              *)

\* Orphans are counted up and down in step (lfs_fs_preporphans).
TypeOK ==
  /\ \A b \in Block : dev[b].tail \in Pair /\ dev[b].gd \subseteq [pair : Pair, id : Nat]
  /\ gstate.orphans \in 0..BLOCKS /\ gstate.move.pair \in Pair
  /\ taken \subseteq Block /\ torn \subseteq {"gstate", "pair"}
  /\ hook.open => op.kind \in {"mkdir", "remove", "rename"}

Trees == SUBSET ((UNION {[1..n -> Name] : n \in 1..Depth}) \X {"dir", "file"} \X Pair)

Atomic == INSTANCE AtomicCommit
  WITH State <- Trees,
       NoCommit <- {"none"},
       stored <- tree,
       wanted <- IF op.pc = "idle" THEN {"none"} ELSE op.target,
       outcome <- CASE op.pc # "idle" \/ op.result = "none" -> "none"
                    [] op.pc = "idle" /\ op.result = "ok" -> "ok"
                    [] OTHER -> "failed"

\* The tree is an atomic store: an operation is done as a whole or not at all,
\* whatever pairs move and split and wherever the power goes.
ImplementsAtomicCommit == Atomic!Spec

\* What the list and the entries of its pairs lead to.
Referenced ==
  {list[i] : i \in DOMAIN list} \cup
  UNION {UNION {{Chain(dev, e.data)[k] : k \in DOMAIN Chain(dev, e.data)} :
                e \in {list[i].ents[j] : j \in {k \in DOMAIN list[i].ents :
                                               list[i].ents[k].kind = "dir"}}}
         : i \in DOMAIN list}

\* An open file stays the file it was, whatever becomes of its pair and id: its
\* copy of the pair is one that the directories lead to, and its id is that of its
\* entry there (fixmlist and the loop of lfs_dir_orphaningcommit over lfs->mlist).
\* Only a relocation that fails before any other pair knows of it leaves it on one that no entry
\* names, until the next mount.
OpenFileFollows ==
  file.open /\ Resting /\ file.m.pair # Null /\ "pair" \notin torn =>
    \E m \in Referenced :
      /\ m.pair = file.m.pair
      /\ file.id <= Len(m.ents) /\ m.ents[file.id].data[1] = 1

\* Between operations RAM and disk agree on the gstate, and no move or delta
\* is left.
GstateAgrees ==
  op.pc = "idle" /\ "gstate" \notin torn => gdisk = DiskGstate(list) /\ gdelta = {}

\* A directory without entries can be removed or replaced.
NotRefused == op.result # "refused"

\* Every pair that a path leads through is in the list of pairs, which ends; a
\* pair of the list that is none of the tree is announced as an orphan.
Listed ==
  LET dirs == {e.data : e \in UNION {{list[i].ents[j] : j \in DOMAIN list[i].ents \ Hidden(list[i], DiskGstate(list))} : i \in DOMAIN list}
                 \cap [name : Name, kind : {"dir"}, data : Pair]}
      heads == {list[i].tail : i \in {j \in DOMAIN list : ~list[j].split /\ list[j].tail # Null}}
  IN  /\ list[Len(list)].tail = Null
      /\ \A d \in dirs : \E h \in heads : Shares(d, h)
      /\ (op.pc = "idle" /\ ~(\A h \in heads : \E d \in dirs : InSync(d, h)))
            => Orphans \in DiskGstate(list) \/ gstate.orphans > 0

\* RAM, the list of pairs and the tree agree: orphans are counted in step, no
\* move is left over, every directory is in the list and what is none is
\* announced (lfs_fs_preporphans, lfs_dir_orphaningcommit).
Inv == TypeOK /\ GstateAgrees /\ Listed

\* No assertion of lfs_dir_relocatingcommit fails.
NeverAsserts == op.result # "assert"

\* Every operation returns.
OperationsReturn == op.pc # "idle" ~> op.pc = "idle"
==============================================================================
