------------------------------- MODULE LfsTags --------------------------------
(***************************************************************************)
(* The log of tags in a littlefs metadata pair and the algorithms that     *)
(* read it: what the tags found by a fetch mean, the lookup of one         *)
(* attribute (lfs_dir_getslice), the search for a name                     *)
(* (lfs_dir_fetchmatch with lfs_dir_find_match) and the traversal that     *)
(* writes a compacted log (lfs_dir_traverse, lfs_dir_traverse_filter).     *)
(*                                                                         *)
(* Ids count from 0.  Names and contents are numbers; names are ordered.   *)
(***************************************************************************)
EXTENDS Integers, Sequences

Tag(type, id, val) == [type |-> type, id |-> id, val |-> val]

NoId == 1023                    \* LFS_MKTAG's id 0x3ff
TagTypes == {"create", "delete", "name", "struct", "move", "noop", "crc", "rev",
             "blank", "junk"}
Tags == [type : TagTypes, id : Int, val : Int]

\* lfs_tag_splice of the two LFS_TYPE_SPLICE tags
IsSplice(t) == t.type \in {"create", "delete"}
Splice(t) == IF t.type = "create" THEN 1 ELSE -1

------------------------------------------------------------------------------
(* What a log means: a list of entries with a name and contents (struct).  *)

Entry == [name : Int, struct : Int]
NoEntry == [name |-> 0, struct |-> 0]

\* The list with an empty entry put in before position id, or without it.
InsertAt(l, id) == SubSeq(l, 1, id) \o <<NoEntry>> \o SubSeq(l, id + 1, Len(l))
DeleteAt(l, id) == SubSeq(l, 1, id) \o SubSeq(l, id + 2, Len(l))
Extend(l, n) == IF Len(l) >= n THEN l ELSE l \o [i \in 1..n - Len(l) |-> NoEntry]

Apply(l, t) ==
  CASE t.type = "create" -> InsertAt(l, t.id)
    [] t.type = "delete" -> DeleteAt(l, t.id)
    [] t.type = "name"   -> [Extend(l, t.id + 1) EXCEPT ![t.id + 1].name = t.val]
    [] t.type = "struct" -> [Extend(l, t.id + 1) EXCEPT ![t.id + 1].struct = t.val]

\* The entries a log describes: its tags applied one after the other.
Replay(log) ==
  LET from[n \in 1..Len(log) + 1] ==
        [l \in Seq(Entry) |-> IF n > Len(log) THEN l ELSE from[n + 1][Apply(l, log[n])]]
  IN  from[1][<<>>]

\* dir->count as lfs_dir_fetchmatch counts it.
Counted(count, t) ==
  CASE IsSplice(t) -> count + Splice(t)
    [] t.type = "name" /\ t.id >= count -> t.id + 1
    [] OTHER -> count

Count(log) ==
  LET from[n \in 1..Len(log) + 1] ==
        [count \in Int |->
           IF n > Len(log) THEN count ELSE from[n + 1][Counted(count, log[n])]]
  IN  from[1][0]

------------------------------------------------------------------------------
(* lfs_dir_getslice: from the newest tag backwards, undoing the splices.   *)

NOENT == [found |-> FALSE, val |-> 0]

\* The id of an entry before a splice.
Unspliced(t, id) == IF IsSplice(t) /\ t.id <= id THEN id - Splice(t) ELSE id

\* What tag t says of an entry, or what the tags before it say.
SliceAfter(before, t, type, id) ==
  CASE t.type = "create" /\ t.id = id -> NOENT
    [] t.type = type /\ t.id = Unspliced(t, id) -> [found |-> TRUE, val |-> t.val]
    [] OTHER -> before[Unspliced(t, id)]

GetSlice(log, type, gid) ==
  LET at[n \in 0..Len(log)] ==
        [id \in Int |-> IF n = 0 THEN NOENT ELSE SliceAfter(at[n - 1], log[n], type, id)]
  IN  at[Len(log)][gid]

------------------------------------------------------------------------------
(* lfs_dir_fetchmatch with lfs_dir_find_match: the id of a name, or the id *)
(* it is to be inserted at.  valid is bit 31 of besttag.                   *)

\* tag: besttag is not -1, whose id bits read 0x3ff.
Best == [id : Int, valid : BOOLEAN, tag : BOOLEAN]
NoBest == [id |-> NoId, valid |-> FALSE, tag |-> FALSE]

\* Mutant: the best tag does not follow creates.
BestNotShifted(best, t) ==
  IF t.type = "delete" /\ t.id = best.id THEN [best EXCEPT !.valid = FALSE] ELSE best

\* A tag before it is compared: the best tag follows splices.
BestAfterSplice(best, t) ==
  CASE t.type = "delete" /\ t.id = best.id -> [best EXCEPT !.valid = FALSE]
    [] IsSplice(t) /\ best.tag /\ t.id <= best.id -> [best EXCEPT !.id = @ + Splice(t)]
    [] OTHER -> best

\* A name is compared with the one looked for.
BestAfterName(best, t, name) ==
  CASE t.val = name -> [id |-> t.id, valid |-> TRUE, tag |-> TRUE]
    [] t.val # name /\ best.tag /\ t.id = best.id -> NoBest
    [] t.val > name /\ t.id # best.id /\ t.id <= best.id ->
         [id |-> t.id, valid |-> FALSE, tag |-> TRUE]
    [] OTHER -> best

BestAfter(best, t, name) ==
  IF t.type = "name" THEN BestAfterName(best, t, name) ELSE BestAfterSplice(best, t)

\* id is capped by dir->count.
Find(log, name) ==
  LET from[n \in 1..Len(log) + 1] ==
        [best \in Best |->
           IF n > Len(log) THEN best ELSE from[n + 1][BestAfter(best, log[n], name)]]
      last == from[1][NoBest]
      count == Count(log)
  IN  [found |-> last.valid, id |-> IF last.id < count THEN last.id ELSE count]

------------------------------------------------------------------------------
(* Attributes of a commit, and the compacted log.  A "move" attribute      *)
(* (LFS_FROM_MOVE) copies the contents of entry val of the directory as it *)
(* is on disk to entry id.                                                 *)

FromDisk(log, t) ==
  IF t.type = "move" THEN Tag("struct", t.id, GetSlice(log, "struct", t.val).val) ELSE t

\* lfs_dir_traverse without a mask: the attributes in order.
Expand(log, attrs) == [i \in DOMAIN attrs |-> FromDisk(log, attrs[i])]

\* Mutant: the ids of a compacted log are those of the time it was written.
FilteredUnshifted(f, t) ==
  IF f.type # "noop" /\ t.id = f.id /\ (t.type = f.type \/ t.type = "delete")
  THEN Tag("noop", 0, 0) ELSE f

\* lfs_dir_traverse_filter: the tag f after a later tag t; type "noop" if t
\* makes it redundant.
Filtered(f, t) ==
  CASE f.type = "noop" \/ t.type = "move" -> f
    [] f.type # "noop" /\ t.type # "move" /\ t.id = f.id
         /\ (t.type = f.type \/ t.type = "delete") -> Tag("noop", 0, 0)
    [] OTHER -> IF IsSplice(t) /\ t.id <= f.id
                THEN [f EXCEPT !.id = @ + Splice(t)] ELSE f

\* Tag i of the sequence as all later tags leave it.
Unique(tags, i) ==
  LET from[n \in 1..Len(tags) + 1] ==
        [f \in Tags |-> IF n > Len(tags) THEN f ELSE from[n + 1][Filtered(f, tags[n])]]
  IN  from[i + 1][tags[i]]

\* lfs_dir_compact's traversal: names and contents only (the mask 0x400),
\* each once, of the entries begin to end - 1.
Kept(f, begin, end) == ~IsSplice(f) /\ f.type # "noop" /\ f.id >= begin /\ f.id < end

Compacted(log, attrs, begin, end) ==
  LET tags == log \o attrs
      after[n \in 0..Len(tags)] ==
        CASE n = 0 -> <<>>
          [] n > 0 /\ Kept(Unique(tags, n), begin, end) ->
               Append(after[n - 1], [FromDisk(log, Unique(tags, n)) EXCEPT !.id = @ - begin])
          [] OTHER -> after[n - 1]
  IN  after[Len(tags)]
==============================================================================
