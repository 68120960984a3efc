------------------------------ MODULE BlockCache ------------------------------
(***************************************************************************)
(* The caching block device operations at the bottom of littlefs           *)
(* (lfs_bd_read, lfs_bd_prog, lfs_bd_flush, lfs_bd_sync, lfs_bd_erase)     *)
(* over the block device its tests run on, lfs_emubd: blocks wear out and  *)
(* fail in one of five ways, and a power loss may undo the first erase     *)
(* since the last sync.                                                    *)
(*                                                                         *)
(* A byte is the number of the write it comes from; 0 is an erased byte    *)
(* (0xff).  The client uses the operations the way the rest of lfs.c does: *)
(* a "file" session erases a block and appends with validation, a "dir"    *)
(* session appends without, syncs, and may go on at the next program unit. *)
(***************************************************************************)
EXTENDS Integers, Sequences

CONSTANTS Block, NULL,              \* LFS_BLOCK_NULL
          BLOCK_SIZE, CACHE_SIZE, READ_SIZE, PROG_SIZE,
          ERASE_CYCLES,             \* erases until a block is bad
          Worn,                     \* the blocks that are at their last one
          Behaviors,                \* badblock_behavior of the device
          ReadSizes, ProgSizes,     \* what the client reads (size, hint), writes
          MaxWrites, MaxErases      \* bounds

\* What lfs_init asserts of the sizes; the unit of a read is no larger than
\* that of a prog, as in every configuration of the repository.
ASSUME SizesAssumption ==
  /\ {BLOCK_SIZE, CACHE_SIZE, READ_SIZE, PROG_SIZE} \subseteq Nat \ {0}
  /\ CACHE_SIZE % READ_SIZE = 0 /\ CACHE_SIZE % PROG_SIZE = 0
  /\ BLOCK_SIZE % CACHE_SIZE = 0
  /\ PROG_SIZE % READ_SIZE = 0
  /\ NULL \notin Block

ASSUME UseAssumption ==
  /\ ERASE_CYCLES \in Nat \ {0, 1} /\ Worn \subseteq Block
  /\ {MaxWrites, MaxErases} \subseteq Nat
  /\ ReadSizes \subseteq Nat \X Nat /\ ProgSizes \subseteq Nat

VARIABLES
  blocks,     \* what the device holds
  wear,       \* erases of each block, up to ERASE_CYCLES
  behavior,   \* how its bad blocks behave
  ooo,        \* first block erased since the last sync, and what it held
  pcache, rcache,
  op,         \* the write operation in progress
  rd,         \* the lfs_bd_read in progress
  sess,       \* block the client appends to
  shadow,     \* what the client wrote to each block, or Unknown
  synced,     \* what was synced of each block, or Unknown
  writes, erases

device == <<blocks, wear, behavior, ooo>>
caches == <<pcache, rcache>>
client == <<sess, shadow, synced, writes, erases>>
vars == <<device, caches, op, rd, client>>

Offsets == 0..BLOCK_SIZE - 1
Bytes == 0..MaxWrites
Erased == [i \in Offsets |-> 0]
Unknown == [i \in Offsets |-> -1]     \* -1: nothing is known of the byte

Min2(a, b) == IF a < b THEN a ELSE b
Max2(a, b) == IF a > b THEN a ELSE b
AlignDown(n, unit) == (n \div unit) * unit
AlignUp(n, unit) == AlignDown(n + unit - 1, unit)

EmptyCache == [block |-> NULL, off |-> 0, size |-> 0,
               buffer |-> [i \in 0..CACHE_SIZE - 1 |-> 0]]
NoOp == [name |-> "none", stage |-> "none", off |-> 0, size |-> 0, val |-> 0]
NoRead == [by |-> "none", block |-> NULL, off |-> 0, size |-> 0, hint |-> 0,
           usep |-> FALSE, data |-> <<>>]
NoSession == [block |-> NULL, off |-> 0, validate |-> FALSE]
NoOoo == [block |-> NULL, data |-> Erased]

Init ==
  /\ blocks = [b \in Block |-> Erased] /\ behavior \in Behaviors /\ ooo = NoOoo
  /\ wear = [b \in Block |-> ERASE_CYCLES - IF b \in Worn THEN 1 ELSE 2]
  /\ pcache = EmptyCache /\ rcache = EmptyCache /\ op = NoOp /\ rd = NoRead
  /\ sess = NoSession /\ writes = 0 /\ erases = 0
  /\ shadow = [b \in Block |-> Unknown] /\ synced = [b \in Block |-> Unknown]

Bad(b) == wear[b] >= ERASE_CYCLES

\* lfs_cache_drop forgets the block, lfs_cache_zero the contents too.
Drop(cache) == [cache EXCEPT !.block = NULL]

------------------------------------------------------------------------------
(* lfs_bd_read: one action for each way a round of its loop can end.       *)

\* cache holds bytes of the block beyond what is read next.
Ahead(cache) == /\ cache.block = rd.block
                /\ rd.off < cache.off + cache.size
Holds(cache) == Ahead(cache) /\ rd.off >= cache.off

PcacheHolds == rd.usep /\ Holds(pcache)
RcacheHolds == ~PcacheHolds /\ Holds(rcache)

\* Bytes up to where a cache takes over.
UpTo(limit, cache, on) ==
  IF on /\ Ahead(cache) THEN Min2(limit, cache.off - rd.off) ELSE limit

Consume(bytes) ==
  rd' = [rd EXCEPT !.data = @ \o bytes, !.off = @ + Len(bytes), !.size = @ - Len(bytes)]

FromCache(cache, n) == [i \in 1..n |-> cache.buffer[rd.off - cache.off + i - 1]]

ReadPcache ==
  /\ rd.size > 0 /\ PcacheHolds
  /\ Consume(FromCache(pcache, Min2(rd.size, pcache.size - (rd.off - pcache.off))))
  /\ UNCHANGED <<device, caches, op, client>>

ReadRcache ==
  /\ rd.size > 0 /\ RcacheHolds
  /\ Consume(FromCache(rcache, Min2(UpTo(rd.size, pcache, rd.usep),
                                    rcache.size - (rd.off - rcache.off))))
  /\ UNCHANGED <<device, caches, op, client>>

Missing == rd.size > 0 /\ ~PcacheHolds /\ ~RcacheHolds
Bypasses == rd.size >= rd.hint /\ rd.off % READ_SIZE = 0 /\ rd.size >= READ_SIZE
ReadFails == behavior = "READERROR" /\ Bad(rd.block)

ReadBypass ==
  /\ Missing /\ Bypasses /\ ~ReadFails
  /\ LET n == AlignDown(UpTo(UpTo(rd.size, pcache, rd.usep), rcache, TRUE), READ_SIZE)
     IN  Consume([i \in 1..n |-> blocks[rd.block][rd.off + i - 1]])
  /\ UNCHANGED <<device, caches, op, client>>

\* The extent of a load: from the read unit to the end of the hint.
LoadOff == AlignDown(rd.off, READ_SIZE)

\* Mutant of LoadSize: the hint is not added.
LoadSizeNoHint ==
  Min2(Min2(AlignUp(rd.off, READ_SIZE), BLOCK_SIZE) - LoadOff, CACHE_SIZE)

LoadSize == Min2(Min2(AlignUp(rd.off + rd.hint, READ_SIZE), BLOCK_SIZE) - LoadOff,
                 CACHE_SIZE)

ReadLoad ==
  /\ Missing /\ ~Bypasses /\ ~ReadFails
  /\ rcache' = [block |-> rd.block, off |-> LoadOff, size |-> LoadSize,
                buffer |-> [i \in 0..CACHE_SIZE - 1 |->
                              IF i < LoadSize THEN blocks[rd.block][LoadOff + i]
                              ELSE rcache.buffer[i]]]
  /\ UNCHANGED <<device, pcache, op, rd, client>>

\* The client's error handling: the write is given up, the prog cache dropped.
GiveUp(b) == /\ op' = NoOp /\ sess' = NoSession
             /\ shadow' = [shadow EXCEPT ![b] = Unknown]

\* A failing load leaves rcache naming the block it could not read.
ReadError ==
  /\ Missing /\ ReadFails
  /\ rcache' = IF Bypasses THEN rcache
               ELSE [rcache EXCEPT !.block = rd.block, !.off = LoadOff, !.size = LoadSize]
  /\ rd' = NoRead
  /\ IF rd.by = "check"
     THEN GiveUp(rd.block) /\ pcache' = Drop(pcache)
     ELSE UNCHANGED <<op, sess, shadow, pcache>>
  /\ UNCHANGED <<device, synced, writes, erases>>

EndRead ==
  /\ rd.by = "client" /\ rd.size = 0
  /\ rd' = NoRead
  /\ UNCHANGED <<device, caches, op, client>>

ReadStep == \/ ReadPcache \/ ReadRcache \/ ReadBypass \/ ReadLoad
            \/ ReadError \/ EndRead

------------------------------------------------------------------------------
(* lfs_bd_prog, lfs_bd_flush, lfs_bd_sync.                                 *)

Running(stage) == op.name # "none" /\ op.stage = stage /\ rd = NoRead

\* pcache is free: it is set up for the program unit of the next byte.
ProgPrepare ==
  /\ Running("copy") /\ op.size > 0
  /\ pcache.block = NULL
  /\ pcache' = [pcache EXCEPT !.block = sess.block, !.size = 0,
                              !.off = AlignDown(op.off, PROG_SIZE)]
  /\ UNCHANGED <<device, rcache, op, rd, client>>

\* A copy that fills pcache is flushed at once.
ProgCopy ==
  /\ Running("copy") /\ op.size > 0
  /\ pcache.block = sess.block
  /\ LET at == op.off - pcache.off
         n == Min2(op.size, CACHE_SIZE - at)
     IN  /\ pcache' = [pcache EXCEPT
              !.buffer = [i \in 0..CACHE_SIZE - 1 |->
                            IF i \in at..at + n - 1 THEN op.val ELSE pcache.buffer[i]],
              !.size = Max2(@, at + n)]
         /\ op' = [op EXCEPT !.off = @ + n, !.size = @ - n,
                     !.stage = IF pcache'.size = CACHE_SIZE THEN "flush" ELSE "copy"]
         /\ shadow' = [shadow EXCEPT ![sess.block] =
              [i \in Offsets |-> IF i \in op.off..op.off + n - 1 THEN op.val ELSE @[i]]]
  /\ UNCHANGED <<device, rcache, rd, sess, synced, writes, erases>>

ProgDone ==
  /\ Running("copy") /\ op.size = 0
  /\ op' = NoOp
  /\ sess' = [sess EXCEPT !.off = op.off]
  /\ UNCHANGED <<device, caches, rd, shadow, synced, writes, erases>>

FlushLen == AlignUp(pcache.size, PROG_SIZE)
AfterFlush == IF op.name = "prog" THEN "copy" ELSE "finish"

\* lfs_emubd_prog of the whole units pcache reaches into.
Programmed ==
  [blocks EXCEPT ![pcache.block] =
    [i \in Offsets |-> IF i \in pcache.off..pcache.off + FlushLen - 1
                       THEN pcache.buffer[i - pcache.off] ELSE @[i]]]

FlushNothing ==
  /\ Running("flush") /\ pcache.block = NULL
  /\ op' = [op EXCEPT !.stage = AfterFlush]
  /\ UNCHANGED <<device, caches, rd, client>>

\* Mutant of Flushed: what was programmed stays in the cache.
FlushedKept == pcache

\* lfs_cache_zero at the end of a flush.
Flushed == EmptyCache

CheckAgainst(cache) == Drop(cache)

FlushProg ==
  /\ Running("flush") /\ pcache.block # NULL
  /\ LET noop == Bad(pcache.block) /\ behavior \in {"PROGNOOP", "ERASENOOP"}
     IN  blocks' = IF noop THEN blocks ELSE Programmed
  /\ ~(Bad(pcache.block) /\ behavior = "PROGERROR")
  /\ IF sess.validate
     THEN /\ rcache' = CheckAgainst(rcache)
          /\ rd' = [by |-> "check", block |-> pcache.block, off |-> pcache.off,
                    size |-> FlushLen, hint |-> FlushLen, usep |-> FALSE, data |-> <<>>]
          /\ op' = [op EXCEPT !.stage = "check"]
          /\ UNCHANGED pcache
     ELSE /\ pcache' = Flushed
          /\ op' = [op EXCEPT !.stage = AfterFlush]
          /\ UNCHANGED <<rcache, rd>>
  /\ UNCHANGED <<wear, behavior, ooo, client>>

FlushProgError ==
  /\ Running("flush") /\ pcache.block # NULL
  /\ Bad(pcache.block) /\ behavior = "PROGERROR"
  /\ GiveUp(pcache.block) /\ pcache' = Drop(pcache)
  /\ UNCHANGED <<device, rcache, rd, synced, writes, erases>>

\* Mutant of ReadsBack: the result of lfs_bd_cmp is ignored.
ReadsBackIgnored == TRUE

\* lfs_bd_cmp: what was read back against the cache.
ReadsBack == \A i \in 1..Len(rd.data) : rd.data[i] = pcache.buffer[i - 1]

FlushCheck ==
  /\ op.stage = "check" /\ rd.by = "check" /\ rd.size = 0
  /\ rd' = NoRead
  /\ IF ReadsBack
     THEN /\ pcache' = EmptyCache
          /\ op' = [op EXCEPT !.stage = AfterFlush]
          /\ UNCHANGED <<sess, shadow>>
     ELSE GiveUp(pcache.block) /\ pcache' = Drop(pcache)
  /\ UNCHANGED <<device, rcache, synced, writes, erases>>

\* A flushed block of a file is not appended to again.
FlushDone ==
  /\ Running("finish") /\ op.name = "flush"
  /\ op' = NoOp /\ sess' = NoSession
  /\ UNCHANGED <<device, caches, rd, shadow, synced, writes, erases>>

\* Unvalidated blocks are left to the checksum of their commit.
Reliable(b) == b # sess.block \/ ~Bad(b)

SyncDone ==
  /\ Running("finish") /\ op.name = "sync"
  /\ ooo' = NoOoo
  /\ synced' = [b \in Block |-> IF Reliable(b) THEN shadow[b] ELSE Unknown]
  /\ sess' = [sess EXCEPT !.off = AlignUp(@, PROG_SIZE)]
  /\ op' = NoOp
  /\ UNCHANGED <<blocks, wear, behavior, caches, rd, shadow, writes, erases>>

WriteStep == \/ ProgPrepare \/ ProgCopy \/ ProgDone
             \/ FlushNothing \/ FlushProg \/ FlushProgError \/ FlushCheck
             \/ FlushDone \/ SyncDone

------------------------------------------------------------------------------
(* The client.                                                             *)

Free == op = NoOp /\ rd = NoRead

\* lfs_bd_erase, after which the block is appended to.
Erase(b, validate) ==
  /\ Free /\ sess = NoSession /\ pcache.block = NULL
  /\ erases < MaxErases /\ erases' = erases + 1
  /\ ooo' = IF ooo.block = NULL THEN [block |-> b, data |-> blocks[b]] ELSE ooo
  /\ wear' = [wear EXCEPT ![b] = Min2(@ + 1, ERASE_CYCLES)]
  /\ synced' = [synced EXCEPT ![b] = Unknown]
  /\ IF Bad(b) /\ behavior = "ERASEERROR"
     THEN UNCHANGED <<blocks, sess>> /\ shadow' = [shadow EXCEPT ![b] = Unknown]
     ELSE /\ blocks' = IF Bad(b) /\ behavior = "ERASENOOP" THEN blocks
                       ELSE [blocks EXCEPT ![b] = Erased]
          /\ sess' = [block |-> b, off |-> 0, validate |-> validate]
          /\ shadow' = [shadow EXCEPT ![b] = Erased]
  /\ UNCHANGED <<behavior, caches, op, rd, writes>>

BeginProg(n) ==
  /\ Free /\ sess.block # NULL /\ sess.off + n <= BLOCK_SIZE
  /\ writes < MaxWrites /\ writes' = writes + 1
  /\ op' = [name |-> "prog", stage |-> "copy", off |-> sess.off, size |-> n,
            val |-> writes + 1]
  /\ UNCHANGED <<device, caches, rd, sess, shadow, synced, erases>>

BeginFlush ==
  /\ Free /\ sess.block # NULL /\ sess.validate
  /\ op' = [NoOp EXCEPT !.name = "flush", !.stage = "flush"]
  /\ UNCHANGED <<device, caches, rd, client>>

\* Mutant of SyncedCache: a sync keeps what was read before it.
KeptCache(cache) == cache

SyncedCache(cache) == Drop(cache)

SyncFrom == "flush"

\* After the blocks of a file were flushed, or for a commit of a directory.
BeginSync ==
  /\ Free /\ (sess = NoSession \/ ~sess.validate)
  /\ rcache' = SyncedCache(rcache)
  /\ op' = [NoOp EXCEPT !.name = "sync", !.stage = SyncFrom]
  /\ UNCHANGED <<device, pcache, rd, client>>

\* A block in a "dir" session is read only behind a sync, any other whenever;
\* pcache is passed for single bytes only (lfs_file_relocate).
Readable(b) == b = sess.block /\ ~sess.validate => pcache.block = NULL /\ shadow[b] = synced[b]

BeginRead(b, off, n, hint) ==
  /\ Free /\ off + n <= BLOCK_SIZE
  /\ shadow[b] # Unknown /\ Readable(b)
  /\ b = pcache.block => n = 1
  /\ rd' = [by |-> "client", block |-> b, off |-> off, size |-> n, hint |-> hint,
            usep |-> n = 1, data |-> <<>>]
  /\ UNCHANGED <<device, caches, op, client>>

\* The power fails: RAM is lost, and with it the order of the first erase
\* since the last sync against what followed it.
PowerLoss ==
  /\ blocks' \in {blocks, IF ooo.block = NULL THEN blocks
                          ELSE [blocks EXCEPT ![ooo.block] = ooo.data]}
  /\ ooo' = NoOoo /\ pcache' = EmptyCache /\ rcache' = EmptyCache
  /\ op' = NoOp /\ rd' = NoRead /\ sess' = NoSession
  /\ shadow' = [b \in Block |-> [i \in Offsets |->
                  IF synced[b][i] = 0 THEN -1 ELSE synced[b][i]]]
  /\ UNCHANGED <<wear, behavior, synced, writes, erases>>

Client == \/ \E b \in Block, v \in BOOLEAN : Erase(b, v)
          \/ \E n \in ProgSizes : BeginProg(n)
          \/ BeginFlush \/ BeginSync
          \/ \E b \in Block, off \in Offsets, r \in ReadSizes :
               BeginRead(b, off, r[1], r[2])

Next == ReadStep \/ WriteStep \/ Client \/ PowerLoss

Spec == Init /\ [][Next]_vars /\ WF_vars(ReadStep) /\ WF_vars(WriteStep)

------------------------------------------------------------------------------
(* Properties.                                                             *)

Cache == [block : Block \cup {NULL}, off : Offsets, size : 0..CACHE_SIZE,
          buffer : [0..CACHE_SIZE - 1 -> Bytes]]

\* No cache and no operation goes past the end of its block (lfs_bd_read,
\* lfs_bd_prog).
TypeOK ==
  /\ blocks \in [Block -> [Offsets -> Bytes]]
  /\ wear \in [Block -> 0..ERASE_CYCLES]
  /\ behavior \in Behaviors
  /\ pcache \in Cache /\ rcache \in Cache
  /\ pcache.off + pcache.size <= BLOCK_SIZE
  /\ rcache.block # NULL => rcache.off + rcache.size <= BLOCK_SIZE
  /\ op.off + op.size <= BLOCK_SIZE
  /\ sess.off \in 0..BLOCK_SIZE

\* A finished read has returned what was last written to these bytes, be it
\* on the device or still in the prog cache, and never what the read cache
\* kept from before (lfs_bd_read against lfs_bd_flush, lfs_bd_sync).  Of
\* bytes not written since the erase it says nothing: lfs_bd_erase leaves the
\* read cache alone, which may answer with what the block held before.
ReadsAreCurrent ==
  rd.by = "client" /\ rd.size = 0 =>
    \A i \in 1..Len(rd.data) :
      shadow[rd.block][rd.off - Len(rd.data) + i - 1] \in {rd.data[i], -1, 0}

\* What was synced stays on the device, through appends to the same block,
\* power losses and reordered erases.
SyncedSurvives ==
  \A b \in Block, i \in Offsets : synced[b][i] > 0 => blocks[b][i] = synced[b][i]

\* A validated block that was flushed holds what was written, however its
\* block misbehaves: the caller is told of every bad block (lfs_bd_flush).
\* Of the bytes that fill up the last unit it says nothing: lfs_cache_drop
\* leaves in the cache what was in it.
BadBlocksAreFound ==
  \A b \in Block \ {sess.block, pcache.block} : \A i \in Offsets :
    shadow[b][i] \in {blocks[b][i], -1, 0}

\* Only erased bytes are programmed (the assertion of lfs_emubd_prog).
ProgsErased ==
  Running("flush") /\ pcache.block # NULL /\ ~Bad(pcache.block) =>
    \A i \in pcache.off..pcache.off + FlushLen - 1 : blocks[pcache.block][i] = 0

\* What the device holds is sound: only erased bytes are programmed, within
\* the block, and nothing that was synced is.
Inv == TypeOK /\ SyncedSurvives /\ ProgsErased

\* No read or write goes on for ever: the loops of lfs_bd_read and
\* lfs_bd_prog always make progress.
OperationsReturn == ~Free ~> Free
=============================================================================
