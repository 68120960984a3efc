--------------------------- MODULE BlockCacheProofs ---------------------------
(***************************************************************************)
(* The caches of littlefs for every block, cache, read and program size:   *)
(* a read returns what was last written, what was synced survives, a bad   *)
(* block under a file is found, and nothing is programmed twice.           *)
(*                                                                         *)
(* The argument follows the block the client appends to.  Its bytes are in *)
(* three parts: up to Start they are on the device, up to Pos they are in  *)
(* the prog cache, and beyond nothing was written since the erase.  The    *)
(* read cache may be out of date only for a block that is not read before  *)
(* the sync that drops it.                                                 *)
(***************************************************************************)
EXTENDS BlockCache, TLAPS

Mark == -1..MaxWrites
Op == [name : {"none", "prog", "flush", "sync"},
       stage : {"none", "copy", "flush", "check", "finish"},
       off : 0..BLOCK_SIZE, size : 0..BLOCK_SIZE, val : Bytes]
Read == [by : {"none", "client", "check"}, block : Block \cup {NULL}, off : 0..BLOCK_SIZE,
         size : 0..BLOCK_SIZE, hint : Nat, usep : BOOLEAN, data : Seq(Bytes)]
Session == [block : Block \cup {NULL}, off : 0..BLOCK_SIZE, validate : BOOLEAN]

Types ==
  /\ TypeOK
  /\ op \in Op /\ rd \in Read /\ sess \in Session
  /\ rd.off + rd.size <= BLOCK_SIZE
  /\ shadow \in [Block -> [Offsets -> Mark]] /\ synced \in [Block -> [Offsets -> Mark]]
  /\ ooo \in [block : Block \cup {NULL}, data : [Offsets -> Bytes]]
  /\ writes \in 0..MaxWrites /\ erases \in 0..MaxErases

Aligned(n) == n % PROG_SIZE = 0

\* Where the client appends next, and where the prog cache begins.
Pos == IF op.name = "prog" THEN op.off ELSE sess.off
Start == IF pcache.block # NULL THEN pcache.off ELSE Pos

\* The stages of an operation, and what each has to do with the session.
Stages ==
  /\ op.name = "none" <=> op.stage = "none"
  /\ op.stage = "copy" => op.name = "prog"
  /\ op.stage = "finish" => op.name # "prog"
  /\ op.name \in {"prog", "flush"} => sess.block # NULL
  /\ op.name = "flush" => sess.validate
  /\ op.name = "sync" => sess.block = NULL \/ ~sess.validate
  /\ op.name = "prog" /\ op.stage \in {"flush", "check"} =>
       pcache.block # NULL /\ pcache.size = CACHE_SIZE
  /\ op.stage = "finish" => pcache.block = NULL
  /\ sess.block = NULL => sess = NoSession
  /\ op.name = "prog" => op.val > 0

\* The prog cache holds the last bytes of the session, from a program unit on.
PcacheOfSession ==
  /\ pcache.block # NULL =>
       /\ pcache.block = sess.block
       /\ Aligned(pcache.off) /\ pcache.off + pcache.size = Pos
       /\ \A i \in 0..pcache.size - 1 :
            /\ pcache.buffer[i] = shadow[sess.block][pcache.off + i]
            /\ pcache.buffer[i] > 0
  /\ sess.block # NULL /\ pcache.block = NULL /\ op.stage # "finish" => Aligned(Pos)

\* Beyond the position nothing is written or synced, ...
NothingBeyond ==
  sess.block # NULL => \A j \in Offsets :
    /\ j >= Pos => shadow[sess.block][j] = 0
    /\ j >= Start => synced[sess.block][j] <= 0

\* ... and the device is still erased there.
DeviceEnd == IF pcache.block # NULL /\ op.stage # "check" THEN pcache.off
             ELSE AlignUp(Pos, PROG_SIZE)

ErasedAhead ==
  sess.block # NULL /\ ~Bad(sess.block) =>
    \A j \in Offsets : j >= DeviceEnd => blocks[sess.block][j] = 0

\* The device answers for a byte that was written.
Unreadable(b) == behavior = "READERROR" /\ Bad(b)
DeviceHas(b, j) == shadow[b][j] > 0 => shadow[b][j] = blocks[b][j] /\ ~Unreadable(b)

DeviceHolds ==
  \A b \in Block, j \in Offsets :
    b # sess.block \/ (j < Start /\ (sess.validate \/ ~Bad(b))) => DeviceHas(b, j)

SyncedHeld ==
  /\ \A b \in Block, j \in Offsets :
       synced[b][j] > 0 => synced[b][j] = blocks[b][j] /\ ~Unreadable(b)
  /\ ooo.block # NULL => \A j \in Offsets : synced[ooo.block][j] <= 0

\* The read cache is current for what may be read and is not in the prog cache.
InPcache(b, j) == b = pcache.block /\ pcache.off <= j /\ j < pcache.off + pcache.size

RcacheCurrent ==
  /\ rcache.block # NULL /\ Readable(rcache.block) =>
       \A i \in 0..rcache.size - 1 :
         \/ InPcache(rcache.block, rcache.off + i)
         \/ shadow[rcache.block][rcache.off + i] \in {rcache.buffer[i], -1, 0}
  /\ op.name = "sync" \/ rd.by = "check" => rcache.block = NULL

\* A read by the client: what it has so far is current.
ClientRead ==
  rd.by = "client" =>
    /\ op = NoOp /\ rd.block \in Block /\ Readable(rd.block)
    /\ rd.block = pcache.block => rd.usep
    /\ rd.usep => rd.size + Len(rd.data) = 1
    /\ Len(rd.data) <= rd.off
    /\ \A i \in 1..Len(rd.data) :
         shadow[rd.block][rd.off - Len(rd.data) + i - 1] \in {rd.data[i], -1, 0}

\* The read that validates a flush takes the whole extent in one round.
CheckRead ==
  /\ rd.by = "check" <=> op.stage = "check"
  /\ rd.by = "none" <=> rd = NoRead
  /\ rd.by = "check" =>
       /\ pcache.block # NULL /\ sess.validate /\ rd.block = pcache.block /\ ~rd.usep
       /\ \/ /\ rd.off = pcache.off /\ rd.size = FlushLen /\ rd.hint = FlushLen
             /\ rd.data = <<>>
          \/ /\ rd.size = 0 /\ ~Unreadable(rd.block)
             /\ rd.data = [i \in 1..FlushLen |-> blocks[rd.block][pcache.off + i - 1]]

\* What the writing operations keep, and what the reading ones do.
WriteSide == Stages /\ PcacheOfSession /\ NothingBeyond /\ ErasedAhead /\ DeviceHolds /\ SyncedHeld

ReadSide == RcacheCurrent /\ ClientRead /\ CheckRead

IInv == Types /\ WriteSide /\ ReadSide
------------------------------------------------------------------------------
(* lfs_aligndown and lfs_alignup.                                          *)

LEMMA DivMod ==
  ASSUME NEW n \in Nat, NEW u \in Nat \ {0}
  PROVE  /\ n \div u \in Nat /\ n % u \in 0..u - 1
         /\ n = (n \div u) * u + (n % u)
  OBVIOUS

LEMMA MultipleOf ==
  ASSUME NEW u \in Nat \ {0}, NEW n \in Nat
  PROVE  n % u = 0 <=> \E k \in Nat : n = k * u
<1>1. ASSUME n % u = 0 PROVE \E k \in Nat : n = k * u
  <2>1. n = (n \div u) * u + (n % u) /\ n \div u \in Nat
    BY DivMod
  <2>2. n = (n \div u) * u
    BY <1>1, <2>1
  <2> QED
    BY <2>1, <2>2
<1>2. ASSUME NEW k \in Nat, n = k * u PROVE n % u = 0
  BY <1>2
<1> QED
  BY <1>1, <1>2

LEMMA DownIs ==
  ASSUME NEW n \in Nat, NEW u \in Nat \ {0}
  PROVE  /\ AlignDown(n, u) \in Nat /\ AlignDown(n, u) % u = 0
         /\ AlignDown(n, u) <= n /\ n < AlignDown(n, u) + u
<1>1. /\ n \div u \in Nat /\ n % u \in 0..u - 1
      /\ n = AlignDown(n, u) + (n % u)
  BY DivMod DEF AlignDown
<1>2. AlignDown(n, u) \in Nat
  BY <1>1 DEF AlignDown
<1> QED
  BY <1>1, <1>2, MultipleOf DEF AlignDown

LEMMA NextMultiple ==
  ASSUME NEW u \in Nat \ {0}, NEW a \in Nat, NEW b \in Nat, a % u = 0, b % u = 0, a < b + u
  PROVE  a <= b
<1>1. PICK k \in Nat : a = k * u
  BY MultipleOf
<1>2. PICK l \in Nat : b = l * u
  BY MultipleOf
<1>3. k <= l
  <2> SUFFICES ASSUME k >= l + 1 PROVE FALSE
    BY <1>1, <1>2
  <2> QED
    BY <1>1, <1>2
<1> QED
  BY <1>1, <1>2, <1>3

LEMMA UpIs ==
  ASSUME NEW n \in Nat, NEW u \in Nat \ {0}
  PROVE  /\ AlignUp(n, u) \in Nat /\ AlignUp(n, u) % u = 0
         /\ n <= AlignUp(n, u) /\ AlignUp(n, u) < n + u
<1>1. n + u - 1 \in Nat
  OBVIOUS
<1> QED
  BY <1>1, DownIs DEF AlignUp

LEMMA UpLeast ==
  ASSUME NEW n \in Nat, NEW u \in Nat \ {0}, NEW m \in Nat, m % u = 0, n <= m
  PROVE  AlignUp(n, u) <= m
  BY UpIs, NextMultiple

LEMMA AlignedStays ==
  ASSUME NEW n \in Nat, NEW u \in Nat \ {0}, n % u = 0
  PROVE  AlignDown(n, u) = n /\ AlignUp(n, u) = n
<1>1. AlignDown(n, u) <= n /\ n <= AlignDown(n, u)
  BY DownIs, NextMultiple
<1>2. AlignUp(n, u) <= n
  BY UpLeast
<1>3. n <= AlignUp(n, u) /\ AlignUp(n, u) \in Nat
  BY UpIs
<1>4. AlignDown(n, u) \in Nat
  BY DownIs
<1> QED
  BY <1>1, <1>2, <1>3, <1>4

LEMMA AlignedSum ==
  ASSUME NEW a \in Nat, NEW b \in Nat, NEW u \in Nat \ {0}, a % u = 0, b % u = 0
  PROVE  (a + b) % u = 0
<1>1. PICK k \in Nat : a = k * u
  BY MultipleOf
<1>2. PICK l \in Nat : b = l * u
  BY MultipleOf
<1>3. a + b = (k + l) * u /\ k + l \in Nat /\ a + b \in Nat
  BY <1>1, <1>2
<1> QED
  BY <1>3, MultipleOf

LEMMA UpOfSum ==
  ASSUME NEW a \in Nat, NEW b \in Nat, NEW u \in Nat \ {0}, a % u = 0
  PROVE  AlignUp(a + b, u) = a + AlignUp(b, u)
<1> DEFINE up == AlignUp(a + b, u)
           rest == AlignUp(b, u)
<1>1. a + b \in Nat
  OBVIOUS
<1>2. up \in Nat /\ up % u = 0 /\ a + b <= up /\ up < a + b + u
  BY <1>1, UpIs
<1>3. rest \in Nat /\ rest % u = 0 /\ b <= rest /\ rest < b + u
  BY UpIs
<1> HIDE DEF up, rest
<1>4. a + rest \in Nat /\ (a + rest) % u = 0
  <2>1. (a + rest) % u = 0
    BY <1>3, AlignedSum, Zenon
  <2> QED
    BY <1>3, <2>1
<1> DEFINE sum == a + rest
<1>5. sum \in Nat /\ sum % u = 0 /\ up < sum + u /\ sum < up + u
  BY <1>2, <1>3, <1>4
<1> HIDE DEF sum
<1>6. up <= sum /\ sum <= up
  BY <1>2, <1>5, NextMultiple
<1> QED
  BY <1>2, <1>5, <1>6 DEF up, rest, sum

LEMMA AlignedThrough ==
  ASSUME NEW a \in Nat, NEW b \in Nat \ {0}, NEW c \in Nat \ {0}, a % b = 0, b % c = 0
  PROVE  a % c = 0
<1>1. PICK k \in Nat : a = k * b
  BY MultipleOf
<1>2. PICK l \in Nat : b = l * c
  BY MultipleOf
<1>3. a = (k * l) * c /\ k * l \in Nat
  BY <1>1, <1>2
<1> QED
  BY <1>3, MultipleOf
------------------------------------------------------------------------------
LEMMA Sizes ==
  /\ BLOCK_SIZE \in Nat \ {0} /\ CACHE_SIZE \in Nat \ {0}
  /\ READ_SIZE \in Nat \ {0} /\ PROG_SIZE \in Nat \ {0}
  /\ MaxWrites \in Nat /\ MaxErases \in Nat /\ ERASE_CYCLES \in Nat \ {0, 1}
  /\ CACHE_SIZE % PROG_SIZE = 0 /\ BLOCK_SIZE % PROG_SIZE = 0 /\ PROG_SIZE % READ_SIZE = 0
<1>1. /\ BLOCK_SIZE \in Nat \ {0} /\ CACHE_SIZE \in Nat \ {0}
      /\ READ_SIZE \in Nat \ {0} /\ PROG_SIZE \in Nat \ {0}
      /\ MaxWrites \in Nat /\ MaxErases \in Nat /\ ERASE_CYCLES \in Nat \ {0, 1}
  BY SizesAssumption, UseAssumption
<1>2. CACHE_SIZE % PROG_SIZE = 0 /\ BLOCK_SIZE % CACHE_SIZE = 0 /\ PROG_SIZE % READ_SIZE = 0
  BY SizesAssumption
<1>3. BLOCK_SIZE % PROG_SIZE = 0
  BY <1>1, <1>2, AlignedThrough
<1> QED
  BY <1>1, <1>2, <1>3

LEMMA InitialTypes ==
  /\ Erased \in [Offsets -> Bytes] /\ Erased \in [Offsets -> Mark]
  /\ Unknown \in [Offsets -> Mark]
  /\ EmptyCache \in Cache /\ NoOp \in Op /\ NoRead \in Read /\ NoSession \in Session
  /\ NoOoo \in [block : Block \cup {NULL}, data : [Offsets -> Bytes]]
<1> USE Sizes
<1>1. Erased \in [Offsets -> Bytes] /\ Erased \in [Offsets -> Mark] /\ Unknown \in [Offsets -> Mark]
  BY DEF Erased, Unknown, Bytes, Mark
<1>2. EmptyCache \in Cache
  BY DEF EmptyCache, Cache, Bytes, Offsets
<1>3. NoOp \in Op
  BY DEF NoOp, Op, Bytes
<1>4. NoRead \in Read
  BY DEF NoRead, Read
<1>5. NoSession \in Session
  BY DEF NoSession, Session
<1> QED
  BY <1>1, <1>2, <1>3, <1>4, <1>5 DEF NoOoo

\* The program units that a flush writes.
LEMMA FlushFits ==
  ASSUME Types, WriteSide, pcache.block # NULL
  PROVE  /\ FlushLen \in Nat /\ pcache.size <= FlushLen /\ FlushLen <= CACHE_SIZE
         /\ FlushLen % READ_SIZE = 0 /\ pcache.off % READ_SIZE = 0
         /\ AlignUp(Pos, PROG_SIZE) = pcache.off + FlushLen
         /\ pcache.off + FlushLen <= BLOCK_SIZE
<1>1. /\ pcache.off \in Nat /\ pcache.size \in Nat /\ pcache.size <= CACHE_SIZE
      /\ pcache.off % PROG_SIZE = 0 /\ pcache.off + pcache.size = Pos
      /\ pcache.off + pcache.size <= BLOCK_SIZE
  BY Sizes DEF Types, TypeOK, Cache, Offsets, WriteSide, PcacheOfSession, Aligned
<1>2. /\ FlushLen \in Nat /\ FlushLen % PROG_SIZE = 0 /\ pcache.size <= FlushLen
      /\ FlushLen <= CACHE_SIZE
  BY <1>1, Sizes, UpIs, UpLeast DEF FlushLen
<1>3. AlignUp(Pos, PROG_SIZE) = pcache.off + FlushLen
  BY <1>1, Sizes, UpOfSum DEF FlushLen
<1>4. AlignUp(Pos, PROG_SIZE) <= BLOCK_SIZE
  BY <1>1, Sizes, UpLeast
<1>5. FlushLen % READ_SIZE = 0 /\ pcache.off % READ_SIZE = 0
  BY <1>1, <1>2, Sizes, AlignedThrough
<1> QED
  BY <1>1, <1>2, <1>3, <1>4, <1>5
LEMMA InitInvariant == Init => IInv
<1> SUFFICES ASSUME Init PROVE IInv
  OBVIOUS
<1> USE DEF Init
<1>1. Types
  <2>1. blocks \in [Block -> [Offsets -> Bytes]]
    BY InitialTypes
  <2>2. shadow \in [Block -> [Offsets -> Mark]] /\ synced \in [Block -> [Offsets -> Mark]]
    BY InitialTypes
  <2>3. wear \in [Block -> 0..ERASE_CYCLES]
    BY Sizes
  <2>4. /\ pcache.off + pcache.size <= BLOCK_SIZE /\ rcache.block = NULL
        /\ op.off + op.size <= BLOCK_SIZE /\ sess.off \in 0..BLOCK_SIZE
        /\ rd.off + rd.size <= BLOCK_SIZE
    BY Sizes DEF EmptyCache, NoOp, NoSession, NoRead
  <2>5. TypeOK
    BY <2>1, <2>3, <2>4, InitialTypes DEF TypeOK
  <2> QED
    BY <2>2, <2>4, <2>5, InitialTypes, Sizes DEF Types
<1>2. WriteSide
  BY SizesAssumption DEF WriteSide, Stages, PcacheOfSession, NothingBeyond, ErasedAhead,
     DeviceHolds, DeviceHas, SyncedHeld, EmptyCache, NoOp, NoSession, NoOoo, Unknown
<1>3. ReadSide
  BY DEF ReadSide, RcacheCurrent, ClientRead, CheckRead, EmptyCache, NoOp, NoRead
<1> QED
  BY <1>1, <1>2, <1>3 DEF IInv

------------------------------------------------------------------------------
(* Reading.                                                                *)

\* What a cache does not hold may be read from the device.
LEMMA OnDevice ==
  ASSUME Types, WriteSide, NEW b \in Block, Readable(b), NEW j \in Offsets, ~InPcache(b, j)
  PROVE  DeviceHas(b, j)
<1> USE DEF WriteSide
<1>1. CASE b # sess.block
  BY <1>1 DEF DeviceHolds
<1>2. CASE b = sess.block /\ ~sess.validate
  BY <1>2 DEF Readable, SyncedHeld, DeviceHas
<1>3. CASE b = sess.block /\ sess.validate
  <2>1. j < Start => DeviceHas(b, j)
    BY <1>3 DEF DeviceHolds
  <2>2. j >= Pos => DeviceHas(b, j)
    BY <1>3, SizesAssumption DEF NothingBeyond, DeviceHas
  <2>3. j < Start \/ j >= Pos
    <3>1. j \in Nat /\ Pos \in Nat /\ pcache.off \in Nat
      BY Sizes DEF Types, TypeOK, Op, Session, Cache, Offsets, Pos
    <3>2. CASE pcache.block = NULL
      BY <3>1, <3>2 DEF Start
    <3>3. CASE pcache.block # NULL
      <4>1. pcache.block = b /\ pcache.off + pcache.size = Pos
        BY <1>3, <3>3 DEF PcacheOfSession
      <4> QED
        BY <3>1, <3>3, <4>1 DEF Start, InPcache
    <3> QED
      BY <3>2, <3>3
  <2> QED
    BY <2>1, <2>2, <2>3
<1> QED
  BY <1>1, <1>2, <1>3

\* Who is reading, and where.
LEMMA Reading ==
  ASSUME Types, WriteSide, ReadSide, rd.size > 0
  PROVE  /\ rd.by \in {"client", "check"} /\ rd.block \in Block /\ rd.off \in Offsets
         /\ rd.off \in Nat /\ rd.size \in Nat /\ rd.off + rd.size <= BLOCK_SIZE
         /\ rd.by = "check" => /\ rd.off = pcache.off /\ rd.size = FlushLen /\ rd.hint = rd.size
                              /\ rd.data = <<>> /\ ~rd.usep /\ rcache.block = NULL
                              /\ rd.block = pcache.block
<1>1. rd.by \in {"client", "check"}
  BY DEF Types, Read, ReadSide, CheckRead, NoRead
<1>2. rd.by = "check" => rd.block \in Block
  BY DEF Types, TypeOK, Cache, ReadSide, CheckRead
<1>3. rd.by = "client" => rd.block \in Block
  BY DEF ReadSide, ClientRead
<1>4. rd.off \in Nat /\ rd.size \in Nat /\ rd.off + rd.size <= BLOCK_SIZE
  BY Sizes DEF Types, Read
<1>5. rd.off \in Offsets
  BY <1>4, Sizes DEF Offsets
<1>6. rd.by = "check" => /\ rd.off = pcache.off /\ rd.size = FlushLen /\ rd.hint = rd.size
                       /\ rd.data = <<>> /\ ~rd.usep /\ rcache.block = NULL
                       /\ rd.block = pcache.block
  BY DEF ReadSide, CheckRead, RcacheCurrent
<1> QED
  BY <1>1, <1>2, <1>3, <1>4, <1>5, <1>6

\* The check of a flush always bypasses the caches.
LEMMA CheckBypasses ==
  ASSUME Types, WriteSide, ReadSide, rd.size > 0, rd.by = "check"
  PROVE  Missing /\ Bypasses
<1>1. /\ rd.off = pcache.off /\ rd.size = FlushLen /\ rd.hint = rd.size /\ ~rd.usep
      /\ rcache.block = NULL /\ rd.block \in Block /\ pcache.block # NULL
  BY Reading, SizesAssumption DEF ReadSide, CheckRead
<1>2. /\ FlushLen \in Nat /\ FlushLen % READ_SIZE = 0 /\ pcache.off % READ_SIZE = 0
  BY <1>1, FlushFits
<1>3. FlushLen >= READ_SIZE
  <2>1. FlushLen < 0 + READ_SIZE /\ 0 % READ_SIZE = 0 => FlushLen <= 0
    BY <1>2, Sizes, NextMultiple
  <2>2. 0 % READ_SIZE = 0
    BY Sizes
  <2> QED
    BY <1>1, <1>2, <2>1, <2>2, Sizes
<1>4. Bypasses
  BY <1>1, <1>2, <1>3 DEF Bypasses
<1>5. Missing
  BY <1>1, SizesAssumption DEF Missing, PcacheHolds, RcacheHolds, Holds, Ahead
<1> QED
  BY <1>4, <1>5
\* Bytes that a round of lfs_bd_read may take: current ones, to the client.
Current(bytes) ==
  \A i \in 1..Len(bytes) : shadow[rd.block][rd.off + i - 1] \in {bytes[i], -1, 0}

\* A read of the client from the block in the prog cache is one of a byte.
LEMMA ClientReads ==
  ASSUME Types, WriteSide, ReadSide, rd.by = "client", rd.size > 0, ~PcacheHolds,
         NEW n \in Nat, n <= rd.size, NEW i \in 1..n
  PROVE  ~InPcache(rd.block, rd.off + i - 1)
<1> SUFFICES ASSUME InPcache(rd.block, rd.off + i - 1) PROVE FALSE
  OBVIOUS
<1>1. rd.block = pcache.block /\ rd.usep
  BY DEF InPcache, ReadSide, ClientRead
<1>2. Len(rd.data) \in Nat
  BY DEF Types, Read
<1>3. rd.size = 1 /\ rd.off \in Nat
  BY <1>1, <1>2, Sizes DEF ReadSide, ClientRead, Types, Read
<1>4. i = 1
  BY <1>3
<1> QED
  BY <1>1, <1>3, <1>4 DEF InPcache, PcacheHolds, Holds, Ahead

LEMMA RoundPcache ==
  ASSUME Types, WriteSide, ReadSide, ReadPcache
  PROVE  \E s \in Seq(Bytes) : /\ Len(s) <= rd.size /\ Consume(s) /\ rd.by = "client"
                              /\ Current(s)
<1> DEFINE n == Min2(rd.size, pcache.size - (rd.off - pcache.off))
           s == FromCache(pcache, n)
<1>1. /\ rd.size > 0 /\ PcacheHolds /\ Consume(s)
  BY DEF ReadPcache
<1>2. /\ rd.off \in Nat /\ rd.size \in Nat /\ pcache.off \in Nat /\ pcache.size \in Nat
      /\ pcache.size <= CACHE_SIZE /\ pcache.off <= rd.off /\ rd.off < pcache.off + pcache.size
      /\ rd.block = pcache.block /\ rd.block \in Block /\ rd.by = "client"
  BY <1>1, Reading, Sizes DEF Types, TypeOK, Cache, Offsets, PcacheHolds, Holds, Ahead
<1>3. n \in Nat /\ n <= rd.size /\ n <= pcache.size - (rd.off - pcache.off)
  BY <1>2 DEF Min2
<1>4. \A i \in 1..n : /\ rd.off - pcache.off + i - 1 \in 0..pcache.size - 1
                      /\ rd.off - pcache.off + i - 1 \in 0..CACHE_SIZE - 1
                      /\ pcache.off + (rd.off - pcache.off + i - 1) = rd.off + i - 1
  BY <1>2, <1>3, Sizes
<1> HIDE DEF n
<1>5. s \in Seq(Bytes) /\ Len(s) = n /\ \A i \in 1..n : s[i] = pcache.buffer[rd.off - pcache.off + i - 1]
  <2>1. pcache.buffer \in [0..CACHE_SIZE - 1 -> Bytes]
    BY DEF Types, TypeOK, Cache
  <2>2. \A i \in 1..n : pcache.buffer[rd.off - pcache.off + i - 1] \in Bytes
    BY <1>4, <2>1
  <2>3. s = [i \in 1..n |-> pcache.buffer[rd.off - pcache.off + i - 1]]
    BY DEF FromCache
  <2> QED
    BY <1>3, <2>2, <2>3
<1>6. pcache.block # NULL /\ pcache.block = sess.block
  BY <1>2, SizesAssumption DEF WriteSide, PcacheOfSession
<1>7. Current(s)
  <2> SUFFICES ASSUME NEW i \in 1..n
               PROVE  shadow[rd.block][rd.off + i - 1] = s[i]
    BY <1>5 DEF Current
  <2> DEFINE k == rd.off - pcache.off + i - 1
  <2>1. k \in 0..pcache.size - 1 /\ pcache.off + k = rd.off + i - 1
    BY <1>4
  <2> HIDE DEF k
  <2>2. pcache.buffer[k] = shadow[sess.block][pcache.off + k]
    BY <1>6, <2>1 DEF WriteSide, PcacheOfSession
  <2> QED
    BY <1>2, <1>5, <1>6, <2>1, <2>2 DEF k
<1> QED
  BY <1>1, <1>2, <1>3, <1>5, <1>7

LEMMA RoundRcache ==
  ASSUME Types, WriteSide, ReadSide, ReadRcache
  PROVE  \E s \in Seq(Bytes) : /\ Len(s) <= rd.size /\ Consume(s) /\ rd.by = "client"
                              /\ Current(s)
<1> DEFINE up == UpTo(rd.size, pcache, rd.usep)
           n == Min2(up, rcache.size - (rd.off - rcache.off))
           s == FromCache(rcache, n)
<1>1. rd.size > 0 /\ RcacheHolds /\ ~PcacheHolds /\ Consume(s)
  BY DEF ReadRcache, RcacheHolds
<1>2. /\ rd.off \in Nat /\ rd.size \in Nat /\ rcache.off \in Nat /\ rcache.size \in Nat
      /\ rcache.size <= CACHE_SIZE /\ rcache.off <= rd.off /\ rd.off < rcache.off + rcache.size
      /\ rd.block = rcache.block /\ rd.block \in Block /\ pcache.off \in Nat
  BY <1>1, Reading, Sizes DEF Types, TypeOK, Cache, Offsets, RcacheHolds, Holds, Ahead
<1>3. rd.by = "client" /\ Readable(rd.block)
  BY <1>1, <1>2, Reading, SizesAssumption DEF ReadSide, ClientRead
<1>4. up \in Nat /\ up <= rd.size
  BY <1>1, <1>2 DEF UpTo, Min2, PcacheHolds, Holds
<1> HIDE DEF up
<1>5. n \in Nat /\ n <= rd.size /\ n <= rcache.size - (rd.off - rcache.off)
  BY <1>2, <1>4 DEF Min2
<1>6. \A i \in 1..n : /\ rd.off - rcache.off + i - 1 \in 0..rcache.size - 1
                      /\ rd.off - rcache.off + i - 1 \in 0..CACHE_SIZE - 1
                      /\ rcache.off + (rd.off - rcache.off + i - 1) = rd.off + i - 1
  BY <1>2, <1>5, Sizes
<1> HIDE DEF n
<1>7. s \in Seq(Bytes) /\ Len(s) = n /\ \A i \in 1..n : s[i] = rcache.buffer[rd.off - rcache.off + i - 1]
  <2>1. rcache.buffer \in [0..CACHE_SIZE - 1 -> Bytes]
    BY DEF Types, TypeOK, Cache
  <2>2. \A i \in 1..n : rcache.buffer[rd.off - rcache.off + i - 1] \in Bytes
    BY <1>6, <2>1
  <2>3. s = [i \in 1..n |-> rcache.buffer[rd.off - rcache.off + i - 1]]
    BY DEF FromCache
  <2> QED
    BY <1>5, <2>2, <2>3
<1>8. Current(s)
  <2> SUFFICES ASSUME NEW i \in 1..n
               PROVE  shadow[rd.block][rd.off + i - 1] \in {s[i], -1, 0}
    BY <1>7 DEF Current
  <2>1. ~InPcache(rd.block, rd.off + i - 1)
    BY <1>1, <1>3, <1>5, ClientReads
  <2> DEFINE k == rd.off - rcache.off + i - 1
  <2>2. k \in 0..rcache.size - 1 /\ rcache.off + k = rd.off + i - 1
    BY <1>6
  <2> HIDE DEF k
  <2>3. rcache.block # NULL
    BY <1>2, SizesAssumption
  <2>4. shadow[rcache.block][rcache.off + k] \in {rcache.buffer[k], -1, 0}
    BY <1>2, <1>3, <2>1, <2>2, <2>3 DEF ReadSide, RcacheCurrent
  <2> QED
    BY <1>2, <1>7, <2>2, <2>4 DEF k
<1> QED
  BY <1>1, <1>3, <1>5, <1>7, <1>8

LEMMA RoundBypass ==
  ASSUME Types, WriteSide, ReadSide, ReadBypass
  PROVE  \E s \in Seq(Bytes) :
           /\ Len(s) <= rd.size /\ Consume(s)
           /\ rd.by = "client" => Current(s)
           /\ rd.by = "check" => /\ ~Unreadable(rd.block) /\ Len(s) = rd.size
                                /\ s = [i \in 1..FlushLen |-> blocks[rd.block][pcache.off + i - 1]]
<1> DEFINE up == UpTo(rd.size, pcache, rd.usep)
           upTo == UpTo(up, rcache, TRUE)
           n == AlignDown(upTo, READ_SIZE)
           s == [i \in 1..n |-> blocks[rd.block][rd.off + i - 1]]
<1>1. rd.size > 0 /\ Missing /\ Bypasses /\ ~ReadFails /\ Consume(s)
  BY DEF ReadBypass, Missing
<1>2. /\ rd.off \in Nat /\ rd.size \in Nat /\ rd.off + rd.size <= BLOCK_SIZE
      /\ rd.block \in Block /\ rd.by \in {"client", "check"}
      /\ pcache.off \in Nat /\ rcache.off \in Nat
  BY <1>1, Reading, Sizes DEF Types, TypeOK, Cache, Offsets
<1>3. up \in Nat /\ up <= rd.size
  BY <1>1, <1>2 DEF UpTo, Min2, Missing, PcacheHolds, Holds
<1>4. upTo \in Nat /\ upTo <= up
  <2> HIDE DEF up
  <2> QED
    BY <1>1, <1>2, <1>3 DEF UpTo, Min2, Missing, RcacheHolds, Holds
<1>5. n \in Nat /\ n <= rd.size
  <2> HIDE DEF upTo
  <2>1. n \in Nat /\ n <= upTo
    BY <1>4, Sizes, DownIs
  <2> HIDE DEF n, up
  <2> QED
    BY <1>2, <1>3, <1>4, <2>1
<1>6. \A i \in 1..n : rd.off + i - 1 \in Offsets
  <2> HIDE DEF n
  <2> QED
    BY <1>2, <1>5, Sizes DEF Offsets
<1>7. s \in Seq(Bytes) /\ Len(s) = n /\ \A i \in 1..n : s[i] = blocks[rd.block][rd.off + i - 1]
  <2> HIDE DEF n
  <2> QED
    BY <1>2, <1>5, <1>6 DEF Types, TypeOK
<1>8. rd.by = "client" => Current(s)
  <2> HIDE DEF n, s
  <2> SUFFICES ASSUME NEW i \in 1..n, rd.by = "client"
               PROVE  shadow[rd.block][rd.off + i - 1] \in {s[i], -1, 0}
    BY <1>7 DEF Current
  <2>1. ~InPcache(rd.block, rd.off + i - 1)
    BY <1>1, <1>5, ClientReads DEF Missing
  <2>2. DeviceHas(rd.block, rd.off + i - 1)
    BY <1>2, <1>6, <2>1, OnDevice DEF ReadSide, ClientRead
  <2>3. shadow[rd.block][rd.off + i - 1] \in Mark
    BY <1>2, <1>6 DEF Types
  <2> QED
    BY <1>7, <2>2, <2>3, Sizes DEF DeviceHas, Mark
<1>9. ASSUME rd.by = "check"
      PROVE  /\ ~Unreadable(rd.block) /\ Len(s) = rd.size
             /\ s = [i \in 1..FlushLen |-> blocks[rd.block][pcache.off + i - 1]]
  <2>1. /\ rd.off = pcache.off /\ rd.size = FlushLen /\ ~rd.usep /\ rcache.block = NULL
        /\ rd.block = pcache.block
    BY <1>1, <1>9, Reading
  <2>2. rd.block # NULL
    BY <1>2, SizesAssumption
  <2>3. upTo = FlushLen
    BY <2>1, <2>2 DEF UpTo, Ahead
  <2>4. FlushLen % READ_SIZE = 0 /\ FlushLen \in Nat
    BY <2>1, <2>2, FlushFits
  <2>5. n = FlushLen
    <3> HIDE DEF upTo
    <3> QED
      BY <2>3, <2>4, Sizes, AlignedStays
  <2>6. ~Unreadable(rd.block)
    BY <1>1 DEF ReadFails, Unreadable
  <2> QED
    BY <1>7, <2>1, <2>5, <2>6
<1> QED
  BY <1>1, <1>5, <1>7, <1>8, <1>9
LEMMA LoadFits ==
  ASSUME Types, WriteSide, ReadSide, rd.size > 0
  PROVE  /\ LoadOff \in Offsets /\ LoadSize \in 0..CACHE_SIZE /\ LoadOff + LoadSize <= BLOCK_SIZE
         /\ LoadOff \in Nat /\ LoadSize \in Nat
<1>1. /\ rd.off \in Nat /\ rd.hint \in Nat /\ rd.off < BLOCK_SIZE
  BY Reading, Sizes DEF Types, Read, Offsets
<1>2. LoadOff \in Nat /\ LoadOff <= rd.off
  BY <1>1, Sizes, DownIs DEF LoadOff
<1> DEFINE end == AlignUp(rd.off + rd.hint, READ_SIZE)
<1>3. end \in Nat /\ end >= rd.off + rd.hint
  <2>1. rd.off + rd.hint \in Nat
    BY <1>1
  <2> QED
    BY <2>1, Sizes, UpIs
<1>4. LoadSize = Min2(Min2(end, BLOCK_SIZE) - LoadOff, CACHE_SIZE)
  BY DEF LoadSize
<1> HIDE DEF end
<1> QED
  BY <1>1, <1>2, <1>3, <1>4, Sizes DEF Min2, Offsets

\* An operation that is given up leaves no trace but in the read cache.
LEMMA GiveUpKeeps ==
  ASSUME Types, WriteSide, pcache.block # NULL, GiveUp(pcache.block), pcache' = Drop(pcache),
         UNCHANGED <<device, synced, writes, erases>>
  PROVE  WriteSide'
<1>1. /\ op' = NoOp /\ sess' = NoSession /\ pcache'.block = NULL
      /\ shadow' = [shadow EXCEPT ![pcache.block] = Unknown]
      /\ pcache.block = sess.block /\ pcache.block \in Block
      /\ UNCHANGED <<blocks, wear, behavior, ooo, synced>>
  BY DEF GiveUp, Drop, Types, TypeOK, Cache, WriteSide, PcacheOfSession, device
<1>2. Stages' /\ PcacheOfSession' /\ NothingBeyond' /\ ErasedAhead'
  BY <1>1 DEF Stages, PcacheOfSession, NothingBeyond, ErasedAhead, NoOp, NoSession
<1>3. DeviceHolds'
  BY <1>1, SizesAssumption DEF DeviceHolds, DeviceHas, Unreadable, Bad, Unknown, WriteSide, Types,
                               Offsets
<1>4. SyncedHeld'
  BY <1>1 DEF SyncedHeld, WriteSide, Unreadable, Bad
<1> QED
  BY <1>1, <1>2, <1>3, <1>4 DEF WriteSide

\* The writing side does not depend on the reads.
written == <<device, pcache, op, client>>

LEMMA WriteSideUnread ==
  ASSUME WriteSide, UNCHANGED written
  PROVE  WriteSide'
  BY DEF written, device, client, WriteSide, Stages, PcacheOfSession, NothingBeyond, ErasedAhead,
     DeviceHolds, SyncedHeld, DeviceHas, Unreadable, Bad, Pos, Start, DeviceEnd, Aligned

LEMMA WriteSideRead ==
  ASSUME Types, WriteSide, ReadSide, ReadStep
  PROVE  WriteSide'
<1>1. CASE ReadPcache \/ ReadRcache \/ ReadBypass \/ ReadLoad \/ EndRead
  BY <1>1, WriteSideUnread DEF ReadPcache, ReadRcache, ReadBypass, ReadLoad, EndRead, written, caches
<1>2. CASE ReadError
  <2>1. CASE rd.by = "check"
    <3>1. /\ rd.block = pcache.block /\ pcache.block # NULL /\ GiveUp(rd.block)
          /\ pcache' = Drop(pcache) /\ UNCHANGED <<device, synced, writes, erases>>
      BY <1>2, <2>1 DEF ReadError, ReadSide, CheckRead
    <3> QED
      BY <3>1, GiveUpKeeps
  <2>2. CASE rd.by # "check"
    BY <1>2, <2>2, WriteSideUnread DEF ReadError, written, client
  <2> QED
    BY <2>1, <2>2
<1> QED
  BY <1>1, <1>2 DEF ReadStep

\* What a round leaves.
LEMMA ConsumeIs ==
  ASSUME Types, NEW s \in Seq(Bytes), Len(s) <= rd.size, Consume(s)
  PROVE  /\ rd' \in Read /\ rd'.off + rd'.size <= BLOCK_SIZE
         /\ rd'.by = rd.by /\ rd'.block = rd.block /\ rd'.usep = rd.usep
         /\ rd'.data = rd.data \o s /\ rd'.off = rd.off + Len(s) /\ rd'.size = rd.size - Len(s)
         /\ Len(rd'.data) = Len(rd.data) + Len(s)
<1>1. /\ rd'.by = rd.by /\ rd'.block = rd.block /\ rd'.usep = rd.usep /\ rd'.hint = rd.hint
      /\ rd'.data = rd.data \o s /\ rd'.off = rd.off + Len(s) /\ rd'.size = rd.size - Len(s)
      /\ rd' = [by |-> rd.by, block |-> rd.block, off |-> rd.off + Len(s),
                size |-> rd.size - Len(s), hint |-> rd.hint, usep |-> rd.usep,
                data |-> rd.data \o s]
  BY DEF Consume, Types, Read
<1>2. /\ rd.off \in Nat /\ rd.size \in Nat /\ rd.off + rd.size <= BLOCK_SIZE /\ rd.data \in Seq(Bytes)
  BY Sizes DEF Types, Read
<1>3. /\ rd.off + Len(s) \in 0..BLOCK_SIZE /\ rd.size - Len(s) \in 0..BLOCK_SIZE
      /\ rd.off + Len(s) + (rd.size - Len(s)) <= BLOCK_SIZE /\ rd.data \o s \in Seq(Bytes)
      /\ Len(rd.data \o s) = Len(rd.data) + Len(s)
  BY <1>2, Sizes
<1>4. rd' \in Read
  BY <1>1, <1>3 DEF Types, Read
<1> QED
  BY <1>1, <1>3, <1>4

LEMMA TypesRead ==
  ASSUME Types, WriteSide, ReadSide, ReadStep
  PROVE  Types'
<1> USE DEF Types, TypeOK, device, caches, client
<1>1. CASE ReadPcache \/ ReadRcache \/ ReadBypass
  <2>1. \E s \in Seq(Bytes) : Len(s) <= rd.size /\ Consume(s)
    BY <1>1, RoundPcache, RoundRcache, RoundBypass
  <2>2. rd' \in Read /\ rd'.off + rd'.size <= BLOCK_SIZE
    BY <2>1, ConsumeIs
  <2>3. UNCHANGED <<device, caches, op, client>>
    BY <1>1 DEF ReadPcache, ReadRcache, ReadBypass
  <2> QED
    BY <2>2, <2>3
<1>2. CASE ReadLoad
  <2>1. rd.size > 0
    BY <1>2 DEF ReadLoad, Missing
  <2>2. /\ LoadOff \in Offsets /\ LoadSize \in 0..CACHE_SIZE /\ LoadOff + LoadSize <= BLOCK_SIZE
        /\ LoadOff \in Nat /\ LoadSize \in Nat /\ rd.block \in Block
    BY <2>1, LoadFits, Reading
  <2>3. \A i \in 0..CACHE_SIZE - 1 : i < LoadSize => LoadOff + i \in Offsets
    BY <2>2, Sizes DEF Offsets
  <2>4. rcache'.buffer \in [0..CACHE_SIZE - 1 -> Bytes]
    <3>1. \A i \in 0..CACHE_SIZE - 1 :
            (IF i < LoadSize THEN blocks[rd.block][LoadOff + i] ELSE rcache.buffer[i]) \in Bytes
      BY <2>2, <2>3 DEF Cache
    <3> QED
      BY <1>2, <3>1 DEF ReadLoad
  <2>5. rcache' \in Cache /\ rcache'.off + rcache'.size <= BLOCK_SIZE
    BY <1>2, <2>2, <2>4 DEF ReadLoad, Cache
  <2> QED
    BY <1>2, <2>5 DEF ReadLoad
<1>3. CASE ReadError
  <2>1. rd.size > 0
    BY <1>3 DEF ReadError, Missing
  <2>2. /\ LoadOff \in Offsets /\ LoadSize \in 0..CACHE_SIZE /\ LoadOff + LoadSize <= BLOCK_SIZE
        /\ LoadOff \in Nat /\ LoadSize \in Nat /\ rd.block \in Block
    BY <2>1, LoadFits, Reading
  <2>3. rcache' \in Cache /\ (rcache'.block # NULL => rcache'.off + rcache'.size <= BLOCK_SIZE)
    BY <1>3, <2>2 DEF ReadError, Cache
  <2>4. rd' \in Read /\ rd'.off + rd'.size <= BLOCK_SIZE
    BY <1>3, InitialTypes, Sizes DEF ReadError, NoRead
  <2>5. /\ pcache' \in Cache /\ pcache'.off + pcache'.size <= BLOCK_SIZE
        /\ op' \in Op /\ sess' \in Session /\ shadow' \in [Block -> [Offsets -> Mark]]
        /\ op'.off + op'.size <= BLOCK_SIZE /\ sess'.off \in 0..BLOCK_SIZE
    <3>1. CASE rd.by = "check"
      <4>1. /\ pcache' = [pcache EXCEPT !.block = NULL] /\ op' = NoOp /\ sess' = NoSession
            /\ shadow' = [shadow EXCEPT ![rd.block] = Unknown]
        BY <1>3, <3>1 DEF ReadError, GiveUp, Drop
      <4>2. pcache' \in Cache /\ pcache'.off = pcache.off /\ pcache'.size = pcache.size
        BY <4>1 DEF Cache
      <4>3. shadow' \in [Block -> [Offsets -> Mark]]
        BY <2>2, <4>1, InitialTypes
      <4> QED
        BY <4>1, <4>2, <4>3, InitialTypes, Sizes DEF NoOp, NoSession
    <3>2. CASE rd.by # "check"
      BY <1>3, <3>2 DEF ReadError
    <3> QED
      BY <3>1, <3>2
  <2> QED
    BY <1>3, <2>3, <2>4, <2>5 DEF ReadError
<1>4. CASE EndRead
  <2>1. rd' \in Read /\ rd'.off + rd'.size <= BLOCK_SIZE
    BY <1>4, InitialTypes, Sizes DEF EndRead, NoRead
  <2> QED
    BY <1>4, <2>1 DEF EndRead
<1> QED
  BY <1>1, <1>2, <1>3, <1>4 DEF ReadStep
\* A round for the client: what was current stays so, what is new is.
LEMMA ClientRound ==
  ASSUME Types, ReadSide, rd.by = "client", UNCHANGED <<device, caches, op, client>>,
         NEW s \in Seq(Bytes), Len(s) <= rd.size, Consume(s), Current(s)
  PROVE  ReadSide'
<1>1. /\ rd'.by = "client" /\ rd'.block = rd.block /\ rd'.usep = rd.usep
      /\ rd'.data = rd.data \o s /\ rd'.off = rd.off + Len(s) /\ rd'.size = rd.size - Len(s)
      /\ Len(rd'.data) = Len(rd.data) + Len(s)
  BY ConsumeIs
<1>2. /\ rd.off \in Nat /\ rd.size \in Nat /\ Len(rd.data) \in Nat /\ Len(s) \in Nat
      /\ rd.data \in Seq(Bytes)
  BY Sizes DEF Types, Read
<1>3. /\ op' = NoOp /\ rd'.block \in Block
      /\ (rd'.block = pcache'.block => rd'.usep)
  BY <1>1 DEF ReadSide, ClientRead, caches
<1>10. Readable(rd.block)'
  <2>1. Readable(rd.block) /\ UNCHANGED <<sess, pcache, shadow, synced>>
    BY DEF ReadSide, ClientRead, caches, client
  <2> QED
    BY <1>1, <2>1 DEF Readable
<1>4. /\ rd'.usep => rd'.size + Len(rd'.data) = 1
      /\ Len(rd'.data) <= rd'.off
  BY <1>1, <1>2 DEF ReadSide, ClientRead
<1>5. ASSUME NEW i \in 1..Len(rd'.data)
      PROVE  shadow[rd.block][rd'.off - Len(rd'.data) + i - 1] \in {rd'.data[i], -1, 0}
  <2>1. rd'.off - Len(rd'.data) = rd.off - Len(rd.data)
    BY <1>1, <1>2
  <2>2. CASE i <= Len(rd.data)
    <3>1. rd'.data[i] = rd.data[i] /\ i \in 1..Len(rd.data)
      BY <1>1, <1>2, <2>2
    <3> QED
      BY <2>1, <3>1 DEF ReadSide, ClientRead
  <2>3. CASE i > Len(rd.data)
    <3> DEFINE k == i - Len(rd.data)
    <3>1. k \in 1..Len(s) /\ rd'.data[i] = s[k] /\ rd.off - Len(rd.data) + i - 1 = rd.off + k - 1
      BY <1>1, <1>2, <2>3
    <3> HIDE DEF k
    <3> QED
      BY <2>1, <3>1 DEF Current
  <2> QED
    BY <1>1, <1>2, <2>2, <2>3
<1>6. ClientRead'
  <2>1. shadow' = shadow
    BY DEF client
  <2>2. \A i \in 1..Len(rd'.data) :
          shadow'[rd'.block][rd'.off - Len(rd'.data) + i - 1] \in {rd'.data[i], -1, 0}
    BY <1>1, <1>5, <2>1
  <2> QED
    BY <1>3, <1>4, <1>10, <2>2 DEF ClientRead
<1>7. RcacheCurrent'
  BY <1>1 DEF ReadSide, RcacheCurrent, caches, client, Readable, InPcache
<1>8. CheckRead'
  BY <1>1 DEF ReadSide, CheckRead, NoRead
<1> QED
  BY <1>6, <1>7, <1>8 DEF ReadSide

LEMMA ReadSideRead ==
  ASSUME Types, WriteSide, ReadSide, ReadStep
  PROVE  ReadSide'
<1>1. CASE ReadPcache \/ ReadRcache \/ ReadBypass
  <2>1. UNCHANGED <<device, caches, op, client>>
    BY <1>1 DEF ReadPcache, ReadRcache, ReadBypass
  <2>2. CASE rd.by = "client"
    BY <1>1, <2>1, <2>2, RoundPcache, RoundRcache, RoundBypass, ClientRound
  <2>3. CASE rd.by # "client"
    <3>1. ReadBypass /\ rd.by = "check" /\ rd.size > 0
      BY <1>1, <2>3, RoundPcache, RoundRcache, Reading DEF ReadBypass, Missing
    <3>2. PICK s \in Seq(Bytes) :
            /\ Len(s) <= rd.size /\ Consume(s) /\ ~Unreadable(rd.block) /\ Len(s) = rd.size
            /\ s = [i \in 1..FlushLen |-> blocks[rd.block][pcache.off + i - 1]]
      BY <3>1, RoundBypass
    <3>3. /\ rd'.by = "check" /\ rd'.block = rd.block /\ rd'.usep = rd.usep
          /\ rd'.data = rd.data \o s /\ rd'.size = rd.size - Len(s)
      BY <3>1, <3>2, ConsumeIs
    <3>4. rd'.size = 0 /\ rd'.data = s
      BY <3>1, <3>2, <3>3, Reading
    <3>5. CheckRead'
      <4>1. /\ pcache.block # NULL /\ sess.validate /\ rd.block = pcache.block /\ ~rd.usep
            /\ op.stage = "check"
        BY <3>1 DEF ReadSide, CheckRead
      <4>2. UNCHANGED <<pcache, sess, op, blocks, wear, behavior>>
        BY <2>1 DEF caches, client, device
      <4>3. FlushLen' = FlushLen
        BY <4>2 DEF FlushLen
      <4>4. rd'.data = [i \in 1..FlushLen' |-> blocks'[rd'.block][pcache'.off + i - 1]]
        BY <3>2, <3>3, <3>4, <4>2, <4>3
      <4>5. ~Unreadable(rd.block)'
        BY <3>2, <3>3, <4>2 DEF Unreadable, Bad
      <4>6. rd' # NoRead
        BY <3>3 DEF NoRead
      <4> QED
        BY <3>3, <3>4, <4>1, <4>2, <4>4, <4>5, <4>6 DEF CheckRead
    <3>6. ClientRead' /\ RcacheCurrent'
      BY <2>1, <3>1, <3>3 DEF ReadSide, ClientRead, RcacheCurrent, caches
    <3> QED
      BY <3>5, <3>6 DEF ReadSide
  <2> QED
    BY <2>2, <2>3
<1>2. CASE ReadLoad
  <2>1. rd.size > 0 /\ UNCHANGED <<device, pcache, op, rd, client>> /\ ~ReadFails
    BY <1>2 DEF ReadLoad, Missing
  <2>2. rd.by = "client"
    BY <1>2, <2>1, Reading, CheckBypasses DEF ReadLoad
  <2>3. /\ LoadOff \in Offsets /\ LoadSize \in 0..CACHE_SIZE /\ LoadOff + LoadSize <= BLOCK_SIZE
        /\ LoadOff \in Nat /\ LoadSize \in Nat /\ rd.block \in Block
    BY <2>1, LoadFits, Reading
  <2>4. /\ rcache'.block = rd.block /\ rcache'.off = LoadOff /\ rcache'.size = LoadSize
        /\ \A i \in 0..LoadSize - 1 : rcache'.buffer[i] = blocks[rd.block][LoadOff + i]
    BY <1>2, <2>3, Sizes DEF ReadLoad
  <2>5. ASSUME NEW i \in 0..LoadSize - 1, ~InPcache(rd.block, LoadOff + i)
        PROVE  shadow[rd.block][LoadOff + i] \in {rcache'.buffer[i], -1, 0}
    <3>1. LoadOff + i \in Offsets
      BY <2>3, Sizes DEF Offsets
    <3>2. DeviceHas(rd.block, LoadOff + i)
      BY <2>2, <2>3, <2>5, <3>1, OnDevice DEF ReadSide, ClientRead
    <3>3. shadow[rd.block][LoadOff + i] \in Mark
      BY <2>3, <3>1 DEF Types
    <3> QED
      BY <2>4, <3>2, <3>3, Sizes DEF DeviceHas, Mark
  <2>6. RcacheCurrent'
    BY <2>1, <2>2, <2>4, <2>5 DEF ReadSide, RcacheCurrent, ClientRead, NoOp, client, InPcache
  <2>7. ClientRead' /\ CheckRead'
    BY <2>1, <2>2 DEF ReadSide, ClientRead, CheckRead, Readable, client
  <2> QED
    BY <2>6, <2>7 DEF ReadSide
<1>3. CASE ReadError
  <2>1. rd.size > 0 /\ ReadFails /\ rd' = NoRead /\ UNCHANGED <<device, synced>>
    BY <1>3 DEF ReadError, Missing
  <2>2. /\ LoadOff \in Offsets /\ LoadSize \in 0..CACHE_SIZE /\ LoadOff + LoadSize <= BLOCK_SIZE
        /\ LoadOff \in Nat /\ LoadSize \in Nat /\ rd.block \in Block
    BY <2>1, LoadFits, Reading
  <2>3. CASE rd.by = "check"
    <3>1. rcache' = rcache /\ rcache.block = NULL /\ op' = NoOp
      BY <1>3, <2>1, <2>3, CheckBypasses DEF ReadError, GiveUp, ReadSide, RcacheCurrent
    <3> QED
      BY <2>1, <3>1 DEF ReadSide, RcacheCurrent, ClientRead, CheckRead, NoRead, NoOp
  <2>4. CASE rd.by = "client"
    <3>1. UNCHANGED <<op, sess, shadow, pcache, synced>>
      BY <1>3, <2>1, <2>4 DEF ReadError
    <3>2. ClientRead' /\ CheckRead'
      BY <2>1, <2>4, <3>1 DEF ReadSide, ClientRead, CheckRead, NoRead, NoOp
    <3>3. CASE Bypasses
      <4>1. rcache' = rcache
        BY <1>3, <3>3 DEF ReadError
      <4> QED
        BY <2>1, <3>1, <3>2, <4>1 DEF ReadSide, RcacheCurrent, Readable, InPcache, NoRead
    <3>4. CASE ~Bypasses
      <4>1. /\ rcache'.block = rd.block /\ rcache'.off = LoadOff /\ rcache'.size = LoadSize
        BY <1>3, <3>4 DEF ReadError, Types, TypeOK, Cache
      <4>2. ASSUME NEW i \in 0..LoadSize - 1, ~InPcache(rd.block, LoadOff + i)
            PROVE  shadow[rd.block][LoadOff + i] \in {-1, 0}
        <5>1. LoadOff + i \in Offsets
          BY <2>2, Sizes DEF Offsets
        <5>2. DeviceHas(rd.block, LoadOff + i)
          BY <2>2, <2>4, <4>2, <5>1, OnDevice DEF ReadSide, ClientRead
        <5>3. shadow[rd.block][LoadOff + i] \in Mark
          BY <2>2, <5>1 DEF Types
        <5> QED
          BY <2>1, <5>2, <5>3, Sizes DEF DeviceHas, Mark, ReadFails, Unreadable
      <4>3. RcacheCurrent'
        BY <2>1, <2>4, <3>1, <4>1, <4>2 DEF ReadSide, RcacheCurrent, ClientRead, NoOp, NoRead, InPcache
      <4> QED
        BY <3>2, <4>3 DEF ReadSide
    <3> QED
      BY <3>3, <3>4
  <2> QED
    BY <2>1, <2>3, <2>4, Reading
<1>4. CASE EndRead
  BY <1>4 DEF EndRead, ReadSide, RcacheCurrent, ClientRead, CheckRead, NoRead, caches, client,
              Readable, InPcache
<1> QED
  BY <1>1, <1>2, <1>3, <1>4 DEF ReadStep
------------------------------------------------------------------------------
(* Writing.                                                                *)

\* A step after which nobody reads.
LEMMA NobodyReads ==
  ASSUME rd' = NoRead, op'.stage # "check"
  PROVE  ClientRead' /\ CheckRead'
  BY DEF ClientRead, CheckRead, NoRead

\* The block an operation works on.
LEMMA Writing ==
  ASSUME Types, WriteSide, op.name \in {"prog", "flush"} \/ pcache.block # NULL
  PROVE  sess.block \in Block /\ sess.block # NULL /\ pcache.block \in {NULL, sess.block}
  BY SizesAssumption DEF Types, TypeOK, Cache, Session, WriteSide, Stages, PcacheOfSession

LEMMA ProgCopyIs ==
  ASSUME Types, WriteSide, ProgCopy
  PROVE  \E n \in Nat :
           /\ n <= op.size /\ pcache.size + n <= CACHE_SIZE
           /\ op.name = "prog" /\ op.off = pcache.off + pcache.size /\ op.val > 0
           /\ pcache' \in Cache /\ pcache'.block = sess.block /\ pcache'.off = pcache.off
           /\ pcache'.size = pcache.size + n
           /\ op' \in Op /\ op'.name = "prog" /\ op'.val = op.val
           /\ op'.off = op.off + n /\ op'.size = op.size - n
           /\ op'.stage = IF pcache'.size = CACHE_SIZE THEN "flush" ELSE "copy"
           /\ \A i \in 0..CACHE_SIZE - 1 :
                pcache'.buffer[i] = IF pcache.size <= i /\ i < pcache.size + n THEN op.val
                                    ELSE pcache.buffer[i]
           /\ shadow' \in [Block -> [Offsets -> Mark]]
           /\ \A j \in Offsets :
                shadow'[sess.block][j] = IF op.off <= j /\ j < op.off + n THEN op.val
                                         ELSE shadow[sess.block][j]
           /\ \A b \in Block \ {sess.block} : shadow'[b] = shadow[b]
<1> DEFINE at == op.off - pcache.off
           n == Min2(op.size, CACHE_SIZE - at)
<1>1. /\ op.name = "prog" /\ op.stage = "copy" /\ op.val > 0 /\ sess.block \in Block
      /\ pcache.block = sess.block /\ pcache.block # NULL
  <2>1. op.stage = "copy" /\ pcache.block = sess.block
    BY DEF ProgCopy, Running
  <2>2. op.name = "prog" /\ op.val > 0
    BY <2>1 DEF WriteSide, Stages
  <2> QED
    BY <2>1, <2>2, Writing
<1>2. /\ op.off \in Nat /\ op.size \in Nat /\ op.off + op.size <= BLOCK_SIZE
      /\ op.val \in Bytes /\ op.val \in Mark
  BY Sizes DEF Types, TypeOK, Op, Bytes, Mark
<1>3. /\ pcache.off \in Offsets /\ pcache.off \in Nat /\ pcache.size \in Nat
      /\ pcache.size <= CACHE_SIZE /\ pcache.buffer \in [0..CACHE_SIZE - 1 -> Bytes]
  BY Sizes DEF Types, TypeOK, Cache, Offsets
<1>4. op.off = pcache.off + pcache.size
  BY <1>1 DEF WriteSide, PcacheOfSession, Pos
<1>5. at = pcache.size
  BY <1>3, <1>4
<1>6. n \in Nat /\ n <= op.size /\ pcache.size + n <= CACHE_SIZE
  BY <1>2, <1>3, <1>5, Sizes DEF Min2
<1>7. /\ pcache' = [pcache EXCEPT
           !.buffer = [i \in 0..CACHE_SIZE - 1 |->
                         IF i \in at..at + n - 1 THEN op.val ELSE pcache.buffer[i]],
           !.size = Max2(@, at + n)]
      /\ op' = [op EXCEPT !.off = @ + n, !.size = @ - n,
                          !.stage = IF pcache'.size = CACHE_SIZE THEN "flush" ELSE "copy"]
      /\ shadow' = [shadow EXCEPT ![sess.block] =
           [i \in Offsets |-> IF i \in op.off..op.off + n - 1 THEN op.val ELSE @[i]]]
  BY DEF ProgCopy
<1> HIDE DEF at, n
<1>8. /\ pcache'.block = sess.block /\ pcache'.off = pcache.off
      /\ pcache'.size = pcache.size + n
      /\ pcache'.buffer = [i \in 0..CACHE_SIZE - 1 |->
                              IF i \in at..at + n - 1 THEN op.val ELSE pcache.buffer[i]]
      /\ pcache' = [block |-> pcache'.block, off |-> pcache'.off, size |-> pcache'.size,
                    buffer |-> pcache'.buffer]
  <2>1. Max2(pcache.size, at + n) = pcache.size + n
    BY <1>3, <1>5, <1>6 DEF Max2
  <2>2. pcache = [block |-> pcache.block, off |-> pcache.off, size |-> pcache.size,
                  buffer |-> pcache.buffer]
    BY DEF Types, TypeOK, Cache
  <2> QED
    BY <1>1, <1>7, <2>1, <2>2
<1>9. \A i \in 0..CACHE_SIZE - 1 :
        pcache'.buffer[i] = IF pcache.size <= i /\ i < pcache.size + n THEN op.val
                            ELSE pcache.buffer[i]
  BY <1>3, <1>5, <1>6, <1>8
<1>10. pcache'.buffer \in [0..CACHE_SIZE - 1 -> Bytes]
  BY <1>2, <1>3, <1>8
<1>11. pcache' \in Cache
  BY <1>1, <1>3, <1>6, <1>8, <1>10 DEF Cache
<1>12. /\ op'.name = "prog" /\ op'.val = op.val /\ op'.off = op.off + n /\ op'.size = op.size - n
       /\ op'.stage = IF pcache'.size = CACHE_SIZE THEN "flush" ELSE "copy"
       /\ op' = [name |-> op'.name, stage |-> op'.stage, off |-> op'.off, size |-> op'.size,
                 val |-> op'.val]
  BY <1>1, <1>7 DEF Types, Op
<1>13. op' \in Op
  BY <1>2, <1>6, <1>12, Sizes DEF Op
<1>14. /\ \A j \in Offsets :
            shadow'[sess.block][j] = IF op.off <= j /\ j < op.off + n THEN op.val
                                     ELSE shadow[sess.block][j]
       /\ \A b \in Block \ {sess.block} : shadow'[b] = shadow[b]
       /\ shadow' \in [Block -> [Offsets -> Mark]]
  <2> DEFINE f == [i \in Offsets |-> IF i \in op.off..op.off + n - 1 THEN op.val
                                    ELSE shadow[sess.block][i]]
  <2>1. shadow' = [shadow EXCEPT ![sess.block] = f] /\ shadow \in [Block -> [Offsets -> Mark]]
    BY <1>7 DEF Types
  <2>2. f \in [Offsets -> Mark]
    BY <1>1, <1>2, <2>1
  <2>3. \A j \in Offsets : f[j] = IF op.off <= j /\ j < op.off + n THEN op.val
                                  ELSE shadow[sess.block][j]
    BY <1>2, <1>6, Sizes DEF Offsets
  <2> HIDE DEF f
  <2>4. shadow'[sess.block] = f /\ \A b \in Block \ {sess.block} : shadow'[b] = shadow[b]
    BY <1>1, <2>1
  <2>5. shadow' \in [Block -> [Offsets -> Mark]]
    BY <1>1, <2>1, <2>2
  <2> QED
    BY <2>3, <2>4, <2>5
<1> QED
  BY <1>1, <1>4, <1>6, <1>8, <1>9, <1>11, <1>12, <1>13, <1>14

LEMMA CopyKeeps ==
  ASSUME Types, WriteSide, ReadSide, ProgCopy
  PROVE  Types' /\ WriteSide' /\ ReadSide'
<1>1. PICK n \in Nat :
           /\ n <= op.size /\ pcache.size + n <= CACHE_SIZE
           /\ op.name = "prog" /\ op.off = pcache.off + pcache.size /\ op.val > 0
           /\ pcache' \in Cache /\ pcache'.block = sess.block /\ pcache'.off = pcache.off
           /\ pcache'.size = pcache.size + n
           /\ op' \in Op /\ op'.name = "prog" /\ op'.val = op.val
           /\ op'.off = op.off + n /\ op'.size = op.size - n
           /\ op'.stage = IF pcache'.size = CACHE_SIZE THEN "flush" ELSE "copy"
           /\ \A i \in 0..CACHE_SIZE - 1 :
                pcache'.buffer[i] = IF pcache.size <= i /\ i < pcache.size + n THEN op.val
                                    ELSE pcache.buffer[i]
           /\ shadow' \in [Block -> [Offsets -> Mark]]
           /\ \A j \in Offsets :
                shadow'[sess.block][j] = IF op.off <= j /\ j < op.off + n THEN op.val
                                         ELSE shadow[sess.block][j]
           /\ \A b \in Block \ {sess.block} : shadow'[b] = shadow[b]
  BY ProgCopyIs
<1>2. /\ op.stage = "copy" /\ rd = NoRead /\ pcache.block = sess.block /\ sess.block \in Block
      /\ sess.block # NULL
      /\ UNCHANGED <<blocks, wear, behavior, ooo, rcache, rd, sess, synced, writes, erases>>
  BY <1>1, Writing DEF ProgCopy, Running, device
<1>3. /\ op.off \in Nat /\ op.size \in Nat /\ op.off + op.size <= BLOCK_SIZE
      /\ pcache.off \in Nat /\ pcache.size \in Nat
      /\ n \in Nat /\ n <= op.size /\ pcache.size + n <= CACHE_SIZE
      /\ op.off = pcache.off + pcache.size
      /\ pcache'.off = pcache.off /\ pcache'.size = pcache.size + n
      /\ op'.off = op.off + n /\ op'.size = op.size - n
  <2>1. /\ op.off \in Nat /\ op.size \in Nat /\ op.off + op.size <= BLOCK_SIZE
        /\ pcache.off \in Nat /\ pcache.size \in Nat
    BY Sizes DEF Types, TypeOK, Op, Cache, Offsets
  <2> QED
    BY <1>1, <2>1
<1>14. \A j \in Offsets : j \in Nat /\ (j < op.off \/ j >= op.off + n =>
                                      shadow'[sess.block][j] = shadow[sess.block][j])
  <2>1. \A j \in Offsets : j \in Nat
    BY Sizes DEF Offsets
  <2> QED
    BY <1>1, <1>3, <2>1
<1>15. \A b \in Block \ {sess.block} : shadow'[b] = shadow[b]
  BY <1>1
<1>4. Types'
  <2>1. pcache'.off + pcache'.size <= BLOCK_SIZE /\ op'.off + op'.size <= BLOCK_SIZE
    <3>1. pcache'.off + pcache'.size = op.off + n /\ op'.off + op'.size = op.off + op.size
      BY <1>3
    <3> QED
      BY <1>3, <3>1, Sizes
  <2> QED
    BY <1>1, <1>2, <2>1 DEF Types, TypeOK
<1>5. Stages'
  BY <1>1, <1>2 DEF WriteSide, Stages
<1>6. Pos = op.off /\ Pos' = op.off + n /\ Start = pcache.off /\ Start' = pcache.off
  BY <1>1, <1>2 DEF Pos, Start
<1>7. PcacheOfSession'
  <2>1. ASSUME NEW i \in 0..pcache'.size - 1
        PROVE  pcache'.buffer[i] = shadow'[sess.block][pcache.off + i] /\ pcache'.buffer[i] > 0
    <3>1. i \in 0..CACHE_SIZE - 1 /\ pcache.off + i \in Offsets
      BY <1>3, Sizes DEF Offsets
    <3>2. CASE i < pcache.size
      <4>1. pcache.buffer[i] = shadow[sess.block][pcache.off + i] /\ pcache.buffer[i] > 0
        BY <1>2, <1>3, <3>2 DEF WriteSide, PcacheOfSession
      <4>2. pcache'.buffer[i] = pcache.buffer[i]
        BY <1>1, <1>3, <3>1, <3>2
      <4>3. shadow'[sess.block][pcache.off + i] = shadow[sess.block][pcache.off + i]
        BY <1>1, <1>3, <3>1, <3>2
      <4> QED
        BY <4>1, <4>2, <4>3
    <3>3. CASE i >= pcache.size
      <4>1. pcache'.buffer[i] = op.val
        BY <1>1, <1>3, <3>1, <3>3
      <4>2. shadow'[sess.block][pcache.off + i] = op.val
        BY <1>1, <1>3, <3>1, <3>3
      <4> QED
        BY <1>1, <4>1, <4>2
    <3> QED
      BY <1>3, <3>2, <3>3
  <2>2. Aligned(pcache.off)
    BY <1>2 DEF WriteSide, PcacheOfSession
  <2> QED
    BY <1>1, <1>2, <1>3, <1>6, <2>1, <2>2 DEF PcacheOfSession, Aligned
<1>8. NothingBeyond'
  <2>1. ASSUME NEW j \in Offsets, j >= op.off + n
        PROVE  shadow'[sess.block][j] = 0
    BY <1>2, <1>3, <1>6, <1>14, <2>1 DEF WriteSide, NothingBeyond
  <2>2. \A j \in Offsets : j >= pcache.off => synced[sess.block][j] <= 0
    BY <1>2, <1>6 DEF WriteSide, NothingBeyond
  <2> QED
    BY <1>2, <1>6, <2>1, <2>2 DEF NothingBeyond
<1>9. ErasedAhead'
  BY <1>1, <1>2 DEF WriteSide, ErasedAhead, DeviceEnd, Bad
<1>10. DeviceHolds'
  <2> SUFFICES ASSUME NEW b \in Block, NEW j \in Offsets,
                      b # sess.block \/ (j < Start /\ (sess.validate \/ ~Bad(b)))
               PROVE  DeviceHas(b, j)'
    BY <1>2, <1>6 DEF DeviceHolds, Bad
  <2>1. shadow'[b][j] = shadow[b][j]
    BY <1>3, <1>6, <1>14, <1>15
  <2>2. DeviceHas(b, j)
    BY DEF WriteSide, DeviceHolds
  <2> QED
    BY <1>2, <2>1, <2>2 DEF DeviceHas, Unreadable, Bad
<1>11. SyncedHeld'
  BY <1>2 DEF WriteSide, SyncedHeld, Unreadable, Bad
<1>12. RcacheCurrent'
  <2> SUFFICES ASSUME rcache.block # NULL, Readable(rcache.block)', NEW i \in 0..rcache.size - 1,
                      ~InPcache(rcache.block, rcache.off + i)'
               PROVE  shadow'[rcache.block][rcache.off + i] \in {rcache.buffer[i], -1, 0}
    BY <1>1, <1>2 DEF RcacheCurrent, NoRead, ReadSide, InPcache
  <2>1. Readable(rcache.block)
    BY <1>1, <1>2 DEF Readable
  <2>2. /\ rcache.off \in Nat /\ rcache.size \in Nat /\ rcache.off + rcache.size <= BLOCK_SIZE
        /\ rcache.block \in Block
    BY Sizes DEF Types, TypeOK, Cache, Offsets
  <2>3. rcache.off + i \in Offsets /\ rcache.off + i \in Nat
    BY <2>2, Sizes DEF Offsets
  <2>4. ~InPcache(rcache.block, rcache.off + i)
    BY <1>1, <1>2, <1>3, <2>3 DEF InPcache
  <2>5. shadow[rcache.block][rcache.off + i] \in {rcache.buffer[i], -1, 0}
    BY <2>1, <2>4 DEF ReadSide, RcacheCurrent
  <2>6. shadow'[rcache.block][rcache.off + i] = shadow[rcache.block][rcache.off + i]
    BY <1>1, <1>2, <1>3, <2>2, <2>3 DEF InPcache
  <2> QED
    BY <2>5, <2>6
<1>13. ClientRead' /\ CheckRead'
  BY <1>1, <1>2, NobodyReads
<1> QED
  BY <1>4, <1>5, <1>7, <1>8, <1>9, <1>10, <1>11, <1>12, <1>13 DEF WriteSide, ReadSide
LEMMA PrepareKeeps ==
  ASSUME Types, WriteSide, ReadSide, ProgPrepare
  PROVE  Types' /\ WriteSide' /\ ReadSide'
<1>1. /\ op.stage = "copy" /\ rd = NoRead /\ pcache.block = NULL /\ op.size > 0
      /\ pcache' = [pcache EXCEPT !.block = sess.block, !.size = 0,
                                  !.off = AlignDown(op.off, PROG_SIZE)]
      /\ UNCHANGED <<blocks, wear, behavior, ooo, rcache, op, rd, sess, shadow, synced, writes, erases>>
  BY DEF ProgPrepare, Running, device, client
<1>2. /\ op.name = "prog" /\ sess.block \in Block /\ sess.block # NULL
      /\ op.off \in Nat /\ op.off < BLOCK_SIZE /\ op.off % PROG_SIZE = 0
  <2>1. op.name = "prog"
    BY <1>1 DEF WriteSide, Stages
  <2>2. sess.block \in Block /\ sess.block # NULL
    BY <2>1, Writing
  <2>3. op.off % PROG_SIZE = 0
    BY <1>1, <2>1, <2>2 DEF WriteSide, PcacheOfSession, Aligned, Pos
  <2> QED
    BY <1>1, <2>1, <2>2, <2>3, Sizes DEF Types, TypeOK, Op
<1>3. AlignDown(op.off, PROG_SIZE) = op.off
  BY <1>2, Sizes, AlignedStays
<1>4. /\ pcache'.block = sess.block /\ pcache'.off = op.off /\ pcache'.size = 0
      /\ pcache' \in Cache
  <2>1. op.off \in Offsets
    BY <1>2, Sizes DEF Offsets
  <2>2. pcache' = [block |-> sess.block, off |-> op.off, size |-> 0, buffer |-> pcache.buffer]
    BY <1>1, <1>3 DEF Types, TypeOK, Cache
  <2> QED
    BY <1>2, <2>1, <2>2, Sizes DEF Types, TypeOK, Cache
<1>5. Types'
  BY <1>1, <1>2, <1>4, Sizes DEF Types, TypeOK
<1>6. Pos = op.off /\ Pos' = op.off /\ Start = op.off /\ Start' = op.off
  BY <1>1, <1>2, <1>4 DEF Pos, Start
<1>7. Stages' /\ PcacheOfSession' /\ NothingBeyond' /\ SyncedHeld'
  BY <1>1, <1>2, <1>4, <1>6 DEF WriteSide, Stages, PcacheOfSession, NothingBeyond, SyncedHeld,
     Aligned, Unreadable, Bad
<1>8. DeviceHolds'
  BY <1>1, <1>6 DEF WriteSide, DeviceHolds, DeviceHas, Unreadable, Bad
<1>9. ErasedAhead'
  <2>1. DeviceEnd = op.off /\ DeviceEnd' = op.off
    BY <1>1, <1>2, <1>4, <1>6, Sizes, AlignedStays DEF DeviceEnd
  <2> QED
    BY <1>1, <2>1 DEF WriteSide, ErasedAhead, Bad
<1>10. RcacheCurrent'
  <2> SUFFICES ASSUME rcache.block # NULL, Readable(rcache.block)', NEW i \in 0..rcache.size - 1
               PROVE  shadow[rcache.block][rcache.off + i] \in {rcache.buffer[i], -1, 0}
    BY <1>1, <1>2 DEF RcacheCurrent, NoRead
  <2>1. Readable(rcache.block) /\ ~InPcache(rcache.block, rcache.off + i)
    BY <1>1, <1>2, <1>4 DEF Readable, InPcache
  <2> QED
    BY <2>1 DEF ReadSide, RcacheCurrent
<1>11. ClientRead' /\ CheckRead'
  BY <1>1, NobodyReads
<1> QED
  BY <1>5, <1>7, <1>8, <1>9, <1>10, <1>11 DEF WriteSide, ReadSide

LEMMA ProgDoneKeeps ==
  ASSUME Types, WriteSide, ReadSide, ProgDone
  PROVE  Types' /\ WriteSide' /\ ReadSide'
<1>1. /\ op.stage = "copy" /\ rd = NoRead /\ op.size = 0 /\ op' = NoOp
      /\ sess' = [sess EXCEPT !.off = op.off]
      /\ UNCHANGED <<blocks, wear, behavior, ooo, pcache, rcache, rd, shadow, synced, writes, erases>>
  BY DEF ProgDone, Running, device, caches
<1>2. op.name = "prog" /\ op.off \in 0..BLOCK_SIZE /\ sess.block \in Block /\ sess.block # NULL
  <2>1. op.name = "prog" /\ op.off \in 0..BLOCK_SIZE
    BY <1>1 DEF WriteSide, Stages, Types, Op
  <2> QED
    BY <2>1, Writing
<1>3. /\ sess'.block = sess.block /\ sess'.off = op.off /\ sess'.validate = sess.validate
      /\ sess' \in Session
  BY <1>1, <1>2 DEF Types, Session
<1>4. Types'
  BY <1>1, <1>2, <1>3, InitialTypes, Sizes DEF Types, TypeOK, NoOp
<1>5. Pos' = Pos /\ Start' = Start /\ DeviceEnd' = DeviceEnd
  BY <1>1, <1>2, <1>3 DEF Pos, Start, DeviceEnd, NoOp
<1>6. Stages' /\ PcacheOfSession' /\ NothingBeyond' /\ ErasedAhead' /\ SyncedHeld'
  BY <1>1, <1>2, <1>3, <1>5 DEF WriteSide, Stages, PcacheOfSession, NothingBeyond, ErasedAhead,
     SyncedHeld, Unreadable, Bad, NoOp, Aligned
<1>7. DeviceHolds'
  BY <1>1, <1>3, <1>5 DEF WriteSide, DeviceHolds, DeviceHas, Unreadable, Bad
<1>8. RcacheCurrent'
  BY <1>1, <1>3 DEF ReadSide, RcacheCurrent, Readable, InPcache, NoOp, NoRead
<1>9. ClientRead' /\ CheckRead'
  BY <1>1, NobodyReads DEF NoOp
<1> QED
  BY <1>4, <1>6, <1>7, <1>8, <1>9 DEF WriteSide, ReadSide

LEMMA NothingKeeps ==
  ASSUME Types, WriteSide, ReadSide, FlushNothing
  PROVE  Types' /\ WriteSide' /\ ReadSide'
<1>1. /\ op.stage = "flush" /\ rd = NoRead /\ pcache.block = NULL
      /\ op' = [op EXCEPT !.stage = AfterFlush]
      /\ UNCHANGED <<blocks, wear, behavior, ooo, pcache, rcache, rd, sess, shadow, synced, writes, erases>>
  BY DEF FlushNothing, Running, device, caches, client
<1>2. op.name \in {"flush", "sync"}
  BY <1>1 DEF WriteSide, Stages, Types, Op
<1>3. /\ op'.name = op.name /\ op'.stage = "finish" /\ op'.off = op.off /\ op'.size = op.size
      /\ op' \in Op
  BY <1>1, <1>2 DEF Types, Op, AfterFlush
<1>4. Types'
  BY <1>1, <1>3 DEF Types, TypeOK
<1>5. Pos' = Pos /\ Start' = Start /\ DeviceEnd' = DeviceEnd
  BY <1>1, <1>3 DEF Pos, Start, DeviceEnd
<1>6. Stages' /\ PcacheOfSession' /\ NothingBeyond' /\ ErasedAhead' /\ SyncedHeld'
  BY <1>1, <1>2, <1>3, <1>5 DEF WriteSide, Stages, PcacheOfSession, NothingBeyond, ErasedAhead,
     SyncedHeld, Unreadable, Bad, Aligned
<1>7. DeviceHolds'
  BY <1>1, <1>3, <1>5 DEF WriteSide, DeviceHolds, DeviceHas, Unreadable, Bad
<1>8. RcacheCurrent'
  BY <1>1, <1>3 DEF ReadSide, RcacheCurrent, Readable, InPcache, NoRead
<1>9. ClientRead' /\ CheckRead'
  BY <1>1, <1>3, NobodyReads
<1> QED
  BY <1>4, <1>6, <1>7, <1>8, <1>9 DEF WriteSide, ReadSide

\* After a file is flushed its block is like any other.
LEMMA FlushDoneKeeps ==
  ASSUME Types, WriteSide, ReadSide, FlushDone
  PROVE  Types' /\ WriteSide' /\ ReadSide'
<1>1. /\ op.stage = "finish" /\ op.name = "flush" /\ rd = NoRead /\ op' = NoOp /\ sess' = NoSession
      /\ UNCHANGED <<blocks, wear, behavior, ooo, pcache, rcache, rd, shadow, synced, writes, erases>>
  BY DEF FlushDone, Running, device, caches
<1>2. pcache.block = NULL /\ sess.block \in Block /\ sess.block # NULL /\ sess.validate
  BY <1>1, Writing DEF WriteSide, Stages
<1>3. Types'
  BY <1>1, InitialTypes, Sizes DEF Types, TypeOK, NoOp, NoSession
<1>4. Stages' /\ PcacheOfSession' /\ NothingBeyond' /\ ErasedAhead' /\ SyncedHeld'
  BY <1>1, <1>2 DEF WriteSide, Stages, PcacheOfSession, NothingBeyond, ErasedAhead,
     SyncedHeld, Unreadable, Bad, NoOp, NoSession
<1>5. ASSUME NEW b \in Block, NEW j \in Offsets
      PROVE  DeviceHas(b, j)
  <2>1. CASE b # sess.block \/ j < Start
    BY <1>2, <2>1 DEF WriteSide, DeviceHolds
  <2>2. CASE b = sess.block /\ j >= Start
    BY <1>2, <2>2 DEF WriteSide, NothingBeyond, DeviceHas, Start
  <2> QED
    <3>1. j \in Nat /\ Start \in Nat
      BY <1>2, Sizes DEF Offsets, Start, Pos, Types, TypeOK, Op
    <3> QED
      BY <2>1, <2>2, <3>1
<1>6. DeviceHolds'
  BY <1>1, <1>5 DEF DeviceHolds, DeviceHas, Unreadable, Bad
<1>7. RcacheCurrent'
  BY <1>1, <1>2 DEF ReadSide, RcacheCurrent, Readable, InPcache, NoOp, NoRead
<1>8. ClientRead' /\ CheckRead'
  BY <1>1, NobodyReads DEF NoOp
<1> QED
  BY <1>3, <1>4, <1>6, <1>7, <1>8 DEF WriteSide, ReadSide

LEMMA SyncDoneKeeps ==
  ASSUME Types, WriteSide, ReadSide, SyncDone
  PROVE  Types' /\ WriteSide' /\ ReadSide'
<1>1. /\ op.stage = "finish" /\ op.name = "sync" /\ rd = NoRead /\ op' = NoOp /\ ooo' = NoOoo
      /\ synced' = [b \in Block |-> IF Reliable(b) THEN shadow[b] ELSE Unknown]
      /\ sess' = [sess EXCEPT !.off = AlignUp(@, PROG_SIZE)]
      /\ UNCHANGED <<blocks, wear, behavior, pcache, rcache, rd, shadow, writes, erases>>
  BY DEF SyncDone, Running, caches
<1>2. /\ pcache.block = NULL /\ rcache.block = NULL /\ (sess.block = NULL \/ ~sess.validate)
      /\ sess.off \in Nat /\ sess.off <= BLOCK_SIZE
  BY <1>1, Sizes DEF WriteSide, Stages, ReadSide, RcacheCurrent, Types, Session
<1> DEFINE next == AlignUp(sess.off, PROG_SIZE)
<1>3. next \in Nat /\ sess.off <= next /\ next <= BLOCK_SIZE /\ next % PROG_SIZE = 0
  BY <1>2, Sizes, UpIs, UpLeast
<1>4. AlignUp(next, PROG_SIZE) = next
  <2> HIDE DEF next
  <2> QED
    BY <1>3, Sizes, AlignedStays
<1>5. sess = NoSession => next = 0
  <2>1. 0 % PROG_SIZE = 0
    BY Sizes
  <2>2. AlignUp(0, PROG_SIZE) = 0
    BY <2>1, Sizes, AlignedStays
  <2> QED
    BY <2>2 DEF NoSession
<1>6. /\ sess'.block = sess.block /\ sess'.off = next /\ sess'.validate = sess.validate
      /\ sess' = [block |-> sess.block, off |-> next, validate |-> sess.validate]
  BY <1>1 DEF Types, Session
<1> HIDE DEF next
<1>7. sess' \in Session
  BY <1>3, <1>6, Sizes DEF Types, Session
<1>8. synced' \in [Block -> [Offsets -> Mark]]
  BY <1>1, InitialTypes DEF Types
<1>9. Types'
  BY <1>1, <1>3, <1>6, <1>7, <1>8, InitialTypes, Sizes DEF Types, TypeOK, NoOp
<1>10. Pos = sess.off /\ Start = sess.off /\ Pos' = next /\ Start' = next
  BY <1>1, <1>2, <1>6 DEF Pos, Start, NoOp
<1>11. DeviceEnd = next /\ DeviceEnd' = next
  BY <1>1, <1>2, <1>4, <1>10 DEF DeviceEnd, next
<1>12. Stages'
  <2>1. ASSUME sess'.block = NULL
        PROVE  sess' = NoSession
    <3>1. sess = NoSession
      BY <1>6, <2>1 DEF WriteSide, Stages
    <3> QED
      BY <1>5, <1>6, <3>1 DEF NoSession
  <2> QED
    BY <1>1, <1>2, <2>1 DEF Stages, NoOp
<1>13. PcacheOfSession'
  BY <1>1, <1>2, <1>3, <1>10 DEF PcacheOfSession, Aligned
<1>14. \A b \in Block, j \in Offsets : synced'[b][j] > 0 => synced'[b][j] = shadow[b][j] /\ Reliable(b)
  BY <1>1 DEF Unknown
<1>15. \A j \in Offsets : j \in Nat /\ (sess.block # NULL /\ j >= sess.off => shadow[sess.block][j] = 0)
  BY <1>10, Sizes DEF WriteSide, NothingBeyond, Offsets
<1>16. NothingBeyond'
  <2> SUFFICES ASSUME sess.block # NULL, NEW j \in Offsets, j >= next
               PROVE  shadow[sess.block][j] = 0 /\ synced'[sess.block][j] <= 0
    BY <1>1, <1>6, <1>10 DEF NothingBeyond
  <2>1. shadow[sess.block][j] = 0
    BY <1>2, <1>3, <1>15
  <2>2. sess.block \in Block
    BY DEF Types, Session
  <2>3. synced'[sess.block] \in {shadow[sess.block], Unknown}
    BY <1>1, <2>2
  <2> QED
    BY <2>1, <2>3 DEF Unknown
<1>17. ErasedAhead'
  BY <1>1, <1>6, <1>11 DEF WriteSide, ErasedAhead, Bad
<1>18. ASSUME NEW b \in Block, NEW j \in Offsets, Reliable(b)
       PROVE  DeviceHas(b, j)
  <2>1. CASE b # sess.block
    BY <2>1 DEF WriteSide, DeviceHolds
  <2>2. CASE b = sess.block /\ j < sess.off
    BY <1>10, <1>18, <2>2 DEF WriteSide, DeviceHolds, Reliable
  <2>3. CASE b = sess.block /\ j >= sess.off
    BY <1>15, <2>3, SizesAssumption DEF DeviceHas
  <2> QED
    BY <1>2, <1>15, <2>1, <2>2, <2>3
<1>19. DeviceHolds'
  <2> SUFFICES ASSUME NEW b \in Block, NEW j \in Offsets,
                      b # sess.block \/ sess.validate \/ ~Bad(b)
               PROVE  DeviceHas(b, j)'
    BY <1>6, <1>1 DEF DeviceHolds, Bad
  <2>1. Reliable(b)
    BY <1>2, SizesAssumption DEF Reliable
  <2> QED
    BY <1>1, <1>18, <2>1 DEF DeviceHas, Unreadable, Bad
<1>20. SyncedHeld'
  <2>1. ASSUME NEW b \in Block, NEW j \in Offsets, synced'[b][j] > 0
        PROVE  synced'[b][j] = blocks'[b][j] /\ ~Unreadable(b)'
    BY <1>1, <1>14, <1>18, <2>1 DEF DeviceHas, Unreadable, Bad
  <2> QED
    BY <1>1, <2>1 DEF SyncedHeld, NoOoo
<1>21. RcacheCurrent'
  BY <1>1, <1>2 DEF RcacheCurrent
<1>22. ClientRead' /\ CheckRead'
  BY <1>1, NobodyReads DEF NoOp
<1> QED
  BY <1>9, <1>12, <1>13, <1>16, <1>17, <1>19, <1>20, <1>21, <1>22 DEF WriteSide, ReadSide
\* What lfs_emubd_prog makes of the block.
LEMMA ProgrammedIs ==
  ASSUME Types, WriteSide, pcache.block # NULL
  PROVE  /\ Programmed \in [Block -> [Offsets -> Bytes]]
         /\ \A b \in Block \ {pcache.block} : Programmed[b] = blocks[b]
         /\ \A j \in Offsets :
              Programmed[pcache.block][j] =
                IF pcache.off <= j /\ j < pcache.off + FlushLen THEN pcache.buffer[j - pcache.off]
                ELSE blocks[pcache.block][j]
<1> DEFINE f == [i \in Offsets |-> IF i \in pcache.off..pcache.off + FlushLen - 1
                                  THEN pcache.buffer[i - pcache.off]
                                  ELSE blocks[pcache.block][i]]
<1>1. /\ FlushLen \in Nat /\ FlushLen <= CACHE_SIZE /\ pcache.off \in Nat
      /\ pcache.block \in Block /\ pcache.buffer \in [0..CACHE_SIZE - 1 -> Bytes]
      /\ blocks \in [Block -> [Offsets -> Bytes]]
  BY FlushFits, Sizes DEF Types, TypeOK, Cache, Offsets
<1>2. Programmed = [blocks EXCEPT ![pcache.block] = f]
  BY <1>1 DEF Programmed
<1>3. \A j \in Offsets : j \in Nat /\ (j \in pcache.off..pcache.off + FlushLen - 1 <=>
                                       pcache.off <= j /\ j < pcache.off + FlushLen)
  BY <1>1, Sizes DEF Offsets
<1>4. \A j \in Offsets : pcache.off <= j /\ j < pcache.off + FlushLen =>
                            j - pcache.off \in 0..CACHE_SIZE - 1
  BY <1>1, <1>3, Sizes
<1>5. \A j \in Offsets :
        f[j] = IF pcache.off <= j /\ j < pcache.off + FlushLen THEN pcache.buffer[j - pcache.off]
               ELSE blocks[pcache.block][j]
  BY <1>3
<1>6. f \in [Offsets -> Bytes]
  <2> SUFFICES ASSUME NEW j \in Offsets PROVE f[j] \in Bytes
    OBVIOUS
  <2> HIDE DEF f
  <2> QED
    BY <1>1, <1>4, <1>5
<1> HIDE DEF f
<1>7. Programmed[pcache.block] = f /\ \A b \in Block \ {pcache.block} : Programmed[b] = blocks[b]
  BY <1>1, <1>2
<1>8. Programmed \in [Block -> [Offsets -> Bytes]]
  BY <1>1, <1>2, <1>6
<1> QED
  BY <1>5, <1>7, <1>8

LEMMA FlushKeeps ==
  ASSUME Types, WriteSide, ReadSide, FlushProg
  PROVE  Types' /\ WriteSide' /\ ReadSide'
<1>1. /\ op.stage = "flush" /\ op.name # "none" /\ rd = NoRead /\ pcache.block # NULL
      /\ blocks' \in {blocks, Programmed} /\ (~Bad(pcache.block) => blocks' = Programmed)
      /\ UNCHANGED <<wear, behavior, ooo, sess, shadow, synced, writes, erases>>
  BY DEF FlushProg, Running, client
<1>2. pcache.block = sess.block /\ sess.block \in Block /\ sess.block # NULL
  BY <1>1, Writing
<1>3. /\ FlushLen \in Nat /\ pcache.size <= FlushLen /\ FlushLen <= CACHE_SIZE
      /\ AlignUp(Pos, PROG_SIZE) = pcache.off + FlushLen
      /\ pcache.off + FlushLen <= BLOCK_SIZE
      /\ pcache.off \in Nat /\ pcache.size \in Nat /\ pcache.off + pcache.size = Pos
      /\ Pos \in Nat /\ Start = pcache.off
  BY <1>1, FlushFits, Sizes DEF Types, TypeOK, Cache, Offsets, WriteSide, PcacheOfSession, Start
<1>4. /\ blocks' \in [Block -> [Offsets -> Bytes]]
      /\ \A b \in Block \ {sess.block} : blocks'[b] = blocks[b]
      /\ \A j \in Offsets : j < pcache.off \/ j >= pcache.off + FlushLen =>
                              blocks'[sess.block][j] = blocks[sess.block][j]
  <2>1. \A j \in Offsets : j \in Nat
    BY Sizes DEF Offsets
  <2> QED
    BY <1>1, <1>2, <1>3, <2>1, ProgrammedIs DEF Types, TypeOK
<1>5. SyncedHeld'
  <2>1. ASSUME NEW b \in Block, NEW j \in Offsets, synced[b][j] > 0
        PROVE  blocks'[b][j] = blocks[b][j]
    <3>1. CASE b # sess.block
      BY <1>4, <3>1
    <3>2. CASE b = sess.block
      <4>1. synced[b][j] \in Mark /\ j \in Nat
        BY Sizes DEF Types, Offsets
      <4>2. j < pcache.off
        BY <1>2, <1>3, <2>1, <3>2, <4>1, Sizes DEF WriteSide, NothingBeyond, Mark
      <4> QED
        BY <1>4, <3>2, <4>2
    <3> QED
      BY <3>1, <3>2
  <2> QED
    BY <1>1, <2>1 DEF WriteSide, SyncedHeld, Unreadable, Bad
<1>6. CASE sess.validate
  <2>1. /\ rcache' = [rcache EXCEPT !.block = NULL] /\ pcache' = pcache
        /\ rd' = [by |-> "check", block |-> pcache.block, off |-> pcache.off, size |-> FlushLen,
                  hint |-> FlushLen, usep |-> FALSE, data |-> <<>>]
        /\ op' = [op EXCEPT !.stage = "check"]
    BY <1>6 DEF FlushProg, CheckAgainst, Drop
  <2>2. /\ op'.name = op.name /\ op'.stage = "check" /\ op'.off = op.off /\ op'.size = op.size
        /\ op'.val = op.val /\ op' \in Op
    BY <2>1 DEF Types, Op
  <2>3. rcache' \in Cache /\ rcache'.block = NULL
    BY <2>1 DEF Types, TypeOK, Cache
  <2>4. rd' \in Read /\ rd'.off + rd'.size <= BLOCK_SIZE
    BY <1>1, <1>2, <1>3, <2>1, Sizes DEF Read
  <2>5. Types'
    BY <1>1, <1>4, <2>1, <2>2, <2>3, <2>4 DEF Types, TypeOK
  <2>6. Pos' = Pos /\ Start' = Start /\ DeviceEnd = pcache.off /\ DeviceEnd' = pcache.off + FlushLen
    BY <1>1, <1>3, <2>1, <2>2 DEF Pos, Start, DeviceEnd
  <2>7. Stages' /\ PcacheOfSession' /\ NothingBeyond'
    BY <1>1, <2>1, <2>2, <2>6 DEF WriteSide, Stages, PcacheOfSession, NothingBeyond, Aligned
  <2>8. ErasedAhead'
    <3> SUFFICES ASSUME ~Bad(sess.block), NEW j \in Offsets, j >= pcache.off + FlushLen
                 PROVE  blocks'[sess.block][j] = 0
      BY <1>1, <2>6 DEF ErasedAhead, Bad
    <3>1. blocks'[sess.block][j] = blocks[sess.block][j] /\ j >= pcache.off
      BY <1>3, <1>4, Sizes DEF Offsets
    <3> QED
      BY <1>2, <2>6, <3>1 DEF WriteSide, ErasedAhead
  <2>9. DeviceHolds'
    <3> SUFFICES ASSUME NEW b \in Block, NEW j \in Offsets,
                        b # sess.block \/ (j < Start /\ (sess.validate \/ ~Bad(b)))
                 PROVE  DeviceHas(b, j)'
      BY <1>1, <2>6 DEF DeviceHolds, Bad
    <3>1. blocks'[b][j] = blocks[b][j]
      BY <1>3, <1>4
    <3> QED
      BY <1>1, <3>1 DEF WriteSide, DeviceHolds, DeviceHas, Unreadable, Bad
  <2>10. FlushLen' = FlushLen
    BY <2>1 DEF FlushLen
  <2>11. ReadSide'
    BY <1>1, <1>6, <2>1, <2>2, <2>3, <2>10 DEF ReadSide, RcacheCurrent, ClientRead, CheckRead, NoRead
  <2> QED
    BY <1>5, <2>5, <2>7, <2>8, <2>9, <2>11 DEF WriteSide
<1>7. CASE ~sess.validate
  <2>1. /\ pcache' = EmptyCache /\ op' = [op EXCEPT !.stage = AfterFlush]
        /\ rcache' = rcache /\ rd' = rd
    BY <1>7 DEF FlushProg, Flushed
  <2>2. op.name \in {"prog", "sync"}
    BY <1>1, <1>7 DEF WriteSide, Stages, Types, Op
  <2>3. /\ op'.name = op.name /\ op'.stage = AfterFlush /\ op'.off = op.off /\ op'.size = op.size
        /\ op'.val = op.val /\ op' \in Op /\ AfterFlush \in {"copy", "finish"}
    BY <2>1 DEF Types, Op, AfterFlush
  <2>4. pcache'.block = NULL /\ pcache' \in Cache /\ pcache'.off + pcache'.size <= BLOCK_SIZE
    BY <2>1, InitialTypes, Sizes DEF EmptyCache
  <2>5. Types'
    BY <1>1, <1>4, <2>1, <2>3, <2>4 DEF Types, TypeOK
  <2>6. Pos' = Pos /\ Start' = Pos /\ DeviceEnd = pcache.off /\ DeviceEnd' = pcache.off + FlushLen
    BY <1>1, <1>3, <2>3, <2>4 DEF Pos, Start, DeviceEnd
  <2>7. Stages'
    BY <1>1, <2>1, <2>2, <2>3, <2>4 DEF WriteSide, Stages, AfterFlush
  <2>8. op.name = "prog" => Aligned(Pos)
    <3>1. op.name = "prog" => Pos = pcache.off + CACHE_SIZE
      BY <1>1, <1>3 DEF WriteSide, Stages
    <3>2. pcache.off % PROG_SIZE = 0
      BY <1>1 DEF WriteSide, PcacheOfSession, Aligned
    <3>3. (pcache.off + CACHE_SIZE) % PROG_SIZE = 0
      BY <1>3, <3>2, Sizes, AlignedSum, Zenon
    <3> QED
      BY <3>1, <3>3 DEF Aligned
  <2>9. PcacheOfSession'
    BY <2>2, <2>3, <2>4, <2>6, <2>8 DEF PcacheOfSession, Aligned, AfterFlush
  <2>10. NothingBeyond'
    <3> SUFFICES ASSUME NEW j \in Offsets, j >= Pos
                 PROVE  shadow[sess.block][j] = 0 /\ synced[sess.block][j] <= 0
      BY <1>1, <2>6 DEF NothingBeyond
    <3>1. j >= Start
      BY <1>3, Sizes DEF Offsets
    <3> QED
      BY <1>2, <3>1 DEF WriteSide, NothingBeyond
  <2>11. ErasedAhead'
    <3> SUFFICES ASSUME ~Bad(sess.block), NEW j \in Offsets, j >= pcache.off + FlushLen
                 PROVE  blocks'[sess.block][j] = 0
      BY <1>1, <2>6 DEF ErasedAhead, Bad
    <3>1. blocks'[sess.block][j] = blocks[sess.block][j] /\ j >= pcache.off
      BY <1>3, <1>4, Sizes DEF Offsets
    <3> QED
      BY <1>2, <2>6, <3>1 DEF WriteSide, ErasedAhead
  <2>12. DeviceHolds'
    <3> SUFFICES ASSUME NEW b \in Block, NEW j \in Offsets,
                        b # sess.block \/ (j < Pos /\ ~Bad(b))
                 PROVE  DeviceHas(b, j)'
      BY <1>1, <1>7, <2>6 DEF DeviceHolds, Bad
    <3>1. j \in Nat
      BY Sizes DEF Offsets
    <3>2. CASE b # sess.block \/ j < pcache.off
      <4>1. blocks'[b][j] = blocks[b][j]
        BY <1>4, <3>2
      <4>2. DeviceHas(b, j)
        BY <1>3, <3>2 DEF WriteSide, DeviceHolds
      <4> QED
        BY <1>1, <4>1, <4>2 DEF DeviceHas, Unreadable, Bad
    <3>3. CASE b = sess.block /\ j >= pcache.off
      <4> DEFINE k == j - pcache.off
      <4>1. k \in 0..pcache.size - 1 /\ pcache.off + k = j
        BY <1>3, <3>1, <3>3
      <4> HIDE DEF k
      <4>2. pcache.buffer[k] = shadow[sess.block][j]
        BY <1>1, <4>1 DEF WriteSide, PcacheOfSession
      <4>3. j < pcache.off + FlushLen
        BY <1>3, <3>1, <3>3
      <4>4. blocks'[sess.block][j] = pcache.buffer[k]
        BY <1>1, <1>2, <3>3, <4>3, ProgrammedIs DEF k
      <4> QED
        BY <1>1, <3>3, <4>2, <4>4 DEF DeviceHas, Unreadable, Bad
    <3> QED
      BY <1>3, <3>1, <3>2, <3>3
  <2>13. op.name = "prog" => shadow[sess.block] # synced[sess.block]
    <3> SUFFICES ASSUME op.name = "prog" PROVE shadow[sess.block] # synced[sess.block]
      OBVIOUS
    <3>1. pcache.size = CACHE_SIZE
      BY <1>1 DEF WriteSide, Stages
    <3>2. 0 \in 0..pcache.size - 1 /\ pcache.off + 0 = pcache.off /\ pcache.off \in Offsets
      BY <1>3, <3>1, Sizes DEF Types, TypeOK, Cache
    <3>3. shadow[sess.block][pcache.off] > 0
      BY <1>1, <3>2 DEF WriteSide, PcacheOfSession
    <3>4. synced[sess.block][pcache.off] <= 0
      BY <1>2, <1>3, <3>2 DEF WriteSide, NothingBeyond
    <3>5. synced[sess.block][pcache.off] \in Mark
      BY <1>2, <3>2 DEF Types
    <3> QED
      BY <3>3, <3>4, <3>5, Sizes DEF Mark
  <2>14. RcacheCurrent'
    <3> SUFFICES ASSUME rcache.block # NULL, Readable(rcache.block)', NEW i \in 0..rcache.size - 1
                 PROVE  /\ shadow[rcache.block][rcache.off + i] \in {rcache.buffer[i], -1, 0}
                        /\ op.name # "sync"
      BY <1>1, <2>1, <2>3 DEF ReadSide, RcacheCurrent, NoRead
    <3>1. op.name = "prog"
      BY <2>2 DEF ReadSide, RcacheCurrent
    <3>2. rcache.block # sess.block
      BY <1>1, <1>7, <2>1, <2>13, <3>1 DEF Readable
    <3>3. Readable(rcache.block) /\ ~InPcache(rcache.block, rcache.off + i)
      BY <1>2, <3>2 DEF Readable, InPcache
    <3> QED
      BY <3>1, <3>3 DEF ReadSide, RcacheCurrent
  <2>15. ClientRead' /\ CheckRead'
    BY <1>1, <2>1, <2>3, NobodyReads
  <2> QED
    BY <1>5, <2>5, <2>7, <2>9, <2>10, <2>11, <2>12, <2>14, <2>15 DEF WriteSide, ReadSide
<1> QED
  BY <1>6, <1>7
\* An operation that is given up leaves the reads as they were.
LEMMA GiveUpReads ==
  ASSUME Types, WriteSide, ReadSide, pcache.block # NULL, GiveUp(pcache.block),
         pcache' = Drop(pcache), rcache' = rcache, rd' = NoRead, UNCHANGED <<device, synced, writes, erases>>
  PROVE  Types' /\ ReadSide'
<1>1. /\ op' = NoOp /\ sess' = NoSession /\ pcache' = [pcache EXCEPT !.block = NULL]
      /\ shadow' = [shadow EXCEPT ![pcache.block] = Unknown]
      /\ pcache.block = sess.block /\ pcache.block \in Block
      /\ UNCHANGED <<blocks, wear, behavior, ooo, synced, writes, erases>>
  BY DEF GiveUp, Drop, Types, TypeOK, Cache, WriteSide, PcacheOfSession, device
<1>2. pcache' \in Cache /\ pcache'.off = pcache.off /\ pcache'.size = pcache.size /\ pcache'.block = NULL
  BY <1>1 DEF Types, TypeOK, Cache
<1>3. shadow' \in [Block -> [Offsets -> Mark]]
  BY <1>1, InitialTypes DEF Types
<1>4. Types'
  BY <1>1, <1>2, <1>3, InitialTypes, Sizes DEF Types, TypeOK, NoOp, NoSession, NoRead
<1>5. RcacheCurrent'
  <2> SUFFICES ASSUME rcache.block # NULL, NEW i \in 0..rcache.size - 1
               PROVE  shadow'[rcache.block][rcache.off + i] \in {rcache.buffer[i], -1, 0}
    BY <1>1 DEF RcacheCurrent, NoRead, NoOp
  <2>1. /\ rcache.off + i \in Offsets /\ rcache.block \in Block
    BY Sizes DEF Types, TypeOK, Cache, Offsets
  <2>2. CASE rcache.block = sess.block
    BY <1>1, <2>1, <2>2 DEF Types, Unknown
  <2>3. CASE rcache.block # sess.block
    <3>1. Readable(rcache.block) /\ ~InPcache(rcache.block, rcache.off + i)
      BY <1>1, <2>3 DEF Readable, InPcache
    <3>2. shadow'[rcache.block] = shadow[rcache.block]
      BY <1>1, <2>1, <2>3 DEF Types
    <3> QED
      BY <3>1, <3>2 DEF ReadSide, RcacheCurrent
  <2> QED
    BY <2>2, <2>3
<1>6. ClientRead' /\ CheckRead'
  BY <1>1, NobodyReads DEF NoOp
<1> QED
  BY <1>4, <1>5, <1>6 DEF ReadSide

LEMMA FlushErrorKeeps ==
  ASSUME Types, WriteSide, ReadSide, FlushProgError
  PROVE  Types' /\ WriteSide' /\ ReadSide'
<1>1. /\ pcache.block # NULL /\ GiveUp(pcache.block) /\ pcache' = Drop(pcache) /\ rcache' = rcache
      /\ rd' = NoRead /\ UNCHANGED <<device, synced, writes, erases>>
  BY DEF FlushProgError, Running
<1> QED
  BY <1>1, GiveUpKeeps, GiveUpReads

\* What was read back is what the cache holds: the block is good.
LEMMA CheckKeeps ==
  ASSUME Types, WriteSide, ReadSide, FlushCheck
  PROVE  Types' /\ WriteSide' /\ ReadSide'
<1>1. /\ op.stage = "check" /\ rd.by = "check" /\ rd.size = 0 /\ rd' = NoRead
      /\ UNCHANGED <<blocks, wear, behavior, ooo, rcache, synced, writes, erases>>
  BY DEF FlushCheck, device
<1>2. /\ pcache.block # NULL /\ sess.validate /\ rcache.block = NULL
      /\ pcache.block = sess.block /\ sess.block \in Block /\ sess.block # NULL
  <2>1. pcache.block # NULL /\ sess.validate /\ rcache.block = NULL
    BY <1>1 DEF ReadSide, CheckRead, RcacheCurrent
  <2> QED
    BY <2>1, Writing
<1>3. CASE ~ReadsBack
  <2>1. GiveUp(pcache.block) /\ pcache' = Drop(pcache) /\ UNCHANGED <<device, synced, writes, erases>>
    BY <1>3 DEF FlushCheck
  <2> QED
    BY <1>1, <1>2, <2>1, GiveUpKeeps, GiveUpReads
<1>4. CASE ReadsBack
  <2>1. pcache' = EmptyCache /\ op' = [op EXCEPT !.stage = AfterFlush] /\ UNCHANGED <<sess, shadow>>
    BY <1>4 DEF FlushCheck
  <2>2. op.name \in {"prog", "flush"}
    BY <1>1, <1>2 DEF WriteSide, Stages, Types, Op
  <2>3. /\ op'.name = op.name /\ op'.stage = AfterFlush /\ op'.off = op.off /\ op'.size = op.size
        /\ op'.val = op.val /\ op' \in Op /\ AfterFlush \in {"copy", "finish"}
    BY <2>1 DEF Types, Op, AfterFlush
  <2>4. pcache'.block = NULL /\ pcache' \in Cache /\ pcache'.off + pcache'.size <= BLOCK_SIZE
    BY <2>1, InitialTypes, Sizes DEF EmptyCache
  <2>5. Types'
    BY <1>1, <2>1, <2>3, <2>4, InitialTypes, Sizes DEF Types, TypeOK, NoRead
  <2>6. /\ FlushLen \in Nat /\ pcache.size <= FlushLen /\ FlushLen <= CACHE_SIZE
        /\ AlignUp(Pos, PROG_SIZE) = pcache.off + FlushLen
        /\ pcache.off \in Nat /\ pcache.size \in Nat /\ pcache.off + pcache.size = Pos
        /\ Pos \in Nat /\ Start = pcache.off
    BY <1>2, FlushFits, Sizes DEF Types, TypeOK, Cache, Offsets, WriteSide, PcacheOfSession, Start
  <2>7. Pos' = Pos /\ Start' = Pos /\ DeviceEnd' = DeviceEnd
    BY <1>1, <2>1, <2>3, <2>4 DEF Pos, Start, DeviceEnd
  <2>8. Stages'
    BY <1>1, <1>2, <2>1, <2>2, <2>3, <2>4 DEF WriteSide, Stages, AfterFlush
  <2>9. op.name = "prog" => Aligned(Pos)
    <3>1. op.name = "prog" => Pos = pcache.off + CACHE_SIZE
      BY <1>1, <2>6 DEF WriteSide, Stages
    <3>2. pcache.off % PROG_SIZE = 0
      BY <1>2 DEF WriteSide, PcacheOfSession, Aligned
    <3>3. (pcache.off + CACHE_SIZE) % PROG_SIZE = 0
      BY <2>6, <3>2, Sizes, AlignedSum, Zenon
    <3> QED
      BY <3>1, <3>3 DEF Aligned
  <2>10. PcacheOfSession'
    BY <2>2, <2>3, <2>4, <2>7, <2>9 DEF PcacheOfSession, Aligned, AfterFlush
  <2>11. NothingBeyond'
    <3> SUFFICES ASSUME NEW j \in Offsets, j >= Pos
                 PROVE  shadow[sess.block][j] = 0 /\ synced[sess.block][j] <= 0
      BY <1>1, <2>1, <2>7 DEF NothingBeyond
    <3>1. j >= Start
      BY <2>6, Sizes DEF Offsets
    <3> QED
      BY <1>2, <3>1 DEF WriteSide, NothingBeyond
  <2>12. ErasedAhead' /\ SyncedHeld'
    BY <1>1, <2>1, <2>7 DEF WriteSide, ErasedAhead, SyncedHeld, Unreadable, Bad
  <2>13. ASSUME NEW k \in 0..pcache.size - 1
         PROVE  /\ pcache.buffer[k] = blocks[sess.block][pcache.off + k] /\ ~Unreadable(sess.block)
    <3>1. FlushLen > 0
      BY <2>6
    <3>2. /\ ~Unreadable(sess.block)
          /\ rd.data = [i \in 1..FlushLen |-> blocks[sess.block][pcache.off + i - 1]]
      <4>1. rd.block = sess.block
        BY <1>1, <1>2 DEF ReadSide, CheckRead
      <4>2. rd.size # FlushLen
        BY <1>1, <3>1
      <4>3. /\ ~Unreadable(rd.block)
            /\ rd.data = [i \in 1..FlushLen |-> blocks[rd.block][pcache.off + i - 1]]
        BY <1>1, <4>2 DEF ReadSide, CheckRead
      <4> QED
        BY <4>1, <4>3
    <3> DEFINE i == k + 1
    <3>3. i \in 1..FlushLen /\ pcache.off + i - 1 = pcache.off + k /\ i - 1 = k
      BY <2>6
    <3>4. Len(rd.data) = FlushLen /\ rd.data[i] = blocks[sess.block][pcache.off + i - 1]
      BY <2>6, <3>2, <3>3
    <3> HIDE DEF i
    <3>5. rd.data[i] = pcache.buffer[i - 1]
      BY <1>4, <3>3, <3>4 DEF ReadsBack
    <3> QED
      BY <3>2, <3>3, <3>4, <3>5
  <2>14. DeviceHolds'
    <3> SUFFICES ASSUME NEW b \in Block, NEW j \in Offsets, b # sess.block \/ j < Pos
                 PROVE  DeviceHas(b, j)'
      BY <1>1, <2>1, <2>7 DEF DeviceHolds
    <3>1. j \in Nat
      BY Sizes DEF Offsets
    <3>2. CASE b # sess.block \/ j < pcache.off
      <4>1. DeviceHas(b, j)
        BY <1>2, <2>6, <3>2 DEF WriteSide, DeviceHolds
      <4> QED
        BY <1>1, <2>1, <4>1 DEF DeviceHas, Unreadable, Bad
    <3>3. CASE b = sess.block /\ j >= pcache.off
      <4> DEFINE k == j - pcache.off
      <4>1. k \in 0..pcache.size - 1 /\ pcache.off + k = j
        BY <2>6, <3>1, <3>3
      <4> HIDE DEF k
      <4>2. pcache.buffer[k] = shadow[sess.block][j]
        BY <1>2, <4>1 DEF WriteSide, PcacheOfSession
      <4>3. shadow[sess.block][j] = blocks[sess.block][j] /\ ~Unreadable(sess.block)
        BY <2>13, <4>1, <4>2
      <4> QED
        BY <1>1, <2>1, <3>3, <4>3 DEF DeviceHas, Unreadable, Bad
    <3> QED
      BY <2>6, <3>1, <3>2, <3>3
  <2>15. RcacheCurrent'
    BY <1>1, <1>2 DEF RcacheCurrent
  <2>16. ClientRead' /\ CheckRead'
    BY <1>1, <2>3, NobodyReads
  <2> QED
    BY <2>5, <2>8, <2>10, <2>11, <2>12, <2>14, <2>15, <2>16 DEF WriteSide, ReadSide
<1> QED
  BY <1>3, <1>4
------------------------------------------------------------------------------
(* The client, and the loss of power.                                      *)

LEMMA EraseKeeps ==
  ASSUME Types, WriteSide, ReadSide, NEW b \in Block, NEW v \in BOOLEAN, Erase(b, v)
  PROVE  Types' /\ WriteSide' /\ ReadSide'
<1>1. /\ op = NoOp /\ rd = NoRead /\ sess = NoSession /\ pcache.block = NULL
      /\ erases' = erases + 1 /\ erases < MaxErases
      /\ ooo' = IF ooo.block = NULL THEN [block |-> b, data |-> blocks[b]] ELSE ooo
      /\ wear' = [wear EXCEPT ![b] = Min2(@ + 1, ERASE_CYCLES)]
      /\ synced' = [synced EXCEPT ![b] = Unknown]
      /\ blocks' \in {blocks, [blocks EXCEPT ![b] = Erased]}
      /\ sess' \in {NoSession, [block |-> b, off |-> 0, validate |-> v]}
      /\ \E s \in {Erased, Unknown} : shadow' = [shadow EXCEPT ![b] = s]
      /\ UNCHANGED <<behavior, pcache, rcache, op, rd, writes>>
  BY DEF Erase, Free, caches
<1>2. sess'.block # NULL => /\ sess'.block = b /\ sess'.off = 0
                            /\ shadow' = [shadow EXCEPT ![b] = Erased]
                            /\ ~Bad(b) => blocks' = [blocks EXCEPT ![b] = Erased]
  BY <1>1 DEF Erase, NoSession
<1>3. b # NULL /\ wear[b] \in 0..ERASE_CYCLES
  BY SizesAssumption DEF Types, TypeOK
<1>4. /\ wear' \in [Block -> 0..ERASE_CYCLES]
      /\ wear'[b] >= wear[b] /\ \A c \in Block \ {b} : wear'[c] = wear[c]
  <2>1. Min2(wear[b] + 1, ERASE_CYCLES) \in 0..ERASE_CYCLES /\ Min2(wear[b] + 1, ERASE_CYCLES) >= wear[b]
    BY <1>3, Sizes DEF Min2
  <2> QED
    BY <1>1, <2>1 DEF Types, TypeOK
<1>5. Bad(b) => Bad(b)'
  BY <1>3, <1>4, Sizes DEF Bad
<1>6. /\ blocks' \in [Block -> [Offsets -> Bytes]] /\ shadow' \in [Block -> [Offsets -> Mark]]
      /\ synced' \in [Block -> [Offsets -> Mark]] /\ sess' \in Session
      /\ ooo' \in [block : Block \cup {NULL}, data : [Offsets -> Bytes]]
  <2>1. blocks \in [Block -> [Offsets -> Bytes]]
    BY DEF Types, TypeOK
  <2>2. [block |-> b, off |-> 0, validate |-> v] \in Session
    BY Sizes DEF Session
  <2>3. [block |-> b, data |-> blocks[b]] \in [block : Block \cup {NULL}, data : [Offsets -> Bytes]]
    BY <2>1
  <2> QED
    <3>1. blocks' \in [Block -> [Offsets -> Bytes]]
      BY <1>1, <2>1, InitialTypes
    <3>2. shadow' \in [Block -> [Offsets -> Mark]] /\ synced' \in [Block -> [Offsets -> Mark]]
      BY <1>1, InitialTypes DEF Types
    <3>3. sess' \in Session
      BY <1>1, <2>2, InitialTypes
    <3>4. ooo' \in [block : Block \cup {NULL}, data : [Offsets -> Bytes]]
      BY <1>1, <2>3 DEF Types
    <3> QED
      BY <3>1, <3>2, <3>3, <3>4
<1>7. Types'
  <2>1. sess'.off \in 0..BLOCK_SIZE
    BY <1>6 DEF Session
  <2>2. erases' \in 0..MaxErases
    BY <1>1, Sizes DEF Types
  <2> QED
    BY <1>1, <1>4, <1>6, <2>1, <2>2 DEF Types, TypeOK
<1>8. sess'.block # NULL => Pos' = 0 /\ Start' = 0
  BY <1>1, <1>2 DEF Pos, Start, NoOp
<1>9. Stages'
  BY <1>1, <1>3 DEF Stages, NoOp, NoSession
<1>10. PcacheOfSession'
  <2>1. 0 % PROG_SIZE = 0
    BY Sizes
  <2> QED
    BY <1>1, <1>8, <2>1 DEF PcacheOfSession, Aligned
<1>11. \A j \in Offsets : shadow'[b][j] <= 0 /\ synced'[b][j] = -1
  BY <1>1 DEF Types, Erased, Unknown
<1>12. \A c \in Block \ {b} : shadow'[c] = shadow[c] /\ synced'[c] = synced[c] /\ blocks'[c] = blocks[c]
  BY <1>1 DEF Types, TypeOK
<1>13. NothingBeyond'
  BY <1>2, <1>11 DEF NothingBeyond, Erased, Types
<1>14. ErasedAhead'
  BY <1>2, <1>5 DEF ErasedAhead, Erased, Types, TypeOK
<1>15. DeviceHolds'
  <2> SUFFICES ASSUME NEW c \in Block, NEW j \in Offsets PROVE DeviceHas(c, j)'
    BY DEF DeviceHolds
  <2>1. CASE c = b
    <3>1. shadow'[b][j] \in Mark /\ shadow'[b][j] <= 0
      BY <1>6, <1>11
    <3> QED
      BY <2>1, <3>1, Sizes DEF DeviceHas, Mark
  <2>2. CASE c # b
    <3>1. DeviceHas(c, j)
      BY <1>1, SizesAssumption DEF WriteSide, DeviceHolds, NoSession
    <3> QED
      BY <1>1, <1>4, <1>12, <2>2, <3>1 DEF DeviceHas, Unreadable, Bad
  <2> QED
    BY <2>1, <2>2
<1>16. SyncedHeld'
  <2>1. ASSUME NEW c \in Block, NEW j \in Offsets, synced'[c][j] > 0
        PROVE  synced'[c][j] = blocks'[c][j] /\ ~Unreadable(c)'
    <3>1. c # b
      BY <1>11, <2>1
    <3> QED
      BY <1>1, <1>4, <1>12, <2>1, <3>1 DEF WriteSide, SyncedHeld, Unreadable, Bad
  <2>2. ASSUME ooo'.block # NULL, NEW j \in Offsets
        PROVE  synced'[ooo'.block][j] <= 0
    <3>1. CASE ooo'.block = b
      BY <1>11, <3>1
    <3>2. CASE ooo'.block # b
      <4>1. ooo' = ooo /\ ooo.block \in Block
        BY <1>1, <2>2, <3>2 DEF Types
      <4> QED
        BY <1>12, <2>2, <3>2, <4>1 DEF WriteSide, SyncedHeld
    <3> QED
      BY <3>1, <3>2
  <2> QED
    BY <2>1, <2>2 DEF SyncedHeld
<1>17. RcacheCurrent'
  <2> SUFFICES ASSUME rcache.block # NULL, NEW i \in 0..rcache.size - 1
               PROVE  shadow'[rcache.block][rcache.off + i] \in {rcache.buffer[i], -1, 0}
    BY <1>1 DEF RcacheCurrent, NoRead, NoOp
  <2>1. /\ rcache.off + i \in Offsets /\ rcache.block \in Block
    BY Sizes DEF Types, TypeOK, Cache, Offsets
  <2>2. CASE rcache.block = b
    <3>1. shadow'[b][rcache.off + i] \in Mark /\ shadow'[b][rcache.off + i] <= 0
      BY <1>6, <1>11, <2>1
    <3> QED
      BY <2>2, <3>1, Sizes DEF Mark
  <2>3. CASE rcache.block # b
    <3>1. Readable(rcache.block) /\ ~InPcache(rcache.block, rcache.off + i)
      BY <1>1, <2>1 DEF Readable, InPcache, NoSession
    <3> QED
      BY <1>12, <2>1, <2>3, <3>1 DEF ReadSide, RcacheCurrent
  <2> QED
    BY <2>2, <2>3
<1>18. ClientRead' /\ CheckRead'
  BY <1>1, NobodyReads DEF NoOp
<1> QED
  BY <1>7, <1>9, <1>10, <1>13, <1>14, <1>15, <1>16, <1>17, <1>18 DEF WriteSide, ReadSide

LEMMA BeginsKeep ==
  ASSUME Types, WriteSide, ReadSide, (\E n \in ProgSizes : BeginProg(n)) \/ BeginFlush \/ BeginSync
  PROVE  Types' /\ WriteSide' /\ ReadSide'
<1>1. /\ op = NoOp /\ rd = NoRead /\ rd' = NoRead
      /\ UNCHANGED <<blocks, wear, behavior, ooo, pcache, sess, shadow, synced, erases>>
  BY DEF BeginProg, BeginFlush, BeginSync, Free, device, caches, client
<1>2. CASE \E n \in ProgSizes : BeginProg(n)
  <2>1. PICK n \in ProgSizes : BeginProg(n)
    BY <1>2
  <2>2. /\ op' = [name |-> "prog", stage |-> "copy", off |-> sess.off, size |-> n, val |-> writes + 1]
        /\ sess.block # NULL /\ sess.off + n <= BLOCK_SIZE /\ writes < MaxWrites
        /\ writes' = writes + 1 /\ rcache' = rcache
    BY <2>1 DEF BeginProg, caches
  <2>3. n \in Nat /\ sess.off \in 0..BLOCK_SIZE /\ writes \in Nat
    BY UseAssumption, Sizes DEF Types, TypeOK
  <2>4. op' \in Op /\ op'.off + op'.size <= BLOCK_SIZE /\ writes' \in 0..MaxWrites /\ writes + 1 > 0
    BY <2>2, <2>3, Sizes DEF Op, Bytes
  <2>5. Types'
    BY <1>1, <2>2, <2>4 DEF Types, TypeOK
  <2>6. Pos' = Pos /\ Start' = Start /\ DeviceEnd' = DeviceEnd
    BY <1>1, <2>2 DEF Pos, Start, DeviceEnd, NoOp
  <2>7. Stages'
    BY <1>1, <2>2, <2>4 DEF WriteSide, Stages
  <2>8. PcacheOfSession' /\ NothingBeyond' /\ ErasedAhead' /\ SyncedHeld' /\ DeviceHolds'
    BY <1>1, <2>2, <2>6 DEF WriteSide, PcacheOfSession, NothingBeyond, ErasedAhead, SyncedHeld,
       DeviceHolds, DeviceHas, Unreadable, Bad, NoOp, Aligned
  <2>9. RcacheCurrent'
    BY <1>1, <2>2 DEF ReadSide, RcacheCurrent, Readable, InPcache, NoRead
  <2>10. ClientRead' /\ CheckRead'
    BY <1>1, <2>2, NobodyReads
  <2> QED
    BY <2>5, <2>7, <2>8, <2>9, <2>10 DEF WriteSide, ReadSide
<1>3. CASE BeginFlush \/ BeginSync
  <2>1. /\ op' \in {[NoOp EXCEPT !.name = "flush", !.stage = "flush"],
                    [NoOp EXCEPT !.name = "sync", !.stage = "flush"]}
        /\ rcache' \in {rcache, [rcache EXCEPT !.block = NULL]} /\ writes' = writes
    BY <1>3 DEF BeginFlush, BeginSync, SyncedCache, Drop, SyncFrom, caches, client
  <2>2. /\ op'.name \in {"flush", "sync"} /\ op'.stage = "flush" /\ op' \in Op
        /\ op'.off + op'.size <= BLOCK_SIZE
    <3>1. PICK name \in {"flush", "sync"} :
            op' = [name |-> name, stage |-> "flush", off |-> 0, size |-> 0, val |-> 0]
      BY <2>1 DEF NoOp
    <3> QED
      BY <3>1, Sizes DEF Op, Bytes
  <2>3. rcache' \in Cache /\ (rcache'.block # NULL => rcache' = rcache)
    BY <2>1 DEF Types, TypeOK, Cache
  <2>4. Types'
    BY <1>1, <2>1, <2>2, <2>3 DEF Types, TypeOK
  <2>5. Pos' = Pos /\ Start' = Start /\ DeviceEnd' = DeviceEnd
    BY <1>1, <2>2 DEF Pos, Start, DeviceEnd, NoOp
  <2>6. Stages'
    <3>1. op'.name = "flush" => sess.block # NULL /\ sess.validate
      BY <1>3 DEF BeginFlush, BeginSync, SyncFrom, NoOp
    <3>2. op'.name = "sync" => sess = NoSession \/ ~sess.validate
      BY <1>3 DEF BeginFlush, BeginSync, SyncFrom, NoOp
    <3> QED
      BY <1>1, <2>2, <3>1, <3>2 DEF WriteSide, Stages, NoSession
  <2>7. PcacheOfSession' /\ NothingBeyond' /\ ErasedAhead' /\ SyncedHeld' /\ DeviceHolds'
    BY <1>1, <2>2, <2>5 DEF WriteSide, PcacheOfSession, NothingBeyond, ErasedAhead, SyncedHeld,
       DeviceHolds, DeviceHas, Unreadable, Bad, NoOp, Aligned
  <2>8. op'.name = "sync" => rcache'.block = NULL
    BY <1>3 DEF BeginFlush, BeginSync, SyncedCache, Drop, NoOp, Types, TypeOK, Cache
  <2>9. RcacheCurrent'
    BY <1>1, <2>3, <2>8 DEF ReadSide, RcacheCurrent, Readable, InPcache, NoRead
  <2>10. ClientRead' /\ CheckRead'
    BY <1>1, <2>2, NobodyReads
  <2> QED
    BY <2>4, <2>6, <2>7, <2>9, <2>10 DEF WriteSide, ReadSide
<1> QED
  BY <1>2, <1>3

LEMMA BeginReadKeeps ==
  ASSUME Types, WriteSide, ReadSide, NEW b \in Block, NEW off \in Offsets, NEW r \in ReadSizes,
         BeginRead(b, off, r[1], r[2])
  PROVE  Types' /\ WriteSide' /\ ReadSide'
<1>1. /\ op = NoOp /\ off + r[1] <= BLOCK_SIZE /\ Readable(b) /\ (b = pcache.block => r[1] = 1)
      /\ rd' = [by |-> "client", block |-> b, off |-> off, size |-> r[1], hint |-> r[2],
                usep |-> r[1] = 1, data |-> <<>>]
      /\ UNCHANGED written /\ UNCHANGED <<rcache, pcache, sess, op, shadow, synced>>
      /\ UNCHANGED <<blocks, wear, behavior, ooo, writes, erases>>
  BY DEF BeginRead, Free, caches, client, device, written
<1>2. r[1] \in Nat /\ r[2] \in Nat
  BY UseAssumption
<1>3. /\ rd'.by = "client" /\ rd'.block = b /\ rd'.off = off /\ rd'.size = r[1] /\ rd'.data = <<>>
      /\ Len(rd'.data) = 0 /\ (b = pcache.block => rd'.usep) /\ (rd'.usep => r[1] = 1)
  BY <1>1
<1>4. rd' \in Read
  <2>1. (r[1] = 1) \in BOOLEAN
    BY Zenon
  <2>2. off \in 0..BLOCK_SIZE /\ r[1] \in 0..BLOCK_SIZE /\ <<>> \in Seq(Bytes)
    BY <1>1, <1>2, Sizes DEF Offsets
  <2> QED
    BY <1>1, <1>2, <2>1, <2>2 DEF Read
<1>5. Types'
  BY <1>1, <1>3, <1>4 DEF Types, TypeOK
<1>6. WriteSide'
  BY <1>1, WriteSideUnread
<1>7. RcacheCurrent'
  BY <1>1, <1>3 DEF ReadSide, RcacheCurrent, Readable, InPcache, NoOp
<1>8. ClientRead'
  <2>1. Readable(rd.block)'
    BY <1>1, <1>3 DEF Readable
  <2>2. off \in Nat
    BY Sizes DEF Offsets
  <2> QED
    BY <1>1, <1>2, <1>3, <2>1, <2>2 DEF ClientRead
<1>9. CheckRead'
  BY <1>1, <1>3 DEF CheckRead, NoRead, NoOp
<1> QED
  BY <1>5, <1>6, <1>7, <1>8, <1>9 DEF ReadSide
\* What was synced is what a mount finds, also when the first erase since the
\* sync is undone.
LEMMA PowerLossKeeps ==
  ASSUME Types, WriteSide, PowerLoss
  PROVE  Types' /\ WriteSide' /\ ReadSide'
<1>1. /\ ooo' = NoOoo /\ pcache' = EmptyCache /\ rcache' = EmptyCache
      /\ op' = NoOp /\ rd' = NoRead /\ sess' = NoSession
      /\ shadow' = [b \in Block |-> [i \in Offsets |->
                      IF synced[b][i] = 0 THEN -1 ELSE synced[b][i]]]
      /\ blocks' \in {blocks, IF ooo.block = NULL THEN blocks
                              ELSE [blocks EXCEPT ![ooo.block] = ooo.data]}
      /\ UNCHANGED <<wear, behavior, synced, writes, erases>>
  BY DEF PowerLoss
<1>2. /\ blocks' \in [Block -> [Offsets -> Bytes]]
      /\ \A b \in Block : blocks'[b] # blocks[b] => b = ooo.block
  <2>1. ooo.block # NULL => ooo.block \in Block /\ ooo.data \in [Offsets -> Bytes]
    BY DEF Types
  <2> QED
    BY <1>1, <2>1 DEF Types, TypeOK
<1>3. shadow' \in [Block -> [Offsets -> Mark]]
  <2> SUFFICES ASSUME NEW b \in Block, NEW i \in Offsets
               PROVE  (IF synced[b][i] = 0 THEN -1 ELSE synced[b][i]) \in Mark
    BY <1>1
  <2> QED
    BY Sizes DEF Types, Mark
<1>4. Types'
  BY <1>1, <1>2, <1>3, InitialTypes, Sizes DEF Types, TypeOK, EmptyCache, NoOp, NoRead, NoSession
<1>5. Stages' /\ PcacheOfSession' /\ NothingBeyond' /\ ErasedAhead' /\ ReadSide'
  BY <1>1 DEF Stages, PcacheOfSession, NothingBeyond, ErasedAhead, ReadSide, RcacheCurrent,
     ClientRead, CheckRead, EmptyCache, NoOp, NoRead, NoSession
<1>6. ASSUME NEW b \in Block, NEW j \in Offsets, synced[b][j] > 0
      PROVE  synced[b][j] = blocks'[b][j] /\ ~Unreadable(b)'
  <2>1. synced[b][j] \in Mark
    BY DEF Types
  <2>2. blocks'[b] = blocks[b]
    BY <1>2, <1>6, <2>1, SizesAssumption, Sizes DEF WriteSide, SyncedHeld, Mark
  <2> QED
    BY <1>1, <1>6, <2>2 DEF WriteSide, SyncedHeld, Unreadable, Bad
<1>7. SyncedHeld'
  BY <1>1, <1>6 DEF SyncedHeld, NoOoo
<1>8. DeviceHolds'
  <2> SUFFICES ASSUME NEW b \in Block, NEW j \in Offsets, shadow'[b][j] > 0
               PROVE  shadow'[b][j] = blocks'[b][j] /\ ~Unreadable(b)'
    BY DEF DeviceHolds, DeviceHas
  <2>1. shadow'[b][j] = synced[b][j]
    BY <1>1
  <2> QED
    BY <1>6, <2>1
<1> QED
  BY <1>4, <1>5, <1>7, <1>8 DEF WriteSide

LEMMA StutterKeeps ==
  ASSUME Types, WriteSide, ReadSide, UNCHANGED vars
  PROVE  Types' /\ WriteSide' /\ ReadSide'
<1>1. UNCHANGED <<blocks, wear, behavior, ooo, pcache, rcache, op, rd, sess, shadow, synced, writes, erases>>
  BY DEF vars, device, caches, client
<1>2. Types'
  BY <1>1 DEF Types, TypeOK
<1>3. WriteSide'
  BY <1>1, WriteSideUnread DEF written, device, client
<1>4. ReadSide'
  BY <1>1 DEF ReadSide, RcacheCurrent, ClientRead, CheckRead, Readable, InPcache, FlushLen,
     Unreadable, Bad
<1> QED
  BY <1>2, <1>3, <1>4

LEMMA Invariance == Spec => []IInv
<1>1. Init => IInv
  BY InitInvariant
<1>2. IInv /\ [Next]_vars => IInv'
  <2> SUFFICES ASSUME Types, WriteSide, ReadSide, [Next]_vars
               PROVE  Types' /\ WriteSide' /\ ReadSide'
    BY DEF IInv
  <2>1. CASE ReadStep
    BY <2>1, TypesRead, WriteSideRead, ReadSideRead
  <2>2. CASE WriteStep
    BY <2>2, PrepareKeeps, CopyKeeps, ProgDoneKeeps, NothingKeeps, FlushKeeps, FlushErrorKeeps,
       CheckKeeps, FlushDoneKeeps, SyncDoneKeeps DEF WriteStep
  <2>3. CASE Client
    BY <2>3, EraseKeeps, BeginsKeep, BeginReadKeeps DEF Client
  <2>4. CASE PowerLoss
    BY <2>4, PowerLossKeeps
  <2>5. CASE UNCHANGED vars
    BY <2>5, StutterKeeps
  <2> QED
    BY <2>1, <2>2, <2>3, <2>4, <2>5 DEF Next
<1> QED
  BY <1>1, <1>2, PTL DEF Spec

------------------------------------------------------------------------------
\* Only erased bytes are programmed, within the block, and nothing that was
\* synced is lost, for every size of the caches and the units (lfs_bd_prog,
\* lfs_bd_flush, lfs_bd_sync, lfs_bd_erase over lfs_emubd).
THEOREM DeviceIsSound == Spec => []Inv
<1>1. IInv => Inv
  <2> SUFFICES ASSUME Types, WriteSide PROVE Inv
    BY DEF IInv
  <2>1. SyncedSurvives
    BY DEF WriteSide, SyncedHeld, SyncedSurvives
  <2>2. ProgsErased
    <3> SUFFICES ASSUME Running("flush"), pcache.block # NULL, ~Bad(pcache.block),
                        NEW i \in pcache.off..pcache.off + FlushLen - 1
                 PROVE  blocks[pcache.block][i] = 0
      BY DEF ProgsErased
    <3>1. /\ FlushLen \in Nat /\ pcache.off \in Nat /\ pcache.off + FlushLen <= BLOCK_SIZE
          /\ pcache.block = sess.block /\ sess.block # NULL
      <4>1. FlushLen \in Nat /\ pcache.off + FlushLen <= BLOCK_SIZE
        BY FlushFits
      <4>2. pcache.block = sess.block /\ sess.block # NULL
        BY Writing
      <4>3. pcache.off \in Nat
        BY Sizes DEF Types, TypeOK, Cache, Offsets
      <4> QED
        BY <4>1, <4>2, <4>3
    <3>2. i \in Offsets /\ i >= pcache.off
      BY <3>1, Sizes DEF Offsets
    <3>3. DeviceEnd = pcache.off
      BY DEF DeviceEnd, Running
    <3> QED
      BY <3>1, <3>2, <3>3 DEF WriteSide, ErasedAhead
  <2> QED
    BY <2>1, <2>2 DEF Inv, Types
<1> QED
  BY <1>1, Invariance, PTL

\* A finished read has returned what was last written, from the device or from
\* the prog cache, and nothing that the read cache kept from before
\* (lfs_bd_read).
THEOREM ReadsReturnTheLast == Spec => []ReadsAreCurrent
<1>1. IInv => ReadsAreCurrent
  BY DEF IInv, ReadSide, ClientRead, ReadsAreCurrent
<1> QED
  BY <1>1, Invariance, PTL

\* A validated block that was flushed holds what was written, however its
\* block misbehaves (lfs_bd_cmp in lfs_bd_flush).
THEOREM NoBadBlockIsMissed == Spec => []BadBlocksAreFound
<1>1. IInv => BadBlocksAreFound
  <2> SUFFICES ASSUME Types, WriteSide, NEW b \in Block, b # sess.block, NEW i \in Offsets
               PROVE  shadow[b][i] \in {blocks[b][i], -1, 0}
    BY DEF IInv, BadBlocksAreFound
  <2>1. DeviceHas(b, i) /\ shadow[b][i] \in Mark
    BY DEF WriteSide, DeviceHolds, Types
  <2> QED
    BY <2>1, Sizes DEF DeviceHas, Mark
<1> QED
  BY <1>1, Invariance, PTL
===============================================================================
