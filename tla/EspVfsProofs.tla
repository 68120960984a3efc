----------------------------- MODULE EspVfsProofs -----------------------------
(***************************************************************************)
(* Proofs about EspVfs, for any number of tasks, names and files: the      *)
(* table of open files stays in one piece, a directory stream tells each   *)
(* entry once, and every step is a step of OpenFiles.                      *)
(***************************************************************************)
EXTENDS EspVfs, FiniteSetTheorems, SequenceTheorems, TLAPS

------------------------------------------------------------------------------
(* Paths.                                                                  *)

LEMMA PathKinds ==
  /\ NoPath \notin Path
  /\ \A p \in Path : /\ p[1] \in Name /\ Len(p) \in {1, 2}
                     /\ Len(p) = 1 => p = <<p[1]>>
                     /\ Len(p) = 2 => p[1] \in DirName /\ p = <<p[1], p[1]>>
  /\ \A n \in Name : <<n>> \in Path /\ Len(<<n>>) = 1 /\ <<n>>[1] = n
  /\ \A n \in DirName : <<n, n>> \in Path /\ Len(<<n, n>>) = 2 /\ <<n, n>>[1] = n
  BY VfsAssumption DEF Path, NoPath

LEMMA BelowIs ==
  ASSUME NEW p \in Path
  PROVE  /\ Below(p) \in Path \union {NoPath} /\ Below(p) # p
         /\ Below(p) # NoPath => /\ Len(p) = 1 /\ p = <<p[1]>> /\ p[1] \in DirName
                                 /\ Below(p) = <<p[1], p[1]>> /\ Len(Below(p)) = 2
  BY PathKinds DEF Below

------------------------------------------------------------------------------
(* Calls, and the types.                                                   *)

FdCall == [op : {"open"}, at : {"allocated"}, path : Path, create : BOOLEAN, fd : Nat]
          \union [op : {"truncate"}, at : {"start", "allocated", "opened", "close"},
                  path : Path, create : BOOLEAN, fd : Nat]
SeekCall == [op : {"transfer"}, at : {"start"}, fd : Nat, to : Place]
SavedCall == [op : {"transfer"}, at : {"there"}, fd : Nat, to : Place, saved : Place]
Call == {Idle, Error}
        \union [op : {"open"}, at : {"start"}, path : Path, create : BOOLEAN]
        \union FdCall
        \union [op : {"move", "use", "close"}, at : {"start"}, fd : Nat]
        \union SeekCall \union SavedCall
        \union [op : {"stat", "unlink", "mkdir", "rmdir"}, at : {"start", "checked"}, path : Path]
        \union [op : {"rename"}, at : {"start", "checked"}, path : Path, to : Path]
        \union [op : {"opendir", "rewinddir", "closedir", "telldir", "readdir", "seekdir"},
                at : {"start", "skip"}]

FileRec == [path : Path \union {NoPath}, is : Path \union {NoPath}, pos : Place, open : BOOLEAN]

Types == TypeOK /\ fd_count \in Nat /\ call \in [Task -> Call]

\* A call that goes on, and what it keeps.
LEMMA NextPlace ==
  ASSUME NEW c \in Call, NEW a
  PROVE  LET d == [c EXCEPT !.at = a]
         IN  /\ d.at = a /\ d.op = c.op
             /\ c \in FdCall => /\ d.fd = c.fd /\ d.path = c.path /\ d.create = c.create
                                /\ c.op = "truncate" /\ a \in {"opened", "close"} => d \in FdCall
             /\ c \in SeekCall => d.fd = c.fd /\ d.to = c.to
             /\ c.op = "unlink" => d.path = c.path /\ (a = "checked" => d \in Call)
             /\ c.op = "rename" => d.path = c.path /\ d.to = c.to /\ (a = "checked" => d \in Call)
             /\ c.op \in {"rewinddir", "seekdir"} => (a = "skip" => d \in Call)
<1> DEFINE d == [c EXCEPT !.at = a]
<1>1. CASE c \in {Idle, Error}
  BY <1>1 DEF Idle, Error, FdCall, SeekCall
<1>2. CASE c \in [op : {"open"}, at : {"start"}, path : Path, create : BOOLEAN]
  BY <1>2 DEF FdCall, SeekCall
<1>3. CASE c \in FdCall
  BY <1>3 DEF FdCall, SeekCall
<1>4. CASE c \in [op : {"move", "use", "close"}, at : {"start"}, fd : Nat]
  BY <1>4 DEF FdCall, SeekCall
<1>5. CASE c \in SeekCall
  BY <1>5 DEF FdCall, SeekCall
<1>6. CASE c \in SavedCall
  BY <1>6 DEF FdCall, SeekCall, SavedCall
<1>7. CASE c \in [op : {"stat", "unlink", "mkdir", "rmdir"}, at : {"start", "checked"}, path : Path]
  BY <1>7 DEF FdCall, SeekCall, Call
<1>8. CASE c \in [op : {"rename"}, at : {"start", "checked"}, path : Path, to : Path]
  BY <1>8 DEF FdCall, SeekCall, Call
<1>9. CASE c \in [op : {"opendir", "rewinddir", "closedir", "telldir", "readdir", "seekdir"},
                  at : {"start", "skip"}]
  BY <1>9 DEF FdCall, SeekCall, Call
<1> QED
  BY <1>1, <1>2, <1>3, <1>4, <1>5, <1>6, <1>7, <1>8, <1>9 DEF Call

------------------------------------------------------------------------------
(* The invariant: the array, the list and the count; the descriptors that  *)
(* calls hold; and the lock.                                               *)

OncePerTable == /\ \A i, j \in DOMAIN cache : cache[i] = cache[j] /\ cache[i] # Null => i = j
                /\ \A i, j \in DOMAIN list : list[i] = list[j] => i = j
SameFiles == \A f \in File :
  (\E i \in DOMAIN list : list[i] = f) <=> (\E i \in DOMAIN cache : cache[i] = f)
OthersBlank == \A f \in File : (\A i \in DOMAIN list : list[i] # f) => files[f] = NoFile

Table == /\ OncePerTable /\ SameFiles /\ OthersBlank
         /\ fd_count = Len(list) /\ Len(cache) >= 1

\* A call that has a descriptor, and one that nobody else may have with it.
HasOne(c) == c.op \in {"move", "use", "transfer", "close"}
             \/ c.at \in {"allocated", "opened", "close"}
Sole(c) == c.op \in {"close", "truncate"} \/ c.at = "allocated"

\* The file of a descriptor is open, but not before the call has opened it.
Held == \A t \in Task : HasOne(call[t]) =>
  /\ call[t].fd \in DOMAIN cache /\ cache[call[t].fd] # Null
  /\ files[cache[call[t].fd]].open <=> call[t].at # "allocated"
Apart == \A t, u \in Task :
  t # u /\ HasOne(call[t]) /\ HasOne(call[u]) /\ Sole(call[t]) => call[t].fd # call[u].fd

LockHeld == \A t \in Task : call[t].at \in {"allocated", "checked", "there"} => lock.owner = t

TInv == Types /\ Table /\ Held /\ Apart /\ LockHeld

------------------------------------------------------------------------------
(* The array and the list.                                                 *)

LEMMA LeastOf ==
  ASSUME NEW S \in SUBSET Nat, S # {}
  PROVE  \E i \in S : \A j \in S : i <= j
<1>1. \E i \in S : \A j \in S : ~(<<j, i>> \in OpToRel(<, Nat))
  BY WFMin, NatLessThanWellFounded, Zenon
<1>2. \A i, j \in S : ~(<<j, i>> \in OpToRel(<, Nat)) => i <= j
  BY DEF OpToRel
<1> QED
  BY <1>1, <1>2

LEMMA FirstFreeIs ==
  ASSUME NEW s \in Seq(File \union {Null}), NEW k \in DOMAIN s, s[k] = Null
  PROVE  /\ FirstFree(s) \in DOMAIN s /\ s[FirstFree(s)] = Null
         /\ \A j \in 1..FirstFree(s) - 1 : s[j] # Null
<1> DEFINE S == {i \in DOMAIN s : s[i] = Null}
<1>1. S \in SUBSET Nat /\ S # {}
  OBVIOUS
<1>2. PICK i \in S : \A j \in S : i <= j
  BY <1>1, LeastOf
<1>3. i \in DOMAIN s /\ s[i] = Null /\ \A j \in 1..i - 1 : s[j] # Null
  BY <1>2
<1> QED
  BY <1>3 DEF FirstFree

LEMMA CountOfFirst ==
  ASSUME NEW n \in Nat
  PROVE  IsFiniteSet(1..n) /\ Cardinality(1..n) = n
<1>1. IsFiniteSet(1..n) /\ Cardinality(1..n) = IF 1 > n THEN 0 ELSE n - 1 + 1
  BY FS_Interval
<1> QED
  BY <1>1

\* Entries of the array that are in use are as many as the list has.
HeldAt == {i \in DOMAIN cache : cache[i] # Null}

LEMMA HeldCount ==
  ASSUME Types, Table
  PROVE  /\ IsFiniteSet(HeldAt) /\ Cardinality(HeldAt) = fd_count
         /\ IsFiniteSet(Range(list)) /\ Cardinality(Range(list)) = fd_count
         /\ Range(list) = {cache[i] : i \in HeldAt}
<1>1. cache \in Seq(File \union {Null}) /\ list \in Seq(File) /\ DOMAIN list = 1..Len(list)
  BY DEF Types, TypeOK
<1>2. Null \notin File
  BY DEF Null, File
<1>3. IsFiniteSet(DOMAIN list) /\ Cardinality(DOMAIN list) = fd_count
  <2>1. Len(list) \in Nat
    BY <1>1
  <2> QED
    BY <1>1, <2>1, CountOfFirst, Zenon DEF Table
<1> DEFINE at == [k \in DOMAIN list |-> CHOOSE i \in HeldAt : cache[i] = list[k]]
<1>4. \A k \in DOMAIN list : at[k] \in HeldAt /\ cache[at[k]] = list[k]
  <2> SUFFICES ASSUME NEW k \in DOMAIN list PROVE \E i \in HeldAt : cache[i] = list[k]
    OBVIOUS
  <2>1. list[k] \in File
    BY <1>1
  <2> QED
    BY <2>1, <1>2 DEF Table, SameFiles, HeldAt
<1>5. \A i \in HeldAt : \E k \in DOMAIN list : list[k] = cache[i] /\ at[k] = i
  <2> SUFFICES ASSUME NEW i \in HeldAt PROVE \E k \in DOMAIN list : list[k] = cache[i] /\ at[k] = i
    OBVIOUS
  <2>1. cache[i] \in File /\ i \in DOMAIN cache
    BY <1>1 DEF HeldAt
  <2>2. PICK k \in DOMAIN list : list[k] = cache[i]
    BY <2>1 DEF Table, SameFiles
  <2>3. at[k] = i
    BY <2>1, <2>2, <1>4 DEF Table, OncePerTable, HeldAt
  <2> QED
    BY <2>2, <2>3
<1>6. \A j, k \in DOMAIN list : at[j] = at[k] => j = k
  BY <1>4 DEF Table, OncePerTable
<1>7. at \in Bijection(DOMAIN list, HeldAt)
  BY <1>4, <1>5, <1>6, Zenon DEF Bijection, Injection, Surjection, IsInjective
<1>8. list \in Bijection(DOMAIN list, Range(list))
  <2>1. \A j, k \in DOMAIN list : list[j] = list[k] => j = k
    BY DEF Table, OncePerTable
  <2>2. list = [k \in DOMAIN list |-> list[k]]
    BY <1>1
  <2> QED
    BY <2>1, <2>2, Zenon DEF Bijection, Injection, Surjection, IsInjective, Range
<1>9. ExistsBijection(DOMAIN list, HeldAt) /\ ExistsBijection(DOMAIN list, Range(list))
  BY <1>7, <1>8 DEF ExistsBijection
<1>10. Range(list) = {cache[i] : i \in HeldAt}
  BY <1>4, <1>5 DEF Range
<1> QED
  BY <1>3, <1>9, <1>10, FS_Bijection, Zenon

\* There is room for one more after the array has grown.
LEMMA GrownIs ==
  ASSUME Types, Table
  PROVE  /\ Grown \in Seq(File \union {Null}) /\ Len(Grown) >= Len(cache)
         /\ \A i \in DOMAIN cache : i \in DOMAIN Grown /\ Grown[i] = cache[i]
         /\ \A i \in DOMAIN Grown \ DOMAIN cache : Grown[i] = Null
         /\ \E i \in DOMAIN Grown : Grown[i] = Null
<1>1. cache \in Seq(File \union {Null}) /\ Len(cache) \in Nat /\ Len(cache) >= 1
      /\ DOMAIN cache = 1..Len(cache)
  BY DEF Types, TypeOK, Table
<1>2. CASE fd_count + 1 > Len(cache)
  <2> DEFINE n == (CacheFactor - 1) * Len(cache)
  <2>1. n \in Nat /\ n >= 1
    <3>1. CacheFactor - 1 \in Nat /\ CacheFactor - 1 >= 1
      BY VfsAssumption
    <3>2. \A a, b \in Nat : a >= 1 /\ b >= 1 => a * b \in Nat /\ a * b >= 1
      OBVIOUS
    <3> QED
      BY <1>1, <3>1, <3>2
  <2> DEFINE blank == [i \in 1..n |-> Null]
  <2>2. blank \in Seq(File \union {Null}) /\ Len(blank) = n
    BY <2>1, IsASeq
  <2>3. Grown = cache \o blank
    BY <1>2 DEF Grown
  <2> HIDE DEF n
  <2>4. /\ Grown \in Seq(File \union {Null}) /\ Len(Grown) = Len(cache) + n
        /\ \A i \in 1..Len(cache) + n : Grown[i] = IF i <= Len(cache) THEN cache[i] ELSE Null
    <3>1. \A i \in 1..Len(cache) + n : i > Len(cache) => blank[i - Len(cache)] = Null
      BY <1>1, <2>1
    <3> HIDE DEF blank
    <3>2. /\ cache \o blank \in Seq(File \union {Null})
          /\ Len(cache \o blank) = Len(cache) + Len(blank)
          /\ \A i \in 1..Len(cache) + Len(blank) : (cache \o blank)[i] =
               IF i <= Len(cache) THEN cache[i] ELSE blank[i - Len(cache)]
      BY <1>1, <2>2, ConcatProperties
    <3> QED
      BY <2>2, <2>3, <3>1, <3>2
  <2>5. DOMAIN Grown = 1..Len(cache) + n
    BY <2>4
  <2> QED
    BY <1>1, <2>1, <2>4, <2>5
<1>3. CASE ~(fd_count + 1 > Len(cache))
  <2>1. Grown = cache
    BY <1>3 DEF Grown
  <2>2. SUFFICES ASSUME \A i \in DOMAIN cache : cache[i] # Null PROVE FALSE
    BY <1>1, <2>1
  <2>3. HeldAt = 1..Len(cache)
    BY <1>1, <2>2 DEF HeldAt
  <2>4. Cardinality(1..Len(cache)) = Len(cache)
    BY <1>1, CountOfFirst
  <2> QED
    BY <1>1, <1>3, <2>3, <2>4, HeldCount DEF Types
<1> QED
  BY <1>2, <1>3

\* esp_littlefs_allocate_fd keeps the table in one piece, and what it held.
LEMMA AllocateKeeps ==
  ASSUME Types, Table, NEW f \in File, f \notin Range(list), AllocateFd(f), files' = files
  PROVE  LET k == FirstFree(Grown)
         IN  /\ Table'
             /\ cache' \in Seq(File \union {Null}) /\ list' \in Seq(File) /\ fd_count' \in Nat
             /\ k \in Nat /\ k \in DOMAIN cache' /\ cache'[k] = f /\ files[f] = NoFile
             /\ k \notin HeldAt
             /\ \A i \in HeldAt : i \in DOMAIN cache' /\ cache'[i] = cache[i]
<1> DEFINE k == FirstFree(Grown)
<1>1. cache \in Seq(File \union {Null}) /\ list \in Seq(File) /\ fd_count \in Nat
      /\ Null \notin File
  BY DEF Types, TypeOK, Null, File
<1>2. /\ Grown \in Seq(File \union {Null}) /\ Len(Grown) >= Len(cache)
      /\ \A i \in DOMAIN cache : i \in DOMAIN Grown /\ Grown[i] = cache[i]
      /\ \A i \in DOMAIN Grown \ DOMAIN cache : Grown[i] = Null
      /\ \E i \in DOMAIN Grown : Grown[i] = Null
  BY GrownIs
<1>3. k \in DOMAIN Grown /\ Grown[k] = Null
  BY <1>2, FirstFreeIs
<1> HIDE DEF k
<1>4. /\ cache' = [Grown EXCEPT ![k] = f] /\ list' = <<f>> \o list /\ fd_count' = fd_count + 1
  BY DEF AllocateFd, k
<1>5. /\ cache' \in Seq(File \union {Null}) /\ DOMAIN cache' = DOMAIN Grown
      /\ Len(cache') = Len(Grown)
      /\ \A i \in DOMAIN Grown : cache'[i] = IF i = k THEN f ELSE Grown[i]
  BY <1>2, <1>3, <1>4
<1>6. /\ list' \in Seq(File) /\ Len(list') = Len(list) + 1 /\ DOMAIN list' = 1..Len(list) + 1
      /\ list'[1] = f /\ \A i \in DOMAIN list : i + 1 \in DOMAIN list' /\ list'[i + 1] = list[i]
      /\ \A i \in DOMAIN list' : i # 1 => i - 1 \in DOMAIN list /\ list'[i] = list[i - 1]
  BY <1>1, <1>4
<1>7. \A i \in DOMAIN list : list[i] # f
  BY DEF Range
<1>8. \A i \in DOMAIN cache : cache[i] # f
  BY <1>7 DEF Table, SameFiles
<1>9. OncePerTable'
  <2>1. ASSUME NEW i \in DOMAIN cache', NEW j \in DOMAIN cache',
               cache'[i] = cache'[j], cache'[i] # Null
        PROVE  i = j
    BY <2>1, <1>1, <1>2, <1>5, <1>8 DEF Table, OncePerTable
  <2>2. ASSUME NEW i \in DOMAIN list', NEW j \in DOMAIN list', list'[i] = list'[j]
        PROVE  i = j
    BY <2>2, <1>1, <1>6, <1>7 DEF Table, OncePerTable
  <2> QED
    BY <2>1, <2>2 DEF OncePerTable
<1>10. SameFiles'
  <2> SUFFICES ASSUME NEW g \in File
               PROVE  (\E i \in DOMAIN list' : list'[i] = g)
                      <=> (\E i \in DOMAIN cache' : cache'[i] = g)
    BY DEF SameFiles
  <2>1. (\E i \in DOMAIN list : list[i] = g) <=> (\E i \in DOMAIN cache : cache[i] = g)
    BY DEF Table, SameFiles
  <2>2. (\E i \in DOMAIN list' : list'[i] = g) <=> (g = f \/ \E i \in DOMAIN list : list[i] = g)
    <3>1. ASSUME NEW i \in DOMAIN list', list'[i] = g
          PROVE  g = f \/ \E j \in DOMAIN list : list[j] = g
      BY <3>1, <1>6
    <3>2. 1 \in DOMAIN list' /\ list'[1] = f
      BY <1>6
    <3>3. ASSUME NEW i \in DOMAIN list, list[i] = g
          PROVE  \E j \in DOMAIN list' : list'[j] = g
      BY <3>3, <1>6
    <3> QED
      BY <3>1, <3>2, <3>3
  <2>3. (\E i \in DOMAIN cache' : cache'[i] = g) <=> (g = f \/ \E i \in DOMAIN cache : cache[i] = g)
    BY <1>1, <1>2, <1>3, <1>5
  <2> QED
    BY <2>1, <2>2, <2>3
<1>11. OthersBlank'
  BY <1>6 DEF Table, OthersBlank
<1>12. Len(cache') >= 1 /\ fd_count' = Len(list') /\ fd_count' \in Nat
  BY <1>1, <1>2, <1>4, <1>5, <1>6 DEF Table
<1>13. k \in Nat /\ k \in DOMAIN cache' /\ cache'[k] = f
  BY <1>2, <1>3, <1>5
<1>14. k \notin HeldAt /\ \A i \in HeldAt : i \in DOMAIN cache' /\ cache'[i] = cache[i]
  BY <1>2, <1>3, <1>5 DEF HeldAt
<1>15. files[f] = NoFile
  BY <1>7 DEF Table, OthersBlank
<1> QED
  BY <1>5, <1>6, <1>9, <1>10, <1>11, <1>12, <1>13, <1>14, <1>15 DEF Table, k

LEMMA RemoveAtIs ==
  ASSUME NEW S, NEW s \in Seq(S), NEW k \in DOMAIN s
  PROVE  /\ RemoveAt(s, k) \in Seq(S) /\ Len(RemoveAt(s, k)) = Len(s) - 1
         /\ \A i \in 1..Len(s) - 1 : RemoveAt(s, k)[i] = IF i < k THEN s[i] ELSE s[i + 1]
<1>1. k \in 1..Len(s) /\ Len(s) \in Nat
  OBVIOUS
<1>2. /\ SubSeq(s, 1, k - 1) \in Seq(S) /\ Len(SubSeq(s, 1, k - 1)) = k - 1
      /\ \A i \in 1..k - 1 : SubSeq(s, 1, k - 1)[i] = s[i]
  BY <1>1
<1>3. /\ SubSeq(s, k + 1, Len(s)) \in Seq(S) /\ Len(SubSeq(s, k + 1, Len(s))) = Len(s) - k
      /\ \A i \in 1..Len(s) - k : SubSeq(s, k + 1, Len(s))[i] = s[i + k]
  BY <1>1
<1> DEFINE a == SubSeq(s, 1, k - 1)
           b == SubSeq(s, k + 1, Len(s))
<1>4. a \in Seq(S) /\ Len(a) = k - 1 /\ \A i \in 1..k - 1 : a[i] = s[i]
  BY <1>2
<1>5. b \in Seq(S) /\ Len(b) = Len(s) - k /\ \A i \in 1..Len(s) - k : b[i] = s[i + k]
  BY <1>3
<1>6. RemoveAt(s, k) = a \o b
  BY DEF RemoveAt
<1> HIDE DEF a, b
<1>7. /\ a \o b \in Seq(S) /\ Len(a \o b) = Len(a) + Len(b)
      /\ \A i \in 1..Len(a) + Len(b) : (a \o b)[i] = IF i <= Len(a) THEN a[i] ELSE b[i - Len(a)]
  BY <1>4, <1>5, ConcatProperties
<1>8. k - 1 \in Nat /\ Len(s) - k \in Nat /\ k \in Nat
  BY <1>1
<1>9. Len(a) + Len(b) = Len(s) - 1
  BY <1>1, <1>4, <1>5, <1>8
<1>10. ASSUME NEW i \in 1..Len(s) - 1
       PROVE  (a \o b)[i] = IF i < k THEN s[i] ELSE s[i + 1]
  <2>1. (a \o b)[i] = IF i <= k - 1 THEN a[i] ELSE b[i - (k - 1)]
    BY <1>4, <1>7, <1>9
  <2>2. CASE i < k
    BY <2>1, <2>2, <1>1, <1>4
  <2>3. CASE i >= k
    <3>1. i - (k - 1) \in 1..Len(s) - k /\ i - (k - 1) + k = i + 1
      BY <2>3, <1>1
    <3> QED
      BY <2>1, <2>3, <3>1, <1>1, <1>5
  <2>4. i < k \/ i >= k
    BY <1>8
  <2> QED
    BY <2>2, <2>3, <2>4
<1> QED
  BY <1>6, <1>7, <1>9, <1>10

\* So does esp_littlefs_free_fd.
LEMMA FreeKeeps ==
  ASSUME Types, Table, NEW fd \in DOMAIN cache, cache[fd] # Null, FreeFd(fd)
  PROVE  /\ Table'
         /\ cache' \in Seq(File \union {Null}) /\ list' \in Seq(File) /\ fd_count' \in Nat
         /\ files' \in [File -> FileRec] /\ DOMAIN cache' = DOMAIN cache
         /\ cache'[fd] = Null /\ \A i \in DOMAIN cache : i # fd => cache'[i] = cache[i]
         /\ \A i \in HeldAt : i # fd => files'[cache[i]] = files[cache[i]]
<1> DEFINE f == cache[fd]
           k == Link(f)
<1>1. /\ cache \in Seq(File \union {Null}) /\ list \in Seq(File) /\ fd_count \in Nat
      /\ Null \notin File /\ f \in File /\ files \in [File -> FileRec]
  BY DEF Types, TypeOK, Null, File, FileRec
<1>2. \E i \in DOMAIN list : list[i] = f
  BY <1>1 DEF Table, SameFiles
<1>3. k \in DOMAIN list /\ list[k] = f
  BY <1>2 DEF Link
<1> HIDE DEF k
<1>4. /\ list' = RemoveAt(list, k) /\ files' = [files EXCEPT ![f] = NoFile]
      /\ cache' = [cache EXCEPT ![fd] = Null] /\ fd_count' = fd_count - 1
  BY DEF FreeFd, k
<1>5. /\ list' \in Seq(File) /\ Len(list') = Len(list) - 1
      /\ \A i \in 1..Len(list) - 1 : list'[i] = IF i < k THEN list[i] ELSE list[i + 1]
  BY <1>1, <1>3, <1>4, RemoveAtIs
<1>6. DOMAIN list = 1..Len(list) /\ DOMAIN list' = 1..Len(list) - 1 /\ Len(list) \in Nat
  BY <1>5
<1> DEFINE was(i) == IF i < k THEN i ELSE i + 1
<1>16. \A i \in DOMAIN list' : was(i) \in DOMAIN list /\ was(i) # k /\ list'[i] = list[was(i)]
  BY <1>3, <1>5, <1>6
<1>17. \A i, j \in DOMAIN list' : was(i) = was(j) => i = j
  BY <1>3, <1>6
<1> HIDE DEF was
<1>7. /\ cache' \in Seq(File \union {Null}) /\ DOMAIN cache' = DOMAIN cache
      /\ Len(cache') = Len(cache) /\ cache'[fd] = Null
      /\ \A i \in DOMAIN cache : i # fd => cache'[i] = cache[i]
  BY <1>1, <1>4
<1>8. NoFile \in FileRec
  BY VfsAssumption DEF NoFile, FileRec, Place
<1>9. files' \in [File -> FileRec] /\ files'[f] = NoFile
      /\ \A g \in File : g # f => files'[g] = files[g]
  BY <1>1, <1>4, <1>8
<1>10. OncePerTable'
  <2>1. ASSUME NEW i \in DOMAIN cache', NEW j \in DOMAIN cache',
               cache'[i] = cache'[j], cache'[i] # Null
        PROVE  i = j
    BY <2>1, <1>7 DEF Table, OncePerTable
  <2>2. ASSUME NEW i \in DOMAIN list', NEW j \in DOMAIN list', list'[i] = list'[j]
        PROVE  i = j
    BY <2>2, <1>16, <1>17 DEF Table, OncePerTable
  <2> QED
    BY <2>1, <2>2 DEF OncePerTable
<1>11. \A g \in File : (\E i \in DOMAIN list' : list'[i] = g)
                        <=> (g # f /\ \E i \in DOMAIN list : list[i] = g)
  <2> SUFFICES ASSUME NEW g \in File
               PROVE  (\E i \in DOMAIN list' : list'[i] = g)
                      <=> (g # f /\ \E i \in DOMAIN list : list[i] = g)
    OBVIOUS
  <2>1. ASSUME NEW i \in DOMAIN list', list'[i] = g
        PROVE  g # f /\ \E j \in DOMAIN list : list[j] = g
    BY <2>1, <1>3, <1>16 DEF Table, OncePerTable
  <2>2. ASSUME g # f, NEW i \in DOMAIN list, list[i] = g
        PROVE  \E j \in DOMAIN list' : list'[j] = g
    <3>1. CASE i < k
      <4>1. i \in DOMAIN list' /\ list'[i] = g
        BY <3>1, <2>2, <1>3, <1>5, <1>6
      <4> QED
        BY <4>1
    <3>2. CASE i > k
      <4>1. i - 1 \in DOMAIN list' /\ list'[i - 1] = g
        BY <3>2, <2>2, <1>3, <1>5, <1>6
      <4> QED
        BY <4>1
    <3> QED
      BY <3>1, <3>2, <2>2, <1>3, <1>6
  <2> QED
    BY <2>1, <2>2
<1>12. SameFiles'
  <2> SUFFICES ASSUME NEW g \in File
               PROVE  (\E i \in DOMAIN list' : list'[i] = g)
                      <=> (\E i \in DOMAIN cache' : cache'[i] = g)
    BY DEF SameFiles
  <2>1. (\E i \in DOMAIN list : list[i] = g) <=> (\E i \in DOMAIN cache : cache[i] = g)
    BY DEF Table, SameFiles
  <2>2. (\E i \in DOMAIN cache' : cache'[i] = g) <=> (g # f /\ \E i \in DOMAIN cache : cache[i] = g)
    BY <1>1, <1>7 DEF Table, OncePerTable
  <2> QED
    BY <2>1, <2>2, <1>11
<1>13. OthersBlank'
  <2> SUFFICES ASSUME NEW g \in File, \A i \in DOMAIN list' : list'[i] # g
               PROVE  files'[g] = NoFile
    BY DEF OthersBlank
  <2>1. g = f \/ \A i \in DOMAIN list : list[i] # g
    BY <1>11
  <2> QED
    BY <2>1, <1>9 DEF Table, OthersBlank
<1>14. fd_count' = Len(list') /\ fd_count' \in Nat /\ Len(cache') >= 1
  BY <1>1, <1>3, <1>4, <1>5, <1>6, <1>7 DEF Table
<1>15. \A i \in HeldAt : i # fd => files'[cache[i]] = files[cache[i]]
  <2> SUFFICES ASSUME NEW i \in DOMAIN cache, cache[i] # Null, i # fd
               PROVE  files'[cache[i]] = files[cache[i]]
    BY DEF HeldAt
  <2>1. cache[i] # f /\ cache[i] \in File
    BY <1>1 DEF Table, OncePerTable
  <2> QED
    BY <2>1, <1>9
<1> QED
  BY <1>5, <1>7, <1>9, <1>10, <1>12, <1>13, <1>14, <1>15 DEF Table

------------------------------------------------------------------------------
(* A step of a call that leaves the table alone.                           *)

LockType == [owner : Task \union {Nobody}, leaked : BOOLEAN]
TreeType == [Path -> {"none", "file", "dir"}]

FilesKeep == /\ files' \in [File -> FileRec]
             /\ \A f \in File : /\ files'[f].open = files[f].open
                                /\ files[f] = NoFile => files'[f] = NoFile

TableKeeps == cache' \in {cache, Grown} /\ UNCHANGED <<list, fd_count>>

\* The call keeps the descriptor that it has, or gives it up.
FdKeeps(c, d) == HasOne(d) => /\ HasOne(c) /\ d.fd = c.fd /\ (Sole(d) => Sole(c))
                              /\ d.at = "allocated" <=> c.at = "allocated"

\* It has the lock when it needs it.
LockKeeps(t, d) ==
  \/ lock' = lock /\ d.at \notin {"allocated", "checked", "there"}
  \/ /\ Takes(t) \/ call[t].at \in {"allocated", "checked", "there"}
     /\ d.at \in {"allocated", "checked", "there"} => lock'.owner = t

LEMMA NextCall ==
  ASSUME Types, NEW t \in Task, NEW d \in Call, call' = [call EXCEPT ![t] = d]
  PROVE  /\ call' \in [Task -> Call] /\ call'[t] = d
         /\ \A u \in Task : u # t => call'[u] = call[u]
  BY DEF Types

LEMMA LockStep ==
  ASSUME Types, LockHeld, NEW t \in Task, NEW d \in Call, call' = [call EXCEPT ![t] = d],
         LockKeeps(t, d)
  PROVE  LockHeld'
<1> SUFFICES ASSUME NEW u \in Task, call'[u].at \in {"allocated", "checked", "there"}
             PROVE  lock'.owner = u
  BY DEF LockHeld
<1>1. call'[t] = d /\ \A v \in Task : v # t => call'[v] = call[v]
  BY NextCall
<1>2. Nobody \notin Task
  BY VfsAssumption
<1>3. CASE u = t
  BY <1>1, <1>3 DEF LockKeeps, LockHeld
<1>4. CASE u # t
  BY <1>1, <1>2, <1>4 DEF LockKeeps, LockHeld, Takes
<1> QED
  BY <1>3, <1>4

LEMMA TableStep ==
  ASSUME Types, Table, FilesKeep, TableKeeps
  PROVE  /\ Table' /\ cache' \in Seq(File \union {Null}) /\ list' \in Seq(File)
         /\ fd_count' \in Nat
         /\ \A i \in HeldAt : i \in DOMAIN cache' /\ cache'[i] = cache[i]
<1>1. cache \in Seq(File \union {Null}) /\ list \in Seq(File) /\ fd_count \in Nat
      /\ Null \notin File
  BY DEF Types, TypeOK, Null, File
<1>2. /\ cache' \in Seq(File \union {Null}) /\ Len(cache') >= Len(cache)
      /\ \A i \in DOMAIN cache : i \in DOMAIN cache' /\ cache'[i] = cache[i]
      /\ \A i \in DOMAIN cache' \ DOMAIN cache : cache'[i] = Null
  <2>1. CASE cache' = cache
    BY <2>1, <1>1
  <2>2. CASE cache' = Grown
    BY <2>2, GrownIs
  <2> QED
    BY <2>1, <2>2 DEF TableKeeps
<1>3. list' = list /\ fd_count' = fd_count
  BY DEF TableKeeps
<1>4. OncePerTable'
  BY <1>1, <1>2, <1>3 DEF Table, OncePerTable
<1>5. SameFiles'
  BY <1>1, <1>2, <1>3 DEF Table, SameFiles
<1>6. OthersBlank'
  BY <1>3 DEF Table, OthersBlank, FilesKeep
<1>7. Len(cache') >= 1
  BY <1>1, <1>2 DEF Table
<1> QED
  BY <1>1, <1>2, <1>3, <1>4, <1>5, <1>6, <1>7 DEF Table, HeldAt

LEMMA FdStep ==
  ASSUME Types, Table, Held, Apart, FilesKeep, TableKeeps,
         NEW t \in Task, NEW d \in Call, call' = [call EXCEPT ![t] = d], FdKeeps(call[t], d)
  PROVE  Held' /\ Apart'
<1>1. call'[t] = d /\ \A v \in Task : v # t => call'[v] = call[v]
  BY NextCall
<1>2. \A i \in HeldAt : i \in DOMAIN cache' /\ cache'[i] = cache[i]
  BY TableStep
<1>3. \A i \in HeldAt : cache[i] \in File /\ files'[cache[i]].open = files[cache[i]].open
  BY DEF Types, TypeOK, HeldAt, FilesKeep
<1>4. ASSUME NEW u \in Task, HasOne(call'[u])
      PROVE  /\ HasOne(call[u]) /\ call'[u].fd = call[u].fd
             /\ Sole(call'[u]) => Sole(call[u])
             /\ call'[u].at = "allocated" <=> call[u].at = "allocated"
  BY <1>1, <1>4 DEF FdKeeps
<1>5. Held'
  <2> SUFFICES ASSUME NEW u \in Task, HasOne(call'[u])
               PROVE  /\ call'[u].fd \in DOMAIN cache' /\ cache'[call'[u].fd] # Null
                      /\ files'[cache'[call'[u].fd]].open <=> call'[u].at # "allocated"
    BY DEF Held
  <2>1. call[u].fd \in HeldAt /\ (files[cache[call[u].fd]].open <=> call[u].at # "allocated")
    BY <1>4 DEF Held, HeldAt
  <2> QED
    BY <1>2, <1>3, <1>4, <2>1 DEF HeldAt
<1>6. Apart'
  BY <1>4 DEF Apart
<1> QED
  BY <1>5, <1>6

LEMMA CallStep ==
  ASSUME TInv, FilesKeep, TableKeeps, tree' \in TreeType, lock' \in LockType,
         NEW t \in Task, NEW d \in Call, call' = [call EXCEPT ![t] = d],
         FdKeeps(call[t], d), LockKeeps(t, d)
  PROVE  TInv'
<1> USE DEF TInv
<1>1. LockHeld'
  BY LockStep
<1>2. Held' /\ Apart'
  BY FdStep
<1>3. Table' /\ cache' \in Seq(File \union {Null}) /\ list' \in Seq(File) /\ fd_count' \in Nat
  BY TableStep
<1>4. Types'
  BY <1>3, NextCall DEF Types, TypeOK, FilesKeep, FileRec, LockType, TreeType
<1> QED
  BY <1>1, <1>2, <1>3, <1>4

\* When a call returns, its lock is given or kept.
LEMMA ReturnsIs ==
  ASSUME Types, NEW t \in Task
  PROVE  /\ Idle \in Call /\ ~HasOne(Idle) /\ Given \in LockType
         /\ Idle.at \notin {"allocated", "checked", "there"}
         /\ call[t].at \in {"allocated", "checked", "there"} \/ Takes(t) => LockKeeps(t, Idle)
         /\ Error \in Call /\ ~HasOne(Error) /\ Error.at \notin {"allocated", "checked", "there"}
         /\ call[t].at \in {"allocated", "checked", "there"} \/ Takes(t) => LockKeeps(t, Error)
         /\ lock' = [lock EXCEPT !.owner = t] => lock' \in LockType /\ lock'.owner = t
<1>1. Idle \in Call /\ Error \in Call
  BY DEF Call
<1>2. /\ ~HasOne(Idle) /\ Idle.at \notin {"allocated", "checked", "there"}
      /\ ~HasOne(Error) /\ Error.at \notin {"allocated", "checked", "there"}
  BY DEF HasOne, Idle, Error
<1>3. lock \in LockType
  BY DEF Types, TypeOK, LockType
<1>4. Given \in LockType
  BY <1>3 DEF Given, LockType
<1>5. lock' = [lock EXCEPT !.owner = t] => lock' \in LockType /\ lock'.owner = t
  BY <1>3 DEF LockType
<1> QED
  BY <1>1, <1>2, <1>4, <1>5 DEF LockKeeps

------------------------------------------------------------------------------
(* Every step keeps the invariant.                                         *)

LEMMA CallKinds ==
  ASSUME NEW c \in Call
  PROVE  /\ c.op = "open" /\ c.at = "start" =>
              c \in FdCall \union [op : {"open"}, at : {"start"}, path : Path, create : BOOLEAN]
         /\ c.op = "truncate" \/ c.at \in {"allocated", "opened", "close"} => c \in FdCall
         /\ c.op \in {"move", "use", "close"} =>
              c \in [op : {"move", "use", "close"}, at : {"start"}, fd : Nat]
         /\ c.op = "transfer" /\ c.at = "start" => c \in SeekCall
         /\ c.at = "there" => c \in SavedCall
         /\ c.at = "checked" => c.op \in {"stat", "unlink", "mkdir", "rmdir", "rename"}
         /\ c.op \in {"stat", "unlink", "mkdir", "rmdir", "rename"} =>
              c.at \in {"start", "checked"} /\ c.path \in Path
         /\ c.op = "rename" => c.to \in Path
         /\ c.at = "skip" => c.op \in {"opendir", "rewinddir", "closedir", "telldir",
                                       "readdir", "seekdir"}
<1>2. CASE c \in {Idle, Error}
  BY <1>2 DEF Idle, Error
<1>3. CASE c \in [op : {"open"}, at : {"start"}, path : Path, create : BOOLEAN]
  BY <1>3
<1>4. CASE c \in FdCall
  BY <1>4 DEF FdCall
<1>5. CASE c \in [op : {"move", "use", "close"}, at : {"start"}, fd : Nat]
  BY <1>5
<1>6. CASE c \in SeekCall
  BY <1>6 DEF SeekCall
<1>7. CASE c \in SavedCall
  BY <1>7 DEF SavedCall
<1>8. CASE c \in [op : {"stat", "unlink", "mkdir", "rmdir"}, at : {"start", "checked"}, path : Path]
  BY <1>8
<1>9. CASE c \in [op : {"rename"}, at : {"start", "checked"}, path : Path, to : Path]
  BY <1>9
<1>10. CASE c \in [op : {"opendir", "rewinddir", "closedir", "telldir", "readdir", "seekdir"},
                   at : {"start", "skip"}]
  BY <1>10
<1>11. \/ c \in {Idle, Error} \/ c \in FdCall \/ c \in SeekCall \/ c \in SavedCall
       \/ c \in [op : {"open"}, at : {"start"}, path : Path, create : BOOLEAN]
       \/ c \in [op : {"move", "use", "close"}, at : {"start"}, fd : Nat]
       \/ c \in [op : {"stat", "unlink", "mkdir", "rmdir"}, at : {"start", "checked"}, path : Path]
       \/ c \in [op : {"rename"}, at : {"start", "checked"}, path : Path, to : Path]
       \/ c \in [op : {"opendir", "rewinddir", "closedir", "telldir", "readdir", "seekdir"},
                 at : {"start", "skip"}]
  BY Zenon DEF Call
<1> QED
  BY <1>2, <1>3, <1>4, <1>5, <1>6, <1>7, <1>8, <1>9, <1>10, <1>11

\* A call returns, or goes on, and leaves the files alone.
LEMMA PlainReturn ==
  ASSUME TInv, NEW t \in Task, Takes(t) \/ call[t].at \in {"allocated", "checked", "there"},
         Returns(t), FilesKeep, TableKeeps, tree' \in TreeType
  PROVE  TInv'
<1>1. Types
  BY DEF TInv
<1>2. Idle \in Call /\ FdKeeps(call[t], Idle) /\ LockKeeps(t, Idle) /\ Given \in LockType
  BY <1>1, ReturnsIs DEF FdKeeps
<1>3. call' = [call EXCEPT ![t] = Idle] /\ lock' = Given
  BY DEF Returns
<1> QED
  BY <1>2, <1>3, CallStep

LEMMA ErrorReturn ==
  ASSUME TInv, NEW t \in Task, Takes(t) \/ call[t].at \in {"allocated", "checked", "there"},
         GoesOn(t, Error), FilesKeep, TableKeeps, tree' \in TreeType
  PROVE  TInv'
<1>1. Types
  BY DEF TInv
<1>2. Error \in Call /\ FdKeeps(call[t], Error) /\ LockKeeps(t, Error) /\ Given \in LockType
  BY <1>1, ReturnsIs DEF FdKeeps
<1>3. call' = [call EXCEPT ![t] = Error] /\ lock' = Given
  BY DEF GoesOn
<1> QED
  BY <1>2, <1>3, CallStep

LEMMA SameFilesKeep ==
  ASSUME Types, UNCHANGED files
  PROVE  FilesKeep
  BY DEF Types, TypeOK, FilesKeep, FileRec

LEMMA SameTableKeeps ==
  ASSUME UNCHANGED <<cache, list, fd_count>>
  PROVE  TableKeeps
  BY DEF TableKeeps

LEMMA SameTree ==
  ASSUME Types, UNCHANGED tree
  PROVE  tree' \in TreeType
  BY DEF Types, TypeOK, TreeType

LEMMA NoMemoryKeeps == ASSUME TInv, NEW t \in Task, NoMemory(t) PROVE TInv'
<1>1. FilesKeep /\ tree' \in TreeType
  BY SameFilesKeep, SameTree DEF NoMemory, TInv
<1>2. TableKeeps
  BY DEF NoMemory, TableKeeps
<1> QED
  BY <1>1, <1>2, PlainReturn DEF NoMemory

LEMMA OpenAllocateKeeps == ASSUME TInv, NEW t \in Task, OpenAllocate(t) PROVE TInv'
<1> USE DEF TInv
<1> DEFINE k == FirstFree(Grown)
           c == call[t]
           d == [op |-> c.op, at |-> "allocated", path |-> c.path, create |-> c.create, fd |-> k]
<1>1. PICK f \in File : f \notin Range(list) /\ AllocateFd(f) /\ Holds(t, d)
  BY DEF OpenAllocate
<1>2. /\ Takes(t) /\ UNCHANGED <<tree, files>>
      /\ c \in FdCall \union [op : {"open"}, at : {"start"}, path : Path, create : BOOLEAN]
  <2>1. c \in Call
    BY DEF Types
  <2> QED
    BY <2>1, CallKinds DEF OpenAllocate, Calls
<1>3. /\ Table' /\ cache' \in Seq(File \union {Null}) /\ list' \in Seq(File) /\ fd_count' \in Nat
      /\ k \in Nat /\ k \in DOMAIN cache' /\ cache'[k] = f /\ files[f] = NoFile /\ k \notin HeldAt
      /\ \A i \in HeldAt : i \in DOMAIN cache' /\ cache'[i] = cache[i]
  BY <1>1, <1>2, AllocateKeeps
<1> HIDE DEF k
<1>4. d \in FdCall /\ d.at = "allocated" /\ d.fd = k
  BY <1>2, <1>3 DEF FdCall
<1> HIDE DEF d
<1>5. call' = [call EXCEPT ![t] = d] /\ lock' = [lock EXCEPT !.owner = t]
  BY <1>1 DEF Holds
<1>6. d \in Call
  BY <1>4 DEF Call
<1>7. LockHeld' /\ lock' \in LockType
  BY <1>2, <1>5, <1>6, LockStep, ReturnsIs DEF LockKeeps
<1>8. call' \in [Task -> Call] /\ call'[t] = d /\ \A u \in Task : u # t => call'[u] = call[u]
  BY <1>5, <1>6, NextCall
<1>9. Types'
  BY <1>2, <1>3, <1>7, <1>8 DEF Types, TypeOK, LockType
<1>10. Held'
  <2> SUFFICES ASSUME NEW u \in Task, HasOne(call'[u])
               PROVE  /\ call'[u].fd \in DOMAIN cache' /\ cache'[call'[u].fd] # Null
                      /\ files'[cache'[call'[u].fd]].open <=> call'[u].at # "allocated"
    BY DEF Held
  <2>1. CASE u = t
    BY <2>1, <1>2, <1>3, <1>4, <1>8 DEF NoFile, Null, File
  <2>2. CASE u # t
    <3>1. call'[u] = call[u] /\ call[u].fd \in HeldAt
      BY <2>2, <1>8 DEF Held, HeldAt
    <3> QED
      BY <3>1, <1>2, <1>3 DEF Held, HeldAt
  <2> QED
    BY <2>1, <2>2
<1>11. Apart'
  <2>1. \A u \in Task : u # t /\ HasOne(call[u]) => call[u].fd # k
    BY <1>3 DEF Held, HeldAt
  <2> QED
    BY <2>1, <1>4, <1>8 DEF Apart
<1> QED
  BY <1>3, <1>7, <1>9, <1>10, <1>11

\* A step that changes one descriptor and its file.
OneChanged(fd) ==
  /\ Table'
  /\ cache' \in Seq(File \union {Null}) /\ list' \in Seq(File) /\ fd_count' \in Nat
  /\ files' \in [File -> FileRec] /\ DOMAIN cache' = DOMAIN cache
  /\ \A i \in DOMAIN cache : i # fd => cache'[i] = cache[i]
  /\ \A i \in HeldAt : i # fd => files'[cache[i]] = files[cache[i]]

\* A call that alone has a descriptor gives it up and returns.
LEMMA GiveUp ==
  ASSUME TInv, NEW t \in Task, HasOne(call[t]), Sole(call[t]), OneChanged(call[t].fd), Returns(t),
         Takes(t) \/ call[t].at \in {"allocated", "checked", "there"}, UNCHANGED tree
  PROVE  TInv'
<1> USE DEF TInv
<1> DEFINE fd == call[t].fd
<1>2. /\ Table'
      /\ cache' \in Seq(File \union {Null}) /\ list' \in Seq(File) /\ fd_count' \in Nat
      /\ files' \in [File -> FileRec] /\ DOMAIN cache' = DOMAIN cache
      /\ \A i \in DOMAIN cache : i # fd => cache'[i] = cache[i]
      /\ \A i \in HeldAt : i # fd => files'[cache[i]] = files[cache[i]]
  BY DEF OneChanged
<1>3. Idle \in Call /\ ~HasOne(Idle) /\ LockKeeps(t, Idle) /\ Given \in LockType
  BY ReturnsIs
<1>4. call' = [call EXCEPT ![t] = Idle] /\ lock' = Given
  BY DEF Returns
<1>5. call' \in [Task -> Call] /\ call'[t] = Idle /\ \A u \in Task : u # t => call'[u] = call[u]
  BY <1>3, <1>4, NextCall
<1>6. LockHeld'
  BY <1>3, <1>4, LockStep
<1>7. Types'
  BY <1>2, <1>3, <1>4, <1>5 DEF Types, TypeOK, LockType, FileRec
<1>8. ASSUME NEW u \in Task, HasOne(call'[u])
      PROVE  u # t /\ call'[u] = call[u] /\ call[u].fd \in HeldAt /\ call[u].fd # fd
  <2>1. u # t
    BY <1>3, <1>5, <1>8
  <2>2. call'[u] = call[u]
    BY <1>5, <2>1
  <2> QED
    BY <1>8, <2>1, <2>2 DEF Held, HeldAt, Apart
<1>9. Held'
  <2> SUFFICES ASSUME NEW u \in Task, HasOne(call'[u])
               PROVE  /\ call'[u].fd \in DOMAIN cache' /\ cache'[call'[u].fd] # Null
                      /\ files'[cache'[call'[u].fd]].open <=> call'[u].at # "allocated"
    BY DEF Held
  <2>1. u # t /\ call'[u] = call[u] /\ call[u].fd \in HeldAt /\ call[u].fd # fd
    BY <1>8
  <2> QED
    BY <2>1, <1>2 DEF Held, HeldAt
<1>10. Apart'
  <2> SUFFICES ASSUME NEW u \in Task, NEW v \in Task,
                      u # v, HasOne(call'[u]), HasOne(call'[v]), Sole(call'[u])
               PROVE  call'[u].fd # call'[v].fd
    BY DEF Apart
  <2>1. call'[u] = call[u] /\ call'[v] = call[v]
    BY <1>8
  <2> QED
    BY <2>1 DEF Apart
<1> QED
  BY <1>2, <1>6, <1>7, <1>9, <1>10

LEMMA FreeReturn ==
  ASSUME TInv, NEW t \in Task, HasOne(call[t]), Sole(call[t]), FreeFd(call[t].fd), Returns(t),
         Takes(t) \/ call[t].at \in {"allocated", "checked", "there"}, UNCHANGED tree
  PROVE  TInv'
<1>1. call[t].fd \in DOMAIN cache /\ cache[call[t].fd] # Null
  BY DEF TInv, Held
<1>2. OneChanged(call[t].fd)
  BY <1>1, FreeKeeps DEF OneChanged, TInv
<1> QED
  BY <1>2, GiveUp

LEMMA OpenFailsKeeps == ASSUME TInv, NEW t \in Task, OpenFails(t) PROVE TInv'
  BY FreeReturn DEF OpenFails, HasOne, Sole

\* The file of a call's descriptor.
LEMMA FileOf ==
  ASSUME TInv, NEW t \in Task, HasOne(call[t])
  PROVE  LET f == cache[call[t].fd]
         IN  /\ call[t].fd \in HeldAt /\ f \in File /\ files[f] \in FileRec
             /\ f \in Range(list)
             /\ call[t].at # "allocated" => files[f].open /\ files[f] # NoFile
<1> USE DEF TInv
<1>1. call[t].fd \in HeldAt
  BY DEF Held, HeldAt
<1>2. cache[call[t].fd] \in File /\ cache[call[t].fd] \in Range(list)
  BY <1>1, HeldCount DEF Types, TypeOK, HeldAt
<1>3. files[cache[call[t].fd]] \in FileRec
  BY <1>2 DEF Types, TypeOK, FileRec
<1> QED
  BY <1>1, <1>2, <1>3 DEF Held, NoFile

LEMMA OpenFileKeeps == ASSUME TInv, NEW t \in Task, OpenFile(t) PROVE TInv'
<1> USE DEF TInv
<1> DEFINE c == call[t]
           p == c.path
           f == cache[c.fd]
           r == [path |-> p, is |-> p, pos |-> 0, open |-> TRUE]
<1>1. c \in FdCall /\ c.at = "allocated" /\ HasOne(c) /\ Sole(c)
  <2>1. c \in Call /\ c.at = "allocated"
    BY DEF Types, OpenFile
  <2> QED
    BY <2>1, CallKinds DEF HasOne, Sole
<1>2. c.fd \in HeldAt /\ f \in File /\ p \in Path /\ f \in Range(list)
  BY <1>1, FileOf DEF FdCall
<1>3. files' = [files EXCEPT ![f] = r] /\ UNCHANGED <<cache, list, fd_count>>
  BY DEF OpenFile
<1>4. r \in FileRec /\ r.open
  BY <1>2, PathKinds, VfsAssumption DEF FileRec, Place
<1> HIDE DEF r
<1>5. /\ files' \in [File -> FileRec] /\ files'[f] = r
      /\ \A g \in File : g # f => files'[g] = files[g]
  BY <1>2, <1>3, <1>4 DEF Types, TypeOK, FileRec
<1>6. tree' \in TreeType
  <2>1. tree \in TreeType
    BY DEF Types, TypeOK, TreeType
  <2> QED
    BY <1>2, <2>1 DEF OpenFile, TreeType
<1> DEFINE d == IF c.op = "open" THEN Idle ELSE [c EXCEPT !.at = "opened"]
<1>7. /\ d \in Call /\ LockKeeps(t, d) /\ call' = [call EXCEPT ![t] = d] /\ lock' = Given
      /\ HasOne(d) => d.fd = c.fd /\ d.at # "allocated"
  <2>1. CASE c.op = "open"
    BY <2>1, <1>1, ReturnsIs DEF OpenFile, Returns
  <2>2. CASE c.op # "open"
    <3>1. [c EXCEPT !.at = "opened"].at = "opened" /\ [c EXCEPT !.at = "opened"] \in FdCall
          /\ [c EXCEPT !.at = "opened"].fd = c.fd
      BY <1>1, <2>2 DEF FdCall
    <3>2. [c EXCEPT !.at = "opened"] \in Call
      BY <3>1 DEF Call
    <3> QED
      BY <2>2, <3>1, <3>2, <1>1 DEF OpenFile, GoesOn, LockKeeps
  <2> QED
    BY <2>1, <2>2
<1> HIDE DEF d
<1>8. call' \in [Task -> Call] /\ call'[t] = d /\ \A u \in Task : u # t => call'[u] = call[u]
  BY <1>7, NextCall
<1>9. LockHeld' /\ lock' \in LockType
  BY <1>7, LockStep, ReturnsIs
<1>10. Table'
  <2>1. OthersBlank'
    BY <1>2, <1>3, <1>5 DEF Table, OthersBlank, Range
  <2> QED
    BY <2>1, <1>3 DEF Table, OncePerTable, SameFiles
<1>11. Types'
  BY <1>3, <1>5, <1>6, <1>8, <1>9 DEF Types, TypeOK, FileRec, LockType, TreeType
<1>12. \A u \in Task : u # t /\ HasOne(call[u]) => call[u].fd \in HeldAt /\ call[u].fd # c.fd
  BY <1>1 DEF Apart, Held, HeldAt
<1>13. \A i \in HeldAt : i # c.fd => cache[i] # f /\ cache[i] \in File
  BY <1>2 DEF Table, OncePerTable, HeldAt, Types, TypeOK
<1>14. Held'
  <2> SUFFICES ASSUME NEW u \in Task, HasOne(call'[u])
               PROVE  /\ call'[u].fd \in DOMAIN cache' /\ cache'[call'[u].fd] # Null
                      /\ files'[cache'[call'[u].fd]].open <=> call'[u].at # "allocated"
    BY DEF Held
  <2>1. CASE u = t
    BY <2>1, <1>2, <1>3, <1>4, <1>5, <1>7, <1>8 DEF HeldAt
  <2>2. CASE u # t
    BY <2>2, <1>3, <1>5, <1>8, <1>12, <1>13 DEF Held, HeldAt
  <2> QED
    BY <2>1, <2>2
<1>15. Apart'
  <2> SUFFICES ASSUME NEW u \in Task, NEW v \in Task,
                      u # v, HasOne(call'[u]), HasOne(call'[v]), Sole(call'[u])
               PROVE  call'[u].fd # call'[v].fd
    BY DEF Apart
  <2>1. CASE u = t
    BY <2>1, <1>7, <1>8, <1>12
  <2>2. CASE v = t
    BY <2>2, <1>7, <1>8, <1>12
  <2>3. CASE u # t /\ v # t
    BY <2>3, <1>8 DEF Apart
  <2> QED
    BY <2>1, <2>2, <2>3
<1> QED
  BY <1>9, <1>10, <1>11, <1>14, <1>15

LEMMA TruncateOpenedKeeps == ASSUME TInv, NEW t \in Task, TruncateOpened(t) PROVE TInv'
<1> DEFINE c == call[t]
           d == [c EXCEPT !.at = "close"]
<1>1. c \in FdCall /\ c.at = "opened"
  <2>1. c \in Call /\ c.at = "opened"
    BY DEF TInv, Types, TruncateOpened
  <2> QED
    BY <2>1, CallKinds
<1>2. d \in FdCall /\ d.at = "close" /\ d.fd = c.fd /\ d.op = c.op
  BY <1>1 DEF FdCall
<1>3. d \in Call
  BY <1>2 DEF Call
<1>4. call' = [call EXCEPT ![t] = d] /\ lock' = Given /\ Takes(t)
  BY DEF TruncateOpened, GoesOn
<1> HIDE DEF d
<1>5. FdKeeps(c, d) /\ LockKeeps(t, d)
  BY <1>1, <1>2, <1>4 DEF FdKeeps, LockKeeps, HasOne, Sole
<1>6. FilesKeep /\ TableKeeps /\ tree' \in TreeType
  BY SameFilesKeep, SameTableKeeps, SameTree DEF TruncateOpened, TInv
<1>7. lock' \in LockType
  BY <1>4, ReturnsIs DEF TInv
<1> QED
  BY <1>3, <1>4, <1>5, <1>6, <1>7, CallStep

\* A change of where a file is, or of its place.
LEMMA FileChange ==
  ASSUME Types, NEW f \in File, NEW r \in FileRec, r.open = files[f].open,
         files[f] = NoFile => r = NoFile, files' = [files EXCEPT ![f] = r]
  PROVE  FilesKeep
  BY DEF Types, TypeOK, FilesKeep, FileRec

LEMMA CloseKeeps == ASSUME TInv, NEW t \in Task, Close(t) PROVE TInv'
<1> DEFINE c == call[t]
           f == cache[c.fd]
<1>1. HasOne(c) /\ Sole(c) /\ Takes(t) /\ Returns(t) /\ UNCHANGED tree /\ c.at # "allocated"
  <2>1. c \in Call
    BY DEF TInv, Types
  <2>2. c.at \in {"start", "close"} /\ (c.op = "close" \/ c.at = "close")
    BY DEF Close, Calls
  <2>3. c.at = "close" => c.op = "truncate"
    BY <2>1, CallKinds DEF FdCall
  <2> QED
    BY <2>2, <2>3 DEF Close, HasOne, Sole
<1>2. CASE FreeFd(c.fd)
  BY <1>1, <1>2, FreeReturn
<1>3. CASE /\ files' = [files EXCEPT ![f] = [@ EXCEPT !.is = NoPath, !.open = FALSE]]
           /\ UNCHANGED <<cache, list, fd_count>>
  <2>1. c.fd \in HeldAt /\ f \in File /\ f \in Range(list) /\ Types /\ Table
        /\ files \in [File -> FileRec]
    BY <1>1, FileOf DEF TInv, Types, TypeOK, FileRec
  <2>2. [files[f] EXCEPT !.is = NoPath, !.open = FALSE] \in FileRec
    BY <2>1 DEF FileRec
  <2>3. files' \in [File -> FileRec] /\ \A g \in File : g # f => files'[g] = files[g]
    BY <1>3, <2>1, <2>2
  <2>4. \A i \in HeldAt : i # c.fd => cache[i] # f /\ cache[i] \in File
    BY <2>1 DEF Table, OncePerTable, HeldAt, Types, TypeOK
  <2>5. Table'
    <3>1. OthersBlank'
      BY <1>3, <2>1, <2>3 DEF Table, OthersBlank, Range
    <3> QED
      BY <3>1, <1>3, <2>1 DEF Table, OncePerTable, SameFiles
  <2>6. OneChanged(c.fd)
    BY <1>3, <2>1, <2>3, <2>4, <2>5 DEF OneChanged, Types, TypeOK
  <2> QED
    BY <1>1, <2>6, GiveUp
<1> QED
  BY <1>2, <1>3 DEF Close

\* The place of a call's file.
LEMMA MovesKeep ==
  ASSUME TInv, NEW t \in Task, HasOne(call[t]), call[t].at # "allocated", NEW n \in Place,
         MovesTo(call[t].fd, n)
  PROVE  FilesKeep
<1> DEFINE f == cache[call[t].fd]
<1>1. f \in File /\ files[f] \in FileRec /\ files[f] # NoFile
  BY FileOf
<1>2. [files[f] EXCEPT !.pos = n] \in FileRec /\ [files[f] EXCEPT !.pos = n].open = files[f].open
  BY <1>1 DEF FileRec
<1> QED
  BY <1>1, <1>2, FileChange DEF MovesTo, TInv

LEMMA PlaceIs ==
  ASSUME TInv, NEW t \in Task, HasOne(call[t])
  PROVE  PlaceOf(call[t].fd) \in Place
  BY FileOf DEF PlaceOf, FileRec

LEMMA UseKeeps == ASSUME TInv, NEW t \in Task, Use(t) PROVE TInv'
<1>1. TableKeeps /\ tree' \in TreeType /\ Takes(t) /\ Types
  BY SameTableKeeps, SameTree DEF Use, TInv
<1>2. CASE Returns(t) /\ UNCHANGED files
  BY <1>1, <1>2, SameFilesKeep, PlainReturn
<1>3. CASE /\ call[t].op = "use" /\ GoesOn(t, Error)
           /\ \E n \in Place : MovesTo(call[t].fd, n)
  <2>1. HasOne(call[t]) /\ call[t].at # "allocated"
    BY <1>3 DEF HasOne, Use, Calls
  <2>2. FilesKeep
    BY <1>3, <2>1, MovesKeep
  <2> QED
    BY <1>1, <1>3, <2>2, ErrorReturn
<1> QED
  BY <1>2, <1>3 DEF Use

LEMMA MoveKeeps == ASSUME TInv, NEW t \in Task, Move(t) PROVE TInv'
<1>1. HasOne(call[t]) /\ call[t].at = "start"
  BY DEF Move, Calls, HasOne
<1>3. FilesKeep
  BY <1>1, MovesKeep DEF Move
<1> QED
  BY <1>3, SameTableKeeps, SameTree, PlainReturn DEF Move, TInv

LEMMA TransferBeginKeeps == ASSUME TInv, NEW t \in Task, TransferBegin(t) PROVE TInv'
<1> DEFINE c == call[t]
<1>1. HasOne(c) /\ c.at = "start" /\ c \in SeekCall /\ c.op = "transfer" /\ Takes(t)
  <2>1. c \in Call /\ c.op = "transfer" /\ c.at = "start" /\ Takes(t)
    BY DEF TransferBegin, Calls, TInv, Types
  <2> QED
    BY <2>1, CallKinds DEF HasOne
<1>2. TableKeeps /\ tree' \in TreeType
  BY SameTableKeeps, SameTree DEF TransferBegin, TInv
<1> DEFINE d == [op |-> c.op, at |-> "there", fd |-> c.fd, to |-> c.to,
                 saved |-> PlaceOf(c.fd)]
<1>3. CASE Holds(t, d) /\ MovesTo(c.fd, c.to)
  <2>1. call' = [call EXCEPT ![t] = d] /\ lock' = [lock EXCEPT !.owner = t] /\ MovesTo(c.fd, c.to)
    BY <1>3 DEF Holds
  <2>2. d \in SavedCall /\ d.at = "there" /\ d.fd = c.fd /\ d.op = "transfer"
    BY <1>1, PlaceIs DEF SavedCall, SeekCall
  <2> HIDE DEF d
  <2>3. lock' \in LockType /\ lock'.owner = t
    BY <2>1, ReturnsIs DEF TInv
  <2>4. d \in Call /\ FdKeeps(c, d) /\ LockKeeps(t, d)
    BY <1>1, <2>2, <2>3 DEF Call, FdKeeps, LockKeeps, HasOne, Sole
  <2>5. FilesKeep
    BY <1>1, <2>1, MovesKeep DEF SeekCall
  <2> QED
    BY <1>2, <2>1, <2>3, <2>4, <2>5, CallStep
<1>4. CASE /\ call' = [call EXCEPT ![t] = Error] /\ lock' = [owner |-> t, leaked |-> TRUE]
           /\ \E n \in Place : MovesTo(c.fd, n)
  <2>1. Error \in Call /\ FdKeeps(c, Error) /\ LockKeeps(t, Error)
    BY <1>1, ReturnsIs DEF TInv, FdKeeps
  <2>2. FilesKeep /\ lock' \in LockType
    BY <1>1, <1>4, MovesKeep DEF LockType
  <2> QED
    BY <1>2, <1>4, <2>1, <2>2, CallStep
<1> QED
  BY <1>3, <1>4 DEF TransferBegin

LEMMA TransferEndKeeps == ASSUME TInv, NEW t \in Task, TransferEnd(t) PROVE TInv'
<1>1. HasOne(call[t]) /\ call[t].at = "there" /\ call[t].saved \in Place
  <2>1. call[t] \in Call /\ call[t].at = "there"
    BY DEF TransferEnd, TInv, Types
  <2>2. call[t] \in SavedCall
    BY <2>1, CallKinds
  <2> QED
    BY <2>1, <2>2 DEF SavedCall, HasOne
<1>2. \E n \in Place : MovesTo(call[t].fd, n)
  BY <1>1 DEF TransferEnd
<1>3. FilesKeep /\ TableKeeps /\ tree' \in TreeType
  BY <1>1, <1>2, MovesKeep, SameTableKeeps, SameTree DEF TransferEnd, TInv
<1> QED
  BY <1>1, <1>3, PlainReturn, ErrorReturn DEF TransferEnd

LEMMA CheckNamesKeeps == ASSUME TInv, NEW t \in Task, CheckNames(t) PROVE TInv'
<1> DEFINE c == call[t]
           d == [c EXCEPT !.at = "checked"]
<1>1. FilesKeep /\ TableKeeps /\ tree' \in TreeType /\ Takes(t)
  BY SameFilesKeep, SameTableKeeps, SameTree DEF CheckNames, TInv
<1>2. CASE Returns(t)
  BY <1>1, <1>2, PlainReturn
<1>3. CASE Holds(t, d)
  <2>1. c \in Call /\ c.op \in {"unlink", "rename"}
    BY DEF CheckNames, Calls, TInv, Types
  <2>2. d \in Call /\ d.at = "checked" /\ d.op = c.op
    BY <2>1, NextPlace
  <2>3. call' = [call EXCEPT ![t] = d] /\ lock' = [lock EXCEPT !.owner = t]
    BY <1>3 DEF Holds
  <2>4. lock' \in LockType /\ lock'.owner = t
    BY <2>3, ReturnsIs DEF TInv
  <2>5. FdKeeps(c, d) /\ LockKeeps(t, d)
    BY <1>1, <2>1, <2>2, <2>4 DEF FdKeeps, LockKeeps, HasOne
  <2> QED
    BY <1>1, <2>2, <2>3, <2>4, <2>5, CallStep
<1> QED
  BY <1>2, <1>3 DEF CheckNames

LEMMA NamesRefusedKeeps == ASSUME TInv, NEW t \in Task, NamesRefused(t) PROVE TInv'
  BY SameFilesKeep, SameTableKeeps, SameTree, PlainReturn DEF NamesRefused, TInv

\* The path of a call that names one.
LEMMA PathOf ==
  ASSUME Types, NEW t \in Task, call[t].op \in {"stat", "unlink", "mkdir", "rmdir", "rename"}
  PROVE  call[t].path \in Path /\ (call[t].op = "rename" => call[t].to \in Path)
<1>1. call[t] \in Call
  BY DEF Types
<1> QED
  BY <1>1, CallKinds

LEMMA RemovedKeeps ==
  ASSUME Types, NEW p \in Path, Removed(p)
  PROVE  FilesKeep /\ tree' \in TreeType
<1>1. files \in [File -> FileRec] /\ tree \in TreeType
  BY DEF Types, TypeOK, FileRec, TreeType
<1>2. \A f \in File : files'[f] = IF files[f].is = p THEN [files[f] EXCEPT !.is = NoPath]
                                  ELSE files[f]
  BY DEF Removed
<1>3. \A r \in FileRec : [r EXCEPT !.is = NoPath] \in FileRec /\ [r EXCEPT !.is = NoPath].open = r.open
  BY DEF FileRec
<1>4. NoFile.is # p
  BY PathKinds DEF NoFile
<1>5. files' \in [File -> FileRec]
  BY <1>1, <1>2, <1>3 DEF Removed
<1>6. tree' \in TreeType
  BY <1>1 DEF Removed, TreeType
<1> QED
  BY <1>1, <1>2, <1>3, <1>4, <1>5, <1>6 DEF FilesKeep

LEMMA UnlinkKeeps == ASSUME TInv, NEW t \in Task, Unlink(t) PROVE TInv'
<1>1. call[t].path \in Path
  BY PathOf DEF Unlink, TInv
<1>2. FilesKeep /\ tree' \in TreeType
  BY <1>1, RemovedKeeps DEF Unlink, TInv
<1> QED
  BY <1>2, SameTableKeeps, PlainReturn DEF Unlink

LEMMA RmdirKeeps == ASSUME TInv, NEW t \in Task, Rmdir(t) PROVE TInv'
<1>1. call[t].path \in Path
  BY PathOf DEF Rmdir, Calls, TInv
<1>2. FilesKeep /\ tree' \in TreeType
  BY <1>1, RemovedKeeps DEF Rmdir, TInv
<1> QED
  BY <1>2, SameTableKeeps, PlainReturn DEF Rmdir

LEMMA MkdirKeeps == ASSUME TInv, NEW t \in Task, Mkdir(t) PROVE TInv'
<1>1. FilesKeep
  BY SameFilesKeep DEF Mkdir, TInv
<1>2. tree' \in TreeType
  <2>1. tree \in TreeType
    BY DEF TInv, Types, TypeOK, TreeType
  <2> QED
    BY <2>1 DEF Mkdir, TreeType
<1> QED
  BY <1>1, <1>2, SameTableKeeps, PlainReturn DEF Mkdir

\* Where a path is after a rename.
LEMMA MovedIs ==
  ASSUME NEW p \in Path, NEW q \in Path, NEW r \in Path \union {NoPath}
  PROVE  Moved(r, p, q) \in Path \union {NoPath} /\ Moved(NoPath, p, q) = NoPath
  BY PathKinds, BelowIs DEF Moved

LEMMA RenameKeeps == ASSUME TInv, NEW t \in Task, Rename(t) PROVE TInv'
<1> DEFINE p == call[t].path
           q == call[t].to
<1>1. p \in Path /\ q \in Path
  BY PathOf DEF Rename, TInv
<1> HIDE DEF p, q
<1>2. files \in [File -> FileRec] /\ tree \in TreeType
  BY DEF TInv, Types, TypeOK, FileRec, TreeType
<1>3. FilesKeep
  <2>1. files' = [f \in File |-> [files[f] EXCEPT !.is = Moved(@, p, q)]]
    BY DEF Rename, p, q
  <2>2. ASSUME NEW f \in File
        PROVE  /\ files'[f] \in FileRec /\ files'[f].open = files[f].open
               /\ files[f] = NoFile => files'[f] = NoFile
    <3>1. files[f] \in FileRec /\ files'[f] = [files[f] EXCEPT !.is = Moved(files[f].is, p, q)]
      BY <1>2, <2>1
    <3>2. Moved(files[f].is, p, q) \in Path \union {NoPath}
      BY <1>1, <3>1, MovedIs DEF FileRec
    <3>3. files[f] = NoFile => Moved(files[f].is, p, q) = NoPath
      BY <1>1, MovedIs DEF NoFile
    <3> QED
      BY <3>1, <3>2, <3>3 DEF FileRec, NoFile
  <2> QED
    BY <2>1, <2>2 DEF FilesKeep
<1>4. tree' \in TreeType
  <2>1. tree' = [r \in Path |-> IF r = q THEN tree[p]
                                ELSE IF r = Below(q) /\ Below(p) # NoPath THEN tree[Below(p)]
                                ELSE IF r \in {p, Below(p)} THEN "none" ELSE tree[r]]
    BY DEF Rename, p, q
  <2>2. Below(p) # NoPath => Below(p) \in Path
    BY <1>1, BelowIs
  <2> QED
    BY <1>1, <1>2, <2>1, <2>2 DEF TreeType
<1> QED
  BY <1>3, <1>4, SameTableKeeps, PlainReturn DEF Rename

\* Steps on a stream change neither tree nor table.
LEMMA DirStepIs ==
  ASSUME Types, NEW t \in Task, NEW d, DirStep(t, d)
  PROVE  FilesKeep /\ TableKeeps /\ tree' \in TreeType
  BY SameFilesKeep, SameTableKeeps, SameTree DEF DirStep

LEMMA DirReturnsKeep ==
  ASSUME TInv, NEW t \in Task, OpenDir(t) \/ CloseDir(t) \/ ReadDir(t)
  PROVE  TInv'
<1>1. FilesKeep /\ TableKeeps /\ tree' \in TreeType
  BY DirStepIs DEF OpenDir, CloseDir, ReadDir, TInv
<1> QED
  BY <1>1, PlainReturn DEF OpenDir, CloseDir, ReadDir

LEMMA DirIdleKeeps ==
  ASSUME TInv, NEW t \in Task, TellDir(t) \/ SeekOver(t)
  PROVE  TInv'
<1>1. FilesKeep /\ TableKeeps /\ tree' \in TreeType
  BY DirStepIs DEF TellDir, SeekOver, TInv
<1>2. call' = [call EXCEPT ![t] = Idle] /\ lock' = lock
  BY DEF TellDir, SeekOver
<1>3. Idle \in Call /\ FdKeeps(call[t], Idle) /\ LockKeeps(t, Idle) /\ lock' \in LockType
  BY <1>2, ReturnsIs DEF FdKeeps, LockKeeps, TInv, Types, TypeOK, LockType
<1> QED
  BY <1>1, <1>2, <1>3, CallStep

LEMMA SeekDirKeeps == ASSUME TInv, NEW t \in Task, SeekDir(t) PROVE TInv'
<1> DEFINE c == call[t]
           d == [c EXCEPT !.at = "skip"]
<1>1. FilesKeep /\ TableKeeps /\ tree' \in TreeType
  BY DirStepIs DEF SeekDir, TInv
<1>2. c \in Call /\ c.op \in {"seekdir", "rewinddir"}
  BY DEF SeekDir, Calls, TInv, Types
<1>3. d \in Call /\ d.at = "skip" /\ d.op = c.op
  BY <1>2, NextPlace
<1>4. /\ call' = [call EXCEPT ![t] = d]
      /\ lock' = lock \/ (Takes(t) /\ lock' = Given)
  <2>1. call' = [call EXCEPT ![t] = d]
    BY DEF SeekDir
  <2>2. lock' = lock \/ (Takes(t) /\ lock' = Given)
    BY Zenon DEF SeekDir
  <2> QED
    BY <2>1, <2>2
<1>5. FdKeeps(c, d) /\ LockKeeps(t, d)
  BY <1>2, <1>3, <1>4 DEF FdKeeps, LockKeeps, HasOne
<1>6. lock' \in LockType
  BY <1>4, ReturnsIs DEF TInv, Types, TypeOK, LockType
<1> QED
  BY <1>1, <1>3, <1>4, <1>5, <1>6, CallStep

LEMMA SkipEntryKeeps == ASSUME TInv, NEW t \in Task, SkipEntry(t) PROVE TInv'
<1> DEFINE c == call[t]
<1>1. FilesKeep /\ TableKeeps /\ tree' \in TreeType
  BY DirStepIs DEF SkipEntry, TInv
<1>2. c \in Call /\ call \in [Task -> Call]
  BY DEF TInv, Types
<1>3. call' = [call EXCEPT ![t] = c]
  BY <1>2 DEF SkipEntry
<1>4. c.at = "skip" /\ Takes(t) /\ lock' = Given
  BY DEF SkipEntry
<1>5. FdKeeps(c, c) /\ LockKeeps(t, c) /\ lock' \in LockType
  BY <1>4, ReturnsIs DEF FdKeeps, LockKeeps, TInv
<1> QED
  BY <1>1, <1>2, <1>3, <1>5, CallStep

LEMMA UsableIs ==
  ASSUME TInv, NEW fd \in Usable
  PROVE  /\ fd \in Nat /\ fd \in HeldAt /\ files[cache[fd]].open
         /\ \A u \in Task : HasOne(call[u]) /\ Sole(call[u]) => call[u].fd # fd
<1>1. fd \in HeldAt /\ fd \in Nat /\ files[cache[fd]].open
  BY DEF Usable, HeldAt, TInv, Types, TypeOK
<1>2. ASSUME NEW u \in Task, HasOne(call[u]), Sole(call[u])
      PROVE  call[u].fd # fd
  <2>1. CASE call[u].op \in {"close", "truncate"}
    BY <2>1 DEF Usable
  <2>2. CASE call[u].at = "allocated"
    BY <1>1, <1>2, <2>2 DEF TInv, Held
  <2> QED
    BY <1>2, <2>1, <2>2 DEF Sole
<1> QED
  BY <1>1, <1>2

\* What a task asks for.
LEMMA RequestIs ==
  ASSUME TInv, NEW t \in Task, NEW c \in Requests(t)
  PROVE  /\ c \in Call /\ c.at = "start"
         /\ HasOne(c) => /\ c.fd \in Usable
                         /\ c.op \in {"move", "use", "transfer", "close"}
                         /\ Sole(c) => c.fd \in Closable
<1>1. Usable \subseteq Nat /\ Closable \subseteq Usable
  BY UsableIs DEF Closable
<1>2. Opens \subseteq Path /\ Known \subseteq Path
  BY DEF Opens, Known
<1>3. CASE c \in [op : {"open"}, at : {"start"}, path : Opens, create : BOOLEAN]
  <2>1. c \in [op : {"open"}, at : {"start"}, path : Path, create : BOOLEAN]
    BY <1>2, <1>3
  <2> QED
    BY <2>1 DEF Call, HasOne
<1>4. CASE c \in [op : {"truncate"}, at : {"start"}, path : Opens, create : {FALSE}, fd : {Null}]
  <2>1. c \in [op : {"truncate"}, at : {"start"}, path : Path, create : BOOLEAN, fd : Nat]
    <3>1. {FALSE} \subseteq BOOLEAN /\ {Null} \subseteq Nat
      BY DEF Null
    <3> QED
      BY <1>2, <1>4, <3>1
  <2>2. c \in FdCall /\ c.at = "start" /\ c.op = "truncate"
    BY <2>1 DEF FdCall
  <2> QED
    BY <2>2 DEF Call, HasOne
<1>5. CASE c \in [op : {"move", "use"}, at : {"start"}, fd : Usable]
  <2>1. c \in [op : {"move", "use", "close"}, at : {"start"}, fd : Nat] /\ c.fd \in Usable
        /\ c.op \in {"move", "use"}
    BY <1>1, <1>5
  <2> QED
    BY <2>1 DEF Call, HasOne, Sole
<1>6. CASE c \in [op : {"transfer"}, at : {"start"}, fd : Usable, to : Place]
  <2>1. c \in SeekCall /\ c.fd \in Usable /\ c.op = "transfer" /\ c.at = "start"
    BY <1>1, <1>6 DEF SeekCall
  <2> QED
    BY <2>1 DEF Call, HasOne, Sole
<1>7. CASE c \in [op : {"close"}, at : {"start"}, fd : Closable]
  <2>1. c \in [op : {"move", "use", "close"}, at : {"start"}, fd : Nat] /\ c.fd \in Closable
        /\ c.op = "close"
    BY <1>1, <1>7
  <2> QED
    BY <1>1, <2>1 DEF Call, HasOne
<1>8. CASE c \in [op : {"stat", "unlink", "mkdir", "rmdir"}, at : {"start"}, path : Known]
  <2>1. c \in [op : {"stat", "unlink", "mkdir", "rmdir"}, at : {"start", "checked"}, path : Path]
        /\ c.at = "start"
    BY <1>2, <1>8
  <2> QED
    BY <2>1 DEF Call, HasOne
<1>9. CASE c \in [op : {"rename"}, at : {"start"}, path : Known, to : Known]
  <2>1. c \in [op : {"rename"}, at : {"start", "checked"}, path : Path, to : Path]
        /\ c.at = "start"
    BY <1>2, <1>9
  <2> QED
    BY <2>1 DEF Call, HasOne
<1>10. CASE c \in [op : DirCalls(t), at : {"start"}]
  <2>1. DirCalls(t) \subseteq {"opendir", "rewinddir", "closedir", "telldir", "readdir", "seekdir"}
    BY DEF DirCalls
  <2>2. c \in [op : {"opendir", "rewinddir", "closedir", "telldir", "readdir", "seekdir"},
               at : {"start", "skip"}] /\ c.at = "start"
    BY <1>10, <2>1
  <2> QED
    BY <2>2 DEF Call, HasOne
<1> QED
  BY <1>3, <1>4, <1>5, <1>6, <1>7, <1>8, <1>9, <1>10 DEF Requests

LEMMA RequestKeeps == ASSUME TInv, NEW t \in Task, Request(t) PROVE TInv'
<1> USE DEF TInv
<1>1. PICK c \in Requests(t) : call' = [call EXCEPT ![t] = c]
  BY DEF Request
<1>2. UNCHANGED <<tree, files, cache, list, fd_count, lock>>
  BY DEF Request
<1>3. /\ c \in Call /\ c.at = "start"
      /\ HasOne(c) => /\ c.fd \in Usable
                      /\ c.op \in {"move", "use", "transfer", "close"}
                      /\ Sole(c) => c.fd \in Closable
  BY RequestIs
<1>4. call' \in [Task -> Call] /\ call'[t] = c /\ \A u \in Task : u # t => call'[u] = call[u]
  BY <1>1, <1>3, NextCall
<1>5. Types'
  BY <1>2, <1>4 DEF Types, TypeOK
<1>6. Table'
  BY <1>2 DEF Table, OncePerTable, SameFiles, OthersBlank
<1>7. LockHeld'
  BY <1>1, <1>2, <1>3, LockStep DEF LockKeeps
<1>8. HasOne(c) => /\ c.fd \in HeldAt /\ files[cache[c.fd]].open
                   /\ \A u \in Task : HasOne(call[u]) /\ Sole(call[u]) => call[u].fd # c.fd
  BY <1>3, UsableIs
<1>9. Held'
  BY <1>2, <1>3, <1>4, <1>8 DEF Held, HeldAt
<1>10. HasOne(c) /\ Sole(c) => \A u \in Task : HasOne(call[u]) => call[u].fd # c.fd
  <2> SUFFICES ASSUME HasOne(c), Sole(c), NEW u \in Task, HasOne(call[u])
               PROVE  call[u].fd # c.fd
    OBVIOUS
  <2>1. CASE call[u].op \in FdCalls
    BY <2>1, <1>3 DEF Closable
  <2>2. CASE call[u].op \notin FdCalls
    <3>1. call[u].at \in {"allocated", "opened", "close"} /\ call[u] \in Call
      BY <2>2 DEF HasOne, FdCalls, Types
    <3>2. call[u] \in FdCall
      BY <3>1, CallKinds
    <3>3. call[u].at = "allocated"
      BY <3>1, <3>2, <2>2 DEF FdCall, FdCalls
    <3> QED
      BY <1>8, <3>3 DEF Sole
  <2> QED
    BY <2>1, <2>2
<1>11. Apart'
  <2> SUFFICES ASSUME NEW u \in Task, NEW v \in Task,
                      u # v, HasOne(call'[u]), HasOne(call'[v]), Sole(call'[u])
               PROVE  call'[u].fd # call'[v].fd
    BY DEF Apart
  <2>1. CASE u = t
    BY <2>1, <1>4, <1>10
  <2>2. CASE v = t
    BY <2>2, <1>4, <1>8
  <2>3. CASE u # t /\ v # t
    BY <2>3, <1>4 DEF Apart
  <2> QED
    BY <2>1, <2>2, <2>3
<1> QED
  BY <1>5, <1>6, <1>7, <1>9, <1>11

LEMMA InitTable == Init => TInv
<1> SUFFICES ASSUME Init PROVE TInv
  OBVIOUS
<1> USE DEF Init
<1>1. Idle \in Call /\ ~HasOne(Idle) /\ Idle.at \notin {"allocated", "checked", "there"}
  BY DEF Call, HasOne, Idle
<1>2. NoFile \in FileRec
  BY VfsAssumption DEF NoFile, FileRec, Place
<1>3. /\ cache \in Seq(File \union {Null}) /\ list \in Seq(File) /\ Len(cache) >= 1
      /\ \A i \in DOMAIN cache : cache[i] = Null
  BY VfsAssumption
<1>4. Types
  BY <1>1, <1>2, <1>3 DEF Types, TypeOK, FileRec
<1>5. Table
  <2>1. DOMAIN list = {} /\ Len(list) = 0
    OBVIOUS
  <2>2. Null \notin File
    BY DEF Null, File
  <2> QED
    BY <1>3, <2>1, <2>2 DEF Table, OncePerTable, SameFiles, OthersBlank
<1> QED
  BY <1>1, <1>4, <1>5 DEF TInv, Held, Apart, LockHeld

LEMMA StutterTable == ASSUME TInv, UNCHANGED vars PROVE TInv'
<1> USE DEF vars, TInv
<1>1. Types' /\ LockHeld'
  BY DEF Types, TypeOK, LockHeld
<1>2. Table'
  BY DEF Table, OncePerTable, SameFiles, OthersBlank
<1> QED
  BY <1>1, <1>2 DEF Held, Apart

LEMMA WorksKeeps == ASSUME TInv, NEW t \in Task, Works(t) PROVE TInv'
  BY UseKeeps, NoMemoryKeeps, OpenAllocateKeeps, OpenFailsKeeps, OpenFileKeeps,
     TruncateOpenedKeeps, CloseKeeps, MoveKeeps, TransferBeginKeeps, TransferEndKeeps,
     CheckNamesKeeps, NamesRefusedKeeps, UnlinkKeeps, RenameKeeps, MkdirKeeps, RmdirKeeps,
     DirReturnsKeep, DirIdleKeeps, SeekDirKeeps, SkipEntryKeeps DEF Works

LEMMA TableInvariance == Spec => []TInv
<1>1. TInv /\ [Next]_vars => TInv'
  BY WorksKeeps, RequestKeeps, StutterTable DEF Next
<1> QED
  BY <1>1, InitTable, PTL DEF Spec

\* The array of descriptors, the list of files and the count agree, whatever
\* tasks open, close, truncate and fail to, for any size of the array and any
\* growth of it (esp_littlefs_allocate_fd, esp_littlefs_free_fd).
THEOREM TableInOnePiece == Spec => []Inv
<1>1. TInv => Inv
  <2> SUFFICES ASSUME Types, Table PROVE TypeOK /\ TableAgrees
    BY DEF TInv, Inv
  <2>1. /\ Cardinality(HeldAt) = fd_count /\ Cardinality(Range(list)) = fd_count
        /\ Range(list) = {cache[i] : i \in HeldAt}
    BY HeldCount
  <2>2. \A f \in File \ Range(list) : files[f] = NoFile
    BY DEF Table, OthersBlank, Range
  <2>3. TableAgrees
    BY <2>1, <2>2 DEF TableAgrees, Table, HeldAt
  <2> QED
    BY <2>3 DEF Types
<1> QED
  BY <1>1, TableInvariance, PTL

------------------------------------------------------------------------------
(* Places in a directory: the number of an entry among the names.          *)

Lower(n, names) == {m \in names : m < n}

LEMMA NamesFinite ==
  ASSUME NEW names \in SUBSET Name
  PROVE  IsFiniteSet(names) /\ Cardinality(names) \in Nat
  BY VfsAssumption, FS_Subset, FS_CardinalityType

LEMMA IdRange ==
  ASSUME NEW names \in SUBSET Name, NEW n \in Name
  PROVE  /\ Id(n, names) \in Nat /\ Id(n, names) >= 1
         /\ Id(n, names) = 1 + Cardinality(Lower(n, names))
         /\ Id(n, names) <= Cardinality(names) + 1
         /\ n \in names => Id(n, names) <= Cardinality(names)
<1>1. IsFiniteSet(names) /\ Cardinality(names) \in Nat
  BY NamesFinite
<1>2. Lower(n, names) \in SUBSET names /\ Lower(n, names) \in SUBSET (names \ {n})
  BY VfsAssumption DEF Lower
<1>3. Cardinality(Lower(n, names)) \in Nat /\ Cardinality(Lower(n, names)) <= Cardinality(names)
  BY <1>1, <1>2, FS_Subset, FS_CardinalityType
<1>4. n \in names => Cardinality(Lower(n, names)) <= Cardinality(names) - 1
  <2>1. n \in names => IsFiniteSet(names \ {n}) /\ Cardinality(names \ {n}) = Cardinality(names) - 1
    BY <1>1, FS_RemoveElement
  <2>2. IsFiniteSet(names \ {n}) => Cardinality(Lower(n, names)) <= Cardinality(names \ {n})
    BY <1>2, FS_Subset
  <2> QED
    BY <2>1, <2>2
<1>5. Id(n, names) = 1 + Cardinality(Lower(n, names))
  BY DEF Id, Lower
<1> QED
  BY <1>1, <1>3, <1>4, <1>5

LEMMA IdOrder ==
  ASSUME NEW names \in SUBSET Name, NEW m \in names, NEW n \in Name, m < n
  PROVE  Id(m, names) < Id(n, names)
<1>1. m \in Name /\ m \in Nat /\ n \in Nat /\ \A x \in names : x \in Nat
  BY VfsAssumption
<1>2. Lower(m, names) \union {m} \in SUBSET Lower(n, names) /\ m \notin Lower(m, names)
  <2>1. ASSUME NEW x \in names, x < m
        PROVE  x < n
    <3>1. x \in Nat
      BY <1>1
    <3> QED
      BY <1>1, <2>1, <3>1
  <2>2. ~(m < m)
    BY <1>1
  <2> QED
    BY <2>1, <2>2 DEF Lower
<1>3. IsFiniteSet(Lower(m, names)) /\ IsFiniteSet(Lower(n, names))
      /\ Cardinality(Lower(n, names)) \in Nat /\ Cardinality(Lower(m, names)) \in Nat
  <2>1. Lower(m, names) \in SUBSET Name /\ Lower(n, names) \in SUBSET Name
    BY DEF Lower
  <2> QED
    BY <2>1, NamesFinite
<1>4. Cardinality(Lower(m, names) \union {m}) = Cardinality(Lower(m, names)) + 1
  BY <1>2, <1>3, FS_AddElement
<1>5. Cardinality(Lower(m, names) \union {m}) <= Cardinality(Lower(n, names))
  BY <1>2, <1>3, FS_Subset
<1> QED
  BY <1>1, <1>3, <1>4, <1>5, IdRange

LEMMA IdDiffers ==
  ASSUME NEW names \in SUBSET Name, NEW m \in names, NEW n \in names
  PROVE  /\ Id(m, names) = Id(n, names) <=> m = n
         /\ Id(m, names) < Id(n, names) <=> m < n
<1>1. m \in Name /\ n \in Name /\ m \in Nat /\ n \in Nat
  BY VfsAssumption
<1>2. m < n => Id(m, names) < Id(n, names)
  BY <1>1, IdOrder
<1>3. n < m => Id(n, names) < Id(m, names)
  BY <1>1, IdOrder
<1>4. Id(m, names) \in Nat /\ Id(n, names) \in Nat
  BY <1>1, IdRange
<1> QED
  BY <1>1, <1>2, <1>3, <1>4

LEMMA IdRemoved ==
  ASSUME NEW names \in SUBSET Name, NEW e \in names, NEW n \in Name
  PROVE  /\ Id(n, names \ {e}) = IF e < n THEN Id(n, names) - 1 ELSE Id(n, names)
         /\ Cardinality(names \ {e}) = Cardinality(names) - 1
<1>1. names \ {e} \in SUBSET Name /\ Lower(n, names) \in SUBSET Name
  BY DEF Lower
<1>2. Lower(n, names \ {e}) = Lower(n, names) \ {e} /\ (e \in Lower(n, names) <=> e < n)
  BY DEF Lower
<1>3. /\ e < n => Cardinality(Lower(n, names) \ {e}) = Cardinality(Lower(n, names)) - 1
      /\ ~(e < n) => Lower(n, names) \ {e} = Lower(n, names)
  BY <1>1, <1>2, NamesFinite, FS_RemoveElement
<1>4. Cardinality(names \ {e}) = Cardinality(names) - 1
  BY NamesFinite, FS_RemoveElement
<1>5. /\ Id(n, names) = 1 + Cardinality(Lower(n, names))
      /\ Id(n, names \ {e}) = 1 + Cardinality(Lower(n, names \ {e}))
  BY <1>1, IdRange
<1>6. Cardinality(Lower(n, names)) \in Nat
  BY <1>1, NamesFinite
<1>7. CASE e < n
  <2>1. Cardinality(Lower(n, names \ {e})) = Cardinality(Lower(n, names)) - 1
    BY <1>2, <1>3, <1>7
  <2> QED
    BY <2>1, <1>4, <1>5, <1>6, <1>7
<1>8. CASE ~(e < n)
  <2>1. Lower(n, names \ {e}) = Lower(n, names)
    BY <1>2, <1>3, <1>8
  <2> QED
    BY <2>1, <1>4, <1>5, <1>8
<1> QED
  BY <1>7, <1>8

\* One of the names has each number (lfs_dir_read_ finds an entry until the end).
LEMMA EntryExists ==
  ASSUME NEW names \in SUBSET Name, NEW k \in 1..Cardinality(names)
  PROVE  \E n \in names : Id(n, names) = k
<1>1. Cardinality(names) \in Nat /\ k \in Nat /\ k >= 1 /\ Name \subseteq Nat
  BY NamesFinite, VfsAssumption
<1> SUFFICES ASSUME \A n \in names : Id(n, names) # k PROVE FALSE
  OBVIOUS
\* The names with smaller numbers are fewer than k.
<1>2. ASSUME NEW T \in SUBSET names, \A n \in T : Id(n, names) < k
      PROVE  Cardinality(T) <= k - 1
  <2> DEFINE id == [n \in T |-> Id(n, names)]
  <2>1. \A n \in T : id[n] \in 1..k - 1
    BY <1>1, <1>2, IdRange
  <2>2. \A m, n \in T : id[m] = id[n] => m = n
    BY IdDiffers
  <2>3. id \in Injection(T, 1..k - 1)
    BY <2>1, <2>2, Zenon DEF Injection, IsInjective
  <2>4. k - 1 \in Nat
    BY <1>1
  <2>5. IsFiniteSet(1..k - 1) /\ Cardinality(1..k - 1) = k - 1
    BY <2>4, CountOfFirst
  <2> HIDE DEF id
  <2>6. Cardinality(T) <= Cardinality(1..k - 1)
    BY <2>3, <2>5, FS_Injection
  <2> QED
    BY <2>5, <2>6
<1> DEFINE L == {n \in names : Id(n, names) > k}
<1>3. L # {}
  <2> SUFFICES ASSUME L = {} PROVE FALSE
    OBVIOUS
  <2>1. \A n \in names : Id(n, names) < k
    BY <1>1, IdRange
  <2>2. Cardinality(names) <= k - 1
    BY <1>2, <2>1
  <2> QED
    BY <1>1, <2>2
<1>4. L \in SUBSET Nat
  BY <1>1
<1>5. PICK m \in L : \A n \in L : m <= n
  BY <1>3, <1>4, LeastOf
<1>6. m \in names /\ m \in Name /\ m \in Nat /\ Id(m, names) > k
  BY <1>1, <1>5
<1>7. \A n \in Lower(m, names) : Id(n, names) < k
  <2> SUFFICES ASSUME NEW n \in names, n < m PROVE Id(n, names) < k
    BY DEF Lower
  <2>1. n \notin L /\ n \in Name
    BY <1>1, <1>5, <1>6
  <2> QED
    BY <2>1, <1>1, IdRange
<1>8. Lower(m, names) \in SUBSET names
  BY DEF Lower
<1>9. Cardinality(Lower(m, names)) <= k - 1 /\ Cardinality(Lower(m, names)) \in Nat
  BY <1>2, <1>7, <1>8, NamesFinite
<1>10. Id(m, names) = 1 + Cardinality(Lower(m, names))
  BY <1>6, IdRange
<1> QED
  BY <1>1, <1>6, <1>9, <1>10

------------------------------------------------------------------------------
(* One stream: what is true of it at any time, and what its reader may     *)
(* rely on between two of its calls.                                       *)

DirRec == [id : Nat, offset : Nat, names : SUBSET Name, told : SUBSET Name,
           stays : SUBSET Name, twice : BOOLEAN, end : BOOLEAN, same : BOOLEAN,
           cookie : [offset : Nat, told : SUBSET Name, good : BOOLEAN]]

\* The names before a number, and the number that a stream reaches undisturbed.
Before(names, k) == {n \in names : Id(n, names) < k}
Reached(o, names) == IF o = 0 THEN 0
                     ELSE IF o <= Cardinality(names) THEN o + 1 ELSE Cardinality(names) + 1

Stream(d) ==
  /\ d \in DirRec /\ d.stays \subseteq d.names /\ (d.offset = 0 <=> d.id = 0)
  /\ d.end => d.id > Cardinality(d.names)
  /\ d.cookie.good => /\ d.same
                      /\ d.cookie.told = Before(d.names, Reached(d.cookie.offset, d.names))
  /\ d.same => d.id = Reached(d.offset, d.names)

Reader(d) ==
  /\ ~d.twice /\ d.told \subseteq Before(d.names, d.id)
  /\ d.stays \intersect Before(d.names, d.id) \subseteq d.told
  /\ d.same => d.told = Before(d.names, d.id)

\* A reader goes back only in a directory that has not changed.
GoesBackSteady == SeeksAcrossChanges = FALSE

\* What a commit may change in the root.
EditOf(names, e) == \/ e.is = "none"
                    \/ e.is = "gone" /\ e.name \in names
                    \/ e.is = "new" /\ e.name \in Name \ names
NamesAfter(names, e) == IF e.is = "none" THEN names
                        ELSE IF e.is = "gone" THEN names \ {e.name} ELSE names \union {e.name}

\* The stream stays between the entries where it was (lfs_dir_relocatingcommit).
LEMMA ShiftKeeps ==
  ASSUME NEW d \in DirRec, NEW e, e.is \in {"gone", "new"}, EditOf(d.names, e)
  PROVE  LET names == NamesAfter(d.names, e)
             k == Shifted(d, e)
         IN  /\ k \in Nat /\ (k = 0 <=> d.id = 0)
             /\ d.id > Cardinality(d.names) => k > Cardinality(names)
             /\ \A n \in d.names \ {e.name} : n \in names /\ (Id(n, names) < k <=> Id(n, d.names) < d.id)
<1> DEFINE names == NamesAfter(d.names, e)
           x == e.name
           i == Id(x, d.names)
           k == Shifted(d, e)
<1>1. d.names \in SUBSET Name /\ d.id \in Nat /\ x \in Name /\ x \in Nat /\ Name \subseteq Nat
  BY VfsAssumption DEF DirRec, EditOf
<1>2. i \in Nat /\ i >= 1 /\ i <= Cardinality(d.names) + 1 /\ Cardinality(d.names) \in Nat
      /\ (x \in d.names => i <= Cardinality(d.names))
  BY <1>1, IdRange, NamesFinite
<1>3. CASE e.is = "gone"
  <2>1. x \in d.names /\ names = d.names \ {x}
    BY <1>3 DEF EditOf, NamesAfter
  <2>2. k = IF d.id > i THEN d.id - 1 ELSE d.id
    BY <1>3 DEF Shifted
  <2>3. Cardinality(names) = Cardinality(d.names) - 1
    BY <1>1, <2>1, IdRemoved
  <2>4. ASSUME NEW n \in d.names \ {x}
        PROVE  n \in names /\ (Id(n, names) < k <=> Id(n, d.names) < d.id)
    <3>1. n \in names /\ n \in Name /\ n \in Nat /\ n # x
      BY <1>1, <2>1
    <3>2. Id(n, names) = IF x < n THEN Id(n, d.names) - 1 ELSE Id(n, d.names)
      BY <1>1, <2>1, <3>1, IdRemoved
    <3>3. Id(n, d.names) \in Nat /\ (i < Id(n, d.names) <=> x < n) /\ i # Id(n, d.names)
      BY <1>1, <2>1, <2>4, <3>1, IdDiffers, IdRange
    <3> HIDE DEF i, k, names
    <3> QED
      BY <1>1, <1>2, <2>2, <3>1, <3>2, <3>3
  <2>5. k \in Nat /\ (k = 0 <=> d.id = 0)
        /\ (d.id > Cardinality(d.names) => k > Cardinality(names))
    BY <1>1, <1>2, <2>1, <2>2, <2>3
  <2> QED
    BY <2>4, <2>5
<1>4. CASE e.is = "new"
  <2>1. x \notin d.names /\ names = d.names \union {x} /\ names \in SUBSET Name /\ x \in names
        /\ names \ {x} = d.names
    BY <1>1, <1>4 DEF EditOf, NamesAfter
  <2>2. k = IF d.id >= i THEN d.id + 1 ELSE d.id
    BY <1>4 DEF Shifted
  <2> HIDE DEF names, k
  <2>3. Cardinality(names) \in Nat /\ Cardinality(d.names) = Cardinality(names) - 1
    BY <1>1, <2>1, IdRemoved, NamesFinite
  <2>6. i = Id(x, names)
    <3>1. Id(x, names \ {x}) = IF x < x THEN Id(x, names) - 1 ELSE Id(x, names)
      BY <1>1, <2>1, IdRemoved
    <3>2. ~(x < x)
      BY <1>1
    <3>3. Id(x, names \ {x}) = Id(x, d.names)
      BY <2>1
    <3> QED
      BY <3>1, <3>2, <3>3
  <2>4. ASSUME NEW n \in d.names \ {x}
        PROVE  n \in names /\ (Id(n, names) < k <=> Id(n, d.names) < d.id)
    <3>1. n \in names /\ n \in Name /\ n \in Nat /\ n # x
      BY <1>1, <2>1
    <3>2. Id(n, names \ {x}) = IF x < n THEN Id(n, names) - 1 ELSE Id(n, names)
      BY <1>1, <2>1, <3>1, IdRemoved
    <3>3. Id(n, names) \in Nat
      BY <1>1, <2>1, <3>1, IdRange
    <3>5. (Id(x, names) < Id(n, names) <=> x < n) /\ (Id(x, names) = Id(n, names) <=> x = n)
      BY <2>1, <3>1, IdDiffers
    <3>6. (i < Id(n, names) <=> x < n) /\ i # Id(n, names)
      BY <2>6, <3>1, <3>5
    <3>4. Id(n, d.names) = IF x < n THEN Id(n, names) - 1 ELSE Id(n, names)
      BY <2>1, <3>2
    <3> HIDE DEF i
    <3> QED
      BY <1>1, <1>2, <2>2, <3>1, <3>3, <3>4, <3>6
  <2>5. k \in Nat /\ (k = 0 <=> d.id = 0)
        /\ (d.id > Cardinality(d.names) => k > Cardinality(names))
    BY <1>1, <1>2, <2>1, <2>2, <2>3
  <2> QED
    BY <2>4, <2>5 DEF names, k
<1> QED
  BY <1>3, <1>4

LEMMA CorrectedIs ==
  ASSUME GoesBackSteady, NEW d \in DirRec, NEW e, e.is \in {"gone", "new"}, EditOf(d.names, e)
  PROVE  LET c == Corrected(d, e)
         IN  /\ c \in DirRec /\ c.id = Shifted(d, e) /\ c.names = NamesAfter(d.names, e)
             /\ c.offset = d.offset /\ c.told = d.told \ {e.name} /\ c.stays = d.stays \ {e.name}
             /\ c.twice = d.twice /\ c.end = d.end /\ ~c.same
             /\ ~c.cookie.good /\ c.cookie.offset = d.cookie.offset
<1> DEFINE f == Forget(d, e.name)
           names == NamesAfter(d.names, e)
           k == Shifted(d, e)
<1>1. k \in Nat /\ names \in SUBSET Name
  <2>1. k \in Nat
    BY ShiftKeeps
  <2>2. d.names \in SUBSET Name
    BY DEF DirRec
  <2> QED
    BY <2>1, <2>2 DEF NamesAfter, EditOf
<1>2. /\ f \in DirRec /\ f.offset = d.offset /\ f.told = d.told \ {e.name}
      /\ f.stays = d.stays \ {e.name} /\ f.twice = d.twice /\ f.end = d.end
      /\ ~f.same /\ ~f.cookie.good /\ f.cookie.offset = d.cookie.offset
      /\ f.names = d.names
  BY DEF Forget, DirRec, GoesBackSteady
<1> HIDE DEF f, k, names
<1>3. Corrected(d, e) = [f EXCEPT !.id = k, !.names = names]
  BY <1>2 DEF Corrected, f, k, names, NamesAfter
<1> QED
  BY <1>1, <1>2, <1>3 DEF DirRec, k, names

LEMMA EditKeeps ==
  ASSUME GoesBackSteady, NEW d, Stream(d), NEW e, EditOf(d.names, e),
         e.is \in {"none", "gone", "new"}
  PROVE  LET c == Corrected(d, e)
         IN  /\ Stream(c) /\ c.names = NamesAfter(d.names, e) /\ (Reader(d) => Reader(c))
             /\ c.offset = d.offset /\ c.cookie.offset = d.cookie.offset
             /\ (c.same => d.same) /\ (c.cookie.good => d.cookie.good)
             /\ (c.same <=> c.cookie.good) \/ ~(d.same <=> d.cookie.good)
<1>1. CASE e.is = "none"
  BY <1>1 DEF Corrected, NamesAfter
<1>2. CASE e.is \in {"gone", "new"}
  <2> DEFINE c == Corrected(d, e)
             names == NamesAfter(d.names, e)
             k == Shifted(d, e)
  <2>1. d \in DirRec
    BY DEF Stream
  <2>2. /\ c \in DirRec /\ c.id = k /\ c.names = names
        /\ c.offset = d.offset /\ c.told = d.told \ {e.name} /\ c.stays = d.stays \ {e.name}
        /\ c.twice = d.twice /\ c.end = d.end /\ ~c.same
        /\ ~c.cookie.good /\ c.cookie.offset = d.cookie.offset
    BY <1>2, <2>1, CorrectedIs
  <2>3. /\ k \in Nat /\ (k = 0 <=> d.id = 0)
        /\ d.id > Cardinality(d.names) => k > Cardinality(names)
        /\ \A n \in d.names \ {e.name} : n \in names /\ (Id(n, names) < k <=> Id(n, d.names) < d.id)
    BY <1>2, <2>1, ShiftKeeps
  <2> HIDE DEF c, k, names
  <2>4. Stream(c)
    <3>1. c.stays \subseteq c.names
      BY <2>2, <2>3 DEF Stream
    <3>2. c.offset = 0 <=> c.id = 0
      BY <2>2, <2>3 DEF Stream
    <3>3. c.end => c.id > Cardinality(c.names)
      BY <2>2, <2>3 DEF Stream
    <3> QED
      BY <2>2, <3>1, <3>2, <3>3 DEF Stream
  <2>5. ASSUME Reader(d) PROVE Reader(c)
    <3>1. c.told \subseteq Before(c.names, c.id)
      BY <2>2, <2>3, <2>5 DEF Reader, Before
    <3>2. c.stays \intersect Before(c.names, c.id) \subseteq c.told
      BY <2>2, <2>3, <2>5 DEF Reader, Before, Stream
    <3> QED
      BY <2>2, <2>5, <3>1, <3>2 DEF Reader
  <2> QED
    BY <2>2, <2>4, <2>5 DEF c, names
<1> QED
  BY <1>1, <1>2

------------------------------------------------------------------------------
(* The streams of all tasks.                                               *)

DirUse == {"rewinddir", "closedir", "telldir", "readdir", "seekdir"}

DirOK(c, d, root) ==
  /\ d # NoDir => /\ Stream(d) /\ d.names = root
                  /\ c.at # "skip" => Reader(d)
  /\ c.op \in DirUse => d # NoDir
  /\ c.at = "skip" => /\ c.op \in {"seekdir", "rewinddir"}
                      /\ d.offset <= (IF c.op = "rewinddir" THEN 0 ELSE d.cookie.offset)
  /\ c.op = "seekdir" => (d.cookie.good <=> d.same)

Streams == /\ dir = [t \in Task |-> dir[t]]
           /\ \A t \in Task : DirOK(call[t], dir[t], InRoot)

SInv == TInv /\ Streams

LEMMA RootIs ==
  ASSUME Types
  PROVE  InRoot \in SUBSET Name
  BY DEF InRoot

\* A step that changes at most the stream of its own task.
LEMMA StreamStep ==
  ASSUME Types, Streams, UNCHANGED tree, NEW t \in Task, NEW c \in Call, NEW d,
         call' = [call EXCEPT ![t] = c], dir' = [dir EXCEPT ![t] = d], DirOK(c, d, InRoot)
  PROVE  Streams'
<1>1. InRoot' = InRoot
  BY DEF InRoot
<1>2. call'[t] = c /\ \A u \in Task : u # t => call'[u] = call[u]
  BY NextCall
<1>3. dir = [u \in Task |-> dir[u]]
  BY DEF Streams
<1>4. dir' = [u \in Task |-> dir'[u]] /\ dir'[t] = d /\ \A u \in Task : u # t => dir'[u] = dir[u]
  BY <1>3
<1>5. \A u \in Task : DirOK(call'[u], dir'[u], InRoot')
  BY <1>1, <1>2, <1>4 DEF Streams
<1> QED
  BY <1>4, <1>5 DEF Streams

\* A step of a call that is about something else.
LEMMA OtherStep ==
  ASSUME Types, Streams, UNCHANGED <<tree, dir>>, NEW t \in Task, NEW c \in Call,
         call' = [call EXCEPT ![t] = c], call[t].at # "skip",
         c.at # "skip", c.op \in DirUse => dir[t] # NoDir,
         c.op = "seekdir" => (dir[t].cookie.good <=> dir[t].same)
  PROVE  Streams'
<1>1. dir' = [dir EXCEPT ![t] = dir[t]]
  BY DEF Streams
<1>2. DirOK(c, dir[t], InRoot)
  BY DEF Streams, DirOK
<1> QED
  BY <1>1, <1>2, StreamStep

\* A commit corrects the streams of all tasks.
LEMMA CommitStep ==
  ASSUME GoesBackSteady, Types, Streams, NEW t \in Task, NEW c \in Call,
         call' = [call EXCEPT ![t] = c], call[t].at # "skip", c.at # "skip", c.op \notin DirUse,
         NEW over, NEW new, NEW old, Commit(over, new, old),
         {over.is, new.is, old.is} \subseteq {"none", "gone", "new"},
         EditOf(InRoot, over), EditOf(NamesAfter(InRoot, over), new),
         EditOf(NamesAfter(NamesAfter(InRoot, over), new), old),
         InRoot' = NamesAfter(NamesAfter(NamesAfter(InRoot, over), new), old)
  PROVE  Streams'
<1>1. call'[t] = c /\ \A u \in Task : u # t => call'[u] = call[u]
  BY NextCall
<1>2. dir' = [u \in Task |-> dir'[u]]
      /\ \A u \in Task : dir'[u] = IF dir[u] = NoDir THEN NoDir
                                   ELSE Corrected(Corrected(Corrected(dir[u], over), new), old)
  BY DEF Commit
<1>3. \A d : d \in DirRec => d # NoDir
  BY DEF DirRec, NoDir
<1>4. ASSUME NEW u \in Task, dir[u] # NoDir
      PROVE  LET d == dir[u]
                 e == dir'[u]
             IN  /\ e # NoDir /\ Stream(e) /\ e.names = InRoot' /\ (Reader(d) => Reader(e))
                 /\ e.offset = d.offset /\ e.cookie.offset = d.cookie.offset
                 /\ (e.same <=> e.cookie.good) \/ ~(d.same <=> d.cookie.good)
  <2> DEFINE d == dir[u]
             a == Corrected(d, over)
             b == Corrected(a, new)
             e == Corrected(b, old)
  <2>1. Stream(d) /\ d.names = InRoot
    BY <1>4 DEF Streams, DirOK
  <2>2. dir'[u] = e
    BY <1>2, <1>4
  <2> HIDE DEF d
  <2>3. /\ Stream(a) /\ a.names = NamesAfter(InRoot, over) /\ (Reader(d) => Reader(a))
        /\ a.offset = d.offset /\ a.cookie.offset = d.cookie.offset
        /\ (a.same <=> a.cookie.good) \/ ~(d.same <=> d.cookie.good)
    BY <2>1, EditKeeps
  <2> HIDE DEF a
  <2>4. /\ Stream(b) /\ b.names = NamesAfter(a.names, new) /\ (Reader(a) => Reader(b))
        /\ b.offset = a.offset /\ b.cookie.offset = a.cookie.offset
        /\ (b.same <=> b.cookie.good) \/ ~(a.same <=> a.cookie.good)
    BY <2>3, EditKeeps
  <2> HIDE DEF b
  <2>5. /\ Stream(e) /\ e.names = NamesAfter(b.names, old) /\ (Reader(b) => Reader(e))
        /\ e.offset = b.offset /\ e.cookie.offset = b.cookie.offset
        /\ (e.same <=> e.cookie.good) \/ ~(b.same <=> b.cookie.good)
    BY <2>3, <2>4, EditKeeps
  <2> HIDE DEF e
  <2>6. e # NoDir
    BY <1>3, <2>5 DEF Stream
  <2>7. e.names = InRoot'
    BY <2>3, <2>4, <2>5
  <2>8. (e.same <=> e.cookie.good) \/ ~(d.same <=> d.cookie.good)
    BY <2>3, <2>4, <2>5
  <2>9. (Reader(d) => Reader(e)) /\ e.offset = d.offset /\ e.cookie.offset = d.cookie.offset
    BY <2>3, <2>4, <2>5
  <2> QED
    BY <2>2, <2>5, <2>6, <2>7, <2>8, <2>9 DEF d
<1>5. ASSUME NEW u \in Task, dir[u] = NoDir
      PROVE  dir'[u] = NoDir
  BY <1>2, <1>5
<1>6. ASSUME NEW u \in Task
      PROVE  DirOK(call'[u], dir'[u], InRoot')
  <2>1. DirOK(call[u], dir[u], InRoot)
    BY DEF Streams
  <2>2. CASE dir[u] = NoDir
    <3>1. dir'[u] = NoDir
      BY <1>5, <2>2
    <3>2. call[u].op \notin DirUse /\ call[u].at # "skip"
      BY <2>1, <2>2 DEF DirOK, DirUse
    <3>3. call'[u].op \notin DirUse /\ call'[u].at # "skip"
      BY <1>1, <3>2
    <3> QED
      BY <3>1, <3>3 DEF DirOK, DirUse
  <2>3. CASE dir[u] # NoDir
    <3>1. /\ dir'[u] # NoDir /\ Stream(dir'[u]) /\ dir'[u].names = InRoot'
          /\ Reader(dir[u]) => Reader(dir'[u])
          /\ dir'[u].offset = dir[u].offset /\ dir'[u].cookie.offset = dir[u].cookie.offset
          /\ (dir'[u].same <=> dir'[u].cookie.good) \/ ~(dir[u].same <=> dir[u].cookie.good)
      BY <1>4, <2>3
    <3>2. CASE u = t
      BY <1>1, <2>1, <2>3, <3>1, <3>2 DEF DirOK, DirUse
    <3>3. CASE u # t
      <4>1. call'[u] = call[u]
        BY <1>1, <3>3
      <4>2. call[u].at # "skip" => Reader(dir'[u])
        BY <2>1, <2>3, <3>1 DEF DirOK
      <4>3. call[u].at = "skip" => /\ call[u].op \in {"seekdir", "rewinddir"}
                                   /\ dir'[u].offset <= (IF call[u].op = "rewinddir" THEN 0
                                                         ELSE dir'[u].cookie.offset)
        BY <2>1, <3>1 DEF DirOK
      <4>4. call[u].op = "seekdir" => (dir'[u].cookie.good <=> dir'[u].same)
        BY <2>1, <3>1 DEF DirOK
      <4> QED
        BY <3>1, <4>1, <4>2, <4>3, <4>4 DEF DirOK
    <3> QED
      BY <3>2, <3>3
  <2> QED
    BY <2>2, <2>3
<1> QED
  BY <1>2, <1>6 DEF Streams

------------------------------------------------------------------------------
(* Readdir, telldir, seekdir.                                              *)

LEMMA NewDirOK ==
  ASSUME Types
  PROVE  Stream(NewDir) /\ Reader(NewDir) /\ NewDir.names = InRoot
<1>1. InRoot \in SUBSET Name
  BY RootIs
<1>2. \A n \in InRoot : Id(n, InRoot) >= 1 /\ Id(n, InRoot) \in Nat
  BY <1>1, IdRange
<1>3. NewDir \in DirRec /\ NewDir.id = 0 /\ NewDir.offset = 0 /\ NewDir.names = InRoot
      /\ NewDir.told = {} /\ NewDir.stays = InRoot /\ ~NewDir.twice /\ ~NewDir.end
      /\ ~NewDir.cookie.good
  BY <1>1 DEF NewDir, NoCookie, DirRec
<1>4. Before(InRoot, 0) = {}
  BY <1>2 DEF Before
<1> QED
  BY <1>3, <1>4 DEF Stream, Reader, Reached

\* lfs_dir_read_ moves a stream by one entry or leaves it at the end.
LEMMA SkippedIs ==
  ASSUME NEW d, Stream(d)
  PROVE  LET p == PastSuper(d)
             s == Skipped(p)
             k == IF d.id = 0 THEN 1 ELSE d.id
         IN  /\ p \in DirRec /\ p = [d EXCEPT !.id = k]
             /\ s \in DirRec /\ s = [p EXCEPT !.id = s.id, !.offset = s.offset]
             /\ s.offset = d.offset + 1 /\ s.id = IF AtEnd(p) THEN k ELSE k + 1
             /\ AtEnd(p) <=> k > Cardinality(d.names)
             /\ k \in Nat /\ k >= 1 /\ s.id >= 1
             /\ d.same => s.id = Reached(s.offset, d.names)
<1> DEFINE p == PastSuper(d)
           s == Skipped(p)
           k == IF d.id = 0 THEN 1 ELSE d.id
<1>1. d \in DirRec /\ d.id \in Nat /\ d.offset \in Nat /\ d.names \in SUBSET Name
  BY DEF Stream, DirRec
<1>2. k \in Nat /\ k >= 1
  BY <1>1
<1>3. p \in DirRec /\ p = [d EXCEPT !.id = k] /\ p.id = k /\ p.names = d.names
      /\ p.offset = d.offset
  BY <1>1 DEF PastSuper, DirRec
<1>4. AtEnd(p) <=> k > Cardinality(d.names)
  BY <1>3 DEF AtEnd
<1> HIDE DEF p, k
<1>5. s = [p EXCEPT !.id = IF AtEnd(p) THEN p.id ELSE p.id + 1, !.offset = p.offset + 1]
  BY DEF Skipped
<1>6. /\ s \in DirRec /\ s.offset = d.offset + 1 /\ s.id = IF AtEnd(p) THEN k ELSE k + 1
      /\ s = [p EXCEPT !.id = s.id, !.offset = s.offset]
  <2> DEFINE a == IF AtEnd(p) THEN p.id ELSE p.id + 1
             b == p.offset + 1
  <2>1. a \in Nat /\ b \in Nat /\ b = d.offset + 1 /\ a = IF AtEnd(p) THEN k ELSE k + 1
    BY <1>1, <1>2, <1>3
  <2>2. s = [p EXCEPT !.id = a, !.offset = b]
    BY <1>5
  <2> HIDE DEF a, b, s
  <2>3. s \in DirRec /\ s.id = a /\ s.offset = b
    BY <1>3, <2>1, <2>2 DEF DirRec
  <2> QED
    BY <2>1, <2>2, <2>3
<1> HIDE DEF s
<1>7. Cardinality(d.names) \in Nat
  BY <1>1, NamesFinite
<1>8. d.same => s.id = Reached(s.offset, d.names)
  <2> SUFFICES ASSUME d.id = Reached(d.offset, d.names), d.offset = 0 <=> d.id = 0
               PROVE  s.id = Reached(s.offset, d.names)
    BY DEF Stream
  <2>1. CASE d.offset = 0
    BY <1>1, <1>4, <1>6, <1>7, <2>1 DEF k, Reached
  <2>2. CASE d.offset # 0
    BY <1>1, <1>4, <1>6, <1>7, <2>2 DEF k, Reached
  <2> QED
    BY <2>1, <2>2
<1>9. s.id >= 1
  BY <1>2, <1>6
<1> QED
  BY <1>2, <1>3, <1>4, <1>6, <1>8, <1>9 DEF p, s, k

\* The stream part, whatever the reader knows.
LEMMA SkipStream ==
  ASSUME NEW d, Stream(d)
  PROVE  LET s == Skipped(PastSuper(d))
         IN  /\ Stream(s) /\ s.names = d.names /\ s.offset = d.offset + 1 /\ s.cookie = d.cookie
             /\ s.same = d.same /\ s.stays = d.stays /\ s.told = d.told /\ s.twice = d.twice
<1> DEFINE p == PastSuper(d)
           s == Skipped(p)
           k == IF d.id = 0 THEN 1 ELSE d.id
<1>1. d \in DirRec /\ d.id \in Nat /\ d.offset \in Nat /\ d.names \in SUBSET Name
  BY DEF Stream, DirRec
<1>2. /\ p \in DirRec /\ p = [d EXCEPT !.id = k]
      /\ s \in DirRec /\ s = [p EXCEPT !.id = s.id, !.offset = s.offset]
      /\ s.offset = d.offset + 1 /\ s.id = IF AtEnd(p) THEN k ELSE k + 1
      /\ AtEnd(p) <=> k > Cardinality(d.names)
      /\ k \in Nat /\ k >= 1 /\ s.id >= 1
      /\ d.same => s.id = Reached(s.offset, d.names)
  BY SkippedIs
<1> HIDE DEF p, s
<1>3. /\ s.names = d.names /\ s.cookie = d.cookie /\ s.same = d.same /\ s.stays = d.stays
      /\ s.told = d.told /\ s.twice = d.twice /\ s.end = d.end
  <2>1. /\ p.names = d.names /\ p.cookie = d.cookie /\ p.same = d.same /\ p.stays = d.stays
        /\ p.told = d.told /\ p.twice = d.twice /\ p.end = d.end
    BY <1>1, <1>2 DEF DirRec
  <2>2. /\ s.names = p.names /\ s.cookie = p.cookie /\ s.same = p.same /\ s.stays = p.stays
        /\ s.told = p.told /\ s.twice = p.twice /\ s.end = p.end
    <3> DEFINE a == s.id
               b == s.offset
    <3>1. s = [p EXCEPT !.id = a, !.offset = b]
      BY <1>2
    <3> HIDE DEF a, b
    <3> QED
      BY <1>2, <3>1 DEF DirRec
  <2> QED
    BY <2>1, <2>2
<1>4. s.end => s.id > Cardinality(s.names)
  <2>1. d.end => d.id > Cardinality(d.names)
    BY DEF Stream
  <2>2. Cardinality(d.names) \in Nat
    BY <1>1, NamesFinite
  <2> QED
    BY <1>1, <1>2, <1>3, <2>1, <2>2
<1>5. s.offset # 0 /\ s.id # 0
  BY <1>1, <1>2
<1>6. s.stays \subseteq s.names
  BY <1>3 DEF Stream
<1>7. s.cookie.good => /\ s.same
                       /\ s.cookie.told = Before(s.names, Reached(s.cookie.offset, s.names))
  BY <1>3 DEF Stream
<1>8. s.same => s.id = Reached(s.offset, s.names)
  BY <1>2, <1>3
<1> QED
  BY <1>2, <1>3, <1>4, <1>5, <1>6, <1>7, <1>8 DEF Stream, s, p

\* readdir tells the entry that the stream passes, which was not told before.
LEMMA ToldIs ==
  ASSUME NEW d, Stream(d), Reader(d)
  PROVE  LET e == Told(PastSuper(d))
         IN  Stream(e) /\ Reader(e) /\ e.names = d.names
<1> DEFINE p == PastSuper(d)
           s == Skipped(p)
           k == IF d.id = 0 THEN 1 ELSE d.id
<1>1. d \in DirRec /\ d.id \in Nat /\ d.names \in SUBSET Name
  BY DEF Stream, DirRec
<1>2. /\ p \in DirRec /\ p = [d EXCEPT !.id = k] /\ s \in DirRec
      /\ s.id = IF AtEnd(p) THEN k ELSE k + 1
      /\ AtEnd(p) <=> k > Cardinality(d.names)
      /\ k \in Nat /\ k >= 1
  BY SkippedIs
<1>3. /\ Stream(s) /\ s.names = d.names
      /\ s.same = d.same /\ s.stays = d.stays /\ s.told = d.told /\ s.twice = d.twice
  BY SkipStream
<1> HIDE DEF s
<1>4. p.id = k /\ p.names = d.names /\ p.told = d.told
  BY <1>1, <1>2 DEF DirRec
<1>5. Before(d.names, d.id) = Before(d.names, k)
  <2>1. \A n \in d.names : Id(n, d.names) >= 1 /\ Id(n, d.names) \in Nat
    BY <1>1, IdRange
  <2> QED
    BY <1>1, <2>1 DEF Before
<1>6. d.told \subseteq Before(d.names, k) /\ d.stays \intersect Before(d.names, k) \subseteq d.told
      /\ (d.same => d.told = Before(d.names, k)) /\ ~d.twice
  BY <1>5 DEF Reader
<1>7. CASE AtEnd(p)
  <2>1. Told(p) = [s EXCEPT !.end = TRUE]
    BY <1>7 DEF Told, s
  <2> DEFINE e == Told(p)
  <2>2. /\ e \in DirRec /\ e.id = s.id /\ e.offset = s.offset /\ e.names = s.names
        /\ e.told = s.told /\ e.stays = s.stays /\ e.cookie = s.cookie
    BY <1>2, <2>1 DEF DirRec
  <2>3. e.same = s.same /\ e.twice = s.twice
    BY <1>2, <2>1 DEF DirRec
  <2> HIDE DEF e, p, k
  <2>4. Stream(e)
    BY <1>2, <1>3, <1>7, <2>2, <2>3 DEF Stream
  <2>5. Reader(e)
    BY <1>2, <1>3, <1>6, <1>7, <2>2, <2>3 DEF Reader
  <2> QED
    BY <1>3, <2>2, <2>4, <2>5 DEF e, p
<1>8. CASE ~AtEnd(p)
  <2> DEFINE n == Entry(p)
             e == Told(p)
  <2>1. n \in d.names /\ Id(n, d.names) = k
    <3>1. k \in 1..Cardinality(d.names)
      BY <1>1, <1>2, <1>8, NamesFinite
    <3>2. \E m \in d.names : Id(m, d.names) = k
      BY <1>1, <3>1, EntryExists
    <3> QED
      BY <1>4, <3>2 DEF Entry
  <2>2. n \notin d.told
    BY <1>2, <1>6, <2>1 DEF Before
  <2>3. e = [s EXCEPT !.told = s.told \union {n}, !.twice = s.twice \/ n \in p.told]
    BY <1>8 DEF Told, s
  <2>4. /\ e.id = s.id /\ e.offset = s.offset /\ e.names = s.names
        /\ e.told = d.told \union {n} /\ e.stays = s.stays /\ e.cookie = s.cookie
    BY <1>2, <1>3, <2>3 DEF DirRec
  <2>5. e.same = s.same /\ e.end = s.end
    BY <1>2, <2>3 DEF DirRec
  <2>6. e.twice = (s.twice \/ n \in p.told)
    BY <1>2, <2>3 DEF DirRec
  <2>7. ~e.twice
    BY <1>3, <1>4, <1>6, <2>2, <2>6
  <2>8. e \in DirRec
    <3>1. n \in Name /\ s.told \union {n} \in SUBSET Name
      BY <1>1, <1>2, <2>1 DEF DirRec
    <3>2. (s.twice \/ n \in p.told) \in BOOLEAN
      OBVIOUS
    <3> DEFINE b == s.twice \/ n \in p.told
               told == s.told \union {n}
    <3>3. e = [s EXCEPT !.told = told, !.twice = b] /\ b \in BOOLEAN /\ told \in SUBSET Name
      BY <2>3, <3>1, <3>2
    <3> HIDE DEF b, told, e
    <3> QED
      BY <1>2, <3>3 DEF DirRec
  <2> HIDE DEF e, n, p, k
  <2>9. Stream(e)
    BY <1>3, <2>4, <2>5, <2>8 DEF Stream
  <2>10. Before(d.names, k + 1) = Before(d.names, k) \union {n}
    <3>1. \A m \in d.names : Id(m, d.names) \in Nat /\ (Id(m, d.names) = Id(n, d.names) <=> m = n)
      BY <1>1, <2>1, IdDiffers, IdRange
    <3> QED
      BY <1>2, <2>1, <3>1 DEF Before
  <2>11. e.id = k + 1 /\ e.names = d.names
    BY <1>2, <1>3, <1>8, <2>4
  <2>12. e.told \subseteq Before(e.names, e.id) /\ e.stays \intersect Before(e.names, e.id) \subseteq e.told
    BY <1>3, <1>6, <2>4, <2>10, <2>11
  <2>13. e.same => e.told = Before(e.names, e.id)
    BY <1>3, <1>6, <2>4, <2>5, <2>10, <2>11
  <2>14. Reader(e)
    BY <2>7, <2>12, <2>13 DEF Reader
  <2> QED
    BY <2>9, <2>11, <2>14 DEF e, p
<1> QED
  BY <1>7, <1>8

------------------------------------------------------------------------------
(* Every step keeps the streams.                                           *)

LEMMA IdleIs == Idle \in Call /\ Idle.at # "skip" /\ Idle.op \notin DirUse
  BY DEF Idle, Call, DirUse

LEMMA ErrorIs == Error \in Call /\ Error.at # "skip" /\ Error.op \notin DirUse
  BY DEF Error, Call, DirUse

\* A call returns that has not touched the tree.
LEMMA PlainStreams ==
  ASSUME SInv, NEW t \in Task, Returns(t), call[t].at # "skip", UNCHANGED <<tree, dir>>
  PROVE  Streams'
<1>1. call' = [call EXCEPT ![t] = Idle]
  BY DEF Returns
<1>2. Idle.op # "seekdir"
  BY DEF Idle
<1> QED
  BY <1>1, <1>2, IdleIs, OtherStep DEF SInv, TInv

\* It goes on.
LEMMA GoesOnStreams ==
  ASSUME SInv, NEW t \in Task, NEW c \in Call, call' = [call EXCEPT ![t] = c],
         call[t].at # "skip", c.at # "skip", c.op \notin DirUse, UNCHANGED <<tree, dir>>
  PROVE  Streams'
<1>1. c.op # "seekdir"
  BY DEF DirUse
<1> QED
  BY <1>1, OtherStep DEF SInv, TInv

LEMMA CallIs ==
  ASSUME SInv, NEW t \in Task
  PROVE  call[t] \in Call /\ (call[t].at \in {"allocated", "opened", "close"} => call[t] \in FdCall)
                          /\ (call[t].at = "there" => call[t] \in SavedCall)
<1>1. call[t] \in Call
  BY DEF SInv, TInv, Types
<1> QED
  BY <1>1, CallKinds

LEMMA FileStreams ==
  ASSUME SInv, NEW t \in Task,
         \/ Use(t) \/ NoMemory(t) \/ OpenFails(t) \/ Close(t) \/ Move(t)
         \/ TransferEnd(t) \/ NamesRefused(t)
  PROVE  Streams'
<1>1. (Returns(t) \/ GoesOn(t, Error)) /\ UNCHANGED <<tree, dir>>
  BY Zenon DEF Use, NoMemory, OpenFails, Close, Move, TransferEnd, NamesRefused
<1>2. call[t].at # "skip"
  BY DEF Use, NoMemory, OpenFails, Close, Move, TransferEnd, NamesRefused, Calls
<1>3. CASE Returns(t)
  BY <1>1, <1>2, <1>3, PlainStreams
<1>4. CASE GoesOn(t, Error)
  BY <1>1, <1>2, <1>4, ErrorIs, GoesOnStreams DEF GoesOn
<1> QED
  BY <1>1, <1>3, <1>4

LEMMA OpenAllocateStreams == ASSUME SInv, NEW t \in Task, OpenAllocate(t) PROVE Streams'
<1> DEFINE k == FirstFree(Grown)
           c == call[t]
           d == [op |-> c.op, at |-> "allocated", path |-> c.path, create |-> c.create, fd |-> k]
<1>1. call' = [call EXCEPT ![t] = d] /\ UNCHANGED <<tree, dir>> /\ c.at = "start"
      /\ c.op \in {"open", "truncate"}
  BY DEF OpenAllocate, Holds, Calls
<1>2. d.at = "allocated" /\ d.op = c.op
  OBVIOUS
<1>3. call' \in [Task -> Call] /\ call \in [Task -> Call]
  BY OpenAllocateKeeps DEF SInv, TInv, Types
<1> HIDE DEF d
<1>4. d \in Call
  BY <1>1, <1>3
<1> QED
  BY <1>1, <1>2, <1>4, GoesOnStreams DEF DirUse

LEMMA TruncateOpenedStreams == ASSUME SInv, NEW t \in Task, TruncateOpened(t) PROVE Streams'
<1> DEFINE c == call[t]
           d == [c EXCEPT !.at = "close"]
<1>1. call' = [call EXCEPT ![t] = d] /\ UNCHANGED <<tree, dir>> /\ c.at = "opened"
  BY DEF TruncateOpened, GoesOn
<1>2. c \in FdCall
  BY <1>1, CallIs
<1>3. d \in FdCall /\ d.at = "close" /\ d.op = "truncate"
  BY <1>1, <1>2 DEF FdCall
<1>4. d \in Call
  BY <1>3 DEF Call
<1> QED
  BY <1>1, <1>3, <1>4, GoesOnStreams DEF DirUse

LEMMA TransferBeginStreams == ASSUME SInv, NEW t \in Task, TransferBegin(t) PROVE Streams'
<1> DEFINE c == call[t]
           d == [op |-> c.op, at |-> "there", fd |-> c.fd, to |-> c.to, saved |-> PlaceOf(c.fd)]
<1>1. c.at = "start" /\ c.op = "transfer" /\ UNCHANGED <<tree, dir>>
  BY DEF TransferBegin, Calls
<1>2. CASE call' = [call EXCEPT ![t] = Error]
  BY <1>1, <1>2, ErrorIs, GoesOnStreams
<1>3. CASE call' = [call EXCEPT ![t] = d]
  <2>1. d.at = "there" /\ d.op = "transfer"
    BY <1>1
  <2>2. call' \in [Task -> Call] /\ call \in [Task -> Call]
    BY TransferBeginKeeps DEF SInv, TInv, Types
  <2> HIDE DEF d
  <2>3. d \in Call
    BY <1>3, <2>2
  <2> QED
    BY <1>1, <1>3, <2>1, <2>3, GoesOnStreams DEF DirUse
<1> QED
  BY <1>2, <1>3 DEF TransferBegin, Holds

LEMMA CheckNamesStreams == ASSUME SInv, NEW t \in Task, CheckNames(t) PROVE Streams'
<1> DEFINE c == call[t]
           d == [c EXCEPT !.at = "checked"]
<1>1. c \in Call /\ c.op \in {"unlink", "rename"} /\ c.at = "start" /\ UNCHANGED <<tree, dir>>
  BY CallIs DEF CheckNames, Calls
<1>2. CASE Returns(t)
  BY <1>1, <1>2, PlainStreams
<1>3. CASE Holds(t, d)
  <2>1. d \in Call /\ d.at = "checked" /\ d.op = c.op
    BY <1>1, NextPlace
  <2>2. call' = [call EXCEPT ![t] = d]
    BY <1>3 DEF Holds
  <2> HIDE DEF d
  <2> QED
    BY <1>1, <2>1, <2>2, GoesOnStreams DEF DirUse
<1> QED
  BY <1>2, <1>3 DEF CheckNames

\* A stream is used by its task after it was opened; seekdir goes back only to
\* a place that is still good.
LEMMA RequestStreams == ASSUME SInv, NEW t \in Task, Request(t) PROVE Streams'
<1>1. PICK c \in Requests(t) : call' = [call EXCEPT ![t] = c]
  BY DEF Request
<1>2. c \in Call /\ c.at = "start" /\ call[t] \in {Idle, Error} /\ UNCHANGED <<tree, dir>>
  BY RequestIs DEF SInv, Request
<1>3. c.op \in DirUse => c.op \in DirCalls(t)
  BY DEF Requests, DirUse
<1>4. c.op \in DirUse => dir[t] # NoDir
  BY <1>3 DEF DirCalls, DirUse
<1>5. c.op = "seekdir" => dir[t].cookie.good
  BY <1>3, <1>4 DEF DirCalls, DirUse
<1>6. c.op = "seekdir" => (dir[t].cookie.good <=> dir[t].same)
  <2>1. dir[t] # NoDir => Stream(dir[t])
    BY DEF SInv, Streams, DirOK
  <2>2. c.op = "seekdir" => c.op \in DirUse
    BY DEF DirUse
  <2> QED
    BY <1>4, <1>5, <2>1, <2>2 DEF Stream
<1>7. call[t].at # "skip"
  BY <1>2, IdleIs, ErrorIs
<1> QED
  BY <1>1, <1>2, <1>4, <1>6, <1>7, OtherStep DEF SInv, TInv

LEMMA OpenDirStreams == ASSUME SInv, NEW t \in Task, OpenDir(t) PROVE Streams'
<1>1. Types /\ Streams
  BY DEF SInv, TInv
<1>2. /\ call' = [call EXCEPT ![t] = Idle] /\ dir' = [dir EXCEPT ![t] = NewDir] /\ UNCHANGED tree
  BY DEF OpenDir, Returns, DirStep
<1>3. DirOK(Idle, NewDir, InRoot)
  BY <1>1, NewDirOK, IdleIs DEF DirOK, Idle
<1> QED
  BY <1>1, <1>2, <1>3, IdleIs, StreamStep

LEMMA CloseDirStreams == ASSUME SInv, NEW t \in Task, CloseDir(t) PROVE Streams'
<1>1. Types /\ Streams
  BY DEF SInv, TInv
<1>2. /\ call' = [call EXCEPT ![t] = Idle] /\ dir' = [dir EXCEPT ![t] = NoDir] /\ UNCHANGED tree
  BY DEF CloseDir, Returns, DirStep
<1>3. DirOK(Idle, NoDir, InRoot)
  BY IdleIs DEF DirOK, Idle
<1> QED
  BY <1>1, <1>2, <1>3, IdleIs, StreamStep

LEMMA UsedStream ==
  ASSUME SInv, NEW t \in Task, call[t].op \in DirUse
  PROVE  /\ dir[t] # NoDir /\ Stream(dir[t]) /\ dir[t].names = InRoot
         /\ call[t].at # "skip" => Reader(dir[t])
  BY DEF SInv, Streams, DirOK

LEMMA ReadDirStreams == ASSUME SInv, NEW t \in Task, ReadDir(t) PROVE Streams'
<1> DEFINE d == dir[t]
           e == Told(PastSuper(d))
<1>1. Types /\ Streams
  BY DEF SInv, TInv
<1>2. /\ call' = [call EXCEPT ![t] = Idle] /\ dir' = [dir EXCEPT ![t] = e] /\ UNCHANGED tree
  BY DEF ReadDir, Returns, DirStep
<1>3. Stream(d) /\ Reader(d) /\ d.names = InRoot
  BY UsedStream DEF ReadDir, Calls, DirUse
<1>4. Stream(e) /\ Reader(e) /\ e.names = InRoot
  BY <1>3, ToldIs
<1>5. DirOK(Idle, e, InRoot)
  BY <1>4, IdleIs DEF DirOK, Idle
<1> QED
  BY <1>1, <1>2, <1>5, IdleIs, StreamStep

LEMMA TellDirStreams == ASSUME SInv, NEW t \in Task, TellDir(t) PROVE Streams'
<1> DEFINE d == dir[t]
           cookie == [offset |-> d.offset, told |-> d.told, good |-> d.same]
           e == [d EXCEPT !.cookie = cookie]
<1>1. Types /\ Streams
  BY DEF SInv, TInv
<1>2. /\ call' = [call EXCEPT ![t] = Idle] /\ dir' = [dir EXCEPT ![t] = e] /\ UNCHANGED tree
  BY DEF TellDir, DirStep
<1>3. Stream(d) /\ Reader(d) /\ d.names = InRoot /\ d \in DirRec
  BY UsedStream DEF TellDir, Calls, DirUse, Stream
<1>4. cookie \in [offset : Nat, told : SUBSET Name, good : BOOLEAN]
  BY <1>3 DEF DirRec
<1>5. cookie.offset = d.offset /\ cookie.told = d.told /\ cookie.good = d.same
  OBVIOUS
<1> HIDE DEF cookie
<1>6. e \in DirRec /\ e.id = d.id /\ e.offset = d.offset /\ e.names = d.names /\ e.told = d.told
      /\ e.stays = d.stays /\ e.cookie = cookie
  BY <1>3, <1>4 DEF DirRec
<1>7. e.twice = d.twice /\ e.end = d.end /\ e.same = d.same
  BY <1>3, <1>4 DEF DirRec
<1> HIDE DEF d, e
<1>8. d.same => d.told = Before(d.names, Reached(d.offset, d.names))
  BY <1>3 DEF Stream, Reader
<1>9. Stream(e)
  BY <1>3, <1>5, <1>6, <1>7, <1>8 DEF Stream
<1>10. Reader(e)
  BY <1>3, <1>6, <1>7 DEF Reader
<1>11. DirOK(Idle, e, InRoot)
  BY <1>3, <1>6, <1>9, <1>10, IdleIs DEF DirOK, Idle
<1> QED
  BY <1>1, <1>2, <1>11, IdleIs, StreamStep

\* seekdir and rewinddir, step by step: to the beginning when the place is
\* behind; over the entries before it; and there.
LEMMA SeekDirStreams == ASSUME SInv, NEW t \in Task, SeekDir(t) PROVE Streams'
<1> DEFINE d == dir[t]
           c == call[t]
           b == [c EXCEPT !.at = "skip"]
           e == [d EXCEPT !.id = 0, !.offset = 0, !.end = FALSE]
           place == IF c.op = "rewinddir" THEN 0 ELSE d.cookie.offset
<1>1. Types /\ Streams /\ c \in Call
  BY DEF SInv, TInv, Types
<1>2. c.op \in {"seekdir", "rewinddir"} /\ c.at = "start" /\ call' = [call EXCEPT ![t] = b]
  BY DEF SeekDir, Calls
<1>3. \/ place < d.offset /\ dir' = [dir EXCEPT ![t] = e] /\ UNCHANGED tree
      \/ ~(place < d.offset) /\ dir' = [dir EXCEPT ![t] = d] /\ UNCHANGED tree
  BY DEF SeekDir, DirStep, Target
<1>4. d # NoDir /\ Stream(d) /\ d.names = InRoot /\ (c.op = "seekdir" => (d.cookie.good <=> d.same))
  <2>1. c.op \in DirUse
    BY <1>2 DEF DirUse
  <2> QED
    BY <1>1, <2>1, UsedStream DEF Streams, DirOK
<1>5. b \in Call /\ b.at = "skip" /\ b.op = c.op
  BY <1>1, <1>2, NextPlace
<1>6. d \in DirRec /\ place \in Nat /\ d.offset \in Nat
  BY <1>4 DEF Stream, DirRec
<1>7. /\ e \in DirRec /\ e.id = 0 /\ e.offset = 0 /\ ~e.end /\ e.names = d.names /\ e.told = d.told
      /\ e.stays = d.stays /\ e.twice = d.twice /\ e.same = d.same /\ e.cookie = d.cookie
  BY <1>6 DEF DirRec
<1>8. e # NoDir
  BY <1>7 DEF DirRec, NoDir
<1> HIDE DEF b, e, d, c
<1>9. Stream(e)
  BY <1>4, <1>7 DEF Stream, Reached
<1>10. DirOK(b, e, InRoot)
  <2>1. e.offset <= (IF b.op = "rewinddir" THEN 0 ELSE e.cookie.offset)
    BY <1>5, <1>6, <1>7
  <2>2. b.op = "seekdir" => (e.cookie.good <=> e.same)
    BY <1>4, <1>5, <1>7
  <2> QED
    BY <1>2, <1>4, <1>5, <1>7, <1>8, <1>9, <2>1, <2>2 DEF DirOK
<1>11. ASSUME ~(place < d.offset) PROVE DirOK(b, d, InRoot)
  <2>1. d.offset <= (IF b.op = "rewinddir" THEN 0 ELSE d.cookie.offset)
    BY <1>5, <1>6, <1>11
  <2> QED
    BY <1>2, <1>4, <1>5, <2>1 DEF DirOK
<1>12. CASE place < d.offset
  BY <1>1, <1>2, <1>3, <1>5, <1>10, <1>12, StreamStep
<1>13. CASE ~(place < d.offset)
  BY <1>1, <1>2, <1>3, <1>5, <1>11, <1>13, StreamStep
<1> QED
  BY <1>12, <1>13

LEMMA SeekingIs ==
  ASSUME SInv, NEW t \in Task, call[t].at = "skip"
  PROVE  /\ call[t] \in Call /\ call[t].op \in {"seekdir", "rewinddir"}
         /\ dir[t] # NoDir /\ Stream(dir[t]) /\ dir[t].names = InRoot
         /\ dir[t].offset <= Target(t) /\ Target(t) \in Nat /\ dir[t].offset \in Nat
         /\ call[t].op = "seekdir" => (dir[t].cookie.good <=> dir[t].same)
<1>1. DirOK(call[t], dir[t], InRoot) /\ call[t] \in Call
  BY DEF SInv, Streams, TInv, Types
<1>2. call[t].op \in {"seekdir", "rewinddir"} /\ dir[t].offset <= Target(t)
  BY <1>1 DEF DirOK, Target
<1>3. dir[t] # NoDir /\ Stream(dir[t]) /\ dir[t].names = InRoot
  BY <1>1, <1>2 DEF DirOK, DirUse
<1>4. Target(t) \in Nat /\ dir[t].offset \in Nat
  BY <1>3 DEF Stream, DirRec, Target
<1>5. call[t].op = "seekdir" => (dir[t].cookie.good <=> dir[t].same)
  BY <1>1 DEF DirOK
<1> QED
  BY <1>1, <1>2, <1>3, <1>4, <1>5

LEMMA SkipEntryStreams == ASSUME SInv, NEW t \in Task, SkipEntry(t) PROVE Streams'
<1> DEFINE d == dir[t]
           c == call[t]
           e == Skipped(PastSuper(d))
<1>1. Types /\ Streams /\ call \in [Task -> Call]
  BY DEF SInv, TInv, Types
<1>2. /\ dir' = [dir EXCEPT ![t] = e] /\ UNCHANGED tree /\ c.at = "skip" /\ d.offset < Target(t)
  BY DEF SkipEntry, DirStep
<1>3. call' = [call EXCEPT ![t] = c]
  BY <1>1 DEF SkipEntry
<1>4. /\ c \in Call /\ c.op \in {"seekdir", "rewinddir"} /\ Stream(d) /\ d.names = InRoot
      /\ Target(t) \in Nat /\ d.offset \in Nat /\ (c.op = "seekdir" => (d.cookie.good <=> d.same))
  BY <1>2, SeekingIs
<1>5. /\ Stream(e) /\ e.names = d.names /\ e.offset = d.offset + 1 /\ e.cookie = d.cookie
      /\ e.same = d.same
  BY <1>4, SkipStream
<1>6. Target(t) = IF c.op = "rewinddir" THEN 0 ELSE d.cookie.offset
  BY DEF Target
<1> HIDE DEF d, c, e
<1>7. e # NoDir
  BY <1>5 DEF Stream, DirRec, NoDir
<1>8. e.offset <= IF c.op = "rewinddir" THEN 0 ELSE e.cookie.offset
  BY <1>2, <1>4, <1>5, <1>6
<1>9. c.op = "seekdir" => (e.cookie.good <=> e.same)
  BY <1>4, <1>5
<1>10. DirOK(c, e, InRoot)
  BY <1>2, <1>4, <1>5, <1>7, <1>8, <1>9 DEF DirOK
<1> QED
  BY <1>1, <1>2, <1>3, <1>4, <1>10, StreamStep

LEMMA SeekOverStreams == ASSUME SInv, NEW t \in Task, SeekOver(t) PROVE Streams'
<1> DEFINE d == dir[t]
           c == call[t]
           back == [d EXCEPT !.told = {}, !.stays = InRoot, !.same = TRUE, !.twice = FALSE]
           told == IF d.cookie.good THEN d.cookie.told ELSE {}
           stays == IF d.cookie.good THEN d.stays ELSE {}
           there == [d EXCEPT !.told = told, !.stays = stays, !.twice = FALSE]
<1>1. Types /\ Streams /\ InRoot \in SUBSET Name
  BY RootIs DEF SInv, TInv
<1>2. /\ dir' = [dir EXCEPT ![t] = IF c.op = "rewinddir" THEN back ELSE there]
      /\ call' = [call EXCEPT ![t] = Idle] /\ UNCHANGED tree /\ c.at = "skip"
      /\ d.offset >= Target(t)
  BY DEF SeekOver, DirStep
<1>3. /\ c.op \in {"seekdir", "rewinddir"} /\ Stream(d) /\ d.names = InRoot
      /\ d.offset = Target(t) /\ (c.op = "seekdir" => (d.cookie.good <=> d.same))
  BY <1>2, SeekingIs
<1>4. d \in DirRec /\ told \in SUBSET Name /\ stays \in SUBSET Name
  BY <1>3 DEF Stream, DirRec
<1>5. /\ back \in DirRec /\ back.id = d.id /\ back.offset = d.offset /\ back.names = d.names
      /\ back.told = {} /\ back.stays = InRoot /\ ~back.twice /\ back.end = d.end /\ back.same
      /\ back.cookie = d.cookie
  BY <1>1, <1>4 DEF DirRec
<1> HIDE DEF told, stays
<1>6. /\ there \in DirRec /\ there.id = d.id /\ there.offset = d.offset /\ there.names = d.names
      /\ there.told = told /\ there.stays = stays /\ ~there.twice /\ there.end = d.end
      /\ there.same = d.same /\ there.cookie = d.cookie
  BY <1>4 DEF DirRec
<1>7. Target(t) = IF c.op = "rewinddir" THEN 0 ELSE d.cookie.offset
  BY DEF Target
<1> HIDE DEF d, c, back, there
<1>8. CASE c.op = "rewinddir"
  <2>1. d.offset = 0 /\ d.id = 0
    BY <1>3, <1>7, <1>8 DEF Stream
  <2>2. Before(InRoot, 0) = {}
    BY <1>1, IdRange DEF Before
  <2>3. Stream(back)
    BY <1>3, <1>5, <2>1 DEF Stream, Reached
  <2>4. Reader(back)
    BY <1>3, <1>5, <2>1, <2>2 DEF Reader
  <2>5. DirOK(Idle, back, InRoot)
    BY <1>3, <1>5, <2>3, <2>4, IdleIs DEF DirOK, Idle
  <2> QED
    BY <1>1, <1>2, <1>8, <2>5, IdleIs, StreamStep
<1>9. CASE c.op = "seekdir"
  <2>1. d.offset = d.cookie.offset /\ (d.cookie.good <=> d.same)
    BY <1>3, <1>7, <1>9
  <2>2. ASSUME d.same
        PROVE  told = Before(d.names, d.id) /\ stays = d.stays
    BY <1>3, <2>1, <2>2 DEF Stream, told, stays
  <2>3. ASSUME ~d.same
        PROVE  told = {} /\ stays = {}
    BY <2>1, <2>3 DEF told, stays
  <2>4. stays \subseteq d.names
    BY <1>3 DEF stays, Stream
  <2>5. Stream(there)
    BY <1>3, <1>6, <2>4 DEF Stream
  <2>6. Reader(there)
    <3>1. ~there.twice /\ (there.same <=> d.same)
      BY <1>6
    <3>2. CASE d.same
      <4>1. there.told = Before(there.names, there.id)
        BY <1>6, <2>2, <3>2
      <4> QED
        BY <3>1, <4>1 DEF Reader
    <3>3. CASE ~d.same
      <4>1. there.told = {} /\ there.stays = {}
        BY <1>6, <2>3, <3>3
      <4> QED
        BY <3>1, <3>3, <4>1 DEF Reader
    <3> QED
      BY <3>2, <3>3
  <2>7. DirOK(Idle, there, InRoot)
    BY <1>3, <1>6, <2>5, <2>6, IdleIs DEF DirOK, Idle
  <2>8. dir' = [dir EXCEPT ![t] = there]
    BY <1>2, <1>9
  <2> QED
    BY <1>1, <1>2, <2>7, <2>8, IdleIs, StreamStep
<1> QED
  BY <1>3, <1>8, <1>9

------------------------------------------------------------------------------
(* What commits change in the root.                                        *)

LEMMA NoEditIs ==
  ASSUME NEW names
  PROVE  NoEdit.is = "none" /\ EditOf(names, NoEdit) /\ NamesAfter(names, NoEdit) = names
  BY DEF NoEdit, EditOf, NamesAfter

LEMMA GoneIs ==
  ASSUME Types, NEW p \in Path
  PROVE  /\ EditOf(InRoot, Gone(p)) /\ Gone(p).is \in {"none", "gone"}
         /\ NamesAfter(InRoot, Gone(p)) = IF Len(p) = 1 THEN InRoot \ {p[1]} ELSE InRoot
<1>1. p[1] \in Name /\ (Len(p) = 1 => p = <<p[1]>>)
  BY PathKinds
<1>2. CASE Len(p) = 1 /\ tree[p] # "none"
  <2>1. Gone(p) = [name |-> p[1], is |-> "gone"]
    BY <1>2 DEF Gone
  <2>2. p[1] \in InRoot
    BY <1>1, <1>2 DEF InRoot
  <2> QED
    BY <1>2, <2>1, <2>2 DEF EditOf, NamesAfter
<1>3. CASE ~(Len(p) = 1 /\ tree[p] # "none")
  <2>1. Gone(p) = NoEdit
    BY <1>3 DEF Gone
  <2>2. Len(p) = 1 => p[1] \notin InRoot
    BY <1>1, <1>3 DEF InRoot
  <2> QED
    BY <2>1, <2>2, NoEditIs
<1> QED
  BY <1>2, <1>3

LEMMA NewIs ==
  ASSUME NEW names, NEW p \in Path, Len(p) = 1 => p[1] \notin names
  PROVE  /\ EditOf(names, New(p)) /\ New(p).is \in {"none", "new"}
         /\ NamesAfter(names, New(p)) = IF Len(p) = 1 THEN names \union {p[1]} ELSE names
<1>1. p[1] \in Name
  BY PathKinds
<1>2. CASE Len(p) = 1
  BY <1>1, <1>2 DEF New, EditOf, NamesAfter
<1>3. CASE Len(p) # 1
  BY <1>3, NoEditIs DEF New
<1> QED
  BY <1>2, <1>3

LEMMA RootAfter ==
  ASSUME Types, NEW p \in Path, NEW v, tree' = [tree EXCEPT ![p] = v]
  PROVE  /\ Len(p) # 1 => InRoot' = InRoot
         /\ Len(p) = 1 => InRoot' = IF v = "none" THEN InRoot \ {p[1]} ELSE InRoot \union {p[1]}
<1>1. p[1] \in Name /\ (Len(p) = 1 => p = <<p[1]>>)
  BY PathKinds
<1>2. tree \in [Path -> {"none", "file", "dir"}]
  BY DEF Types, TypeOK
<1>3. ASSUME NEW n \in Name
      PROVE  n \in InRoot' <=> IF Len(p) = 1 /\ n = p[1] THEN v # "none" ELSE n \in InRoot
  <2> DEFINE r == <<n>>
  <2>1. r \in Path /\ Len(r) = 1 /\ r[1] = n
    BY PathKinds
  <2>2. (n \in InRoot <=> tree[r] # "none") /\ (n \in InRoot' <=> tree'[r] # "none")
    BY DEF InRoot
  <2>3. r = p <=> Len(p) = 1 /\ n = p[1]
    BY <1>1, <2>1
  <2> HIDE DEF r
  <2>4. tree'[r] = IF r = p THEN v ELSE tree[r]
    BY <1>2, <2>1
  <2> QED
    BY <2>2, <2>3, <2>4
<1>4. InRoot \in SUBSET Name /\ InRoot' \in SUBSET Name
  BY DEF InRoot
<1> QED
  BY <1>1, <1>3, <1>4

\* An entry is new, and an entry is removed.
LEMMA PutStreams ==
  ASSUME GoesBackSteady, Types, Streams, NEW t \in Task, NEW c \in Call,
         call' = [call EXCEPT ![t] = c], call[t].at # "skip", c.at # "skip", c.op \notin DirUse,
         NEW p \in Path, NEW v, v # "none", tree[p] = "none", tree' = [tree EXCEPT ![p] = v],
         Commit(NoEdit, New(p), NoEdit)
  PROVE  Streams'
<1>1. Len(p) = 1 => p[1] \notin InRoot
  BY PathKinds DEF InRoot
<1>2. /\ EditOf(InRoot, New(p)) /\ New(p).is \in {"none", "new"}
      /\ NamesAfter(InRoot, New(p)) = IF Len(p) = 1 THEN InRoot \union {p[1]} ELSE InRoot
  BY <1>1, NewIs
<1>3. InRoot' = NamesAfter(InRoot, New(p))
  BY <1>2, RootAfter
<1>4. \A names : NoEdit.is = "none" /\ EditOf(names, NoEdit) /\ NamesAfter(names, NoEdit) = names
  BY NoEditIs
<1> QED
  BY <1>2, <1>3, <1>4, CommitStep

LEMMA RemovedStreams ==
  ASSUME GoesBackSteady, Types, Streams, NEW t \in Task, Returns(t), call[t].at # "skip",
         NEW p \in Path, Removed(p)
  PROVE  Streams'
<1>1. call' = [call EXCEPT ![t] = Idle]
  BY DEF Returns
<1>2. tree' = [tree EXCEPT ![p] = "none"] /\ Commit(NoEdit, NoEdit, Gone(p))
  BY DEF Removed
<1>3. /\ EditOf(InRoot, Gone(p)) /\ Gone(p).is \in {"none", "gone"}
      /\ NamesAfter(InRoot, Gone(p)) = IF Len(p) = 1 THEN InRoot \ {p[1]} ELSE InRoot
  BY GoneIs
<1>4. InRoot' = NamesAfter(InRoot, Gone(p))
  BY <1>2, <1>3, RootAfter
<1>5. \A names : NoEdit.is = "none" /\ EditOf(names, NoEdit) /\ NamesAfter(names, NoEdit) = names
  BY NoEditIs
<1> QED
  BY <1>1, <1>2, <1>3, <1>4, <1>5, IdleIs, CommitStep

LEMMA UnlinkStreams ==
  ASSUME GoesBackSteady, SInv, NEW t \in Task, Unlink(t) \/ Rmdir(t)
  PROVE  Streams'
<1>1. Types /\ Streams
  BY DEF SInv, TInv
<1>2. call[t].op \in {"unlink", "rmdir"} /\ call[t].at # "skip"
  BY DEF Unlink, Rmdir, Calls
<1>3. call[t].path \in Path
  BY <1>1, <1>2, PathOf
<1>4. Removed(call[t].path) /\ Returns(t)
  BY DEF Unlink, Rmdir
<1> QED
  BY <1>1, <1>2, <1>3, <1>4, RemovedStreams

LEMMA MkdirStreams ==
  ASSUME GoesBackSteady, SInv, NEW t \in Task, Mkdir(t)
  PROVE  Streams'
<1> DEFINE p == call[t].path
<1>1. Types /\ Streams
  BY DEF SInv, TInv
<1>2. call[t].op = "mkdir" /\ call[t].at # "skip"
  BY DEF Mkdir, Calls
<1>3. p \in Path
  BY <1>1, <1>2, PathOf
<1>4. /\ call' = [call EXCEPT ![t] = Idle] /\ tree[p] = "none"
      /\ tree' = [tree EXCEPT ![p] = "dir"] /\ Commit(NoEdit, New(p), NoEdit)
  BY DEF Mkdir, Returns
<1> HIDE DEF p
<1> QED
  BY <1>1, <1>2, <1>3, <1>4, IdleIs, PutStreams

LEMMA OpenFileStreams ==
  ASSUME GoesBackSteady, SInv, NEW t \in Task, OpenFile(t)
  PROVE  Streams'
<1> DEFINE c == call[t]
           p == c.path
           b == [c EXCEPT !.at = "opened"]
<1>1. Types /\ Streams
  BY DEF SInv, TInv
<1>2. c.at = "allocated"
  BY DEF OpenFile
<1>3. c \in FdCall
  BY <1>2, CallIs
<1>4. p \in Path /\ c.op \in {"open", "truncate"}
  BY <1>3 DEF FdCall
<1>5. c.op # "open" => b \in Call /\ b.at # "skip" /\ b.op \notin DirUse
  <2> SUFFICES ASSUME c.op # "open" PROVE b \in Call /\ b.at # "skip" /\ b.op \notin DirUse
    OBVIOUS
  <2>1. c.op = "truncate" /\ c \in Call
    BY <1>4, CallIs
  <2>2. b \in FdCall /\ b.at = "opened" /\ b.op = c.op
    BY <1>3, <2>1, NextPlace
  <2> HIDE DEF b
  <2> QED
    BY <2>1, <2>2 DEF Call, DirUse
<1>6. call' = [call EXCEPT ![t] = IF c.op = "open" THEN Idle ELSE b]
  BY DEF OpenFile, Returns, GoesOn
<1>7. \/ UNCHANGED <<tree, dir>>
      \/ /\ tree[p] = "none" /\ tree' = [tree EXCEPT ![p] = "file"]
         /\ Commit(NoEdit, New(p), NoEdit)
  BY DEF OpenFile
<1> DEFINE next == IF c.op = "open" THEN Idle ELSE b
<1>8. next \in Call /\ next.at # "skip" /\ next.op \notin DirUse
  BY <1>5, IdleIs
<1>9. call' = [call EXCEPT ![t] = next] /\ call[t].at # "skip"
  BY <1>2, <1>6
<1> HIDE DEF c, b, p, next
<1>10. CASE UNCHANGED <<tree, dir>>
  BY <1>8, <1>9, <1>10, GoesOnStreams
<1>11. CASE /\ tree[p] = "none" /\ tree' = [tree EXCEPT ![p] = "file"]
            /\ Commit(NoEdit, New(p), NoEdit)
  BY <1>1, <1>4, <1>8, <1>9, <1>11, PutStreams
<1> QED
  BY <1>7, <1>10, <1>11

\* A rename replaces one entry and removes another.
LEMMA RenameStreams ==
  ASSUME GoesBackSteady, SInv, NEW t \in Task, Rename(t)
  PROVE  Streams'
<1> DEFINE p == call[t].path
           q == call[t].to
           a == NamesAfter(InRoot, Gone(q))
           b == NamesAfter(a, New(q))
           root == NamesAfter(b, Gone(p))
<1>1. Types /\ Streams
  BY DEF SInv, TInv
<1>2. p \in Path /\ q \in Path
  BY <1>1, PathOf DEF Rename
<1>3. /\ tree' = [r \in Path |-> IF r = q THEN tree[p]
                                ELSE IF r = Below(q) /\ Below(p) # NoPath THEN tree[Below(p)]
                                ELSE IF r \in {p, Below(p)} THEN "none" ELSE tree[r]]
      /\ Commit(Gone(q), New(q), Gone(p)) /\ tree[p] # "none" /\ p # q
  BY DEF Rename, Renames
<1>4. call' = [call EXCEPT ![t] = Idle] /\ call[t].at # "skip"
  BY DEF Rename, Returns
<1> HIDE DEF p, q
<1>5. /\ p[1] \in Name /\ (Len(p) = 1 => p = <<p[1]>>)
      /\ q[1] \in Name /\ (Len(q) = 1 => q = <<q[1]>>)
  BY <1>2, PathKinds
<1>6. /\ EditOf(InRoot, Gone(q)) /\ Gone(q).is \in {"none", "gone"}
      /\ a = IF Len(q) = 1 THEN InRoot \ {q[1]} ELSE InRoot
  BY <1>1, <1>2, GoneIs
<1>7. /\ EditOf(a, New(q)) /\ New(q).is \in {"none", "new"}
      /\ b = IF Len(q) = 1 THEN a \union {q[1]} ELSE a
  BY <1>2, <1>6, NewIs
<1>8. Len(p) = 1 => p[1] \in b
  <2> SUFFICES ASSUME Len(p) = 1 PROVE p[1] \in b
    OBVIOUS
  <2>1. p[1] \in InRoot
    BY <1>3, <1>5 DEF InRoot
  <2>2. Len(q) = 1 => p[1] # q[1]
    BY <1>3, <1>5
  <2> QED
    BY <1>6, <1>7, <2>1, <2>2
<1>9. /\ EditOf(b, Gone(p)) /\ Gone(p).is \in {"none", "gone"}
      /\ root = IF Len(p) = 1 THEN b \ {p[1]} ELSE b
  <2>1. CASE Len(p) = 1
    <3>1. Gone(p) = [name |-> p[1], is |-> "gone"]
      BY <1>3, <2>1 DEF Gone
    <3> QED
      BY <1>8, <2>1, <3>1 DEF EditOf, NamesAfter
  <2>2. CASE Len(p) # 1
    <3>1. Gone(p) = NoEdit
      BY <2>2 DEF Gone
    <3> QED
      BY <2>2, <3>1, NoEditIs
  <2> QED
    BY <2>1, <2>2
<1> HIDE DEF a, b, root
<1>10. InRoot' = root
  <2>1. InRoot \in SUBSET Name /\ InRoot' \in SUBSET Name
    BY DEF InRoot
  <2>2. root \in SUBSET Name
    BY <1>5, <1>6, <1>7, <1>9, <2>1
  <2>3. Len(p) = 1 /\ Len(q) = 1 => p[1] # q[1]
    BY <1>3, <1>5
  <2>4. ASSUME NEW n \in Name
        PROVE  n \in InRoot' <=> n \in root
    <3> DEFINE r == <<n>>
    <3>1. r \in Path /\ Len(r) = 1 /\ r[1] = n
      BY PathKinds
    <3>2. (n \in InRoot <=> tree[r] # "none") /\ (n \in InRoot' <=> tree'[r] # "none")
      BY DEF InRoot
    <3>3. (r = q <=> Len(q) = 1 /\ n = q[1]) /\ (r = p <=> Len(p) = 1 /\ n = p[1])
      BY <1>5, <3>1
    <3> HIDE DEF r
    <3>4. r # Below(q) /\ r # Below(p)
      BY <1>2, <3>1, BelowIs, PathKinds
    <3>5. tree'[r] = IF r = q THEN tree[p] ELSE IF r = p THEN "none" ELSE tree[r]
      BY <1>3, <3>1, <3>4
    <3>6. n \in InRoot' <=> r = q \/ (r # p /\ n \in InRoot)
      BY <1>3, <3>2, <3>5
    <3>7. n \in root <=> (Len(q) = 1 /\ n = q[1]) \/ (~(Len(p) = 1 /\ n = p[1]) /\ n \in InRoot)
      BY <1>6, <1>7, <1>9, <2>3
    <3> QED
      BY <3>3, <3>6, <3>7
  <2> QED
    BY <2>1, <2>2, <2>4
<1>11. Idle.at # "skip" /\ Idle.op \notin DirUse /\ Idle \in Call
  BY IdleIs
<1>12. {Gone(q).is, New(q).is, Gone(p).is} \subseteq {"none", "gone", "new"}
  BY <1>6, <1>7, <1>9
<1>13. /\ EditOf(InRoot, Gone(q)) /\ EditOf(NamesAfter(InRoot, Gone(q)), New(q))
       /\ EditOf(NamesAfter(NamesAfter(InRoot, Gone(q)), New(q)), Gone(p))
       /\ InRoot' = NamesAfter(NamesAfter(NamesAfter(InRoot, Gone(q)), New(q)), Gone(p))
  BY <1>6, <1>7, <1>9, <1>10 DEF a, b, root
<1> QED
  BY <1>1, <1>3, <1>4, <1>11, <1>12, <1>13, CommitStep

------------------------------------------------------------------------------
(* All steps, and the theorem.                                             *)

LEMMA InitStreams == Init => Streams
<1> SUFFICES ASSUME Init PROVE Streams
  OBVIOUS
<1>1. dir = [t \in Task |-> NoDir] /\ call = [t \in Task |-> Idle]
  BY DEF Init
<1>2. DirOK(Idle, NoDir, InRoot)
  BY IdleIs DEF DirOK, Idle
<1> QED
  BY <1>1, <1>2 DEF Streams

LEMMA StutterStreams == ASSUME SInv, UNCHANGED vars PROVE Streams'
<1>1. UNCHANGED <<tree, call, dir>>
  BY DEF vars
<1>2. InRoot' = InRoot
  BY <1>1 DEF InRoot
<1> QED
  BY <1>1, <1>2 DEF SInv, Streams

LEMMA WorksStreams ==
  ASSUME GoesBackSteady, SInv, NEW t \in Task, Works(t)
  PROVE  Streams'
  BY FileStreams, OpenAllocateStreams, OpenFileStreams, TruncateOpenedStreams,
     TransferBeginStreams, CheckNamesStreams, UnlinkStreams, RenameStreams, MkdirStreams,
     OpenDirStreams, CloseDirStreams, ReadDirStreams, TellDirStreams, SeekDirStreams,
     SkipEntryStreams, SeekOverStreams
  DEF Works

LEMMA StreamInvariance == ASSUME GoesBackSteady PROVE Spec => []Streams
<1>1. Init => Streams
  BY InitStreams
<1>2. TInv /\ Streams /\ [Next]_vars => Streams'
  <2> SUFFICES ASSUME SInv, [Next]_vars PROVE Streams'
    BY DEF SInv
  <2> QED
    BY StutterStreams, RequestStreams, WorksStreams DEF Next
<1> QED
  BY <1>1, <1>2, TableInvariance, PTL DEF Spec

\* A stream tells every name that is there from its beginning to its end, and
\* none twice, when a reader goes back only in a directory that has not changed
\* (lfs_dir_t in the list that commits correct; readdir, telldir and seekdir
\* over it).
THEOREM EntriesAreToldOnce ==
  ASSUME SeeksAcrossChanges = FALSE
  PROVE  Spec => []EachEntryOnce
<1>1. GoesBackSteady
  BY DEF GoesBackSteady
<1>2. ASSUME Streams
      PROVE  EachEntryOnce
  <2> SUFFICES ASSUME NEW t \in Task, dir[t] # NoDir, call[t].at # "skip"
               PROVE  ~dir[t].twice /\ (dir[t].end => dir[t].stays \subseteq dir[t].told)
    BY DEF EachEntryOnce
  <2> DEFINE d == dir[t]
  <2>1. Stream(d) /\ Reader(d)
    BY <1>2 DEF Streams, DirOK
  <2> HIDE DEF d
  <2>2. d.names \in SUBSET Name /\ d.id \in Nat /\ d.stays \subseteq d.names
    BY <2>1 DEF Stream, DirRec
  <2>3. Cardinality(d.names) \in Nat
    BY <2>2, NamesFinite
  <2>4. \A n \in d.names : Id(n, d.names) \in Nat /\ Id(n, d.names) <= Cardinality(d.names)
    BY <2>2, IdRange
  <2>5. ASSUME d.end
        PROVE  d.stays \subseteq d.told
    <3>1. d.id > Cardinality(d.names)
      BY <2>1, <2>5 DEF Stream
    <3>2. \A n \in d.names : Id(n, d.names) < d.id
      BY <2>2, <2>3, <2>4, <3>1
    <3>3. d.stays \subseteq Before(d.names, d.id)
      BY <2>2, <3>2 DEF Before
    <3> QED
      BY <2>1, <3>3 DEF Reader
  <2>6. ~d.twice
    BY <2>1 DEF Reader
  <2> QED
    BY <2>5, <2>6 DEF d
<1> QED
  BY <1>1, <1>2, StreamInvariance, PTL

------------------------------------------------------------------------------
(* What the refinement needs: a file that is somewhere is in the tree, and *)
(* the names of a call that has checked them are of no descriptor.         *)

At(i) == files[cache[i]]

InTable == HeldAt \subseteq File
Whole == /\ \A p \in Path : Len(p) = 2 /\ tree[p] # "none" => tree[<<p[1]>>] = "dir"
         /\ \A p \in Path : tree[p] = "dir" => Below(p) # NoPath
Named == \A i \in HeldAt : /\ At(i).open => At(i).path # NoPath
                           /\ At(i).is # NoPath => tree[At(i).is] = "file"
Unnamed == \A t \in Task : call[t].at = "checked" =>
  \A i \in HeldAt : /\ At(i).path # call[t].path
                    /\ call[t].op = "rename" => At(i).path # call[t].to

\* A call of truncate creates nothing and has no descriptor at first; a
\* directory is not moved below itself.
Sound(c) == /\ c.op = "truncate" => ~c.create /\ (c.at = "start" => c.fd = Null)
            /\ c.op = "rename" => c.to # <<c.path[1], c.path[1]>>
Shapes == \A t \in Task : Sound(call[t])

OInv == InTable /\ Whole /\ Named /\ Unnamed /\ Shapes

LEMMA AtIs ==
  ASSUME Types, NEW i \in HeldAt
  PROVE  cache[i] \in File /\ At(i) \in FileRec /\ i \in Nat /\ i # Null
  BY DEF Types, TypeOK, FileRec, HeldAt, At, Null

\* The search for a name sees all open files.
LEMMA HasFdIs ==
  ASSUME Types, Table, NEW p
  PROVE  HasFd(p) <=> \E i \in HeldAt : At(i).path = p
<1>1. ASSUME NEW i \in HeldAt
      PROVE  Cardinality({j \in 1..i : cache[j] # Null}) <= fd_count
  <2> DEFINE before == {j \in 1..i : cache[j] # Null}
  <2>1. before \in SUBSET HeldAt
    BY DEF Types, TypeOK, HeldAt
  <2>2. IsFiniteSet(HeldAt) /\ Cardinality(HeldAt) = fd_count
    BY HeldCount
  <2> QED
    BY <2>1, <2>2, FS_Subset
<1> QED
  BY <1>1 DEF HasFd, HeldAt, At

\* No more descriptors are in use than there are files.
LEMMA FirstFreeInTable ==
  ASSUME Types, Table, NEW f \in File, f \notin Range(list)
  PROVE  FirstFree(Grown) \in File
<1> DEFINE k == FirstFree(Grown)
           held == [j \in 1..k |-> IF j = k THEN f ELSE cache[j]]
<1>1. /\ Grown \in Seq(File \union {Null})
      /\ \A i \in DOMAIN cache : i \in DOMAIN Grown /\ Grown[i] = cache[i]
      /\ \A i \in DOMAIN Grown \ DOMAIN cache : Grown[i] = Null
      /\ \E i \in DOMAIN Grown : Grown[i] = Null
  BY GrownIs
<1>2. k \in DOMAIN Grown /\ \A j \in 1..k - 1 : Grown[j] # Null
  BY <1>1, FirstFreeIs
<1>3. k \in Nat /\ k >= 1 /\ DOMAIN Grown = 1..Len(Grown) /\ Len(Grown) \in Nat
  BY <1>1, <1>2
<1> HIDE DEF k
<1>4. \A j \in 1..k : j # k => j \in HeldAt /\ cache[j] \in File /\ cache[j] # f
  <2> SUFFICES ASSUME NEW j \in 1..k, j # k
               PROVE  j \in HeldAt /\ cache[j] \in File /\ cache[j] # f
    OBVIOUS
  <2>1. j \in 1..k - 1 /\ j \in DOMAIN Grown
    BY <1>2, <1>3
  <2>2. j \in HeldAt
    BY <1>1, <1>2, <2>1 DEF HeldAt
  <2>3. cache[j] \in File /\ cache[j] \in Range(list)
    BY <2>2, AtIs, HeldCount
  <2> QED
    BY <2>2, <2>3
<1>5. held \in [1..k -> File] /\ \A i, j \in 1..k : held[i] = held[j] => i = j
  BY <1>4 DEF Table, OncePerTable, HeldAt
<1>6. held \in Injection(1..k, File)
  BY <1>5, Zenon DEF Injection, IsInjective
<1>7. IsFiniteSet(1..k) /\ Cardinality(1..k) = k /\ MaxFiles \in Nat
      /\ IsFiniteSet(File) /\ Cardinality(File) = MaxFiles
  BY <1>3, CountOfFirst, VfsAssumption DEF File
<1> HIDE DEF held
<1>8. k <= MaxFiles
  BY <1>6, <1>7, FS_Injection
<1> QED
  BY <1>3, <1>7, <1>8 DEF File, k

\* A step that changes neither the tree nor what is open.
SameOpen == /\ HeldAt' = HeldAt
            /\ \A i \in HeldAt : /\ At(i)'.path = At(i).path /\ At(i)'.is = At(i).is
                                 /\ At(i)'.open = At(i).open

LEMMA SameHeld ==
  ASSUME Types, Table, TableKeeps
  PROVE  HeldAt' = HeldAt /\ \A i \in HeldAt : cache'[i] = cache[i]
<1>1. cache \in Seq(File \union {Null})
  BY DEF Types, TypeOK
<1>2. /\ \A i \in DOMAIN cache : i \in DOMAIN cache' /\ cache'[i] = cache[i]
      /\ \A i \in DOMAIN cache' \ DOMAIN cache : cache'[i] = Null
  <2>1. CASE cache' = cache
    BY <2>1
  <2>2. CASE cache' = Grown
    BY <2>2, GrownIs
  <2> QED
    BY <2>1, <2>2 DEF TableKeeps
<1> QED
  BY <1>2 DEF HeldAt

LEMMA FilesSameOpen ==
  ASSUME Types, Table, TableKeeps,
         \A f \in File : /\ files'[f].path = files[f].path /\ files'[f].is = files[f].is
                         /\ files'[f].open = files[f].open
  PROVE  SameOpen
<1>1. HeldAt' = HeldAt /\ \A i \in HeldAt : cache'[i] = cache[i] /\ cache[i] \in File
  BY SameHeld, AtIs
<1> QED
  BY <1>1 DEF SameOpen, At

\* Who has the lock is the only one that is in the middle of a call.
LEMMA OneInside ==
  ASSUME TInv, NEW t \in Task, Takes(t) \/ call[t].at \in {"allocated", "checked", "there"}
  PROVE  \A u \in Task : u # t => call[u].at \notin {"allocated", "checked", "there"}
  BY VfsAssumption DEF TInv, LockHeld, Takes

LEMMA CallsKeep ==
  ASSUME TInv, OInv, NEW t \in Task, NEW d \in Call, call' = [call EXCEPT ![t] = d], Sound(d),
         HeldAt' = HeldAt,
         \A i \in HeldAt : At(i)'.path = At(i).path
                           \/ \A u \in Task : u # t => call[u].at # "checked",
         d.at = "checked" => \A i \in HeldAt : /\ At(i)'.path # d.path
                                               /\ d.op = "rename" => At(i)'.path # d.to
  PROVE  Unnamed' /\ Shapes'
<1>1. call'[t] = d /\ \A u \in Task : u # t => call'[u] = call[u]
  BY NextCall DEF TInv
<1>2. Shapes'
  BY <1>1 DEF Shapes, OInv
<1>3. ASSUME NEW u \in Task, call'[u].at = "checked", NEW i \in HeldAt
      PROVE  /\ At(i)'.path # call'[u].path
             /\ call'[u].op = "rename" => At(i)'.path # call'[u].to
  <2>1. CASE u = t
    BY <1>1, <1>3, <2>1
  <2>2. CASE u # t
    <3>1. call'[u] = call[u] /\ At(i)'.path = At(i).path
      BY <1>1, <1>3, <2>2
    <3> QED
      BY <1>3, <3>1 DEF OInv, Unnamed
  <2> QED
    BY <2>1, <2>2
<1> QED
  BY <1>2, <1>3 DEF Unnamed

\* A step that leaves alone what is open, and keeps the open files in the tree.
LEMMA OpenKeep ==
  ASSUME TInv, OInv, NEW t \in Task, NEW d \in Call, call' = [call EXCEPT ![t] = d], Sound(d),
         d.at = "checked" => \A i \in HeldAt : /\ At(i).path # d.path
                                               /\ d.op = "rename" => At(i).path # d.to,
         SameOpen, Whole',
         \A i \in HeldAt : At(i).is # NoPath => tree'[At(i).is] = "file"
  PROVE  OInv'
<1>1. /\ HeldAt' = HeldAt
      /\ \A i \in HeldAt : /\ At(i)'.path = At(i).path /\ At(i)'.is = At(i).is
                           /\ At(i)'.open = At(i).open
  BY DEF SameOpen
<1>2. Unnamed' /\ Shapes'
  BY <1>1, CallsKeep
<1>3. InTable'
  BY <1>1 DEF OInv, InTable
<1>4. Named'
  BY <1>1 DEF OInv, Named
<1> QED
  BY <1>2, <1>3, <1>4 DEF OInv

LEMMA QuietKeep ==
  ASSUME TInv, OInv, NEW t \in Task, NEW d \in Call, call' = [call EXCEPT ![t] = d], Sound(d),
         d.at = "checked" => \A i \in HeldAt : /\ At(i).path # d.path
                                               /\ d.op = "rename" => At(i).path # d.to,
         SameOpen, UNCHANGED tree
  PROVE  OInv'
<1>1. Whole'
  BY DEF OInv, Whole
<1>2. \A i \in HeldAt : At(i).is # NoPath => tree'[At(i).is] = "file"
  BY DEF OInv, Named
<1> QED
  BY <1>1, <1>2, OpenKeep

LEMMA IdleSound == Sound(Idle) /\ Idle.at # "checked" /\ Idle \in Call
                   /\ Idle.op = "none" /\ Idle.at = "none"
  BY DEF Sound, Idle, Call

LEMMA ErrorSound == Sound(Error) /\ Error.at # "checked" /\ Error \in Call
                    /\ Error.op = "error" /\ Error.at = "none"
  BY DEF Sound, Error, Call

LEMMA UntouchedOpen ==
  ASSUME Types, Table, UNCHANGED <<files, cache, list, fd_count>>
  PROVE  SameOpen
  BY FilesSameOpen, SameTableKeeps

\* The place of a file is moved.
LEMMA MovedOpen ==
  ASSUME TInv, NEW fd \in HeldAt, NEW n, MovesTo(fd, n), UNCHANGED <<cache, list, fd_count>>
  PROVE  /\ SameOpen /\ At(fd)'.pos = n
         /\ \A i \in HeldAt : i # fd => At(i)'.pos = At(i).pos
<1>1. cache[fd] \in File /\ files \in [File -> FileRec] /\ Types /\ Table
  BY AtIs DEF TInv, Types, TypeOK, FileRec
<1>2. files' = [files EXCEPT ![cache[fd]].pos = n]
  BY DEF MovesTo
<1>3. ASSUME NEW f \in File
      PROVE  /\ files'[f].path = files[f].path /\ files'[f].is = files[f].is
             /\ files'[f].open = files[f].open
             /\ files'[f].pos = IF f = cache[fd] THEN n ELSE files[f].pos
  BY <1>1, <1>2 DEF FileRec
<1>4. SameOpen
  BY <1>1, <1>3, FilesSameOpen, SameTableKeeps
<1>5. \A i \in HeldAt : i # fd => cache[i] # cache[fd] /\ cache[i] \in File
  BY <1>1, AtIs DEF Table, OncePerTable, HeldAt
<1> QED
  BY <1>1, <1>3, <1>4, <1>5 DEF At

------------------------------------------------------------------------------
(* What OpenFiles sees: the handles, and what tasks have asked for.        *)

Shown == [fd \in Handles |-> [name |-> files[cache[fd]].path, file |-> files[cache[fd]].is,
                              place |-> PlaceFor(fd)]]
Asked == [t \in Task |-> call[t].op]
Truncates(c, fd) == c.op = "truncate" /\ c.fd = fd

LEMMA HandlesAre ==
  \A fd : fd \in Handles <=> /\ fd \in HeldAt /\ At(fd).open
                             /\ \A u \in Task : ~Truncates(call[u], fd)
  BY DEF Handles, HeldAt, At, Truncates

LEMMA ShownIs ==
  /\ DOMAIN Shown = Handles
  /\ \A fd \in Handles :
       Shown[fd] = [name |-> At(fd).path, file |-> At(fd).is, place |-> PlaceFor(fd)]
  BY DEF Shown, At

\* At most one task borrows a place, the one that has the lock.
LEMMA PlaceForIs ==
  ASSUME TInv, NEW fd
  PROVE  /\ \A u \in Task : Borrows(u, fd) => PlaceFor(fd) = call[u].saved
         /\ (\A u \in Task : ~Borrows(u, fd)) => PlaceFor(fd) = At(fd).pos
<1>1. \A u, v \in Task : Borrows(u, fd) /\ Borrows(v, fd) => u = v
  BY DEF TInv, LockHeld, Borrows
<1> QED
  BY <1>1 DEF PlaceFor, PlaceOf, At

LEMMA SamePlace ==
  ASSUME TInv, TInv', NEW t \in Task, NEW d \in Call, call' = [call EXCEPT ![t] = d], NEW fd,
         ~Borrows(t, fd), ~(d.at = "there" /\ d.fd = fd), At(fd)'.pos = At(fd).pos
  PROVE  PlaceFor(fd)' = PlaceFor(fd)
<1>1. call'[t] = d /\ \A u \in Task : u # t => call'[u] = call[u]
  BY NextCall DEF TInv
<1>2. \A u \in Task : Borrows(u, fd)' <=> Borrows(u, fd)
  BY <1>1 DEF Borrows
<1>3. /\ \A u \in Task : Borrows(u, fd)' => PlaceFor(fd)' = call'[u].saved
      /\ (\A u \in Task : ~Borrows(u, fd)') => PlaceFor(fd)' = At(fd)'.pos
  <2>1. \A u, v \in Task : Borrows(u, fd)' /\ Borrows(v, fd)' => u = v
    BY DEF TInv, LockHeld, Borrows
  <2> QED
    BY <2>1 DEF PlaceFor, PlaceOf, At
<1>4. /\ \A u \in Task : Borrows(u, fd) => PlaceFor(fd) = call[u].saved
      /\ (\A u \in Task : ~Borrows(u, fd)) => PlaceFor(fd) = At(fd).pos
  BY PlaceForIs
<1>5. CASE \E u \in Task : Borrows(u, fd)
  <2>1. PICK u \in Task : Borrows(u, fd)
    BY <1>5
  <2>2. u # t
    BY <2>1
  <2> QED
    BY <1>1, <1>2, <1>3, <1>4, <2>1, <2>2
<1>6. CASE \A u \in Task : ~Borrows(u, fd)
  BY <1>2, <1>3, <1>4, <1>6
<1> QED
  BY <1>5, <1>6

SameHandle(fd) == /\ At(fd)'.path = At(fd).path /\ At(fd)'.is = At(fd).is
                  /\ PlaceFor(fd)' = PlaceFor(fd)

LEMMA SameShown ==
  ASSUME Handles' = Handles, \A fd \in Handles : SameHandle(fd)
  PROVE  Shown' = Shown
  BY DEF Shown, At, SameHandle

\* The handles, when the open files are the same and nothing moves.
LEMMA SameHandles ==
  ASSUME TInv, NEW t \in Task, NEW d \in Call, call' = [call EXCEPT ![t] = d],
         HeldAt' = HeldAt, \A fd \in HeldAt : At(fd)'.open = At(fd).open,
         \A fd \in HeldAt : At(fd).open => (Truncates(d, fd) <=> Truncates(call[t], fd))
  PROVE  Handles' = Handles
<1>1. call'[t] = d /\ \A u \in Task : u # t => call'[u] = call[u]
  BY NextCall DEF TInv
<1>2. \A fd : fd \in Handles <=> /\ fd \in HeldAt /\ At(fd).open
                                 /\ \A u \in Task : ~Truncates(call[u], fd)
  BY HandlesAre
<1>3. \A fd : fd \in Handles' <=> /\ fd \in HeldAt' /\ At(fd)'.open
                                  /\ \A u \in Task : ~Truncates(call'[u], fd)
  BY DEF Handles, HeldAt, At, Truncates
<1>5. ASSUME NEW fd \in HeldAt, At(fd).open
      PROVE  (\A u \in Task : ~Truncates(call'[u], fd)) <=> (\A u \in Task : ~Truncates(call[u], fd))
  BY <1>1, <1>5
<1>6. \A fd : fd \in Handles' <=> fd \in Handles
  BY <1>2, <1>3, <1>5
<1> QED
  BY <1>6

LEMMA QuietShown ==
  ASSUME TInv, TInv', NEW t \in Task, NEW d \in Call, call' = [call EXCEPT ![t] = d], SameOpen,
         \A fd \in HeldAt : At(fd).open => (Truncates(d, fd) <=> Truncates(call[t], fd)),
         \A fd \in HeldAt : At(fd)'.pos = At(fd).pos,
         call[t].at # "there", d.at # "there"
  PROVE  Shown' = Shown
<1>1. Handles' = Handles
  BY SameHandles DEF SameOpen
<1>2. ASSUME NEW fd \in Handles
      PROVE  SameHandle(fd)
  <2>1. fd \in HeldAt
    BY HandlesAre
  <2> QED
    BY <2>1, SamePlace DEF SameOpen, Borrows, SameHandle
<1> QED
  BY <1>1, <1>2, SameShown

\* A step of OpenFiles, or none.
LEMMA AskedAfter ==
  ASSUME TInv, NEW t \in Task, NEW d \in Call, call' = [call EXCEPT ![t] = d]
  PROVE  /\ Asked' = [Asked EXCEPT ![t] = d.op] /\ Asked[t] = call[t].op
         /\ d.op = call[t].op => Asked' = Asked
<1>1. call'[t] = d /\ \A u \in Task : u # t => call'[u] = call[u]
  BY NextCall DEF TInv
<1>2. Asked' = [u \in Task |-> call'[u].op] /\ Asked = [u \in Task |-> call[u].op]
  BY DEF Asked
<1>3. \A u \in Task : Asked'[u] = IF u = t THEN d.op ELSE Asked[u]
  BY <1>1, <1>2
<1>4. Asked' = [u \in Task |-> Asked'[u]] /\ Asked = [u \in Task |-> Asked[u]]
      /\ Asked[t] = call[t].op
  BY <1>2
<1> HIDE DEF Asked
<1>5. Asked' = [Asked EXCEPT ![t] = d.op]
  BY <1>3, <1>4
<1>6. ASSUME d.op = call[t].op
      PROVE  \A u \in Task : Asked'[u] = Asked[u]
  BY <1>3, <1>4, <1>6
<1> QED
  BY <1>4, <1>5, <1>6

\* Only a pread or pwrite whose first seek fails leaves the lock.
LockMoves(t) == lock' \in {lock, Given, [lock EXCEPT !.owner = t]}

LEMMA LockLeaves ==
  ASSUME TInv, NEW t \in Task, LockMoves(t)
  PROVE  lock'.leaked = lock.leaked
  BY DEF TInv, Types, TypeOK, LockMoves, Given

LEMMA NoStep ==
  ASSUME TInv, NEW t \in Task, NEW d \in Call, call' = [call EXCEPT ![t] = d], LockMoves(t),
         d.op = call[t].op, UNCHANGED tree, Shown' = Shown
  PROVE  UNCHANGED O!vars
<1>1. Asked' = Asked
  BY AskedAfter
<1> QED
  BY <1>1, LockLeaves DEF O!vars, Shown, Asked

LEMMA NothingStep ==
  ASSUME TInv, NEW t \in Task, call' = [call EXCEPT ![t] = Idle], LockMoves(t), UNCHANGED tree,
         Shown' = Shown
  PROVE  O!Next
<1>1. Asked' = [Asked EXCEPT ![t] = "none"]
  BY AskedAfter, IdleSound
<1>2. O!Nothing(t)
  BY <1>1, LockLeaves DEF O!Nothing, O!Return, Asked, Shown
<1> QED
  BY <1>2 DEF O!Next

------------------------------------------------------------------------------
(* Every step is one of OpenFiles, or none.                                *)

Implements == OInv' /\ (O!Next \/ UNCHANGED O!vars)

\* Steps that do not touch what is open.
LEMMA Untouched ==
  ASSUME Types, Table, TableKeeps, UNCHANGED files
  PROVE  SameOpen /\ \A i \in HeldAt : At(i)'.pos = At(i).pos
<1>1. SameOpen
  BY FilesSameOpen
<1>2. \A i \in HeldAt : cache'[i] = cache[i]
  BY SameHeld
<1> QED
  BY <1>1, <1>2 DEF At

LEMMA GoesOnStep ==
  ASSUME TInv, TInv', OInv, NEW t \in Task, NEW d \in Call, call' = [call EXCEPT ![t] = d],
         LockMoves(t), Sound(d), d.op = call[t].op, call[t].at # "there", d.at # "there",
         d.at = "checked" => \A i \in HeldAt : /\ At(i).path # d.path
                                               /\ d.op = "rename" => At(i).path # d.to,
         d.op = "truncate" => d.fd = call[t].fd,
         UNCHANGED <<files, tree>>, TableKeeps
  PROVE  Implements
<1>1. SameOpen /\ \A i \in HeldAt : At(i)'.pos = At(i).pos
  BY Untouched DEF TInv
<1>2. OInv'
  BY <1>1, QuietKeep
<1>3. \A fd \in HeldAt : Truncates(d, fd) <=> Truncates(call[t], fd)
  BY DEF Truncates
<1>4. Shown' = Shown
  BY <1>1, <1>3, QuietShown
<1>5. UNCHANGED O!vars
  BY <1>4, NoStep
<1> QED
  BY <1>2, <1>5 DEF Implements

LEMMA ReturnStep ==
  ASSUME TInv, TInv', OInv, NEW t \in Task, call' = [call EXCEPT ![t] = Idle], LockMoves(t),
         call[t].at # "there", call[t].op = "truncate" => call[t].at = "start",
         UNCHANGED <<files, tree>>, TableKeeps
  PROVE  Implements
<1>1. SameOpen /\ \A i \in HeldAt : At(i)'.pos = At(i).pos
  BY Untouched DEF TInv
<1>2. Sound(Idle) /\ Idle.at # "checked" /\ Idle \in Call /\ Idle.op = "none" /\ Idle.at = "none"
  BY IdleSound
<1>3. OInv'
  BY <1>1, <1>2, QuietKeep
<1>4. \A fd \in HeldAt : ~Truncates(Idle, fd) /\ ~Truncates(call[t], fd)
  BY <1>2, AtIs DEF Truncates, OInv, Shapes, Sound, TInv
<1>5. Shown' = Shown
  BY <1>1, <1>2, <1>4, QuietShown
<1>6. O!Next
  BY <1>5, NothingStep
<1> QED
  BY <1>3, <1>6 DEF Implements

LEMMA PlainSteps ==
  ASSUME TInv, TInv', OInv, NEW t \in Task,
         \/ Use(t) /\ Returns(t) /\ UNCHANGED files
         \/ NoMemory(t) \/ NamesRefused(t) \/ OpenDir(t) \/ CloseDir(t) \/ ReadDir(t)
         \/ TellDir(t) \/ SeekOver(t)
  PROVE  Implements
<1>1. call' = [call EXCEPT ![t] = Idle] /\ LockMoves(t)
  BY DEF NoMemory, NamesRefused, OpenDir, CloseDir, ReadDir, TellDir, SeekOver, Returns, LockMoves
<1>2. UNCHANGED <<files, tree>> /\ TableKeeps
  BY DEF Use, NoMemory, NamesRefused, OpenDir, CloseDir, ReadDir, TellDir, SeekOver, DirStep,
         TableKeeps
<1>3. call[t].at \in {"start", "checked", "skip"}
  BY DEF Use, NoMemory, NamesRefused, OpenDir, CloseDir, ReadDir, TellDir, SeekOver, Calls
<1>4. call[t].op = "truncate" => call[t].at = "start"
  <2>1. call[t] \in Call
    BY DEF TInv, Types
  <2> QED
    BY <1>3, <2>1, CallKinds
<1> QED
  BY <1>1, <1>2, <1>3, <1>4, ReturnStep

LEMMA SeekingSteps ==
  ASSUME TInv, TInv', OInv, NEW t \in Task, SeekDir(t) \/ SkipEntry(t)
  PROVE  Implements
<1> DEFINE c == call[t]
           d == [c EXCEPT !.at = "skip"]
<1>1. c \in Call /\ UNCHANGED <<files, tree>> /\ TableKeeps
  BY DEF SeekDir, SkipEntry, DirStep, TableKeeps, TInv, Types
<1>2. CASE SeekDir(t)
  <2>1. c.at = "start" /\ c.op \in {"seekdir", "rewinddir"} /\ call' = [call EXCEPT ![t] = d]
    BY <1>2 DEF SeekDir, Calls
  <2>4. LockMoves(t)
    BY <1>2 DEF SeekDir, LockMoves
  <2>2. d \in Call /\ d.at = "skip" /\ d.op = c.op
    BY <1>1, <2>1, NextPlace
  <2> HIDE DEF d
  <2>3. Sound(d)
    BY <2>1, <2>2 DEF Sound
  <2> QED
    BY <1>1, <2>1, <2>2, <2>3, <2>4, GoesOnStep
<1>3. CASE SkipEntry(t)
  <2>1. c.at = "skip" /\ call' = [call EXCEPT ![t] = c] /\ LockMoves(t)
    BY <1>3 DEF SkipEntry, TInv, Types, LockMoves
  <2>2. Sound(c)
    BY DEF OInv, Shapes
  <2> QED
    BY <1>1, <2>1, <2>2, GoesOnStep
<1> QED
  BY <1>2, <1>3

LEMMA TruncateOpenedStep ==
  ASSUME TInv, TInv', OInv, NEW t \in Task, TruncateOpened(t)
  PROVE  Implements
<1> DEFINE c == call[t]
           d == [c EXCEPT !.at = "close"]
<1>1. c \in Call /\ c.at = "opened" /\ call' = [call EXCEPT ![t] = d]
      /\ UNCHANGED <<files, tree>> /\ TableKeeps /\ LockMoves(t)
  BY DEF TruncateOpened, GoesOn, TableKeeps, TInv, Types, LockMoves
<1>2. c \in FdCall /\ Sound(c)
  BY <1>1, CallKinds DEF OInv, Shapes
<1>3. d \in FdCall /\ d.at = "close" /\ d.op = "truncate" /\ c.op = "truncate" /\ d.fd = c.fd
      /\ d.create = c.create
  BY <1>1, <1>2 DEF FdCall
<1> HIDE DEF d
<1>4. d \in Call /\ Sound(d)
  BY <1>2, <1>3 DEF Call, Sound
<1> QED
  BY <1>1, <1>3, <1>4, GoesOnStep

LEMMA CheckNamesStep ==
  ASSUME TInv, TInv', OInv, NEW t \in Task, CheckNames(t)
  PROVE  Implements
<1> DEFINE c == call[t]
           d == [c EXCEPT !.at = "checked"]
<1>1. c \in Call /\ c.at = "start" /\ c.op \in {"unlink", "rename"}
      /\ UNCHANGED <<files, tree>> /\ TableKeeps
  BY DEF CheckNames, Calls, TableKeeps, TInv, Types
<1>2. CASE Returns(t)
  BY <1>1, <1>2, ReturnStep DEF Returns, LockMoves
<1>3. CASE ~(HasFd(c.path) \/ (c.op = "rename" /\ HasFd(c.to))) /\ Holds(t, d)
  <2>1. d \in Call /\ d.at = "checked" /\ d.op = c.op /\ d.path = c.path
        /\ (c.op = "rename" => d.to = c.to)
    BY <1>1, NextPlace
  <2>2. call' = [call EXCEPT ![t] = d] /\ LockMoves(t)
    BY <1>3 DEF Holds, LockMoves
  <2> HIDE DEF d
  <2>3. Sound(d)
    BY <1>1, <2>1 DEF Sound, OInv, Shapes
  <2>4. \A i \in HeldAt : At(i).path # d.path /\ (d.op = "rename" => At(i).path # d.to)
    BY <1>3, <2>1, HasFdIs DEF TInv
  <2> QED
    BY <1>1, <2>1, <2>2, <2>3, <2>4, GoesOnStep
<1> QED
  BY <1>2, <1>3 DEF CheckNames

\* What a task asks for.
LEMMA RequestStep ==
  ASSUME TInv, TInv', OInv, NEW t \in Task, Request(t)
  PROVE  Implements
<1>1. PICK c \in Requests(t) : call' = [call EXCEPT ![t] = c]
  BY DEF Request
<1>2. c \in Call /\ c.at = "start" /\ call[t] \in {Idle, Error} /\ UNCHANGED <<files, tree, lock>>
      /\ TableKeeps
  BY RequestIs DEF Request, TableKeeps
<1>3. Sound(c)
  <2>1. c.op = "truncate" => c \in [op : {"truncate"}, at : {"start"}, path : Opens,
                                    create : {FALSE}, fd : {Null}]
    BY DEF Requests, DirCalls
  <2>2. c.op = "rename" => c.to # <<c.path[1], c.path[1]>>
    BY DEF Requests, DirCalls
  <2> QED
    BY <2>1, <2>2 DEF Sound
<1>4. SameOpen /\ \A i \in HeldAt : At(i)'.pos = At(i).pos
  BY <1>2, Untouched DEF TInv
<1>5. OInv'
  BY <1>1, <1>2, <1>3, <1>4, QuietKeep
<1>6. call[t].at = "none" /\ call[t].op \in {"none", "error"}
  BY <1>2, IdleSound, ErrorSound
<1>7. \A fd \in HeldAt : ~Truncates(c, fd) /\ ~Truncates(call[t], fd)
  BY <1>2, <1>3, <1>6, AtIs DEF Truncates, Sound, TInv
<1>8. Shown' = Shown
  BY <1>1, <1>2, <1>4, <1>6, <1>7, QuietShown
<1>9. Asked' = [Asked EXCEPT ![t] = c.op] /\ Asked[t] \in {"none", "error"}
  BY <1>1, <1>2, <1>6, AskedAfter
<1>10. Asked'[t] = c.op
  BY <1>9 DEF Asked
<1>11. O!Begin(t)
  BY <1>2, <1>8, <1>9, <1>10 DEF O!Begin, O!Idle, Shown, Asked
<1> QED
  BY <1>5, <1>11 DEF O!Next, Implements

\* Reads, writes and seeks move a handle that open has returned.
LEMMA InHandles ==
  ASSUME TInv, OInv, NEW t \in Task, call[t].op \in {"move", "use", "transfer", "close"}
  PROVE  /\ HasOne(call[t]) /\ call[t].at # "allocated"
         /\ call[t].fd \in HeldAt /\ call[t].fd \in Handles
<1>1. HasOne(call[t])
  BY DEF HasOne
<1>2. call[t].at # "allocated"
  <2>1. call[t] \in Call
    BY DEF TInv, Types
  <2> QED
    BY <2>1, CallKinds DEF FdCall
<1>3. call[t].fd \in HeldAt /\ At(call[t].fd).open
  BY <1>1, <1>2, FileOf DEF At
<1>4. ASSUME NEW u \in Task, Truncates(call[u], call[t].fd)
      PROVE  FALSE
  <2>1. call[u].op = "truncate" /\ call[u].fd = call[t].fd /\ u # t /\ call[u] \in Call
    BY <1>4 DEF Truncates, TInv, Types
  <2>2. call[u] \in FdCall
    BY <2>1, CallKinds
  <2>3. call[u].at \in {"start", "allocated", "opened", "close"}
    BY <2>2 DEF FdCall
  <2>4. call[u].at # "start"
    BY <1>3, <2>1, AtIs DEF OInv, Shapes, Sound, TInv
  <2>5. HasOne(call[u]) /\ Sole(call[u])
    BY <2>1, <2>3, <2>4 DEF HasOne, Sole
  <2> QED
    BY <1>1, <2>1, <2>5 DEF TInv, Apart
<1> QED
  BY <1>1, <1>2, <1>3, <1>4, HandlesAre

LEMMA PlaceForAfter ==
  ASSUME TInv', NEW fd
  PROVE  /\ \A u \in Task : Borrows(u, fd)' => PlaceFor(fd)' = call'[u].saved
         /\ (\A u \in Task : ~Borrows(u, fd)') => PlaceFor(fd)' = At(fd)'.pos
<1>1. \A u, v \in Task : Borrows(u, fd)' /\ Borrows(v, fd)' => u = v
  BY DEF TInv, LockHeld, Borrows
<1> QED
  BY <1>1 DEF PlaceFor, PlaceOf, At

\* The handles when one file has been moved.
MovesFile(t, d, n, fd) ==
  /\ call[t].op \in {"move", "use", "transfer"} /\ (Takes(t) \/ call[t].at = "there")
  /\ call' = [call EXCEPT ![t] = d] /\ Sound(d) /\ d.at # "checked"
  /\ d.op # "truncate" /\ (d.at = "there" => d.fd = call[t].fd)
  /\ fd = call[t].fd /\ MovesTo(fd, n) /\ UNCHANGED <<tree, cache, list, fd_count>>
MovesHandle(t, d, n, fd) ==
  /\ OInv' /\ fd \in Handles /\ Handles' = Handles
  /\ \A h \in Handles : /\ At(h)'.path = At(h).path /\ At(h)'.is = At(h).is
                        /\ h # fd => PlaceFor(h)' = PlaceFor(h)
  /\ PlaceFor(fd) = IF call[t].at = "there" THEN call[t].saved ELSE At(fd).pos
  /\ PlaceFor(fd)' = IF d.at = "there" THEN d.saved ELSE n

LEMMA MovedHandles ==
  ASSUME TInv, TInv', OInv, NEW t \in Task, NEW d \in Call, NEW n, NEW fd,
         MovesFile(t, d, n, fd)
  PROVE  MovesHandle(t, d, n, fd)
<1>0. /\ call[t].op \in {"move", "use", "transfer"} /\ (Takes(t) \/ call[t].at = "there")
      /\ call' = [call EXCEPT ![t] = d] /\ Sound(d) /\ d.at # "checked"
      /\ d.op # "truncate" /\ (d.at = "there" => d.fd = call[t].fd)
      /\ fd = call[t].fd /\ MovesTo(fd, n) /\ UNCHANGED <<tree, cache, list, fd_count>>
  BY DEF MovesFile
<1>1. fd \in HeldAt /\ fd \in Handles
  BY <1>0, InHandles
<1>2. SameOpen /\ At(fd)'.pos = n /\ \A i \in HeldAt : i # fd => At(i)'.pos = At(i).pos
  BY <1>0, <1>1, MovedOpen
<1>3. OInv'
  BY <1>0, <1>2, QuietKeep
<1>4. Handles' = Handles
  BY <1>0, <1>2, SameHandles DEF Truncates, SameOpen
<1>5. ASSUME NEW h \in Handles
      PROVE  /\ At(h)'.path = At(h).path /\ At(h)'.is = At(h).is
             /\ h # fd => PlaceFor(h)' = PlaceFor(h)
  <2>1. h \in HeldAt
    BY HandlesAre
  <2> QED
    BY <1>0, <1>2, <2>1, SamePlace DEF SameOpen, Borrows
<1>6. \A u \in Task : u # t => call[u].at # "there" /\ call'[u] = call[u]
  BY <1>0, OneInside, NextCall DEF TInv
<1>7. call'[t] = d
  BY <1>0, NextCall DEF TInv
<1>8. PlaceFor(fd) = IF call[t].at = "there" THEN call[t].saved ELSE At(fd).pos
  BY <1>0, <1>6, PlaceForIs DEF Borrows
<1>9. PlaceFor(fd)' = IF d.at = "there" THEN d.saved ELSE n
  BY <1>0, <1>2, <1>6, <1>7, PlaceForAfter DEF Borrows
<1> QED
  BY <1>1, <1>3, <1>4, <1>5, <1>8, <1>9 DEF MovesHandle

LEMMA MovedShown ==
  ASSUME NEW t \in Task, NEW d, NEW n, NEW fd, MovesHandle(t, d, n, fd), d.at # "there"
  PROVE  fd \in DOMAIN Shown /\ Shown' = [Shown EXCEPT ![fd].place = n]
<1>4. /\ fd \in Handles /\ Handles' = Handles /\ PlaceFor(fd)' = n
      /\ \A h \in Handles : /\ At(h)'.path = At(h).path /\ At(h)'.is = At(h).is
                            /\ h # fd => PlaceFor(h)' = PlaceFor(h)
  BY DEF MovesHandle
<1>5. /\ DOMAIN Shown = Handles /\ Shown = [h \in Handles |-> Shown[h]]
      /\ \A h \in Handles :
           Shown[h] = [name |-> At(h).path, file |-> At(h).is, place |-> PlaceFor(h)]
  BY DEF Shown, At
<1>6. /\ Shown' = [h \in Handles |-> Shown'[h]]
      /\ \A h \in Handles :
           Shown'[h] = [name |-> At(h)'.path, file |-> At(h)'.is, place |-> PlaceFor(h)']
  BY <1>4 DEF Shown, At
<1>7. Shown' = [Shown EXCEPT ![fd].place = n]
  <2>1. \A h \in Handles \ {fd} : Shown'[h] = Shown[h]
    BY <1>4, <1>5, <1>6
  <2>2. Shown'[fd] = [Shown[fd] EXCEPT !.place = n]
    <3>1. Shown'[fd] = [name |-> At(fd).path, file |-> At(fd).is, place |-> n]
      BY <1>4, <1>6
    <3>2. Shown[fd] = [name |-> At(fd).path, file |-> At(fd).is, place |-> PlaceFor(fd)]
      BY <1>4, <1>5
    <3> QED
      BY <3>1, <3>2
  <2>3. ASSUME NEW s, NEW r, DOMAIN s = DOMAIN r, s = [h \in DOMAIN s |-> s[h]],
               r = [h \in DOMAIN r |-> r[h]], r[fd] = [s[fd] EXCEPT !.place = n],
               \A h \in DOMAIN s \ {fd} : r[h] = s[h]
        PROVE  r = [s EXCEPT ![fd].place = n]
    BY <2>3
  <2>4. PICK s, r : s = Shown /\ r = Shown'
    OBVIOUS
  <2>5. /\ DOMAIN s = DOMAIN r /\ s = [h \in DOMAIN s |-> s[h]] /\ r = [h \in DOMAIN r |-> r[h]]
        /\ r[fd] = [s[fd] EXCEPT !.place = n] /\ \A h \in DOMAIN s \ {fd} : r[h] = s[h]
    BY <1>4, <1>5, <1>6, <2>1, <2>2, <2>4
  <2>6. r = [s EXCEPT ![fd].place = n]
    BY <2>3, <2>5
  <2> QED
    BY <2>4, <2>6
<1> QED
  BY <1>4, <1>5, <1>7

LEMMA MoveStep ==
  ASSUME TInv, TInv', OInv, NEW t \in Task, Move(t)
  PROVE  Implements
<1>0. PICK fd : fd = call[t].fd
  OBVIOUS
<1>1. /\ call[t].op = "move" /\ call[t].at = "start" /\ Takes(t) /\ LockMoves(t)
      /\ call' = [call EXCEPT ![t] = Idle] /\ UNCHANGED <<tree, cache, list, fd_count>>
  BY DEF Move, Calls, Returns, LockMoves
<1>2. PICK n \in Place : MovesTo(fd, n)
  BY <1>0 DEF Move
<1>3. Sound(Idle) /\ Idle.at = "none" /\ Idle \in Call /\ Idle.op = "none"
  BY IdleSound
<1>4. MovesFile(t, Idle, n, fd)
  BY <1>0, <1>1, <1>2, <1>3 DEF MovesFile
<1>5. MovesHandle(t, Idle, n, fd)
  BY <1>3, <1>4, MovedHandles
<1>6. fd \in DOMAIN Shown /\ Shown' = [Shown EXCEPT ![fd].place = n] /\ OInv'
  <2>1. OInv'
    BY <1>5 DEF MovesHandle
  <2> QED
    BY <2>1, <1>3, <1>5, MovedShown
<1>7. Asked' = [Asked EXCEPT ![t] = "none"] /\ Asked[t] = "move"
  BY <1>1, <1>3, AskedAfter
<1>8. O!Return(t, {"move"})
  BY <1>7 DEF O!Return, Asked
<1>9. lock'.leaked = lock.leaked
  BY <1>1, LockLeaves
<1>10. \E h \in DOMAIN Shown, m \in Place :
         /\ O!Return(t, {"move"}) /\ UNCHANGED tree /\ lock'.leaked = lock.leaked
         /\ Shown' = [Shown EXCEPT ![h].place = m]
  BY <1>1, <1>6, <1>8, <1>9
<1>11. O!Move(t)
  BY <1>10, Zenon DEF O!Move, Shown
<1> QED
  BY <1>6, <1>11 DEF O!Next, Implements

\* A call that is not to move its file moves it and fails.
LEMMA StrayStep ==
  ASSUME TInv, TInv', OInv, NEW t \in Task, call[t].op \in {"use", "transfer"},
         Takes(t) \/ call[t].at = "there", call' = [call EXCEPT ![t] = Error],
         NEW fd, fd = call[t].fd, NEW n \in Place, MovesTo(fd, n),
         UNCHANGED <<tree, cache, list, fd_count>>,
         LockMoves(t) \/ (call[t].op = "transfer" /\ lock'.leaked = TRUE)
  PROVE  Implements
<1>1. Sound(Error) /\ Error.at = "none" /\ Error \in Call /\ Error.op = "error"
  BY ErrorSound
<1>2. MovesFile(t, Error, n, fd)
  BY <1>1 DEF MovesFile
<1>3. MovesHandle(t, Error, n, fd)
  BY <1>1, <1>2, MovedHandles
<1>4. fd \in DOMAIN Shown /\ Shown' = [Shown EXCEPT ![fd].place = n] /\ OInv'
  BY <1>1, <1>3, MovedShown DEF MovesHandle
<1>5. Asked' = [Asked EXCEPT ![t] = "error"] /\ Asked[t] = call[t].op
  BY <1>1, AskedAfter
<1>6. lock'.leaked \in {lock.leaked, Asked[t] = "transfer"} /\ (lock.leaked => lock'.leaked)
  <2>1. CASE LockMoves(t)
    BY <2>1, LockLeaves
  <2>2. CASE call[t].op = "transfer" /\ lock'.leaked = TRUE
    <3>1. (Asked[t] = "transfer") = TRUE
      BY <1>5, <2>2
    <3> QED
      BY <2>2, <3>1
  <2> QED
    BY <2>1, <2>2
<1>7. \E h \in DOMAIN Shown, m \in Place :
        /\ Asked[t] \in {"use", "transfer"} /\ Asked' = [Asked EXCEPT ![t] = "error"]
        /\ Shown' = [Shown EXCEPT ![h].place = m]
        /\ lock'.leaked \in {lock.leaked, Asked[t] = "transfer"} /\ (lock.leaked => lock'.leaked)
        /\ UNCHANGED tree
  BY <1>4, <1>5, <1>6
<1>8. O!Stray(t)
  BY <1>7, Zenon DEF O!Stray, Shown, Asked
<1> QED
  BY <1>4, <1>8 DEF O!Next, Implements

LEMMA UseStep ==
  ASSUME TInv, TInv', OInv, NEW t \in Task, Use(t)
  PROVE  Implements
<1>1. CASE Returns(t) /\ UNCHANGED files
  BY <1>1, PlainSteps
<1>2. CASE /\ call[t].op = "use" /\ GoesOn(t, Error)
           /\ \E n \in Place : MovesTo(call[t].fd, n)
  <2>1. PICK n \in Place : MovesTo(call[t].fd, n)
    BY <1>2
  <2>2. PICK fd : fd = call[t].fd
    OBVIOUS
  <2>3. /\ Takes(t) /\ UNCHANGED <<tree, cache, list, fd_count>> /\ LockMoves(t)
        /\ call' = [call EXCEPT ![t] = Error]
    BY <1>2 DEF Use, GoesOn, LockMoves
  <2>4. MovesTo(fd, n)
    BY <2>1, <2>2
  <2> QED
    BY <1>2, <2>2, <2>3, <2>4, StrayStep
<1> QED
  BY <1>1, <1>2 DEF Use

\* pread and pwrite leave the place alone, or fail.
LEMMA TransferBeginStep ==
  ASSUME TInv, TInv', OInv, NEW t \in Task, TransferBegin(t)
  PROVE  Implements
<1> DEFINE c == call[t]
<1>1. c.op = "transfer" /\ c.at = "start" /\ Takes(t) /\ UNCHANGED <<tree, cache, list, fd_count>>
  BY DEF TransferBegin, Calls
<1>2. PICK fd, n, d : /\ fd = c.fd /\ n = c.to
                      /\ d = [op |-> c.op, at |-> "there", fd |-> c.fd, to |-> c.to,
                              saved |-> PlaceOf(c.fd)]
  OBVIOUS
<1>3. CASE Holds(t, d) /\ MovesTo(fd, n)
  <2>2. call' = [call EXCEPT ![t] = d] /\ LockMoves(t)
    BY <1>3 DEF Holds, LockMoves
  <2>3. d.op = "transfer" /\ d.at = "there" /\ d.fd = fd /\ d.saved = At(fd).pos
    BY <1>1, <1>2 DEF PlaceOf, At
  <2>4. d \in Call /\ Sound(d)
    <3>1. call' \in [Task -> Call] /\ call \in [Task -> Call]
      BY DEF TInv, Types
    <3> QED
      BY <2>2, <2>3, <3>1 DEF Sound
  <2>5. MovesFile(t, d, n, fd)
    BY <1>1, <1>2, <1>3, <2>2, <2>3, <2>4 DEF MovesFile
  <2>6. MovesHandle(t, d, n, fd)
    BY <2>4, <2>5, MovedHandles
  <2>7. OInv' /\ Shown' = Shown
    <3>1. OInv' /\ Handles' = Handles /\ \A h \in Handles : SameHandle(h)
      BY <1>1, <2>3, <2>6 DEF MovesHandle, SameHandle
    <3> QED
      BY <3>1, SameShown
  <2>8. UNCHANGED O!vars
    BY <1>1, <2>2, <2>3, <2>4, <2>7, NoStep
  <2> QED
    BY <2>7, <2>8 DEF Implements
<1>4. CASE /\ call' = [call EXCEPT ![t] = Error] /\ lock' = [owner |-> t, leaked |-> TRUE]
           /\ \E m \in Place : MovesTo(c.fd, m)
  <2>1. PICK m \in Place : MovesTo(fd, m)
    BY <1>2, <1>4
  <2>2. lock'.leaked = TRUE
    BY <1>4
  <2> QED
    BY <1>1, <1>2, <1>4, <2>1, <2>2, StrayStep
<1> QED
  BY <1>2, <1>3, <1>4, Zenon DEF TransferBegin

LEMMA TransferEndStep ==
  ASSUME TInv, TInv', OInv, NEW t \in Task, TransferEnd(t)
  PROVE  Implements
<1> DEFINE c == call[t]
<1>0. PICK fd, n : fd = c.fd /\ n = c.saved
  OBVIOUS
<1>1. c.at = "there" /\ UNCHANGED <<tree, cache, list, fd_count>>
  BY DEF TransferEnd
<1>2. c.op = "transfer"
  <2>1. c \in Call
    BY DEF TInv, Types
  <2> QED
    BY <1>1, <2>1, CallKinds DEF SavedCall
<1>3. CASE MovesTo(fd, n) /\ Returns(t)
  <2>1. call' = [call EXCEPT ![t] = Idle] /\ LockMoves(t)
    BY <1>3 DEF Returns, LockMoves
  <2>2. Sound(Idle) /\ Idle.at = "none" /\ Idle \in Call /\ Idle.op = "none"
    BY IdleSound
  <2>3. MovesFile(t, Idle, n, fd)
    BY <1>0, <1>1, <1>2, <1>3, <2>1, <2>2 DEF MovesFile
  <2>4. MovesHandle(t, Idle, n, fd)
    BY <2>2, <2>3, MovedHandles
  <2>5. OInv' /\ Shown' = Shown
    <3>1. OInv' /\ Handles' = Handles /\ \A h \in Handles : SameHandle(h)
      BY <1>0, <1>1, <2>2, <2>4 DEF MovesHandle, SameHandle
    <3> QED
      BY <3>1, SameShown
  <2>6. O!Next
    BY <1>1, <2>1, <2>5, NothingStep
  <2> QED
    BY <2>5, <2>6 DEF Implements
<1>4. CASE (\E m \in Place : MovesTo(c.fd, m)) /\ GoesOn(t, Error)
  <2>1. PICK m \in Place : MovesTo(fd, m)
    BY <1>0, <1>4
  <2>2. call' = [call EXCEPT ![t] = Error] /\ LockMoves(t)
    BY <1>4 DEF GoesOn, LockMoves
  <2> QED
    BY <1>0, <1>1, <1>2, <2>1, <2>2, StrayStep
<1> QED
  BY <1>0, <1>3, <1>4 DEF TransferEnd

------------------------------------------------------------------------------
(* Descriptors come and go.                                                *)

\* One task is in the middle of a call, and no names are checked after it.
LEMMA NobodyChecked ==
  ASSUME TInv, NEW t \in Task, Takes(t) \/ call[t].at \in {"allocated", "checked", "there"},
         NEW d \in Call, d.at # "checked", call' = [call EXCEPT ![t] = d]
  PROVE  /\ \A u \in Task : call'[u].at # "checked"
         /\ d.at # "there" => \A u \in Task : call'[u].at # "there"
<1>1. \A u \in Task : u # t => call[u].at \notin {"allocated", "checked", "there"}
  BY OneInside
<1>2. call'[t] = d /\ \A u \in Task : u # t => call'[u] = call[u]
  BY NextCall DEF TInv
<1> QED
  BY <1>1, <1>2

\* Who else has a descriptor.
LEMMA SoleIs ==
  ASSUME TInv, OInv, NEW t \in Task, HasOne(call[t]), Sole(call[t]), NEW u \in Task, u # t
  PROVE  ~Truncates(call[u], call[t].fd)
<1> SUFFICES ASSUME call[u].op = "truncate", call[u].fd = call[t].fd PROVE FALSE
  BY DEF Truncates
<1>1. call[t].fd \in HeldAt /\ call[t].fd # Null
  BY FileOf, AtIs DEF TInv
<1>2. call[u].at # "start"
  BY <1>1 DEF OInv, Shapes, Sound
<1>3. call[u] \in FdCall
  <2>1. call[u] \in Call
    BY DEF TInv, Types
  <2> QED
    BY <2>1, CallKinds
<1>4. HasOne(call[u])
  BY <1>2, <1>3 DEF FdCall, HasOne
<1> QED
  BY <1>4 DEF TInv, Apart

LEMMA OpenAllocateStep ==
  ASSUME TInv, TInv', OInv, NEW t \in Task, OpenAllocate(t)
  PROVE  Implements
<1> DEFINE c == call[t]
<1>1. PICK k, d : /\ k = FirstFree(Grown)
                  /\ d = [op |-> c.op, at |-> "allocated", path |-> c.path,
                          create |-> c.create, fd |-> k]
  OBVIOUS
<1>2. PICK f \in File : f \notin Range(list) /\ AllocateFd(f) /\ Holds(t, d)
  BY <1>1 DEF OpenAllocate
<1>3. /\ c.op \in {"open", "truncate"} /\ c.at = "start" /\ Takes(t) /\ UNCHANGED <<tree, files>>
      /\ Types /\ Table /\ Sound(c) /\ call' = [call EXCEPT ![t] = d] /\ LockMoves(t)
  BY <1>2 DEF OpenAllocate, Calls, TInv, OInv, Shapes, Holds, LockMoves
<1>4. d.op = c.op /\ d.at = "allocated" /\ d.fd = k /\ d.create = c.create
  BY <1>1
<1>5. d \in Call /\ Sound(d)
  <2>1. call' \in [Task -> Call] /\ call \in [Task -> Call]
    BY DEF TInv, Types
  <2> QED
    BY <1>3, <1>4, <2>1 DEF Sound
<1>6. /\ k \in DOMAIN cache' /\ cache'[k] = f /\ files[f] = NoFile /\ k \notin HeldAt
      /\ \A i \in HeldAt : i \in DOMAIN cache' /\ cache'[i] = cache[i]
  BY <1>1, <1>2, <1>3, AllocateKeeps
<1>7. k \in File /\ f # Null
  BY <1>1, <1>2, <1>3, FirstFreeInTable DEF File, Null
<1>8. \A i \in DOMAIN cache' : i # k /\ cache'[i] # Null => i \in HeldAt
  <2>1. /\ Grown \in Seq(File \union {Null})
        /\ \A i \in DOMAIN cache : i \in DOMAIN Grown /\ Grown[i] = cache[i]
        /\ \A i \in DOMAIN Grown \ DOMAIN cache : Grown[i] = Null
    BY <1>3, GrownIs
  <2>2. cache' = [Grown EXCEPT ![k] = f]
    BY <1>1, <1>2 DEF AllocateFd
  <2> QED
    BY <2>1, <2>2 DEF HeldAt
<1>9. HeldAt' = HeldAt \union {k}
  BY <1>6, <1>7, <1>8 DEF HeldAt
<1>10. At(k)' = NoFile /\ \A i \in HeldAt : At(i)' = At(i)
  BY <1>3, <1>6 DEF At
<1>11. \A u \in Task : call'[u].at # "checked"
  BY <1>3, <1>4, <1>5, NobodyChecked
<1>12. call'[t] = d /\ \A u \in Task : u # t => call'[u] = call[u]
  BY <1>3, <1>5, NextCall
<1>13. OInv'
  <2>1. InTable' /\ Unnamed'
    BY <1>7, <1>9, <1>11 DEF OInv, InTable, Unnamed
  <2>2. Whole'
    BY <1>3 DEF OInv, Whole
  <2>3. Named'
    BY <1>3, <1>9, <1>10 DEF OInv, Named, NoFile
  <2>4. Shapes'
    BY <1>5, <1>12 DEF OInv, Shapes
  <2> QED
    BY <2>1, <2>2, <2>3, <2>4 DEF OInv
<1>14. Handles' = Handles
  <2>1. \A fd : fd \in Handles <=> /\ fd \in HeldAt /\ At(fd).open
                                   /\ \A u \in Task : ~Truncates(call[u], fd)
    BY HandlesAre
  <2>2. \A fd : fd \in Handles' <=> /\ fd \in HeldAt' /\ At(fd)'.open
                                    /\ \A u \in Task : ~Truncates(call'[u], fd)
    BY DEF Handles, HeldAt, At, Truncates
  <2>3. \A fd \in HeldAt : ~Truncates(call[t], fd) /\ ~Truncates(d, fd)
    BY <1>3, <1>4, <1>6, AtIs DEF Sound, Truncates
  <2>4. \A fd \in HeldAt : (\A u \in Task : ~Truncates(call'[u], fd))
                           <=> (\A u \in Task : ~Truncates(call[u], fd))
    BY <1>12, <2>3
  <2>5. ~At(k)'.open
    BY <1>10 DEF NoFile
  <2>6. \A fd : fd \in Handles' <=> fd \in Handles
    BY <1>9, <1>10, <2>1, <2>2, <2>4, <2>5
  <2> QED
    BY <2>6
<1>15. Shown' = Shown
  <2>1. ASSUME NEW fd \in Handles
        PROVE  SameHandle(fd)
    <3>1. fd \in HeldAt
      BY HandlesAre
    <3> QED
      BY <1>3, <1>4, <1>5, <1>10, <3>1, SamePlace DEF Borrows, SameHandle
  <2> QED
    BY <1>14, <2>1, SameShown
<1>16. UNCHANGED O!vars
  BY <1>3, <1>4, <1>5, <1>15, NoStep
<1> QED
  BY <1>13, <1>16 DEF Implements

\* A descriptor is given up: it is freed, or its file is not open any more.
DropsOne(fd) ==
  /\ HeldAt \ {fd} \subseteq HeldAt' /\ HeldAt' \subseteq HeldAt
  /\ \A i \in HeldAt \ {fd} : At(i)' = At(i)
  /\ fd \in HeldAt' => ~At(fd)'.open /\ At(fd)'.is = NoPath
FreesOne(t, fd) ==
  /\ HasOne(call[t]) /\ Sole(call[t]) /\ call[t].at # "there" /\ fd = call[t].fd
  /\ DropsOne(fd) /\ call' = [call EXCEPT ![t] = Idle] /\ LockMoves(t) /\ UNCHANGED tree
  /\ Takes(t) \/ call[t].at \in {"allocated", "checked", "there"}

LEMMA FreeDrops ==
  ASSUME TInv, NEW t \in Task, HasOne(call[t]), NEW fd, fd = call[t].fd, FreeFd(fd)
  PROVE  DropsOne(fd)
<1>1. fd \in HeldAt /\ Types /\ Table
  BY FileOf DEF TInv
<1>2. /\ DOMAIN cache' = DOMAIN cache
      /\ cache'[fd] = Null /\ \A i \in DOMAIN cache : i # fd => cache'[i] = cache[i]
      /\ \A i \in HeldAt : i # fd => files'[cache[i]] = files[cache[i]]
  BY <1>1, FreeKeeps DEF HeldAt
<1> QED
  BY <1>2 DEF HeldAt, At, DropsOne

LEMMA FreedHandles ==
  ASSUME TInv, TInv', OInv, NEW t \in Task, NEW fd, FreesOne(t, fd)
  PROVE  /\ OInv' /\ Handles' = Handles \ {fd} /\ fd \in HeldAt
         /\ \A h \in Handles \ {fd} : SameHandle(h)
<1>1. /\ HasOne(call[t]) /\ Sole(call[t]) /\ call[t].at # "there" /\ fd = call[t].fd
      /\ call' = [call EXCEPT ![t] = Idle] /\ UNCHANGED tree
      /\ Takes(t) \/ call[t].at \in {"allocated", "checked", "there"}
  BY DEF FreesOne
<1>2. fd \in HeldAt
  BY <1>1, FileOf
<1>4. /\ HeldAt \ {fd} \subseteq HeldAt' /\ HeldAt' \subseteq HeldAt
      /\ \A i \in HeldAt \ {fd} : At(i)' = At(i)
      /\ fd \in HeldAt' => ~At(fd)'.open /\ At(fd)'.is = NoPath
  BY DEF FreesOne, DropsOne
<1>5. Sound(Idle) /\ Idle.at # "checked" /\ Idle \in Call /\ Idle.op = "none" /\ Idle.at = "none"
  BY IdleSound
<1>6. \A u \in Task : call'[u].at # "checked"
  BY <1>1, <1>5, NobodyChecked
<1>7. call'[t] = Idle /\ \A u \in Task : u # t => call'[u] = call[u]
  BY <1>1, <1>5, NextCall DEF TInv
<1>8. OInv'
  <2>1. InTable' /\ Unnamed'
    BY <1>4, <1>6 DEF OInv, InTable, Unnamed
  <2>2. Whole'
    BY <1>1 DEF OInv, Whole
  <2>3. Named'
    BY <1>1, <1>4 DEF OInv, Named
  <2>4. Shapes'
    BY <1>5, <1>7 DEF OInv, Shapes
  <2> QED
    BY <2>1, <2>2, <2>3, <2>4 DEF OInv
<1>9. Handles' = Handles \ {fd}
  <2>1. \A h : h \in Handles <=> /\ h \in HeldAt /\ At(h).open
                                 /\ \A u \in Task : ~Truncates(call[u], h)
    BY HandlesAre
  <2>2. \A h : h \in Handles' <=> /\ h \in HeldAt' /\ At(h)'.open
                                  /\ \A u \in Task : ~Truncates(call'[u], h)
    BY DEF Handles, HeldAt, At, Truncates
  <2>3. \A h \in HeldAt \ {fd} : ~Truncates(call[t], h) /\ ~Truncates(Idle, h)
    BY <1>1, <1>5 DEF Truncates
  <2>4. \A h \in HeldAt \ {fd} : (\A u \in Task : ~Truncates(call'[u], h))
                                 <=> (\A u \in Task : ~Truncates(call[u], h))
    BY <1>7, <2>3
  <2>5. \A h : h \in Handles' <=> h \in Handles \ {fd}
    BY <1>4, <2>1, <2>2, <2>4
  <2> QED
    BY <2>5
<1>10. ASSUME NEW h \in Handles \ {fd}
       PROVE  SameHandle(h)
  <2>1. h \in HeldAt /\ At(h)' = At(h)
    BY <1>4, HandlesAre
  <2> QED
    BY <1>1, <1>5, <2>1, SamePlace DEF Borrows, SameHandle
<1> QED
  BY <1>2, <1>8, <1>9, <1>10

\* A handle that is closed, or a descriptor that nobody has been told.
LEMMA FreedStep ==
  ASSUME TInv, TInv', OInv, NEW t \in Task, NEW fd, FreesOne(t, fd),
         call[t].op = "close" \/ fd \notin Handles
  PROVE  Implements
<1>1. /\ OInv' /\ Handles' = Handles \ {fd} /\ fd \in HeldAt
      /\ \A h \in Handles \ {fd} : SameHandle(h)
  BY FreedHandles
<1>2. call' = [call EXCEPT ![t] = Idle] /\ UNCHANGED tree /\ LockMoves(t)
  BY DEF FreesOne
<1>3. CASE fd \notin Handles
  <2>1. Shown' = Shown
    BY <1>1, <1>3, SameShown
  <2>2. O!Next
    BY <1>2, <2>1, NothingStep
  <2> QED
    BY <1>1, <2>2 DEF Implements
<1>4. CASE call[t].op = "close" /\ fd \in Handles
  <2>1. /\ DOMAIN Shown = Handles
        /\ \A h \in Handles :
             Shown[h] = [name |-> At(h).path, file |-> At(h).is, place |-> PlaceFor(h)]
    BY ShownIs
  <2>2. Shown' = [h \in Handles \ {fd} |->
                    [name |-> At(h)'.path, file |-> At(h)'.is, place |-> PlaceFor(h)']]
    BY <1>1 DEF Shown, At
  <2>3. \A h \in Handles \ {fd} :
          [name |-> At(h)'.path, file |-> At(h)'.is, place |-> PlaceFor(h)'] = Shown[h]
    BY <1>1, <2>1 DEF SameHandle
  <2>4. Shown' = [h \in DOMAIN Shown \ {fd} |-> Shown[h]]
    BY <2>1, <2>2, <2>3
  <2>5. Asked' = [Asked EXCEPT ![t] = "none"] /\ Asked[t] = "close"
    BY <1>2, <1>4, AskedAfter, IdleSound
  <2>6. O!Return(t, {"close"}) /\ lock'.leaked = lock.leaked
    BY <1>2, <2>5, LockLeaves DEF O!Return, Asked
  <2>7. \E h \in DOMAIN Shown : /\ O!Return(t, {"close"}) /\ UNCHANGED tree
                                /\ lock'.leaked = lock.leaked
                                /\ Shown' = [g \in DOMAIN Shown \ {h} |-> Shown[g]]
    BY <1>2, <1>4, <2>1, <2>4, <2>6
  <2>8. O!Close(t)
    BY <2>7, Zenon DEF O!Close, Shown
  <2> QED
    BY <1>1, <2>8 DEF O!Next, Implements
<1> QED
  BY <1>3, <1>4

LEMMA OpenFailsStep ==
  ASSUME TInv, TInv', OInv, NEW t \in Task, OpenFails(t)
  PROVE  Implements
<1>1. PICK fd : fd = call[t].fd
  OBVIOUS
<1>2. call[t].at = "allocated" /\ HasOne(call[t])
  BY DEF OpenFails, HasOne
<1>3. DropsOne(fd)
  BY <1>1, <1>2, FreeDrops DEF OpenFails
<1>4. FreesOne(t, fd)
  BY <1>1, <1>2, <1>3 DEF OpenFails, FreesOne, Sole, Returns, LockMoves
<1>5. ~At(fd).open
  BY <1>1, <1>2 DEF TInv, Held, At
<1>6. fd \notin Handles
  BY <1>5, HandlesAre
<1> QED
  BY <1>4, <1>6, FreedStep

\* Whether close succeeds or not, the handle is gone.
LEMMA CloseStep ==
  ASSUME TInv, TInv', OInv, NEW t \in Task, Close(t)
  PROVE  Implements
<1>1. PICK fd : fd = call[t].fd
  OBVIOUS
<1>2. \/ call[t].op = "close" /\ call[t].at = "start"
      \/ call[t].op = "truncate" /\ call[t].at = "close"
  <2>1. call[t] \in Call
    BY DEF TInv, Types
  <2>2. call[t].at = "close" => call[t].op = "truncate"
    BY <2>1, CallKinds DEF FdCall
  <2> QED
    BY <2>2 DEF Close, Calls
<1>3. HasOne(call[t]) /\ Sole(call[t])
  BY <1>2 DEF HasOne, Sole
<1>4. DropsOne(fd)
  <2>1. CASE FreeFd(fd)
    BY <1>1, <1>3, <2>1, FreeDrops
  <2>2. CASE /\ files' = [files EXCEPT ![cache[fd]] = [@ EXCEPT !.is = NoPath, !.open = FALSE]]
             /\ UNCHANGED <<cache, list, fd_count>>
    <3>1. fd \in HeldAt /\ cache[fd] \in File /\ files \in [File -> FileRec] /\ Types /\ Table
      BY <1>1, <1>3, FileOf DEF TInv, Types, TypeOK, FileRec
    <3>2. \A i \in HeldAt : i # fd => cache[i] # cache[fd] /\ cache[i] \in File
      BY <3>1, AtIs DEF Table, OncePerTable, HeldAt
    <3>3. HeldAt' = HeldAt
      BY <2>2 DEF HeldAt
    <3>4. ~At(fd)'.open /\ At(fd)'.is = NoPath
      BY <2>2, <3>1 DEF At, FileRec
    <3>5. \A i \in HeldAt \ {fd} : At(i)' = At(i)
      BY <2>2, <3>1, <3>2 DEF At
    <3> QED
      BY <3>3, <3>4, <3>5 DEF DropsOne
  <2> QED
    BY <1>1, <2>1, <2>2 DEF Close
<1>5. FreesOne(t, fd)
  BY <1>1, <1>2, <1>3, <1>4 DEF Close, FreesOne, Returns, LockMoves
<1>6. call[t].op = "truncate" => fd \notin Handles
  BY <1>1, HandlesAre DEF Truncates
<1> QED
  BY <1>2, <1>5, <1>6, FreedStep

------------------------------------------------------------------------------
(* A file is opened.                                                       *)

\* What openers write: the tree, and the file of their descriptor.
LEMMA OpenedIs ==
  ASSUME TInv, OInv, NEW t \in Task, OpenFile(t)
  PROVE  LET p == call[t].path
         IN  /\ call[t] \in FdCall /\ call[t].at = "allocated" /\ p \in Path
             /\ call[t].fd \in HeldAt /\ HasOne(call[t]) /\ Sole(call[t])
             /\ tree \in [Path -> {"none", "file", "dir"}] /\ tree[p] \in {"none", "file"}
             /\ tree[p] = "none" => HasParent(p) /\ call[t].create
             /\ tree' = [tree EXCEPT ![p] = "file"]
<1> DEFINE p == call[t].path
<1>1. call[t] \in FdCall /\ call[t].at = "allocated" /\ HasOne(call[t]) /\ Sole(call[t])
  <2>1. call[t] \in Call /\ call[t].at = "allocated"
    BY DEF TInv, Types, OpenFile
  <2> QED
    BY <2>1, CallKinds DEF HasOne, Sole
<1>2. p \in Path /\ tree \in [Path -> {"none", "file", "dir"}]
  BY <1>1 DEF FdCall, TInv, Types, TypeOK
<1>3. \/ tree[p] = "file" /\ tree' = tree
      \/ tree[p] = "none" /\ HasParent(p) /\ call[t].create /\ tree' = [tree EXCEPT ![p] = "file"]
  BY DEF OpenFile
<1>4. call[t].fd \in HeldAt
  BY <1>1, FileOf
<1> HIDE DEF p
<1>5. tree[p] = "file" => tree = [tree EXCEPT ![p] = "file"]
  BY <1>2
<1> QED
  BY <1>1, <1>2, <1>3, <1>4, <1>5 DEF p

\* The tree keeps its shape when a file is created.
LEMMA CreateWhole ==
  ASSUME OInv, NEW p \in Path, tree \in [Path -> {"none", "file", "dir"}],
         tree[p] \in {"none", "file"}, tree[p] = "none" => HasParent(p),
         tree' = [tree EXCEPT ![p] = "file"]
  PROVE  Whole'
<1>1. Whole
  BY DEF OInv
<1>2. \A r \in Path : tree'[r] = IF r = p THEN "file" ELSE tree[r]
  OBVIOUS
<1>3. ASSUME NEW r \in Path, Len(r) = 2, tree'[r] # "none"
      PROVE  tree'[<<r[1]>>] = "dir"
  <2> DEFINE s == <<r[1]>>
  <2>1. s \in Path /\ Len(s) = 1 /\ s # r
    BY <1>3, PathKinds
  <2>2. tree[s] = "dir"
    BY <1>1, <1>2, <1>3 DEF Whole, HasParent, IsDir
  <2>3. tree'[s] = "dir"
    <3> HIDE DEF s
    <3> QED
      BY <1>2, <2>1, <2>2
  <2> QED
    BY <2>3
<1>4. \A r \in Path : tree'[r] = "dir" => Below(r) # NoPath
  BY <1>1, <1>2 DEF Whole
<1>5. (\A r \in Path : tree[r] = "dir" => Below(r) # NoPath)' 
      <=> \A r \in Path : tree'[r] = "dir" => Below(r) # NoPath
  BY DEF Below, NoPath
<1> QED
  BY <1>3, <1>4, <1>5 DEF Whole

LEMMA OpenFileStep ==
  ASSUME TInv, TInv', OInv, NEW t \in Task, OpenFile(t)
  PROVE  Implements
<1> DEFINE c == call[t]
<1>1. PICK fd, p, d, r : /\ fd = c.fd /\ p = c.path
                         /\ d = IF c.op = "open" THEN Idle ELSE [c EXCEPT !.at = "opened"]
                         /\ r = [path |-> p, is |-> p, pos |-> 0, open |-> TRUE]
  OBVIOUS
<1>2. /\ c \in FdCall /\ c.at = "allocated" /\ p \in Path /\ fd \in HeldAt
      /\ HasOne(c) /\ Sole(c)
      /\ tree \in [Path -> {"none", "file", "dir"}] /\ tree[p] \in {"none", "file"}
      /\ tree[p] = "none" => HasParent(p) /\ c.create
      /\ tree' = [tree EXCEPT ![p] = "file"]
  BY <1>1, OpenedIs
<1>3. /\ files' = [files EXCEPT ![cache[fd]] = r] /\ UNCHANGED <<cache, list, fd_count>>
      /\ call' = [call EXCEPT ![t] = d] /\ LockMoves(t)
  BY <1>1 DEF OpenFile, Returns, GoesOn, LockMoves
<1>4. d \in Call
  <2>1. call' \in [Task -> Call] /\ call \in [Task -> Call]
    BY DEF TInv, Types
  <2> QED
    BY <1>3, <2>1
<1>5. /\ c.op = "open" => d = Idle
      /\ c.op # "open" => /\ c.op = "truncate" /\ d.op = "truncate" /\ d.fd = fd
                          /\ d.at = "opened" /\ d.create = c.create
  BY <1>1, <1>2 DEF FdCall
<1>6. Idle.at = "none" /\ Idle.op = "none" /\ Sound(Idle)
  BY IdleSound
<1>7. d.at \notin {"checked", "there"} /\ Sound(d)
  BY <1>5, <1>6 DEF OInv, Shapes, Sound
<1>8. call'[t] = d /\ \A u \in Task : u # t => call'[u] = call[u]
  BY <1>3, <1>4, NextCall DEF TInv
<1>9. (\A u \in Task : call'[u].at # "checked") /\ (\A u \in Task : call'[u].at # "there")
  BY <1>2, <1>3, <1>4, <1>7, NobodyChecked
<1>10. HeldAt' = HeldAt /\ cache[fd] \in File /\ At(fd)' = r
       /\ \A i \in HeldAt : i # fd => At(i)' = At(i)
  <2>1. HeldAt' = HeldAt
    BY <1>3 DEF HeldAt
  <2>2. cache[fd] \in File /\ files \in [File -> FileRec] /\ Types
    BY <1>2, AtIs DEF TInv, Types, TypeOK, FileRec
  <2>3. \A i \in HeldAt : i # fd => cache[i] # cache[fd] /\ cache[i] \in File
    BY <1>2, AtIs DEF TInv, Table, OncePerTable, HeldAt
  <2> QED
    BY <1>3, <2>1, <2>2, <2>3 DEF At
<1>11. \A q \in Path : tree'[q] = IF q = p THEN "file" ELSE tree[q]
  BY <1>2
<1>12. OInv'
  <2>1. InTable' /\ Unnamed'
    BY <1>9, <1>10 DEF OInv, InTable, Unnamed
  <2>2. Whole'
    BY <1>2, CreateWhole
  <2>3. ASSUME NEW i \in HeldAt
        PROVE  /\ At(i)'.open => At(i)'.path # NoPath
               /\ At(i)'.is # NoPath => tree'[At(i)'.is] = "file"
    <3>1. CASE i = fd
      BY <1>1, <1>2, <1>10, <1>11, <3>1, PathKinds
    <3>2. CASE i # fd
      <4>1. /\ At(i)' = At(i)
            /\ At(i).open => At(i).path # NoPath
            /\ At(i).is # NoPath => At(i).is \in Path /\ tree[At(i).is] = "file"
        BY <1>10, <3>2, AtIs DEF OInv, Named, FileRec, TInv
      <4> QED
        BY <1>11, <4>1
    <3> QED
      BY <3>1, <3>2
  <2>4. Named'
    BY <1>10, <2>3 DEF Named
  <2>5. Shapes'
    BY <1>7, <1>8 DEF OInv, Shapes
  <2> QED
    BY <2>1, <2>2, <2>4, <2>5 DEF OInv
<1>13. /\ \A h : h \in Handles <=> /\ h \in HeldAt /\ At(h).open
                                   /\ \A u \in Task : ~Truncates(call[u], h)
       /\ \A h : h \in Handles' <=> /\ h \in HeldAt /\ At(h)'.open
                                    /\ \A u \in Task : ~Truncates(call'[u], h)
  BY <1>10, HandlesAre DEF Handles, HeldAt, At, Truncates
<1>14. fd \notin Handles
  <2>1. ~At(fd).open
    BY <1>1, <1>2 DEF TInv, Held, At
  <2> QED
    BY <1>13, <2>1
<1>15. \A h \in HeldAt \ {fd} : h \in Handles' <=> h \in Handles
  <2>1. \A h \in HeldAt \ {fd} : ~Truncates(call[t], h) /\ ~Truncates(d, h)
    BY <1>1, <1>5, <1>6 DEF Truncates
  <2>2. \A h \in HeldAt \ {fd} : (\A u \in Task : ~Truncates(call'[u], h))
                                 <=> (\A u \in Task : ~Truncates(call[u], h))
    BY <1>8, <2>1
  <2> QED
    BY <1>10, <1>13, <2>2
<1>16. ASSUME NEW h \in Handles
       PROVE  SameHandle(h)
  <2>1. h \in HeldAt /\ h # fd
    BY <1>13, <1>14
  <2>2. At(h)' = At(h)
    BY <1>10, <2>1
  <2> QED
    BY <1>2, <1>3, <1>4, <1>7, <2>2, SamePlace DEF Borrows, SameHandle
<1>17. CASE c.op = "truncate"
  <2>1. ~c.create
    BY <1>17 DEF OInv, Shapes, Sound
  <2>2. tree' = tree
    BY <1>2, <2>1
  <2>3. fd \notin Handles'
    BY <1>5, <1>8, <1>13, <1>17 DEF Truncates
  <2>4. Handles' = Handles
    BY <1>13, <1>14, <1>15, <2>3
  <2>5. Shown' = Shown
    BY <1>16, <2>4, SameShown
  <2>6. UNCHANGED O!vars
    BY <1>3, <1>4, <1>5, <1>17, <2>2, <2>5, NoStep
  <2> QED
    BY <1>12, <2>6 DEF Implements
<1>18. CASE c.op = "open"
  <2>1. \A u \in Task : ~Truncates(call'[u], fd)
    <3>1. \A u \in Task : u # t => ~Truncates(call[u], fd)
      BY <1>1, <1>2, SoleIs
    <3>2. ~Truncates(Idle, fd)
      BY <1>6 DEF Truncates
    <3> QED
      BY <1>5, <1>8, <1>18, <3>1, <3>2
  <2>2. fd \in Handles'
    BY <1>1, <1>2, <1>10, <1>13, <2>1
  <2>3. Handles' = Handles \union {fd}
    BY <1>13, <1>15, <2>2
  <2>4. PlaceFor(fd)' = 0
    <3>1. PlaceFor(fd)' = At(fd)'.pos
      BY <1>9, PlaceForAfter DEF Borrows
    <3> QED
      BY <1>1, <1>10, <3>1
  <2>5. /\ DOMAIN Shown = Handles
        /\ \A h \in Handles :
             Shown[h] = [name |-> At(h).path, file |-> At(h).is, place |-> PlaceFor(h)]
    BY ShownIs
  <2>6. Shown' = [h \in Handles \union {fd} |->
                    [name |-> At(h)'.path, file |-> At(h)'.is, place |-> PlaceFor(h)']]
    BY <2>3 DEF Shown, At
  <2>7. \A h \in Handles \union {fd} :
          [name |-> At(h)'.path, file |-> At(h)'.is, place |-> PlaceFor(h)']
          = IF h = fd THEN [name |-> p, file |-> p, place |-> 0] ELSE Shown[h]
    BY <1>1, <1>10, <1>16, <2>4, <2>5 DEF SameHandle
  <2>8. Shown' = [h \in DOMAIN Shown \union {fd} |->
                    IF h = fd THEN [name |-> p, file |-> p, place |-> 0] ELSE Shown[h]]
    BY <2>5, <2>6, <2>7
  <2>9. Asked' = [Asked EXCEPT ![t] = "none"] /\ Asked[t] = "open"
    <3>1. d.op = "none"
      BY <1>5, <1>6, <1>18
    <3>2. Asked' = [Asked EXCEPT ![t] = d.op] /\ Asked[t] = call[t].op
      BY <1>3, <1>4, AskedAfter
    <3> QED
      BY <1>18, <3>1, <3>2
  <2>10. O!Return(t, {"open"}) /\ lock'.leaked = lock.leaked
    BY <1>3, <2>9, LockLeaves DEF O!Return, Asked
  <2>11. fd \in File /\ fd \notin DOMAIN Shown
    BY <1>2, <1>14, <2>5 DEF OInv, InTable
  <2>12. \E h \in File, q \in Path :
           /\ O!Return(t, {"open"}) /\ h \notin DOMAIN Shown /\ lock'.leaked = lock.leaked
           /\ tree[q] \in {"none", "file"} /\ tree' = [tree EXCEPT ![q] = "file"]
           /\ Shown' = [g \in DOMAIN Shown \union {h} |->
                          IF g = h THEN [name |-> q, file |-> q, place |-> 0] ELSE Shown[g]]
    BY <1>2, <2>8, <2>10, <2>11
  <2>13. O!Open(t)
    BY <2>12, Zenon DEF O!Open, Shown
  <2> QED
    BY <1>12, <2>13 DEF O!Next, Implements
<1> QED
  BY <1>5, <1>17, <1>18

------------------------------------------------------------------------------
(* Entries are created, removed and moved.                                 *)

\* Open files are in the tree after it; one that was where its name is stays, or
\* goes along with its directory.
AlongWithDir(t) == call[t].op = "rename" /\ \E p \in Path : tree[p] = "dir" /\ tree'[p] # "dir"
Follows(t) ==
  /\ HeldAt' = HeldAt
  /\ \A i \in HeldAt :
       /\ At(i)'.path = At(i).path /\ At(i)'.open = At(i).open /\ At(i)'.pos = At(i).pos
       /\ At(i)'.is # NoPath => tree'[At(i)'.is] = "file"
       /\ At(i).is = At(i).path /\ At(i).is # NoPath =>
            /\ At(i)'.is \in {p \in Path : tree'[p] = "file"}
            /\ At(i)'.is # At(i).is => AlongWithDir(t)

LEMMA ChangeStep ==
  ASSUME TInv, TInv', OInv, NEW t \in Task, call[t].op \in {"unlink", "rename", "mkdir", "rmdir"},
         call[t].at # "there", call' = [call EXCEPT ![t] = Idle], LockMoves(t), Whole', Follows(t)
  PROVE  Implements
<1>1. Sound(Idle) /\ Idle.at # "checked" /\ Idle \in Call /\ Idle.op = "none" /\ Idle.at = "none"
  BY IdleSound
<1>2. /\ HeldAt' = HeldAt
      /\ \A i \in HeldAt :
           /\ At(i)'.path = At(i).path /\ At(i)'.open = At(i).open /\ At(i)'.pos = At(i).pos
           /\ At(i)'.is # NoPath => tree'[At(i)'.is] = "file"
  BY DEF Follows
<1>3. OInv'
  <2>1. Unnamed' /\ Shapes'
    BY <1>1, <1>2, CallsKeep
  <2>2. InTable' /\ Named'
    BY <1>2 DEF OInv, InTable, Named
  <2> QED
    BY <2>1, <2>2 DEF OInv
<1>4. Handles' = Handles
  <2>1. \A fd \in HeldAt : ~Truncates(Idle, fd) /\ ~Truncates(call[t], fd)
    BY <1>1 DEF Truncates
  <2> QED
    BY <1>1, <1>2, <2>1, SameHandles
<1>5. \A h \in Handles : At(h)'.path = At(h).path /\ PlaceFor(h)' = PlaceFor(h)
  <2> SUFFICES ASSUME NEW h \in Handles PROVE At(h)'.path = At(h).path /\ PlaceFor(h)' = PlaceFor(h)
    OBVIOUS
  <2>1. h \in HeldAt
    BY HandlesAre
  <2> QED
    BY <1>1, <1>2, <2>1, SamePlace DEF Borrows
<1>6. /\ DOMAIN Shown = Handles
      /\ \A h \in Handles :
           Shown[h] = [name |-> At(h).path, file |-> At(h).is, place |-> PlaceFor(h)]
  BY ShownIs
<1>7. /\ Shown' = [h \in Handles |-> Shown'[h]]
      /\ \A h \in Handles :
           Shown'[h] = [name |-> At(h).path, file |-> At(h)'.is, place |-> PlaceFor(h)]
  BY <1>4, <1>5 DEF Shown, At
<1>8. Shown' = [h \in DOMAIN Shown |-> [Shown[h] EXCEPT !.file = Shown'[h].file]]
  <2>1. \A h \in Handles : Shown'[h] = [Shown[h] EXCEPT !.file = Shown'[h].file]
    BY <1>6, <1>7
  <2> QED
    BY <1>6, <1>7, <2>1
<1>9. ASSUME NEW h \in DOMAIN Shown, Shown[h].file = Shown[h].name
      PROVE  /\ Shown'[h].file \in {p \in Path : tree'[p] = "file"}
             /\ Shown'[h].file # Shown[h].file =>
                  Asked[t] = "rename" /\ \E p \in Path : tree[p] = "dir" /\ tree'[p] # "dir"
  <2>1. h \in HeldAt /\ At(h).open /\ h \in Handles
    BY <1>6, HandlesAre
  <2>2. At(h).is = At(h).path /\ Shown'[h].file = At(h)'.is /\ Shown[h].file = At(h).is
    BY <1>6, <1>7, <1>9, <2>1
  <2>3. At(h).is # NoPath
    BY <2>1, <2>2 DEF OInv, Named
  <2> QED
    BY <2>1, <2>2, <2>3 DEF Follows, AlongWithDir, Asked
<1>10. Asked' = [Asked EXCEPT ![t] = "none"] /\ Asked[t] = call[t].op
  BY <1>1, AskedAfter
<1>11. O!Return(t, {"unlink", "rename", "mkdir", "rmdir"}) /\ lock'.leaked = lock.leaked
  BY <1>10, LockLeaves DEF O!Return, Asked
<1>12. /\ O!Return(t, {"unlink", "rename", "mkdir", "rmdir"}) /\ lock'.leaked = lock.leaked
       /\ Shown' = [h \in DOMAIN Shown |-> [Shown[h] EXCEPT !.file = Shown'[h].file]]
       /\ \A h \in DOMAIN Shown : Shown[h].file = Shown[h].name =>
            /\ Shown'[h].file \in {p \in Path : tree'[p] = "file"}
            /\ Shown'[h].file # Shown[h].file =>
                 Asked[t] = "rename" /\ \E p \in Path : tree[p] = "dir" /\ tree'[p] # "dir"
  BY <1>8, <1>9, <1>11
<1>13. O!ChangeTree(t)
  BY <1>12, Zenon DEF O!ChangeTree, O!Stays, O!GoesAlong, Shown, Asked
<1> QED
  BY <1>3, <1>13 DEF O!Next, Implements

LEMMA RemovedFollows ==
  ASSUME TInv, OInv, NEW t \in Task, NEW p \in Path, Removed(p), UNCHANGED cache,
         \A i \in HeldAt : At(i).is = p => At(i).path # p
  PROVE  Follows(t)
<1>1. HeldAt' = HeldAt /\ \A i \in HeldAt : cache[i] \in File /\ cache'[i] = cache[i]
  BY AtIs DEF HeldAt, TInv
<1>2. \A i \in HeldAt : /\ At(i) \in FileRec
                        /\ At(i).is # NoPath => At(i).is \in Path /\ tree[At(i).is] = "file"
  BY AtIs DEF OInv, Named, TInv, FileRec
<1>3. \A f \in File : files'[f] = IF files[f].is = p THEN [files[f] EXCEPT !.is = NoPath]
                                  ELSE files[f]
  BY DEF Removed
<1>4. \A r \in Path : r # p => tree'[r] = tree[r]
  BY DEF Removed, TInv, Types, TypeOK
<1>5. ASSUME NEW i \in HeldAt
      PROVE  /\ At(i)'.path = At(i).path /\ At(i)'.open = At(i).open /\ At(i)'.pos = At(i).pos
             /\ At(i)'.is = IF At(i).is = p THEN NoPath ELSE At(i).is
  <2>1. At(i)' = IF At(i).is = p THEN [At(i) EXCEPT !.is = NoPath] ELSE At(i)
    BY <1>1, <1>3 DEF At
  <2> QED
    BY <1>2, <2>1 DEF FileRec
<1> QED
  BY <1>1, <1>2, <1>4, <1>5 DEF Follows

\* What may be removed leaves the shape of the tree.
LEMMA RemoveWhole ==
  ASSUME TInv, OInv, NEW p \in Path, Removed(p), tree[p] = "file" \/ (IsDir(p) /\ ~HasChild(p))
  PROVE  Whole'
<1>1. Whole /\ \A r \in Path : tree'[r] = IF r = p THEN "none" ELSE tree[r]
  BY DEF OInv, Removed, TInv, Types, TypeOK
<1>2. ASSUME NEW r \in Path, Len(r) = 2, tree'[r] # "none"
      PROVE  tree'[<<r[1]>>] = "dir"
  <2> DEFINE s == <<r[1]>>
  <2>1. s \in Path /\ r \in Path /\ r[1] \in DirName /\ r = <<r[1], r[1]>> /\ s[1] = r[1]
    BY <1>2, PathKinds
  <2>2. tree[r] # "none" /\ tree[s] = "dir"
    BY <1>1, <1>2 DEF Whole
  <2>3. s # p
    BY <2>1, <2>2 DEF HasChild
  <2>4. tree'[s] = "dir"
    <3> HIDE DEF s
    <3> QED
      BY <1>1, <2>1, <2>2, <2>3
  <2> QED
    BY <2>4
<1>3. (\A r \in Path : tree[r] = "dir" => Below(r) # NoPath)'
  BY <1>1 DEF Whole, Below, NoPath
<1> QED
  BY <1>2, <1>3 DEF Whole

LEMMA UnlinkStep ==
  ASSUME TInv, TInv', OInv, NEW t \in Task, Unlink(t)
  PROVE  Implements
<1>1. PICK p : p = call[t].path
  OBVIOUS
<1>2. /\ call[t].op = "unlink" /\ call[t].at = "checked" /\ tree[p] = "file" /\ Removed(p)
      /\ UNCHANGED cache /\ call' = [call EXCEPT ![t] = Idle] /\ LockMoves(t)
  BY <1>1 DEF Unlink, Returns, LockMoves
<1>3. p \in Path
  BY <1>1, <1>2, PathOf DEF TInv
<1>4. \A i \in HeldAt : At(i).path # p
  BY <1>1, <1>2 DEF OInv, Unnamed
<1>5. Follows(t)
  BY <1>2, <1>3, <1>4, RemovedFollows
<1>6. Whole'
  BY <1>2, <1>3, RemoveWhole
<1> QED
  BY <1>2, <1>5, <1>6, ChangeStep

LEMMA RmdirStep ==
  ASSUME TInv, TInv', OInv, NEW t \in Task, Rmdir(t)
  PROVE  Implements
<1>1. PICK p : p = call[t].path
  OBVIOUS
<1>2. /\ call[t].op = "rmdir" /\ call[t].at = "start" /\ IsDir(p) /\ ~HasChild(p) /\ Removed(p)
      /\ UNCHANGED cache /\ call' = [call EXCEPT ![t] = Idle] /\ LockMoves(t)
  BY <1>1 DEF Rmdir, Calls, Returns, LockMoves
<1>3. p \in Path
  BY <1>1, <1>2, PathOf DEF TInv
<1>4. \A i \in HeldAt : At(i).is # p
  BY <1>2, <1>3, PathKinds DEF OInv, Named, IsDir
<1>5. Follows(t)
  BY <1>2, <1>3, <1>4, RemovedFollows
<1>6. Whole'
  BY <1>2, <1>3, RemoveWhole
<1> QED
  BY <1>2, <1>5, <1>6, ChangeStep

LEMMA MkdirStep ==
  ASSUME TInv, TInv', OInv, NEW t \in Task, Mkdir(t)
  PROVE  Implements
<1>1. PICK p : p = call[t].path
  OBVIOUS
<1>2. /\ call[t].op = "mkdir" /\ call[t].at = "start" /\ tree[p] = "none" /\ Below(p) # NoPath
      /\ tree' = [tree EXCEPT ![p] = "dir"]
      /\ UNCHANGED <<files, cache>> /\ call' = [call EXCEPT ![t] = Idle] /\ LockMoves(t)
  BY <1>1 DEF Mkdir, Calls, Returns, LockMoves
<1>3. p \in Path /\ tree \in [Path -> {"none", "file", "dir"}]
  BY <1>1, <1>2, PathOf DEF TInv, Types, TypeOK
<1>4. HeldAt' = HeldAt /\ \A i \in HeldAt : At(i)' = At(i)
  BY <1>2 DEF HeldAt, At
<1>5. \A r \in Path : tree'[r] = IF r = p THEN "dir" ELSE tree[r]
  BY <1>2, <1>3
<1>6. Follows(t)
  <2>1. \A i \in HeldAt : At(i).is # NoPath => At(i).is \in Path /\ tree[At(i).is] = "file"
    BY AtIs DEF OInv, Named, FileRec, TInv
  <2> QED
    BY <1>2, <1>4, <1>5, <2>1 DEF Follows
<1>7. Whole'
  <2>1. Whole /\ Len(p) = 1
    BY <1>2, <1>3, BelowIs DEF OInv
  <2>2. ASSUME NEW r \in Path, Len(r) = 2, tree'[r] # "none"
        PROVE  tree'[<<r[1]>>] = "dir"
    <3> DEFINE s == <<r[1]>>
    <3>1. s \in Path
      BY <2>2, PathKinds
    <3>2. tree[s] = "dir"
      BY <1>5, <2>1, <2>2 DEF Whole
    <3>3. tree'[s] = "dir"
      <4> HIDE DEF s
      <4> QED
        BY <1>5, <3>1, <3>2
    <3> QED
      BY <3>3
  <2>3. (\A r \in Path : tree[r] = "dir" => Below(r) # NoPath)'
    BY <1>2, <1>5, <2>1 DEF Whole, Below, NoPath
  <2> QED
    BY <2>2, <2>3 DEF Whole
<1> QED
  BY <1>2, <1>6, <1>7, ChangeStep

\* What a rename writes, and what it asks of the tree.
RenameOf(p, q) ==
  /\ p \in Path /\ q \in Path /\ q # <<p[1], p[1]>> /\ Renames(p, q)
  /\ tree \in [Path -> {"none", "file", "dir"}]
  /\ tree' = [r \in Path |-> IF r = q THEN tree[p]
                             ELSE IF r = Below(q) /\ Below(p) # NoPath THEN tree[Below(p)]
                             ELSE IF r \in {p, Below(p)} THEN "none" ELSE tree[r]]

LEMMA RenameWhole ==
  ASSUME Whole, NEW p, NEW q, RenameOf(p, q)
  PROVE  Whole'
<1>1. /\ p \in Path /\ q \in Path /\ q # <<p[1], p[1]>> /\ p # q
      /\ HasParent(q) /\ tree[q] \in {"none", tree[p]} /\ tree[p] # "none"
      /\ tree[p] = "dir" => Below(q) # NoPath
  BY DEF RenameOf, Renames
<1>2. \A r \in Path : tree'[r] = IF r = q THEN tree[p]
                                 ELSE IF r = Below(q) /\ Below(p) # NoPath THEN tree[Below(p)]
                                 ELSE IF r \in {p, Below(p)} THEN "none" ELSE tree[r]
  BY DEF RenameOf
<1>3. Below(p) # NoPath => /\ Below(p) \in Path /\ Len(Below(p)) = 2 /\ Below(p)[1] = p[1]
                           /\ p = <<p[1]>>
  BY <1>1, BelowIs
<1>4. Below(q) # NoPath => /\ Below(q) \in Path /\ Len(Below(q)) = 2 /\ Below(q)[1] = q[1]
                           /\ q = <<q[1]>>
  BY <1>1, BelowIs
<1>5. ASSUME NEW r \in Path, Len(r) = 2, tree'[r] # "none"
      PROVE  tree'[<<r[1]>>] = "dir"
  <2>0. PICK s : s = <<r[1]>>
    OBVIOUS
  <2>1. /\ s \in Path /\ Len(s) = 1 /\ s[1] = r[1] /\ r[1] \in DirName /\ r = <<r[1], r[1]>>
        /\ Below(s) = r /\ r # NoPath
    BY <1>5, <2>0, PathKinds DEF Below
  <2>2. s # Below(q) /\ s # Below(p)
    BY <1>3, <1>4, <2>1, PathKinds
  <2>3. tree'[s] = IF s = q THEN tree[p] ELSE IF s = p THEN "none" ELSE tree[s]
    BY <1>2, <2>1, <2>2
  <2>4. tree[r] # "none" => tree[s] = "dir"
    BY <1>5, <2>0 DEF Whole
  <2>5. CASE r = q
    <3>1. s # q /\ s # p /\ tree[s] = "dir"
      BY <1>1, <1>5, <2>0, <2>1, <2>5 DEF HasParent, IsDir
    <3> QED
      BY <2>0, <2>3, <3>1
  <2>6. CASE r # q /\ r = Below(q) /\ Below(p) # NoPath
    <3>1. tree[Below(p)] # "none"
      BY <1>2, <1>5, <2>6
    <3>2. tree[<<p[1]>>] = "dir"
      BY <1>3, <2>6, <3>1 DEF Whole
    <3>3. tree[p] = "dir"
      BY <1>3, <2>6, <3>2
    <3>4. s = q
      BY <1>4, <2>0, <2>1, <2>6
    <3> QED
      BY <2>0, <2>3, <3>3, <3>4
  <2>7. CASE r # q /\ ~(r = Below(q) /\ Below(p) # NoPath)
    <3>1. r \notin {p, Below(p)} /\ tree'[r] = tree[r] /\ tree[s] = "dir"
      BY <1>2, <1>5, <2>4, <2>7
    <3>2. s # p
      BY <2>1, <3>1
    <3>3. s = q => tree[p] = "dir"
      BY <1>1, <3>1
    <3> QED
      BY <2>0, <2>3, <3>1, <3>2, <3>3
  <2> QED
    BY <2>5, <2>6, <2>7
<1>6. ASSUME NEW r \in Path, tree'[r] = "dir"
      PROVE  Below(r) # NoPath
  <2>1. CASE r = q
    BY <1>1, <1>2, <1>6, <2>1
  <2>2. CASE r # q /\ r = Below(q) /\ Below(p) # NoPath
    <3>1. tree[Below(p)] = "dir" /\ Below(p) \in Path /\ Len(Below(p)) = 2
      BY <1>2, <1>3, <1>6, <2>2
    <3>2. Below(Below(p)) # NoPath
      BY <3>1 DEF Whole
    <3>3. PICK x \in Path : x = Below(p)
      BY <3>1
    <3> QED
      BY <3>1, <3>2, <3>3, BelowIs
  <2>3. CASE r # q /\ ~(r = Below(q) /\ Below(p) # NoPath)
    BY <1>2, <1>6, <2>3 DEF Whole
  <2> QED
    BY <2>1, <2>2, <2>3
<1>7. (\A r \in Path : tree[r] = "dir" => Below(r) # NoPath)'
  BY <1>6 DEF Below, NoPath
<1> QED
  BY <1>5, <1>7 DEF Whole

\* Open files go where the rename brings them.
LEMMA RenameFollows ==
  ASSUME TInv, OInv, NEW t \in Task, call[t].op = "rename", NEW p, NEW q, RenameOf(p, q),
         UNCHANGED cache, files' = [f \in File |-> [files[f] EXCEPT !.is = Moved(@, p, q)]],
         \A i \in HeldAt : At(i).path # p /\ At(i).path # q
  PROVE  Follows(t)
<1>1. /\ p \in Path /\ q \in Path /\ p # q /\ Whole
      /\ tree[q] \in {"none", tree[p]} /\ tree[p] # "none"
      /\ tree[p] = "dir" => Below(q) # NoPath /\ ~HasChild(q)
  BY DEF RenameOf, Renames, OInv
<1>2. HeldAt' = HeldAt /\ \A i \in HeldAt : cache[i] \in File /\ cache'[i] = cache[i]
  BY AtIs DEF HeldAt, TInv
<1>3. \A r \in Path : tree'[r] = IF r = q THEN tree[p]
                                 ELSE IF r = Below(q) /\ Below(p) # NoPath THEN tree[Below(p)]
                                 ELSE IF r \in {p, Below(p)} THEN "none" ELSE tree[r]
  BY DEF RenameOf
<1>4. ASSUME NEW i \in HeldAt
      PROVE  /\ At(i).path # p /\ At(i).path # q
             /\ At(i).is # NoPath => At(i).is \in Path /\ tree[At(i).is] = "file"
             /\ At(i).is \in Path \union {NoPath}
             /\ At(i)'.path = At(i).path /\ At(i)'.open = At(i).open /\ At(i)'.pos = At(i).pos
             /\ At(i)'.is = Moved(At(i).is, p, q)
  <2>1. At(i) \in FileRec /\ At(i).path # p /\ At(i).path # q
        /\ (At(i).is # NoPath => At(i).is \in Path /\ tree[At(i).is] = "file")
    BY AtIs DEF OInv, Named, TInv, FileRec
  <2>2. At(i)' = [At(i) EXCEPT !.is = Moved(At(i).is, p, q)]
    BY <1>2 DEF At
  <2> QED
    BY <2>1, <2>2 DEF FileRec
<1>5. ASSUME Below(p) # NoPath, tree[Below(p)] = "file"
      PROVE  /\ tree[p] = "dir" /\ tree'[p] = "none"
             /\ Below(q) \in Path /\ Below(q) # NoPath /\ tree'[Below(q)] = "file"
  <2>1. Below(p) \in Path /\ Len(Below(p)) = 2 /\ p = <<p[1]>> /\ Below(p)[1] = p[1] /\ Len(p) = 1
    BY <1>1, <1>5, BelowIs
  <2>2. tree[p] = "dir"
    <3>1. PICK r : r = Below(p)
      OBVIOUS
    <3>2. r \in Path /\ Len(r) = 2 /\ tree[r] # "none" /\ p = <<r[1]>>
      BY <1>5, <2>1, <3>1
    <3>3. tree[<<r[1]>>] = "dir"
      BY <1>1, <3>2 DEF Whole
    <3> QED
      BY <3>2, <3>3
  <2>3. Below(q) \in Path /\ Below(q) # NoPath /\ Len(Below(q)) = 2 /\ Below(q) # q
    BY <1>1, <2>2, BelowIs
  <2>4. p # Below(q)
    <3>1. PICK r : r = Below(q)
      OBVIOUS
    <3> QED
      BY <2>1, <2>3, <3>1
  <2>5. tree'[p] = "none"
    BY <1>1, <1>3, <2>4
  <2>6. tree'[Below(q)] = tree[Below(p)]
    BY <1>3, <1>5, <2>3
  <2> QED
    BY <1>5, <2>2, <2>3, <2>5, <2>6
<1>6. Below(q) # NoPath => tree[Below(q)] # "file"
  <2> SUFFICES ASSUME Below(q) # NoPath, tree[Below(q)] = "file" PROVE FALSE
    OBVIOUS
  <2>1. /\ Below(q) \in Path /\ Len(Below(q)) = 2 /\ q = <<q[1]>>
        /\ Below(q)[1] = q[1] /\ q[1] \in DirName /\ Below(q) = <<q[1], q[1]>>
    BY <1>1, BelowIs
  <2>2. tree[q] = "dir"
    BY <1>1, <2>1 DEF Whole
  <2> QED
    BY <1>1, <2>1, <2>2 DEF HasChild
<1>7. ASSUME NEW i \in HeldAt
      PROVE  /\ At(i)'.is # NoPath => tree'[At(i)'.is] = "file"
             /\ At(i).is = At(i).path /\ At(i).is # NoPath =>
                  /\ At(i)'.is \in {r \in Path : tree'[r] = "file"}
                  /\ At(i)'.is # At(i).is => AlongWithDir(t)
  <2>0. PICK r : r = At(i).is
    OBVIOUS
  <2>1. /\ At(i)'.is = Moved(r, p, q) /\ At(i).path # p /\ At(i).path # q
        /\ r # NoPath => r \in Path /\ tree[r] = "file"
    BY <1>4, <2>0
  <2>2. CASE r = NoPath
    BY <1>1, <2>0, <2>1, <2>2, MovedIs
  <2>3. CASE r = p
    <3>1. At(i)'.is = q /\ tree'[q] = "file"
      BY <1>1, <1>3, <2>1, <2>3, PathKinds DEF Moved
    <3> QED
      BY <2>0, <2>1, <2>3, <3>1
  <2>4. CASE r # NoPath /\ r # p /\ r = Below(p)
    <3>1. At(i)'.is = Below(q)
      BY <2>1, <2>4 DEF Moved
    <3>2. /\ tree[p] = "dir" /\ tree'[p] = "none"
          /\ Below(q) \in Path /\ Below(q) # NoPath /\ tree'[Below(q)] = "file"
      BY <1>5, <2>1, <2>4
    <3>3. AlongWithDir(t)
      BY <1>1, <3>2 DEF AlongWithDir
    <3> QED
      BY <3>1, <3>2, <3>3
  <2>5. CASE r # NoPath /\ r # p /\ r # Below(p) /\ r = q
    <3>1. At(i)'.is = NoPath
      BY <2>1, <2>5 DEF Moved
    <3> QED
      BY <2>0, <2>1, <2>5, <3>1
  <2>6. CASE r # NoPath /\ r # p /\ r # Below(p) /\ r # q
    <3>1. At(i)'.is = r
      BY <2>1, <2>6 DEF Moved
    <3>2. r # Below(q)
      BY <1>6, <2>1, <2>6
    <3>3. tree'[r] = "file" /\ r \in Path
      BY <1>3, <2>1, <2>6, <3>2
    <3> QED
      BY <2>0, <3>1, <3>3
  <2> QED
    BY <2>2, <2>3, <2>4, <2>5, <2>6
<1> QED
  BY <1>2, <1>4, <1>7 DEF Follows

LEMMA RenameStep ==
  ASSUME TInv, TInv', OInv, NEW t \in Task, Rename(t)
  PROVE  Implements
<1>1. PICK p, q : p = call[t].path /\ q = call[t].to
  OBVIOUS
<1>2. /\ call[t].op = "rename" /\ call[t].at = "checked" /\ call' = [call EXCEPT ![t] = Idle]
      /\ LockMoves(t)
      /\ UNCHANGED cache /\ files' = [f \in File |-> [files[f] EXCEPT !.is = Moved(@, p, q)]]
  BY <1>1 DEF Rename, Returns, LockMoves
<1>3. RenameOf(p, q)
  <2>1. p \in Path /\ q \in Path /\ tree \in [Path -> {"none", "file", "dir"}]
    BY <1>1, <1>2, PathOf DEF TInv, Types, TypeOK
  <2>2. q # <<p[1], p[1]>>
    BY <1>1, <1>2 DEF OInv, Shapes, Sound
  <2> QED
    BY <1>1, <2>1, <2>2 DEF Rename, RenameOf
<1>4. \A i \in HeldAt : At(i).path # p /\ At(i).path # q
  BY <1>1, <1>2 DEF OInv, Unnamed
<1>5. Follows(t)
  BY <1>2, <1>3, <1>4, RenameFollows
<1>6. Whole'
  BY <1>3, RenameWhole DEF OInv
<1> QED
  BY <1>2, <1>5, <1>6, ChangeStep

------------------------------------------------------------------------------
(* All steps, and the theorem.                                             *)

LEMMA InitOpen == ASSUME Init PROVE OInv /\ O!Init
<1>1. cache = [i \in 1..CacheMin |-> Null] /\ call = [t \in Task |-> Idle]
      /\ tree = [p \in Path |-> "none"]
  BY DEF Init
<1>2. HeldAt = {} /\ Handles = {}
  BY <1>1 DEF HeldAt, Handles
<1>3. Sound(Idle) /\ Idle.at # "checked" /\ Idle.op = "none"
  BY IdleSound
<1>4. OInv
  BY <1>1, <1>2, <1>3 DEF OInv, InTable, Whole, Named, Unnamed, Shapes
<1>5. Shown = <<>> /\ lock.leaked = FALSE
  <2>1. DOMAIN Shown = {} /\ Shown = [h \in {} |-> Shown[h]]
    BY <1>2 DEF Shown
  <2> QED
    BY <2>1 DEF Init
<1>6. [t \in Task |-> call[t].op] = [t \in Task |-> "none"]
  BY <1>1, <1>3
<1> QED
  BY <1>1, <1>4, <1>5, <1>6 DEF O!Init, Shown

LEMMA StutterOpen == ASSUME OInv, UNCHANGED vars PROVE Implements
<1>1. /\ HeldAt' = HeldAt /\ tree' = tree /\ call' = call /\ Shown' = Shown /\ lock' = lock
      /\ \A i : At(i)' = At(i)
  BY DEF vars, HeldAt, At, Shown, Handles, PlaceFor, PlaceOf, Borrows
<1>2. OInv'
  <2>1. Whole'
    BY <1>1 DEF OInv, Whole, Below, NoPath
  <2> QED
    BY <1>1, <2>1 DEF OInv, InTable, Named, Unnamed, Shapes, Sound
<1> QED
  BY <1>1, <1>2 DEF Implements, O!vars, Shown

LEMMA WorksStep ==
  ASSUME TInv, TInv', OInv, NEW t \in Task, Works(t)
  PROVE  Implements
  BY UseStep, PlainSteps, OpenAllocateStep, OpenFailsStep, OpenFileStep, TruncateOpenedStep,
     CloseStep, MoveStep, TransferBeginStep, TransferEndStep, CheckNamesStep, UnlinkStep,
     RenameStep, MkdirStep, RmdirStep, SeekingSteps
  DEF Works

\* All of OpenFiles but that calls return, whatever fails: every call takes effect
\* at one moment, an open file keeps its name unless its directory is renamed, and
\* a call that is not to move a file leaves its place alone or reports an error
\* (the lock of the layer, its check of names, the seek back).
THEOREM FilesImplement == Spec => O!Init /\ [][O!Next]_(O!vars)
<1>1. Init => OInv /\ O!Init
  BY InitOpen
<1>2. TInv /\ TInv' /\ OInv /\ [Next]_vars => OInv' /\ [O!Next]_(O!vars)
  <2> SUFFICES ASSUME TInv, TInv', OInv, [Next]_vars PROVE Implements
    BY DEF Implements
  <2> QED
    BY StutterOpen, RequestStep, WorksStep DEF Next
<1> QED
  BY <1>1, <1>2, TableInvariance, PTL DEF Spec
===============================================================================
