-------------------------------- MODULE EspVfs --------------------------------
(***************************************************************************)
(* The POSIX layer over littlefs, esp_littlefs.c: a table of open files    *)
(* (an array of pointers that grows, and a list), directory streams, and   *)
(* one recursive lock.  Tasks call it at the same time; a step is what a   *)
(* call does between two places where the order of two littlefs calls, or  *)
(* the lock, matters.                                                      *)
(*                                                                         *)
(* Under it littlefs is a tree of files and directories.  A path is a      *)
(* name, or the one entry of the directory with that name; streams read    *)
(* the root.  What a call reports, and the bytes and times of files, are   *)
(* left out.                                                               *)
(***************************************************************************)
EXTENDS Integers, Sequences, FiniteSets, SequencesExt

CONSTANTS Task, Name, DirName,
          Loads,                    \* one is taken: the calls of each task, names, files
                                    \* that are open at a time
          CacheMin, CacheFactor,    \* CONFIG_LITTLEFS_FD_CACHE_...
          MaxFiles, MaxPlace,       \* bounds: most open files, positions,
          MaxTold,                  \* and places of a stream that are told
          SeeksAcrossChanges        \* whether a place told is sought after changes

Nobody == "nobody"

ASSUME VfsAssumption ==
  /\ Name \subseteq Nat /\ IsFiniteSet(Name) /\ DirName \subseteq Name
  /\ CacheMin \in Nat \ {0} /\ CacheFactor \in Nat \ {0, 1}
  /\ MaxFiles \in Nat /\ MaxPlace \in Nat /\ Nobody \notin Task

VARIABLES tree,     \* what is at each path
          files,    \* vfs_littlefs_file_t, by number
          cache,    \* efs->cache; descriptors are counted from 1
          list,     \* efs->file and on, head first
          fd_count,
          lock,     \* efs->lock: its owner, and whether a call left without giving it
          load,     \* that of this run
          call,     \* per task, the call it is in
          dir       \* per task, its directory stream

vars == <<tree, files, cache, list, fd_count, lock, load, call, dir>>

Null == 0
NoPath == <<>>
Path == {<<n>> : n \in Name} \union {<<n, n>> : n \in DirName}
File == 1..MaxFiles
Place == 0..MaxPlace

\* A file has the path it was opened by, and is where renames have brought it;
\* it is open for littlefs until lfs_file_close.
NoFile == [path |-> NoPath, is |-> NoPath, pos |-> 0, open |-> FALSE]
NoDir == [id |-> 0 - 1]

\* No call; "error": the last one has failed and moved its file.
Idle == [op |-> "none", at |-> "none"]
Error == [op |-> "error", at |-> "none"]

------------------------------------------------------------------------------
(* The lock.                                                               *)

\* sem_take, with no limit of time; its owner gets it again.
Takes(t) == lock.owner \in {Nobody, t}

\* sem_give: a task that owes one more keeps it.
Given == IF lock.leaked THEN lock ELSE [lock EXCEPT !.owner = Nobody]

\* A call is over, and has given what it took.
Returns(t) == call' = [call EXCEPT ![t] = Idle] /\ lock' = Given

\* A call goes on, with the lock or after giving it.
Holds(t, c) == call' = [call EXCEPT ![t] = c] /\ lock' = [lock EXCEPT !.owner = t]
GoesOn(t, c) == call' = [call EXCEPT ![t] = c] /\ lock' = Given

Calls(t, op) == call[t].op = op /\ call[t].at = "start"

------------------------------------------------------------------------------
(* The table of open files.                                                *)

FirstFree(s) == CHOOSE i \in DOMAIN s : s[i] = Null /\ \A j \in 1..i - 1 : s[j] # Null

\* Room for one more: twice the size, the new part zeroed.
Grown == IF fd_count + 1 > Len(cache)
         THEN cache \o [i \in 1..(CacheFactor - 1) * Len(cache) |-> Null]
         ELSE cache

\* esp_littlefs_allocate_fd, when there is memory.
AllocateFd(f) ==
  /\ cache' = [Grown EXCEPT ![FirstFree(Grown)] = f]
  /\ list' = <<f>> \o list
  /\ fd_count' = fd_count + 1

\* Where a file is in the list.
Link(f) == CHOOSE i \in DOMAIN list : list[i] = f

\* Mutant: only the first file of the list is unlinked.
FreeFdOfHead(fd) ==
  /\ list' = IF list[1] = cache[fd] THEN Tail(list) ELSE list
  /\ files' = [files EXCEPT ![cache[fd]] = NoFile]
  /\ cache' = [cache EXCEPT ![fd] = Null]
  /\ fd_count' = fd_count - 1

\* esp_littlefs_free_fd
FreeFd(fd) ==
  /\ list' = RemoveAt(list, Link(cache[fd]))
  /\ files' = [files EXCEPT ![cache[fd]] = NoFile]
  /\ cache' = [cache EXCEPT ![fd] = Null]
  /\ fd_count' = fd_count - 1

\* The position of lfs_file_t.
MovesTo(fd, n) == files' = [files EXCEPT ![cache[fd]].pos = n]
PlaceOf(fd) == files[cache[fd]].pos

\* Mutant: the search stops after fd_count places instead of pointers.
HasFdEarly(p) == \E i \in DOMAIN cache :
  cache[i] # Null /\ files[cache[i]].path = p /\ i <= fd_count

\* esp_littlefs_get_fd_by_name: it stops after fd_count pointers.
HasFd(p) == \E i \in DOMAIN cache :
  /\ cache[i] # Null /\ files[cache[i]].path = p
  /\ Cardinality({j \in 1..i : cache[j] # Null}) <= fd_count

\* Descriptors that open has returned and that nobody closes or has closed.
Usable == {fd \in DOMAIN cache :
             /\ cache[fd] # Null /\ files[cache[fd]].open
             /\ \A t \in Task : call[t].op \in {"close", "truncate"} => call[t].fd # fd}

------------------------------------------------------------------------------
(* The tree, and what a commit to the root does to the streams: lfs_dir_t  *)
(* counts entries, the superblock of the root is entry 0.                  *)

IsDir(p) == Len(p) = 1 /\ tree[p] = "dir"
HasChild(p) == p[1] \in DirName /\ tree[<<p[1], p[1]>>] # "none"
HasParent(p) == Len(p) = 1 \/ IsDir(<<p[1]>>)
InRoot == {n \in Name : tree[<<n>>] # "none"}
Id(n, names) == 1 + Cardinality({m \in names : m < n})

\* What its reader may no longer rely on.
Forget(d, n) ==
  [d EXCEPT !.told = @ \ {n}, !.stays = @ \ {n},
            !.same = SeeksAcrossChanges /\ @,
            !.cookie.told = @ \ {n}, !.cookie.good = SeeksAcrossChanges /\ @]

\* Mutant: the entry just told is not counted as told when it goes.
ShiftedLate(d, e) ==
  LET id == Id(e.name, d.names)
  IN  IF e.is = "gone" /\ d.id > id + 1 THEN d.id - 1
      ELSE IF e.is = "new" /\ d.id >= id THEN d.id + 1 ELSE d.id

\* The place of a stream, corrected for one entry of the commit.
Shifted(d, e) ==
  LET id == Id(e.name, d.names)
  IN  IF e.is = "gone" /\ d.id > id THEN d.id - 1
      ELSE IF e.is = "new" /\ d.id >= id THEN d.id + 1 ELSE d.id

Corrected(d, e) ==
  IF e.is = "none" THEN d
  ELSE [Forget(d, e.name) EXCEPT
          !.id = Shifted(d, e),
          !.names = IF e.is = "gone" THEN @ \ {e.name} ELSE @ \union {e.name}]

\* The streams after a commit: of an entry that is replaced, then of a new one,
\* then of one that is removed.
NoEdit == [name |-> 0, is |-> "none"]
Commit(over, new, old) ==
  dir' = [t \in Task |-> IF dir[t] = NoDir THEN NoDir
                         ELSE Corrected(Corrected(Corrected(dir[t], over), new), old)]

Gone(p) == IF Len(p) = 1 /\ tree[p] # "none" THEN [name |-> p[1], is |-> "gone"] ELSE NoEdit
New(p) == IF Len(p) = 1 THEN [name |-> p[1], is |-> "new"] ELSE NoEdit

------------------------------------------------------------------------------
Init ==
  /\ tree = [p \in Path |-> "none"]
  /\ files = [f \in File |-> NoFile]
  /\ cache = [i \in 1..CacheMin |-> Null] /\ list = <<>> /\ fd_count = 0
  /\ lock = [owner |-> Nobody, leaked |-> FALSE]
  /\ load \in Loads
  /\ call = [t \in Task |-> Idle] /\ dir = [t \in Task |-> NoDir]

\* The calls a program may make now.  A descriptor is closed when no call uses
\* it; a directory does not go below itself.
FdCalls == {"move", "use", "transfer", "close", "truncate"}
Opening == {t \in Task : call[t].op \in {"open", "truncate"} /\ call[t].at = "start"}

Known == {p \in Path : p[1] \in load.names}
Opens == IF Len(list) + Cardinality(Opening) < load.files THEN Known ELSE {}
Closable == {fd \in Usable : \A t \in Task : call[t].op \in FdCalls => call[t].fd # fd}
DirCalls(t) == IF dir[t] = NoDir THEN {"opendir"}
               ELSE {"rewinddir", "closedir"}
                    \union (IF dir[t].offset <= MaxTold THEN {"telldir"} ELSE {})
                    \union (IF dir[t].end THEN {} ELSE {"readdir"})
                    \union (IF dir[t].cookie.good THEN {"seekdir"} ELSE {})

Requests(t) ==
  [op : {"open"}, at : {"start"}, path : Opens, create : BOOLEAN]
  \union [op : {"truncate"}, at : {"start"}, path : Opens, create : {FALSE}, fd : {Null}]
  \union [op : {"move", "use"}, at : {"start"}, fd : Usable]
  \union [op : {"transfer"}, at : {"start"}, fd : Usable, to : Place]
  \union [op : {"close"}, at : {"start"}, fd : Closable]
  \union [op : {"stat", "unlink", "mkdir", "rmdir"}, at : {"start"}, path : Known]
  \union {c \in [op : {"rename"}, at : {"start"}, path : Known, to : Known] :
            c.to # <<c.path[1], c.path[1]>>}
  \union [op : DirCalls(t), at : {"start"}]

Request(t) ==
  /\ call[t] \in {Idle, Error}
  /\ \E c \in Requests(t) : c.op \in load.calls[t] /\ call' = [call EXCEPT ![t] = c]
  /\ UNCHANGED <<tree, files, cache, list, fd_count, lock, dir>>

\* vfs_littlefs_stat, _utime; _fsync, _ftruncate, _fstat, _fcntl.  One that has
\* to store what was written, and fails, may leave the file at another place.
Use(t) ==
  /\ Calls(t, "use") \/ Calls(t, "stat")
  /\ Takes(t)
  /\ \/ Returns(t) /\ UNCHANGED files
     \/ /\ call[t].op = "use" /\ GoesOn(t, Error)
        /\ \E n \in Place : MovesTo(call[t].fd, n)
  /\ UNCHANGED <<tree, cache, list, fd_count, dir>>

------------------------------------------------------------------------------
(* vfs_littlefs_open, and _truncate, which opens, truncates and closes with *)
(* the lock free in between.                                               *)

NoMemory(t) ==
  /\ Calls(t, "open") \/ Calls(t, "truncate")
  /\ Takes(t) /\ Returns(t)
  /\ cache' \in {cache, Grown}
  /\ UNCHANGED <<tree, files, list, fd_count, dir>>

OpenAllocate(t) == \E f \in File :
  /\ Calls(t, "open") \/ Calls(t, "truncate")
  /\ Takes(t)
  /\ f \notin Range(list) /\ \A g \in 1..f - 1 : g \in Range(list)
  /\ AllocateFd(f)
  /\ Holds(t, [op |-> call[t].op, at |-> "allocated", path |-> call[t].path,
               create |-> call[t].create, fd |-> FirstFree(Grown)])
  /\ UNCHANGED <<tree, files, dir>>

\* lfs_file_opencfg fails: no such file, a directory, no space, ...
OpenFails(t) ==
  /\ call[t].at = "allocated"
  /\ FreeFd(call[t].fd) /\ Returns(t)
  /\ UNCHANGED <<tree, dir>>

\* Whether the sync after it fails makes no difference here.
OpenFile(t) == LET p == call[t].path IN
  /\ call[t].at = "allocated"
  /\ \/ tree[p] = "file" /\ UNCHANGED <<tree, dir>>
     \/ /\ tree[p] = "none" /\ HasParent(p) /\ call[t].create
        /\ tree' = [tree EXCEPT ![p] = "file"] /\ Commit(NoEdit, New(p), NoEdit)
  /\ files' = [files EXCEPT ![cache[call[t].fd]] = [path |-> p, is |-> p, pos |-> 0, open |-> TRUE]]
  /\ IF call[t].op = "open" THEN Returns(t)
     ELSE GoesOn(t, [call[t] EXCEPT !.at = "opened"])
  /\ UNCHANGED <<cache, list, fd_count>>

TruncateOpened(t) ==
  /\ call[t].at = "opened" /\ Takes(t)
  /\ GoesOn(t, [call[t] EXCEPT !.at = "close"])
  /\ UNCHANGED <<tree, files, cache, list, fd_count, dir>>

\* vfs_littlefs_close.  A file that littlefs has closed with an error keeps its
\* descriptor, and its path.
Close(t) ==
  /\ Calls(t, "close") \/ call[t].at = "close"
  /\ Takes(t) /\ Returns(t)
  /\ \/ FreeFd(call[t].fd)
     \/ /\ files' = [files EXCEPT ![cache[call[t].fd]] =
                                   [@ EXCEPT !.is = NoPath, !.open = FALSE]]
        /\ UNCHANGED <<cache, list, fd_count>>
  /\ UNCHANGED <<tree, dir>>

------------------------------------------------------------------------------
(* Reads, writes and seeks.                                                *)

\* vfs_littlefs_read, _write, _lseek, to any place: a call that fails may have
\* stored what was written before, or filled a gap, up to some place.
Move(t) ==
  /\ Calls(t, "move") /\ Takes(t) /\ Returns(t)
  /\ \E n \in Place : MovesTo(call[t].fd, n)
  /\ UNCHANGED <<tree, cache, list, fd_count, dir>>

\* vfs_littlefs_pread, _pwrite, to the seek to the wanted place.  When it fails
\* they jump over the sem_give.
TransferBegin(t) ==
  /\ Calls(t, "transfer") /\ Takes(t)
  /\ LET c == call[t] IN
     \/ /\ Holds(t, [op |-> c.op, at |-> "there", fd |-> c.fd, to |-> c.to,
                      saved |-> PlaceOf(c.fd)])
        /\ MovesTo(c.fd, c.to)
     \/ /\ call' = [call EXCEPT ![t] = Error]
        /\ lock' = [owner |-> t, leaked |-> TRUE]
        /\ \E n \in Place : MovesTo(c.fd, n)
  /\ UNCHANGED <<tree, cache, list, fd_count, dir>>

\* The transfer, which moves the file, and the seek back.  That stores what was
\* written: when it fails the file stays where the transfer, or the storing,
\* has brought it.
TransferEnd(t) ==
  /\ call[t].at = "there"
  /\ \/ MovesTo(call[t].fd, call[t].saved) /\ Returns(t)
     \/ /\ \E n \in Place : MovesTo(call[t].fd, n)
        /\ GoesOn(t, Error)
  /\ UNCHANGED <<tree, cache, list, fd_count, dir>>

------------------------------------------------------------------------------
(* Names.                                                                  *)

\* vfs_littlefs_unlink and _rename: no descriptor may be open on the paths.
CheckNames(t) ==
  /\ Calls(t, "unlink") \/ Calls(t, "rename")
  /\ Takes(t)
  /\ IF HasFd(call[t].path) \/ (call[t].op = "rename" /\ HasFd(call[t].to))
     THEN Returns(t)
     ELSE Holds(t, [call[t] EXCEPT !.at = "checked"])
  /\ UNCHANGED <<tree, files, cache, list, fd_count, dir>>

\* littlefs, or the check for a directory, refuses.
NamesRefused(t) ==
  /\ call[t].at = "checked" \/ Calls(t, "mkdir") \/ Calls(t, "rmdir")
  /\ Takes(t) /\ Returns(t)
  /\ UNCHANGED <<tree, files, cache, list, fd_count, dir>>

Removed(p) ==
  /\ tree' = [tree EXCEPT ![p] = "none"] /\ Commit(NoEdit, NoEdit, Gone(p))
  /\ files' = [f \in File |-> IF files[f].is = p THEN [files[f] EXCEPT !.is = NoPath]
                              ELSE files[f]]

Unlink(t) ==
  /\ call[t].op = "unlink" /\ call[t].at = "checked"
  /\ tree[call[t].path] = "file"
  /\ Removed(call[t].path) /\ Returns(t)
  /\ UNCHANGED <<cache, list, fd_count>>

\* Where a path, or the entry of a directory, is after p has become q.
Below(p) == IF Len(p) = 1 /\ p[1] \in DirName THEN <<p[1], p[1]>> ELSE NoPath
Moved(r, p, q) == IF r = p THEN q
                  ELSE IF r # NoPath /\ r = Below(p) THEN Below(q)
                  ELSE IF r = q THEN NoPath ELSE r

\* lfs_rename_ accepts, for paths of the model.
Renames(p, q) ==
  /\ tree[p] # "none" /\ p # q /\ HasParent(q) /\ tree[q] \in {"none", tree[p]}
  /\ tree[p] = "dir" => Below(q) # NoPath /\ ~HasChild(q)

Rename(t) == LET p == call[t].path  q == call[t].to IN
  /\ call[t].op = "rename" /\ call[t].at = "checked"
  /\ Renames(p, q) /\ Returns(t)
  /\ tree' = [r \in Path |-> IF r = q THEN tree[p]
                             ELSE IF r = Below(q) /\ Below(p) # NoPath THEN tree[Below(p)]
                             ELSE IF r \in {p, Below(p)} THEN "none" ELSE tree[r]]
  /\ files' = [f \in File |-> [files[f] EXCEPT !.is = Moved(@, p, q)]]
  /\ Commit(Gone(q), New(q), Gone(p))
  /\ UNCHANGED <<cache, list, fd_count>>

\* vfs_littlefs_mkdir, _rmdir
Mkdir(t) == LET p == call[t].path IN
  /\ Calls(t, "mkdir") /\ Takes(t) /\ Returns(t)
  /\ tree[p] = "none" /\ Below(p) # NoPath
  /\ tree' = [tree EXCEPT ![p] = "dir"] /\ Commit(NoEdit, New(p), NoEdit)
  /\ UNCHANGED <<files, cache, list, fd_count>>

Rmdir(t) == LET p == call[t].path IN
  /\ Calls(t, "rmdir") /\ Takes(t) /\ Returns(t)
  /\ IsDir(p) /\ ~HasChild(p)
  /\ Removed(p) /\ UNCHANGED <<cache, list, fd_count>>

------------------------------------------------------------------------------
(* Directory streams: told is what the reader has been told since the      *)
(* beginning, stays the names that were there all the time since.          *)

NoCookie == [offset |-> 0, told |-> {}, good |-> FALSE]
NewDir == [id |-> 0, offset |-> 0, names |-> InRoot, told |-> {}, stays |-> InRoot,
           twice |-> FALSE, end |-> FALSE, same |-> TRUE, cookie |-> NoCookie]

\* lfs_dir_read_: past the superblock, and stops at the end.
AtEnd(d) == d.id > Cardinality(d.names)
PastSuper(d) == IF d.id = 0 THEN [d EXCEPT !.id = 1] ELSE d
Entry(d) == CHOOSE n \in d.names : Id(n, d.names) = d.id
Skipped(d) == [d EXCEPT !.id = IF AtEnd(d) THEN @ ELSE @ + 1, !.offset = @ + 1]
Told(d) == IF AtEnd(d) THEN [Skipped(d) EXCEPT !.end = TRUE]
           ELSE [Skipped(d) EXCEPT !.told = @ \union {Entry(d)},
                                   !.twice = @ \/ Entry(d) \in d.told]

DirStep(t, d) ==
  /\ dir' = [dir EXCEPT ![t] = d]
  /\ UNCHANGED <<tree, files, cache, list, fd_count>>

OpenDir(t) == Calls(t, "opendir") /\ Takes(t) /\ Returns(t) /\ DirStep(t, NewDir)
CloseDir(t) == Calls(t, "closedir") /\ Takes(t) /\ Returns(t) /\ DirStep(t, NoDir)
ReadDir(t) == /\ Calls(t, "readdir") /\ Takes(t) /\ Returns(t)
              /\ DirStep(t, Told(PastSuper(dir[t])))

\* It takes no lock.
TellDir(t) ==
  /\ Calls(t, "telldir") /\ call' = [call EXCEPT ![t] = Idle] /\ UNCHANGED lock
  /\ DirStep(t, [dir[t] EXCEPT
       !.cookie = [offset |-> dir[t].offset, told |-> dir[t].told, good |-> dir[t].same]])

\* vfs_littlefs_seekdir starts over when the place is behind, and then reads
\* up to it, each time with the lock.
Target(t) == IF call[t].op = "rewinddir" THEN 0 ELSE dir[t].cookie.offset

SeekDir(t) ==
  /\ Calls(t, "seekdir") \/ Calls(t, "rewinddir")
  /\ call' = [call EXCEPT ![t].at = "skip"]
  /\ IF Target(t) < dir[t].offset
     THEN /\ Takes(t) /\ lock' = Given
          /\ DirStep(t, [dir[t] EXCEPT !.id = 0, !.offset = 0, !.end = FALSE])
     ELSE UNCHANGED lock /\ DirStep(t, dir[t])

SkipEntry(t) ==
  /\ call[t].at = "skip" /\ dir[t].offset < Target(t)
  /\ Takes(t) /\ DirStep(t, Skipped(PastSuper(dir[t])))
  /\ lock' = Given /\ UNCHANGED call

\* Back, the reader counts on what it knew at that place, unless the directory
\* has changed since.
SeekOver(t) ==
  /\ call[t].at = "skip" /\ dir[t].offset >= Target(t)
  /\ DirStep(t, IF call[t].op = "rewinddir"
                THEN [dir[t] EXCEPT !.told = {}, !.stays = InRoot, !.same = TRUE, !.twice = FALSE]
                ELSE [dir[t] EXCEPT
                  !.told = IF dir[t].cookie.good THEN dir[t].cookie.told ELSE {},
                  !.stays = IF dir[t].cookie.good THEN @ ELSE {}, !.twice = FALSE])
  /\ call' = [call EXCEPT ![t] = Idle] /\ UNCHANGED lock

------------------------------------------------------------------------------
Works(t) ==
  \/ Use(t) \/ NoMemory(t) \/ OpenAllocate(t) \/ OpenFails(t) \/ OpenFile(t)
  \/ TruncateOpened(t) \/ Close(t) \/ Move(t) \/ TransferBegin(t) \/ TransferEnd(t)
  \/ CheckNames(t) \/ NamesRefused(t) \/ Unlink(t) \/ Rename(t) \/ Mkdir(t) \/ Rmdir(t)
  \/ OpenDir(t) \/ CloseDir(t) \/ ReadDir(t) \/ TellDir(t)
  \/ SeekDir(t) \/ SkipEntry(t) \/ SeekOver(t)

Next == UNCHANGED load /\ \E t \in Task : Request(t) \/ Works(t)

Spec == Init /\ [][Next]_vars

\* The lock comes free for a task that waits for it as often as the others give
\* it, and FreeRTOS wakes the one that waits.
FairSpec == Spec /\ \A t \in Task : SF_vars(Works(t) /\ UNCHANGED load)

------------------------------------------------------------------------------
TypeOK ==
  /\ tree \in [Path -> {"none", "file", "dir"}]
  /\ files \in [File -> [path : Path \union {NoPath}, is : Path \union {NoPath}, pos : Place,
                     open : BOOLEAN]]
  /\ cache \in Seq(File \union {Null}) /\ list \in Seq(File)
  /\ lock \in [owner : Task \union {Nobody}, leaked : BOOLEAN]

\* The array, the list and the count of open files agree; a file is in the
\* array once (allocate_fd, free_fd).
TableAgrees ==
  LET held == {i \in DOMAIN cache : cache[i] # Null}
  IN  /\ fd_count = Cardinality(held) /\ fd_count = Len(list)
      /\ Range(list) = {cache[i] : i \in held} /\ Cardinality(Range(list)) = fd_count
      /\ \A f \in File \ Range(list) : files[f] = NoFile

\* The types, and the table of open files in one piece.
Inv == TypeOK /\ TableAgrees

\* A stream tells every name that is there from its beginning to its end, and
\* none twice, whatever is created, removed and renamed around it (lfs_dir_t in
\* the list that commits correct; readdir, telldir and seekdir over it).
EachEntryOnce == \A t \in Task :
  dir[t] # NoDir /\ call[t].at # "skip" =>
    ~dir[t].twice /\ (dir[t].end => dir[t].stays \subseteq dir[t].told)

\* For callers the descriptors that open has returned, until close: the name of
\* each, where its file is now, and the place between two calls.
Handles == {fd \in DOMAIN cache :
              /\ cache[fd] # Null /\ files[cache[fd]].open
              /\ \A t \in Task : call[t].op = "truncate" => call[t].fd # fd}
Borrows(t, fd) == call[t].at = "there" /\ call[t].fd = fd
PlaceFor(fd) == IF \E t \in Task : Borrows(t, fd)
                THEN call[CHOOSE t \in Task : Borrows(t, fd)].saved ELSE PlaceOf(fd)

O == INSTANCE OpenFiles WITH
       Fd <- File,
       handles <- [fd \in Handles |-> [name |-> files[cache[fd]].path,
                                       file |-> files[cache[fd]].is, place |-> PlaceFor(fd)]],
       calls <- [t \in Task |-> call[t].op],
       stuck <- lock.leaked

\* Every call takes effect at one moment, and returns unless a pread or pwrite
\* has failed in its first seek; an open file keeps its name unless its directory
\* is renamed; a call that is not to move a file leaves its place alone or reports
\* an error (the lock of the layer, its check of names, the seek back).
ImplementsOpenFiles == O!Spec
===============================================================================
