# A verification project for `esp32_ble_gps`

TLA+ models of the firmware in `src/main`: a u-blox M10 GNSS receiver on a UART, a
telemetry pipeline, a BLE Location and Navigation peripheral, a warm-start cache in
LittleFS and a status LED, all of them FreeRTOS tasks on the two cores of an ESP32-S3; and
of the file system the repository carries in `src/managed_components/joltwallet__littlefs`:
littlefs itself and the POSIX layer over it. TLC checks the models on small instances; TLAPS
proves the main invariants for every value of the constants. Line numbers are those of
`src/main/gnss.c` unless another file is named; in the sections on littlefs, those of
`lfs.c`, and in the section on `EspVfs`, those of `esp_littlefs.c`.

## 1. The system

| Component | State | Operations | Talks to |
|---|---|---|---|
| UART driver (ESP-IDF, external) | ring of 6144 bytes, `gUartQueue` of 10 events, "receiving stopped" | fill from the FIFO, post an event or drop it, flush | the UART task; flushed by the M10 driver (`uart_flush_rx`) |
| Receive path (`gnss_uart_task`) | `data[6144]`, `curr_data_len` | `drain_uart_rx_buf`, scan, `parse_uart_nmea_message`, `parse_uart_ubx_message` | UBX parser (pool of ten payloads), telemetry queue, answers to the M10 driver |
| Startup (`app_main`, `gnss_config_task`, `bt_config_task`) | task descriptors (`Active`, `Name`), `gUartTaskReady` | create, configure, report, remove itself; a FATAL log restarts the chip | everything |
| Status LED (`status_led.c`) | `gStateQueue` (one slot, overwritten), the colour | `STATUSLED_SetState`, LED task | both configuration tasks, BLE host |
| Warm-start cache (`gnss_save_data_task`, `check_gnss_fix_task`) | files `/gnss`, `/gnss-len`, `/last-pos`; `gExportDataBuffer`, `gExportDataLen`; two timers | save every three hours, restore once five seconds after configuration | M10 driver, file system, `GnssBaseData` |
| Telemetry parser (`telemetry-parser.c`) | last fix, satellite count | decode NAV-PVT and NAV-DOP, publish the shared values | receive path, BLE, cache |
| Shared values (submodule) | value under a mutex, event group | set, get, wait for a subscriber's bit | telemetry, BLE, UTC hint |
| BLE (`bt.c`, `bt-config.c`, `bt-access-cb.c`, `bt-notifications.c`) | connections, subscriptions, GATT table | GAP events, reads, writes, three notification tasks | shared values, LED |
| UTC hint (`gnss_date_time_upd_task`) | `GnssAuxUtcUpdateData` | write callback, fix test, `M10_SetUTC` | BLE, M10 driver |
| littlefs, bottom (`lfs_bd_*`, `lfs_alloc`) | prog and read cache; lookahead window, checkpoint | read, prog, flush, sync, erase; allocate, scan, checkpoint | block device below, everything of littlefs above |
| littlefs, metadata (`lfs_dir_*`) | pairs of blocks with a log of tags; `lfs->mlist` | fetch, look up, traverse, commit, compact, relocate, split | caches, allocator, global state |
| littlefs, tree (`lfs_mkdir_`, `lfs_remove_`, `lfs_rename_`, `lfs_fs_deorphan`) | the list of pairs, the tree in it, `gstate`, `gdisk`, `gdelta` | operations on names, recovery before the first of them | commits of metadata |
| littlefs, files (`lfs_file_*`, `lfs_ctz_*`) | `lfs_file_t` of each handle, blocks with skip pointers | open, read, write, seek, truncate, sync, close | allocator (traversal), metadata (entry) |
| POSIX layer (`esp_littlefs.c`) | table of open files, directory streams, a recursive lock | the VFS calls of all tasks | littlefs below, FS submodule above |
| M10 answers (`wait_for_msg`, `add_msg`, `flush_ubx_queue`) | `gGnssUBXQueue` of 5 | wait, add, flush | receive path, all users of the driver |

What is hard about it, and what makes each part correct:

* **Receive path.** Interrupts, the task and flushes by other tasks interleave at every step
  of a drain; events are dropped when the queue is full; lengths read from the line may be
  garbage. Correct when bytes are used once and in order, no arrived byte is stranded,
  nothing corrupt holds up the parser for good, no clean message is lost, and what is
  handed out is a well-formed piece of the stream.
* **Startup.** Four processes hand over to each other through polled flags, a semaphore
  and a cleared name, and any of them may restart the chip. Correct when the receiver is
  talked to only with somebody listening, BLE follows the receiver, light sleep waits for
  all of it, and the firmware does come up.
* **Status LED.** Writers of one slot race; the last to write is not always the last to
  happen. Correct when the colour at rest is that of the connection.
* **Warm-start cache.** Power fails between two files, or between the opening and the close
  of one; calls fail half way; the engine of the receiver is stopped in the meantime.
  Correct when the receiver is given one whole export or nothing, the position of a fix,
  and a running engine afterwards.
* **Telemetry, BLE notifications, UTC hint.** The queue is full, publishing fails, bits
  coalesce, a fix arrives between a test and the call it guards. Correct when every
  subscriber ends with the last value, never goes back, a DOP is published with the newest
  fix that got through, and a receiver with a fix is left alone but for one late hint.
* **littlefs.** The power goes between and during programs, blocks go bad and may lie
  about it, cached views are stale, ids shift under those who hold them. Correct when every
  operation is atomic, what was synced survives, no block in use is handed out, open files
  stay what they were, and every operation returns.
* **POSIX layer.** Tasks interleave between two takes of the lock. Correct when calls are
  atomic and return, descriptors and files agree, and a listing tells each entry once.
* **Answers.** Two requests and one queue of answers; not modelled (section 8).

## 2. Modules

| Module | Models | Extends |
|---|---|---|
| `Wire` | the bytes the framer tells apart, sub-streams | – |
| `FrameStream` | abstract: what a receive path promises | `Wire` |
| `UartFramer` | the UART driver, `gnss_uart_task` and its helpers | `Wire` |
| `MCUartFramer` | small streams and frames for TLC | `UartFramer` |
| `UartFramerProofs` | theorems about `UartFramer` | `UartFramer` |
| `Startup` | `app_main`, both configuration tasks, restarts, the LED, connections | – |
| `StartupProofs` | theorems about `Startup` | `Startup` |
| `NavPersist` | the warm-start cache | – |
| `NavPersistProofs` | theorems about `NavPersist` | `NavPersist` |
| `LatestValue` | abstract: shared values with subscribers | – |
| `Telemetry` | telemetry parser, shared values, notification tasks, UTC hint | – |
| `MCTelemetry` | small loads for TLC | `Telemetry` |
| `TelemetryProofs` | theorems about `Telemetry` | `Telemetry` |
| `BlockCache` | littlefs caches over the emulated block device | – |
| `MCBlockCache` | the reads TLC tries | `BlockCache` |
| `BlockCacheProofs` | theorems about `BlockCache` | `BlockCache` |
| `LfsAlloc` | littlefs block allocator | – |
| `LfsAllocProofs` | theorems about `LfsAlloc` | `LfsAlloc` |
| `AtomicCommit` | abstract: a store that is replaced as a whole | – |
| `LfsTags` | the algorithms on logs of tags | – |
| `LfsPair` | commits to one metadata pair | `LfsTags` |
| `LfsPairProofs` | theorems about `LfsPair` | `LfsPair` |
| `LfsTree` | the directory tree, global state, recovery | – |
| `FileView` | abstract: handles with a view of their own | – |
| `LfsFile` | littlefs files | – |
| `MCLfsFile` | the symmetry of handles | `LfsFile` |
| `OpenFiles` | abstract: a table of open files for several tasks | – |
| `EspVfs` | the POSIX layer | – |
| `MCEspVfs` | small loads for TLC | `EspVfs` |
| `EspVfsProofs` | theorems about `EspVfs` | `EspVfs` |

The modules of littlefs are stacked by what they show. `BlockCache` shows that reads through
the caches are current: above it, reading is reading the block. `LfsPair` shows that a commit
to a pair is atomic: `LfsTree` takes one as a step. `LfsTree` and `LfsPair` show that an
entry is replaced as a whole: so it is in `LfsFile`. `LfsAlloc` takes the blocks in
use from a traversal; that the traversal finds those of files with unsynced writes is part of what
`LfsFile` shows. `EspVfs` takes littlefs calls as steps on a tree.

`AtomicCommit` is implemented by `LfsPair` and `LfsTree`, `FrameStream` by `UartFramer`,
`LatestValue` by `Telemetry`, `FileView` by `LfsFile`, `OpenFiles` by `EspVfs`; the abstract
specification is a PROPERTY of the run.

Operators called "Mutant" are wrong variants of the definition below them, one per property:
with the variant in its place TLC finds the property violated. No specification uses them.
To keep the number of properties small, a module's type invariant and its most basic safety
properties are one invariant `Inv`, a conjunction of named parts.

### UartFramer

The stream the receiver sends is a constant of the run, and a buffer is a sequence of
*positions* in it: what a byte is follows from where it was sent, and reordering,
duplication and loss are visible. `UartRx`, `UartRxFull` and `UartRxError` are the driver's
three kinds of event, `UartFlush` is `uart_flush_rx` (693) called from another task.
`TakeDataEvent` and `TakeOtherEvent` are the two branches of the switch (247-285;
`UART_BUFFER_FULL` falls through to `UART_DATA`). A round of `drain_uart_rx_buf` (475-496) is
two steps, `DrainCheck` (the fill level is read) and `DrainRead` (the bytes are), with the
driver free to act in between; `DrainOverrun` is the branch of line 487. The scan (255-278)
is one action for each way a round of it can end: no start (`ClearGarbage`); a sentence
handed out, rejected or kept; a frame waited for, handed out, rejected or kept. The
`memmove` that brings the start to the front is part of each. Lines 549-550 read the length
of a frame before its bytes may have arrived; whatever they read, no buffer shorter than
`UBX_OVERHEAD` then looks complete, so the model compares longer ones only.

`MCUartFramer` gives the streams. Beside damaged ones, during which everything above may
happen, there are clean ones and ones with a single garbled frame; during these the line and the
pool do not fail and the task keeps up (`KeepsUp`, `PoolServes`), so that it can be said
what is handed out: all of a clean stream (`AllDelivered`), and everything that begins beyond the
reach of the garbled frame (`Resumes`).

`UBX_ParseMessage` is in a submodule outside the repository. It is modelled as membership in
`ValidUbx`, a constant, and may also fail because the pool is empty (`PoolExhausts`).

### FrameStream

The promise: a frontier moves forward over the stream; a step may deliver one well-formed
message made of positions beyond everything delivered or skipped before, or skip. Nothing
is said about which messages are lost. `UartFramer` implements it with the frontier before
its first pending byte.

### Startup

`pc` says where `app_main`, `gnss_config_task`, `gnss_uart_task` (up to its loop) and
`bt_config_task` are. A step that fails queues the colour of its error where the code does
and goes to "fatal"; `Restart` is the `esp_restart` of `on_log` (log-config.c:45). A restart
clears RAM but not the WS2812, which keeps its colour. The logger calls its back end from
the caller's task, so between a colour and its restart the LED task of lower priority on
the same core does not run (`LedTask`); it may for errors of the other core.
`Active` is taken to be set by `SCHEDULER_Create` and the name to be cleared by
`SCHEDULER_Remove`, as the polling loops expect. `BLE_CheckConnectionsAvailable` is taken
to be false when the only permitted connection is gone, as its caller expects.

`SlowReceiver` says that `M10_Init` outlasts the first poll of `bt_config_task`.
A central may connect as soon as `BLE_Init` has started the host, before `bt_config_task` reports
and overwrites the colour; `early` remembers that.

### NavPersist

The database is counted in chunks, each named by the save that exported it, so that a
mixture of exports shows. One action per call of the two tasks; `Crash` between any two of them
keeps the three files only. `FS_Write` is in a submodule; it is taken to open, write and close
the file, which is two commits of littlefs: opening creates the file without contents (`lfs.c`:3124) or
syncs its truncation (`esp_littlefs.c`:1917; that sync may fail unnoticed), and the close stores what was
written. So it is two steps, between which the power may go, and a write that fails leaves the
file as it was opened (`Opened`). A read of a file that is shorter than asked fills what it has, and its
callers do not ask how much that is: of an empty file the length, and the position, are what the stack held. The save timer is
taken to be three hours and the check-fix timer five seconds: no save overlaps
the restore.

### Telemetry

A value is the number of the UBX message it was decoded from; 0 is the initial value, and
what an input decodes to whose payload was never copied (593-602). `HandleUbxMsg` is
`handle_ubx_msg`: `Enqueue` copies into the queue or, after 10 ms with a full queue, drops.
`Parser` is `tel_parser_task`: receive, set the value (which may fail), set the bits; a failed
set leaves `last_fix` as the code does. `Reader` is `SHVAL_PointerWaitForValue` in each of the
four tasks that wait (woken with its bit cleared, then the copy), `Notify` the rest of a
notification task. The other direction is `Phone` (the write of Date Time, with the branch of
bt-access-cb.c:182 that acknowledges a value it did not store), `DateTimeWake` and
`DateTimeUpd` with `M10_HasValidFix` and `M10_SetUTC` as two steps, between which `GetFix` and
`LoseFix` may come. The shared values are a submodule: value under a mutex, then one bit per
subscriber, as `README.md` of the repository describes.

### BlockCache

`lfs_bd_read` (43-124) is taken apart into its branches: from the prog cache, from the read
cache, past the cache, or by loading it (with the hint, 104-115). `lfs_bd_prog` and
`lfs_bd_flush` are `ProgCopy`, `FlushProg`, `FlushCheck`, the sync and the erase likewise.
The device is that of the tests (`lfs_emubd.c`): a worn block fails in one of five ways, and a
power loss may undo the first erase since the last sync. The client uses blocks in the two
ways `lfs.c` does, with validation (files) and without (directories). `shadow` is what it
wrote, `synced` what it synced.

### LfsAlloc

`start`, `next`, `size`, `marks`, `ckpoint` are `lfs->lookahead`. `AllocSkip`, `AllocTake`,
`AllocNospc`, `AllocScan` and `AllocScanFails` are the ways through the loop of `lfs_alloc`
(667-721); `Checkpoint`, `Gc`, `Mount`, `Grow` the other functions that touch the window.
`used` is what a traversal visits, `inflight` what was handed out since the last checkpoint
and is not committed; a `Commit` or an `Abandon` changes both. `unseen` remembers blocks freed since a
scan last covered them, which the allocator may not know of.

### LfsTags and LfsPair

`LfsTags` has the log as a sequence of tags and, as recursive functions, what it means
(`Replay`), and the algorithms of the code: the backward search with its splices
(`lfs_dir_getslice`), the count and the search for a name with its moving best candidate
(`lfs_dir_fetchmatch`), the filtered traversal of a compaction (`lfs_dir_traverse`). `LfsPair` runs them: a
block is a revision and program units with tags, validity bit, checksums and forward
checksums; `CommitAttr`, `CommitCrc`, `Verify` program and read back; `Erase`, `ProgRev`,
`Relocate` are the compaction and its way out when a block fails; `Fetch` is the whole of
`lfs_dir_fetchmatch` on both blocks. A power loss may leave anything in the unit being
programmed, a block may refuse a prog or ignore it. A checksum is the data it was computed from.
`dir` is the copy of the pair that an open file keeps; `Reopen` closes and opens it. `StaleSyncs`
lets it be synced although it is out of date, which it is only after a commit that failed.

### LfsTree

Directories are chains of pairs, all pairs are in one list by their tails, `gstate` announces
moves and orphans and is spread as deltas over the pairs. `Outcomes` is
`lfs_dir_relocatingcommit`: appended, compacted, relocated (or not, when a tired block is
kept because there is no other, `NewBlock`), split, and for the superblock's pair expanded
(`MayExpand`). `CommitFirst` to `CommitPred`
are the steps of `lfs_dir_orphaningcommit` after it: drop, fix the parent, fix the
predecessor. `DeorphanStep` and `DeorphanFixed` are the two passes of `lfs_fs_deorphan`,
`Consistent` is `lfs_fs_forceconsistency`. Each operation on names begins there and goes on step
by step, one per commit. Any of these commits may fail: `Fail` is the failure of a commit or of
the drop it entails (2429, 2465), `FailElsewhere` that of the parent's or the predecessor's
(2537, 2589). By then the copies in `lfs->mlist` have followed the relocation (2486-2499) and the
count of orphans and the move in RAM are changed (`ParentGstate`, `PredGstate`); all that stays. The
history variable `torn` says what such a failure left behind: a gstate that is not to be written
(`Ahead`), or an open file on a pair that no entry names. The run lets no operation begin on a
gstate that is torn, and no sync on either, before `Remount` (which counts as a power loss)
has repaired it; `GoesOnTorn = TRUE` opens that gate, and finding 11 is what happens then.
`OpenFileFollows` asks that the file's pair is one that the directories lead to and holds the
entry of the file, and excepts only the torn pair.
A file is open all the time and is followed through `lfs->mlist`.
Directories do not go below themselves, and open files are not removed: `esp_littlefs.c` refuses
it with EBUSY.

### LfsFile

Pointers and bytes are cells of equal size. A handle has the fields of `lfs_file_t` (`head`,
`size`, `block`, `off`, `pos`, the flags, the cache `buf`); one call is one step, computed by `Flush`, `WriteAll`, `Relocate`,
`Extend`, `ToFewer`, ... which follow the functions and fail where a block or the allocator
does. `InUse` is `lfs_fs_traverse_` (`ListsOf` are its lines 4776-4798): what it does not list
may be erased and written by the next allocation. `view` and `stored` are what a read and a mount give.

### EspVfs

`cache`, `list` and `fd_count` are the table of open files, `AllocateFd`, `FreeFd`, `HasFd` its
operations (with the early stop of the search, 1791). A call is `Request`, then the steps
between which the lock is free or two littlefs calls happen: `OpenAllocate` and `OpenFile`;
`CheckNames` and `Unlink` or `Rename`; `TransferBegin` and `TransferEnd`; truncate as an open, a
truncation and a close with the lock free in between (2639-2677); seekdir as a rewind and
reads (2556-2584). `Move` is a read, write or lseek, which leaves the file anywhere. Either seek
of pread and pwrite may fail: the one to the wanted place jumps over `sem_give` (2032, 2038), after which
the lock is leaked; the one back (2043-2050, 2101-2108) stores what was written before and may fail in that, the
call reports an error and the file stays where the transfer has brought it. A close may fail, and
keeps descriptor and path (2149-2161). A directory is renamed whatever files are open in it, and
those keep the path they were opened with. A directory stream is `lfs_dir_t`: an id that each commit to its
pair corrects (lfs.c:2365-2402). Ghosts say what its reader has been told. A program closes
a descriptor that no call uses, and seeks to a place that it was told.

### OpenFiles

The promise to several tasks: a call takes effect at one moment and returns. A handle has a name,
the place of its file in the tree, and a position. Its file stays where its name is, or goes along
when its directory is renamed; once it is elsewhere the name is not its own any more and nothing is
promised of it. A handle is moved by a read, write or seek on it, and by another call on it only if that
reports an error (`Stray`). A transfer that fails may leave the others waiting (`stuck`): calls
return unless one has.

## 3. Runs

| Run | Instance | Shows |
|---|---|---|
| `framer` | 13 streams of up to 23 bytes, clean, with one garbled frame, or damaged; ring and buffer 7, queue 1; with the damaged ones losses, flushes, empty pool, split syncs | `Inv` (`TypeOK`, `NoLostWakeup`), `AllDelivered`, `Resumes`, `ImplementsFrameStream`, `AlwaysCaughtUp` |
| `framer_75` | streams with one garbled frame, a line without losses | violates `AbandonedAt75` (552) |
| `startup` | two restarts, slow receiver, connections at any time | `AnswersAreRead`, `SleepNeedsTasks`, `LedTellsConnection`, `Boots` |
| `persist` | buffer of 2 chunks, up to 3 exported, uninitialised lengths up to 4, 2 saves, 2 power failures, every call but `M10_GnssStart` may fail | `Inv` (`TypeOK`, `NoMixedImport`), `WholeImport`, `EngineRestarts` |
| `persist_torn` | one power failure | violates `FullImport` (342-353) |
| `telemetry` | queue of 2; 4 messages, or 3 writes of Date Time and 2 fixes, or one of each | `Inv` (`TypeOK`, `NoLostValue`), `FixOfTheDop`, `OneLateHint`, `ImplementsLatestValue`, `EveryValueIsTold` |
| `block_cache` | 2 blocks of 4 bytes, one at its last erase; caches of 2; 2 writes | `Inv` (`TypeOK`, `SyncedSurvives`, `ProgsErased`), `ReadsAreCurrent`, `BadBlocksAreFound`, `OperationsReturn` |
| `lfs_alloc` | 5 blocks that may become 6, a window of 2, any blocks in use | `Inv` (`TypeOK`, `WindowSound`), `AllocFresh`, `NospcHonest`, `AllocReturns` |
| `lfs_pair` | 3 blocks of 7 units, 3 names, 2 commits, 1 power loss, 1 block that goes bad | `Inv` (`TypeOK`, `ErasedIsErased`, `ProgsErased`, `OpenDirCurrent`), `LookupsAgree`, `CompactKeeps`, `ImplementsAtomicCommit`, `CommitsReturn` |
| `lfs_tree` | 10 blocks, 3 names, paths of 2, 2 operations, 1 power loss or remount, 1 compaction or split, 1 relocation, failures at any commit | `Inv` (`TypeOK`, `GstateAgrees`, `Listed`), `OpenFileFollows`, `NotRefused`, `ImplementsAtomicCommit`, `OperationsReturn` |
| `lfs_file` | 2 handles, 5 calls, 10 blocks of 6 cells, 1 bad block | `Inv` (`TypeOK`, `PlaceFollows`), `ImplementsFileView` |
| `vfs` | 2 tasks, 3 names, 3 open files, a table that starts with one place, failing seeks and closes; five loads | `Inv` (`TypeOK`, `TableAgrees`), `EachEntryOnce`, `ImplementsOpenFiles` |

The two runs that violate their property show the program against a sentence of `src/README.md`;
the property's comment quotes it, and `PROJECT.json` lists what the run shows.

**Why the bounds are enough.** The framer's constants are scaled together: a frame is five
bytes of overhead and a two-byte length (eight and 16 bits in the code), a sentence four
bytes. A 7-byte buffer is smaller than the streams, so it overruns in the middle of
messages, fills the ring and reaches the 75 % level; a 1-event queue drops events; an
interrupt moves up to two bytes, so syncs, terminators and length bytes are
split in every way. A garbled frame is one that fails its check, one that claims a byte too many, which
still fits the buffer, and one that claims what never fits; behind each come messages that the
claim reaches and messages that it does not. In the boot two
restarts show a first boot, one after a failure and one that
inherits a colour twice. In the cache two saves are the least that can mix, three
chunks the least that overflow two, an uninitialised length of up to four is shorter than the file, longer, and
longer than the buffer, and two power failures let a restored boot save and
fail again. Four messages fill the queue of two while the parser works on one and the last comes
in behind it. Two writes to blocks of two cache lines make a cache be filled, flushed and
filled with another place of the same block. Five blocks and a window of two let the window wrap, and any set of
blocks in use stands for any history. Two commits behind a power loss are a torn commit
and one that must not trust what it left; seven units hold two commits and force a compaction; three
revisions of four wrap. In the tree one compaction, split or relocation per behaviour at any
commit meets a power loss or a failure at any other; two operations are one that leaves something behind and one
that finds it. Lists of blocks of 6 cells have skip pointers from the third block on, 13 cells
are a list of several blocks, and five calls suffice for open, open, write, sync and one more. The table of
open files grows from one place to two and four; three files leave holes in it.

What grows without a bound in the code is cut off by a guard: `MaxRestarts`, `MaxSaves`,
`MaxChunks`, `MaxGarbage`, `MaxCrashes`, `Loads`, `MaxWrites`, `MaxErases`, `MAX_BLOCKS`, `MaxCommits`,
`MaxLosses`, `MaxBad`, `MaxOps`, `MaxCompacts`, `MaxMoves`, `MaxCalls`, `MaxFiles`, `MaxPlace`,
`MaxTold`; the streams are finite.

Deadlock is checked for the boot and the allocator. The others
stop by design when a finite stream, load or number of operations is used up, which
their cfg says.

## 4. Fairness

`UartFramer`: weak fairness of the task, which blocks only on its queue and is
preemptively scheduled at the highest priority of its core, and of the receiver's sending;
none of errors, full rings and flushes; `MCFairSpec` has the same fairness on its fewer steps. `Startup`: weak fairness of each task and of the
restart; none of connections. `NavPersist`: weak fairness of both tasks (every call has a
timeout) and of the check-fix timer; none of the fix. `Telemetry`: weak fairness of the tasks,
and of a setter that has stored its value; none of the receiver, the phone and the fix.
littlefs is sequential code under a lock: weak fairness of the steps of a running operation
(`ReadStep`, `WriteStep`, `AllocStep`, `CommitStep`, `Advance`), none of its callers, of
power losses and of blocks that go bad. `EspVfs`: strong fairness of each task's calls,
because the lock comes free again and again, and a FreeRTOS mutex wakes a task that waits
for it; none of the requests.

## 5. Proofs

TLAPS checks every statement to the last leaf, from the named assumption of each module
about its constants. They say that sizes, bounds and loads are natural numbers
(`BoundsAssumption`, `PersistAssumption`, `StartupAssumption`, `UseAssumption`), and of the code:

- `FramerAssumption`: streams are bytes, the header of a frame contains its length;
- `AllocAssumption`: a file system has two blocks at least;
- `PairAssumption`: names and contents are numbers, a block has room for the five units the pair
  starts with, and revisions are told apart by their order (2^32 of them in the code);
- `SizesAssumption`: what `lfs_init` asserts of the sizes of blocks and caches, and a read unit
  no larger than a program unit, as in every configuration of the repository;
- `VfsAssumption`: names are finitely many, the table starts with a place and grows by a factor
  of two at least (4 and 2 in `esp_littlefs.c`, 46-47).

| Theorem | Statement |
|---|---|
| `UartFramerProofs!TypeCorrect` | `Spec => []TypeOK` |
| `UartFramerProofs!NoWakeupIsLost` | `Spec => []NoLostWakeup` |
| `UartFramerProofs!ReceiverIsSound` | `Spec => []Inv` |
| `UartFramerProofs!OrderIsKept` | `Spec => []InOrder` |
| `UartFramerProofs!FramerImplements` | `Spec => ImplementsFrameStream` |
| `StartupProofs!BootTypeCorrect` | `Spec => []TypeOK` |
| `StartupProofs!ReceiverIsHeard` | `Spec => []AnswersAreRead` |
| `StartupProofs!SleepIsHeldOff` | `Spec => []SleepNeedsTasks` |
| `StartupProofs!LedIsTrue` | `Spec => []LedTellsConnection` |
| `TelemetryProofs!NoWakeUpIsLost` | `Spec => []Inv` |
| `TelemetryProofs!AtMostOneLateHint` | `Spec => []OneLateHint` |
| `TelemetryProofs!FixBelongsToDop` | `Spec => []FixOfTheDop` |
| `TelemetryProofs!ValuesImplement` | `Spec => LV!Init /\ [][LV!Next]_(LV!lvVars)` |
| `NavPersistProofs!NoImportIsMixed` | `Spec => []Inv` |
| `NavPersistProofs!ImportIsWhole` | `Spec => []WholeImport` |
| `BlockCacheProofs!DeviceIsSound` | `Spec => []Inv` |
| `BlockCacheProofs!ReadsReturnTheLast` | `Spec => []ReadsAreCurrent` |
| `BlockCacheProofs!NoBadBlockIsMissed` | `Spec => []BadBlocksAreFound` |
| `LfsAllocProofs!WindowIsSound` | `~GrowsAnytime`: `Spec => []Inv` |
| `LfsAllocProofs!BlocksAreFresh` | `~GrowsAnytime`: `Spec => AllocFresh` |
| `LfsAllocProofs!NospcIsHonest` | `~GrowsAnytime`: `Spec => NospcHonest` |
| `LfsPairProofs!SpecInv` | `~StaleSyncs`: `Spec => []Inv` |
| `LfsPairProofs!SpecIInv` | `~StaleSyncs`: `Spec => []IInv` |
| `LfsPairProofs!SpecTracks` | `~StaleSyncs`: `Spec => [](IInv /\ Tracks)` |
| `EspVfsProofs!TableInOnePiece` | `Spec => []Inv` |
| `EspVfsProofs!EntriesAreToldOnce` | `SeeksAcrossChanges = FALSE`: `Spec => []EachEntryOnce` |
| `EspVfsProofs!FilesImplement` | `Spec => O!Init /\ [][O!Next]_(O!vars)` |

Where a theorem has a hypothesis, it is false without it: `~GrowsAnytime` is finding
16, `~StaleSyncs` 25, `SeeksAcrossChanges = FALSE` 23.

*Framer.* `TypeOK` is inductive only with the conjunct that a read in progress fits
(`pc = "read" => Len(buf) + toRead <= UART_RX_BUF_SIZE`): the ring may change between
`DrainCheck` and `DrainRead`, the data buffer may not, because only the task touches it.
`NoLostWakeup` holds because a drain ends only on an empty ring and every later arrival
posts on a queue that is then empty or already holds an event. `InOrder` is inductive over `buf \o ring`. The refinement adds to it that
everything handed out lies before everything pending.

*Boot.* `AnswersAreRead` needs that the semaphore is given only in the loop, and that a
configuration task that has not created the UART task finds it off; `SleepNeedsTasks` needs
that a flag tells that a task was started, which needs that `app_main` starts
each once. `TypeOK` needs that a FATAL was counted (`FatalCounted`): two tasks may fail
before the one restart that ends both. `LedTellsConnection` becomes inductive as `LedFollows`: the
queue of one, or the LED when that is empty, holds the colour to be shown (`NextColour`), from `BLE_Init` on and as
long as the receiver's configuration has not failed; which colour it is follows from `connected`, `early` and
whether `bt_config_task` has reported.

*Telemetry.* `NoLostValue` is inductive: setting the bits follows setting the value, and a reader
clears its bit before it copies. `FixOfTheDop` is about the queue, which loses messages, and a set
that may fail, so neither `last_fix` nor the value alone tells which fix it is. The proof follows the places
in the order of arrival: the queue is the rest of `accepted` (`QueueIsRest`), the parser works on
the last input it took (`ParserAtLast`), each published value came from a place it has passed
(`ValuesCameFrom`), and numbers grow (`InOrder`). The refinement needs `ReadersBehind`; `OneLateHint`
that a task between its two calls tested before the fix (`LateOnce`).

*Warm-start cache.* That no import is mixed depends on three files and a shared buffer, and no part
of it is inductive alone. `OneAtATime` separates the restore from the first save, `FreshBuffer` has the buffer at
zeros until the file is read, `Found` and `ReadOnce` say that what was read is as much of the file as
the length asked for and then zeros, where the length is that of the file or, if that is empty, anything;
`OwnChunks` that a save fills the buffer from its start with chunks of its
own, so that a file is of one export (`OneExport`) whatever was interrupted.

*Block cache.* The invariant follows the block the client appends to: up to `Start` its bytes are on
the device (`DeviceHolds`), up to `Pos` in the prog cache (`PcacheOfSession`), beyond nothing was
written since the erase (`NothingBeyond`, `ErasedAhead`). The read cache may be out of date, but only
for a block that is not read before the sync that drops it (`RcacheCurrent`). `ClientRead` and
`CheckRead` say what a read in progress has so far. That every sum of offsets stays aligned is
the arithmetic of the lemmas on units.

*Allocator.* That the window offers free blocks only (`WindowSound`) is not inductive: a
commit makes blocks in flight used, and the next scan must find them before the
allocator comes round to them again. What makes it so is the checkpoint: of the blocks the
allocator may still look at before a checkpoint, none is in flight (`Unclaimed`), so it cannot
get past its own tail. `NospcHonest` needs the converse, `Covered`: every free block is either
ahead or was freed after a scan. Both are about positions modulo `block_count`, counted from the
next one to be looked at; the lemmas `AheadInjective`, `BlockAhead` and `WindowAhead` carry the
arithmetic.

*Metadata pairs.* That a commit programs erased units only depends on what the fetch before it took for
erased, and that on the forward crc and the perturbed bit of the commit before that. Three facts carry
it through a power loss at any prog. `NoLies`: a crc in front of a unit that was programmed since the
erase does not describe that unit, or the unit continues the log, so that the fetch either finds more
log or finds the block not erased; the torn prog is where it has to be shown. `WritesErased`: during a
commit the block is as the last crc foretold (`Foretold`), and its tags continue each other (`Chained`).
`KeepsOld` and `Mountable`: the block a commit starts from keeps a whole commit until the new one is
verified and entered in the parent, so that a mount always finds an entry point.
That an open file's copy of the pair is what a fetch finds (`OpenDirCurrent`) compares a commit with a
scan that has not been made yet. `Tracks` says how far they agree: a commit holds what a fetch
gave it (`Given`), an append goes on in the block that leads, where its log ends (`Continues`), the
checksum has seen the tags that were to be written, one unit each (`Intent`), and the crc makes the unit behind it
one that cannot go on (`Closes`). When `Verify` finds that the checksum is right, the units hold those
tags whatever the block did with the progs, a scan gets from the beginning to that crc and no further
(`ReachesOn`, `EndsAt`), the log grew by them (`LogExtends`), and the revision decides for this
block (`Leads`): `AppendFound` and `CompactFound` are that the copy then tells the same as the fetch. Blocks that
ignore progs are excepted from `Closes`, and so from `OpenDirCurrent`: what such a block held may pass the check
and be followed by more. TLC checked `Tracks` on the instance of `lfs_pair`.
`ScanEnd`, `LogOf`, `Replay`, `Find`
and `Compacted` are recursive functions, and the proof needs what type of value they have for every log:
`SetInduction` is induction over a set instead of an operator; `FoldExists` and `FoldRuns` say once for
all that a fold has a solution and which values it runs through, and `CountRuns`, `FindRuns`,
`ScanRuns`, `LogRuns` and `CompactedRuns` tie the recursive definitions to it.

*POSIX layer.* The table: a cardinality is not inductive, so the proof has `Table` (array and list have
the same files, each once; the others are blank) and derives `TableAgrees`. Two calls may hold
descriptors while the lock is free: `Held` and `Apart` say that what a call between two steps holds is in the table
and nobody else's. The streams: each is between two names (`Stream`), and what its reader was told is what lies
before it (`Reader`); `ShiftKeeps` is that the correction of the ids by a commit keeps both. The
refinement: a file that is somewhere is at a path of the tree (`Named`), and a call that has checked names holds the lock, so
that they are still of no open file at the effect (`Unnamed`); a file below a directory that is renamed is
found below the new one (`Whole`). In the middle of a transfer a handle shows the place that was saved
(`PlaceFor`): the lock keeps others away (`LockHeld`), so the seek back is to that place, and one that
fails is the `Stray` of `OpenFiles`.

Only model-checked: `AllDelivered` and `Resumes` (they are about nine streams); the liveness properties, among
them the fairness that `ImplementsLatestValue` and `ImplementsOpenFiles` promise beyond the steps that
`ValuesImplement` and `FilesImplement` prove (out of the prover's reach); of `LfsPair` the agreement of
its algorithms with the meaning of a log, `LookupsAgree` and `CompactKeeps`, and the implementation of
`AtomicCommit`; `LfsTree` and `LfsFile`. `ImplementsAtomicCommit` is checked for two commits and would not
hold for any number of them where an erase leaves what was there before: a checksum does not cover where its commit
stands in the life of a block, so a leftover one may complete the beginning of a commit that is cut
short. A proof of it needs erases that leave ones, and revisions that do not wrap.

## 6. What the checks found

Each can be had from a run by the change in brackets; 2 is the run `framer_75`, 7 the run `persist_torn`.

In the firmware:

1. A UBX frame whose two sync bytes arrive in different reads is lost (274). [`framer`
   without `~CutsSync(n)` in `PacedRx`: `AllDelivered`]
2. A frame with a garbled length is not abandoned at 75 % but when the buffer is full, and
   then together with everything behind it (552), against README.md:74. What still holds is `Resumes`.
3. `bt_config_task` tests the completion signal the wrong way round (bt.c:34), against
   README.md:97. [`startup`, `BleAfterGnss`; with `SlowReceiver = FALSE` `Boots`:
   configuration that completes before the first poll would keep BLE off for good]
4. As a consequence, light sleep does not wait for the receiver's configuration either
   (main.c:77): app_main polls `Active` flags, which tell that tasks were created.
5. The colour of a GNSS error never shows (191, 201, 206, 215), and
   `STATUSLED_STATE_CONFIGURING` is never set. [`startup`, `GnssErrorShown`]
6. A central that connects before `bt_config_task` reports is shown until the report, and then
   not any more (bt.c:92). [`startup`, `LedTellsConnection` without its part on `early`]
7. An interrupted save makes the next boot import a database of the wrong length (342-353). If it is
   interrupted while `/gnss-len` is created, the length is that of an uninitialised buffer
   (439-445), and the import reads beyond `gExportDataBuffer`; likewise 16 uninitialised bytes
   are imported as the position if `/last-pos` was being created (414-423).
8. The last known position is overwritten without a fix (297-327). [`persist`, `LastPosIsFix`]
9. A failed `M10_GnssStart` leaves the receiver stopped (461). [`persist` with
   `StartFails = TRUE`: `EngineRestarts`]
10. A write of Date Time is acknowledged although it was not stored (bt-access-cb.c:182), and
    a hint can reach a receiver that got its fix a moment before (382-387); it is one at most.

In littlefs (as vendored):

11. An operation that fails leaves RAM as it had prepared it, and nothing but a mount repairs that, against
    "All POSIX operations, such as remove and rename, are atomic" (littlefs README.md:112). [`lfs_tree` with
    `GoesOnTorn = TRUE`: `ImplementsAtomicCommit`, `OpenFileFollows`, `Inv`] A rename between two pairs that fails
    with LFS_ERR_NOSPC leaves the move announced (4057-4074): the next commit writes it and the old
    entry is gone. A remove of a directory that fails leaves an orphan too many or a delta that is
    nobody's (3936-3959). A relocation that fails in the parent (2537-2539) leaves open files on a pair that no entry
    names (2486-2499): a sync of one returns 0 and is lost. One that fails in the predecessor
    (2589-2591) has taken back the orphan (2560), so that the half orphan is not announced.
12. A commit that splits a pair and relocates it may put the delta of the global state in a
    tail that is not in the list yet; a power loss then shows another global state. [`SplitMoves = TRUE`]
    So does a mkdir whose new pair takes the mark of an orphan with it, before it is in the list, if the
    power goes then and once more. [`MaxLosses = 2`: `Inv`]
13. The assertion `LFS_ASSERT(pdir)` (2260) can fail: lines 2582-2587 pass no `pdir` and
    the relocation of the predecessor may drop a pair. [`lfs_tree`, `NeverAsserts`]
14. With two relocations, the repair during an operation (`lfs_fs_deorphan(false)`) sets
    the count of orphans to zero while one is still expected. [`MaxMoves = 2`]
15. Deorphaning after a power loss allocates, and may be given live blocks of a directory
    that no traversal reaches yet (4701-4790). [`FixAllocates = TRUE`, `Kinds = {"mkdir"}`]
16. `lfs_fs_grow` with blocks in flight moves the window under the allocator (5262-5311).
    [`lfs_alloc` with `GrowsAnytime = TRUE`: `AllocFresh`]
17. A write (3703) or an empty sync (3495) of a handle whose file another handle has stored
    clears `LFS_F_DUSTY`; the blocks it still reads may then be handed out. [`lfs_file` with
    `DustyCalls = TRUE`: `ImplementsFileView`]
18. When the first program of a block fails, the relocation allocates with a traversal that
    misses blocks not synced yet (3645, 4795). [`lfs_file` with `BadKinds` containing `"first"`] A
    flush that fails leaves `file->pos` where copying stopped (3353-3420); `FileView` allows it.
19. `lfs_bd_erase` leaves the read cache alone, and `lfs_cache_drop` the bytes in the
    buffer, which may fill up the last program unit: harmless, and why `ReadsAreCurrent` and
    `BadBlocksAreFound` say nothing of bytes that were not written.

25. When an appended commit is given up half way and the compaction that replaces it fails as
    well, `lfs_dir_relocatingcommit` returns (2349-2351) before it corrects the copies of the pair
    in open files. They still say that the block is erased behind the last commit; the next sync of such a file
    programs over what was programmed, against "The block must have previously been erased"
    (lfs.h:168). [`lfs_pair` with
    `StaleSyncs = TRUE`: `Inv`]

26. A tired block that has to be moved where there is no room stays (2113-2118), but the commit goes on as
    if it had moved: the entries are in the tree at once, and the gstate is left for a later commit. A power
    loss before that shows both names of a rename. [`lfs_tree` with `TiredStays = TRUE`: `ImplementsAtomicCommit`]

In the POSIX layer. The run `vfs` has 20, 21 and 22 in it; the promise of `OpenFiles` makes room for them:

20. `pwrite` and `pread` leave with the lock taken when the seek fails (2032, 2038, 2090,
    2096): no other task gets it again. [`ImplementsOpenFiles` with `stuck <- FALSE`]
21. A close that fails keeps its descriptor, and its path is busy for ever (2149-2161). `OpenFiles` has the
    handle closed, and lets later calls on the path fail.
22. Open files are compared by path: after their directory was renamed they can be removed
    or renamed while open. [`ImplementsOpenFiles` with a `ChangeTree` that lets no file lose its place]
23. `seekdir` counts entries from the start, so a place told before a change is another
    one after it. [`SeeksAcrossChanges = TRUE`: `EachEntryOnce`]
24. Not modelled, seen on the way: descriptors are tested with `fd > cache_size`, one too
    many (1951, 1987, 2019, 2077, 2134, ...), and a null entry is dereferenced except in fcntl (2895);
    `format_from_efs` (222-299) frees the descriptors of other tasks without the lock and
    does not check its allocation (294, likewise 1520).

Constants in brackets are gates: a run keeps the gate shut, says so by its cfg, and
shows what holds apart from the finding. `GivesUp` and `NewBlock` have their gates in the model.

## 7. Plan

What would add most next, in this order:

1. Proofs: `LfsTree!Inv` and `OpenFileFollows`, which need induction over chains of pairs as
   `LfsPairProofs` does it over logs; `LookupsAgree` from the lemmas there.
2. The life of a mount in `esp_littlefs.c`: register, unregister and format against calls in
   progress.
3. Composition of `NavPersist` with the promises of `OpenFiles` and `FileView` in place of its
   own file writes, and of `UartFramer` with `Telemetry`: from wire to phone.
4. `NavPersist` with timers that race.
5. The gate of subscriptions and the sticky failure of the LED driver.

## 8. What is not modelled

The submodules `ubx`, `m10`, `ble`, `shared_values`, `tasks_scheduler`, `logger`, `fs`,
`power` and `timer` are not part of the repository: what the application sees of them is in
the modules, marked external in `PROJECT.json`. So the queue of UBX answers is left out: its
functions are single queue calls, and the protocol they serve is in `m10`. The byte layouts of the BLE characteristics and
the conversions of `telemetry-parser.c` are straight-line code without state. `app_state.c`
only allocates handles. `uart_init`, `uart_send`, `uart_set_br` and the formatting of log
messages are plain I/O.

Of littlefs: version 1 migration, user attributes, read-only mode, the compaction of
`lfs_fs_gc`, and the runners of its tests. `LfsTree` leaves sizes out (any outcome of a commit can happen), removes no
open file, and keeps shut the gates of findings 11, 12, 14, 15 and 26; a commit splits its pair at most
once, where the loop of `lfs_dir_splittingcompact` (2130-2196) may split off several, and a compaction that fails after
the split before it succeeded is left out. Of `esp_littlefs.c`: register, unregister, format, grow, file
times, SPIFFS compatibility and the other block devices.

Electrical behaviour, time in milliseconds and the contents of navigation messages are
abstracted away.
