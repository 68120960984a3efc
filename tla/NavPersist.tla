------------------------------ MODULE NavPersist ------------------------------
(***************************************************************************)
(* The warm-start cache of gnss.c: gnss_save_data_task stores the last     *)
(* position and the receiver's navigation database in three files every    *)
(* three hours; check_gnss_fix_task restores them five seconds after boot  *)
(* when the receiver has no fix.  Both tasks use gExportDataBuffer.  The   *)
(* power may fail between any two steps.                                   *)
(*                                                                         *)
(* The database is counted in chunks; a chunk is the number of the save    *)
(* that exported it, 0 being the zeros of a fresh buffer.  FS_Write opens  *)
(* the file, writes and closes it.  Opening commits: a new file is created *)
(* empty (lfs.c:3124) and a truncated one is synced (esp_littlefs.c:1917). *)
(* The content is committed by the close.                                  *)
(***************************************************************************)
EXTENDS Naturals, Sequences

CONSTANTS
  NoFile,                     \* in place of a content: no such file
  EmptyFile,                  \* a length or position file of no bytes
  Beyond,                     \* a chunk read behind the end of gExportDataBuffer
  GNSS_EXPORT_DATA_BUF_LEN,   \* chunks that fit gExportDataBuffer
  MaxChunks,                  \* bound: chunks in the receiver's database
  MaxGarbage,                 \* bound: the value of an uninitialised length
  MaxSaves,                   \* bound: saves started
  MaxCrashes,                 \* bound: power failures
  CallsFail,                  \* may file system and M10 calls fail?
  StartFails                  \* may M10_GnssStart fail?

ASSUME PersistAssumption ==
  /\ {GNSS_EXPORT_DATA_BUF_LEN, MaxChunks, MaxGarbage, MaxSaves, MaxCrashes} \subseteq Nat
  /\ GNSS_EXPORT_DATA_BUF_LEN <= MaxGarbage
  /\ {CallsFail, StartFails} \subseteq BOOLEAN

VARIABLES
  navFile,    \* "/gnss": a sequence of chunks, or NoFile
  lenFile,    \* "/gnss-len": a number of chunks, EmptyFile or NoFile
  posFile,    \* "/last-pos": a position, EmptyFile or NoFile
  buffer,     \* gExportDataBuffer
  exportLen,  \* gExportDataLen
  savePc,     \* gnss_save_data_task
  lastPos,    \* last_pos
  left,       \* chunks M10_ExportNavData still has to hand over
  saves,      \* saves started so far
  fixPc,      \* check_gnss_fix_task
  exist,      \* gnss_nav_data_exists and gnss_last_pos_exists
  navLen,     \* nav_data_len
  timer,      \* the check-fix timer: armed, notified, or spent
  base,       \* GnssBaseData
  fix,        \* does the receiver have a valid 3D fix?
  engine,     \* is the GNSS engine of the receiver running?
  hint,       \* the last known position imported, "garbage" or NoFile
  imported,   \* the database imported, or NoFile
  crashes     \* power failures so far

fileVars == <<navFile, lenFile, posFile>>
saveVars == <<exportLen, savePc, lastPos, left, saves>>
fixVars == <<fixPc, exist, navLen, timer>>
receiverVars == <<fix, engine, hint, imported>>
vars == <<fileVars, buffer, saveVars, fixVars, base, receiverVars, crashes>>

CAP == GNSS_EXPORT_DATA_BUF_LEN
Chunk == 0..MaxSaves
IsFile(f) == f # NoFile

\* Positions: of a fix, of a solution without one, of no solution yet.
Position == {"fix", "nofix", "zero"}

TypeOK ==
  /\ IsFile(navFile) => navFile \in Seq(Chunk) /\ Len(navFile) <= CAP
  /\ lenFile \in {NoFile, EmptyFile} \cup 0..CAP
  /\ posFile \in {NoFile, EmptyFile} \cup Position
  /\ buffer \in [1..CAP -> Chunk]
  /\ exportLen \in 0..CAP
  /\ savePc \in {"wait", "write_pos", "export", "write_nav", "create_len", "write_len"}
  /\ lastPos \in Position
  /\ left \in 0..MaxChunks
  /\ saves \in 0..MaxSaves
  /\ fixPc \in {"wait", "stop", "pos", "nav_len", "nav_read", "nav_import", "start"}
  /\ exist \in [nav : BOOLEAN, pos : BOOLEAN]
  /\ navLen \in 0..MaxGarbage
  /\ timer \in {"armed", "notified", "spent"}
  /\ base \in Position
  /\ {fix, engine} \subseteq BOOLEAN
  /\ hint \in {NoFile, "garbage"} \cup Position
  /\ IsFile(imported) =>
       imported \in Seq(Chunk \cup {Beyond}) /\ Len(imported) <= MaxGarbage
  /\ crashes \in 0..MaxCrashes

Init ==
  /\ navFile = NoFile /\ lenFile = NoFile /\ posFile = NoFile
  /\ buffer = [i \in 1..CAP |-> 0]
  /\ exportLen = 0 /\ savePc = "wait" /\ lastPos = "zero" /\ left = 0 /\ saves = 0
  /\ fixPc = "wait" /\ exist = [nav |-> FALSE, pos |-> FALSE] /\ navLen = 0
  /\ timer = "armed"
  /\ base = "zero"
  /\ fix = FALSE /\ engine = TRUE /\ hint = NoFile /\ imported = NoFile
  /\ crashes = 0

\* Everything but the files is lost.
Crash ==
  /\ crashes < MaxCrashes
  /\ crashes' = crashes + 1
  /\ buffer' = [i \in 1..CAP |-> 0]
  /\ exportLen' = 0 /\ savePc' = "wait" /\ lastPos' = "zero" /\ left' = 0
  /\ fixPc' = "wait" /\ exist' = [nav |-> FALSE, pos |-> FALSE] /\ navLen' = 0
  /\ timer' = "armed"
  /\ base' = "zero"
  /\ fix' = FALSE /\ engine' = TRUE /\ hint' = NoFile /\ imported' = NoFile
  /\ UNCHANGED <<fileVars, saves>>

------------------------------------------------------------------------------
(***************************************************************************)
(* gnss_save_data_task                                                     *)
(***************************************************************************)

\* What an open file f may hold before it is closed: nothing, once its creation
\* or its truncation is committed; or what it held, when that sync failed (the
\* file is written all the same, esp_littlefs.c:1921).
Opened(f, nothing) == {nothing} \cup (IF IsFile(f) THEN {f} ELSE {})

\* Every error takes the task back to its notification (`continue`); a file that
\* was being written stays as it was opened.
SaveFails ==
  /\ savePc # "wait"
  /\ CallsFail
  /\ savePc' = "wait"
  /\ UNCHANGED <<fileVars, buffer, exportLen, lastPos, left, saves, fixVars, base,
                 receiverVars, crashes>>

\* Mutant of StartSave: gExportDataLen is not reset.
StartSaveAppends ==
  /\ savePc = "wait"
  /\ timer = "spent" /\ fixPc = "wait"
  /\ saves < MaxSaves
  /\ saves' = saves + 1
  /\ exportLen' = exportLen
  /\ lastPos' = base
  /\ posFile' \in Opened(posFile, EmptyFile)
  /\ savePc' = "write_pos"
  /\ UNCHANGED <<navFile, lenFile, buffer, left, fixVars, base, receiverVars, crashes>>

\* The three-hour timer; the check-fix task, five seconds after boot, is long
\* done.  The position is taken whatever fix it came with; FS_Write opens the
\* file.
StartSave ==
  /\ savePc = "wait"
  /\ timer = "spent" /\ fixPc = "wait"
  /\ saves < MaxSaves
  /\ saves' = saves + 1
  /\ exportLen' = 0
  /\ lastPos' = base
  /\ posFile' \in Opened(posFile, EmptyFile)
  /\ savePc' = "write_pos"
  /\ UNCHANGED <<navFile, lenFile, buffer, left, fixVars, base, receiverVars, crashes>>

\* Reading GnssBaseData or opening /last-pos fails.
StartSaveFails ==
  /\ savePc = "wait"
  /\ timer = "spent" /\ fixPc = "wait"
  /\ CallsFail
  /\ saves < MaxSaves
  /\ saves' = saves + 1
  /\ exportLen' = 0
  /\ UNCHANGED <<fileVars, buffer, savePc, lastPos, left, fixVars, base, receiverVars,
                 crashes>>

\* /last-pos is closed; the receiver starts to hand over its database.
WritePos ==
  /\ savePc = "write_pos"
  /\ posFile' = lastPos
  /\ left' \in 0..MaxChunks
  /\ savePc' = "export"
  /\ UNCHANGED <<navFile, lenFile, buffer, exportLen, lastPos, saves, fixVars, base,
                 receiverVars, crashes>>

\* handle_gnss_data_msg_cb refuses the chunk that does not fit after n others.
Fits(n) == n + 1 <= CAP

ExportChunk ==
  /\ savePc = "export"
  /\ left > 0
  /\ Fits(exportLen)
  /\ buffer' = [i \in DOMAIN buffer |-> IF i = exportLen + 1 THEN saves ELSE buffer[i]]
  /\ exportLen' = exportLen + 1
  /\ left' = left - 1
  /\ UNCHANGED <<fileVars, savePc, lastPos, saves, fixVars, base, receiverVars, crashes>>

ExportOverflows ==
  /\ savePc = "export"
  /\ left > 0
  /\ ~Fits(exportLen)
  /\ savePc' = "wait"
  /\ UNCHANGED <<fileVars, buffer, exportLen, lastPos, left, saves, fixVars, base,
                 receiverVars, crashes>>

\* The export is over; FS_Write opens /gnss.
ExportDone ==
  /\ savePc = "export"
  /\ left = 0
  /\ navFile' \in Opened(navFile, <<>>)
  /\ savePc' = "write_nav"
  /\ UNCHANGED <<lenFile, posFile, buffer, exportLen, lastPos, left, saves, fixVars,
                 base, receiverVars, crashes>>

WriteNav ==
  /\ savePc = "write_nav"
  /\ navFile' = [i \in 1..exportLen |-> buffer[i]]
  /\ savePc' = "create_len"
  /\ UNCHANGED <<lenFile, posFile, buffer, exportLen, lastPos, left, saves, fixVars,
                 base, receiverVars, crashes>>

\* FS_Write opens /gnss-len.
CreateLen ==
  /\ savePc = "create_len"
  /\ lenFile' \in Opened(lenFile, EmptyFile)
  /\ savePc' = "write_len"
  /\ UNCHANGED <<navFile, posFile, buffer, exportLen, lastPos, left, saves, fixVars,
                 base, receiverVars, crashes>>

WriteLen ==
  /\ savePc = "write_len"
  /\ lenFile' = exportLen
  /\ savePc' = "wait"
  /\ UNCHANGED <<navFile, posFile, buffer, exportLen, lastPos, left, saves, fixVars,
                 base, receiverVars, crashes>>

------------------------------------------------------------------------------
(***************************************************************************)
(* check_gnss_fix_task                                                     *)
(***************************************************************************)
othersOfFix == <<fileVars, saveVars, base, crashes>>

FixTimer ==
  /\ timer = "armed"
  /\ timer' = "notified"
  /\ UNCHANGED <<othersOfFix, buffer, fixPc, exist, navLen, receiverVars>>

CheckFix ==
  /\ fixPc = "wait"
  /\ timer = "notified"
  /\ timer' = "spent"
  /\ exist' = [nav |-> IsFile(navFile), pos |-> IsFile(posFile)]
  /\ fixPc' = IF ~fix /\ (exist'.nav \/ exist'.pos) THEN "stop" ELSE "wait"
  /\ UNCHANGED <<othersOfFix, buffer, navLen, receiverVars>>

\* M10_GnssStop; a failure is not noticed.
StopEngine ==
  /\ fixPc = "stop"
  /\ engine' \in {FALSE} \cup (IF CallsFail THEN {engine} ELSE {})
  /\ fix' = (fix /\ engine')
  /\ fixPc' = IF exist.pos THEN "pos" ELSE "nav_len"
  /\ UNCHANGED <<othersOfFix, buffer, exist, navLen, timer, hint, imported>>

AfterPos == IF exist.nav THEN "nav_len" ELSE "start"

\* FS_Read is not asked how much it read: of an empty file last_pos_data stays
\* uninitialised, and is imported.
ImportPos ==
  /\ fixPc = "pos"
  /\ hint' = IF posFile = EmptyFile THEN "garbage" ELSE posFile
  /\ fixPc' = AfterPos
  /\ UNCHANGED <<othersOfFix, buffer, exist, navLen, timer, fix, engine, imported>>

ImportPosFails ==
  /\ fixPc = "pos"
  /\ CallsFail
  /\ fixPc' = AfterPos
  /\ UNCHANGED <<othersOfFix, buffer, exist, navLen, timer, receiverVars>>

\* Nor how much of the length: nav_data_len_buf is uninitialised if it was nothing.
ReadNavLen ==
  /\ fixPc = "nav_len"
  /\ IsFile(lenFile)
  /\ navLen' \in IF lenFile = EmptyFile THEN 0..MaxGarbage ELSE {lenFile}
  /\ fixPc' = "nav_read"
  /\ UNCHANGED <<othersOfFix, buffer, exist, timer, receiverVars>>

\* Mutant of NoNavLen: `continue` in place of `goto import_end`.
NoNavLenContinue ==
  /\ fixPc = "nav_len"
  /\ ~IsFile(lenFile)
  /\ fixPc' = "wait"
  /\ UNCHANGED <<othersOfFix, buffer, exist, navLen, timer, receiverVars>>

NoNavLen ==
  /\ fixPc = "nav_len"
  /\ ~IsFile(lenFile)
  /\ fixPc' = "start"
  /\ UNCHANGED <<othersOfFix, buffer, exist, navLen, timer, receiverVars>>

\* What the buffer holds after n chunks were asked of the file; a shorter
\* file fills less of it, and the caller does not ask how much.
ReadInto(n) ==
  [i \in 1..CAP |-> IF i <= n /\ i <= Len(navFile) THEN navFile[i] ELSE buffer[i]]

ReadNav ==
  /\ fixPc = "nav_read"
  /\ buffer' = ReadInto(navLen)
  /\ fixPc' = "nav_import"
  /\ UNCHANGED <<othersOfFix, exist, navLen, timer, receiverVars>>

\* Mutant of ImportNav: the length of the last export is used.
ImportNavExported ==
  /\ fixPc = "nav_import"
  /\ imported' = [i \in 1..exportLen |-> buffer[i]]
  /\ fixPc' = "start"
  /\ UNCHANGED <<othersOfFix, buffer, exist, navLen, timer, fix, engine, hint>>

\* M10_ImportNavData takes navLen chunks from the buffer and from what lies behind.
ImportNav ==
  /\ fixPc = "nav_import"
  /\ imported' = [i \in 1..navLen |-> IF i <= CAP THEN buffer[i] ELSE Beyond]
  /\ fixPc' = "start"
  /\ UNCHANGED <<othersOfFix, buffer, exist, navLen, timer, fix, engine, hint>>

\* A file that cannot be read, or an import the receiver refuses.
RestoreFails ==
  /\ fixPc \in {"nav_len", "nav_read", "nav_import"}
  /\ CallsFail
  /\ fixPc' = "start"
  /\ UNCHANGED <<othersOfFix, buffer, exist, navLen, timer, receiverVars>>

\* import_end: M10_GnssStart; a failure is not noticed.
StartEngine ==
  /\ fixPc = "start"
  /\ engine' \in {TRUE} \cup (IF StartFails THEN {engine} ELSE {})
  /\ fixPc' = "wait"
  /\ UNCHANGED <<othersOfFix, buffer, exist, navLen, timer, fix, hint, imported>>

------------------------------------------------------------------------------
(***************************************************************************)
(* The receiver and the telemetry                                          *)
(***************************************************************************)

\* The receiver finds a fix, or loses it.
FixChanges ==
  /\ engine
  /\ fix' = ~fix
  /\ UNCHANGED <<fileVars, buffer, saveVars, fixVars, base, engine, hint,
                 imported, crashes>>

\* A NAV-PVT message went through the telemetry parser.
Telemetry ==
  /\ engine
  /\ base' = IF fix THEN "fix" ELSE "nofix"
  /\ UNCHANGED <<fileVars, buffer, saveVars, fixVars, receiverVars, crashes>>

------------------------------------------------------------------------------
Save == StartSave \/ StartSaveFails \/ SaveFails \/ WritePos \/ ExportChunk
        \/ ExportOverflows \/ ExportDone \/ WriteNav \/ CreateLen \/ WriteLen

Restore == CheckFix \/ StopEngine \/ ImportPos \/ ImportPosFails \/ ReadNavLen
           \/ NoNavLen \/ ReadNav \/ ImportNav \/ RestoreFails \/ StartEngine

Next == Save \/ FixTimer \/ Restore \/ FixChanges \/ Telemetry \/ Crash

Spec == Init /\ [][Next]_vars

\* The tasks are scheduled; the timer fires; each M10 call has a timeout.
FairSpec == Spec /\ WF_vars(Save) /\ WF_vars(FixTimer) /\ WF_vars(Restore)

------------------------------------------------------------------------------
(***************************************************************************)
(* Properties.                                                             *)
(***************************************************************************)

\* The receiver is never given pieces of two exports glued together, whatever
\* failed or lost power between the steps of the three writes: what a read does
\* not fill of the shared buffer is zeros (check_gnss_fix_task runs once, before
\* the buffer is used for an export).
NoMixedImport ==
  IsFile(imported) =>
    \A i, j \in DOMAIN imported \cap 1..CAP :
      imported[i] # 0 /\ imported[j] # 0 => imported[i] = imported[j]

\* ... and an export never overruns the buffer they share (handle_gnss_data_msg_cb).
Inv == TypeOK /\ NoMixedImport

\* The receiver gets "the full nav database" (README.md:85): what was imported
\* is what the file holds, to the last chunk and nothing after it.
FullImport == fixPc = "start" /\ IsFile(imported) => imported = navFile

\* What the i-th chunk of the buffer is once /gnss was read into it.
FileOrZero(i) == IF i <= Len(navFile) THEN navFile[i] ELSE 0

\* What crashes and failures between the opens and closes of three files can do to
\* the import, and nothing else: it is as long as /gnss-len says and consists of
\* the chunks of /gnss and then zeros, so it is the whole file if that length is
\* the file's own.  The length may belong to another save; and it may be missing,
\* when /gnss-len was opened and not closed: then the import has any length, even
\* beyond the buffer, and only what lies in the buffer is as told
\* (gnss_save_data_task, check_gnss_fix_task).
WholeImport ==
  fixPc = "start" /\ IsFile(imported) =>
    /\ lenFile # EmptyFile => imported = [i \in 1..lenFile |-> FileOrZero(i)]
    /\ lenFile # EmptyFile /\ lenFile = Len(navFile) => imported = navFile
    /\ \A i \in DOMAIN imported \cap 1..CAP : imported[i] = FileOrZero(i)

\* A stopped engine is started again on every path through the restore
\* (import_end): "stops the GNSS engine, ..., and restarts it" (README.md:85).
EngineRestarts == ~engine ~> engine

\* "alongside the last known fix" (README.md:85): what /last-pos holds, and
\* what the receiver is given from it, is the position of a fix.
LastPosIsFix == {posFile, hint} \subseteq {NoFile, "fix"}
=============================================================================
