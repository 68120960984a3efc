--------------------------- MODULE NavPersistProofs ---------------------------
(***************************************************************************)
(* The warm-start cache for every buffer, database and number of saves and *)
(* power failures, between any two steps of any file's write: the receiver *)
(* is never given pieces of two exports, and an import is as long as the   *)
(* length file says, if it says anything, and made of the file and zeros.  *)
(*                                                                         *)
(* The argument is the order of the two tasks in one boot.  The restore    *)
(* runs once, before the first save, on a buffer of zeros; every save      *)
(* fills the buffer from its start with chunks of its own; and the file is *)
(* cut from that part of the buffer.                                       *)
(***************************************************************************)
EXTENDS NavPersist, TLAPS

Zeros == [i \in 1..CAP |-> 0]

\* The restore of this boot is still to come or at work.
Restoring == timer # "spent" \/ fixPc # "wait"

\* No save is at work as long as the restore is not over.
OneAtATime ==
  /\ fixPc # "wait" => timer = "spent"
  /\ Restoring => savePc = "wait"

\* Until the file is read, the buffer is as it was at boot.
FreshBuffer ==
  timer # "spent" \/ fixPc \in {"stop", "pos", "nav_len", "nav_read"} =>
    buffer = Zeros /\ imported = NoFile

\* What the restore found is still there.
Found ==
  /\ fixPc \in {"stop", "pos"} /\ exist.nav => IsFile(navFile)
  /\ fixPc = "stop" => exist.nav \/ exist.pos
  /\ fixPc \in {"nav_len", "nav_read", "nav_import"} => IsFile(navFile)
  /\ fixPc \in {"nav_read", "nav_import"} =>
       IsFile(lenFile) /\ (lenFile # EmptyFile => navLen = lenFile)

\* What was read: as much of the file as the length says, then zeros.
ReadPart(i) == IF i <= navLen /\ i <= Len(navFile) THEN navFile[i] ELSE 0

ReadOnce ==
  /\ fixPc = "nav_import" => /\ imported = NoFile
                             /\ \A i \in 1..CAP : buffer[i] = ReadPart(i)
  /\ fixPc = "start" /\ IsFile(imported) =>
       /\ IsFile(navFile) /\ IsFile(lenFile) /\ (lenFile # EmptyFile => navLen = lenFile)
       /\ imported = [i \in 1..navLen |-> IF i <= CAP THEN ReadPart(i) ELSE Beyond]

\* A save has filled the buffer from its start with chunks of its own.
OwnChunks ==
  /\ savePc = "write_pos" => exportLen = 0
  /\ savePc \in {"export", "write_nav"} => \A i \in 1..exportLen : buffer[i] = saves

\* A file holds one export.
OneExport ==
  IsFile(navFile) => \A i, j \in 1..Len(navFile) : navFile[i] = navFile[j]

Order == OneAtATime /\ FreshBuffer /\ Found /\ ReadOnce

IInv == TypeOK /\ Order /\ OwnChunks /\ OneExport /\ NoMixedImport
------------------------------------------------------------------------------
LEMMA Sizes ==
  /\ CAP \in Nat /\ MaxChunks \in Nat /\ MaxSaves \in Nat /\ MaxCrashes \in Nat
  /\ MaxGarbage \in Nat /\ CAP <= MaxGarbage
  BY PersistAssumption DEF CAP

LEMMA ZerosType == Zeros \in [1..CAP -> Chunk]
  BY Sizes DEF Zeros, Chunk

\* A prefix of the buffer is a sequence of chunks.
LEMMA PrefixType ==
  ASSUME TypeOK, NEW n \in 0..CAP
  PROVE  /\ [i \in 1..n |-> buffer[i]] \in Seq(Chunk)
         /\ Len([i \in 1..n |-> buffer[i]]) = n
  BY Sizes DEF TypeOK

LEMMA InitInvariant == Init => IInv
<1> SUFFICES ASSUME Init PROVE IInv
  OBVIOUS
<1> USE DEF Init
<1>1. TypeOK
  <2>1. buffer \in [1..CAP -> Chunk]
    BY ZerosType DEF Zeros
  <2>2. {fix, engine} \subseteq BOOLEAN
    BY Zenon
  <2>3. exist \in [nav : BOOLEAN, pos : BOOLEAN]
    OBVIOUS
  <2> QED
    BY <2>1, <2>2, <2>3, Sizes DEF TypeOK, IsFile, Position
<1>2. Order /\ OwnChunks /\ OneExport /\ NoMixedImport
  BY DEF Order, OneAtATime, FreshBuffer, Found, ReadOnce, OwnChunks, OneExport, NoMixedImport,
         IsFile, Zeros, Restoring
<1> QED
  BY <1>1, <1>2 DEF IInv

------------------------------------------------------------------------------
(* Types.                                                                  *)

LEMMA TypeOfSave ==
  ASSUME TypeOK, Save
  PROVE  TypeOK'
<1> USE Sizes DEF TypeOK, fileVars, saveVars, fixVars, receiverVars
<1>1. CASE StartSave \/ WritePos \/ CreateLen
  BY <1>1 DEF StartSave, WritePos, CreateLen, Opened, IsFile, Position
<1>2. CASE StartSaveFails
  BY <1>2 DEF StartSaveFails
<1>3. CASE SaveFails \/ ExportOverflows
  BY <1>3 DEF SaveFails, ExportOverflows
<1>4. CASE ExportChunk
  <2>1. buffer' \in [1..CAP -> Chunk]
    BY <1>4 DEF ExportChunk, Chunk
  <2>2. exportLen' \in 0..CAP /\ left' \in 0..MaxChunks
    BY <1>4 DEF ExportChunk, Fits
  <2> QED
    BY <1>4, <2>1, <2>2 DEF ExportChunk
<1>5. CASE WriteNav
  <2>1. navFile' \in Seq(Chunk) /\ Len(navFile') <= CAP
    BY <1>5, PrefixType DEF WriteNav
  <2> QED
    BY <1>5, <2>1 DEF WriteNav
<1>6. CASE WriteLen
  BY <1>6 DEF WriteLen
<1>7. CASE ExportDone
  <2>1. navFile' = <<>> \/ navFile' = navFile
    BY <1>7 DEF ExportDone, Opened
  <2>2. <<>> \in Seq(Chunk) /\ Len(<<>>) = 0 /\ 0 <= CAP
    OBVIOUS
  <2>3. ASSUME navFile' = <<>>
        PROVE  navFile' \in Seq(Chunk) /\ Len(navFile') <= CAP
    BY <2>2, <2>3
  <2>4. IsFile(navFile') => navFile' \in Seq(Chunk) /\ Len(navFile') <= CAP
    BY <2>1, <2>3 DEF IsFile
  <2> QED
    BY <1>7, <2>4 DEF ExportDone, IsFile
<1> QED
  BY <1>1, <1>2, <1>3, <1>4, <1>5, <1>6, <1>7 DEF Save

LEMMA TypeOfRestore ==
  ASSUME TypeOK, Order, Restore
  PROVE  TypeOK'
<1> USE Sizes DEF TypeOK, fileVars, saveVars, othersOfFix, receiverVars
<1>1. CASE CheckFix
  <2>1. exist' \in [nav : BOOLEAN, pos : BOOLEAN]
    BY <1>1, Zenon DEF CheckFix, IsFile
  <2>2. fixPc' \in {"stop", "wait"}
    BY <1>1, Zenon DEF CheckFix
  <2> QED
    BY <1>1, <2>1, <2>2 DEF CheckFix
<1>2. CASE StopEngine
  <2>1. {fix, engine}' \subseteq BOOLEAN
    BY <1>2, Zenon DEF StopEngine
  <2> QED
    BY <1>2, <2>1 DEF StopEngine
<1>3. CASE ImportPos \/ ImportPosFails
  <2>1. hint' \in {NoFile, "garbage"} \cup Position
    BY <1>3, Zenon DEF ImportPos, ImportPosFails
  <2> QED
    BY <1>3, <2>1 DEF ImportPos, ImportPosFails, AfterPos
<1>4. CASE ReadNavLen
  <2>1. navLen' \in 0..MaxGarbage
    BY <1>4 DEF ReadNavLen, IsFile
  <2> QED
    BY <1>4, <2>1 DEF ReadNavLen
<1>5. CASE NoNavLen \/ RestoreFails
  BY <1>5 DEF NoNavLen, RestoreFails
<1>6. CASE ReadNav
  <2>1. IsFile(navFile)
    BY <1>6 DEF ReadNav, Order, Found
  <2>2. buffer' \in [1..CAP -> Chunk]
    BY <1>6, <2>1 DEF ReadNav, ReadInto
  <2> QED
    BY <1>6, <2>2 DEF ReadNav
<1>7. CASE ImportNav
  <2>1. imported' \in Seq(Chunk \cup {Beyond}) /\ Len(imported') <= MaxGarbage
    <3>1. imported' = [i \in 1..navLen |-> IF i <= CAP THEN buffer[i] ELSE Beyond]
      BY <1>7 DEF ImportNav
    <3>2. \A i \in 1..navLen : (IF i <= CAP THEN buffer[i] ELSE Beyond) \in Chunk \cup {Beyond}
      OBVIOUS
    <3>3. navLen \in Nat /\ navLen <= MaxGarbage
      OBVIOUS
    <3> QED
      BY <3>1, <3>2, <3>3
  <2> QED
    BY <1>7, <2>1 DEF ImportNav
<1>8. CASE StartEngine
  <2>1. {fix, engine}' \subseteq BOOLEAN
    BY <1>8, Zenon DEF StartEngine
  <2> QED
    BY <1>8, <2>1 DEF StartEngine
<1> QED
  BY <1>1, <1>2, <1>3, <1>4, <1>5, <1>6, <1>7, <1>8 DEF Restore

LEMMA TypeStep ==
  ASSUME TypeOK, Order, [Next]_vars
  PROVE  TypeOK'
<1> USE Sizes DEF TypeOK, fileVars, saveVars, fixVars, receiverVars, othersOfFix
<1>1. CASE FixTimer
  BY <1>1 DEF FixTimer
<1>2. CASE FixChanges
  <2>1. {fix, engine}' \subseteq BOOLEAN
    BY <1>2, Zenon DEF FixChanges
  <2> QED
    BY <1>2, <2>1 DEF FixChanges
<1>3. CASE Telemetry
  <2>1. base' \in {"fix", "nofix"}
    BY <1>3, Zenon DEF Telemetry
  <2> QED
    BY <1>3, <2>1 DEF Telemetry, Position
<1>4. CASE Crash
  <2>1. {fix, engine}' \subseteq BOOLEAN
    BY <1>4, Zenon DEF Crash
  <2>2. buffer' \in [1..CAP -> Chunk]
    BY <1>4, ZerosType DEF Crash, Zeros
  <2>3. exist' \in [nav : BOOLEAN, pos : BOOLEAN]
    BY <1>4 DEF Crash
  <2> QED
    BY <1>4, <2>1, <2>2, <2>3 DEF Crash, IsFile, Position
<1>5. CASE UNCHANGED vars
  BY <1>5 DEF vars
<1> QED
  BY <1>1, <1>2, <1>3, <1>4, <1>5, TypeOfSave, TypeOfRestore DEF Next
------------------------------------------------------------------------------
(* The order of one boot, and what the files hold.                         *)

LEMMA OrderOfRestore ==
  ASSUME TypeOK, Order, Restore
  PROVE  Order'
<1> USE DEF Order, OneAtATime, FreshBuffer, Found, ReadOnce, Restoring, ReadPart, IsFile,
            fileVars, saveVars, receiverVars, othersOfFix
<1>1. CASE CheckFix
  BY <1>1 DEF CheckFix, TypeOK
<1>2. CASE StopEngine
  BY <1>2 DEF StopEngine
<1>3. CASE ImportPos
  BY <1>3 DEF ImportPos, AfterPos
<1>4. CASE ImportPosFails
  BY <1>4 DEF ImportPosFails, AfterPos
<1>5. CASE ReadNavLen
  BY <1>5 DEF ReadNavLen
<1>6. CASE NoNavLen \/ RestoreFails
  BY <1>6 DEF NoNavLen, RestoreFails
<1>7. CASE ReadNav
  <2>1. /\ buffer = Zeros /\ imported = NoFile
        /\ IsFile(lenFile) /\ (lenFile # EmptyFile => navLen = lenFile)
    BY <1>7 DEF ReadNav
  <2>2. \A i \in 1..CAP : buffer'[i] = ReadPart(i)
    BY <1>7, <2>1 DEF ReadNav, ReadInto, Zeros
  <2> QED
    BY <1>7, <2>1, <2>2 DEF ReadNav
<1>8. CASE ImportNav
  <2>1. navLen \in Nat /\ CAP \in Nat
    BY Sizes DEF TypeOK
  <2>2. \A i \in 1..CAP : buffer[i] = ReadPart(i)
    BY <1>8 DEF ImportNav
  <2>3. imported' = [i \in 1..navLen |-> IF i <= CAP THEN ReadPart(i) ELSE Beyond]
    BY <1>8, <2>1, <2>2 DEF ImportNav
  <2> QED
    BY <1>8, <2>3 DEF ImportNav
<1>9. CASE StartEngine
  BY <1>9 DEF StartEngine
<1> QED
  BY <1>1, <1>2, <1>3, <1>4, <1>5, <1>6, <1>7, <1>8, <1>9 DEF Restore

\* A save works when the restore of its boot is over.
LEMMA OrderOfSave ==
  ASSUME TypeOK, Order, Save
  PROVE  Order'
<1> USE DEF Order, OneAtATime, Restoring
<1>1. ~Restoring /\ ~Restoring'
  BY DEF Save, SaveFails, StartSave, StartSaveFails, WritePos, ExportChunk, ExportOverflows,
         ExportDone, WriteNav, CreateLen, WriteLen, fixVars
<1> QED
  BY <1>1 DEF FreshBuffer, Found, ReadOnce

LEMMA OrderStep ==
  ASSUME TypeOK, Order, [Next]_vars
  PROVE  Order'
<1>1. CASE FixTimer \/ FixChanges \/ Telemetry \/ UNCHANGED vars
  BY <1>1 DEF FixTimer, FixChanges, Telemetry, vars, fileVars, saveVars, fixVars, receiverVars,
              othersOfFix, Order, OneAtATime, FreshBuffer, Found, ReadOnce, Restoring, ReadPart,
              IsFile
<1>2. CASE Crash
  BY <1>2 DEF Crash, fileVars, Order, OneAtATime, FreshBuffer, Found, ReadOnce, Restoring,
              Zeros, IsFile
<1> QED
  BY <1>1, <1>2, OrderOfRestore, OrderOfSave DEF Next

LEMMA OwnChunksStep ==
  ASSUME TypeOK, Order, OwnChunks, [Next]_vars
  PROVE  OwnChunks'
<1> USE Sizes DEF OwnChunks
<1>1. CASE Save
  <2>1. CASE ExportChunk
    <3>1. /\ exportLen' = exportLen + 1 /\ saves' = saves
          /\ buffer' = [i \in 1..CAP |-> IF i = exportLen + 1 THEN saves ELSE buffer[i]]
          /\ savePc = "export" /\ savePc' = "export"
          /\ exportLen + 1 <= CAP /\ exportLen \in Nat
      BY <2>1 DEF ExportChunk, Fits, TypeOK
    <3> QED
      BY <3>1
  <2>2. CASE WritePos
    <3>1. exportLen = 0 /\ exportLen' = exportLen /\ savePc' = "export"
      BY <2>2 DEF WritePos
    <3>2. exportLen' = 0
      BY <3>1
    <3>3. \A i \in 1..exportLen' : buffer'[i] = saves'
      BY <3>2
    <3> QED
      BY <3>1, <3>3, Zenon
  <2>3. CASE Save /\ ~ExportChunk /\ ~WritePos
    BY <2>3 DEF Save, SaveFails, StartSave, StartSaveFails, ExportOverflows, ExportDone,
                WriteNav, CreateLen, WriteLen
  <2> QED
    BY <1>1, <2>1, <2>2, <2>3
<1>2. CASE Restore
  <2>1. savePc' = "wait"
    BY <1>2 DEF Restore, CheckFix, StopEngine, ImportPos, ImportPosFails, ReadNavLen, NoNavLen,
                ReadNav, ImportNav, RestoreFails, StartEngine, othersOfFix, saveVars, Order,
                OneAtATime, Restoring
  <2> QED
    BY <2>1
<1>3. CASE FixTimer \/ FixChanges \/ Telemetry \/ Crash \/ UNCHANGED vars
  BY <1>3 DEF FixTimer, FixChanges, Telemetry, Crash, vars, saveVars, othersOfFix
<1> QED
  BY <1>1, <1>2, <1>3 DEF Next

LEMMA OneExportStep ==
  ASSUME TypeOK, OwnChunks, OneExport, [Next]_vars
  PROVE  OneExport'
<1> USE DEF OneExport, IsFile
<1>1. CASE WriteNav
  <2>1. Len(navFile') = exportLen /\ navFile' = [i \in 1..exportLen |-> buffer[i]]
    BY <1>1, PrefixType DEF WriteNav, TypeOK
  <2>2. \A i \in 1..exportLen : buffer[i] = saves
    BY <1>1 DEF WriteNav, OwnChunks
  <2> QED
    BY <2>1, <2>2
<1>2. CASE ExportDone
  BY <1>2 DEF ExportDone, Opened
<1>3. CASE ~WriteNav /\ ~ExportDone
  <2>1. UNCHANGED navFile
    BY <1>3 DEF Next, Save, SaveFails, StartSave, StartSaveFails, WritePos, ExportChunk,
                ExportOverflows, CreateLen, WriteLen, Restore, CheckFix, StopEngine, ImportPos, ImportPosFails,
                ReadNavLen, NoNavLen, ReadNav, ImportNav, RestoreFails, StartEngine, FixTimer,
                FixChanges, Telemetry, Crash, vars, fileVars, othersOfFix
  <2> QED
    BY <2>1
<1> QED
  BY <1>1, <1>2, <1>3

LEMMA MixedStep ==
  ASSUME TypeOK, Order, OneExport, NoMixedImport, [Next]_vars
  PROVE  NoMixedImport'
<1> USE DEF NoMixedImport, IsFile
<1>1. CASE ImportNav
  <2>1. /\ imported' = [i \in 1..navLen |-> IF i <= CAP THEN buffer[i] ELSE Beyond]
        /\ \A i \in 1..CAP : buffer[i] = ReadPart(i)
        /\ IsFile(navFile) /\ navLen \in Nat /\ CAP \in Nat
    BY <1>1, Sizes DEF ImportNav, Order, ReadOnce, Found, TypeOK
  <2>2. navFile \in Seq(Chunk)
    BY <2>1 DEF TypeOK
  <2>3. \A i, j \in 1..navLen : ReadPart(i) # 0 /\ ReadPart(j) # 0 => ReadPart(i) = ReadPart(j)
    <3> SUFFICES ASSUME NEW i \in 1..navLen, NEW j \in 1..navLen,
                        ReadPart(i) # 0, ReadPart(j) # 0
                 PROVE  ReadPart(i) = ReadPart(j)
      OBVIOUS
    <3>1. i \in 1..Len(navFile) /\ j \in 1..Len(navFile)
      BY <2>1, <2>2 DEF ReadPart
    <3> QED
      BY <2>1, <3>1 DEF ReadPart, OneExport
  <2> QED
    BY <2>1, <2>3
<1>2. CASE Crash
  BY <1>2 DEF Crash
<1>3. CASE ~ImportNav /\ ~Crash
  <2>1. UNCHANGED imported
    BY <1>3 DEF Next, Save, SaveFails, StartSave, StartSaveFails, WritePos, ExportChunk,
                ExportOverflows, ExportDone, WriteNav, CreateLen, WriteLen, Restore, CheckFix, StopEngine, ImportPos,
                ImportPosFails, ReadNavLen, NoNavLen, ReadNav, RestoreFails, StartEngine,
                FixTimer, FixChanges, Telemetry, vars, receiverVars
  <2> QED
    BY <2>1
<1> QED
  BY <1>1, <1>2, <1>3

LEMMA Invariance == Spec => []IInv
<1>1. Init => IInv
  BY InitInvariant
<1>2. IInv /\ [Next]_vars => IInv'
  BY TypeStep, OrderStep, OwnChunksStep, OneExportStep, MixedStep DEF IInv
<1> QED
  BY <1>1, <1>2, PTL DEF Spec

------------------------------------------------------------------------------
\* The receiver is never given pieces of two exports, and no export overruns the
\* shared buffer, whatever fails or loses power in the middle of a file's write
\* (check_gnss_fix_task, gnss_save_data_task, handle_gnss_data_msg_cb).
THEOREM NoImportIsMixed == Spec => []Inv
<1>1. IInv => Inv
  BY DEF IInv, Inv
<1> QED
  BY <1>1, Invariance, PTL

\* An import is as long as /gnss-len says and made of the chunks of /gnss and
\* zeros.  The one case in which nothing is said of its length is that of a length
\* file left empty by a write that was not finished (the three writes of
\* gnss_save_data_task, the reads of check_gnss_fix_task).
THEOREM ImportIsWhole == Spec => []WholeImport
<1>1. IInv => WholeImport
  <2> SUFFICES ASSUME TypeOK, Order, fixPc = "start", IsFile(imported)
               PROVE  /\ lenFile # EmptyFile =>
                           imported = [i \in 1..lenFile |-> FileOrZero(i)]
                      /\ lenFile # EmptyFile /\ lenFile = Len(navFile) =>
                           imported = navFile
                      /\ \A i \in DOMAIN imported \cap 1..CAP : imported[i] = FileOrZero(i)
    BY DEF IInv, WholeImport
  <2>1. /\ IsFile(navFile) /\ IsFile(lenFile) /\ (lenFile # EmptyFile => navLen = lenFile)
        /\ imported = [i \in 1..navLen |-> IF i <= CAP THEN ReadPart(i) ELSE Beyond]
    BY DEF Order, ReadOnce
  <2>2. navLen \in Nat /\ CAP \in Nat /\ navFile \in Seq(Chunk)
    BY <2>1, Sizes DEF TypeOK
  <2>3. \A i \in 1..navLen : ReadPart(i) = FileOrZero(i)
    BY <2>2 DEF ReadPart, FileOrZero
  <2>4. \A i \in DOMAIN imported \cap 1..CAP : imported[i] = FileOrZero(i)
    BY <2>1, <2>2, <2>3
  <2>5. ASSUME lenFile # EmptyFile
        PROVE  imported = [i \in 1..lenFile |-> FileOrZero(i)]
    <3>1. lenFile \in 0..CAP /\ navLen = lenFile
      BY <2>1, <2>5 DEF TypeOK, IsFile
    <3>2. \A i \in 1..navLen : i <= CAP
      BY <2>2, <3>1
    <3> QED
      BY <2>1, <2>3, <3>1, <3>2
  <2>6. ASSUME lenFile # EmptyFile, lenFile = Len(navFile)
        PROVE  imported = navFile
    <3>1. imported = [i \in 1..Len(navFile) |-> FileOrZero(i)]
      BY <2>5, <2>6
    <3>2. \A i \in 1..Len(navFile) : FileOrZero(i) = navFile[i]
      BY <2>2 DEF FileOrZero
    <3> QED
      BY <2>2, <3>1, <3>2
  <2> QED
    BY <2>4, <2>5, <2>6
<1> QED
  BY <1>1, Invariance, PTL
===============================================================================
