-------------------------- MODULE DatasetStoreProofs --------------------------
(***************************************************************************)
(* The safety of stored datasets for any files, uploads and faults.        *)
(***************************************************************************)
EXTENDS DatasetStore, TLAPS

(* What a step that touches no store leaves true.                          *)
StoresSafe == SnapshotsAreWhole /\ FramesAreWhole /\ AnsweredIsKept

LEMMA StoresKept ==
    ASSUME IInv, UNCHANGED <<files, memory, saved, ghosts>>
    PROVE  StoresSafe'
BY DEF IInv, StoresSafe, files, memory, saved, ghosts,
       SnapshotsAreWhole, FramesAreWhole, AnsweredIsKept, Known

LEMMA InitSafe == Init => IInv
<1> SUFFICES ASSUME Init PROVE IInv
  OBVIOUS
<1>1. Empty \in [Bytes -> TempNames \cup {NoRecord}] /\ \A b \in Bytes : Empty[b] = NoRecord
  BY DEF Empty
<1>2. NoJob.by = "nobody" /\ NoJob \in Jobs
  BY DEF NoJob, Jobs
<1>3. TypeOK
  <2>1. raw \in [Bytes \X Names -> FileStates] /\ parquet \in [Bytes -> FileStates]
    BY DEF Init, FileStates
  <2>2. 0 \in 0..MaxFaults
    BY DatasetAssumption
  <2> QED BY <1>1, <1>2, <2>1, <2>2 DEF Init, TypeOK
<1>4. SnapshotsAreWhole /\ FramesAreWhole /\ AnsweredIsKept
  BY <1>1 DEF Init, SnapshotsAreWhole, FramesAreWhole, AnsweredIsKept, Known
<1>5. Places /\ CopyMade /\ FrameMade
  BY <1>2 DEF Init, InUpload, Places, CopyMade, FrameMade
<1> QED BY <1>3, <1>4, <1>5 DEF IInv

(* The file a job is about.                                                *)
LEMMA JobFacts ==
    ASSUME TypeOK
    PROVE  /\ job # NoJob => Copy \in Bytes \X Names /\ job.bytes \in Bytes
           /\ InUpload => job # NoJob /\ job.name \in TempNames /\ job.ok \in BOOLEAN
           /\ job # NoJob /\ ~InUpload => job.by = "library" /\ job.name \in FileNames
BY DEF TypeOK, Jobs, NoJob, Copy, Names, InUpload

LEMMA LeaveSafe ==
    ASSUME IInv, Leave, UNCHANGED up
    PROVE  Places' /\ CopyMade' /\ FrameMade'
BY DEF IInv, Leave, Places, CopyMade, FrameMade, InUpload, NoJob

LEMMA UploadStep == IInv /\ Upload => IInv'
<1> SUFFICES ASSUME IInv, Upload PROVE IInv'
  OBVIOUS
<1>1. PICK r \in Requests, n \in TempNames \ used :
        /\ pc = "idle" /\ up /\ pc' = "ingest"
        /\ job' = [by |-> "api", bytes |-> r.bytes, name |-> n, ok |-> Parses(r)]
        /\ used' = used \cup {n}
        /\ UNCHANGED <<files, memory, saved, faults, ghosts>>
  BY DEF Upload
<1>2. r.bytes \in Bytes /\ Parses(r) \in BOOLEAN
  BY DatasetAssumption DEF Parses
<1>3. job' \in Jobs /\ job'.by = "api"
  BY <1>1, <1>2 DEF Jobs
<1>4. TypeOK'
  BY <1>1, <1>3 DEF IInv, TypeOK, files, memory, saved, ghosts
<1>5. StoresSafe'
  BY <1>1, StoresKept
<1>6. Places' /\ CopyMade' /\ FrameMade'
  BY <1>1, <1>3 DEF Places, CopyMade, FrameMade, InUpload, NoJob, memory
<1> QED BY <1>4, <1>5, <1>6 DEF IInv, StoresSafe

LEMMA IngestStep == IInv /\ Ingest => IInv'
<1> SUFFICES ASSUME IInv, Ingest PROVE IInv'
  OBVIOUS
<1>1. PICK b \in Bytes, n \in FileNames :
        /\ pc = "idle" /\ pc' = "ingest"
        /\ job' = [by |-> "library", bytes |-> b, name |-> n]
        /\ UNCHANGED <<files, memory, saved, used, faults, ghosts>>
  BY DEF Ingest
<1>3. job' \in Jobs /\ job'.by = "library"
  BY <1>1 DEF Jobs
<1>4. TypeOK'
  BY <1>1, <1>3 DEF IInv, TypeOK, files, memory, saved, ghosts
<1>5. StoresSafe'
  BY <1>1, StoresKept
<1>6. Places' /\ CopyMade' /\ FrameMade'
  BY <1>1, <1>3 DEF Places, CopyMade, FrameMade, InUpload, NoJob, memory
<1> QED BY <1>4, <1>5, <1>6 DEF IInv, StoresSafe

(* A copy is opened only where there was none, so none that anybody holds  *)
(* is touched.                                                             *)
LEMMA OpenCopyStep == IInv /\ OpenCopy => IInv'
<1> SUFFICES ASSUME IInv, OpenCopy PROVE IInv'
  OBVIOUS
<1>1. job # NoJob /\ Copy \in Bytes \X Names
  BY JobFacts DEF OpenCopy, IInv, Places
<1>2. TypeOK'
  BY <1>1 DEF OpenCopy, IInv, TypeOK, FileStates, memory, saved, ghosts
<1>3. SnapshotsAreWhole'
  BY DEF OpenCopy, IInv, SnapshotsAreWhole, TypeOK, Names, memory, saved, ghosts
<1>4. FramesAreWhole' /\ AnsweredIsKept'
  BY DEF OpenCopy, IInv, FramesAreWhole, AnsweredIsKept, Known, memory, saved, ghosts
<1>5. raw'[Copy]  = "Torn" /\ Copy' = Copy
  BY <1>1 DEF OpenCopy, IInv, TypeOK, Copy
<1>6. Places' /\ CopyMade' /\ FrameMade'
  BY <1>1, <1>5 DEF OpenCopy, IInv, Places, CopyMade, FrameMade, InUpload, memory
<1> QED BY <1>2, <1>3, <1>4, <1>6 DEF IInv

LEMMA CloseCopyStep == IInv /\ CloseCopy => IInv'
<1> SUFFICES ASSUME IInv, CloseCopy PROVE IInv'
  OBVIOUS
<1>1. job # NoJob /\ Copy \in Bytes \X Names
  BY JobFacts DEF CloseCopy, IInv, Places
<1>2. TypeOK'
  BY <1>1 DEF CloseCopy, IInv, TypeOK, FileStates, memory, saved, ghosts
<1>3. SnapshotsAreWhole'
  BY <1>1 DEF CloseCopy, IInv, SnapshotsAreWhole, TypeOK, Names, memory, saved, ghosts
<1>4. FramesAreWhole' /\ AnsweredIsKept'
  BY DEF CloseCopy, IInv, FramesAreWhole, AnsweredIsKept, Known, memory, saved, ghosts
<1>5. raw'[Copy] = "Whole" /\ Copy' = Copy
  BY <1>1 DEF CloseCopy, IInv, TypeOK, Copy
<1>6. Places' /\ CopyMade' /\ FrameMade'
  BY <1>1, <1>5 DEF CloseCopy, IInv, Places, CopyMade, FrameMade, InUpload, memory
<1> QED BY <1>2, <1>3, <1>4, <1>6 DEF IInv

LEMMA ReuseCopyStep == IInv /\ ReuseCopy => IInv'
<1> SUFFICES ASSUME IInv, ReuseCopy PROVE IInv'
  OBVIOUS
<1>1. StoresSafe'
  BY StoresKept DEF ReuseCopy
<1>2. CASE raw[Copy] = "Whole"
  <2>1. job # NoJob
    BY DEF ReuseCopy, IInv, Places
  <2>2. TypeOK'
    BY <1>2 DEF ReuseCopy, IInv, TypeOK, files, memory, saved, ghosts
  <2>3. Places' /\ CopyMade' /\ FrameMade'
    BY <1>2, <2>1 DEF ReuseCopy, IInv, Places, CopyMade, FrameMade, InUpload, Copy, files, memory
  <2> QED BY <1>1, <2>2, <2>3 DEF IInv, StoresSafe
<1>3. CASE raw[Copy] # "Whole"
  <2>1. Leave /\ UNCHANGED up
    BY <1>3 DEF ReuseCopy, memory
  <2>2. TypeOK'
    BY <2>1 DEF ReuseCopy, Leave, Jobs, IInv, TypeOK, files, memory, saved, ghosts
  <2> QED BY <1>1, <2>1, <2>2, LeaveSafe DEF IInv, StoresSafe
<1> QED BY <1>2, <1>3

LEMMA ReturnVersionStep == IInv /\ ReturnVersion => IInv'
<1> SUFFICES ASSUME IInv, ReturnVersion PROVE IInv'
  OBVIOUS
<1>1. /\ job # NoJob /\ ~InUpload /\ raw[Copy] = "Whole"
      /\ job.name \in FileNames /\ job.bytes \in Bytes
  BY JobFacts DEF ReturnVersion, IInv, Places, CopyMade, InUpload
<1>2. TypeOK'
  BY <1>1 DEF ReturnVersion, Leave, Jobs, Copy, IInv, TypeOK, files, memory, saved
<1>3. SnapshotsAreWhole' /\ FramesAreWhole' /\ AnsweredIsKept'
  BY <1>1 DEF ReturnVersion, IInv, SnapshotsAreWhole, FramesAreWhole, AnsweredIsKept,
              Known, files, memory, saved
<1> QED BY <1>2, <1>3, LeaveSafe DEF ReturnVersion, IInv, memory

LEMMA ParseStep == IInv /\ Parse => IInv'
<1> SUFFICES ASSUME IInv, Parse PROVE IInv'
  OBVIOUS
<1>1. StoresSafe'
  BY StoresKept DEF Parse
<1>2. CASE job.ok
  <2>1. TypeOK'
    BY <1>2 DEF Parse, IInv, TypeOK, files, memory, saved, ghosts
  <2>2. Places' /\ CopyMade' /\ FrameMade'
    BY <1>2 DEF Parse, IInv, Places, CopyMade, FrameMade, InUpload, Copy, files, memory
  <2> QED BY <1>1, <2>1, <2>2 DEF IInv, StoresSafe
<1>3. CASE ~job.ok
  <2>1. Leave /\ UNCHANGED up
    BY <1>3 DEF Parse, memory
  <2>2. TypeOK'
    BY <2>1 DEF Parse, Leave, Jobs, IInv, TypeOK, files, memory, saved, ghosts
  <2> QED BY <1>1, <2>1, <2>2, LeaveSafe DEF IInv, StoresSafe
<1> QED BY <1>2, <1>3

(* While a frame is written again its dataset is in `rewriting'.           *)
LEMMA OpenFrameStep == IInv /\ OpenFrame => IInv'
<1> SUFFICES ASSUME IInv, OpenFrame PROVE IInv'
  OBVIOUS
<1>1. InUpload /\ job.bytes \in Bytes
  BY JobFacts DEF OpenFrame, IInv, Places
<1>2. TypeOK'
  BY <1>1 DEF OpenFrame, IInv, TypeOK, FileStates, memory, saved
<1>3. SnapshotsAreWhole' /\ AnsweredIsKept'
  BY DEF OpenFrame, IInv, SnapshotsAreWhole, AnsweredIsKept, memory, saved
<1>4. FramesAreWhole'
  BY <1>1 DEF OpenFrame, IInv, FramesAreWhole, Known, TypeOK, memory, saved
<1>5. Places' /\ CopyMade' /\ FrameMade'
  BY <1>1 DEF OpenFrame, IInv, TypeOK, Places, CopyMade, FrameMade, InUpload, Copy, memory
<1> QED BY <1>2, <1>3, <1>4, <1>5 DEF IInv

LEMMA CloseFrameStep == IInv /\ CloseFrame => IInv'
<1> SUFFICES ASSUME IInv, CloseFrame PROVE IInv'
  OBVIOUS
<1>1. InUpload /\ job.bytes \in Bytes
  BY JobFacts DEF CloseFrame, IInv, Places
<1>2. TypeOK'
  BY <1>1 DEF CloseFrame, IInv, TypeOK, FileStates, memory, saved, ghosts
<1>3. SnapshotsAreWhole' /\ AnsweredIsKept'
  BY DEF CloseFrame, IInv, SnapshotsAreWhole, AnsweredIsKept, memory, saved, ghosts
<1>4. FramesAreWhole'
  BY <1>1 DEF CloseFrame, IInv, FramesAreWhole, Known, TypeOK, memory, saved, ghosts
<1>5. Places' /\ CopyMade' /\ FrameMade'
  BY <1>1 DEF CloseFrame, IInv, TypeOK, Places, CopyMade, FrameMade, InUpload, Copy, memory
<1> QED BY <1>2, <1>3, <1>4, <1>5 DEF IInv

(* The record points to the copy and the frame this upload has made.       *)
LEMMA RecordStep == IInv /\ Record => IInv'
<1> SUFFICES ASSUME IInv, Record PROVE IInv'
  OBVIOUS
<1>1. /\ InUpload /\ up /\ job.bytes \in Bytes /\ job.name \in TempNames
      /\ raw[<<job.bytes, job.name>>] = "Whole" /\ parquet[job.bytes] = "Whole"
      /\ job.name # NoRecord
  <2>1. InUpload /\ up
    BY DEF Record, IInv, Places
  <2>2. job.bytes \in Bytes /\ job.name \in TempNames
    BY <2>1, JobFacts DEF IInv
  <2>3. raw[<<job.bytes, job.name>>] = "Whole" /\ parquet[job.bytes] = "Whole"
    BY DEF Record, IInv, CopyMade, FrameMade, Copy
  <2>4. job.name # NoRecord
    BY <2>2, DatasetAssumption DEF Names
  <2> QED BY <2>1, <2>2, <2>3, <2>4
<1>2. /\ index' = [index EXCEPT ![job.bytes] = job.name]
      /\ torn' = TRUE /\ disk' = Empty /\ pc' = "saving"
      /\ UNCHANGED <<files, up, job, used, faults, ghosts>>
  BY DEF Record, OpenIndex
<1>3. disk' \in [Bytes -> TempNames \cup {NoRecord}] /\ \A b \in Bytes : disk'[b] = NoRecord
  BY <1>2 DEF Empty
<1>4. /\ index' \in [Bytes -> TempNames \cup {NoRecord}]
      /\ index'[job.bytes] = job.name
      /\ \A b \in Bytes \ {job.bytes} : index'[b] = index[b]
  BY <1>1, <1>2 DEF IInv, TypeOK
<1>5. TypeOK'
  BY <1>2, <1>3, <1>4 DEF IInv, TypeOK, files, ghosts
<1>6. SnapshotsAreWhole'
  BY <1>1, <1>2, <1>3, <1>4 DEF IInv, SnapshotsAreWhole, files, ghosts
<1>7. FramesAreWhole'
  BY <1>1, <1>2, <1>3, <1>4 DEF IInv, FramesAreWhole, Known, files, ghosts
<1>8. AnsweredIsKept'
  BY <1>1, <1>2, <1>4 DEF IInv, TypeOK, AnsweredIsKept, ghosts
<1>9. Places' /\ CopyMade' /\ FrameMade'
  BY <1>1, <1>2, <1>4 DEF Places, CopyMade, FrameMade, InUpload, files
<1> QED BY <1>5, <1>6, <1>7, <1>8, <1>9 DEF IInv

LEMMA OtherSaveStep == IInv /\ OtherSave => IInv'
<1> SUFFICES ASSUME IInv, OtherSave PROVE IInv'
  OBVIOUS
<1>1. /\ pc = "idle" /\ up /\ index' = index
      /\ torn' = TRUE /\ disk' = Empty /\ pc' = "saving"
      /\ UNCHANGED <<files, up, job, used, faults, ghosts>>
  BY DEF OtherSave, OpenIndex
<1>2. disk' \in [Bytes -> TempNames \cup {NoRecord}] /\ \A b \in Bytes : disk'[b] = NoRecord
  BY <1>1 DEF Empty
<1>3. TypeOK'
  BY <1>1, <1>2 DEF IInv, TypeOK, files, ghosts
<1>4. SnapshotsAreWhole' /\ FramesAreWhole' /\ AnsweredIsKept'
  BY <1>1, <1>2 DEF IInv, SnapshotsAreWhole, FramesAreWhole, AnsweredIsKept, Known, files, ghosts
<1>5. Places' /\ CopyMade' /\ FrameMade'
  BY <1>1 DEF IInv, Places, CopyMade, FrameMade, InUpload, NoJob
<1> QED BY <1>3, <1>4, <1>5 DEF IInv

(* What is written is what the process knows, the answered upload included.*)
LEMMA CloseIndexStep == IInv /\ CloseIndex => IInv'
<1> SUFFICES ASSUME IInv, CloseIndex PROVE IInv'
  OBVIOUS
<1>1. /\ disk' = index /\ torn' = FALSE /\ pc = "saving" /\ Leave
      /\ UNCHANGED <<files, memory, used, faults, versions>>
  BY DEF CloseIndex
<1>2. up /\ (job # NoJob => InUpload /\ job.bytes \in Bytes)
  BY <1>1, JobFacts DEF IInv, Places
<1>3. /\ answered' \subseteq Bytes
      /\ \A b \in answered' : index[b] # NoRecord
      /\ rewriting' \subseteq Bytes
      /\ \A b \in Bytes : b \notin rewriting' => b \notin rewriting \/ parquet[b] = "Whole"
  <2>1. CASE job = NoJob
    BY <1>2, <2>1 DEF CloseIndex, IInv, TypeOK, AnsweredIsKept
  <2>2. CASE job # NoJob
    BY <1>1, <1>2, <2>2 DEF CloseIndex, IInv, TypeOK, AnsweredIsKept, FrameMade
  <2> QED BY <2>1, <2>2
<1>4. TypeOK'
  BY <1>1, <1>3 DEF Leave, Jobs, IInv, TypeOK, files, memory
<1>5. SnapshotsAreWhole' /\ AnsweredIsKept'
  BY <1>1, <1>3 DEF IInv, SnapshotsAreWhole, AnsweredIsKept, files, memory
<1>6. FramesAreWhole'
  BY <1>1, <1>3 DEF IInv, FramesAreWhole, Known, files, memory
<1> QED BY <1>1, <1>4, <1>5, <1>6, LeaveSafe DEF IInv, memory

LEMMA RaiseStep == IInv /\ Raise => IInv'
<1> SUFFICES ASSUME IInv, Raise PROVE IInv'
  OBVIOUS
<1>1. faults' \in 0..MaxFaults
  BY DatasetAssumption DEF Raise, IInv, TypeOK
<1>2. TypeOK'
  BY <1>1 DEF Raise, Leave, Jobs, IInv, TypeOK, files, memory, saved, ghosts
<1>3. StoresSafe'
  BY StoresKept DEF Raise
<1> QED BY <1>2, <1>3, LeaveSafe DEF Raise, IInv, StoresSafe, memory

LEMMA CrashStep == IInv /\ Crash => IInv'
<1> SUFFICES ASSUME IInv, Crash PROVE IInv'
  OBVIOUS
<1>1. faults' \in 0..MaxFaults
  BY DatasetAssumption DEF Crash, IInv, TypeOK
<1>2. CASE job.by = "library"
  <2>1. Leave /\ UNCHANGED <<files, memory, saved, used, ghosts>>
    BY <1>2 DEF Crash
  <2>2. TypeOK'
    BY <1>1, <2>1 DEF Leave, Jobs, IInv, TypeOK, files, memory, saved, ghosts
  <2>3. StoresSafe'
    BY <2>1, StoresKept
  <2> QED BY <2>1, <2>2, <2>3, LeaveSafe DEF IInv, StoresSafe, memory
<1>3. CASE job.by # "library"
  <2>1. /\ Leave /\ up' = FALSE /\ index' = Empty
        /\ UNCHANGED <<files, saved, used, ghosts>>
    BY <1>3 DEF Crash
  <2>2. index' \in [Bytes -> TempNames \cup {NoRecord}] /\ \A b \in Bytes : index'[b] = NoRecord
    BY <2>1 DEF Empty
  <2>3. TypeOK'
    BY <1>1, <2>1, <2>2 DEF Leave, Jobs, IInv, TypeOK, files, saved, ghosts
  <2>4. SnapshotsAreWhole' /\ FramesAreWhole' /\ AnsweredIsKept'
    BY <2>1, <2>2 DEF IInv, SnapshotsAreWhole, FramesAreWhole, AnsweredIsKept, Known,
                      files, saved, ghosts
  <2>5. Places' /\ CopyMade' /\ FrameMade'
    BY <2>1 DEF Leave, Places, CopyMade, FrameMade, InUpload, NoJob
  <2> QED BY <2>3, <2>4, <2>5 DEF IInv
<1> QED BY <1>2, <1>3

LEMMA RestartStep == IInv /\ Restart => IInv'
<1> SUFFICES ASSUME IInv, Restart PROVE IInv'
  OBVIOUS
<1>1. /\ ~up /\ ~torn /\ up' = TRUE /\ index' = disk
      /\ UNCHANGED <<files, saved, pc, job, used, faults, ghosts>>
  BY DEF Restart
<1>2. ~InUpload /\ pc # "saving"
  BY <1>1 DEF IInv, Places
<1>3. TypeOK'
  BY <1>1 DEF IInv, TypeOK, files, saved, ghosts
<1>4. SnapshotsAreWhole' /\ FramesAreWhole' /\ AnsweredIsKept'
  BY <1>1 DEF IInv, SnapshotsAreWhole, FramesAreWhole, AnsweredIsKept, Known, files, saved, ghosts
<1>5. Places' /\ CopyMade' /\ FrameMade'
  BY <1>1, <1>2 DEF IInv, Places, CopyMade, FrameMade, InUpload, Copy, files
<1> QED BY <1>3, <1>4, <1>5 DEF IInv

LEMMA StutterStep == IInv /\ UNCHANGED vars => IInv'
<1> SUFFICES ASSUME IInv, UNCHANGED vars PROVE IInv'
  OBVIOUS
<1>1. StoresSafe'
  BY StoresKept DEF vars
<1>2. TypeOK'
  BY DEF IInv, TypeOK, vars, files, memory, saved, ghosts
<1>3. Places' /\ CopyMade' /\ FrameMade'
  BY DEF IInv, Places, CopyMade, FrameMade, InUpload, Copy, vars, files, memory, saved, ghosts
<1> QED BY <1>1, <1>2, <1>3 DEF IInv, StoresSafe

(* The inductive invariant holds of every behaviour of the store.          *)
THEOREM Invariance == Spec => []IInv
<1>1. IInv /\ [Next]_vars => IInv'
  BY UploadStep, IngestStep, OpenCopyStep, CloseCopyStep, ReuseCopyStep, ReturnVersionStep,
     ParseStep, OpenFrameStep, CloseFrameStep, RecordStep, OtherSaveStep, CloseIndexStep,
     RaiseStep, CrashStep, RestartStep, StutterStep DEF Next
<1> QED BY <1>1, InitSafe, PTL DEF Spec

(* ingest_file(): what its callers and the records hold is a whole copy of *)
(* the bytes it is named after, for any files and any number of faults.    *)
THEOREM SnapshotSafety == Spec => []SnapshotsAreWhole
<1>1. IInv => SnapshotsAreWhole
  BY DEF IInv
<1> QED BY <1>1, Invariance, PTL

(* add_dataset(): the frame of a dataset on record can be read, unless an  *)
(* upload of the same bytes broke off while writing it again.              *)
THEOREM FrameSafety == Spec => []FramesAreWhole
<1>1. IInv => FramesAreWhole
  BY DEF IInv
<1> QED BY <1>1, Invariance, PTL

(* _save() and _load_index(): an answered upload is on record for good.    *)
THEOREM AnswerSafety == Spec => []AnsweredIsKept
<1>1. IInv => AnsweredIsKept
  BY DEF IInv
<1> QED BY <1>1, Invariance, PTL
=============================================================================
