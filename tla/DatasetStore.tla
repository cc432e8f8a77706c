----------------------------- MODULE DatasetStore -----------------------------
(***************************************************************************)
(* Datasets, from an uploaded file to a record in the session store:       *)
(* ingest_file() (ingestion/snapshot.py), the parsers, the upload handler  *)
(* of api/app.py and SessionStore.add_dataset() (api/store.py).            *)
(*                                                                         *)
(* A dataset is its bytes: SHA-256 is taken to be injective, so `Bytes'    *)
(* are the snapshot ids too.  Every file is Absent, Torn while it is       *)
(* written (and after a write that failed), or Whole.  An upload is copied *)
(* under a fresh temporary name; a caller of ingest_file() uses the name   *)
(* of his file, again and again, and does not change it meanwhile.         *)
(* Handlers do not await once they have the bytes, so one process is at    *)
(* one place at a time.                                                    *)
(***************************************************************************)
EXTENDS Naturals, FiniteSets

CONSTANTS
    Bytes,          \* contents of files
    TempNames,      \* names tempfile hands out
    FileNames,      \* names of files given to ingest_file() directly
    Requests,       \* uploads: bytes under a suffix, in a parse mode
    Understood,     \* Understood[p]: the bytes parser p can read
    Malformed,      \* bytes with a row unlike the header, to the CSV parser
    MaxFaults       \* bound on deaths and failed writes

NoRecord == "no_record"
Names == TempNames \cup FileNames

Parsers == {"csv", "xlsx", "parquet"}
Modes == {"strict", "permissive"}

ASSUME DatasetAssumption == /\ Requests \subseteq [bytes : Bytes, suffix : STRING, mode : Modes]
                            /\ Understood \in [Parsers -> SUBSET Bytes]
                            /\ Malformed \subseteq Bytes
                            /\ NoRecord \notin Names
                            /\ TempNames \cap FileNames = {}
                            /\ MaxFaults \in Nat

VARIABLES
    raw,        \* raw[b, n]: the copy raw/<b>/<n>
    parquet,    \* parquet[b]: the parsed frame of a dataset
    index,      \* index[b]: the raw copy its record in memory points to
    disk, torn, \* the same in index.json, unless it is torn
    up,         \* the API process runs
    pc, job,    \* what is being done, and for which file
    used,       \* temporary names handed out so far
    faults,
    versions,   \* ghost: what ingest_file() returned to its callers
    answered,   \* ghost: the datasets whose upload was answered
    rewriting   \* ghost: those whose last upload was not, and touched a frame

files == <<raw, parquet>>
memory == <<index, up>>
saved == <<disk, torn>>
ghosts == <<versions, answered, rewriting>>
vars == <<files, memory, saved, pc, job, used, faults, ghosts>>

NoJob == [by |-> "nobody"]
Jobs == [by : {"api"}, bytes : Bytes, name : TempNames, ok : BOOLEAN]
        \cup [by : {"library"}, bytes : Bytes, name : FileNames]
        \cup {NoJob}

Empty == [b \in Bytes |-> NoRecord]

Init == /\ raw = [c \in Bytes \X Names |-> "Absent"]
        /\ parquet = [b \in Bytes |-> "Absent"]
        /\ index = Empty /\ disk = Empty
        /\ torn = FALSE /\ up = TRUE
        /\ pc = "idle" /\ job = NoJob
        /\ used = {} /\ faults = 0
        /\ versions = {} /\ answered = {} /\ rewriting = {}

Copy == <<job.bytes, job.name>>

Leave == pc' = "idle" /\ job' = NoJob

(* The parser of a suffix (the handler knows no other).                    *)
ParserOf == [suffix \in {".csv", ".xlsx", ".xls", ".parquet"} |->
                IF suffix = ".csv" THEN "csv"
                ELSE IF suffix = ".parquet" THEN "parquet" ELSE "xlsx"]

(* Malformed rows are left out of the frame, or refused; only a CSV file   *)
(* can have them, and only the mode decides.                               *)
Parses(r) == /\ r.suffix \in DOMAIN ParserOf
             /\ r.bytes \in Understood[ParserOf[r.suffix]]
             /\ r.mode = "strict" /\ r.suffix = ".csv" => r.bytes \notin Malformed
-----------------------------------------------------------------------------
(* ingest_file(): for the handler, and for a caller of the library.        *)

Upload == \E r \in Requests, n \in TempNames \ used :
    /\ pc = "idle" /\ up
    /\ pc' = "ingest"
    /\ job' = [by |-> "api", bytes |-> r.bytes, name |-> n, ok |-> Parses(r)]
    /\ used' = used \cup {n}
    /\ UNCHANGED <<files, memory, saved, faults, ghosts>>

Ingest == \E b \in Bytes, n \in FileNames :
    /\ pc = "idle"
    /\ pc' = "ingest"
    /\ job' = [by |-> "library", bytes |-> b, name |-> n]
    /\ UNCHANGED <<files, memory, saved, used, faults, ghosts>>

OpenCopy == /\ pc = "ingest"
            /\ raw[Copy] = "Absent"
            /\ raw' = [raw EXCEPT ![Copy] = "Torn"]
            /\ pc' = "copying"
            /\ UNCHANGED <<parquet, memory, saved, job, used, faults, ghosts>>

CloseCopy == /\ pc = "copying"
             /\ raw' = [raw EXCEPT ![Copy] = "Whole"]
             /\ pc' = "stored"
             /\ UNCHANGED <<parquet, memory, saved, job, used, faults, ghosts>>

(* Mutant: the name of the directory is taken for its content.             *)
TrustCopy == /\ pc = "ingest"
             /\ raw[Copy] # "Absent"
             /\ pc' = "stored"
             /\ UNCHANGED <<files, memory, saved, job, used, faults, ghosts>>

(* A copy that is there is hashed again; a wrong hash is an error, now and *)
(* at every later attempt.                                                 *)
ReuseCopy == /\ pc = "ingest"
             /\ raw[Copy] # "Absent"
             /\ IF raw[Copy] = "Whole" THEN pc' = "stored" /\ UNCHANGED job ELSE Leave
             /\ UNCHANGED <<files, memory, saved, used, faults, ghosts>>

ReturnVersion == /\ pc = "stored" /\ job.by = "library"
                 /\ versions' = versions \cup {Copy}
                 /\ Leave
                 /\ UNCHANGED <<files, memory, saved, used, faults, answered, rewriting>>
-----------------------------------------------------------------------------
(* The handler: parse, add_dataset(), answer.                              *)

(* A suffix without a parser, malformed rows in strict mode and bytes the  *)
(* parser does not understand end the upload; its raw copy stays.          *)
Parse == /\ pc = "stored" /\ job.by = "api"
         /\ IF job.ok THEN pc' = "frame" /\ UNCHANGED job ELSE Leave
         /\ UNCHANGED <<files, memory, saved, used, faults, ghosts>>

(* Mutant: a frame that is there already is not written again.             *)
WriteNewFrame ==
    /\ pc = "frame"
    /\ parquet' = [parquet EXCEPT ![job.bytes] = IF @ = "Absent" THEN "Torn" ELSE @]
    /\ rewriting' = rewriting \cup {job.bytes}
    /\ pc' = IF parquet[job.bytes] = "Absent" THEN "writing" ELSE "record"
    /\ UNCHANGED <<raw, memory, saved, job, used, faults, versions, answered>>

OpenFrame ==
    /\ pc = "frame"
    /\ parquet' = [parquet EXCEPT ![job.bytes] = "Torn"]
    /\ rewriting' = rewriting \cup {job.bytes}
    /\ pc' = "writing"
    /\ UNCHANGED <<raw, memory, saved, job, used, faults, versions, answered>>

CloseFrame ==
    /\ pc = "writing"
    /\ parquet' = [parquet EXCEPT ![job.bytes] = "Whole"]
    /\ pc' = "record"
    /\ UNCHANGED <<raw, memory, saved, job, used, faults, ghosts>>

OpenIndex(records) ==
    /\ index' = records
    /\ torn' = TRUE
    /\ disk' = Empty
    /\ pc' = "saving"

Record == /\ pc = "record"
          /\ OpenIndex([index EXCEPT ![job.bytes] = job.name])
          /\ UNCHANGED <<files, up, job, used, faults, ghosts>>

(* Every other handler that changes the store writes the whole index too.  *)
OtherSave == /\ pc = "idle" /\ up
             /\ OpenIndex(index)
             /\ UNCHANGED <<files, up, job, used, faults, ghosts>>

CloseIndex == /\ pc = "saving"
              /\ disk' = index
              /\ torn' = FALSE
              /\ IF job = NoJob THEN UNCHANGED <<answered, rewriting>>
                 ELSE /\ answered' = answered \cup {job.bytes}
                      /\ rewriting' = rewriting \ {job.bytes}
              /\ Leave
              /\ UNCHANGED <<files, memory, used, faults, versions>>
-----------------------------------------------------------------------------
(* A write or any other step may raise (a full disk): the process goes on, *)
(* the file stays as it is.                                                *)
Raise == /\ pc # "idle"
         /\ faults < MaxFaults
         /\ faults' = faults + 1
         /\ Leave
         /\ UNCHANGED <<files, memory, saved, used, ghosts>>

(* The death of the API process, at work or idle, or of a library caller.  *)
Crash == /\ faults < MaxFaults
         /\ faults' = faults + 1
         /\ Leave
         /\ IF job.by = "library" THEN UNCHANGED memory
            ELSE up /\ up' = FALSE /\ index' = Empty
         /\ UNCHANGED <<files, saved, used, ghosts>>

(* Mutant: an index that cannot be read counts as an empty one.            *)
RestartEmpty == /\ ~up
                /\ up' = TRUE
                /\ index' = disk
                /\ UNCHANGED <<files, saved, pc, job, used, faults, ghosts>>

(* SessionStore.__init__(), which raises for ever on a torn file.          *)
Restart == /\ ~up /\ ~torn
           /\ up' = TRUE
           /\ index' = disk
           /\ UNCHANGED <<files, saved, pc, job, used, faults, ghosts>>

Next == \/ Upload \/ Ingest \/ OpenCopy \/ CloseCopy \/ ReuseCopy \/ ReturnVersion
        \/ Parse \/ OpenFrame \/ CloseFrame \/ Record \/ OtherSave \/ CloseIndex
        \/ Raise \/ Crash \/ Restart

Spec == Init /\ [][Next]_vars
-----------------------------------------------------------------------------
FileStates == {"Absent", "Torn", "Whole"}

TypeOK ==
    /\ raw \in [Bytes \X Names -> FileStates]
    /\ parquet \in [Bytes -> FileStates]
    /\ index \in [Bytes -> TempNames \cup {NoRecord}]
    /\ disk \in [Bytes -> TempNames \cup {NoRecord}]
    /\ torn \in BOOLEAN /\ up \in BOOLEAN
    /\ pc \in {"idle", "ingest", "copying", "stored", "frame", "writing", "record", "saving"}
    /\ job \in Jobs
    /\ used \subseteq TempNames
    /\ faults \in 0..MaxFaults
    /\ versions \subseteq Bytes \X FileNames
    /\ answered \subseteq Bytes
    /\ rewriting \subseteq Bytes

(* The datasets somebody may load: load_dataset_frame() reads their frame. *)
Known == {b \in Bytes : index[b] # NoRecord \/ disk[b] # NoRecord}

(* Every snapshot a caller holds or a record points to is a whole copy of  *)
(* the bytes it is named after, whatever died or failed while it or        *)
(* another snapshot of the same bytes was made.                            *)
SnapshotsAreWhole ==
    /\ \A c \in versions : raw[c] = "Whole"
    /\ \A b \in Bytes : /\ index[b] # NoRecord => raw[<<b, index[b]>>] = "Whole"
                        /\ disk[b] # NoRecord => raw[<<b, disk[b]>>] = "Whole"

(* A dataset on record has a frame, and one that can be read unless an     *)
(* upload of the same bytes began to write it again and was not answered:  *)
(* an upload that is answered repairs what an earlier one left.            *)
FramesAreWhole ==
    \A b \in Known : /\ parquet[b] # "Absent"
                     /\ b \notin rewriting => parquet[b] = "Whole"

(* An upload that was answered is on record for good: in the process that  *)
(* runs, and in the file the next one starts from, if it can be read.      *)
AnsweredIsKept ==
    \A b \in answered : /\ up => index[b] # NoRecord
                        /\ ~torn => disk[b] # NoRecord
-----------------------------------------------------------------------------
(* The inductive invariant.  The properties above talk of what is stored;  *)
(* to survive a step they need what is true at each place of an upload.    *)

InUpload == job.by = "api"

Places ==
    /\ pc = "idle" => job = NoJob
    /\ pc \in {"ingest", "copying", "stored"} => job # NoJob
    /\ pc \in {"frame", "writing", "record"} => InUpload
    /\ pc = "saving" => job = NoJob \/ InUpload
    /\ InUpload \/ pc = "saving" => up

CopyMade ==
    /\ pc = "copying" => raw[Copy] = "Torn"
    /\ pc = "stored" => raw[Copy] = "Whole"
    /\ pc \in {"frame", "writing", "record"} => raw[Copy] = "Whole"

FrameMade ==
    /\ pc = "writing" => parquet[job.bytes] = "Torn" /\ job.bytes \in rewriting
    /\ pc = "record" => parquet[job.bytes] = "Whole"
    /\ pc = "saving" /\ InUpload => /\ parquet[job.bytes] = "Whole"
                                   /\ index[job.bytes] # NoRecord

IInv == /\ TypeOK /\ SnapshotsAreWhole /\ FramesAreWhole /\ AnsweredIsKept
        /\ Places /\ CopyMade /\ FrameMade
=============================================================================
