---------------------------- MODULE OperationLog ----------------------------
(***************************************************************************)
(* libs/infra OperationLogFile: the audit log, one JSON line per record,   *)
(* rotated over MaxRotate older files when the current one is full.  The   *)
(* process may be killed between any two steps, and renames and writes may *)
(* fail.  A mutex makes Append() and Query() exclusive.                    *)
(*                                                                         *)
(* A line is the number of its record, Garbage (it does not decode, Query()*)
(* skips it) or Partial: garbage without its line end, to which the next   *)
(* record is appended.  The size of a file is its number of lines, and a   *)
(* file that does not exist has none.                                      *)
(***************************************************************************)
EXTENDS Integers, Sequences

CONSTANTS MaxLines,       \* max_file_size_bytes
          MaxRotate,      \* max_rotate_files
          MaxAppends      \* bound: records

ASSUME OperationLogAssumption == MaxLines \in Nat \ {0} /\ MaxRotate \in Nat \ {0}

VARIABLES
    olOpen,    \* opened_
    olFiles,   \* the lines of file i, 0: the current one
    olStep,    \* Append() under way: [pc, i]
    olNext,    \* history: the number of the next record
    olAcked,   \* history: the records for which Append() returned true
    olMerged,  \* history: those of them appended to a partial line
    olFaulty   \* history: a rotation was interrupted

olVars == <<olOpen, olFiles, olStep, olNext, olAcked, olMerged, olFaulty>>

Garbage == 0
Partial == -1
NoAppend == [pc |-> "idle", i |-> 0]

OperationLogInit ==
    /\ olOpen = FALSE /\ olFiles = [i \in 0 .. MaxRotate |-> <<>>] /\ olStep = NoAppend
    /\ olNext = 1 /\ olAcked = {} /\ olMerged = {} /\ olFaulty = FALSE

OpenLog ==
    /\ ~olOpen /\ olOpen' = TRUE
    /\ UNCHANGED <<olFiles, olStep, olNext, olAcked, olMerged, olFaulty>>

(* Close(): the mutex lets no Append() be under way. *)
CloseLog ==
    /\ olOpen /\ olStep = NoAppend /\ olOpen' = FALSE
    /\ UNCHANGED <<olFiles, olStep, olNext, olAcked, olMerged, olFaulty>>

-----------------------------------------------------------------------------
(* RotateIfNeededLocked() rotates a current file that has reached the limit. *)
HasRoom == Len(olFiles[0]) < MaxLines

(* Append(); a rotation first removes the oldest file ... *)
WithoutNewest == [olFiles EXCEPT ![1] = <<>>]
WithoutOldest == [olFiles EXCEPT ![MaxRotate] = <<>>]

AppendRecord ==
    /\ olOpen /\ olStep = NoAppend /\ olNext <= MaxAppends
    /\ olNext' = olNext + 1
    /\ \/ HasRoom /\ olStep' = [pc |-> "write", i |-> 0] /\ UNCHANGED olFiles
       \/ ~HasRoom /\ olStep' = [pc |-> "shift", i |-> MaxRotate] /\ olFiles' = WithoutOldest
    /\ UNCHANGED <<olOpen, olAcked, olMerged, olFaulty>>

(* ... then moves each file to the next number, the current one last. *)
Shifted(i) == [olFiles EXCEPT ![i] = olFiles[i - 1], ![i - 1] = <<>>]

ShiftLog(ok) ==
    /\ olStep.pc = "shift"
    /\ LET i == olStep.i
           present == olFiles[i - 1] # <<>>
       IN \/ /\ present /\ ~ok
             /\ olStep' = NoAppend /\ olFaulty' = TRUE /\ UNCHANGED olFiles
          \/ /\ ok
             /\ olFiles' = IF present THEN Shifted(i) ELSE olFiles
             /\ olStep' = IF i = 1 THEN [pc |-> "write", i |-> 0] ELSE [olStep EXCEPT !.i = i - 1]
             /\ UNCHANGED olFaulty
    /\ UNCHANGED <<olOpen, olNext, olAcked, olMerged>>

(* A line goes to the end of the file, or of the partial line it ends with. *)
EndsPartial(lines) == lines # <<>> /\ lines[Len(lines)] = Partial

WithLine(lines, line) ==
    IF EndsPartial(lines)
    THEN [lines EXCEPT ![Len(lines)] = IF line = Partial THEN Partial ELSE Garbage]
    ELSE Append(lines, line)

(* File::Append() of the encoded record; a full disk leaves a part of it. *)
WriteLog(ok) ==
    /\ olStep.pc = "write" /\ olStep' = NoAppend
    /\ LET record == olNext - 1
           merged == EndsPartial(olFiles[0])
       IN IF ok
          THEN /\ olFiles' = [olFiles EXCEPT ![0] = WithLine(@, record)]
               /\ olAcked' = olAcked \union {record}
               /\ olMerged' = IF merged THEN olMerged \union {record} ELSE olMerged
          ELSE /\ \/ olFiles' = [olFiles EXCEPT ![0] = WithLine(@, Partial)]
                  \/ UNCHANGED olFiles
               /\ UNCHANGED <<olAcked, olMerged>>
    /\ UNCHANGED <<olOpen, olNext, olFaulty>>

(* The process is killed: a record being written may be there in part. *)
KillLogger ==
    /\ olOpen /\ olOpen' = FALSE /\ olStep' = NoAppend
    /\ olFaulty' = (olFaulty \/ olStep.pc = "shift")
    /\ \/ UNCHANGED olFiles
       \/ olStep.pc = "write" /\ olFiles' = [olFiles EXCEPT ![0] = WithLine(@, Partial)]
    /\ UNCHANGED <<olNext, olAcked, olMerged>>

OperationLogNext ==
    \/ OpenLog \/ CloseLog \/ AppendRecord \/ KillLogger
    \/ \E ok \in BOOLEAN : ShiftLog(ok) \/ WriteLog(ok)

OperationLogSpec == OperationLogInit /\ [][OperationLogNext]_olVars

-----------------------------------------------------------------------------
(* Query() reads files newest first and lines last first, and skips what does *)
(* not decode: the records it returns are at these places.                    *)
QueryLog == {x \in (0 .. MaxRotate) \X (1 .. MaxLines) : x[2] <= Len(olFiles[x[1]]) /\ olFiles[x[1]][x[2]] > 0}
Record(x) == olFiles[x[1]][x[2]]
ReadBefore(x, y) == x[1] < y[1] \/ (x[1] = y[1] /\ x[2] > y[2])

(* Types; no file grows past the limit. *)
OperationLogTypeOK ==
    /\ olStep.pc \in {"idle", "shift", "write"} /\ olStep.i \in 0 .. MaxRotate
    /\ \A i \in 0 .. MaxRotate : Len(olFiles[i]) <= MaxLines

(* Query() returns records newest first and each once, also while or after a   *)
(* rotation that was interrupted.                                              *)
QueryNewestFirst == \A x, y \in QueryLog : ReadBefore(x, y) => Record(x) > Record(y)

(* A recorded operation can be queried as long as the files after it are not   *)
(* full: MaxRotate files of records, and one file of them where a rotation was *)
(* interrupted, since the next one removes the oldest file again.              *)
RecentRecordsKept ==
    LET kept == IF olFaulty THEN MaxLines ELSE MaxLines * MaxRotate
    IN \A r \in olAcked \ olMerged : r + kept >= olNext => \E x \in QueryLog : Record(x) = r

\* The log returns the newest acknowledged records in order, through rotation,
\* failing renames and crashes between them.
LogKeepsRecent ==
    /\ OperationLogTypeOK /\ QueryNewestFirst /\ RecentRecordsKept
=============================================================================
