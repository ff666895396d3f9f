------------------------------- MODULE ImportRun -------------------------------
(***************************************************************************)
(* Imports of one business: each is a file of rows, a row of import_jobs,  *)
(* and an Inngest function that goes through the file in batches, and again *)
(* from the first row when an attempt throws or its process dies.          *)
(*                                                                         *)
(* A batch is a transaction, but the row handlers write through the         *)
(* connection pool: what a row creates is committed at once, while the      *)
(* import_records of its batch wait for the end of the transaction, which   *)
(* may fail (Prisma ends it after five seconds).                            *)
(***************************************************************************)
EXTENDS Naturals, Sequences, FiniteSets

CONSTANTS
  Jobs,         \* imports
  Type,         \* importType of them all: CLIENTS, SERVICES or APPOINTMENTS
  Files,        \* files that may be imported: sequences of Keys and of Invalid
  Keys,         \* e-mail addresses, names of services, or appointments
  Invalid,      \* a row without a required field
  Batch,        \* BATCH_SIZE
  Attempts,     \* attempts Inngest makes
  Deaths,       \* whether processes die
  AtOnce        \* whether imports overlap

ImportAssumption ==
  /\ Type \in {"CLIENTS", "SERVICES", "APPOINTMENTS"} /\ Files \subseteq Seq(Keys \cup {Invalid})
  /\ Invalid \notin Keys /\ {Batch, Attempts} \subseteq Nat \ {0} /\ {Deaths, AtOnce} \subseteq BOOLEAN

VARIABLES
  file,       \* per import: its rows
  status,     \* import_jobs.status
  stats,      \* import_jobs.stats
  records,    \* import_records: per import a sequence of [row, status]
  made,       \* per key: how many rows of the target table have it
  job         \* per import: [at, row, batch, count, tries]; batch: records not committed

vars == <<file, status, stats, records, made, job>>

Outcomes == {"IMPORTED", "SKIPPED_DUPLICATE", "ERROR"}
Zero     == [o \in Outcomes |-> 0]
NewJob   == [at |-> "waiting", row |-> 0, batch |-> <<>>, count |-> Zero, tries |-> 0]

TypeOK ==
  /\ file \in [Jobs -> Files] /\ made \in [Keys -> Nat]
  /\ status \in [Jobs -> {"PENDING", "PROCESSING", "COMPLETED", "FAILED"}]
  /\ stats \in [Jobs -> [Outcomes -> Nat]]
  /\ \A j \in Jobs :
       /\ \A i \in DOMAIN records[j] : records[j][i] \in [row: DOMAIN file[j], status: Outcomes]
       /\ job[j].at \in {"waiting", "fetch", "row", "create", "commit", "finish", "failed", "done"}
       /\ job[j].row \in 0 .. Len(file[j]) + 1 /\ job[j].tries \in 0 .. Attempts
       /\ Len(job[j].batch) <= Batch

Init ==
  /\ file \in [Jobs -> Files] /\ status = [j \in Jobs |-> "PENDING"]
  /\ stats = [j \in Jobs |-> Zero] /\ records = [j \in Jobs |-> <<>>]
  /\ made = [k \in Keys |-> 0] /\ job = [j \in Jobs |-> NewJob]

-----------------------------------------------------------------------------
Busy(j) == job[j].at \notin {"waiting", "done"}

Begin(j) ==
  /\ job[j].at = "waiting" /\ job[j].tries < Attempts /\ (AtOnce \/ \A i \in Jobs : ~Busy(i))
  /\ status' = [status EXCEPT ![j] = "PROCESSING"]
  /\ job' = [job EXCEPT ![j] = [NewJob EXCEPT !.at = "fetch", !.row = 1, !.tries = job[j].tries + 1]]
  /\ UNCHANGED <<file, stats, records, made>>

Fetch(j) ==
  /\ job[j].at = "fetch" /\ job' = [job EXCEPT ![j].at = IF file[j] = <<>> THEN "finish" ELSE "row"]
  /\ UNCHANGED <<file, status, stats, records, made>>

(* The record joins the batch; a full batch, or the last, is committed.      *)
Record(j, s) ==
  LET more == Append(job[j].batch, [row |-> job[j].row, status |-> s]) IN
  job' = [job EXCEPT ![j].batch = more, ![j].count[s] = @ + 1, ![j].row = @ + 1,
            ![j].at = IF Len(more) = Batch \/ job[j].row = Len(file[j]) THEN "commit" ELSE "row"]

Row(j) == file[j][job[j].row]

Missing(j) == Row(j) = Invalid
Known(j)   == Type # "APPOINTMENTS" /\ made[Row(j)] > 0
Refused(j) == Type = "CLIENTS" /\ made[Row(j)] > 0     \* users.email is unique

(* The handler reads: a row that lacks something is an error, and clients    *)
(* and services that exist are skipped.                                      *)
Look(j) ==
  /\ job[j].at = "row"
  /\ \/ Missing(j) /\ Record(j, "ERROR")
     \/ ~Missing(j) /\ Known(j) /\ Record(j, "SKIPPED_DUPLICATE")
     \/ ~Missing(j) /\ ~Known(j) /\ job' = [job EXCEPT ![j].at = "create"]
  /\ UNCHANGED <<file, status, stats, records, made>>

(* ... and creates, which the index may refuse.                              *)
Create(j) ==
  /\ job[j].at = "create"
  /\ \/ Refused(j) /\ Record(j, "ERROR") /\ UNCHANGED made
     \/ ~Refused(j) /\ Record(j, "IMPORTED") /\ made' = [made EXCEPT ![Row(j)] = @ + 1]
  /\ UNCHANGED <<file, status, stats, records>>

Commit(j) ==
  /\ job[j].at = "commit"
  /\ records' = [records EXCEPT ![j] = @ \o job[j].batch]
  /\ job' = [job EXCEPT ![j].batch = <<>>, ![j].at = IF job[j].row > Len(file[j]) THEN "finish" ELSE "row"]
  /\ UNCHANGED <<file, status, stats, made>>

Finish(j) ==
  /\ job[j].at = "finish"
  /\ status' = [status EXCEPT ![j] = "COMPLETED"] /\ stats' = [stats EXCEPT ![j] = job[j].count]
  /\ job' = [job EXCEPT ![j].at = "done"]
  /\ UNCHANGED <<file, records, made>>

(* Inngest runs what threw again, if any attempts are left.                  *)
Again(j) == job' = [job EXCEPT ![j].at = IF job[j].tries < Attempts THEN "waiting" ELSE "done", ![j].batch = <<>>]

(* The file is not there, a transaction fails.                               *)
Fails(j) ==
  /\ job[j].at \in {"fetch", "row", "create", "commit", "finish"}
  /\ job' = [job EXCEPT ![j].at = "failed", ![j].batch = <<>>]
  /\ UNCHANGED <<file, status, stats, records, made>>

(* FAILED is written as best it can be, and the error thrown.                *)
MarkFailed(j) ==
  /\ job[j].at = "failed" /\ Again(j)
  /\ \/ status' = [status EXCEPT ![j] = "FAILED"]
     \/ Deaths /\ UNCHANGED status
  /\ UNCHANGED <<file, stats, records, made>>

Dies(j) ==
  /\ Deaths /\ Busy(j) /\ Again(j)
  /\ UNCHANGED <<file, status, stats, records, made>>

Step(j) ==
  Begin(j) \/ Fetch(j) \/ Look(j) \/ Create(j) \/ Commit(j) \/ Finish(j) \/ MarkFailed(j)

Next == \E j \in Jobs : Step(j) \/ Fails(j) \/ Dies(j)

Spec == Init /\ [][Next]_vars /\ \A j \in Jobs : WF_vars(Step(j))

-----------------------------------------------------------------------------
(* However often an import is run again and wherever it died, an import that *)
(* is completed counts every row of its file once and has a record of each;  *)
(* what a record calls imported is there.                                    *)
CompletedIsWhole ==
  \A j \in Jobs : status[j] = "COMPLETED" =>
    /\ stats[j]["IMPORTED"] + stats[j]["SKIPPED_DUPLICATE"] + stats[j]["ERROR"] = Len(file[j])
    /\ \A n \in DOMAIN file[j] : \E i \in DOMAIN records[j] : records[j][i].row = n

ImportedIsThere ==
  \A j \in Jobs : \A i \in DOMAIN records[j] :
    records[j][i].status = "IMPORTED" => made[file[j][records[j][i].row]] > 0

(* Clients are never doubled, services only by imports that overlap: not by  *)
(* a file that names one twice nor by an attempt that repeats another.       *)
NoneDoubled ==
  Type = "CLIENTS" \/ (Type = "SERVICES" /\ ~AtOnce) => \A k \in Keys : made[k] <= 1

(* While nothing dies, an import that has begun ends.                        *)
ImportsEnd == \A j \in Jobs : [](job[j].at # "waiting" => <>(status[j] \in {"COMPLETED", "FAILED"}))

-----------------------------------------------------------------------------
\* Not kept by the code: README.md, "Divergences".

(* An appointment of a file is one booking: there is a status for rows that  *)
(* are there already, SKIPPED_DUPLICATE (client-import.handler.ts:4).        *)
AppointmentsOnce ==
  Type = "APPOINTMENTS" =>
    \A k \in Keys : made[k] <= Cardinality({p \in Jobs \X (1 .. 10) : p[2] \in DOMAIN file[p[1]] /\ file[p[1]][p[2]] = k})

(* "If an import has errors, click View Errors": each error shows its row    *)
(* (docs/help-center/imports/importing-data.md:48), and the job's count.     *)
ErrorsAreCounted ==
  \A j \in Jobs : status[j] = "COMPLETED" =>
    stats[j]["ERROR"] = Len(SelectSeq(records[j], LAMBDA r : r.status = "ERROR"))
=============================================================================
