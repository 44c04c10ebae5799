------------------------------ MODULE Uploads -------------------------------
(***************************************************************************)
(* Upload intents and the file records they become: the owner's requests   *)
(* to complete an upload, which may be repeated and overlap, the nightly   *)
(* sweep of expired intents, and the job that clears the scan.             *)
(*                                                                         *)
(* Every call to the database, the storage and the queue is a step, and no *)
(* two of them share a transaction.  A file record is named by the request *)
(* that created it.                                                        *)
(***************************************************************************)
EXTENDS Naturals

CONSTANTS
  Intents,     \* upload intents
  Requests,    \* requests to complete one
  None,        \* no intent, no file
  MaxFaults    \* bound on failed calls and crashes

ASSUME NoneAssumption == None \notin Intents /\ None \notin Requests
ASSUME FaultAssumption == MaxFaults \in Nat

VARIABLES
  upload,    \* upload[u]: a row of file_uploads, with its file if it has one
  stored,    \* intents whose object the client has put
  file,      \* file[r]: the row of file_records that r created
  job,       \* job[r]: the PROCESS_FILE_UPLOAD job of that file
  events,    \* files whose FILE_UPLOADED is in the outbox
  req,       \* req[r]: the request
  sweep,     \* intents that the sweep has found and not yet expired
  faults

vars == <<upload, stored, file, job, events, req, sweep, faults>>

-----------------------------------------------------------------------------
Init ==
  /\ upload = [u \in Intents |-> [st |-> "none", file |-> None, late |-> FALSE]]
  /\ stored = {}
  /\ file = [r \in Requests |-> [scan |-> "none", of |-> None]]
  /\ job = [r \in Requests |-> "none"]
  /\ events = {}
  /\ req = [r \in Requests |-> [pc |-> "idle", of |-> None, got |-> None]]
  /\ sweep = {}
  /\ faults = 0

Goto(r, pc) == req' = [req EXCEPT ![r].pc = pc]

Return(r, f) == req' = [req EXCEPT ![r].pc = "returned", ![r].got = f]

Of(r) == req[r].of

-----------------------------------------------------------------------------
(* The client.                                                             *)

CreateIntent(u) ==
  /\ upload[u].st = "none"
  /\ upload' = [upload EXCEPT ![u].st = "PENDING"]
  /\ UNCHANGED <<stored, file, job, events, req, sweep, faults>>

\* The presigned URL lapses with the intent.
PutObject(u) ==
  /\ upload[u].st # "none" /\ ~upload[u].late
  /\ u \notin stored
  /\ stored' = stored \cup {u}
  /\ UNCHANGED <<upload, file, job, events, req, sweep, faults>>

\* expiresAt passes.
GrowLate(u) ==
  /\ upload[u].st # "none" /\ ~upload[u].late
  /\ upload' = [upload EXCEPT ![u].late = TRUE]
  /\ UNCHANGED <<stored, file, job, events, req, sweep, faults>>

Post(r) ==
  /\ req[r].pc = "idle"
  /\ \E u \in Intents :
       upload[u].st # "none" /\ req' = [req EXCEPT ![r].pc = "find", ![r].of = u]
  /\ UNCHANGED <<upload, stored, file, job, events, sweep, faults>>

-----------------------------------------------------------------------------
(* CompleteUploadUseCase.                                                  *)

Unmoved == UNCHANGED <<stored, job, events, sweep, faults>>

FindUpload(r) ==
  /\ req[r].pc = "find"
  /\ LET row == upload[Of(r)] IN
       CASE row.st = "CONSUMED" -> Return(r, row.file)
         [] row.st = "EXPIRED" -> Goto(r, "refused")
         [] row.st = "PENDING" -> Goto(r, IF row.late THEN "expire" ELSE "exists")
  /\ UNCHANGED <<upload, file>> /\ Unmoved

\* Whatever the row is by now.
ExpireOwn(r) ==
  /\ req[r].pc = "expire"
  /\ upload' = [upload EXCEPT ![Of(r)].st = "EXPIRED"]
  /\ Goto(r, "refused")
  /\ UNCHANGED file /\ Unmoved

ObjectExists(r) ==
  /\ req[r].pc = "exists"
  /\ Goto(r, IF Of(r) \in stored THEN "record" ELSE "refused")
  /\ UNCHANGED <<upload, file>> /\ Unmoved

Recorded(u) == \E q \in Requests : file[q].of = u

Record(r) == file' = [file EXCEPT ![r] = [scan |-> "PENDING", of |-> Of(r)]]

\* Fault: no unique key (bucket, objectKey).
CreateRecordTwice(r) ==
  /\ req[r].pc = "record"
  /\ Record(r)
  /\ Goto(r, "consume")
  /\ UNCHANGED upload /\ Unmoved

\* A second record of the object violates the unique key (bucket, objectKey).
CreateRecord(r) ==
  /\ req[r].pc = "record"
  /\ IF Recorded(Of(r))
       THEN Goto(r, "failed") /\ UNCHANGED file
       ELSE Goto(r, "consume") /\ Record(r)
  /\ UNCHANGED upload /\ Unmoved

MarkConsumed(r) ==
  /\ req[r].pc = "consume"
  /\ upload' = [upload EXCEPT ![Of(r)].st = "CONSUMED", ![Of(r)].file = r]
  /\ Goto(r, "publish")
  /\ UNCHANGED file /\ Unmoved

Publish(r) ==
  /\ req[r].pc = "publish"
  /\ events' = events \cup {r}
  /\ Goto(r, "enqueue")
  /\ UNCHANGED <<upload, stored, file, job, sweep, faults>>

\* Fault: the file is returned without waiting for the job.
EnqueueLater(r) ==
  /\ req[r].pc = "enqueue"
  /\ Return(r, r)
  /\ UNCHANGED <<upload, stored, file, job, events, sweep, faults>>

Enqueue(r) ==
  /\ req[r].pc = "enqueue"
  /\ job' = [job EXCEPT ![r] = "waiting"]
  /\ Return(r, r)
  /\ UNCHANGED <<upload, stored, file, events, sweep, faults>>

Fault == faults < MaxFaults /\ faults' = faults + 1

\* A call fails or the process dies; what was written stays, and the job may have
\* been added although the call failed.
Fail(r) ==
  /\ Fault
  /\ req[r].pc \notin {"idle", "returned", "refused", "failed"}
  /\ Goto(r, "failed")
  /\ \/ UNCHANGED job
     \/ req[r].pc = "enqueue" /\ job' = [job EXCEPT ![r] = "waiting"]
  /\ UNCHANGED <<upload, stored, file, events, sweep>>

-----------------------------------------------------------------------------
(* The worker.                                                             *)

\* ExpireUploadsUseCase reads the expired intents, then writes them one by one.
SweepFind ==
  /\ sweep = {}
  /\ sweep' = {u \in Intents : upload[u].st = "PENDING" /\ upload[u].late}
  /\ sweep' # {}
  /\ UNCHANGED <<upload, stored, file, job, events, req, faults>>

\* Whatever the row is by now.
SweepExpire(u) ==
  /\ u \in sweep
  /\ upload' = [upload EXCEPT ![u].st = "EXPIRED"]
  /\ sweep' = sweep \ {u}
  /\ UNCHANGED <<stored, file, job, events, req, faults>>

\* The job fails at the first row it cannot write, and the next one reads again.
SweepFails ==
  /\ Fault
  /\ sweep # {}
  /\ sweep' = {}
  /\ UNCHANGED <<upload, stored, file, job, events, req>>

\* A job that a worker can take, for the first time or redelivered after its worker
\* died, which BullMQ does once.
Scannable(r) == job[r] \in {"waiting", "stalled"}

Cleared(r) == [file EXCEPT ![r].scan = "CLEAN"]

\* ProcessFileUploadProcessor; the scan is a stub.
Scan(r) ==
  /\ Scannable(r)
  /\ file' = Cleared(r)
  /\ job' = [job EXCEPT ![r] = "done"]
  /\ UNCHANGED <<upload, stored, events, req, sweep, faults>>

\* The update throws, perhaps after it took effect: the job has one attempt.
ScanFails(r) ==
  /\ Fault
  /\ Scannable(r)
  /\ file' \in {file, Cleared(r)}
  /\ job' = [job EXCEPT ![r] = "failed"]
  /\ UNCHANGED <<upload, stored, events, req, sweep>>

ScanDies(r) ==
  /\ Fault
  /\ Scannable(r)
  /\ file' \in {file, Cleared(r)}
  /\ job' = [job EXCEPT ![r] = IF job[r] = "waiting" THEN "stalled" ELSE "failed"]
  /\ UNCHANGED <<upload, stored, events, req, sweep>>

-----------------------------------------------------------------------------
Complete(r) ==
  \/ FindUpload(r) \/ ExpireOwn(r) \/ ObjectExists(r) \/ CreateRecord(r)
  \/ MarkConsumed(r) \/ Publish(r) \/ Enqueue(r)

Next ==
  \/ \E u \in Intents : CreateIntent(u) \/ PutObject(u) \/ GrowLate(u) \/ SweepExpire(u)
  \/ \E r \in Requests : Post(r) \/ Complete(r) \/ Fail(r)
  \/ \E r \in Requests : Scan(r) \/ ScanFails(r) \/ ScanDies(r)
  \/ SweepFind
  \/ SweepFails

\* The request runs on unless it fails, and the workers take waiting jobs.
Fairness == \A r \in Requests : WF_vars(Complete(r)) /\ WF_vars(Scan(r))

Spec == Init /\ [][Next]_vars

FairSpec == Spec /\ Fairness

-----------------------------------------------------------------------------
\* The file a client was given stays the file of its upload and its record stays,
\* even if the intent is expired by a sweep or by a request that read it before.
ReturnedIsTheFile ==
  \A r \in Requests : req[r].pc = "returned" =>
    LET f == req[r].got IN
      /\ f \in Requests
      /\ file[f].of = Of(r)
      /\ upload[Of(r)].file = f

\* A recorded file is announced and scanned in the end, or the request that
\* created it failed on the way, or its job did: no other request takes over what
\* is left undone, and no other job.
RecordedIsProcessed ==
  \A r \in Requests :
    file[r].scan = "PENDING" ~>
      \/ r \in events /\ file[r].scan = "CLEAN"
      \/ req[r].pc = "failed" \/ job[r] = "failed"

=============================================================================
