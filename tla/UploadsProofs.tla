---------------------------- MODULE UploadsProofs ----------------------------
(***************************************************************************)
(* Proofs about Uploads, for any number of intents and requests.           *)
(***************************************************************************)
EXTENDS Uploads, TLAPS

Places == {"idle", "find", "expire", "exists", "record", "consume", "publish", "enqueue",
           "returned", "refused", "failed"}

States == {"none", "PENDING", "CONSUMED", "EXPIRED"}

UploadRow == [st : States, file : Requests \cup {None}, late : BOOLEAN]

Request == [pc : Places, of : Intents \cup {None}, got : Requests \cup {None}]

\* The types of what the other conjuncts speak of.
TypeInv ==
  /\ upload \in [Intents -> UploadRow]
  /\ file \in [Requests -> [scan : {"none", "PENDING", "CLEAN"}, of : Intents \cup {None}]]
  /\ req \in [Requests -> Request]
  /\ sweep \subseteq Intents
  /\ \A r \in Requests : req[r].pc # "idle" => Of(r) \in Intents /\ upload[Of(r)].st # "none"

\* An upload has one record, whose request has come to it.
RecordsInv ==
  /\ \A p, q \in Requests : file[p].of = file[q].of /\ file[p].of # None => p = q
  /\ \A r \in Requests :
       /\ req[r].pc \in {"idle", "find", "expire", "exists", "record"} => file[r].of = None
       /\ req[r].pc \in {"consume", "publish", "enqueue"} => file[r].of = Of(r)

\* A consumed upload names its record, and so does a request that saw to it.
UploadsInv ==
  /\ \A u \in Intents :
       /\ upload[u].st = "CONSUMED" => upload[u].file # None
       /\ upload[u].file # None => file[upload[u].file].of = u
  /\ \A r \in Requests : req[r].pc \in {"publish", "enqueue"} => upload[Of(r)].file = r

Inv == TypeInv /\ RecordsInv /\ UploadsInv /\ ReturnedIsTheFile

-----------------------------------------------------------------------------
LEMMA InitInv == Init => Inv
BY NoneAssumption
   DEF Init, Inv, TypeInv, UploadRow, Request, States, Places, RecordsInv, UploadsInv, ReturnedIsTheFile, Of

\* Steps that change neither requests nor records, nor the file of an upload.
LEMMA UploadStepInv ==
  ASSUME Inv, UNCHANGED <<req, file>>, sweep' \subseteq Intents,
         upload' \in [Intents -> UploadRow],
         \A u \in Intents : /\ upload'[u].file = upload[u].file
                            /\ upload'[u].st = "CONSUMED" => upload[u].st = "CONSUMED"
                            /\ upload[u].st # "none" => upload'[u].st # "none"
  PROVE  Inv'
<1>1. TypeInv' BY DEF Inv, TypeInv, Of
<1>2. RecordsInv' BY DEF Inv, RecordsInv, Of
<1>3. UploadsInv' BY NoneAssumption DEF Inv, TypeInv, UploadsInv, Of
<1>4. ReturnedIsTheFile' BY DEF Inv, TypeInv, ReturnedIsTheFile, Of, Places
<1> QED BY <1>1, <1>2, <1>3, <1>4 DEF Inv

\* Nothing else depends on what is stored, announced and queued.
LEMMA StutterInv ==
  ASSUME Inv, UNCHANGED <<upload, file, req>>, sweep' \subseteq Intents
  PROVE  Inv'
BY DEF Inv, TypeInv, UploadRow, Request, States, RecordsInv, UploadsInv, ReturnedIsTheFile, Of

\* A request moves on to a place that says no more than the one it leaves.
LEMMA MoveInv ==
  ASSUME Inv, NEW r \in Requests, NEW pc \in Places, Goto(r, pc),
         UNCHANGED <<file, sweep>>, UNCHANGED upload,
         req[r].pc # "idle", pc # "idle",
         pc \in {"find", "expire", "exists", "record"} =>
           req[r].pc \in {"find", "expire", "exists", "record"},
         pc \in {"publish", "enqueue"} => req[r].pc \in {"publish", "enqueue"},
         pc \notin {"consume", "returned"}
  PROVE  Inv'
<1>1. /\ \A q \in Requests \ {r} : req'[q] = req[q]
      /\ req'[r].pc = pc /\ req'[r].of = Of(r)
      /\ Of(r) \in Intents
  BY DEF Inv, TypeInv, UploadRow, Request, States, Goto, Of
<1>2. TypeInv' BY <1>1 DEF Inv, TypeInv, UploadRow, Request, States, Goto, Of
<1>3. RecordsInv' BY <1>1 DEF Inv, TypeInv, RecordsInv, Of
<1>4. UploadsInv' BY <1>1 DEF Inv, TypeInv, UploadsInv, Of
<1>5. ReturnedIsTheFile' BY <1>1 DEF Inv, TypeInv, ReturnedIsTheFile, Of
<1> QED BY <1>2, <1>3, <1>4, <1>5 DEF Inv

LEMMA RequestInv ==
  ASSUME Inv, NEW r \in Requests, Post(r) \/ Complete(r) \/ Fail(r)
  PROVE  Inv'
<1> USE DEF Inv
<1>1. CASE Post(r)
  <2>1. PICK u \in Intents : upload[u].st # "none" /\ req' = [req EXCEPT ![r].pc = "find", ![r].of = u]
    BY <1>1 DEF Post
  <2>a. req[r].pc = "idle" /\ UNCHANGED <<upload, file, sweep>>
    BY <1>1 DEF Post
  <2>b. req \in [Requests -> Request] BY DEF TypeInv
  <2>2. /\ \A q \in Requests \ {r} : req'[q] = req[q]
        /\ req'[r].pc = "find" /\ req'[r].of = u /\ req[r].pc = "idle"
        /\ UNCHANGED <<upload, file, sweep>>
    BY <2>1, <2>a, <2>b DEF Request
  <2>3. TypeInv'
    <3>2. req' \in [Requests -> Request] BY <2>1, <2>b DEF Request, Places
    <3> QED BY <2>1, <2>2, <3>2 DEF TypeInv, UploadRow, Request, States, Of
  <2>4. RecordsInv' BY <2>2 DEF TypeInv, RecordsInv, Of
  <2>5. UploadsInv' BY <2>2 DEF TypeInv, UploadsInv, Of
  <2>6. ReturnedIsTheFile' BY <2>2 DEF TypeInv, ReturnedIsTheFile, Of
  <2> QED BY <2>3, <2>4, <2>5, <2>6
<1>2. CASE FindUpload(r)
  <2>1. /\ UNCHANGED <<upload, file, sweep>>
        /\ req[r].pc = "find"
        /\ Of(r) \in Intents
    BY <1>2 DEF FindUpload, Unmoved, TypeInv
  <2>2. CASE upload[Of(r)].st = "CONSUMED"
    <3> DEFINE f == upload[Of(r)].file
    <3>1. Return(r, f) BY <1>2, <2>2 DEF FindUpload
    <3>2. f \in Requests /\ file[f].of = Of(r) BY <2>1, <2>2 DEF TypeInv, UploadRow, Request, States, UploadsInv
    <3>3. /\ \A q \in Requests \ {r} : req'[q] = req[q]
          /\ req'[r].pc = "returned" /\ req'[r].of = Of(r) /\ req'[r].got = f
      BY <3>1 DEF Return, TypeInv, Of
    <3>4. TypeInv' BY <2>1, <3>1, <3>2, <3>3 DEF TypeInv, UploadRow, Request, States, Return, Of, Places
    <3>5. RecordsInv' BY <2>1, <3>3 DEF TypeInv, RecordsInv, Of
    <3>6. UploadsInv' BY <2>1, <3>3 DEF TypeInv, UploadsInv, Of
    <3>7. ReturnedIsTheFile' BY <2>1, <3>2, <3>3 DEF TypeInv, ReturnedIsTheFile, Of
    <3> QED BY <3>4, <3>5, <3>6, <3>7
  <2>3. CASE upload[Of(r)].st # "CONSUMED"
    <3>1. \E pc \in {"refused", "expire", "exists"} : Goto(r, pc)
      <4>1. CASE upload[Of(r)].st = "EXPIRED" BY <1>2, <4>1 DEF FindUpload
      <4>2. CASE upload[Of(r)].st = "PENDING" BY <1>2, <4>2 DEF FindUpload
      <4> QED BY <2>1, <2>3, <4>1, <4>2 DEF TypeInv, UploadRow, Request, States
    <3> QED BY <2>1, <3>1, MoveInv DEF Places
  <2> QED BY <2>2, <2>3
<1>3. CASE ExpireOwn(r)
  <2>1. /\ UNCHANGED <<file, sweep>> /\ Goto(r, "refused")
        /\ upload' = [upload EXCEPT ![Of(r)].st = "EXPIRED"]
        /\ req[r].pc = "expire" /\ Of(r) \in Intents
    BY <1>3 DEF ExpireOwn, Unmoved, TypeInv
  <2>2. /\ \A q \in Requests \ {r} : req'[q] = req[q]
        /\ req'[r].pc = "refused" /\ req'[r].of = Of(r)
        /\ \A v \in Intents : upload'[v].file = upload[v].file
        /\ \A v \in Intents : upload'[v].st = "CONSUMED" => upload[v].st = "CONSUMED"
        /\ \A v \in Intents : upload[v].st # "none" => upload'[v].st # "none"
    BY <2>1 DEF TypeInv, UploadRow, Request, States, Goto, Of
  <2>3. TypeInv'
    <3>1. upload' \in [Intents -> UploadRow] BY <2>1 DEF TypeInv, UploadRow, States
    <3>2. req' \in [Requests -> Request] BY <2>1 DEF TypeInv, Goto, Request, Places
    <3> QED BY <2>1, <2>2, <3>1, <3>2 DEF TypeInv, Of
  <2>4. RecordsInv' BY <2>1, <2>2 DEF TypeInv, RecordsInv, Of
  <2>5. UploadsInv'
    <3>1. \A u \in Intents : upload'[u].file # None => upload[u].file \in Requests
      BY <2>2 DEF TypeInv, UploadRow
    <3> QED BY <2>1, <2>2, <3>1 DEF TypeInv, UploadsInv, Of
  <2>6. ReturnedIsTheFile' BY <2>1, <2>2 DEF TypeInv, ReturnedIsTheFile, Of
  <2> QED BY <2>3, <2>4, <2>5, <2>6
<1>4. CASE ObjectExists(r)
  BY <1>4, MoveInv DEF ObjectExists, Unmoved, Places
<1>5. CASE CreateRecord(r)
  <2>1. UNCHANGED <<upload, sweep>> /\ req[r].pc = "record" /\ Of(r) \in Intents
    BY <1>5 DEF CreateRecord, Unmoved, TypeInv
  <2>2. CASE Recorded(Of(r))
    BY <1>5, <2>1, <2>2, MoveInv DEF CreateRecord, Places
  <2>3. CASE ~Recorded(Of(r))
    <3>1. Record(r) /\ Goto(r, "consume") BY <1>5, <2>3 DEF CreateRecord
    <3>2. /\ \A q \in Requests \ {r} : req'[q] = req[q] /\ file'[q] = file[q]
          /\ req'[r].pc = "consume" /\ req'[r].of = Of(r)
          /\ file'[r].of = Of(r) /\ file[r].of = None
          /\ \A q \in Requests : file[q].of # Of(r)
      BY <2>1, <2>3, <3>1 DEF Record, Recorded, Goto, TypeInv, RecordsInv, Of
    <3>3. TypeInv'
      <4>1. req' \in [Requests -> Request] BY <3>1 DEF TypeInv, Request, Goto, Places
      <4>2. file' \in [Requests -> [scan : {"none", "PENDING", "CLEAN"}, of : Intents \cup {None}]]
        BY <2>1, <3>1 DEF TypeInv, Record
      <4> QED BY <2>1, <3>2, <4>1, <4>2 DEF TypeInv, Of
    <3>4. RecordsInv'
      <4>1. \A p, q \in Requests : file'[p].of = file'[q].of /\ file'[p].of # None => p = q
        BY <3>2 DEF RecordsInv
      <4>2. \A q \in Requests :
              /\ req'[q].pc \in {"idle", "find", "expire", "exists", "record"} => file'[q].of = None
              /\ req'[q].pc \in {"consume", "publish", "enqueue"} => file'[q].of = req'[q].of
        BY <3>2 DEF RecordsInv, Of
      <4> QED BY <4>1, <4>2 DEF RecordsInv, Of
    <3>5. UploadsInv'
      <4>1. \A u \in Intents : upload[u].file # None => upload[u].file # r
        BY <2>1, <3>2, NoneAssumption DEF UploadsInv
      <4> QED BY <2>1, <3>2, <4>1 DEF TypeInv, UploadRow, UploadsInv, Of
    <3>6. ReturnedIsTheFile'
      <4>1. \A q \in Requests : req'[q].pc = "returned" =>
              /\ req'[q] = req[q] /\ req[q].got \in Requests /\ file[req[q].got].of = req[q].of
              /\ req[q].of \in Intents /\ upload[req[q].of].file = req[q].got
        BY <3>2 DEF TypeInv, ReturnedIsTheFile, Of
      <4>2. \A q \in Requests : req'[q].pc = "returned" => req[q].got # r
        BY <3>2, <4>1, NoneAssumption
      <4> QED BY <2>1, <3>2, <4>1, <4>2 DEF ReturnedIsTheFile, Of
    <3> QED BY <3>3, <3>4, <3>5, <3>6
  <2> QED BY <2>2, <2>3
<1>6. CASE MarkConsumed(r)
  <2>1. /\ UNCHANGED <<file, sweep>> /\ req[r].pc = "consume" /\ Of(r) \in Intents
        /\ Goto(r, "publish")
        /\ upload' = [upload EXCEPT ![Of(r)].st = "CONSUMED", ![Of(r)].file = r]
    BY <1>6 DEF MarkConsumed, Unmoved, TypeInv
  <2>2. /\ \A q \in Requests \ {r} : req'[q] = req[q]
        /\ req'[r].pc = "publish" /\ req'[r].of = Of(r)
        /\ upload'[Of(r)].file = r
        /\ \A v \in Intents \ {Of(r)} : upload'[v] = upload[v]
        /\ upload'[Of(r)].st = "CONSUMED"
    BY <2>1 DEF TypeInv, UploadRow, Request, States, Goto, Of
  <2>3. file[r].of = Of(r) BY <2>1 DEF RecordsInv
  <2>4. TypeInv'
    <3>1. upload \in [Intents -> UploadRow] /\ req \in [Requests -> Request] BY DEF TypeInv
    <3>2. upload' \in [Intents -> UploadRow] BY <2>1, <3>1 DEF UploadRow, States
    <3>3. req' \in [Requests -> Request] BY <2>1, <3>1 DEF Goto, Request, Places
    <3>4. \A q \in Requests : req'[q].pc # "idle" =>
            req'[q].of \in Intents /\ upload'[req'[q].of].st # "none"
      BY <2>1, <2>2 DEF TypeInv, UploadRow, Request, States, Of
    <3> QED BY <2>1, <3>2, <3>3, <3>4 DEF TypeInv, Of
  <2>5. RecordsInv' BY <2>1, <2>2 DEF TypeInv, RecordsInv, Of
  <2>6. UploadsInv'
    <3>1. \A q \in Requests \ {r} : req[q].pc \in {"publish", "enqueue"} => Of(q) # Of(r)
      BY <2>1, <2>3, NoneAssumption DEF RecordsInv, TypeInv
    <3>2. \A q \in Requests \ {r} : req[q].pc \in {"publish", "enqueue"} =>
            upload'[Of(q)].file = q
      BY <2>2, <3>1 DEF TypeInv, UploadRow, Request, States, UploadsInv
    <3> QED BY <2>1, <2>2, <2>3, <3>2, NoneAssumption DEF TypeInv, UploadsInv, Of
  <2>7. ReturnedIsTheFile'
    <3>1. ASSUME NEW q \in Requests, req'[q].pc = "returned"
          PROVE  /\ req'[q].got \in Requests
                 /\ file'[req'[q].got].of = Of(q)'
                 /\ upload'[Of(q)'].file = req'[q].got
      <4>1. q # r /\ req'[q] = req[q] BY <2>2, <3>1
      <4>2. /\ req[q].got \in Requests /\ file[req[q].got].of = Of(q)
            /\ upload[Of(q)].file = req[q].got /\ Of(q) \in Intents
        BY <3>1, <4>1 DEF ReturnedIsTheFile, TypeInv
      <4>3. CASE Of(q) = Of(r)
        <5>1. req[q].got = r BY <2>1, <2>3, <4>2, <4>3, NoneAssumption DEF RecordsInv
        <5> QED BY <2>1, <2>2, <4>1, <4>2, <4>3, <5>1 DEF Of
      <4>4. CASE Of(q) # Of(r) BY <2>1, <2>2, <4>1, <4>2, <4>4 DEF Of
      <4> QED BY <4>3, <4>4
    <3> QED BY <3>1 DEF ReturnedIsTheFile, Of
  <2> QED BY <2>4, <2>5, <2>6, <2>7
<1>7. CASE Publish(r)
  BY <1>7, MoveInv DEF Publish, Places
<1>8. CASE Enqueue(r)
  <2>1. /\ UNCHANGED <<upload, file, sweep>> /\ req[r].pc = "enqueue" /\ Of(r) \in Intents
        /\ Return(r, r)
    BY <1>8 DEF Enqueue, TypeInv
  <2>2. /\ \A q \in Requests \ {r} : req'[q] = req[q]
        /\ req'[r].pc = "returned" /\ req'[r].of = Of(r) /\ req'[r].got = r
    BY <2>1 DEF Return, TypeInv, Of
  <2>3. file[r].of = Of(r) /\ upload[Of(r)].file = r BY <2>1 DEF RecordsInv, UploadsInv
  <2>4. TypeInv' BY <2>1, <2>2 DEF TypeInv, UploadRow, Request, States, Return, Of, Places
  <2>5. RecordsInv' BY <2>1, <2>2 DEF TypeInv, RecordsInv, Of
  <2>6. UploadsInv' BY <2>1, <2>2 DEF TypeInv, UploadsInv, Of
  <2>7. ReturnedIsTheFile' BY <2>1, <2>2, <2>3 DEF TypeInv, ReturnedIsTheFile, Of
  <2> QED BY <2>4, <2>5, <2>6, <2>7
<1>9. CASE Fail(r)
  BY <1>9, MoveInv DEF Fail, Places
<1> QED BY <1>1, <1>2, <1>3, <1>4, <1>5, <1>6, <1>7, <1>8, <1>9 DEF Complete

LEMMA NextInv == Inv /\ [Next]_vars => Inv'
<1> SUFFICES ASSUME Inv, [Next]_vars PROVE Inv'
  OBVIOUS
<1>1. ASSUME NEW u \in Intents, CreateIntent(u) PROVE Inv'
  <2>1. upload \in [Intents -> UploadRow] BY DEF Inv, TypeInv
  <2>2. upload' \in [Intents -> UploadRow] BY <1>1, <2>1 DEF CreateIntent, UploadRow, States
  <2>3. \A v \in Intents : /\ upload'[v].file = upload[v].file
                           /\ upload'[v].st = "CONSUMED" => upload[v].st = "CONSUMED"
                           /\ upload[v].st # "none" => upload'[v].st # "none"
    BY <1>1, <2>1 DEF CreateIntent, UploadRow
  <2>4. UNCHANGED <<req, file>> /\ sweep' \subseteq Intents BY <1>1 DEF CreateIntent, Inv, TypeInv
  <2> QED BY <2>2, <2>3, <2>4, UploadStepInv
<1>2. ASSUME NEW u \in Intents, PutObject(u) PROVE Inv'
  BY <1>2, StutterInv DEF PutObject, Inv, TypeInv
<1>3. ASSUME NEW u \in Intents, GrowLate(u) PROVE Inv'
  <2>1. upload \in [Intents -> UploadRow] BY DEF Inv, TypeInv
  <2>2. upload' \in [Intents -> UploadRow] BY <1>3, <2>1 DEF GrowLate, UploadRow, States
  <2>3. \A v \in Intents : /\ upload'[v].file = upload[v].file
                           /\ upload'[v].st = "CONSUMED" => upload[v].st = "CONSUMED"
                           /\ upload[v].st # "none" => upload'[v].st # "none"
    BY <1>3, <2>1 DEF GrowLate, UploadRow
  <2>4. UNCHANGED <<req, file>> /\ sweep' \subseteq Intents BY <1>3 DEF GrowLate, Inv, TypeInv
  <2> QED BY <2>2, <2>3, <2>4, UploadStepInv
<1>4. ASSUME NEW u \in Intents, SweepExpire(u) PROVE Inv'
  <2>1. upload \in [Intents -> UploadRow] BY DEF Inv, TypeInv
  <2>2. upload' \in [Intents -> UploadRow] BY <1>4, <2>1 DEF SweepExpire, UploadRow, States
  <2>3. \A v \in Intents : /\ upload'[v].file = upload[v].file
                           /\ upload'[v].st = "CONSUMED" => upload[v].st = "CONSUMED"
                           /\ upload[v].st # "none" => upload'[v].st # "none"
    BY <1>4, <2>1 DEF SweepExpire, UploadRow
  <2>4. UNCHANGED <<req, file>> /\ sweep' \subseteq Intents BY <1>4 DEF SweepExpire, Inv, TypeInv
  <2> QED BY <2>2, <2>3, <2>4, UploadStepInv
<1>5. ASSUME NEW r \in Requests, Scan(r) \/ ScanFails(r) \/ ScanDies(r) PROVE Inv'
  <2>1. /\ UNCHANGED <<upload, req, sweep>>
        /\ file' \in [Requests -> [scan : {"none", "PENDING", "CLEAN"}, of : Intents \cup {None}]]
        /\ \A q \in Requests : file'[q].of = file[q].of
    BY <1>5 DEF Scan, ScanFails, ScanDies, Cleared, Inv, TypeInv
  <2>2. TypeInv' BY <2>1 DEF Inv, TypeInv, UploadRow, Request, States, Of
  <2>3. RecordsInv' BY <2>1 DEF Inv, RecordsInv, Of
  <2>4. UploadsInv' BY <2>1, NoneAssumption DEF Inv, TypeInv, UploadRow, UploadsInv, Of
  <2>5. ReturnedIsTheFile' BY <2>1 DEF Inv, ReturnedIsTheFile, Of
  <2> QED BY <2>2, <2>3, <2>4, <2>5 DEF Inv
<1>6. CASE SweepFind BY <1>6, StutterInv DEF SweepFind
<1>7. CASE SweepFails BY <1>7, StutterInv DEF SweepFails
<1>8. CASE UNCHANGED vars BY <1>8, StutterInv DEF vars, Inv, TypeInv
<1> QED BY <1>1, <1>2, <1>3, <1>4, <1>5, <1>6, <1>7, <1>8, RequestInv DEF Next

\* The file a client was given stays the file of its upload, for any number of
\* overlapping requests, sweeps and failed calls: the unique key of records lets
\* one request per upload create a record, and only that one consumes the upload.
THEOREM ReturnedTheorem == Spec => []ReturnedIsTheFile
<1>1. Inv => ReturnedIsTheFile BY DEF Inv
<1> QED BY InitInv, NextInv, <1>1, PTL DEF Spec

-----------------------------------------------------------------------------
(* Where a recorded file is on its way to the scan.                        *)

\* A file whose scan is pending is in the hands of the request that recorded it,
\* unless that failed, or it is announced and has a job, which is to be taken by a
\* worker unless it failed as well; one that is clean has been announced.
PendingIsOnItsWay ==
  \A r \in Requests :
    /\ file[r].scan = "PENDING" =>
         \/ req[r].pc \in {"consume", "publish", "enqueue", "failed"}
         \/ req[r].pc = "returned" /\ r \in events /\ (Scannable(r) \/ job[r] = "failed")
    /\ file[r].scan = "CLEAN" => req[r].pc \in {"returned", "failed"} /\ r \in events

\* What a request leaves behind at each of its places.
TraceInv ==
  /\ job \in [Requests -> {"none", "waiting", "stalled", "done", "failed"}]
  /\ \A r \in Requests :
       /\ req[r].pc \in {"idle", "find", "expire", "exists", "record", "refused"} =>
            file[r].scan = "none"
       /\ req[r].pc \in {"consume", "publish", "enqueue"} => file[r].scan = "PENDING"
       /\ req[r].pc = "enqueue" => r \in events
       /\ job[r] # "none" => req[r].pc \in {"returned", "failed"} /\ r \in events

WayInv == TraceInv /\ PendingIsOnItsWay

\* Steps of the sweep, the client and the clock.
LEMMA WayKept ==
  ASSUME WayInv, UNCHANGED <<file, job, events, req>>
  PROVE  WayInv'
BY DEF WayInv, TraceInv, PendingIsOnItsWay, Scannable

\* A request moves to another place, and what it leaves behind fits that place.
LEMMA WayMove ==
  ASSUME Inv, WayInv, NEW r \in Requests, NEW pc \in Places,
         req[r].pc \notin {"idle", "returned", "failed"},
         \/ Goto(r, pc)
         \/ pc = "returned" /\ \E f \in Requests \cup {None} : Return(r, f),
         UNCHANGED <<file, job, events>>,
         pc \in {"find", "expire", "exists", "record", "refused"} => file[r].scan = "none",
         pc \in {"idle", "returned"} => file[r].scan = "none",
         pc \in {"consume", "publish", "enqueue"} => file[r].scan = "PENDING",
         pc = "enqueue" => r \in events
  PROVE  WayInv'
<1>1. req'[r].pc = pc /\ \A q \in Requests \ {r} : req'[q] = req[q]
  BY DEF Inv, TypeInv, Request, Goto, Return
<1> QED BY <1>1 DEF Places, WayInv, TraceInv, PendingIsOnItsWay, Scannable

\* A step of one request, which changes at most its own record, job and event.
LEMMA WayRequest ==
  ASSUME Inv, WayInv, NEW r \in Requests, Post(r) \/ Complete(r) \/ Fail(r)
  PROVE  WayInv'
<1> USE DEF Unmoved, Places
<1> DEFINE Others == \A q \in Requests \ {r} : req'[q] = req[q]
<1>1. CASE Post(r)
  <2>0. req \in [Requests -> Request] BY DEF Inv, TypeInv
  <2>1. PICK u \in Intents : req' = [req EXCEPT ![r].pc = "find", ![r].of = u]
    BY <1>1 DEF Post
  <2>2. req'[r].pc = "find" /\ Others BY <2>0, <2>1 DEF Request
  <2>3. req[r].pc = "idle" /\ UNCHANGED <<file, job, events>> BY <1>1 DEF Post
  <2> QED BY <2>2, <2>3 DEF WayInv, TraceInv, PendingIsOnItsWay, Scannable
<1>2. CASE FindUpload(r)
  <2>0. Of(r) \in Intents /\ upload[Of(r)] \in UploadRow /\ upload[Of(r)].st # "none"
    BY <1>2 DEF FindUpload, Inv, TypeInv
  <2>1. file[r].scan = "none" BY <1>2 DEF FindUpload, WayInv, TraceInv
  <2>2. CASE upload[Of(r)].st = "CONSUMED"
    <3>1. Return(r, upload[Of(r)].file) /\ upload[Of(r)].file \in Requests \cup {None}
      BY <1>2, <2>0, <2>2 DEF FindUpload, UploadRow
    <3> QED BY <1>2, <2>1, <3>1, WayMove DEF FindUpload
  <2>3. CASE upload[Of(r)].st = "EXPIRED"
    <3>1. Goto(r, "refused") BY <1>2, <2>3 DEF FindUpload
    <3> QED BY <1>2, <2>1, <3>1, WayMove DEF FindUpload
  <2>4. CASE upload[Of(r)].st = "PENDING"
    <3>1. \E pc \in {"expire", "exists"} : Goto(r, pc) BY <1>2, <2>4 DEF FindUpload
    <3> QED BY <1>2, <2>1, <3>1, WayMove DEF FindUpload
  <2> QED BY <2>0, <2>2, <2>3, <2>4 DEF UploadRow, States
<1>3. CASE ExpireOwn(r) BY <1>3, WayMove DEF ExpireOwn, WayInv, TraceInv
<1>4. CASE ObjectExists(r)
  <2>1. \E pc \in {"record", "refused"} : Goto(r, pc) BY <1>4 DEF ObjectExists
  <2> QED BY <1>4, <2>1, WayMove DEF ObjectExists, WayInv, TraceInv
<1>5. CASE CreateRecord(r)
  <2>1. CASE Recorded(Of(r)) BY <1>5, <2>1, WayMove DEF CreateRecord
  <2>2. CASE ~Recorded(Of(r))
    <3>1. Record(r) /\ Goto(r, "consume") BY <1>5, <2>2 DEF CreateRecord
    <3>2. /\ req'[r].pc = "consume" /\ Others
          /\ file'[r].scan = "PENDING" /\ \A q \in Requests \ {r} : file'[q] = file[q]
          /\ UNCHANGED <<job, events>> /\ req[r].pc = "record"
      BY <1>5, <3>1 DEF CreateRecord, Record, Goto, Inv, TypeInv, Request
    <3> QED BY <3>2 DEF WayInv, TraceInv, PendingIsOnItsWay, Scannable
  <2> QED BY <2>1, <2>2
<1>6. CASE MarkConsumed(r) BY <1>6, WayMove DEF MarkConsumed, WayInv, TraceInv
<1>7. CASE Publish(r)
  <2>1. /\ req'[r].pc = "enqueue" /\ Others /\ req[r].pc = "publish"
        /\ UNCHANGED <<file, job>> /\ events' = events \cup {r}
    BY <1>7 DEF Publish, Goto, Inv, TypeInv, Request
  <2> QED BY <2>1 DEF WayInv, TraceInv, PendingIsOnItsWay, Scannable
<1>8. CASE Enqueue(r)
  <2>1. /\ req'[r].pc = "returned" /\ Others /\ req[r].pc = "enqueue"
        /\ UNCHANGED <<file, events>> /\ job' = [job EXCEPT ![r] = "waiting"]
    BY <1>8 DEF Enqueue, Return, Inv, TypeInv, Request
  <2> QED BY <2>1 DEF WayInv, TraceInv, PendingIsOnItsWay, Scannable
<1>9. CASE Fail(r)
  <2>1. CASE UNCHANGED job BY <1>9, <2>1, WayMove DEF Fail
  <2>2. CASE req[r].pc = "enqueue" /\ job' = [job EXCEPT ![r] = "waiting"]
    <3>1. /\ req'[r].pc = "failed" /\ Others /\ req[r].pc = "enqueue"
          /\ UNCHANGED <<file, events>> /\ job' = [job EXCEPT ![r] = "waiting"]
      BY <1>9, <2>2 DEF Fail, Goto, Inv, TypeInv, Request
    <3> QED BY <3>1 DEF WayInv, TraceInv, PendingIsOnItsWay, Scannable
  <2> QED BY <1>9, <2>1, <2>2 DEF Fail
<1> QED BY <1>1, <1>2, <1>3, <1>4, <1>5, <1>6, <1>7, <1>8, <1>9 DEF Complete

LEMMA WayStep == Inv /\ WayInv /\ [Next]_vars => WayInv'
<1> SUFFICES ASSUME Inv, WayInv, [Next]_vars PROVE WayInv'
  OBVIOUS
<1>1. ASSUME NEW u \in Intents, CreateIntent(u) \/ PutObject(u) \/ GrowLate(u) \/ SweepExpire(u)
      PROVE  WayInv'
  BY <1>1, WayKept DEF CreateIntent, PutObject, GrowLate, SweepExpire
<1>2. ASSUME NEW r \in Requests, Scan(r) \/ ScanFails(r) \/ ScanDies(r) PROVE WayInv'
  <2>1. /\ file' = Cleared(r) \/ (file' = file /\ job'[r] \in {"stalled", "failed"})
        /\ job'[r] \in {"stalled", "done", "failed"} /\ Scannable(r)
        /\ \A q \in Requests \ {r} : job'[q] = job[q]
        /\ job' \in [Requests -> {"none", "waiting", "stalled", "done", "failed"}]
        /\ UNCHANGED <<req, events>>
    BY <1>2 DEF Scan, ScanFails, ScanDies, WayInv, TraceInv
  <2>2. /\ \A q \in Requests \ {r} : file'[q] = file[q]
        /\ file'[r].scan = "CLEAN" \/ (file'[r] = file[r] /\ job'[r] \in {"stalled", "failed"})
    BY <2>1 DEF Cleared, Inv, TypeInv
  <2> QED BY <2>1, <2>2 DEF WayInv, TraceInv, PendingIsOnItsWay, Scannable
<1>3. CASE SweepFind \/ SweepFails \/ UNCHANGED vars
  BY <1>3, WayKept DEF SweepFind, SweepFails, vars
<1> QED BY <1>1, <1>2, <1>3, WayRequest DEF Next

\* The safety half of RecordedIsProcessed: a recorded file is left with nobody who
\* would announce and scan it only by a request that failed, or by its one job.
THEOREM PendingTheorem == Spec => []PendingIsOnItsWay
<1>1. Init => WayInv BY DEF Init, WayInv, TraceInv, PendingIsOnItsWay
<1>2. WayInv => PendingIsOnItsWay BY DEF WayInv
<1> QED BY InitInv, NextInv, WayStep, <1>1, <1>2, PTL DEF Spec

=============================================================================
