---------------------------- MODULE ArchiveProofs ----------------------------
(***************************************************************************)
(* Proofs about Archive, for any number of runs, ages and attempts, with   *)
(* or without the routes of the admin.                                     *)
(***************************************************************************)
EXTENDS Archive, TLAPS

-----------------------------------------------------------------------------
(* The inductive invariant *)

\* There is a file, or the code has given the footage up.
Stored(s) == bucket[s] # "none" \/ s \in waived

\* While a run is on, its directory gets segments; it has no row before its egress.
RunsAreFresh ==
  /\ rec # "off" => age[current] = 0
  /\ rec = "starting" => current \in disk /\ row[current] = "none"

\* An upload has read a row, and one that has left the encoder has a file.
UploadsHaveRows ==
  \A w \in Uploader :
    up[w].pc \notin {"idle", "next", "read"} => row[up[w].at] # "none"

UploadsAreStored ==
  \A w \in Uploader : up[w].pc \in {"record", "clean"} => Stored(up[w].at)

\* What the rows say of the bucket is true.
RowsAreTrue ==
  \A s \in Session : /\ s \in archived => Stored(s) /\ Exists(s)
                     /\ row[s] = "upload_failed" => s \in waived

\* What the scanner read is still good for the directories it may remove: no run
\* becomes old, and no row appears, while it waits.
ScannerKnows ==
  scan = "listed" =>
    \A s \in disk \ pinned :
      age[s] >= Rolling => ~Exists(s) \/ s \in archived \/ s \in waived

Footage == /\ RunsAreFresh /\ UploadsHaveRows /\ UploadsAreStored
           /\ RowsAreTrue /\ ScannerKnows /\ FootageIsKept

\* The tick uploads nothing that may still get segments.
DueAreOld ==
  /\ \A s \in Session : queue[s] = "due" \/ s \in todo => age[s] >= Buffer
  /\ up["tick"].pc \notin {"idle", "next"} => age[up["tick"].at] >= Buffer

\* What may have happened to the file of a session that no upload was forced of.
Excused(s) == s \in waived \cup orphans \/ row[s] = "deleted"

\* Without a forced upload the tick is alone, has not archived yet the session it
\* uploads, and a file misses a part only with an excuse.
TearsAreExcused ==
  requests = 0 =>
    /\ \A w \in Uploader \ {"tick"} : up[w].pc = "idle" /\ w \notin torn
    /\ up["tick"].pc \in {"mark", "encode", "fail", "record"} => up["tick"].at \notin archived
    /\ "tick" \in torn => up["tick"].pc \notin {"idle", "next"} /\ Excused(up["tick"].at)
    /\ \A s \in Session : bucket[s] = "part" => Excused(s)

Wholeness == RunsAreFresh /\ DueAreOld /\ TearsAreExcused

Inv == TypeOK /\ Footage /\ Wholeness

-----------------------------------------------------------------------------
(* Helpers *)

\* The constants, one by one.
LEMMA Constants ==
  /\ "tick" \in Uploader /\ \A w \in Uploader : w = "tick" \/ w = "force"
  /\ "cleaner" \in Deleter /\ \A d \in Deleter : d = "cleaner" \/ d = "admin"
  /\ Rolling \in Nat /\ Rolling > 0 /\ Buffer \in Nat /\ Buffer > 0
  /\ Overdue \in Nat /\ Attempts \in Nat /\ Attempts > 0
  /\ MaxRequests \in Nat /\ MaxFaults \in Nat
BY ActorAssumption, AgeAssumption, BoundAssumption

LEMMA FaultIsCounted == ASSUME TypeOK, Fault PROVE faults' \in 0..MaxFaults
BY Constants DEF Fault, TypeOK

\* A status is written into a row that is there, or nowhere.
LEMMA StatusIsWritten ==
  ASSUME TypeOK, NEW s \in Session,
         NEW status \in {"completed", "processing", "uploaded", "upload_failed"},
         SetStatus(s, status)
  PROVE  /\ row' \in [Session -> Status]
         /\ \A x \in Session :
              /\ row'[x] = "none" <=> row[x] = "none"
              /\ row'[x] = "deleted" <=> row[x] = "deleted"
              /\ row'[x] = "upload_failed" =>
                   row[x] = "upload_failed" \/ (x = s /\ status = "upload_failed")
<1>1. CASE Exists(s)
  BY <1>1 DEF SetStatus, Exists, TypeOK, Status
<1>2. CASE ~Exists(s)
  <2>1. row' = row
    BY <1>2 DEF SetStatus
  <2> QED
    BY <2>1 DEF TypeOK
<1> QED
  BY <1>1, <1>2

\* An excuse of a session is one for good.
LEMMA ExcusesStay ==
  ASSUME waived \subseteq waived', orphans \subseteq orphans', NEW s \in Session,
         row[s] = "deleted" => row'[s] = "deleted", Excused(s)
  PROVE  Excused(s)'
BY DEF Excused

-----------------------------------------------------------------------------
(* The recorder *)

LEMMA StartRecordingKeeps == ASSUME Inv, NEW s \in Session, StartRecording(s) PROVE Inv'
<1>1. TypeOK'
  BY SessionAssumption, FaultIsCounted DEF Inv, TypeOK, Status, StartRecording, rows,
     files, recorder, uploads, deletions, scanner, Exists
<1>2. Footage'
  BY Constants DEF Inv, TypeOK, Footage, RunsAreFresh, UploadsHaveRows, UploadsAreStored,
     RowsAreTrue, ScannerKnows, FootageIsKept, Stored, Exists, StartRecording, rows, files,
     recorder, uploads, deletions, scanner
<1>3. Wholeness'
  BY Constants DEF Inv, TypeOK, Wholeness, RunsAreFresh, DueAreOld,
     TearsAreExcused, Excused, StartRecording, rows, files, recorder, uploads, deletions, scanner
<1> QED
  BY <1>1, <1>2, <1>3 DEF Inv

LEMMA EgressRefusedKeeps == ASSUME Inv, EgressRefused PROVE Inv'
<1>1. TypeOK'
  BY SessionAssumption, FaultIsCounted DEF Inv, TypeOK, Status, EgressRefused, rows, files,
     recorder, uploads, deletions, scanner, Exists
<1>2. Footage'
  BY Constants DEF Inv, TypeOK, Footage, RunsAreFresh, UploadsHaveRows, UploadsAreStored,
     RowsAreTrue, ScannerKnows, FootageIsKept, Stored, Exists, EgressRefused, rows, files,
     recorder, uploads, deletions, scanner
<1>3. Wholeness'
  BY Constants DEF Inv, TypeOK, Wholeness, RunsAreFresh, DueAreOld,
     TearsAreExcused, Excused, EgressRefused, rows, files, recorder, uploads, deletions, scanner
<1> QED
  BY <1>1, <1>2, <1>3 DEF Inv

LEMMA InsertRowKeeps == ASSUME Inv, InsertRow PROVE Inv'
<1>1. TypeOK'
  BY SessionAssumption, FaultIsCounted DEF Inv, TypeOK, Status, InsertRow, rows, files, recorder,
     uploads, deletions, scanner, Exists
<1>2. Footage'
  <2>1. /\ UNCHANGED <<archived, disk, bucket, age, current, up, scan, pinned, waived>>
        /\ current \in Session /\ age[current] = 0 /\ current \in disk
        /\ rec' = "on" /\ (row' = row \/ row' = [row EXCEPT ![current] = "recording"])
    BY DEF Inv, TypeOK, Footage, RunsAreFresh, InsertRow, files, uploads, scanner
  <2>2. \A s \in Session : s # current => row'[s] = row[s]
    BY <2>1 DEF Inv, TypeOK
  <2>3. row'[current] \in {row[current], "recording"}
    BY <2>1 DEF Inv, TypeOK
  <2>4. RunsAreFresh' /\ UploadsAreStored' /\ RowsAreTrue' /\ FootageIsKept'
    BY <2>1, <2>2, <2>3 DEF Inv, TypeOK, Footage, RunsAreFresh, UploadsAreStored,
         RowsAreTrue, FootageIsKept, Stored, Exists
  <2>5. UploadsHaveRows'
    BY <2>1, <2>2, <2>3 DEF Inv, TypeOK, Footage, UploadsHaveRows
  <2>6. ScannerKnows'
    BY <2>1, <2>2, Constants DEF Inv, TypeOK, Footage, ScannerKnows, Exists
  <2> QED
    BY <2>4, <2>5, <2>6 DEF Footage
<1>3. Wholeness'
  BY Constants DEF Inv, TypeOK, Wholeness, RunsAreFresh, DueAreOld,
     TearsAreExcused, Excused, InsertRow, rows, files, recorder, uploads, deletions, scanner
<1> QED
  BY <1>1, <1>2, <1>3 DEF Inv

LEMMA AbandonRunKeeps == ASSUME Inv, AbandonRun PROVE Inv'
<1>1. TypeOK'
  BY SessionAssumption, FaultIsCounted DEF Inv, TypeOK, Status, AbandonRun, rows, files, recorder,
     uploads, deletions, scanner, Exists
<1>2. Footage'
  BY Constants DEF Inv, TypeOK, Footage, RunsAreFresh, UploadsHaveRows, UploadsAreStored,
     RowsAreTrue, ScannerKnows, FootageIsKept, Stored, Exists, AbandonRun, rows, files,
     recorder, uploads, deletions, scanner
<1>3. Wholeness'
  BY Constants DEF Inv, TypeOK, Wholeness, RunsAreFresh, DueAreOld,
     TearsAreExcused, Excused, AbandonRun, rows, files, recorder, uploads, deletions, scanner
<1> QED
  BY <1>1, <1>2, <1>3 DEF Inv

LEMMA StopRecordingKeeps == ASSUME Inv, StopRecording PROVE Inv'
<1>1. TypeOK'
  BY SessionAssumption, FaultIsCounted DEF Inv, TypeOK, Status, StopRecording, rows, files,
     recorder, uploads, deletions, scanner, Exists
<1>2. Footage'
  BY Constants DEF Inv, TypeOK, Footage, RunsAreFresh, UploadsHaveRows, UploadsAreStored,
     RowsAreTrue, ScannerKnows, FootageIsKept, Stored, Exists, StopRecording, rows, files,
     recorder, uploads, deletions, scanner
<1>3. Wholeness'
  BY Constants DEF Inv, TypeOK, Wholeness, RunsAreFresh, DueAreOld,
     TearsAreExcused, Excused, StopRecording, rows, files, recorder, uploads, deletions, scanner
<1> QED
  BY <1>1, <1>2, <1>3 DEF Inv

LEMMA StopFailsKeeps == ASSUME Inv, StopFails PROVE Inv'
<1>1. TypeOK'
  BY SessionAssumption, FaultIsCounted DEF Inv, TypeOK, Status, StopFails, rows, files, recorder,
     uploads, deletions, scanner, Exists
<1>2. Footage'
  BY Constants DEF Inv, TypeOK, Footage, RunsAreFresh, UploadsHaveRows, UploadsAreStored,
     RowsAreTrue, ScannerKnows, FootageIsKept, Stored, Exists, StopFails, rows, files,
     recorder, uploads, deletions, scanner
<1>3. Wholeness'
  BY Constants DEF Inv, TypeOK, Wholeness, RunsAreFresh, DueAreOld,
     TearsAreExcused, Excused, StopFails, rows, files, recorder, uploads, deletions, scanner
<1> QED
  BY <1>1, <1>2, <1>3 DEF Inv

LEMMA WriteEndKeeps == ASSUME Inv, WriteEnd PROVE Inv'
<1>1. TypeOK'
  BY SessionAssumption, FaultIsCounted DEF Inv, TypeOK, Status, WriteEnd, Stopped, rows,
     files, recorder, uploads, deletions, scanner, Exists
<1>2. Footage'
  BY Constants DEF Inv, TypeOK, Footage, RunsAreFresh, UploadsHaveRows, UploadsAreStored,
     RowsAreTrue, ScannerKnows, FootageIsKept, Stored, Exists, WriteEnd, Stopped, rows,
     files, recorder, uploads, deletions, scanner
<1>3. Wholeness'
  BY Constants DEF Inv, TypeOK, Wholeness, RunsAreFresh, DueAreOld,
     TearsAreExcused, Excused, WriteEnd, Stopped, rows, files, recorder, uploads, deletions, scanner
<1> QED
  BY <1>1, <1>2, <1>3 DEF Inv

LEMMA MarkCompletedKeeps == ASSUME Inv, MarkCompleted PROVE Inv'
<1>1. TypeOK'
  BY SessionAssumption, FaultIsCounted DEF Inv, TypeOK, Status, MarkCompleted, Stopped,
     rows, files, recorder, uploads, deletions, scanner, Exists
<1>2. Footage'
  BY Constants, SMTT(30) DEF Inv, TypeOK, Footage, RunsAreFresh, UploadsHaveRows, UploadsAreStored,
     RowsAreTrue, ScannerKnows, FootageIsKept, Stored, Exists, MarkCompleted, Stopped,
     rows, files, recorder, uploads, deletions, scanner
<1>3. Wholeness'
  BY Constants DEF Inv, TypeOK, Wholeness, RunsAreFresh, DueAreOld,
     TearsAreExcused, Excused, MarkCompleted, Stopped, rows, files, recorder, uploads, deletions, scanner
<1> QED
  BY <1>1, <1>2, <1>3 DEF Inv

-----------------------------------------------------------------------------
(* The uploads *)

\* Where an upload is, while it has a session.
LEMMA UploadHasSession ==
  ASSUME TypeOK, NEW w \in Uploader, up[w].pc \notin {"idle", "next"}
  PROVE  up[w].at \in Session
BY DEF TypeOK

\* What uploadSession leaves behind when it returns.
LEMMA ReturnsKeep ==
  ASSUME TypeOK, NEW w \in Uploader, up[w].pc \notin {"idle", "next"},
         NEW gone, NEW entry \in {"out", "later"},
         NEW count \in [Session -> 0..Attempts], ReturnsWithout(w, gone, entry, count)
  PROVE  /\ up' \in [Uploader -> [pc : UploadStep, at : Session \cup {NoSession}]]
         /\ \A x \in Uploader : x # w => up'[x] = up[x]
         /\ up'[w].pc = IF w = "tick" THEN "next" ELSE "idle"
         /\ torn' \subseteq Uploader
         /\ \A x \in torn' : x # w /\ (x \in torn \/ up[x].pc # "idle")
         /\ queue' \in [Session -> {"out", "later", "due"}]
         /\ \A s \in Session : queue'[s] = "due" => queue[s] = "due"
         /\ attempts' \in [Session -> 0..Attempts]
<1> DEFINE s == up[w].at
<1>1. s \in Session
  BY UploadHasSession
<1>2. /\ torn' \subseteq Uploader
      /\ \A x \in torn' : x # w /\ (x \in torn \/ up[x].pc # "idle")
  BY DEF TypeOK, ReturnsWithout, Reading, At
<1>3. CASE w = "tick"
  <2>1. /\ up' = [up EXCEPT ![w] = [pc |-> "next", at |-> NoSession]]
        /\ queue' = [queue EXCEPT ![s] = entry]
        /\ attempts' = IF entry = "out" THEN [count EXCEPT ![s] = 0] ELSE count
    BY <1>3 DEF ReturnsWithout
  <2> QED
    BY <1>1, <1>2, <1>3, <2>1, Constants DEF TypeOK, UploadStep
<1>4. CASE w # "tick"
  <2>1. /\ up' = [up EXCEPT ![w] = Resting]
        /\ queue' = queue /\ attempts' = count
    BY <1>4 DEF ReturnsWithout
  <2> QED
    BY <1>2, <1>4, <2>1 DEF TypeOK, UploadStep, Resting
<1> QED
  BY <1>3, <1>4

LEMMA ComesDueKeeps == ASSUME Inv, NEW s \in Session, ComesDue(s) PROVE Inv'
<1>1. TypeOK'
  BY SessionAssumption, Constants, FaultIsCounted DEF Inv, TypeOK, Status, ComesDue, rows,
     files, recorder, uploads, deletions, scanner
<1>2. Footage'
  BY Constants DEF Inv, TypeOK, Footage, RunsAreFresh, UploadsHaveRows, UploadsAreStored,
     RowsAreTrue, ScannerKnows, FootageIsKept, Stored, Exists, ComesDue, rows, files,
     recorder, uploads, deletions, scanner
<1>3. Wholeness'
  BY Constants DEF Inv, TypeOK, Wholeness, RunsAreFresh, DueAreOld,
     TearsAreExcused, Excused, ComesDue, rows, files, recorder,
     uploads, deletions, scanner
<1> QED
  BY <1>1, <1>2, <1>3 DEF Inv

LEMMA TickStartKeeps == ASSUME Inv, TickStart PROVE Inv'
<1>1. TypeOK'
  BY SessionAssumption, Constants, FaultIsCounted DEF Inv, TypeOK, Status, TickStart,
     LoadPending, At, Goto, UploadStep, rows, files, recorder, uploads, deletions, scanner
<1>2. Footage'
  BY Constants DEF Inv, TypeOK, Footage, RunsAreFresh, UploadsHaveRows, UploadsAreStored,
     RowsAreTrue, ScannerKnows, FootageIsKept, Stored, Exists, TickStart, LoadPending, At,
     Goto, UploadStep, rows, files, recorder, uploads, deletions, scanner
<1>3. Wholeness'
  BY Constants DEF Inv, TypeOK, Wholeness, RunsAreFresh, DueAreOld,
     TearsAreExcused, Excused, TickStart, LoadPending, At, Goto, UploadStep, rows, files, recorder,
     uploads, deletions, scanner
<1> QED
  BY <1>1, <1>2, <1>3 DEF Inv

LEMMA TickNextKeeps == ASSUME Inv, TickNext PROVE Inv'
<1>1. TypeOK'
  <2>1. CASE \E s \in todo : /\ todo' = todo \ {s}
                              /\ up' = [up EXCEPT !["tick"] = [pc |-> "read", at |-> s]]
    <3>1. PICK s \in todo : /\ todo' = todo \ {s}
                            /\ up' = [up EXCEPT !["tick"] = [pc |-> "read", at |-> s]]
      BY <2>1
    <3>2. [pc |-> "read", at |-> s] \in [pc : UploadStep, at : Session \cup {NoSession}]
      BY DEF Inv, TypeOK, UploadStep
    <3>3. /\ up' \in [Uploader -> [pc : UploadStep, at : Session \cup {NoSession}]]
          /\ \A w \in Uploader : up'[w].pc \notin {"idle", "next"} => up'[w].at # NoSession
      BY <3>1, <3>2, SessionAssumption DEF Inv, TypeOK
    <3> QED
      BY <3>1, <3>3 DEF Inv, TypeOK, TickNext, rows, files, recorder, deletions, scanner
  <2>2. CASE todo = {} /\ up' = [up EXCEPT !["tick"] = Resting] /\ UNCHANGED todo
    <3>1. /\ up' \in [Uploader -> [pc : UploadStep, at : Session \cup {NoSession}]]
          /\ \A w \in Uploader : up'[w].pc \notin {"idle", "next"} => up'[w].at # NoSession
      BY <2>2 DEF Inv, TypeOK, Resting, UploadStep
    <3> QED
      BY <2>2, <3>1 DEF Inv, TypeOK, TickNext, rows, files, recorder, deletions, scanner
  <2> QED
    BY <2>1, <2>2 DEF TickNext
<1>2. Footage'
  BY Constants, SMTT(30) DEF Inv, TypeOK, Footage, RunsAreFresh, UploadsHaveRows, UploadsAreStored,
     RowsAreTrue, ScannerKnows, FootageIsKept, Stored, Exists, TickNext, Resting, At,
     UploadStep, rows, files, recorder, uploads, deletions, scanner
<1>3. Wholeness'
  BY Constants DEF Inv, TypeOK, Wholeness, RunsAreFresh, DueAreOld,
     TearsAreExcused, Excused, TickNext, Resting, At, UploadStep, rows, files, recorder,
     uploads, deletions, scanner
<1> QED
  BY <1>1, <1>2, <1>3 DEF Inv

LEMMA ForceUploadKeeps == ASSUME Inv, NEW s \in Session, ForceUpload(s) PROVE Inv'
<1>1. TypeOK'
  BY SessionAssumption, Constants, FaultIsCounted DEF Inv, TypeOK, Status, ForceUpload, At,
     Exists, UploadStep, rows, files, recorder, uploads, deletions, scanner
<1>2. Footage'
  BY Constants DEF Inv, TypeOK, Footage, RunsAreFresh, UploadsHaveRows, UploadsAreStored,
     RowsAreTrue, ScannerKnows, FootageIsKept, Stored, Exists, ForceUpload, At, UploadStep,
     rows, files, recorder, uploads, deletions, scanner
<1>3. Wholeness'
  BY Constants DEF Inv, TypeOK, Wholeness, RunsAreFresh, DueAreOld,
     TearsAreExcused, Excused, ForceUpload, At, Exists, UploadStep, rows, files, recorder, uploads, deletions,
     scanner
<1> QED
  BY <1>1, <1>2, <1>3 DEF Inv

\* What every return of an upload has in common: the row, if it changes, is not
\* that of a confirmed archive, and the directory goes only after the file is there.
Returned(w) ==
  /\ UNCHANGED <<ended, archived, bucket, age, recorder, todo, orphans, deletions, scanner,
                 requests>>
  /\ waived \subseteq waived' /\ waived' \subseteq Session
  /\ faults' \in 0..MaxFaults
  /\ row' \in [Session -> Status]
  /\ \A x \in Session :
       /\ row'[x] = "none" <=> row[x] = "none"
       /\ row'[x] = "deleted" <=> row[x] = "deleted"
       /\ row'[x] = "upload_failed" => row[x] = "upload_failed" \/ x \in waived'
  /\ disk' = disk \/ (disk' = disk \ {up[w].at} /\ up[w].pc = "clean")

LEMMA ReturnKeeps ==
  ASSUME Inv, NEW w \in Uploader, up[w].pc \notin {"idle", "next"},
         NEW gone, NEW entry \in {"out", "later"},
         NEW count \in [Session -> 0..Attempts],
         ReturnsWithout(w, gone, entry, count), Returned(w)
  PROVE  Inv'
<1>1. /\ up' \in [Uploader -> [pc : UploadStep, at : Session \cup {NoSession}]]
      /\ \A x \in Uploader : x # w => up'[x] = up[x]
      /\ up'[w].pc = IF w = "tick" THEN "next" ELSE "idle"
      /\ torn' \subseteq Uploader
      /\ \A x \in torn' : x # w /\ (x \in torn \/ up[x].pc # "idle")
      /\ queue' \in [Session -> {"out", "later", "due"}]
      /\ \A s \in Session : queue'[s] = "due" => queue[s] = "due"
      /\ attempts' \in [Session -> 0..Attempts]
  BY ReturnsKeep DEF Inv
<1>2. /\ UNCHANGED <<ended, archived, bucket, age, rec, current, todo, orphans, del, list,
                     named, scan, pinned, requests>>
      /\ waived \subseteq waived' /\ waived' \subseteq Session /\ faults' \in 0..MaxFaults
      /\ row' \in [Session -> Status]
  BY DEF Returned, recorder, deletions, scanner
<1>3. \A x \in Session :
         /\ row'[x] = "none" <=> row[x] = "none"
         /\ row'[x] = "deleted" <=> row[x] = "deleted"
         /\ row'[x] = "upload_failed" => row[x] = "upload_failed" \/ x \in waived'
  BY DEF Returned
<1>4. /\ disk' \subseteq disk
      /\ \A x \in disk \ disk' : x = up[w].at /\ up[w].pc = "clean"
  BY DEF Returned
<1>5. TypeOK'
  BY <1>1, <1>2, <1>4, ZenonT(40) DEF Inv, TypeOK
<1>6. Footage'
  <2>1. RunsAreFresh'
    BY <1>2, <1>3, <1>4 DEF Inv, TypeOK, Footage, RunsAreFresh, UploadsHaveRows
  <2>2. \A x \in Uploader : up'[x].pc \notin {"idle", "next"} =>
                              up'[x] = up[x] /\ up[x].at \in Session
    BY <1>1, UploadHasSession DEF Inv
  <2>6. UploadsHaveRows'
    BY <1>3, <2>2 DEF Inv, Footage, UploadsHaveRows
  <2>7. UploadsAreStored'
    BY <1>2, <2>2 DEF Inv, Footage, UploadsAreStored, Stored
  <2>3. RowsAreTrue'
    BY <1>2, <1>3 DEF Inv, TypeOK, Footage, RowsAreTrue, Stored, Exists
  <2>4. ScannerKnows'
    BY <1>2, <1>3, <1>4 DEF Inv, TypeOK, Footage, ScannerKnows, Exists
  <2>5. FootageIsKept'
    BY <1>2, <1>3, <1>4 DEF Inv, TypeOK, Footage, FootageIsKept, UploadsAreStored, Stored, Exists
  <2> QED
    BY <2>1, <2>3, <2>4, <2>5, <2>6, <2>7 DEF Footage
<1>7. Wholeness'
  <2>1. RunsAreFresh'
    BY <1>6 DEF Footage
  <2>2. DueAreOld'
    BY <1>1, <1>2, Constants DEF Inv, Wholeness, DueAreOld
  <2>3. TearsAreExcused'
    <3> SUFFICES ASSUME requests = 0 PROVE TearsAreExcused'
      BY <1>2 DEF TearsAreExcused
    <3>1. w = "tick" /\ torn' = {}
      BY <1>1, Constants DEF Inv, Wholeness, TearsAreExcused
    <3>2. \A x \in Session : Excused(x) => Excused(x)'
      BY <1>2, <1>3, ExcusesStay
    <3> QED
      BY <1>1, <1>2, <3>1, <3>2 DEF Inv, Wholeness, TearsAreExcused
  <2> QED
    BY <2>1, <2>2, <2>3 DEF Wholeness
<1> QED
  BY <1>5, <1>6, <1>7 DEF Inv

\* A query or a request of an upload that fails is tried again with the next tick.
LEMMA FaultReturnKeeps ==
  ASSUME Inv, NEW w \in Uploader, up[w].pc \notin {"idle", "next"},
         NEW count \in [Session -> 0..Attempts], Fault, Returns(w, "later", count),
         UNCHANGED <<rows, files, recorder, todo, orphans, deletions, scanner, waived,
                     requests>>
  PROVE  Inv'
<1>1. Returned(w)
  BY FaultIsCounted DEF Inv, TypeOK, Returned, rows, files
<1> QED
  BY <1>1, ReturnKeeps DEF Returns

LEMMA AttemptsAreCounts == ASSUME Inv PROVE attempts \in [Session -> 0..Attempts]
BY DEF Inv, TypeOK

\* An upload that goes on to pc, with no change to what the others see.
GoesOn(w, pc) ==
  /\ up' = [up EXCEPT ![w].pc = pc]
  /\ UNCHANGED <<ended, disk, age, recorder, queue, attempts, todo, orphans, deletions,
                 scanner, waived, requests>>

LEMMA GoesOnKeeps ==
  ASSUME Inv, NEW w \in Uploader, up[w].pc \notin {"idle", "next"},
         NEW pc \in UploadStep \ {"idle", "next", "read"}, GoesOn(w, pc)
  PROVE  /\ up' \in [Uploader -> [pc : UploadStep, at : Session \cup {NoSession}]]
         /\ \A x \in Uploader : up'[x].pc \notin {"idle", "next"} => up'[x].at # NoSession
         /\ \A x \in Uploader : up'[x].at = up[x].at
         /\ \A x \in Uploader : x # w => up'[x] = up[x]
         /\ up'[w].pc = pc
         /\ DueAreOld'
<1>1. /\ up' = [up EXCEPT ![w].pc = pc]
      /\ UNCHANGED <<queue, todo, age>>
  BY DEF GoesOn
<1>2. up \in [Uploader -> [pc : UploadStep, at : Session \cup {NoSession}]]
  BY DEF Inv, TypeOK
<1>4. up' \in [Uploader -> [pc : UploadStep, at : Session \cup {NoSession}]]
  BY <1>1, <1>2 DEF UploadStep
<1>5. /\ \A x \in Uploader : up'[x].at = up[x].at
      /\ \A x \in Uploader : x # w => up'[x] = up[x]
      /\ up'[w].pc = pc
  BY <1>1, <1>2
<1>6. \A x \in Uploader : up'[x].pc \notin {"idle", "next"} => up'[x].at # NoSession
  BY <1>5 DEF Inv, TypeOK
<1>7. DueAreOld'
  BY <1>1, <1>5, Constants DEF Inv, Wholeness, DueAreOld
<1> QED
  BY <1>4, <1>5, <1>6, <1>7

\* The row is read; nobody else sees anything of it.
LEMMA ReadRowKeeps == ASSUME Inv, NEW w \in Uploader, ReadRow(w) PROVE Inv'
<1>1. /\ up[w].pc \notin {"idle", "next"} /\ up[w].at \in Session
      /\ up[w].pc = "read"
      /\ UNCHANGED <<rows, files, recorder, todo, orphans, deletions, scanner, waived,
                     requests>>
  BY UploadHasSession DEF Inv, ReadRow, At
<1>2. CASE Fault /\ Returns(w, "later", attempts)
  BY <1>1, <1>2, AttemptsAreCounts, FaultReturnKeeps
<1>3. CASE UNCHANGED faults /\ \E entry \in {"out", "later"} : Returns(w, entry, attempts)
  <2>1. Returned(w)
    BY <1>1, <1>3 DEF Inv, TypeOK, Returned, rows, files
  <2> QED
    BY <1>1, <1>3, <2>1, AttemptsAreCounts, ReturnKeeps DEF Returns
<1>4. CASE /\ Exists(up[w].at) /\ up[w].at \notin archived
           /\ Goto(w, IF up[w].at \in disk THEN "mark" ELSE "giveUp")
           /\ UNCHANGED <<queue, attempts, torn, faults>>
  <2>1. PICK pc \in {"mark", "giveUp"} : up' = [up EXCEPT ![w].pc = pc]
    BY <1>4 DEF Goto
  <2>2. GoesOn(w, pc)
    BY <1>1, <1>4, <2>1 DEF GoesOn, rows, files
  <2>3. /\ up' \in [Uploader -> [pc : UploadStep, at : Session \cup {NoSession}]]
        /\ \A x \in Uploader : up'[x].pc \notin {"idle", "next"} => up'[x].at # NoSession
        /\ \A x \in Uploader : up'[x].at = up[x].at
        /\ \A x \in Uploader : x # w => up'[x] = up[x]
        /\ up'[w].pc \in {"mark", "giveUp"} /\ DueAreOld'
    BY <1>1, <2>1, <2>2, GoesOnKeeps DEF UploadStep
  <2>4. UNCHANGED <<row, ended, archived, disk, bucket, age, rec, current, queue, attempts,
                    todo, torn, orphans, del, list, named, scan, pinned, waived, requests,
                    faults>>
    BY <1>1, <1>4 DEF rows, files, recorder, deletions, scanner
  <2>5. TypeOK'
    BY <2>3, <2>4 DEF Inv, TypeOK
  <2>6. Footage'
    BY <1>4, <2>3, <2>4 DEF Inv, Footage, RunsAreFresh, UploadsHaveRows, UploadsAreStored,
         RowsAreTrue, ScannerKnows, FootageIsKept, Stored, Exists
  <2>7. Wholeness'
    BY <1>1, <1>4, <2>3, <2>4, <2>6 DEF Inv, Footage, Wholeness, TearsAreExcused, Excused
  <2> QED
    BY <2>5, <2>6, <2>7 DEF Inv
<1> QED
  BY <1>2, <1>3, <1>4 DEF ReadRow

\* The encoder starts, or finds no directory; it spoils a file only if an upload is
\* forced, a run is on or an encoder has survived a crash.
LEMMA MarkProcessingKeeps == ASSUME Inv, NEW w \in Uploader, MarkProcessing(w) PROVE Inv'
<1> DEFINE s == up[w].at
<1>1. /\ up[w].pc = "mark" /\ s \in Session
      /\ UNCHANGED <<ended, archived, files, recorder, todo, orphans, deletions, scanner,
                     waived, requests>>
  BY UploadHasSession DEF Inv, MarkProcessing, At
<1>2. CASE Fault /\ Returns(w, "later", attempts) /\ UNCHANGED row
  BY <1>1, <1>2, AttemptsAreCounts, FaultReturnKeeps DEF rows
<1>3. CASE /\ SetStatus(s, "processing")
           /\ \/ Goto(w, "encode") /\ OverwriteTemp(w)
              \/ Goto(w, "fail") /\ UNCHANGED torn
           /\ UNCHANGED <<queue, attempts, faults>>
  <2>1. PICK pc \in {"encode", "fail"} : Goto(w, pc) /\ (OverwriteTemp(w) \/ UNCHANGED torn)
    BY <1>3
  <2>2. GoesOn(w, pc)
    BY <1>1, <1>3, <2>1 DEF GoesOn, Goto, files
  <2>3. /\ up' \in [Uploader -> [pc : UploadStep, at : Session \cup {NoSession}]]
        /\ \A x \in Uploader : up'[x].pc \notin {"idle", "next"} => up'[x].at # NoSession
        /\ \A x \in Uploader : up'[x].at = up[x].at
        /\ \A x \in Uploader : x # w => up'[x] = up[x]
        /\ up'[w].pc = pc /\ DueAreOld'
    BY <1>1, <2>2, GoesOnKeeps DEF UploadStep
  <2>4. UNCHANGED <<ended, archived, disk, bucket, age, rec, current, queue, attempts, todo,
                    orphans, del, list, named, scan, pinned, waived, requests, faults>>
    BY <1>1, <1>3 DEF files, recorder, deletions, scanner
  <2>5. /\ row' \in [Session -> Status]
        /\ \A x \in Session :
             /\ row'[x] = "none" <=> row[x] = "none"
             /\ row'[x] = "deleted" <=> row[x] = "deleted"
             /\ row'[x] = "upload_failed" => row[x] = "upload_failed"
    BY <1>1, <1>3, StatusIsWritten DEF Inv
  <2>6. torn' \subseteq Uploader
    BY <2>1 DEF Inv, TypeOK, OverwriteTemp
  <2>7. TypeOK'
    BY <2>3, <2>4, <2>5, <2>6 DEF Inv, TypeOK
  <2>8. RunsAreFresh' /\ RowsAreTrue'
    BY <2>4, <2>5 DEF Inv, TypeOK, Footage, RunsAreFresh, RowsAreTrue, Stored, Exists
  <2>9. UploadsHaveRows' /\ UploadsAreStored'
    <3>1. \A x \in Uploader : up'[x].pc \notin {"idle", "next"} => up[x].at \in Session
      BY <1>1, <2>3, UploadHasSession DEF Inv
    <3> QED
      BY <1>1, <2>3, <2>4, <2>5, <3>1
         DEF Inv, Footage, UploadsHaveRows, UploadsAreStored, Stored
  <2>10. ScannerKnows' /\ FootageIsKept'
    BY <2>4, <2>5 DEF Inv, TypeOK, Footage, ScannerKnows, FootageIsKept, Stored, Exists
  <2>11. TearsAreExcused'
    <3> SUFFICES ASSUME requests = 0 PROVE TearsAreExcused'
      BY <2>4 DEF TearsAreExcused
    <3>1. /\ w = "tick" /\ \A x \in Uploader \ {w} : up[x].pc = "idle" /\ x \notin torn
          /\ s \notin archived
          /\ w \in torn => Excused(s)
      BY <1>1, Constants DEF Inv, Wholeness, TearsAreExcused
    <3>2. ~(current = s /\ rec # "off")
      BY <1>1, <3>1, Constants DEF Inv, TypeOK, Wholeness, DueAreOld, RunsAreFresh
    <3>3. \A x \in Session : Excused(x) => Excused(x)'
      BY <2>4, <2>5, ExcusesStay
    <3>4. torn' \subseteq {w} /\ (torn' # {} => Excused(s))
      <4>1. ASSUME NEW x \in Uploader \ {w} PROVE up[x] # [pc |-> "encode", at |-> up[w].at]
        <5>1. up[x].pc # "encode"
          BY <3>1
        <5> QED
          BY <5>1
      <4>2. torn \subseteq {w}
        BY <3>1 DEF Inv, TypeOK
      <4>3. CASE OverwriteTemp(w)
        BY <3>1, <3>2, <4>1, <4>2, <4>3 DEF OverwriteTemp, Excused
      <4> QED
        BY <2>1, <3>1, <4>2, <4>3
    <3> QED
      BY <1>1, <2>3, <2>4, <3>1, <3>3, <3>4 DEF Inv, Wholeness, TearsAreExcused
  <2> QED
    BY <2>3, <2>7, <2>8, <2>9, <2>10, <2>11 DEF Inv, Footage, Wholeness
<1> QED
  BY <1>2, <1>3 DEF MarkProcessing

\* The file is in the bucket, whole when nothing spoilt it.
LEMMA UploadedKeeps == ASSUME Inv, NEW w \in Uploader, Uploaded(w) PROVE Inv'
<1> DEFINE s == up[w].at
<1>1. /\ up[w].pc = "encode" /\ s \in Session /\ GoesOn(w, "record")
      /\ UNCHANGED <<rows, disk, age, recorder, queue, attempts, todo, torn, orphans,
                     deletions, scanner, waived, faults, requests>>
  BY UploadHasSession DEF Inv, Uploaded, At, Goto, GoesOn, rows
<1>2. PICK f \in {"part", "whole"} :
        /\ bucket' = [bucket EXCEPT ![s] = f]
        /\ w \notin torn => f = "whole"
  BY DEF Uploaded
<1>3. /\ up' \in [Uploader -> [pc : UploadStep, at : Session \cup {NoSession}]]
      /\ \A x \in Uploader : up'[x].pc \notin {"idle", "next"} => up'[x].at # NoSession
      /\ \A x \in Uploader : up'[x].at = up[x].at
      /\ \A x \in Uploader : x # w => up'[x] = up[x]
      /\ up'[w].pc = "record" /\ DueAreOld'
  BY <1>1, GoesOnKeeps DEF UploadStep
<1>4. UNCHANGED <<row, ended, archived, disk, age, rec, current, queue, attempts, todo,
                  torn, orphans, del, list, named, scan, pinned, waived, requests, faults>>
  BY <1>1 DEF rows, recorder, deletions, scanner
<1>5. /\ bucket' \in [Session -> {"none", "part", "whole"}]
      /\ \A x \in Session : bucket[x] # "none" => bucket'[x] # "none"
      /\ bucket'[s] # "none"
      /\ \A x \in Session :
           bucket'[x] = "part" => bucket[x] = "part" \/ (x = s /\ w \in torn)
  BY <1>1, <1>2 DEF Inv, TypeOK
<1>6. TypeOK'
  BY <1>3, <1>4, <1>5 DEF Inv, TypeOK
<1>7. Footage'
  <2>1. RunsAreFresh' /\ RowsAreTrue' /\ ScannerKnows' /\ FootageIsKept'
    BY <1>4, <1>5 DEF Inv, TypeOK, Footage, RunsAreFresh, RowsAreTrue, ScannerKnows,
         FootageIsKept, Stored, Exists
  <2>2. \A x \in Uploader : up'[x].pc \notin {"idle", "next"} => up[x].at \in Session
    BY <1>1, <1>3, UploadHasSession DEF Inv
  <2>3. UploadsHaveRows'
    BY <1>1, <1>3, <1>4, <2>2 DEF Inv, Footage, UploadsHaveRows
  <2>4. UploadsAreStored'
    BY <1>1, <1>3, <1>4, <1>5, <2>2 DEF Inv, Footage, UploadsAreStored, Stored
  <2> QED
    BY <2>1, <2>3, <2>4 DEF Footage
<1>8. TearsAreExcused'
  BY <1>1, <1>3, <1>4, <1>5, Constants DEF Inv, TypeOK, Wholeness, TearsAreExcused, Excused
<1> QED
  BY <1>3, <1>6, <1>7, <1>8 DEF Inv, Footage, Wholeness

\* A failure of the upload: counted, with the last one terminal, or not counted.
LEMMA UploadFailsKeeps == ASSUME Inv, NEW w \in Uploader, UploadFails(w) PROVE Inv'
<1> DEFINE s == up[w].at
<1>1. /\ up[w].pc \in {"encode", "fail"} /\ s \in Session
      /\ UNCHANGED <<ended, archived, files, recorder, todo, orphans, deletions, scanner,
                     requests>>
  BY UploadHasSession DEF Inv, UploadFails, At
<1>2. OneMore(s) \in [Session -> 0..Attempts]
  <2>1. CASE attempts[s] < Attempts
    <3>1. attempts[s] + 1 \in 0..Attempts
      BY <1>1, <2>1, Constants DEF Inv, TypeOK
    <3> QED
      BY <2>1, <3>1, AttemptsAreCounts DEF OneMore
  <2>2. CASE ~(attempts[s] < Attempts)
    BY <2>2, AttemptsAreCounts DEF OneMore
  <2> QED
    BY <2>1, <2>2
<1>3. CASE Fault /\ Returns(w, "later", OneMore(s)) /\ UNCHANGED <<row, waived>>
  BY <1>1, <1>2, <1>3, FaultReturnKeeps DEF rows
<1>4. CASE CountFailure(w) /\ UNCHANGED faults
  <2>1. PICK status \in {"completed", "upload_failed"}, entry \in {"out", "later"} :
          /\ SetStatus(s, status)
          /\ waived' = IF status = "upload_failed" THEN waived \cup {s} ELSE waived
          /\ Returns(w, entry, OneMore(s))
    <3>1. CASE OneMore(s)[s] >= Attempts
      BY <1>4, <3>1 DEF CountFailure
    <3>2. CASE ~(OneMore(s)[s] >= Attempts)
      BY <1>4, <3>2 DEF CountFailure
    <3> QED
      BY <3>1, <3>2
  <2>2. Returned(w)
    <3>1. /\ row' \in [Session -> Status]
          /\ \A x \in Session :
               /\ row'[x] = "none" <=> row[x] = "none"
               /\ row'[x] = "deleted" <=> row[x] = "deleted"
               /\ row'[x] = "upload_failed" =>
                    row[x] = "upload_failed" \/ (x = s /\ status = "upload_failed")
      BY <1>1, <2>1, StatusIsWritten DEF Inv
    <3> QED
      BY <1>1, <1>4, <2>1, <3>1 DEF Inv, TypeOK, Returned, files
  <2> QED
    BY <1>1, <1>2, <2>1, <2>2, ReturnKeeps DEF Returns
<1> QED
  BY <1>3, <1>4 DEF UploadFails

\* The row names the file that is there.
LEMMA RecordUploadKeeps == ASSUME Inv, NEW w \in Uploader, RecordUpload(w) PROVE Inv'
<1> DEFINE s == up[w].at
<1>1. /\ up[w].pc = "record" /\ s \in Session
      /\ UNCHANGED <<ended, files, recorder, todo, orphans, deletions, scanner, waived,
                     requests>>
  BY UploadHasSession DEF Inv, RecordUpload, At
<1>2. CASE Fault /\ Returns(w, "later", attempts) /\ UNCHANGED <<row, archived>>
  BY <1>1, <1>2, AttemptsAreCounts, FaultReturnKeeps DEF rows
<1>3. CASE /\ SetStatus(s, "uploaded")
           /\ archived' = IF Exists(s) THEN archived \cup {s} ELSE archived
           /\ Goto(w, "clean")
           /\ UNCHANGED <<queue, attempts, torn, faults>>
  <2>1. GoesOn(w, "clean")
    BY <1>1, <1>3 DEF GoesOn, Goto, files
  <2>2. /\ up' \in [Uploader -> [pc : UploadStep, at : Session \cup {NoSession}]]
        /\ \A x \in Uploader : up'[x].pc \notin {"idle", "next"} => up'[x].at # NoSession
        /\ \A x \in Uploader : up'[x].at = up[x].at
        /\ \A x \in Uploader : x # w => up'[x] = up[x]
        /\ up'[w].pc = "clean" /\ DueAreOld'
    BY <1>1, <2>1, GoesOnKeeps DEF UploadStep
  <2>3. UNCHANGED <<ended, disk, bucket, age, rec, current, queue, attempts, todo, torn,
                    orphans, del, list, named, scan, pinned, waived, requests, faults>>
    BY <1>1, <1>3 DEF files, recorder, deletions, scanner
  <2>4. /\ row' \in [Session -> Status]
        /\ \A x \in Session :
             /\ row'[x] = "none" <=> row[x] = "none"
             /\ row'[x] = "deleted" <=> row[x] = "deleted"
             /\ row'[x] = "upload_failed" => row[x] = "upload_failed"
    BY <1>1, <1>3, StatusIsWritten DEF Inv
  <2>5. /\ archived \subseteq archived' /\ archived' \subseteq archived \cup {s}
        /\ s \in archived' \ archived => Exists(s)
        /\ Stored(s)
    BY <1>1, <1>3 DEF Inv, Footage, UploadsAreStored
  <2>6. TypeOK'
    BY <1>1, <2>2, <2>3, <2>4, <2>5 DEF Inv, TypeOK
  <2>7. RunsAreFresh' /\ RowsAreTrue'
    BY <2>3, <2>4, <2>5 DEF Inv, TypeOK, Footage, RunsAreFresh, RowsAreTrue, Stored, Exists
  <2>8. UploadsHaveRows' /\ UploadsAreStored'
    <3>1. \A x \in Uploader : up'[x].pc \notin {"idle", "next"} => up[x].at \in Session
      BY <1>1, <2>2, UploadHasSession DEF Inv
    <3> QED
      BY <1>1, <2>2, <2>3, <2>4, <3>1 DEF Inv, Footage, UploadsHaveRows, UploadsAreStored, Stored
  <2>9. ScannerKnows' /\ FootageIsKept'
    BY <2>3, <2>4, <2>5 DEF Inv, TypeOK, Footage, ScannerKnows, FootageIsKept, Exists
  <2>10. TearsAreExcused'
    <3>1. \A x \in Session : Excused(x) => Excused(x)'
      BY <2>3, <2>4, ExcusesStay
    <3> QED
      BY <1>1, <2>2, <2>3, <3>1, Constants DEF Inv, TypeOK, Wholeness, TearsAreExcused
  <2> QED
    BY <2>2, <2>6, <2>7, <2>8, <2>9, <2>10 DEF Inv, Footage, Wholeness
<1> QED
  BY <1>2, <1>3 DEF RecordUpload

\* The directory goes when the file is there.
LEMMA CleanLocalFilesKeeps == ASSUME Inv, NEW w \in Uploader, CleanLocalFiles(w) PROVE Inv'
<1> DEFINE s == up[w].at
<1>1. /\ up[w].pc = "clean" /\ s \in Session /\ disk' = disk \ {s}
      /\ ReturnsWithout(w, {s}, "out", [attempts EXCEPT ![s] = 0])
      /\ UNCHANGED <<rows, bucket, age, recorder, todo, orphans, deletions, scanner, waived,
                     faults, requests>>
  BY UploadHasSession DEF Inv, CleanLocalFiles, At
<1>2. [attempts EXCEPT ![s] = 0] \in [Session -> 0..Attempts]
  <2>1. 0 \in 0..Attempts /\ attempts \in [Session -> 0..Attempts]
    BY Constants DEF Inv, TypeOK
  <2> QED
    BY <2>1
<1>3. Returned(w)
  BY <1>1 DEF Inv, TypeOK, Returned, rows
<1> QED
  BY <1>1, <1>2, <1>3, ReturnKeeps

\* The directory is gone, and the code gives the footage up.
LEMMA GiveUpKeeps == ASSUME Inv, NEW w \in Uploader, GiveUp(w) PROVE Inv'
<1> DEFINE s == up[w].at
<1>1. /\ up[w].pc = "giveUp" /\ s \in Session
      /\ UNCHANGED <<ended, archived, files, recorder, todo, orphans, deletions, scanner,
                     requests>>
  BY UploadHasSession DEF Inv, GiveUp, At
<1>2. CASE Fault /\ Returns(w, "later", attempts) /\ UNCHANGED <<row, waived>>
  BY <1>1, <1>2, AttemptsAreCounts, FaultReturnKeeps DEF rows
<1>3. CASE /\ SetStatus(s, "upload_failed") /\ waived' = waived \cup {s}
           /\ Returns(w, "out", attempts) /\ UNCHANGED faults
  <2>1. /\ row' \in [Session -> Status]
        /\ \A x \in Session :
             /\ row'[x] = "none" <=> row[x] = "none"
             /\ row'[x] = "deleted" <=> row[x] = "deleted"
             /\ row'[x] = "upload_failed" => row[x] = "upload_failed" \/ x = s
    BY <1>1, <1>3, StatusIsWritten DEF Inv
  <2>2. Returned(w)
    BY <1>1, <1>3, <2>1 DEF Inv, TypeOK, Returned, files
  <2> QED
    BY <1>1, <1>3, <2>2, AttemptsAreCounts, ReturnKeeps DEF Returns
<1> QED
  BY <1>2, <1>3 DEF GiveUp

-----------------------------------------------------------------------------
(* The scanner and the deletions *)

LEMMA ListPendingKeeps == ASSUME Inv, ListPending PROVE Inv'
<1>1. TypeOK'
  BY SessionAssumption, Constants, FaultIsCounted DEF Inv, TypeOK, Status, ListPending,
     rows, files, recorder, uploads, deletions, scanner
<1>2. Footage'
  BY Constants DEF Inv, TypeOK, Footage, RunsAreFresh, UploadsHaveRows, UploadsAreStored,
     RowsAreTrue, ScannerKnows, FootageIsKept, Stored, Exists, ListPending, rows, files,
     recorder, uploads, deletions, scanner
<1>3. Wholeness'
  BY Constants DEF Inv, TypeOK, Wholeness, RunsAreFresh, DueAreOld,
     TearsAreExcused, Excused, ListPending, rows, files, recorder,
     uploads, deletions, scanner
<1> QED
  BY <1>1, <1>2, <1>3 DEF Inv

\* A directory that goes under an encoder leaves an excuse: it was given up, or the
\* row of the session was deleted.
LEMMA ScanDiskKeeps == ASSUME Inv, ScanDisk PROVE Inv'
<1> DEFINE old == {s \in Session : Reclaimable(s)}
<1>1. PICK v \in BudgetVictims(disk \ old) :
        /\ disk' = (disk \ old) \ v
        /\ torn' = torn \cup Reading(old \cup v)
        /\ waived' = waived \cup v \cup (old \cap pinned)
  BY DEF ScanDisk
<1>2. /\ scan = "listed" /\ scan' = "idle" /\ pinned' = {}
      /\ UNCHANGED <<row, ended, archived, bucket, age, rec, current, queue, attempts, todo, up,
                     orphans, del, list, named, faults, requests>>
  BY DEF ScanDisk, rows, recorder, deletions
<1>3. v \subseteq disk \ old /\ current \notin v \cup old
  BY <1>1 DEF BudgetVictims, Reclaimable
<1>4. \A s \in old : s \in pinned \/ ~Exists(s) \/ s \in archived \/ s \in waived
  BY <1>2 DEF Inv, Footage, ScannerKnows, Reclaimable
<1>5. TypeOK'
  <2>1. disk' \subseteq Session /\ waived' \subseteq Session /\ torn' \subseteq Uploader
    BY <1>1, <1>3 DEF Inv, TypeOK, Reading
  <2> QED
    BY <1>2, <2>1 DEF Inv, TypeOK
<1>6. Footage'
  BY <1>1, <1>2, <1>3, <1>4 DEF Inv, TypeOK, Footage, RunsAreFresh, UploadsHaveRows,
     UploadsAreStored, RowsAreTrue, ScannerKnows, FootageIsKept, Stored, Exists
<1>7. Wholeness'
  <2>1. RunsAreFresh' /\ DueAreOld'
    BY <1>2, <1>6 DEF Inv, Footage, Wholeness, DueAreOld
  <2>2. ASSUME requests = 0 PROVE TearsAreExcused'
    <3>1. \A s \in Session : Excused(s) => Excused(s)'
      BY <1>1, <1>2, ExcusesStay
    <3>2. ASSUME NEW w \in Reading(old \cup v)
          PROVE  /\ w = "tick" /\ up[w].pc = "encode"
                 /\ up[w].at \in waived' \cup orphans \/ row[up[w].at] = "deleted"
      <4>1. w = "tick" /\ up[w].pc = "encode" /\ up[w].at \notin archived
        BY <2>2, <3>2 DEF Inv, Wholeness, TearsAreExcused, Reading, At
      <4>2. up[w].at \in old \cup v /\ row[up[w].at] # "none"
        BY <3>2, <4>1, Constants DEF Inv, Footage, UploadsHaveRows, Reading
      <4>3. CASE up[w].at \in v \/ up[w].at \in pinned \cup waived
        BY <1>1, <4>1, <4>2, <4>3
      <4>4. CASE ~Exists(up[w].at)
        BY <4>1, <4>2, <4>4 DEF Exists
      <4> QED
        BY <1>4, <4>1, <4>2, <4>3, <4>4
    <3> QED
      BY <1>1, <1>2, <2>2, <3>1, <3>2, Constants
         DEF Inv, TypeOK, Wholeness, TearsAreExcused, Excused
  <2>3. requests # 0 => TearsAreExcused'
    BY <1>2 DEF TearsAreExcused
  <2> QED
    BY <2>1, <2>2, <2>3 DEF Wholeness
<1> QED
  BY <1>5, <1>6, <1>7 DEF Inv

LEMMA SelectExpiredKeeps == ASSUME Inv, SelectExpired PROVE Inv'
<1>1. TypeOK'
  BY SessionAssumption, Constants, FaultIsCounted DEF Inv, TypeOK, Status, SelectExpired,
     Expired, rows, files, recorder, uploads, deletions, scanner
<1>2. Footage'
  BY Constants DEF Inv, TypeOK, Footage, RunsAreFresh, UploadsHaveRows, UploadsAreStored,
     RowsAreTrue, ScannerKnows, FootageIsKept, Stored, Exists, SelectExpired, Expired,
     rows, files, recorder, uploads, deletions, scanner
<1>3. Wholeness'
  BY Constants DEF Inv, TypeOK, Wholeness, RunsAreFresh, DueAreOld,
     TearsAreExcused, Excused, SelectExpired, Expired, rows, files, recorder,
     uploads, deletions, scanner
<1> QED
  BY <1>1, <1>2, <1>3 DEF Inv

LEMMA CleanNextKeeps == ASSUME Inv, CleanNext PROVE Inv'
<1>1. TypeOK'
  BY SessionAssumption, Constants, FaultIsCounted, SMTT(30) DEF Inv, TypeOK, Status, CleanNext,
     Deletes, Resting, rows, files, recorder, uploads, deletions, scanner
<1>2. Footage'
  BY Constants DEF Inv, TypeOK, Footage, RunsAreFresh, UploadsHaveRows, UploadsAreStored,
     RowsAreTrue, ScannerKnows, FootageIsKept, Stored, Exists, CleanNext, Deletes, Resting,
     rows, files, recorder, uploads, deletions, scanner
<1>3. Wholeness'
  BY Constants DEF Inv, TypeOK, Wholeness, RunsAreFresh, DueAreOld,
     TearsAreExcused, Excused, CleanNext, Deletes, Resting, rows, files, recorder,
     uploads, deletions, scanner
<1> QED
  BY <1>1, <1>2, <1>3 DEF Inv

LEMMA AdminDeleteKeeps == ASSUME Inv, NEW s \in Session, AdminDelete(s) PROVE Inv'
<1>1. TypeOK'
  BY SessionAssumption, Constants, FaultIsCounted DEF Inv, TypeOK, Status, AdminDelete,
     Deletes, rows, files, recorder, uploads, deletions, scanner
<1>2. Footage'
  BY Constants DEF Inv, TypeOK, Footage, RunsAreFresh, UploadsHaveRows, UploadsAreStored,
     RowsAreTrue, ScannerKnows, FootageIsKept, Stored, Exists, AdminDelete, Deletes, rows,
     files, recorder, uploads, deletions, scanner
<1>3. Wholeness'
  BY Constants DEF Inv, TypeOK, Wholeness, RunsAreFresh, DueAreOld,
     TearsAreExcused, Excused, AdminDelete, Deletes, rows, files, recorder,
     uploads, deletions, scanner
<1> QED
  BY <1>1, <1>2, <1>3 DEF Inv

LEMMA DeleteFileKeeps == ASSUME Inv, NEW d \in Deleter, DeleteFile(d) PROVE Inv'
<1>1. TypeOK'
  <2>1. del[d].at \in Session /\ del' = [del EXCEPT ![d].pc = "row"]
    BY DEF Inv, TypeOK, DeleteFile
  <2>2. del' \in [Deleter -> [pc : {"idle", "next", "file", "row"},
                            at : Session \cup {NoSession}]]
    BY <2>1 DEF Inv, TypeOK
  <2>3. \A x \in Deleter : del'[x].pc \in {"file", "row"} => del'[x].at # NoSession
    BY <2>1, SessionAssumption DEF Inv, TypeOK
  <2>4. bucket' \in [Session -> {"none", "part", "whole"}] /\ faults' \in 0..MaxFaults
    BY <2>1, FaultIsCounted DEF Inv, TypeOK, DeleteFile
  <2> QED
    BY <2>1, <2>2, <2>3, <2>4 DEF Inv, TypeOK, DeleteFile, rows, recorder, uploads, scanner
<1>2. Footage'
  BY Constants, SMTT(30) DEF Inv, TypeOK, Footage, RunsAreFresh, UploadsHaveRows, UploadsAreStored,
     RowsAreTrue, ScannerKnows, FootageIsKept, Stored, Exists, DeleteFile, rows, files,
     recorder, uploads, deletions, scanner
<1>3. Wholeness'
  BY Constants DEF Inv, TypeOK, Wholeness, RunsAreFresh, DueAreOld,
     TearsAreExcused, Excused, DeleteFile, rows, files, recorder,
     uploads, deletions, scanner
<1> QED
  BY <1>1, <1>2, <1>3 DEF Inv

LEMMA DeleteRowKeeps == ASSUME Inv, NEW d \in Deleter, DeleteRow(d) PROVE Inv'
<1>1. TypeOK'
  BY SessionAssumption, Constants, FaultIsCounted DEF Inv, TypeOK, Status, DeleteRow,
     Resting, rows, files, recorder, uploads, deletions, scanner
<1> DEFINE x == del[d].at
<1>2. UNCHANGED <<disk, bucket, age, rec, current, queue, todo, up, torn, orphans,
                  scan, pinned, waived, requests>>
  BY DEF DeleteRow, files, recorder, uploads, scanner
<1>3. /\ x \in Session
      /\ \/ row' = row /\ row[x] \in {"none", "deleted"} /\ archived' = archived \ {x}
         \/ row' = [row EXCEPT ![x] = "deleted"] /\ row[x] # "none"
            /\ archived' = archived \ {x}
         \/ row' = row /\ archived' = archived
  BY DEF Inv, TypeOK, DeleteRow, rows, Exists
<1>4. /\ \A y \in Session : row'[y] # row[y] => row[y] # "none" /\ row'[y] = "deleted"
      /\ archived' \subseteq archived
      /\ \A y \in archived \ archived' : row'[y] \in {"none", "deleted"}
      /\ \A y \in archived' : row'[y] = row[y]
  BY <1>3 DEF Inv, TypeOK
<1>5. Footage'
  <2>1. RunsAreFresh' /\ UploadsHaveRows'
    BY <1>2, <1>4 DEF Inv, TypeOK, Footage, RunsAreFresh, UploadsHaveRows
  <2>2. UploadsAreStored' /\ RowsAreTrue'
    BY <1>2, <1>4 DEF Inv, TypeOK, Footage, UploadsAreStored, RowsAreTrue, Stored, Exists
  <2>3. ScannerKnows' /\ FootageIsKept'
    BY <1>2, <1>4 DEF Inv, TypeOK, Footage, ScannerKnows, FootageIsKept, Exists
  <2> QED
    BY <2>1, <2>2, <2>3 DEF Footage
<1>6. Wholeness'
  <2>1. RunsAreFresh'
    BY <1>5 DEF Footage
  <2>2. DueAreOld'
    BY <1>2 DEF Inv, Wholeness, DueAreOld
  <2>3. TearsAreExcused'
    <3>1. \A y \in Session : Excused(y) => Excused(y)'
      BY <1>2, <1>4, ExcusesStay
    <3> QED
      BY <1>2, <1>4, <3>1, UploadHasSession, Constants DEF Inv, Wholeness, TearsAreExcused
  <2> QED
    BY <2>1, <2>2, <2>3 DEF Wholeness
<1> QED
  BY <1>1, <1>5, <1>6 DEF Inv

-----------------------------------------------------------------------------
(* Time and crashes *)

LEMMA GrowOlderKeeps == ASSUME Inv, NEW s \in Session, GrowOlder(s) PROVE Inv'
<1>1. TypeOK'
  BY SessionAssumption, Constants, FaultIsCounted DEF Inv, TypeOK, Status, GrowOlder, rows,
     files, recorder, uploads, deletions, scanner
<1>2. Footage'
  BY Constants DEF Inv, TypeOK, Footage, RunsAreFresh, UploadsHaveRows, UploadsAreStored,
     RowsAreTrue, ScannerKnows, FootageIsKept, Stored, Exists, GrowOlder, rows, files,
     recorder, uploads, deletions, scanner
<1>3. Wholeness'
  BY Constants DEF Inv, TypeOK, Wholeness, RunsAreFresh, DueAreOld,
     TearsAreExcused, Excused, GrowOlder, rows, files, recorder,
     uploads, deletions, scanner
<1> QED
  BY <1>1, <1>2, <1>3 DEF Inv

LEMMA RestartKeeps == ASSUME Inv, Restart PROVE Inv'
<1>1. TypeOK'
  <2>1. /\ row' \in [Session -> Status]
        /\ queue' \in [Session -> {"out", "later", "due"}]
        /\ attempts' \in [Session -> 0..Attempts]
    BY Constants DEF Inv, TypeOK, Status, Restart, Migrated, LoadPending
  <2>2. /\ up' \in [Uploader -> [pc : UploadStep, at : Session \cup {NoSession}]]
        /\ \A w \in Uploader : up'[w].pc \notin {"idle", "next"} => up'[w].at # NoSession
        /\ del' \in [Deleter -> [pc : {"idle", "next", "file", "row"},
                                 at : Session \cup {NoSession}]]
        /\ \A d \in Deleter : del'[d].pc \in {"file", "row"} => del'[d].at # NoSession
    BY DEF Restart, Resting, UploadStep
  <2>3. orphans' \subseteq Session
    <3>1. \A w \in Uploader : At(w, "encode") => up[w].at \in Session
      BY UploadHasSession DEF Inv, At
    <3> QED
      BY <3>1 DEF Inv, TypeOK, Restart
  <2>4. faults' \in 0..MaxFaults
    BY FaultIsCounted DEF Inv, Restart
  <2> QED
    BY <2>1, <2>2, <2>3, <2>4 DEF Inv, TypeOK, Restart, files
<1>2. Footage'
  BY Constants DEF Inv, TypeOK, Footage, RunsAreFresh, UploadsHaveRows, UploadsAreStored,
     RowsAreTrue, ScannerKnows, FootageIsKept, Stored, Exists, Restart, Migrated,
     LoadPending, Resting, Recoverable, UploadStep, rows, files, recorder, uploads,
     deletions, scanner
<1>3. Wholeness'
  BY Constants DEF Inv, TypeOK, Wholeness, RunsAreFresh, DueAreOld,
     TearsAreExcused, Excused, Restart, Migrated, LoadPending, Resting, Recoverable, UploadStep, rows, files, recorder,
     uploads, deletions, scanner
<1> QED
  BY <1>1, <1>2, <1>3 DEF Inv

-----------------------------------------------------------------------------
(* The invariant *)

LEMMA InitInv == Init => Inv
<1> SUFFICES ASSUME Init PROVE Inv
  OBVIOUS
<1>1. TypeOK
  BY Constants DEF Init, TypeOK, Status, UploadStep, Resting
<1>2. Footage
  BY DEF Init, Footage, RunsAreFresh, UploadsHaveRows, UploadsAreStored, RowsAreTrue,
     ScannerKnows, FootageIsKept, Resting, Exists
<1>3. Wholeness
  BY Constants DEF Init, Wholeness, RunsAreFresh, DueAreOld, TearsAreExcused, Excused, Resting
<1> QED
  BY <1>1, <1>2, <1>3 DEF Inv

LEMMA UploadKeeps == ASSUME Inv, NEW w \in Uploader, UploadStepOf(w) PROVE Inv'
BY ReadRowKeeps, MarkProcessingKeeps, UploadedKeeps, UploadFailsKeeps, RecordUploadKeeps,
   CleanLocalFilesKeeps, GiveUpKeeps DEF UploadStepOf

LEMMA StutterKeeps == ASSUME Inv, UNCHANGED vars PROVE Inv'
<1>1. TypeOK'
  BY DEF Inv, TypeOK, vars, rows, files, recorder, uploads, deletions, scanner
<1>2. Footage'
  BY DEF Inv, Footage, RunsAreFresh, UploadsHaveRows, UploadsAreStored, RowsAreTrue,
     ScannerKnows, FootageIsKept, Stored, Exists, vars, rows, files, recorder, uploads,
     deletions, scanner
<1>3. Wholeness'
  BY DEF Inv, Wholeness, RunsAreFresh, DueAreOld,
     TearsAreExcused, Excused, vars, rows, files, recorder, uploads, deletions, scanner
<1> QED
  BY <1>1, <1>2, <1>3 DEF Inv

LEMMA NextInv == Inv /\ [Next]_vars => Inv'
<1> SUFFICES ASSUME Inv, [Next]_vars PROVE Inv'
  OBVIOUS
<1>1. ASSUME NEW s \in Session,
             \/ StartRecording(s) \/ ForceUpload(s) \/ AdminDelete(s)
             \/ ComesDue(s) \/ GrowOlder(s)
      PROVE  Inv'
  BY <1>1, StartRecordingKeeps, ForceUploadKeeps, AdminDeleteKeeps, ComesDueKeeps,
     GrowOlderKeeps
<1>2. CASE StopRecording \/ AbandonRun \/ Recorder
  BY <1>2, StopRecordingKeeps, AbandonRunKeeps, EgressRefusedKeeps, InsertRowKeeps,
     StopFailsKeeps, WriteEndKeeps, MarkCompletedKeeps DEF Recorder
<1>3. CASE Tick \/ Scanner \/ Cleaner
  BY <1>3, TickStartKeeps, TickNextKeeps, ListPendingKeeps, ScanDiskKeeps, SelectExpiredKeeps,
     CleanNextKeeps DEF Tick, Scanner, Cleaner
<1>4. ASSUME NEW w \in Uploader, UploadStepOf(w) PROVE Inv'
  BY <1>4, UploadKeeps
<1>5. ASSUME NEW d \in Deleter, DeleteStep(d) PROVE Inv'
  BY <1>5, DeleteFileKeeps, DeleteRowKeeps DEF DeleteStep
<1>6. CASE Restart
  BY <1>6, RestartKeeps
<1>7. CASE UNCHANGED vars
  BY <1>7, StutterKeeps
<1> QED
  BY <1>1, <1>2, <1>3, <1>4, <1>5, <1>6, <1>7 DEF Next

LEMMA SpecInv == Spec => []Inv
BY InitInv, NextInv, PTL DEF Spec

-----------------------------------------------------------------------------
(* The theorems *)

\* Every reachable state of the recorder, the schedulers and the routes of the
\* admin is well typed, whatever fails and wherever the process crashes.
THEOREM ArchiveTypeCorrect == Spec => []TypeOK
<1>1. Inv => TypeOK
  BY DEF Inv
<1> QED
  BY <1>1, SpecInv, PTL

\* No order of uploads, scans, deletions, failures and crashes loses footage that
\* the code has not given up.
THEOREM NoFootageIsLost == Spec => []FootageIsKept
<1>1. Inv => FootageIsKept
  BY DEF Inv, Footage
<1> QED
  BY <1>1, SpecInv, PTL

\* Without a forced upload an archive misses a part of its run only if the code had
\* given the session up, or an encoder of a crashed server was still at its file.
THEOREM SchedulerUploadsWholeRuns == Spec => []ScheduledArchivesAreWhole
<1>1. Inv => ScheduledArchivesAreWhole
  <2> SUFFICES ASSUME Inv, NEW s \in Session, s \in archived, bucket[s] = "part",
                      requests = 0
               PROVE  s \in waived \cup orphans
    BY Constants DEF Inv, TypeOK, ScheduledArchivesAreWhole
  <2>1. Excused(s)
    BY DEF Inv, Wholeness, TearsAreExcused
  <2>2. row[s] # "deleted"
    BY DEF Inv, Footage, RowsAreTrue, Exists
  <2> QED
    BY <2>1, <2>2 DEF Excused
<1> QED
  BY <1>1, SpecInv, PTL

=============================================================================
