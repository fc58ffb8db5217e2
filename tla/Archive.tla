------------------------------ MODULE Archive -------------------------------
(***************************************************************************)
(* From the recorder to the bucket, and away again.                        *)
(*                                                                         *)
(* A run of the recorder leaves a directory of segments and a row in       *)
(* recording_sessions.  RecordingUploadScheduler turns the directory into  *)
(* one file in Backblaze B2, writes b2_file_id into the row and removes    *)
(* the directory; RecordingDiskScanner removes old directories; and        *)
(* RecordingCleanupScheduler and the admin route delete sessions.  They    *)
(* share rows, directories and the bucket and no lock, and interleave at   *)
(* every await.  An action is the code from one await to the next; a query *)
(* takes effect in the step in which its caller goes on.                   *)
(*                                                                         *)
(* Time is an age per session, advanced by GrowOlder.  One auto-record     *)
(* poll is at work at a time, as checkAndAutoRecord ends within its 5 s.   *)
(***************************************************************************)
EXTENDS Naturals

CONSTANTS
  Session,       \* ids of runs, recording_<date>_<epoch>
  NoSession,     \* null
  Uploader,      \* "tick", processPendingUploads, and "force", the admin route
  Deleter,       \* "cleaner", runCleanup, and "admin", the admin route
  Attempts,      \* maxUploadAttempts
  Rolling,       \* the age at which a directory leaves the clip window, 10 min
  Buffer,        \* localBufferHours, 2 h
  Grace,         \* pendingUploadMaxAgeMs, 26 h
  Retention,     \* retention_days
  Overdue,       \* retention_days and retryWindowMs
  MaxRequests,   \* bound on the requests of the admin
  MaxFaults      \* bound on database, LiveKit and B2 deletion errors and crashes

ASSUME SessionAssumption == NoSession \notin Session
ASSUME ActorAssumption ==
  /\ {"tick"} \subseteq Uploader /\ Uploader \subseteq {"tick", "force"}
  /\ {"cleaner"} \subseteq Deleter /\ Deleter \subseteq {"cleaner", "admin"}
ASSUME AgeAssumption ==
  /\ {Rolling, Buffer, Grace, Retention, Overdue} \subseteq Nat \ {0}
  /\ Rolling <= Grace
  /\ Buffer <= Grace
  /\ Grace <= Overdue
  /\ Retention <= Overdue
ASSUME BoundAssumption ==
  /\ Attempts \in Nat \ {0}
  /\ {MaxRequests, MaxFaults} \subseteq Nat


VARIABLES
  row,       \* recording_sessions.status; "none" before, "deleted" after the row
  ended,     \* sessions whose row has an end_time
  archived,  \* sessions whose row has a b2_file_id
  disk,      \* sessions with a directory
  bucket,    \* the file in B2
  age,       \* since the newest segment, in the classes of the constants
  rec,       \* where the recorder is
  current,   \* ContinuousRecordingService.currentSessionId
  queue,     \* uploadQueue: out, or waiting for its time, or due
  attempts,
  todo,      \* due entries the tick has not come to
  up, torn,  \* where each upload is, and those whose file may miss a part
  orphans,   \* sessions whose ffmpeg a crash of the server has left behind
  del, list, named,  \* where each deletion is, and the rows runCleanup selected
  scan, pinned,      \* the disk scanner and the pending sessions it read
  waived,    \* history: sessions whose footage the code has given up
  requests, faults

rows == <<row, ended, archived>>
files == <<disk, bucket, age>>
recorder == <<rec, current>>
uploads == <<queue, attempts, todo, up, torn, orphans>>
deletions == <<del, list, named>>
scanner == <<scan, pinned>>
vars == <<rows, files, recorder, uploads, deletions, scanner, waived, requests, faults>>

Status == {"none", "recording", "completed", "processing", "uploaded",
           "upload_failed", "deleted"}
UploadStep == {"idle", "next", "read", "giveUp", "mark", "encode", "fail", "record", "clean"}

TypeOK ==
  /\ row \in [Session -> Status]
  /\ ended \subseteq Session
  /\ archived \subseteq Session
  /\ disk \subseteq Session
  /\ bucket \in [Session -> {"none", "part", "whole"}]
  /\ age \in [Session -> 0..Overdue]
  /\ rec \in {"off", "starting", "on", "stopping", "marking"}
  /\ current \in Session \cup {NoSession}
  /\ rec # "off" => current # NoSession
  /\ queue \in [Session -> {"out", "later", "due"}]
  /\ attempts \in [Session -> 0..Attempts]
  /\ todo \subseteq Session
  /\ up \in [Uploader -> [pc : UploadStep, at : Session \cup {NoSession}]]
  /\ \A w \in Uploader : up[w].pc \notin {"idle", "next"} => up[w].at # NoSession
  /\ torn \subseteq Uploader
  /\ orphans \subseteq Session
  /\ del \in [Deleter -> [pc : {"idle", "next", "file", "row"},
                          at : Session \cup {NoSession}]]
  /\ \A d \in Deleter : del[d].pc \in {"file", "row"} => del[d].at # NoSession
  /\ list \subseteq Session
  /\ named \subseteq Session
  /\ scan \in {"idle", "listed"}
  /\ pinned \subseteq Session
  /\ waived \subseteq Session
  /\ requests \in 0..MaxRequests
  /\ faults \in 0..MaxFaults

Resting == [pc |-> "idle", at |-> NoSession]

Init ==
  /\ row = [s \in Session |-> "none"]
  /\ ended = {} /\ archived = {} /\ disk = {}
  /\ bucket = [s \in Session |-> "none"]
  /\ age = [s \in Session |-> 0]
  /\ rec = "off" /\ current = NoSession
  /\ queue = [s \in Session |-> "out"]
  /\ attempts = [s \in Session |-> 0]
  /\ todo = {}
  /\ up = [w \in Uploader |-> Resting]
  /\ torn = {} /\ orphans = {}
  /\ del = [d \in Deleter |-> Resting]
  /\ list = {} /\ named = {}
  /\ scan = "idle" /\ pinned = {}
  /\ waived = {}
  /\ requests = 0 /\ faults = 0

Exists(s) == row[s] \notin {"none", "deleted"}

\* One of a bounded number of errors happens.
Fault == faults < MaxFaults /\ faults' = faults + 1

\* UPDATE recording_sessions SET status: nothing when the row is gone.
SetStatus(s, status) == row' = IF Exists(s) THEN [row EXCEPT ![s] = status] ELSE row

-----------------------------------------------------------------------------
(* The recorder: startRecording and stopRecording.                          *)

\* Mutant: the retired model, a session id per day.
StartRecordingPerDay(s) ==
  /\ rec = "off"
  /\ rec' = "starting" /\ current' = s
  /\ disk' = disk \cup {s}
  /\ UNCHANGED <<rows, bucket, age, uploads, deletions, scanner, waived,
                 faults, requests>>

\* A run gets an id and a directory of its own, and asks LiveKit for an egress.
StartRecording(s) ==
  /\ rec = "off"
  /\ row[s] = "none" /\ s \notin disk /\ age[s] = 0
  /\ rec' = "starting" /\ current' = s
  /\ disk' = disk \cup {s}
  /\ UNCHANGED <<rows, bucket, age, uploads, deletions, scanner, waived,
                 faults, requests>>

\* The refusal is caught; the id stays the current one until the next start.
EgressRefused ==
  /\ rec = "starting"
  /\ Fault
  /\ rec' = "off"
  /\ UNCHANGED <<rows, files, current, uploads, deletions, scanner, waived,
                 requests>>

\* The egress is there, and createSessionRecord writes the row; its error is
\* caught and the run goes on without one.
InsertRow ==
  /\ rec = "starting"
  /\ rec' = "on"
  /\ \/ /\ row' = [row EXCEPT ![current] = "recording"]
        /\ UNCHANGED faults
     \/ Fault /\ UNCHANGED row
  /\ UNCHANGED <<ended, archived, files, current, uploads, deletions, scanner,
                 waived, requests>>

\* startRecording while a run is on: its egress is over or records another
\* target, and the run is forgotten before the next one starts.
AbandonRun ==
  /\ rec = "on"
  /\ rec' = "off" /\ current' = NoSession
  /\ UNCHANGED <<rows, files, uploads, deletions, scanner, waived, faults, requests>>

StopRecording ==
  /\ rec = "on"
  /\ rec' = "stopping"
  /\ UNCHANGED <<rows, files, current, uploads, deletions, scanner, waived,
                 faults, requests>>

\* stopEgress throws: the recorder forgets the egress, and the row is never ended.
StopFails ==
  /\ rec = "stopping"
  /\ Fault
  /\ rec' = "off"
  /\ UNCHANGED <<rows, files, current, uploads, deletions, scanner, waived,
                 requests>>

\* The recording-stopped event schedules the upload, end_time and buffer from now.
Stopped ==
  /\ rec' = "off" /\ current' = NoSession
  /\ queue' = [queue EXCEPT ![current] = "later"]
  /\ UNCHANGED <<attempts, todo, up, torn, orphans, requests>>

\* The egress has stopped; updateSessionEnd.
WriteEnd ==
  /\ rec = "stopping"
  /\ \/ /\ ended' = IF Exists(current) THEN ended \cup {current} ELSE ended
        /\ rec' = "marking"
        /\ UNCHANGED <<current, uploads, faults>>
     \/ Fault /\ Stopped /\ UNCHANGED ended
  /\ UNCHANGED <<row, archived, files, deletions, scanner, waived, requests>>

\* markSessionCompleted, which never takes a row back from the upload.
MarkCompleted ==
  /\ rec = "marking"
  /\ \/ /\ row' = IF row[current] = "recording"
                    THEN [row EXCEPT ![current] = "completed"] ELSE row
        /\ UNCHANGED faults
     \/ Fault /\ UNCHANGED row
  /\ Stopped
  /\ UNCHANGED <<ended, archived, files, deletions, scanner, waived, requests>>

-----------------------------------------------------------------------------
(* RecordingUploadScheduler.                                                *)

\* A finished recording without a confirmed archive.
Recoverable(s, status) ==
  /\ status[s] \notin {"none", "deleted", "uploaded", "upload_failed"}
  /\ s \in ended
  /\ s \notin archived

\* loadPendingUploads adds to the queue and never touches an entry of it.
LoadPending(q, status) ==
  [s \in Session |->
     CASE q[s] # "out" \/ ~Recoverable(s, status) -> q[s]
       [] age[s] >= Buffer -> "due"
       [] OTHER -> "later"]

\* The buffer of a new entry, or the backoff of a failed one, is over.
ComesDue(s) ==
  /\ queue[s] = "later" /\ age[s] >= Buffer
  /\ queue' = [queue EXCEPT ![s] = "due"]
  /\ UNCHANGED <<rows, files, recorder, attempts, todo, up, torn, orphans, deletions,
                 scanner, waived, faults, requests>>

At(w, pc) == up[w].pc = pc
Goto(w, pc) == up' = [up EXCEPT ![w].pc = pc]

\* processPendingUploads, under the isProcessing latch, loads what is pending and
\* goes over what is due by then.
TickStart ==
  /\ At("tick", "idle")
  /\ \/ queue' = LoadPending(queue, row) /\ UNCHANGED faults
     \/ Fault /\ UNCHANGED queue
  /\ todo' = {s \in Session : queue'[s] = "due"}
  /\ Goto("tick", "next")
  /\ UNCHANGED <<rows, files, recorder, attempts, torn, orphans, deletions, scanner,
                 waived, requests>>

\* Mutant: the latch stays when the last entry is done.
TickNextLatched ==
  /\ At("tick", "next")
  /\ \E s \in todo :
       /\ todo' = todo \ {s}
       /\ up' = [up EXCEPT !["tick"] = [pc |-> "read", at |-> s]]
  /\ UNCHANGED <<rows, files, recorder, queue, attempts, torn, orphans, deletions, scanner,
                 waived, faults, requests>>

TickNext ==
  /\ At("tick", "next")
  /\ \/ \E s \in todo :
          /\ todo' = todo \ {s}
          /\ up' = [up EXCEPT !["tick"] = [pc |-> "read", at |-> s]]
     \/ todo = {} /\ up' = [up EXCEPT !["tick"] = Resting] /\ UNCHANGED todo
  /\ UNCHANGED <<rows, files, recorder, queue, attempts, torn, orphans, deletions, scanner,
                 waived, faults, requests>>

\* forceUpload takes no latch.
ForceUpload(s) ==
  /\ "force" \in Uploader
  /\ At("force", "idle")
  /\ Exists(s)
  /\ requests < MaxRequests /\ requests' = requests + 1
  /\ up' = [up EXCEPT !["force"] = [pc |-> "read", at |-> s]]
  /\ UNCHANGED <<rows, files, recorder, queue, attempts, todo, torn, orphans, deletions,
                 scanner, waived, faults>>

\* The uploads whose ffmpeg may lose segments, or whose file may be overwritten,
\* when the directories gone are removed: ffmpeg stops at a segment that is not
\* there and exits with 0 all the same.
Reading(gone) == {w \in Uploader : At(w, "encode") /\ up[w].at \in gone}

\* uploadSession returns, with its count of failures and after it removed the
\* directories gone; the tick then settles the entry of the queue.
ReturnsWithout(w, gone, entry, count) ==
  LET s == up[w].at IN
  /\ torn' = (torn \cup Reading(gone)) \ {w}
  /\ IF w = "tick"
       THEN /\ up' = [up EXCEPT ![w] = [pc |-> "next", at |-> NoSession]]
            /\ queue' = [queue EXCEPT ![s] = entry]
            /\ attempts' = IF entry = "out" THEN [count EXCEPT ![s] = 0] ELSE count
       ELSE up' = [up EXCEPT ![w] = Resting] /\ attempts' = count /\ UNCHANGED queue

Returns(w, entry, count) == ReturnsWithout(w, {}, entry, count)

\* The row is read, then the directory is looked for.
ReadRow(w) ==
  LET s == up[w].at IN
  /\ At(w, "read")
  /\ \/ ~Exists(s) /\ Returns(w, "later", attempts) /\ UNCHANGED faults
     \/ Exists(s) /\ s \in archived /\ Returns(w, "out", attempts) /\ UNCHANGED faults
     \/ /\ Exists(s) /\ s \notin archived
        /\ Goto(w, IF s \in disk THEN "mark" ELSE "giveUp")
        /\ UNCHANGED <<queue, attempts, torn, faults>>
     \/ Fault /\ Returns(w, "later", attempts)
  /\ UNCHANGED <<rows, files, recorder, todo, orphans, deletions, scanner, waived, requests>>

\* Mutant: one attempt too many before the last one.
CountFailureLate(w) ==
  LET s == up[w].at
      n == attempts[s] + 1
      last == n > Attempts
  IN /\ SetStatus(s, IF last THEN "upload_failed" ELSE "completed")
     /\ waived' = IF last THEN waived \cup {s} ELSE waived
     /\ Returns(w, IF last THEN "out" ELSE "later", [attempts EXCEPT ![s] = n])

\* The attempts with one failure more.
OneMore(s) ==
  IF attempts[s] < Attempts THEN [attempts EXCEPT ![s] = @ + 1] ELSE attempts

\* One transient failure more: the status is reverted for another attempt, or
\* becomes terminal with the last one.
CountFailure(w) ==
  LET s == up[w].at
      last == OneMore(s)[s] >= Attempts
  IN /\ SetStatus(s, IF last THEN "upload_failed" ELSE "completed")
     /\ waived' = IF last THEN waived \cup {s} ELSE waived
     /\ Returns(w, IF last THEN "out" ELSE "later", OneMore(s))

\* ffmpeg -y writes the one temp file of the session, which spoils any other
\* upload of it; an ffmpeg that survived a crash may write it too; and a run that
\* is still on has more to come.
OverwriteTemp(w) ==
  LET others == {x \in Uploader \ {w} : up[x] = [pc |-> "encode", at |-> up[w].at]}
      spoilt == \/ others # {} \/ up[w].at \in orphans
                \/ current = up[w].at /\ rec # "off"
  IN torn' = torn \cup others \cup (IF spoilt THEN {w} ELSE {})

\* The status is written, then the segments are listed and ffmpeg starts; by
\* then the directory may be gone.
MarkProcessing(w) ==
  /\ At(w, "mark")
  /\ \/ /\ SetStatus(up[w].at, "processing")
        /\ \/ up[w].at \in disk /\ Goto(w, "encode") /\ OverwriteTemp(w)
           \/ up[w].at \notin disk /\ Goto(w, "fail") /\ UNCHANGED torn
        /\ UNCHANGED <<queue, attempts, faults>>
     \/ Fault /\ Returns(w, "later", attempts) /\ UNCHANGED row
  /\ UNCHANGED <<ended, archived, files, recorder, todo, orphans, deletions, scanner,
                 waived, requests>>

\* The bucket holds one file per session: a second upload replaces it.
Uploaded(w) ==
  /\ At(w, "encode")
  /\ \E f \in IF w \in torn THEN {"part", "whole"} ELSE {"whole"} :
       bucket' = [bucket EXCEPT ![up[w].at] = f]
  /\ Goto(w, "record")
  /\ UNCHANGED <<rows, disk, age, recorder, queue, attempts, todo, torn, orphans, deletions,
                 scanner, waived, faults, requests>>

\* No segments, or ffmpeg or B2 fails or takes too long; as often as it likes.
\* The failure is counted before the outcome is written.
UploadFails(w) ==
  /\ At(w, "encode") \/ At(w, "fail")
  /\ \/ CountFailure(w) /\ UNCHANGED faults
     \/ Fault /\ Returns(w, "later", OneMore(up[w].at)) /\ UNCHANGED <<row, waived>>
  /\ UNCHANGED <<ended, archived, files, recorder, todo, orphans, deletions, scanner,
                 requests>>

\* The row names the file ...
RecordUpload(w) ==
  LET s == up[w].at IN
  /\ At(w, "record")
  /\ \/ /\ SetStatus(s, "uploaded")
        /\ archived' = IF Exists(s) THEN archived \cup {s} ELSE archived
        /\ Goto(w, "clean")
        /\ UNCHANGED <<queue, attempts, torn, faults>>
     \/ Fault /\ Returns(w, "later", attempts) /\ UNCHANGED <<row, archived>>
  /\ UNCHANGED <<ended, files, recorder, todo, orphans, deletions, scanner, waived,
                 requests>>

\* ... and only then the directory goes.
CleanLocalFiles(w) ==
  /\ At(w, "clean")
  /\ disk' = disk \ {up[w].at}
  /\ ReturnsWithout(w, {up[w].at}, "out", [attempts EXCEPT ![up[w].at] = 0])
  /\ UNCHANGED <<rows, bucket, age, recorder, todo, orphans, deletions, scanner, waived,
                 faults, requests>>

\* The directory is gone: the row becomes terminal.
GiveUp(w) ==
  LET s == up[w].at IN
  /\ At(w, "giveUp")
  /\ \/ /\ SetStatus(s, "upload_failed")
        /\ waived' = waived \cup {s}
        /\ Returns(w, "out", attempts)
        /\ UNCHANGED faults
     \/ Fault /\ Returns(w, "later", attempts) /\ UNCHANGED <<row, waived>>
  /\ UNCHANGED <<ended, archived, files, recorder, todo, orphans, deletions, scanner,
                 requests>>

UploadStepOf(w) ==
  \/ ReadRow(w) \/ MarkProcessing(w) \/ Uploaded(w) \/ UploadFails(w)
  \/ RecordUpload(w) \/ CleanLocalFiles(w) \/ GiveUp(w)

-----------------------------------------------------------------------------
(* RecordingDiskScanner.cleanupOldRecordings.                               *)

\* Mutant: an upload in flight is not pending any more.
ListPendingCompleted ==
  /\ scan = "idle"
  /\ scan' = "listed"
  /\ pinned' = {s \in Session : s \notin archived /\ row[s] = "completed"}
  /\ UNCHANGED <<rows, files, recorder, uploads, deletions, waived, faults,
                 requests>>

\* listSessionsPendingUpload.
ListPending ==
  /\ scan = "idle"
  /\ scan' = "listed"
  /\ pinned' = {s \in Session :
                  Exists(s) /\ s \notin archived /\ row[s] # "upload_failed"}
  /\ UNCHANGED <<rows, files, recorder, uploads, deletions, waived, faults,
                 requests>>

\* Mutant: a pending directory is kept for good.
ReclaimableUnpinned(s) ==
  s \in disk /\ s # current /\ age[s] >= Rolling /\ s \notin pinned

\* A directory out of the clip window goes unless its upload is pending; a
\* pending one is kept for the grace period.
Reclaimable(s) ==
  /\ s \in disk /\ s # current
  /\ age[s] >= Rolling
  /\ s \in pinned => age[s] >= Grace

\* _enforceDiskBudget drops directories, the oldest first, until the rest fits:
\* how many depends on their sizes.
BudgetVictims(kept) ==
  LET mayGo == {s \in kept : s # current /\ age[s] >= Rolling} IN
  {v \in SUBSET mayGo : \A x \in v, y \in mayGo \ v : age[x] >= age[y]}

\* Nothing asks whether an upload is reading a directory that goes.
ScanDisk ==
  /\ scan = "listed"
  /\ scan' = "idle" /\ pinned' = {}
  /\ LET old == {s \in Session : Reclaimable(s)} IN
     \E v \in BudgetVictims(disk \ old) :
       /\ disk' = (disk \ old) \ v
       /\ torn' = torn \cup Reading(old \cup v)
       /\ waived' = waived \cup v \cup (old \cap pinned)
  /\ UNCHANGED <<rows, bucket, age, recorder, queue, attempts, todo, up, orphans,
                 deletions, faults, requests>>

-----------------------------------------------------------------------------
(* RecordingCleanupScheduler and the admin's deletion.                      *)

\* Uploaded and failed rows after the retention, others a window later.
Expired(s) ==
  /\ age[s] >= Retention
  /\ row[s] \in {"completed", "uploaded", "upload_failed"}
  /\ s \in archived \/ row[s] = "upload_failed" \/ age[s] >= Overdue

\* The rows are selected once; deletions work from this copy.
SelectExpired ==
  /\ del["cleaner"].pc = "idle"
  /\ list' = {s \in Session : Expired(s)}
  /\ list' # {}
  /\ named' = (named \ list') \cup (list' \cap archived)
  /\ del' = [del EXCEPT !["cleaner"].pc = "next"]
  /\ UNCHANGED <<rows, files, recorder, uploads, scanner, waived, faults, requests>>

\* deleteSession begins with the file, when the copy of the row names one.
Deletes(d, s, hasFile) ==
  del' = [del EXCEPT ![d] = [pc |-> IF hasFile THEN "file" ELSE "row", at |-> s]]

CleanNext ==
  /\ del["cleaner"].pc = "next"
  /\ \/ \E s \in list :
          /\ list' = list \ {s} /\ named' = named \ {s}
          /\ Deletes("cleaner", s, s \in named)
     \/ /\ list = {}
        /\ del' = [del EXCEPT !["cleaner"] = Resting]
        /\ UNCHANGED <<list, named>>
  /\ UNCHANGED <<rows, files, recorder, uploads, scanner, waived, faults, requests>>

\* deleteSessionById reads the row and looks at no status.
AdminDelete(s) ==
  /\ "admin" \in Deleter
  /\ del["admin"].pc = "idle"
  /\ Exists(s)
  /\ requests < MaxRequests /\ requests' = requests + 1
  /\ Deletes("admin", s, s \in archived)
  /\ UNCHANGED <<rows, files, recorder, uploads, list, named, scanner, waived,
                 faults>>

\* A failed deletion in B2 is logged and the row goes all the same.
DeleteFile(d) ==
  /\ del[d].pc = "file"
  /\ \/ bucket' = [bucket EXCEPT ![del[d].at] = "none"] /\ UNCHANGED faults
     \/ Fault /\ UNCHANGED bucket
  /\ waived' = waived \cup {del[d].at}
  /\ del' = [del EXCEPT ![d].pc = "row"]
  /\ UNCHANGED <<rows, disk, age, recorder, uploads, list, named, scanner,
                 requests>>

\* The error of one session does not stop the clean-up of the others.
DeleteRow(d) ==
  LET s == del[d].at IN
  /\ del[d].pc = "row"
  /\ \/ /\ row' = IF Exists(s) THEN [row EXCEPT ![s] = "deleted"] ELSE row
        /\ ended' = ended \ {s} /\ archived' = archived \ {s}
        /\ UNCHANGED faults
     \/ Fault /\ UNCHANGED rows
  /\ del' = [del EXCEPT ![d] = IF d = "cleaner" THEN [pc |-> "next", at |-> NoSession]
                                                ELSE Resting]
  /\ UNCHANGED <<files, recorder, uploads, list, named, scanner, waived, requests>>

-----------------------------------------------------------------------------
(* Time and crashes.                                                        *)

\* No segment is added to a directory the recorder has left.  The scanner's
\* query is answered within minutes, so ages do not change while it waits.
GrowOlder(s) ==
  /\ s \in disk \/ Exists(s)
  /\ current = s => rec = "off"
  /\ scan = "idle"
  /\ age[s] < Overdue
  /\ age' = [age EXCEPT ![s] = @ + 1]
  /\ UNCHANGED <<rows, disk, bucket, recorder, uploads, deletions, scanner,
                 waived, faults, requests>>

\* Migration 202607140001, at every boot: finished rows become 'completed'.
Migrated ==
  [s \in Session |-> IF row[s] \in {"recording", "processing"} /\ s \in ended
                       THEN "completed" ELSE row[s]]

\* The process is gone with all it had in memory, and boots again.  An ffmpeg it
\* had started may go on for as long as it takes.
Restart ==
  /\ Fault
  /\ row' = Migrated
  /\ rec' = "off" /\ current' = NoSession
  /\ queue' = LoadPending([s \in Session |-> "out"], row')
  /\ attempts' = [s \in Session |-> 0]
  /\ todo' = {}
  /\ up' = [w \in Uploader |-> Resting]
  /\ torn' = {}
  /\ orphans' = orphans \cup {up[w].at : w \in {x \in Uploader : At(x, "encode")}}
  /\ del' = [d \in Deleter |-> Resting]
  /\ list' = {} /\ named' = {}
  /\ scan' = "idle" /\ pinned' = {}
  /\ UNCHANGED <<ended, archived, files, waived, requests>>

-----------------------------------------------------------------------------
Recorder ==
  EgressRefused \/ InsertRow \/ StopFails \/ WriteEnd \/ MarkCompleted
Tick == TickStart \/ TickNext
Scanner == ListPending \/ ScanDisk
DeleteStep(d) == DeleteFile(d) \/ DeleteRow(d)
Cleaner == SelectExpired \/ CleanNext

Next ==
  \/ \E s \in Session :
       \/ StartRecording(s) \/ ForceUpload(s) \/ AdminDelete(s)
       \/ ComesDue(s) \/ GrowOlder(s)
  \/ StopRecording \/ AbandonRun \/ Recorder \/ Tick \/ Scanner \/ Cleaner
  \/ \E w \in Uploader : UploadStepOf(w)
  \/ \E d \in Deleter : DeleteStep(d)
  \/ Restart

Spec == Init /\ [][Next]_vars

\* Awaits are answered (ffmpeg and S3 calls carry time limits), timers fire, and
\* time passes however often the scanner runs.
Fairness ==
  /\ WF_vars(Recorder) /\ WF_vars(Tick) /\ WF_vars(Scanner) /\ WF_vars(Cleaner)
  /\ \A w \in Uploader : WF_vars(UploadStepOf(w))
  /\ \A d \in Deleter : WF_vars(DeleteStep(d))
  /\ \A s \in Session : WF_vars(ComesDue(s)) /\ SF_vars(GrowOlder(s))

FairSpec == Spec /\ Fairness

-----------------------------------------------------------------------------
(* Properties.                                                              *)

\* Footage of a session with a row is in the clip window, waiting on the disk or
\* in the bucket, until the code itself gives it up: the upload becomes
\* 'upload_failed', the grace period or the disk budget ends, or the session is
\* deleted.  The upload removes the directory only after the row names the file,
\* and the scanner spares what an upload may still want, whatever status the
\* row had when it asked.
FootageIsKept ==
  \A s \in Session :
    Exists(s) /\ s \notin waived => s \in disk \/ bucket[s] # "none"

\* As long as no admin forces an upload, an archive has the whole run: the
\* scheduler never uploads a run that is still on, nor one session twice at a
\* time, although each upload of it writes the same temporary file, and the
\* scanner spares the directory of an upload by its row.  There are two
\* exceptions, which the code does not see: the grace period or the disk budget
\* gives a session up whose upload is reading it, and the ffmpeg of a crashed
\* server still writes the file.
ScheduledArchivesAreWhole ==
  \A s \in Session :
    s \in archived /\ bucket[s] = "part" => requests > 0 \/ s \in waived \cup orphans

\* RecordingUploadScheduler settles every finished recording: it is archived, or
\* given up, or deleted in the end, although B2 may fail forever, an event may
\* be missed, a write may fail and the process may crash between any two steps.
FinishedSessionsSettle ==
  \A s \in Session :
    (Recoverable(s, row) ~> (s \in archived \/ row[s] = "upload_failed" \/ ~Exists(s)))

\* RecordingDiskScanner lets no directory stay for good once the recorder has
\* left it, also not one whose row never ends because the process crashed while
\* it recorded.  (A refused start or a failed stop leaves currentSessionId set,
\* and the directory stays until the next start.)
RecordingsLeaveTheDisk ==
  \A s \in Session : (s \in disk ~> (s \notin disk \/ current = s))

=============================================================================
