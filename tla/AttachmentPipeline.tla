------------------------- MODULE AttachmentPipeline -------------------------
(***************************************************************************)
(* The life of an attachment: AttachmentService and the client's presigned *)
(* PUT, MessageService.sendMessage as far as it links attachments, the     *)
(* worker's scan job and its purge of deleted servers.                     *)
(*                                                                         *)
(* A service call reads the row, decides, and writes it in one READ        *)
(* COMMITTED transaction that takes no lock at the read, so any other      *)
(* transaction may commit in between.  From the first write to the COMMIT  *)
(* the row is locked: that stretch is one step here.  The scan and purge   *)
(* jobs work on what an earlier transaction returned to them, and are      *)
(* started by timers that do not wait for the last run to end.             *)
(***************************************************************************)
EXTENDS Naturals, FiniteSets

CONSTANTS
    Attachments,        \* rows of attachments
    Servers,
    Requests,           \* API calls that can be open at the same time
    ScanRuns,           \* runs of the scan job that can overlap
    PurgeRuns,          \* runs of the purge job that can overlap
    SerialUploads,      \* attachments whose uploader never has two completeUpload
                        \* calls open at the same time
    ScanLimit,          \* ATTACHMENT_SCAN_CONCURRENCY
    PurgeLimit,         \* the LIMIT of the purge job's query
    MaxPuts, MaxFaults, \* bounds: PUTs of an attachment, failures altogether
    NoServer, NoAttachment

ASSUME ConstantsAssumption ==
    /\ SerialUploads \subseteq Attachments
    /\ NoServer \notin Servers
    /\ NoAttachment \notin Attachments
    /\ ScanLimit \in Nat \ {0} /\ PurgeLimit \in Nat \ {0}
    /\ MaxPuts \in Nat /\ MaxFaults \in Nat

VARIABLES
    \* PostgreSQL: of each attachment its status and server_id, whether messages
    \* link to it, how many ATTACHMENT_UPLOADED events it has in the outbox; and
    \* the servers with deleted_at set.
    status, home, linked, announced, deleted,
    \* MinIO: which of the client's PUTs the object holds, 0 when there is none.
    object,
    \* The open calls and the running jobs.
    call, scan, purge,
    faults,
    \* History: PUTs so far; versions a scan has found clean; attachments a scan
    \* run took back as stuck; those PUT too late (after completeUpload, or the
    \* deletion of the server); those whose object a job failed to delete.
    puts, vetted, reverted, late, undeleted

rows == <<status, home, linked, announced, deleted>>
jobs == <<call, scan, purge>>
history == <<puts, vetted, reverted, late, undeleted>>
vars == <<rows, object, jobs, faults, history>>

\* "deleted" is a row with deleted_at set.
Status == {"none", "pending", "uploaded", "scanning", "scanned", "blocked", "deleted"}

Call == [op : {"none", "complete", "send"}, att : Attachments \cup {NoAttachment}]
NoCall == [op |-> "none", att |-> NoAttachment]

\* A run of the scan job: the claimed rows it has yet to process, the one it is
\* at and the status it is going to write.
Scan == [step : {"idle", "next", "delete", "settle"},
         todo : SUBSET Attachments,
         att : Attachments \cup {NoAttachment},
         verdict : {"none", "uploaded", "scanned", "blocked"}]
NoScan == [step |-> "idle", todo |-> {}, att |-> NoAttachment, verdict |-> "none"]

\* A run of the purge job: servers to come, the rows listed of the current
\* one, and those of them whose object has not been dealt with.
Purge == [step : {"idle", "next", "objects"}, servers : SUBSET Servers,
          listed : SUBSET Attachments, objects : SUBSET Attachments]
NoPurge == [step |-> "idle", servers |-> {}, listed |-> {}, objects |-> {}]

TypeOK ==
    /\ status \in [Attachments -> Status]
    /\ home \in [Attachments -> Servers \cup {NoServer}]
    /\ linked \subseteq Attachments
    /\ announced \in [Attachments -> Nat]
    /\ deleted \subseteq Servers
    /\ object \in [Attachments -> 0..MaxPuts]
    /\ call \in [Requests -> Call]
    /\ scan \in [ScanRuns -> Scan]
    /\ purge \in [PurgeRuns -> Purge]
    /\ faults \in 0..MaxFaults
    /\ puts \in [Attachments -> 0..MaxPuts]
    /\ vetted \in [Attachments -> SUBSET (1..MaxPuts)]
    /\ {reverted, late, undeleted} \subseteq SUBSET Attachments

Init ==
    /\ status = [a \in Attachments |-> "none"]
    /\ home = [a \in Attachments |-> NoServer]
    /\ linked = {}
    /\ announced = [a \in Attachments |-> 0]
    /\ deleted = {}
    /\ object = [a \in Attachments |-> 0]
    /\ call = [r \in Requests |-> NoCall]
    /\ scan = [j \in ScanRuns |-> NoScan]
    /\ purge = [p \in PurgeRuns |-> NoPurge]
    /\ faults = 0
    /\ puts = [a \in Attachments |-> 0]
    /\ vetted = [a \in Attachments |-> {}]
    /\ reverted = {} /\ late = {} /\ undeleted = {}

\* Each failure of a call to PostgreSQL, MinIO or clamd, and each crash, counts.
Fault == faults < MaxFaults /\ faults' = faults + 1

\* Mutant: uploads that were not completed are overlooked.
LiveCompleted(a) == status[a] \notin {"none", "pending", "deleted"}

\* findById and findByIds see rows that are not deleted.
Live(a) == status[a] \notin {"none", "deleted"}

\* Mutant: updateStatus does not look at deleted_at.
WriteAny(a, s) == status' = [status EXCEPT ![a] = s]

\* updateStatus: UPDATE ... WHERE id = $2 AND deleted_at IS NULL.
UpdateStatus(a, s) == status' = IF Live(a) THEN [status EXCEPT ![a] = s] ELSE status

-----------------------------------------------------------------------------
\* The client and the API.

\* initUpload: the row is committed before the caller has the presigned URL.
\* Neither it nor the membership check looks at the server's deleted_at.
InitUpload(a, s) ==
    /\ status[a] = "none"
    /\ status' = [status EXCEPT ![a] = "pending"]
    /\ home' = [home EXCEPT ![a] = s]
    /\ UNCHANGED <<linked, announced, deleted, object, jobs, faults, history>>

\* The client PUTs (again) on its presigned URL, whatever became of the row.
Put(a) ==
    /\ status[a] # "none"
    /\ puts[a] < MaxPuts
    /\ puts' = [puts EXCEPT ![a] = @ + 1]
    /\ object' = [object EXCEPT ![a] = puts'[a]]
    /\ late' = IF status[a] = "pending" /\ home[a] \notin deleted THEN late
                                                                  ELSE late \cup {a}
    /\ UNCHANGED <<rows, jobs, faults, vetted, reverted, undeleted>>

Completing(a) == \E r \in Requests : call[r] = [op |-> "complete", att |-> a]

\* Mutant: completeUpload does not look at the status.
MayCompleteAny(a) == Live(a)

\* Mutant: sendMessage links whatever findByIds returns.
MaySendAny(a) == Live(a)

\* The checks of the row that completeUpload and sendMessage make.
MayComplete(a) == status[a] = "pending"
MaySend(a) == status[a] = "scanned"

\* completeUpload up to its checks.  It does not ask whether the object exists.
CompleteRead(r, a) ==
    /\ call[r] = NoCall
    /\ MayComplete(a)
    /\ a \in SerialUploads => ~Completing(a)
    /\ call' = [call EXCEPT ![r] = [op |-> "complete", att |-> a]]
    /\ UNCHANGED <<rows, object, scan, purge, faults, history>>

\* updateStatus, the outbox row and the COMMIT.
CompleteWrite(r, a) ==
    /\ call[r] = [op |-> "complete", att |-> a]
    /\ UpdateStatus(a, "uploaded")
    /\ announced' = [announced EXCEPT ![a] = @ + 1]
    /\ call' = [call EXCEPT ![r] = NoCall]
    /\ UNCHANGED <<home, linked, deleted, object, scan, purge, faults, history>>

\* sendMessage with an attachment: the attachment is scanned and of this server.
SendRead(r, a) ==
    /\ call[r] = NoCall
    /\ MaySend(a)
    /\ call' = [call EXCEPT ![r] = [op |-> "send", att |-> a]]
    /\ UNCHANGED <<rows, object, scan, purge, faults, history>>

\* The message, its links and its event are inserted and committed.
SendWrite(r, a) ==
    /\ call[r] = [op |-> "send", att |-> a]
    /\ linked' = linked \cup {a}
    /\ call' = [call EXCEPT ![r] = NoCall]
    /\ UNCHANGED <<status, home, announced, deleted, object, scan, purge, faults, history>>

\* The call fails and its transaction is rolled back.
CallFails(r) ==
    /\ call[r] # NoCall
    /\ call' = [call EXCEPT ![r] = NoCall]
    /\ UNCHANGED <<rows, object, scan, purge, faults, history>>

\* deleteServer: the server's rows and its members stay.
DeleteServer(s) ==
    /\ s \notin deleted
    /\ deleted' = deleted \cup {s}
    /\ UNCHANGED <<status, home, linked, announced, object, jobs, faults, history>>

\* The rows getDownloadUrl gives a URL for.
Downloadable == {a \in Attachments : status[a] = "scanned"}

-----------------------------------------------------------------------------
\* runAttachmentScanJob.

InStatus(s) == {a \in Attachments : status[a] = s}

\* Mutant: a run that has done its rows never ends.
NextRowStuck(T) == [NoScan EXCEPT !.step = "next", !.todo = T]

\* Where a run is when it has the rows T to go.
NextRow(T) == IF T = {} THEN NoScan ELSE [NoScan EXCEPT !.step = "next", !.todo = T]

\* Mutant: rows being scanned are claimed again.
ClaimableAgain(R) == InStatus("uploaded") \cup InStatus("scanning")

\* What claimForScanning finds after revertStuckScanning has taken back R.
Claimable(R) == InStatus("uploaded") \cup R

\* One transaction takes the rows R that have been "scanning" for too long back
\* to "uploaded", then claims rows C.  Time is abstracted: any row may have been
\* at it that long.  SKIP LOCKED may pass over any row.
ScanTick(j, R, C) ==
    /\ scan[j] = NoScan
    /\ R \subseteq InStatus("scanning") /\ C \subseteq Claimable(R)
    /\ C \cup R # {} /\ Cardinality(C) <= ScanLimit
    /\ status' = [a \in Attachments |-> IF a \in C THEN "scanning"
                                        ELSE IF a \in R THEN "uploaded" ELSE status[a]]
    /\ reverted' = reverted \cup R
    /\ scan' = [scan EXCEPT ![j] = NextRow(C)]
    /\ UNCHANGED <<home, linked, announced, deleted, object, call, purge, faults,
                   puts, vetted, late, undeleted>>

\* The object is streamed to clamd and judged.  Without an object, or when MinIO
\* or clamd fails, the row goes back to "uploaded".  Any answer of clamd but OK
\* blocks.
ScanObject(j, a) ==
    /\ scan[j].step = "next"
    /\ a \in scan[j].todo
    /\ \E step \in {"settle", "delete"}, verdict \in {"uploaded", "scanned", "blocked"} :
          /\ step = "delete" <=> verdict = "blocked"
          /\ verdict \in {"scanned", "blocked"} => object[a] # 0
          /\ IF verdict = "uploaded" /\ object[a] # 0 THEN Fault ELSE faults' = faults
          /\ vetted' = IF verdict = "scanned" THEN [vetted EXCEPT ![a] = @ \cup {object[a]}]
                                              ELSE vetted
          /\ scan' = [scan EXCEPT ![j] = [step |-> step, todo |-> @.todo \ {a},
                                          att |-> a, verdict |-> verdict]]
    /\ UNCHANGED <<rows, object, call, purge, puts, reverted, late, undeleted>>

\* The object of a row to be blocked is deleted; a failure is only logged.
DeleteBlocked(j) ==
    LET a == scan[j].att
    IN  /\ scan[j].step = "delete"
        /\ \/ object' = [object EXCEPT ![a] = 0] /\ UNCHANGED undeleted
           \/ undeleted' = undeleted \cup {a} /\ UNCHANGED object
        /\ scan' = [scan EXCEPT ![j].step = "settle"]
        /\ UNCHANGED <<rows, call, purge, faults, puts, vetted, reverted, late>>

\* The verdict is written, in a transaction of its own.  The next row, if any.
Settle(j) ==
    /\ scan[j].step = "settle"
    /\ UpdateStatus(scan[j].att, scan[j].verdict)
    /\ scan' = [scan EXCEPT ![j] = NextRow(@.todo)]
    /\ UNCHANGED <<home, linked, announced, deleted, object, call, purge, faults, history>>

\* Mutant: the catch block lets the attachment through.
SettleFailsOpen(j) ==
    /\ scan[j].step = "settle"
    /\ scan[j].verdict # "uploaded"
    /\ Fault
    /\ scan' = [scan EXCEPT ![j].verdict = "scanned"]
    /\ UNCHANGED <<rows, object, call, purge, history>>

\* That transaction fails: the catch block writes "uploaded" instead.
SettleFails(j) ==
    /\ scan[j].step = "settle"
    /\ scan[j].verdict # "uploaded"
    /\ Fault
    /\ scan' = [scan EXCEPT ![j].verdict = "uploaded"]
    /\ UNCHANGED <<rows, object, call, purge, history>>

\* The write in the catch block fails, or the process dies: the run ends and
\* what it had claimed stays "scanning".
ScanDies(j) ==
    /\ scan[j] # NoScan
    /\ Fault
    /\ scan' = [scan EXCEPT ![j] = NoScan]
    /\ UNCHANGED <<rows, object, call, purge, history>>

-----------------------------------------------------------------------------
\* runServerDeletionPurgeJob.

\* The query has a LIMIT and no ORDER BY, and a purged server still matches it.
PurgeTick(p, S) ==
    /\ purge[p] = NoPurge
    /\ S \subseteq deleted /\ S # {}
    /\ \/ Cardinality(S) = PurgeLimit
       \/ S = deleted /\ Cardinality(S) < PurgeLimit
    /\ purge' = [purge EXCEPT ![p] = [NoPurge EXCEPT !.step = "next", !.servers = S]]
    /\ UNCHANGED <<rows, object, call, scan, faults, history>>

NextServer(S) == IF S = {} THEN NoPurge ELSE [NoPurge EXCEPT !.step = "next", !.servers = S]

\* listByServerId, in a transaction of its own.
PurgeList(p, s) ==
    LET S == purge[p].servers \ {s}
        listed == {a \in Attachments : home[a] = s /\ Live(a)}
    IN  /\ purge[p].step = "next"
        /\ s \in purge[p].servers
        /\ purge' = [purge EXCEPT ![p] = IF listed = {} THEN NextServer(S)
                          ELSE [step |-> "objects", servers |-> S,
                                listed |-> listed, objects |-> listed]]
        /\ UNCHANGED <<rows, object, call, scan, faults, history>>

\* An object is deleted; any error is taken for a missing object.
PurgeObject(p, a) ==
    /\ a \in purge[p].objects
    /\ \/ object' = [object EXCEPT ![a] = 0] /\ UNCHANGED undeleted
       \/ undeleted' = undeleted \cup {a} /\ UNCHANGED object
    /\ purge' = [purge EXCEPT ![p].objects = @ \ {a}]
    /\ UNCHANGED <<rows, call, scan, faults, puts, vetted, reverted, late>>

\* Mutant: the rows are soft-deleted before their objects.
PurgeRowsFirst(p) ==
    /\ purge[p].step = "objects"
    /\ status' = [a \in Attachments |-> IF a \in purge[p].listed THEN "deleted" ELSE status[a]]
    /\ purge' = [purge EXCEPT ![p] = NextServer(@.servers)]
    /\ UNCHANGED <<home, linked, announced, deleted, object, call, scan, faults, history>>

\* softDelete of every row listed, in one transaction.
PurgeRows(p) ==
    /\ purge[p].step = "objects"
    /\ purge[p].objects = {}
    /\ status' = [a \in Attachments |-> IF a \in purge[p].listed THEN "deleted" ELSE status[a]]
    /\ purge' = [purge EXCEPT ![p] = NextServer(@.servers)]
    /\ UNCHANGED <<home, linked, announced, deleted, object, call, scan, faults, history>>

\* A transaction of the run fails, or the process dies.
PurgeDies(p) ==
    /\ purge[p] # NoPurge
    /\ Fault
    /\ purge' = [purge EXCEPT ![p] = NoPurge]
    /\ UNCHANGED <<rows, object, call, scan, history>>

-----------------------------------------------------------------------------
ApiNext ==
    \/ \E a \in Attachments, s \in Servers : InitUpload(a, s)
    \/ \E a \in Attachments : Put(a)
    \/ \E r \in Requests, a \in Attachments :
          \/ CompleteRead(r, a) \/ CompleteWrite(r, a)
          \/ SendRead(r, a) \/ SendWrite(r, a)
    \/ \E r \in Requests : CallFails(r)
    \/ \E s \in Servers : DeleteServer(s)

ScanNext ==
    \E j \in ScanRuns :
        \/ \E R, C \in SUBSET Attachments : ScanTick(j, R, C)
        \/ \E a \in Attachments : ScanObject(j, a)
        \/ DeleteBlocked(j) \/ Settle(j) \/ SettleFails(j) \/ ScanDies(j)

PurgeNext ==
    \E p \in PurgeRuns :
        \/ \E S \in SUBSET Servers : PurgeTick(p, S)
        \/ \E s \in Servers : PurgeList(p, s)
        \/ \E a \in Attachments : PurgeObject(p, a)
        \/ PurgeRows(p) \/ PurgeDies(p)

Next == ApiNext \/ ScanNext \/ PurgeNext

Spec == Init /\ [][Next]_vars

\* A row that is "scanning" though no run is going to write its verdict.
Abandoned(a) == /\ status[a] = "scanning"
                /\ \A j \in ScanRuns : a \notin scan[j].todo \cup {scan[j].att}

(***************************************************************************)
(* The timers go on starting runs, and a run goes on to its end unless it  *)
(* fails.  A tick claims every row it can up to ScanLimit and takes back   *)
(* every row older than the timeout, so a row that waits is claimed if     *)
(* ScanLimit is not exceeded, and an abandoned one taken back.  Which      *)
(* servers a purge gets is up to PostgreSQL: only that it runs is assumed. *)
(***************************************************************************)
Fairness ==
    /\ \A a \in Attachments :
          /\ SF_vars(\E j \in ScanRuns, R, C \in SUBSET Attachments :
                        a \in C /\ status[a] = "uploaded" /\ ScanTick(j, R, C))
          /\ SF_vars(\E j \in ScanRuns, R, C \in SUBSET Attachments :
                        a \in R /\ Abandoned(a) /\ ScanTick(j, R, C))
    /\ \A j \in ScanRuns :
          /\ WF_vars(\E a \in Attachments : ScanObject(j, a))
          /\ WF_vars(DeleteBlocked(j)) /\ WF_vars(Settle(j))
    /\ \A p \in PurgeRuns :
          /\ WF_vars(\E S \in SUBSET Servers : PurgeTick(p, S))
          /\ WF_vars(\E s \in Servers : PurgeList(p, s))
          /\ WF_vars(\E a \in Attachments : PurgeObject(p, a))
          /\ WF_vars(PurgeRows(p))

FairSpec == Spec /\ Fairness

-----------------------------------------------------------------------------
\* Whatever becomes of a row while a message is being sent, an attachment that
\* a message links to has passed a scan; so has one that can be downloaded.
SharedWasVetted == \A a \in linked \cup Downloadable : vetted[a] # {}

\* What can be downloaded is the version that passed the scan, if the client
\* did not PUT again after completeUpload: no run's verdict is about another.
DownloadedIsVetted ==
    \A a \in Downloadable \ late : object[a] # 0 => object[a] \in vetted[a]

\* A row that can be downloaded has its object, unless its server is being
\* purged or a run that was taken for stuck has blocked it in the meantime.
DownloadableHasObject ==
    \A a \in (Downloadable \cap SerialUploads) \ reverted :
        home[a] \notin deleted => object[a] # 0

\* The worker is told of an upload, once if its client completes it once at a
\* time: the check of the status in completeUpload is not made under a lock.
AnnouncedOnce ==
    \A a \in SerialUploads : /\ announced[a] <= 1
                             /\ status[a] \in {"uploaded", "scanning", "scanned", "blocked"}
                                  => announced[a] = 1

\* A purged row stays purged, whatever calls and scan runs that had read it
\* before write to it afterwards.
PurgedForGood ==
    [][\A a \in Attachments : status[a] = "deleted" => status'[a] = "deleted"]_vars

\* A verdict stands until the purge, unless a run was taken for stuck or the
\* client completed the upload twice at once.
VerdictStands ==
    [][\A a \in SerialUploads \ reverted :
          status[a] \in {"scanned", "blocked"} => status'[a] \in {status[a], "deleted"}]_vars

\* The purge leaves no object behind, except where the client's PUT came too
\* late or MinIO refused to delete it: nobody will try again.
PurgedHasNoObject ==
    \A a \in Attachments \ (late \cup undeleted) : status[a] = "deleted" => object[a] = 0

\* An upload whose object is there is judged in the end, though runs fail,
\* die and overlap.
UploadIsJudged ==
    \A a \in Attachments :
        status[a] \in {"uploaded", "scanning"} /\ object[a] # 0
            ~> status[a] \in {"scanned", "blocked", "deleted"} \/ object[a] = 0

\* "Server deletion: worker processes outbox event, soft-deletes attachments,
\* purges object storage" (docs/compliance.md:104): each row of a deleted server
\* is soft-deleted in the end.  Holds as long as PurgeLimit covers the deleted
\* servers.
DeletionPropagates ==
    \A a \in Attachments :
        home[a] \in deleted ~> status[a] = "deleted"
=============================================================================
