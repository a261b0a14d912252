---------------------- MODULE AttachmentPipelineProofs ----------------------
(***************************************************************************)
(* The safety properties of AttachmentPipeline hold for every set of       *)
(* attachments, servers, calls and overlapping runs, and any bounds.  They *)
(* follow from one inductive invariant, IInv, whose parts say what a call  *)
(* or a run still knows about the rows and objects it is working on.       *)
(***************************************************************************)
EXTENDS AttachmentPipeline, TLAPS

\* The rows a scan run may still write to.
Work(j) == scan[j].todo \cup ({scan[j].att} \ {NoAttachment})

\* Whom a call or run is about, at each of its steps.
CallShape ==
    \A r \in Requests : call[r].op # "none" =>
        call[r].att \in Attachments /\ status[call[r].att] # "none"

ScanShape ==
    \A j \in ScanRuns :
        LET x == scan[j]
        IN  /\ x.step \in {"idle", "next"} => x.att = NoAttachment /\ x.verdict = "none"
            /\ x.step \in {"delete", "settle"} => x.att \in Attachments \ x.todo
            /\ x.step = "delete" => x.verdict = "blocked"
            /\ x.step = "settle" => x.verdict # "none"

PurgeShape ==
    \A p \in PurgeRuns :
        LET x == purge[p]
        IN  /\ x.servers \subseteq deleted
            /\ x.objects \subseteq x.listed
            /\ x.step # "objects" => x.listed = {}
            /\ \A a \in x.listed : home[a] \in deleted /\ status[a] # "none"

\* A scan run works on uploads that were completed.
WorkCompleted ==
    \A j \in ScanRuns : \A a \in Work(j) : status[a] \notin {"none", "pending"}

\* Who is about to let an attachment through knows that it passed a scan.
VettedOK ==
    /\ SharedWasVetted
    /\ \A j \in ScanRuns : scan[j].verdict = "scanned" => vetted[scan[j].att] # {}
    /\ \A r \in Requests : call[r].op = "send" => vetted[call[r].att] # {}

\* An upload completed serially: nobody has announced it while a call is at it.
AnnouncedOK ==
    \A a \in SerialUploads :
        /\ status[a] \in {"none", "pending"} => announced[a] = 0
        /\ Completing(a) => announced[a] = 0 /\ status[a] \in {"pending", "deleted"}
        /\ \A q, r \in Requests :
              call[q] = [op |-> "complete", att |-> a] /\ call[r] = call[q] => q = r
        /\ status[a] \in {"uploaded", "scanning", "scanned", "blocked"} => announced[a] = 1
        /\ announced[a] <= 1

\* Such an upload is in the hands of one run, until a run takes it for stuck.
ScanExclusive ==
    \A a \in SerialUploads \ reverted, j \in ScanRuns : a \in Work(j) =>
        /\ status[a] \in {"scanning", "deleted"}
        /\ \A i \in ScanRuns : a \in Work(i) => i = j

\* A run that lets an attachment through is right about the version there is.
VersionOK ==
    /\ DownloadedIsVetted
    /\ \A j \in ScanRuns :
          LET a == scan[j].att
          IN  scan[j].verdict = "scanned" /\ a \notin late /\ object[a] # 0 => object[a] \in vetted[a]

ObjectOK ==
    /\ DownloadableHasObject
    /\ \A j \in ScanRuns :
          LET a == scan[j].att
          IN  scan[j].verdict = "scanned" /\ a \in SerialUploads \ reverted /\ home[a] \notin deleted
                => object[a] # 0

\* A purge run has dealt with the objects it has ticked off.
PurgedOK ==
    /\ PurgedHasNoObject
    /\ \A p \in PurgeRuns :
          \A a \in (purge[p].listed \ purge[p].objects) \ (late \cup undeleted) : object[a] = 0

IInv ==
    /\ TypeOK
    /\ CallShape /\ ScanShape /\ PurgeShape
    /\ WorkCompleted
    /\ VettedOK
    /\ AnnouncedOK
    /\ ScanExclusive
    /\ VersionOK /\ ObjectOK
    /\ PurgedOK

-----------------------------------------------------------------------------
USE ConstantsAssumption DEF rows, jobs, history

LEMMA InitInv == Init => IInv
<1> SUFFICES ASSUME Init PROVE IInv
  OBVIOUS
<1>1. TypeOK
  BY DEF Init, TypeOK, Status, Call, Scan, Purge, NoCall, NoScan, NoPurge
<1> QED
  BY <1>1 DEF Init, IInv, CallShape, ScanShape, PurgeShape, Work, WorkCompleted, VettedOK,
     AnnouncedOK, ScanExclusive, VersionOK, ObjectOK, PurgedOK, SharedWasVetted,
     Downloadable, DownloadedIsVetted, DownloadableHasObject, PurgedHasNoObject, Completing,
     NoCall, NoScan, NoPurge

-----------------------------------------------------------------------------
\* One lemma for each action.  The first step is about its types, the second
\* about the parts of the invariant whose variables it leaves alone.

\* A new row: nobody works on it yet.
LEMMA InitUploadInv ==
  ASSUME IInv, NEW a \in Attachments, NEW s \in Servers, InitUpload(a, s)
  PROVE  IInv'
<1> USE DEF IInv, InitUpload
<1>1. TypeOK'
  BY DEF TypeOK, Status
<1> USE <1>1 DEF TypeOK
<1>2. ScanShape'
  BY DEF ScanShape
<1>3. CallShape'
  BY DEF CallShape
<1>4. PurgeShape'
  BY DEF PurgeShape
<1>5. WorkCompleted'
  BY DEF WorkCompleted, Work
<1>6. VettedOK'
  BY DEF VettedOK, SharedWasVetted, Downloadable
<1>7. AnnouncedOK'
  BY DEF AnnouncedOK, Completing
<1>8. ScanExclusive'
  BY DEF ScanExclusive, Work
<1>9. VersionOK'
  BY DEF VersionOK, DownloadedIsVetted, Downloadable
<1>10. ObjectOK'
  BY DEF ObjectOK, DownloadableHasObject, Downloadable, Work, ScanExclusive
<1>11. PurgedOK'
  BY DEF PurgedOK, PurgedHasNoObject
<1> QED
  BY <1>1, <1>2, <1>3, <1>4, <1>5, <1>6, <1>7, <1>8, <1>9, <1>10, <1>11

\* A PUT on a row that is no longer pending, or whose server is deleted, is late.
LEMMA PutInv ==
  ASSUME IInv, NEW a \in Attachments, Put(a)
  PROVE  IInv'
<1> USE DEF IInv, Put
<1>1. TypeOK'
  BY DEF TypeOK
<1> USE <1>1 DEF TypeOK
<1>2. CallShape' /\ ScanShape' /\ PurgeShape' /\ WorkCompleted' /\ VettedOK' /\ AnnouncedOK' /\ ScanExclusive'
  BY DEF CallShape, ScanShape, PurgeShape, WorkCompleted, VettedOK, AnnouncedOK,
     ScanExclusive, Work, SharedWasVetted, Downloadable, Completing
<1>3. VersionOK'
  BY DEF VersionOK, DownloadedIsVetted, Downloadable, Work, WorkCompleted
<1>4. ObjectOK'
  BY DEF ObjectOK, DownloadableHasObject, Downloadable
<1>5. PurgedOK'
  BY DEF PurgedOK, PurgedHasNoObject, PurgeShape
<1> QED
  BY <1>1, <1>2, <1>3, <1>4, <1>5

\* A serial upload that is pending has not been announced, and no other call is at it.
LEMMA CompleteReadInv ==
  ASSUME IInv, NEW r \in Requests, NEW a \in Attachments, CompleteRead(r, a)
  PROVE  IInv'
<1> USE DEF IInv, CompleteRead, MayComplete, NoCall
<1>1. TypeOK'
  BY DEF TypeOK, Call
<1> USE <1>1 DEF TypeOK
<1>2. ScanShape' /\ PurgeShape' /\ WorkCompleted' /\ ScanExclusive' /\ VersionOK' /\ ObjectOK' /\ PurgedOK'
  BY DEF ScanShape, PurgeShape, WorkCompleted, ScanExclusive, VersionOK, ObjectOK, PurgedOK,
     Work, DownloadedIsVetted, Downloadable, DownloadableHasObject, PurgedHasNoObject
<1>3. CallShape'
  BY DEF CallShape
<1>4. VettedOK'
  BY DEF VettedOK, SharedWasVetted, Downloadable
<1>5. AnnouncedOK'
  BY DEF AnnouncedOK, Completing
<1> QED
  BY <1>1, <1>2, <1>3, <1>4, <1>5

\* The row may have been purged since it was read, and then stays purged.
LEMMA CompleteWriteInv ==
  ASSUME IInv, NEW r \in Requests, NEW a \in Attachments, CompleteWrite(r, a)
  PROVE  IInv'
<1> USE DEF IInv, CompleteWrite, UpdateStatus, Live, NoCall
<1>1. TypeOK'
  BY DEF TypeOK, Status, Call
<1> USE <1>1 DEF TypeOK
<1>2. ScanShape'
  BY DEF ScanShape
<1>3. CallShape'
  BY DEF CallShape
<1>4. PurgeShape'
  BY DEF PurgeShape
<1>5. WorkCompleted'
  BY DEF WorkCompleted, Work
<1>6. VettedOK'
  BY DEF VettedOK, SharedWasVetted, Downloadable
<1>7. AnnouncedOK'
  BY DEF AnnouncedOK, Completing
<1>8. ScanExclusive'
  BY DEF ScanExclusive, Work, AnnouncedOK, Completing
<1>9. VersionOK'
  BY DEF VersionOK, DownloadedIsVetted, Downloadable
<1>10. ObjectOK'
  BY DEF ObjectOK, DownloadableHasObject, Downloadable
<1>11. PurgedOK'
  BY DEF PurgedOK, PurgedHasNoObject
<1> QED
  BY <1>1, <1>2, <1>3, <1>4, <1>5, <1>6, <1>7, <1>8, <1>9, <1>10, <1>11

\* The row read is "scanned", so it passed a scan.
LEMMA SendReadInv ==
  ASSUME IInv, NEW r \in Requests, NEW a \in Attachments, SendRead(r, a)
  PROVE  IInv'
<1> USE DEF IInv, SendRead, MaySend, NoCall
<1>1. TypeOK'
  BY DEF TypeOK, Call
<1> USE <1>1 DEF TypeOK
<1>2. ScanShape' /\ PurgeShape' /\ WorkCompleted' /\ ScanExclusive' /\ VersionOK' /\ ObjectOK' /\ PurgedOK'
  BY DEF ScanShape, PurgeShape, WorkCompleted, ScanExclusive, VersionOK, ObjectOK, PurgedOK,
     Work, DownloadedIsVetted, Downloadable, DownloadableHasObject, PurgedHasNoObject
<1>3. CallShape'
  BY DEF CallShape
<1>4. VettedOK'
  BY DEF VettedOK, SharedWasVetted, Downloadable
<1>5. AnnouncedOK'
  BY DEF AnnouncedOK, Completing
<1> QED
  BY <1>1, <1>2, <1>3, <1>4, <1>5

\* What the call has read cannot be undone: vetted only grows.
LEMMA SendWriteInv ==
  ASSUME IInv, NEW r \in Requests, NEW a \in Attachments, SendWrite(r, a)
  PROVE  IInv'
<1> USE DEF IInv, SendWrite, NoCall
<1>1. TypeOK'
  BY DEF TypeOK, Call
<1> USE <1>1 DEF TypeOK
<1>2. ScanShape' /\ PurgeShape' /\ WorkCompleted' /\ ScanExclusive' /\ VersionOK' /\ ObjectOK' /\ PurgedOK'
  BY DEF ScanShape, PurgeShape, WorkCompleted, ScanExclusive, VersionOK, ObjectOK, PurgedOK,
     Work, DownloadedIsVetted, Downloadable, DownloadableHasObject, PurgedHasNoObject
<1>3. CallShape'
  BY DEF CallShape
<1>4. VettedOK'
  BY DEF VettedOK, SharedWasVetted, Downloadable, CallShape
<1>5. AnnouncedOK'
  BY DEF AnnouncedOK, Completing
<1> QED
  BY <1>1, <1>2, <1>3, <1>4, <1>5

LEMMA CallFailsInv ==
  ASSUME IInv, NEW r \in Requests, CallFails(r)
  PROVE  IInv'
<1> USE DEF IInv, CallFails, NoCall
<1>1. TypeOK'
  BY DEF TypeOK, Call
<1> USE <1>1 DEF TypeOK
<1>2. ScanShape' /\ PurgeShape' /\ WorkCompleted' /\ ScanExclusive' /\ VersionOK' /\ ObjectOK' /\ PurgedOK'
  BY DEF ScanShape, PurgeShape, WorkCompleted, ScanExclusive, VersionOK, ObjectOK, PurgedOK,
     Work, DownloadedIsVetted, Downloadable, DownloadableHasObject, PurgedHasNoObject
<1>3. CallShape'
  BY DEF CallShape
<1>4. VettedOK'
  BY DEF VettedOK, SharedWasVetted, Downloadable
<1>5. AnnouncedOK'
  BY DEF AnnouncedOK, Completing
<1> QED
  BY <1>1, <1>2, <1>3, <1>4, <1>5

LEMMA DeleteServerInv ==
  ASSUME IInv, NEW s \in Servers, DeleteServer(s)
  PROVE  IInv'
<1> USE DEF IInv, DeleteServer
<1>1. TypeOK'
  BY DEF TypeOK
<1> USE <1>1 DEF TypeOK
<1>2. CallShape' /\ ScanShape' /\ WorkCompleted' /\ VettedOK' /\ AnnouncedOK' /\ ScanExclusive' /\ VersionOK' /\ PurgedOK'
  BY DEF CallShape, ScanShape, WorkCompleted, VettedOK, AnnouncedOK, ScanExclusive,
     VersionOK, PurgedOK, Work, SharedWasVetted, Downloadable, Completing,
     DownloadedIsVetted, PurgedHasNoObject
<1>3. PurgeShape'
  BY DEF PurgeShape
<1>4. ObjectOK'
  BY DEF ObjectOK, DownloadableHasObject, Downloadable
<1> QED
  BY <1>1, <1>2, <1>3, <1>4

\* Rows that are claimed and were not taken back are in no run's hands.
LEMMA ScanTickInv ==
  ASSUME IInv, NEW j \in ScanRuns, NEW R \in SUBSET Attachments, NEW C \in SUBSET Attachments, ScanTick(j, R, C)
  PROVE  IInv'
<1> USE DEF IInv, ScanTick, Claimable, InStatus, NextRow, NoScan
<1>1. TypeOK'
  <2>1. status' \in [Attachments -> Status]
    BY DEF TypeOK, Status
  <2>2. NextRow(C) \in Scan
    BY DEF Scan
  <2>3. scan' \in [ScanRuns -> Scan]
    BY <2>2 DEF TypeOK
  <2>4. reverted' \in SUBSET Attachments
    BY DEF TypeOK
  <2> QED
    BY <2>1, <2>3, <2>4 DEF TypeOK
<1> USE <1>1 DEF TypeOK
<1>2. CallShape'
  BY DEF CallShape
<1>3. ScanShape'
  BY DEF ScanShape
<1>4. PurgeShape'
  BY DEF PurgeShape, Purge
<1>5. WorkCompleted'
  BY DEF WorkCompleted, Work, Scan
<1>6. VettedOK'
  BY DEF VettedOK, SharedWasVetted, Downloadable
<1>7. AnnouncedOK'
  BY DEF AnnouncedOK, Completing
<1>8. ScanExclusive'
  BY DEF ScanExclusive, Work
<1>9. VersionOK'
  BY DEF VersionOK, DownloadedIsVetted, Downloadable
<1>10. ObjectOK'
  BY DEF ObjectOK, DownloadableHasObject, Downloadable
<1>11. PurgedOK'
  BY DEF PurgedOK, PurgedHasNoObject
<1> QED
  BY <1>1, <1>2, <1>3, <1>4, <1>5, <1>6, <1>7, <1>8, <1>9, <1>10, <1>11

\* A run that finds the object clean has vetted the version there is.
LEMMA ScanObjectInv ==
  ASSUME IInv, NEW j \in ScanRuns, NEW a \in Attachments, ScanObject(j, a)
  PROVE  IInv'
<1> USE DEF IInv, ScanObject, Fault, NoScan
<1>1. TypeOK'
  BY DEF TypeOK, Scan
<1> USE <1>1 DEF TypeOK
<1>2. CallShape' /\ PurgeShape' /\ AnnouncedOK' /\ PurgedOK'
  BY DEF CallShape, PurgeShape, AnnouncedOK, PurgedOK, Completing, PurgedHasNoObject
<1>3. ScanShape'
  BY DEF ScanShape
<1>4. WorkCompleted'
  BY DEF WorkCompleted, Work
<1>5. VettedOK'
  BY DEF VettedOK, SharedWasVetted, Downloadable, Call
<1>6. ScanExclusive'
  BY DEF ScanExclusive, Work
<1>7. VersionOK'
  BY DEF VersionOK, DownloadedIsVetted, Downloadable
<1>8. ObjectOK'
  BY DEF ObjectOK, DownloadableHasObject, Downloadable
<1> QED
  BY <1>1, <1>2, <1>3, <1>4, <1>5, <1>6, <1>7, <1>8

\* The row whose object goes is not "scanned", and no other run works on it, unless it was taken back.
LEMMA DeleteBlockedInv ==
  ASSUME IInv, NEW j \in ScanRuns, DeleteBlocked(j)
  PROVE  IInv'
<1> USE DEF IInv, DeleteBlocked
<1>1. TypeOK'
  <2>1. scan[j] \in Scan /\ scan[j].att \in Attachments
    BY DEF TypeOK, ScanShape
  <2>2. scan' \in [ScanRuns -> Scan]
    BY <2>1 DEF TypeOK, Scan
  <2>3. object' \in [Attachments -> 0..MaxPuts] /\ undeleted' \in SUBSET Attachments
    BY <2>1 DEF TypeOK
  <2> QED
    BY <2>2, <2>3 DEF TypeOK
<1> USE <1>1 DEF TypeOK
<1>2. CallShape' /\ PurgeShape' /\ AnnouncedOK'
  BY DEF CallShape, PurgeShape, AnnouncedOK, Completing
<1>3. ScanShape'
  BY DEF ScanShape
<1>4. WorkCompleted'
  BY DEF WorkCompleted, Work
<1>5. VettedOK'
  BY DEF VettedOK, SharedWasVetted, Downloadable, ScanShape, Call
<1>6. ScanExclusive'
  BY DEF ScanExclusive, Work
<1>7. VersionOK'
  <2>1. \A b \in Attachments : object'[b] = 0 \/ object'[b] = object[b]
    OBVIOUS
  <2>2. \A i \in ScanRuns : scan'[i].verdict = scan[i].verdict /\ scan'[i].att = scan[i].att
    OBVIOUS
  <2>3. UNCHANGED <<status, late, vetted>>
    OBVIOUS
  <2>4. \A i \in ScanRuns : scan[i].verdict = "scanned" => scan[i].att \in Attachments
    BY DEF ScanShape, Scan
  <2>5. VersionOK
    OBVIOUS
  <2> HIDE DEF DeleteBlocked, IInv, TypeOK
  <2> QED
    BY <2>1, <2>2, <2>3, <2>4, <2>5 DEF VersionOK, DownloadedIsVetted, Downloadable
<1>8. ObjectOK'
  <2>1. scan[j].att \in Attachments /\ scan[j].att \in Work(j) /\ scan[j].verdict = "blocked"
    BY DEF ScanShape, Work
  <2>2. \A b \in Attachments : b # scan[j].att => object'[b] = object[b]
    BY <2>1
  <2>3. \A i \in ScanRuns : scan'[i].verdict = scan[i].verdict /\ scan'[i].att = scan[i].att
    OBVIOUS
  <2>4. \A i \in ScanRuns : scan[i].verdict = "scanned" => scan[i].att \in Attachments /\ scan[i].att \in Work(i)
    BY DEF ScanShape, Work, Scan
  <2> HIDE DEF DeleteBlocked
  <2>5. UNCHANGED <<status, home, deleted, reverted>>
    BY DEF DeleteBlocked
  <2>6. DownloadableHasObject'
    BY <2>1, <2>2, <2>5 DEF ObjectOK, DownloadableHasObject, Downloadable, ScanExclusive
  <2> QED
    BY <2>1, <2>2, <2>3, <2>4, <2>5, <2>6 DEF ObjectOK, ScanExclusive
<1>9. PurgedOK'
  BY DEF PurgedOK, PurgedHasNoObject, Purge
<1> QED
  BY <1>1, <1>2, <1>3, <1>4, <1>5, <1>6, <1>7, <1>8, <1>9

\* The verdict is written over a row that is not deleted.
LEMMA SettleInv ==
  ASSUME IInv, NEW j \in ScanRuns, Settle(j)
  PROVE  IInv'
<1> USE DEF IInv, Settle, UpdateStatus, Live, NextRow, NoScan
<1>1. TypeOK'
  BY DEF TypeOK, Status, Scan
<1> USE <1>1 DEF TypeOK
\* What the write does to the row.
<1> DEFINE b == scan[j].att
<1>0. /\ b \in Attachments
      /\ scan[j].verdict \in {"uploaded", "scanned", "blocked"}
      /\ IF status[b] \in {"none", "deleted"} THEN status' = status
         ELSE status' = [status EXCEPT ![b] = scan[j].verdict]
  BY DEF ScanShape, Scan
<1> USE <1>0
<1>2. CallShape'
  BY DEF CallShape
<1>3. ScanShape'
  BY DEF ScanShape
<1>4. PurgeShape'
  BY DEF PurgeShape
<1>5. WorkCompleted'
  BY DEF WorkCompleted, Work
<1>6. VettedOK'
  BY DEF VettedOK, SharedWasVetted, Downloadable
<1>7. AnnouncedOK'
  <2>1. b \in Work(j) /\ status[b] \notin {"none", "pending"}
    BY DEF Work, WorkCompleted
  <2>2. status' = status \/ status[b] \in {"uploaded", "scanning", "scanned", "blocked"}
    BY <2>1 DEF Status
  <2> HIDE DEF Settle
  <2>3. UNCHANGED <<announced, call>>
    BY DEF Settle
  <2> QED
    BY <2>2, <2>3 DEF AnnouncedOK, Completing
<1>8. ScanExclusive'
  BY DEF ScanExclusive, Work, ScanShape
<1>9. VersionOK'
  BY DEF VersionOK, DownloadedIsVetted, Downloadable
<1>10. ObjectOK'
  BY DEF ObjectOK, DownloadableHasObject, Downloadable
<1>11. PurgedOK'
  BY DEF PurgedOK, PurgedHasNoObject
<1> QED
  BY <1>1, <1>2, <1>3, <1>4, <1>5, <1>6, <1>7, <1>8, <1>9, <1>10, <1>11

LEMMA SettleFailsInv ==
  ASSUME IInv, NEW j \in ScanRuns, SettleFails(j)
  PROVE  IInv'
<1> USE DEF IInv, SettleFails, Fault, NoScan
<1>1. TypeOK'
  BY DEF TypeOK, Scan
<1> USE <1>1 DEF TypeOK
<1>2. CallShape' /\ PurgeShape' /\ AnnouncedOK' /\ PurgedOK'
  BY DEF CallShape, PurgeShape, AnnouncedOK, PurgedOK, Completing, PurgedHasNoObject
<1>3. ScanShape'
  BY DEF ScanShape
<1>4. WorkCompleted'
  BY DEF WorkCompleted, Work
<1>5. VettedOK'
  BY DEF VettedOK, SharedWasVetted, Downloadable, ScanShape
<1>6. ScanExclusive'
  BY DEF ScanExclusive, Work
<1>7. VersionOK'
  BY DEF VersionOK, DownloadedIsVetted, Downloadable
<1>8. ObjectOK'
  BY DEF ObjectOK, DownloadableHasObject, Downloadable
<1> QED
  BY <1>1, <1>2, <1>3, <1>4, <1>5, <1>6, <1>7, <1>8

LEMMA ScanDiesInv ==
  ASSUME IInv, NEW j \in ScanRuns, ScanDies(j)
  PROVE  IInv'
<1> USE DEF IInv, ScanDies, Fault, NoScan
<1>1. TypeOK'
  BY DEF TypeOK, Scan
<1> USE <1>1 DEF TypeOK
<1>2. CallShape' /\ PurgeShape' /\ AnnouncedOK' /\ PurgedOK'
  BY DEF CallShape, PurgeShape, AnnouncedOK, PurgedOK, Completing, PurgedHasNoObject
<1>3. ScanShape'
  BY DEF ScanShape
<1>4. WorkCompleted'
  BY DEF WorkCompleted, Work
<1>5. VettedOK'
  BY DEF VettedOK, SharedWasVetted, Downloadable
<1>6. ScanExclusive'
  BY DEF ScanExclusive, Work
<1>7. VersionOK'
  BY DEF VersionOK, DownloadedIsVetted, Downloadable
<1>8. ObjectOK'
  BY DEF ObjectOK, DownloadableHasObject, Downloadable
<1> QED
  BY <1>1, <1>2, <1>3, <1>4, <1>5, <1>6, <1>7, <1>8

LEMMA PurgeTickInv ==
  ASSUME IInv, NEW p \in PurgeRuns, NEW S \in SUBSET Servers, PurgeTick(p, S)
  PROVE  IInv'
<1> USE DEF IInv, PurgeTick, NoPurge
<1>1. TypeOK'
  BY DEF TypeOK, Purge
<1> USE <1>1 DEF TypeOK
<1>2. CallShape' /\ ScanShape' /\ WorkCompleted' /\ VettedOK' /\ AnnouncedOK' /\ ScanExclusive' /\ VersionOK' /\ ObjectOK'
  BY DEF CallShape, ScanShape, WorkCompleted, VettedOK, AnnouncedOK, ScanExclusive,
     VersionOK, ObjectOK, Work, SharedWasVetted, Downloadable, Completing,
     DownloadedIsVetted, DownloadableHasObject
<1>3. PurgeShape'
  BY DEF PurgeShape
<1>4. PurgedOK'
  BY DEF PurgedOK, PurgedHasNoObject
<1> QED
  BY <1>1, <1>2, <1>3, <1>4

\* The rows listed are those of a deleted server.
LEMMA PurgeListInv ==
  ASSUME IInv, NEW p \in PurgeRuns, NEW s \in Servers, PurgeList(p, s)
  PROVE  IInv'
<1> USE DEF IInv, PurgeList, NextServer, Live, NoPurge
<1>1. TypeOK'
  BY DEF TypeOK, Purge
<1> USE <1>1 DEF TypeOK
<1>2. CallShape' /\ ScanShape' /\ WorkCompleted' /\ VettedOK' /\ AnnouncedOK' /\ ScanExclusive' /\ VersionOK' /\ ObjectOK'
  BY DEF CallShape, ScanShape, WorkCompleted, VettedOK, AnnouncedOK, ScanExclusive,
     VersionOK, ObjectOK, Work, SharedWasVetted, Downloadable, Completing,
     DownloadedIsVetted, DownloadableHasObject
<1>3. PurgeShape'
  BY DEF PurgeShape
<1>4. PurgedOK'
  BY DEF PurgedOK, PurgedHasNoObject
<1> QED
  BY <1>1, <1>2, <1>3, <1>4

\* The object belongs to a deleted server; if it stays, that is recorded.
LEMMA PurgeObjectInv ==
  ASSUME IInv, NEW p \in PurgeRuns, NEW a \in Attachments, PurgeObject(p, a)
  PROVE  IInv'
<1> USE DEF IInv, PurgeObject
<1>1. TypeOK'
  <2>1. purge[p] \in Purge
    BY DEF TypeOK
  <2>2. purge' \in [PurgeRuns -> Purge]
    BY <2>1 DEF TypeOK, Purge
  <2>3. object' \in [Attachments -> 0..MaxPuts] /\ undeleted' \in SUBSET Attachments
    BY DEF TypeOK
  <2> QED
    BY <2>2, <2>3 DEF TypeOK
<1> USE <1>1 DEF TypeOK
<1>2. CallShape' /\ ScanShape' /\ WorkCompleted' /\ VettedOK' /\ AnnouncedOK' /\ ScanExclusive'
  BY DEF CallShape, ScanShape, WorkCompleted, VettedOK, AnnouncedOK, ScanExclusive, Work,
     SharedWasVetted, Downloadable, Completing
<1>3. PurgeShape'
  BY DEF PurgeShape
<1>4. VersionOK'
  BY DEF VersionOK, DownloadedIsVetted, Downloadable, ScanShape, Scan
<1>5. ObjectOK'
  BY DEF ObjectOK, DownloadableHasObject, Downloadable, PurgeShape
<1>6. PurgedOK'
  BY DEF PurgedOK, PurgedHasNoObject, Purge
<1> QED
  BY <1>1, <1>2, <1>3, <1>4, <1>5, <1>6

\* All the objects of the rows listed have been dealt with.
LEMMA PurgeRowsInv ==
  ASSUME IInv, NEW p \in PurgeRuns, PurgeRows(p)
  PROVE  IInv'
<1> USE DEF IInv, PurgeRows, NextServer, NoPurge
<1>1. TypeOK'
  BY DEF TypeOK, Status, Purge
<1> USE <1>1 DEF TypeOK
<1>2. ScanShape'
  BY DEF ScanShape
<1>3. CallShape'
  BY DEF CallShape
<1>4. PurgeShape'
  BY DEF PurgeShape, Purge
<1>5. WorkCompleted'
  BY DEF WorkCompleted, Work, Scan
<1>6. VettedOK'
  BY DEF VettedOK, SharedWasVetted, Downloadable
<1>7. AnnouncedOK'
  BY DEF AnnouncedOK, Completing
<1>8. ScanExclusive'
  BY DEF ScanExclusive, Work
<1>9. VersionOK'
  BY DEF VersionOK, DownloadedIsVetted, Downloadable
<1>10. ObjectOK'
  BY DEF ObjectOK, DownloadableHasObject, Downloadable
<1>11. PurgedOK'
  BY DEF PurgedOK, PurgedHasNoObject
<1> QED
  BY <1>1, <1>2, <1>3, <1>4, <1>5, <1>6, <1>7, <1>8, <1>9, <1>10, <1>11

LEMMA PurgeDiesInv ==
  ASSUME IInv, NEW p \in PurgeRuns, PurgeDies(p)
  PROVE  IInv'
<1> USE DEF IInv, PurgeDies, Fault, NoPurge
<1>1. TypeOK'
  BY DEF TypeOK, Purge
<1> USE <1>1 DEF TypeOK
<1>2. CallShape' /\ ScanShape' /\ WorkCompleted' /\ VettedOK' /\ AnnouncedOK' /\ ScanExclusive' /\ VersionOK' /\ ObjectOK'
  <2>1. UNCHANGED <<status, home, linked, announced, deleted, object, call, scan, puts, vetted,
                    reverted, late>>
    BY DEF rows, history
  <2> HIDE DEF PurgeDies, Fault, NoPurge
  <2>2. CallShape' /\ ScanShape' /\ WorkCompleted'
    BY <2>1 DEF CallShape, ScanShape, WorkCompleted, Work
  <2>3. VettedOK' /\ AnnouncedOK'
    BY <2>1 DEF VettedOK, AnnouncedOK, SharedWasVetted, Downloadable, Completing
  <2>4. ScanExclusive'
    BY <2>1 DEF ScanExclusive, Work
  <2>5. VersionOK' /\ ObjectOK'
    BY <2>1 DEF VersionOK, ObjectOK, Downloadable, DownloadedIsVetted, DownloadableHasObject
  <2> QED BY <2>2, <2>3, <2>4, <2>5
<1>3. PurgeShape'
  BY DEF PurgeShape
<1>4. PurgedOK'
  BY DEF PurgedOK, PurgedHasNoObject
<1> QED
  BY <1>1, <1>2, <1>3, <1>4


-----------------------------------------------------------------------------
LEMMA StutterInv ==
  ASSUME IInv, UNCHANGED vars
  PROVE  IInv'
BY DEF vars, IInv, TypeOK, CallShape, ScanShape, PurgeShape, Work, WorkCompleted, VettedOK,
   AnnouncedOK, ScanExclusive, VersionOK, ObjectOK, PurgedOK, SharedWasVetted, Downloadable,
   DownloadedIsVetted, DownloadableHasObject, PurgedHasNoObject, Completing

LEMMA NextInv == IInv /\ [Next]_vars => IInv'
<1> SUFFICES ASSUME IInv, [Next]_vars PROVE IInv'
  OBVIOUS
<1>1. CASE ApiNext
  BY <1>1, InitUploadInv, PutInv, CompleteReadInv, CompleteWriteInv, SendReadInv, SendWriteInv,
     CallFailsInv, DeleteServerInv DEF ApiNext
<1>2. CASE ScanNext
  BY <1>2, ScanTickInv, ScanObjectInv, DeleteBlockedInv, SettleInv, SettleFailsInv, ScanDiesInv
     DEF ScanNext
<1>3. CASE PurgeNext
  BY <1>3, PurgeTickInv, PurgeListInv, PurgeObjectInv, PurgeRowsInv, PurgeDiesInv DEF
     PurgeNext
<1> QED
  BY <1>1, <1>2, <1>3, StutterInv DEF Next

\* The invariant of every behaviour.
THEOREM Invariance == Spec => []IInv
BY InitInv, NextInv, PTL DEF Spec

\* The variables hold rows, objects, calls and runs of the kinds the code has.
THEOREM TypeCorrect == Spec => []TypeOK
<1>1. IInv => TypeOK
  BY DEF IInv
<1> QED BY <1>1, Invariance, PTL

\* sendMessage and getDownloadUrl let through only what passed a scan, whatever
\* calls, runs and failures come between a check and the write that follows it.
THEOREM SharedPassedScan == Spec => []SharedWasVetted
<1>1. IInv => SharedWasVetted
  BY DEF IInv, VettedOK
<1> QED BY <1>1, Invariance, PTL

\* What can be downloaded is the version that was scanned, unless the client
\* used its presigned URL again after completeUpload.
THEOREM DownloadedPassedScan == Spec => []DownloadedIsVetted
<1>1. IInv => DownloadedIsVetted
  BY DEF IInv, VersionOK
<1> QED BY <1>1, Invariance, PTL

\* No scan run takes the object of an attachment another run has let through,
\* unless one of them had been taken for stuck.
THEOREM DownloadableIsThere == Spec => []DownloadableHasObject
<1>1. IInv => DownloadableHasObject
  BY DEF IInv, ObjectOK
<1> QED BY <1>1, Invariance, PTL

\* completeUpload announces a serial upload exactly once.
THEOREM SerialUploadAnnouncedOnce == Spec => []AnnouncedOnce
<1>1. IInv => AnnouncedOnce
  BY DEF IInv, AnnouncedOK, AnnouncedOnce
<1> QED BY <1>1, Invariance, PTL

\* The purge leaves no object that MinIO was willing to delete.
THEOREM PurgeIsThorough == Spec => []PurgedHasNoObject
<1>1. IInv => PurgedHasNoObject
  BY DEF IInv, PurgedOK
<1> QED BY <1>1, Invariance, PTL

-----------------------------------------------------------------------------
\* What a step can do to a row.

\* No write of a call or of a scan run that read the row before the purge
\* brings it back.
THEOREM PurgeIsFinal == Spec => PurgedForGood
<1>1. ASSUME IInv, Next, NEW a \in Attachments, status[a] = "deleted"
      PROVE  status'[a] = "deleted"
  <2> USE <1>1 DEF IInv, TypeOK
  <2>1. CASE ApiNext
    <3>1. ASSUME NEW b \in Attachments, NEW s \in Servers, InitUpload(b, s)
          PROVE  status'[a] = "deleted"
      BY <3>1 DEF InitUpload
    <3>2. ASSUME NEW r \in Requests, NEW b \in Attachments, CompleteWrite(r, b)
          PROVE  status'[a] = "deleted"
      BY <3>2 DEF CompleteWrite, UpdateStatus, Live
    <3> QED
      BY <2>1, <3>1, <3>2 DEF ApiNext, Put, CompleteRead, SendRead, SendWrite, CallFails,
         DeleteServer
  <2>2. CASE ScanNext
    BY <2>2 DEF ScanNext, ScanTick, Claimable, InStatus, ScanObject, DeleteBlocked, Settle,
       UpdateStatus, Live, SettleFails, ScanDies
  <2>3. CASE PurgeNext
    BY <2>3 DEF PurgeNext, PurgeTick, PurgeList, PurgeObject, PurgeRows, PurgeDies
  <2> QED BY <2>1, <2>2, <2>3 DEF Next
<1>2. IInv /\ [Next]_vars =>
        [\A a \in Attachments : status[a] = "deleted" => status'[a] = "deleted"]_vars
  BY <1>1
<1> QED BY <1>2, Invariance, PTL DEF Spec, PurgedForGood

\* A verdict on a serial upload that no run took back is the last one before
\* the purge: no other call or run holds the row when it is written.
THEOREM VerdictIsFinal == Spec => VerdictStands
<1>1. ASSUME IInv, Next, NEW a \in SerialUploads \ reverted,
             status[a] \in {"scanned", "blocked"}
      PROVE  status'[a] \in {status[a], "deleted"}
  <2> USE <1>1 DEF IInv, TypeOK
  <2>1. CASE ApiNext
    <3>1. ASSUME NEW r \in Requests, NEW b \in Attachments, CompleteWrite(r, b)
          PROVE  status'[a] = status[a]
      <4>1. b # a
        BY <3>1 DEF CompleteWrite, AnnouncedOK, Completing
      <4> QED BY <3>1, <4>1 DEF CompleteWrite, UpdateStatus
    <3> QED
      BY <2>1, <3>1 DEF ApiNext, InitUpload, Put, CompleteRead, SendRead, SendWrite,
         CallFails, DeleteServer
  <2>2. CASE ScanNext
    <3>1. ASSUME NEW j \in ScanRuns, Settle(j)  PROVE scan[j].att # a
      <4>1. a \notin Work(j)
        BY DEF ScanExclusive
      <4> QED BY <3>1, <4>1 DEF Work
    <3> QED
      BY <2>2, <3>1 DEF ScanNext, ScanTick, Claimable, InStatus, ScanObject, DeleteBlocked,
         Settle, UpdateStatus, SettleFails, ScanDies
  <2>3. CASE PurgeNext
    BY <2>3 DEF PurgeNext, PurgeTick, PurgeList, PurgeObject, PurgeRows, PurgeDies
  <2> QED BY <2>1, <2>2, <2>3 DEF Next
<1>2. IInv /\ [Next]_vars =>
        [\A a \in SerialUploads \ reverted :
            status[a] \in {"scanned", "blocked"} => status'[a] \in {status[a], "deleted"}]_vars
  BY <1>1
<1> QED BY <1>2, Invariance, PTL DEF Spec, VerdictStands
=============================================================================
