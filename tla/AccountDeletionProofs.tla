------------------------ MODULE AccountDeletionProofs ------------------------
(***************************************************************************)
(* Theorems about uploaded files and the deletion of accounts: for any     *)
(* number of accounts, files, deletion requests, failed calls and crashes, *)
(* no file of a deleted account is forgotten, a completed receipt and a    *)
(* reply of "nothing pending" are true, and no file goes without one of    *)
(* the accounts that uploaded or posted it.                                *)
(*                                                                         *)
(* The queue is what everything rests on.  It never loses an entry, so the *)
(* invariant says who gets into it (RowsFound, QueueOfTheGone), that a     *)
(* file leaves the disk only through it (OnDiskOrQueued), and what it      *)
(* means for an entry to be marked: the transactions under way speak the   *)
(* truth about the disk and about each other (MarksAreTrue).               *)
(***************************************************************************)
EXTENDS AccountDeletion, WellFoundedInduction, TLAPS

(* TypeOK but for the number of faults, which nothing else depends on.       *)
Types ==
    /\ accounts \subseteq Accounts
    /\ disk \subseteq Files
    /\ owners \subseteq Accounts \X Files
    /\ messages \subseteq Accounts \X Files
    /\ uploads \in [Files -> Upload]
    /\ receipts \in [Receipts -> {"none", "open", "completed"}]
    /\ queue \subseteq Entry
    /\ removed \subseteq queue
    /\ jobs \in [Jobs -> Job]
    /\ marks \subseteq Mark

Kept == {"registered", "done", "unreported"}
Queued(f) == \E e \in queue : e.file = f

(* A registered upload has its row while its account exists, and an entry of *)
(* the queue from then on.                                                   *)
RowsFound ==
    \A f \in Files : uploads[f].phase \in Kept =>
        /\ uploads[f].owner \in accounts => <<uploads[f].owner, f>> \in owners
        /\ uploads[f].owner \notin accounts => Queued(f)

(* Rows speak of uploads that have begun, under the name of their owner.     *)
RowsOfUploads ==
    \A a \in Accounts, f \in Files :
        /\ <<a, f>> \in owners => uploads[f].phase # "none" /\ uploads[f].owner = a
        /\ <<a, f>> \in messages => uploads[f].phase # "none"

OnDiskOrQueued ==
    \A f \in Files \ disk :
        uploads[f].phase \in Kept \cup {"registering"} => Queued(f)

(* What is in the queue was uploaded or posted by an account that is gone,   *)
(* and its deletion request is past delete_account_complete.                 *)
QueueOfTheGone ==
    \A e \in queue :
        /\ uploads[e.file].phase # "none"
        /\ \E a \in Accounts \ accounts :
              uploads[e.file].owner = a \/ <<a, e.file>> \in messages
        /\ jobs[e.receipt].phase \notin {"idle", "deleting"}

RemovedIsGone == \A e \in removed : e.file \notin disk

(* account_deletion_file_removed is called for files that are off the disk;  *)
(* it completes a receipt only when all the other entries have been marked;  *)
(* and a run of removeDeletionFiles awaits one call at a time.               *)
MarksAreTrue ==
    \A m \in marks :
        /\ m.entry \in queue
        /\ m.entry.file \notin disk
        /\ m.state = "last" =>
              \A e \in queue : e.receipt = m.entry.receipt /\ e # m.entry =>
                                  e \in removed
        /\ m.awaited => jobs[m.job].phase = "marking"
OneAwaited ==
    \A m, n \in marks : m.awaited /\ n.awaited /\ m.job = n.job => m = n

TodoIsQueued == \A j \in Jobs : jobs[j].todo \subseteq queue

CompletedIsMarked ==
    \A r \in Receipts : receipts[r] = "completed" =>
        \A e \in queue : e.receipt = r => e \in removed

(* A handler that has met no failure still has on its list what is not       *)
(* marked.                                                                   *)
Accounted ==
    \A r \in Receipts :
        /\ jobs[r].phase \in {"removing", "marking", "replied"} /\ jobs[r].failed = 0 =>
              \A e \in queue : e.receipt = r => e \in removed \/ e \in jobs[r].todo
        /\ jobs[r].phase = "replied" => jobs[r].todo = {}

DeletionInv ==
    /\ Types
    /\ RowsFound /\ RowsOfUploads /\ OnDiskOrQueued
    /\ QueueOfTheGone
    /\ RemovedIsGone /\ MarksAreTrue /\ OneAwaited
    /\ TodoIsQueued
    /\ CompletedIsMarked
    /\ Accounted

-----------------------------------------------------------------------------
(* The entry a run works on is one of its list: the order of the entries, by *)
(* receipt and then by file, has a least element.                            *)

LEMMA LeastNumber ==
    ASSUME NEW T \in SUBSET Nat, T # {}
    PROVE  \E m \in T : \A n \in T : m <= n
<1> DEFINE R == {ss \in Nat \X Nat : ss[1] < ss[2]}
<1>1. R = OpToRel(<, Nat)
  BY DEF OpToRel
<1>2. IsWellFoundedOn(R, Nat)
  BY <1>1, NatLessThanWellFounded
<1>3. \A m, n \in Nat : <<m, n>> \notin R => n <= m
  OBVIOUS
<1> HIDE DEF R
<1>4. \E m \in T : \A n \in T : ~(<<n, m>> \in R)
  BY <1>2, WFMin
<1> QED
  BY <1>3, <1>4

LEMMA CurrentIsOnTheList ==
    ASSUME Types, NEW j \in Jobs, jobs[j].todo # {}
    PROVE  Current(j) \in jobs[j].todo
<1> DEFINE T == jobs[j].todo
<1>1. T \subseteq Entry /\ T # {}
  BY DEF Types, Job
<1>2. \A e \in T : e.receipt \in Nat /\ e.file \in Nat
  BY <1>1, NamesAreOrdered DEF Entry
<1> HIDE DEF T
<1>3. PICK n \in Nat : (\E e \in T : e.receipt = n) /\ \A e \in T : n <= e.receipt
  <2> DEFINE N == {e.receipt : e \in T}
  <2>1. N \in SUBSET Nat /\ N # {}
    BY <1>1, <1>2
  <2>2. PICK m \in N : \A n \in N : m <= n
    <3> HIDE DEF N
    <3> QED
      BY <2>1, LeastNumber
  <2> QED
    BY <2>1, <2>2
<1>4. PICK k \in Nat : /\ \E e \in T : e.receipt = n /\ e.file = k
                       /\ \A e \in T : e.receipt = n => k <= e.file
  <2> DEFINE N == {e.file : e \in {x \in T : x.receipt = n}}
  <2>1. N \in SUBSET Nat /\ N # {}
    BY <1>2, <1>3
  <2>2. PICK m \in N : \A k \in N : m <= k
    <3> HIDE DEF N
    <3> QED
      BY <2>1, LeastNumber
  <2> QED
    BY <2>1, <2>2
<1>5. PICK e \in T : e.receipt = n /\ e.file = k
  BY <1>4
<1>6. \A g \in T : ~Before(g, e)
  BY <1>2, <1>3, <1>4, <1>5 DEF Before
<1>7. Current(j) = CHOOSE x \in T : \A g \in T : ~Before(g, x)
  BY DEF Current, T
<1> QED
  BY <1>5, <1>6, <1>7 DEF T

-----------------------------------------------------------------------------
(* Uploads and messages. *)

LEMMA WriteUploadStep ==
    ASSUME DeletionInv, NEW a \in Accounts, NEW f \in Files, WriteUpload(a, f)
    PROVE  DeletionInv'
<1>1. /\ uploads' = [uploads EXCEPT ![f] = [phase |-> "registering", owner |-> a]]
      /\ uploads[f].phase = "none"
      /\ disk' = disk \cup {f}
      /\ UNCHANGED <<accounts, owners, messages, receipts, queue, removed, jobs,
                     marks>>
  BY DEF WriteUpload, tables
<1>2. /\ uploads'[f].phase = "registering" /\ uploads'[f].owner = a
      /\ \A g \in Files \ {f} : uploads'[g] = uploads[g]
  BY <1>1 DEF DeletionInv, Types
<1>3. Types'
  BY <1>1 DEF DeletionInv, Types, Upload
<1>4. \A e \in queue : e \in Entry /\ e.file \in Files /\ e.file # f
  BY <1>1 DEF DeletionInv, Types, QueueOfTheGone, Entry
<1>5. \A a2 \in Accounts : <<a2, f>> \notin owners /\ <<a2, f>> \notin messages
  BY <1>1 DEF DeletionInv, RowsOfUploads
<1>6. RowsFound'
  BY <1>1, <1>2 DEF DeletionInv, RowsFound, Kept, Queued
<1>7. RowsOfUploads'
  <2> SUFFICES ASSUME NEW b \in Accounts, NEW g \in Files
               PROVE  /\ <<b, g>> \in owners =>
                            uploads'[g].phase # "none" /\ uploads'[g].owner = b
                      /\ <<b, g>> \in messages => uploads'[g].phase # "none"
    BY <1>1 DEF RowsOfUploads
  <2>1. CASE g = f
    BY <1>5, <2>1
  <2>2. CASE g # f
    BY <1>2, <2>2 DEF DeletionInv, RowsOfUploads
  <2> QED
    BY <2>1, <2>2
<1>8. OnDiskOrQueued'
  BY <1>1, <1>2 DEF DeletionInv, OnDiskOrQueued, Queued
<1>9. QueueOfTheGone'
  <2> SUFFICES ASSUME NEW e \in queue
               PROVE  /\ uploads'[e.file].phase # "none"
                      /\ \E b \in Accounts \ accounts :
                            uploads'[e.file].owner = b \/ <<b, e.file>> \in messages
                      /\ jobs[e.receipt].phase \notin {"idle", "deleting"}
    BY <1>1 DEF QueueOfTheGone
  <2>1. uploads'[e.file] = uploads[e.file]
    BY <1>2, <1>4
  <2> QED
    BY <2>1 DEF DeletionInv, QueueOfTheGone
<1>10. RemovedIsGone' /\ MarksAreTrue' /\ OneAwaited'
  BY <1>1, <1>4 DEF DeletionInv, Types, RemovedIsGone, MarksAreTrue, OneAwaited
<1>11. TodoIsQueued' /\ CompletedIsMarked' /\ Accounted'
  BY <1>1 DEF DeletionInv, TodoIsQueued, CompletedIsMarked, Accounted
<1> QED
  BY <1>3, <1>6, <1>7, <1>8, <1>9, <1>10, <1>11 DEF DeletionInv

(* The phase of an upload moves on; rows and the disk may follow. *)
LEMMA UploadMovesOn ==
    ASSUME DeletionInv, NEW f \in Files, NEW phase,
           phase \in {"registered", "done", "failed"},
           uploads[f].phase \in {"registering", "registered"},
           uploads' = [uploads EXCEPT ![f].phase = phase],
           phase = "registered" => /\ uploads[f].owner \in accounts
                                   /\ owners' = owners \cup {<<uploads[f].owner, f>>},
           phase # "registered" => owners' = owners,
           phase = "done" => uploads[f].phase = "registered",
           phase = "failed" => disk' \in {disk, disk \ {f}},
           phase # "failed" => disk' = disk,
           UNCHANGED <<accounts, messages, receipts, queue, removed, jobs, marks>>
    PROVE  DeletionInv'
<1>1. uploads \in [Files -> Upload]
  BY DEF DeletionInv, Types
<1>2. /\ uploads' \in [Files -> Upload]
      /\ uploads'[f].phase = phase /\ uploads'[f].owner = uploads[f].owner
      /\ \A g \in Files \ {f} : uploads'[g] = uploads[g]
  BY <1>1 DEF Upload
<1>3. uploads[f].owner \in Accounts \cup {NoAccount}
  BY <1>1 DEF Upload
<1>4. Types'
  BY <1>2 DEF DeletionInv, Types
<1>5. RowsFound'
  BY <1>2 DEF DeletionInv, RowsFound, Kept, Queued
<1>6. RowsOfUploads'
  <2> SUFFICES ASSUME NEW a \in Accounts, NEW g \in Files
               PROVE  /\ <<a, g>> \in owners' =>
                            uploads'[g].phase # "none" /\ uploads'[g].owner = a
                      /\ <<a, g>> \in messages => uploads'[g].phase # "none"
    BY DEF RowsOfUploads
  <2>1. uploads'[g].owner = uploads[g].owner
        /\ (uploads[g].phase # "none" => uploads'[g].phase # "none")
    BY <1>2
  <2>2. <<a, g>> \in owners' =>
           <<a, g>> \in owners \/ (a = uploads[f].owner /\ g = f)
    BY <1>2
  <2> QED
    BY <2>1, <2>2 DEF DeletionInv, RowsOfUploads
<1>7. OnDiskOrQueued'
  BY <1>2 DEF DeletionInv, Types, OnDiskOrQueued, Kept, Queued
<1>8. QueueOfTheGone'
  <2> SUFFICES ASSUME NEW e \in queue
               PROVE  /\ uploads'[e.file].phase # "none"
                      /\ \E b \in Accounts \ accounts :
                            uploads'[e.file].owner = b \/ <<b, e.file>> \in messages
                      /\ jobs[e.receipt].phase \notin {"idle", "deleting"}
    BY DEF QueueOfTheGone
  <2>1. e.file \in Files
    BY DEF DeletionInv, Types, Entry
  <2>2. uploads'[e.file].owner = uploads[e.file].owner
        /\ (uploads[e.file].phase # "none" => uploads'[e.file].phase # "none")
    BY <1>2, <2>1
  <2> QED
    BY <2>2 DEF DeletionInv, QueueOfTheGone
<1>9. RemovedIsGone' /\ MarksAreTrue' /\ OneAwaited'
  BY DEF DeletionInv, RemovedIsGone, MarksAreTrue, OneAwaited
<1>10. TodoIsQueued' /\ CompletedIsMarked' /\ Accounted'
  BY DEF DeletionInv, TodoIsQueued, CompletedIsMarked, Accounted
<1> QED
  BY <1>4, <1>5, <1>6, <1>7, <1>8, <1>9, <1>10 DEF DeletionInv

LEMMA UploadSteps ==
    ASSUME DeletionInv, NEW f \in Files,
           RegisterUpload(f) \/ FinishUpload(f) \/ FailUpload(f)
    PROVE  DeletionInv'
<1>1. CASE RegisterUpload(f)
  BY <1>1, UploadMovesOn DEF RegisterUpload
<1>2. CASE FinishUpload(f)
  BY <1>2, UploadMovesOn DEF FinishUpload, tables
<1>3. CASE FailUpload(f)
  <2>1. uploads[f].phase \in {"registering", "registered"}
    BY <1>3 DEF FailUpload
  <2>2. disk' \in {disk, disk \ {f}}
    BY <1>3 DEF FailUpload
  <2> QED
    BY <1>3, <2>1, <2>2, UploadMovesOn DEF FailUpload, tables
<1> QED
  BY <1>1, <1>2, <1>3

LEMMA PostMessageStep ==
    ASSUME DeletionInv, NEW a \in Accounts, NEW f \in Files, PostMessage(a, f)
    PROVE  DeletionInv'
<1>1. /\ messages' = messages \cup {<<a, f>>}
      /\ uploads[f].phase = "done"
      /\ UNCHANGED <<accounts, disk, owners, uploads, receipts, queue, removed,
                     jobs, marks>>
  BY DEF PostMessage
<1>2. Types' /\ RowsFound' /\ OnDiskOrQueued'
  BY <1>1 DEF DeletionInv, Types, RowsFound, OnDiskOrQueued, Queued
<1>3. RowsOfUploads'
  BY <1>1 DEF DeletionInv, RowsOfUploads
<1>4. QueueOfTheGone'
  BY <1>1 DEF DeletionInv, QueueOfTheGone
<1>5. RemovedIsGone' /\ MarksAreTrue' /\ OneAwaited' /\ TodoIsQueued'
      /\ CompletedIsMarked' /\ Accounted'
  BY <1>1 DEF DeletionInv, RemovedIsGone, MarksAreTrue, OneAwaited, TodoIsQueued,
              CompletedIsMarked, Accounted
<1> QED
  BY <1>2, <1>3, <1>4, <1>5 DEF DeletionInv

-----------------------------------------------------------------------------
(* A handler or the worker moves on by itself: nothing but its own record    *)
(* changes, it awaits no call, and it does not forget an entry unless it     *)
(* counts a failure.                                                         *)

LEMMA JobMoves ==
    ASSUME DeletionInv, NEW j \in Jobs, NEW s \in Job,
           jobs' = [jobs EXCEPT ![j] = s],
           UNCHANGED <<tables, disk, uploads, marks>>,
           jobs[j].phase # "marking",
           s.todo \subseteq queue,
           s.phase \in {"idle", "deleting"} =>
              j = Worker \/ jobs[j].phase \in {"idle", "deleting"},
           s.phase \in {"removing", "marking", "replied"} /\ s.failed = 0 =>
              \/ j = Worker
              \/ /\ jobs[j].phase \in {"removing", "marking", "replied"}
                 /\ jobs[j].failed = 0 /\ jobs[j].todo \subseteq s.todo,
           s.phase = "replied" => s.todo = {}
    PROVE  DeletionInv'
<1>1. UNCHANGED <<accounts, owners, messages, receipts, queue, removed>>
  BY DEF tables
<1>2. jobs \in [Jobs -> Job]
  BY DEF DeletionInv, Types
<1>3. /\ jobs' \in [Jobs -> Job]
      /\ jobs'[j] = s /\ \A i \in Jobs \ {j} : jobs'[i] = jobs[i]
  BY <1>2
<1>4. \A r \in Receipts : r \in Jobs /\ r # Worker
  BY NamesAreOrdered DEF Jobs, Worker
<1>5. Types' /\ RowsFound' /\ RowsOfUploads' /\ OnDiskOrQueued'
  BY <1>1, <1>3 DEF DeletionInv, Types, RowsFound, RowsOfUploads, OnDiskOrQueued,
                    Queued
<1>6. QueueOfTheGone'
  <2>1. \A e \in queue : e.receipt \in Receipts
    BY DEF DeletionInv, Types, Entry
  <2>2. \A e \in queue : jobs'[e.receipt].phase \notin {"idle", "deleting"}
    BY <1>3, <1>4, <2>1 DEF DeletionInv, QueueOfTheGone
  <2> QED
    BY <1>1, <2>2 DEF DeletionInv, QueueOfTheGone
<1>7. RemovedIsGone' /\ MarksAreTrue' /\ OneAwaited'
  <2>1. \A m \in marks : m.job \in Jobs
    BY DEF DeletionInv, Types, Mark
  <2>2. \A m \in marks : m.awaited => jobs'[m.job].phase = "marking"
    BY <1>3, <2>1 DEF DeletionInv, MarksAreTrue
  <2> QED
    BY <1>1, <2>2 DEF DeletionInv, RemovedIsGone, MarksAreTrue, OneAwaited
<1>8. TodoIsQueued' /\ CompletedIsMarked'
  BY <1>1, <1>3 DEF DeletionInv, TodoIsQueued, CompletedIsMarked
<1>9. Accounted'
  <2> SUFFICES ASSUME NEW r \in Receipts
               PROVE  /\ /\ jobs'[r].phase \in {"removing", "marking", "replied"}
                         /\ jobs'[r].failed = 0
                         => \A e \in queue : e.receipt = r =>
                               e \in removed \/ e \in jobs'[r].todo
                      /\ jobs'[r].phase = "replied" => jobs'[r].todo = {}
    BY <1>1 DEF Accounted
  <2>1. CASE r = j
    BY <1>3, <1>4, <2>1 DEF DeletionInv, Accounted
  <2>2. CASE r # j
    BY <1>3, <1>4, <2>2 DEF DeletionInv, Accounted
  <2> QED
    BY <2>1, <2>2
<1> QED
  BY <1>5, <1>6, <1>7, <1>8, <1>9 DEF DeletionInv

LEMMA RequestStep ==
    ASSUME DeletionInv, NEW r \in Receipts,
           \/ \E a \in Accounts : RequestDeletion(r, a)
           \/ RefuseDeletion(r) \/ Reply(r)
    PROVE  DeletionInv'
<1>1. r \in Jobs /\ jobs \in [Jobs -> Job] /\ jobs[r] \in Job
      /\ jobs[r].todo \subseteq queue
  BY DEF Jobs, DeletionInv, Types, TodoIsQueued
<1>2. CASE \E a \in Accounts : RequestDeletion(r, a)
  <2>1. PICK a \in Accounts : RequestDeletion(r, a)
    BY <1>2
  <2> DEFINE s == [jobs[r] EXCEPT !.phase = "deleting", !.account = a]
  <2>2. jobs' = [jobs EXCEPT ![r] = s]
    BY <1>1, <2>1 DEF RequestDeletion
  <2>3. s \in Job
    BY <1>1 DEF Job
  <2>4. s.phase = "deleting" /\ s.todo = jobs[r].todo
    BY <1>1 DEF Job
  <2> HIDE DEF s
  <2>5. UNCHANGED <<tables, disk, uploads, marks>> /\ jobs[r].phase = "idle"
    BY <2>1 DEF RequestDeletion
  <2> QED
    BY <1>1, <2>2, <2>3, <2>4, <2>5, JobMoves
<1>3. CASE RefuseDeletion(r)
  <2> DEFINE s == Dead(jobs[r])
  <2>1. jobs' = [jobs EXCEPT ![r] = s]
    BY <1>1, <1>3 DEF RefuseDeletion
  <2>2. s \in Job /\ s.phase = "dead" /\ s.todo = {}
    BY <1>1 DEF Dead, IdleJob, Job
  <2> HIDE DEF s
  <2>3. UNCHANGED <<tables, disk, uploads, marks>> /\ jobs[r].phase = "deleting"
    BY <1>3 DEF RefuseDeletion
  <2> QED
    BY <1>1, <2>1, <2>2, <2>3, JobMoves
<1>4. CASE Reply(r)
  <2> DEFINE s == [jobs[r] EXCEPT !.phase = "replied"]
  <2>1. jobs' = [jobs EXCEPT ![r] = s]
    BY <1>1, <1>4 DEF Reply
  <2>2. s \in Job
    BY <1>1 DEF Job
  <2>3. s.phase = "replied" /\ s.todo = jobs[r].todo /\ s.failed = jobs[r].failed
    BY <1>1 DEF Job
  <2> HIDE DEF s
  <2>4. UNCHANGED <<tables, disk, uploads, marks>>
        /\ jobs[r].phase = "removing" /\ jobs[r].todo = {}
    BY <1>4 DEF Reply
  <2> QED
    BY <1>1, <2>1, <2>2, <2>3, <2>4, JobMoves
<1> QED
  BY <1>2, <1>3, <1>4

LEMMA WorkerMoves ==
    ASSUME DeletionInv, WorkerStep
    PROVE  DeletionInv'
<1>1. Worker \in Jobs /\ jobs \in [Jobs -> Job] /\ jobs[Worker] \in Job
      /\ queue \subseteq Entry
  BY DEF Jobs, DeletionInv, Types
<1>2. CASE StartWorker
  <2> DEFINE s == [jobs[Worker] EXCEPT !.phase = "removing", !.todo = FirstPending]
  <2>1. jobs' = [jobs EXCEPT ![Worker] = s]
    BY <1>1, <1>2 DEF StartWorker
  <2>2. FirstPending \subseteq queue
    BY DEF FirstPending, Pending
  <2>3. s \in Job
    BY <1>1, <2>2 DEF Job
  <2>4. s.phase = "removing" /\ s.todo = FirstPending
    BY <1>1 DEF Job
  <2> HIDE DEF s
  <2>5. UNCHANGED <<tables, disk, uploads, marks>> /\ jobs[Worker].phase = "idle"
    BY <1>2 DEF StartWorker
  <2> QED
    BY <1>1, <2>1, <2>2, <2>3, <2>4, <2>5, JobMoves
<1>3. CASE EndWorker
  <2>1. IdleJob \in Job /\ IdleJob.phase = "idle" /\ IdleJob.todo = {}
    BY DEF IdleJob, Job
  <2>2. /\ jobs' = [jobs EXCEPT ![Worker] = IdleJob]
        /\ UNCHANGED <<tables, disk, uploads, marks>>
        /\ jobs[Worker].phase = "removing"
    BY <1>3 DEF EndWorker
  <2> QED
    BY <1>1, <2>1, <2>2, JobMoves
<1> QED
  BY <1>2, <1>3 DEF WorkerStep

(* unlink fails: the entry is skipped and the failure counted. *)
LEMMA UnlinkFailsStep ==
    ASSUME DeletionInv, NEW j \in Jobs, UnlinkFails(j)
    PROVE  DeletionInv'
<1> DEFINE left == jobs[j].todo \ {Current(j)}
           count == jobs[j].failed + 1
           s == [jobs[j] EXCEPT !.phase = "removing", !.todo = left, !.failed = count]
<1>1. jobs \in [Jobs -> Job] /\ jobs[j] \in Job
      /\ jobs[j].todo \subseteq queue /\ queue \subseteq Entry
  BY DEF DeletionInv, Types, TodoIsQueued
<1>2. jobs' = [jobs EXCEPT ![j] = s]
  BY <1>1 DEF UnlinkFails, Skip
<1>3. left \subseteq queue /\ left \in SUBSET Entry /\ count \in Nat /\ count # 0
  BY <1>1 DEF Job
<1> HIDE DEF left, count
<1>4. s \in Job
  BY <1>1, <1>3 DEF Job
<1>5. s.phase = "removing" /\ s.todo = left /\ s.failed = count
  BY <1>1, <1>3 DEF Job
<1> HIDE DEF s
<1>6. UNCHANGED <<tables, disk, uploads, marks>> /\ jobs[j].phase = "removing"
  BY DEF UnlinkFails
<1> QED
  BY <1>2, <1>3, <1>4, <1>5, <1>6, JobMoves

-----------------------------------------------------------------------------
(* delete_account_complete: every file of the account gets an entry in the   *)
(* same step in which the account and its rows go.                           *)

LEMMA DeleteAccountStep ==
    ASSUME DeletionInv, NEW r \in Receipts, DeleteAccount(r)
    PROVE  DeletionInv'
<1> DEFINE a == jobs[r].account
           entries == {[receipt |-> r, file |-> f] : f \in FilesOf(a)}
<1>1. r \in Jobs /\ r # Worker /\ jobs \in [Jobs -> Job] /\ jobs[r] \in Job
  BY NamesAreOrdered DEF Jobs, Worker, DeletionInv, Types
<1>2. /\ jobs[r].phase = "deleting"
      /\ a \in accounts
      /\ accounts' = accounts \ {a}
      /\ owners' = {o \in owners : o[1] # a}
      /\ receipts' = [receipts EXCEPT ![r] =
                         IF entries = {} THEN "completed" ELSE "open"]
      /\ queue' = queue \cup entries
      /\ UNCHANGED <<disk, messages, uploads, removed, marks>>
  BY DEF DeleteAccount
<1>3. \A e \in entries :
         /\ e \in Entry
         /\ e.receipt = r
         /\ e.file \in Files
         /\ <<a, e.file>> \in owners \/ <<a, e.file>> \in messages
  <2> TAKE e \in entries
  <2>1. PICK f \in FilesOf(a) : e = [receipt |-> r, file |-> f]
    OBVIOUS
  <2>2. f \in Files /\ (<<a, f>> \in owners \/ <<a, f>> \in messages)
    BY DEF FilesOf
  <2> HIDE DEF a, entries
  <2> QED
    BY <2>1, <2>2 DEF Entry
<1>4. \A f \in Files : <<a, f>> \in owners => \E e \in entries : e.file = f
  <2> TAKE f \in Files
  <2> HAVE <<a, f>> \in owners
  <2>1. f \in FilesOf(a)
    BY DEF FilesOf
  <2>2. [receipt |-> r, file |-> f] \in entries
    BY <2>1
  <2> QED
    BY <2>2
<1>5. \A e \in queue : e \in Entry /\ e.receipt \in Receipts /\ e.receipt # r
  BY <1>2 DEF DeletionInv, Types, QueueOfTheGone, Entry
<1>6. PICK s \in Job :
         /\ jobs' = [jobs EXCEPT ![r] = s]
         /\ \/ s.phase = "removing" /\ s.todo = entries
            \/ s.phase = "dead" /\ s.todo = {}
  <2>1. CASE jobs' = [jobs EXCEPT ![r].phase = "removing", ![r].todo = entries]
    <3> DEFINE s == [jobs[r] EXCEPT !.phase = "removing", !.todo = entries]
    <3>1. jobs' = [jobs EXCEPT ![r] = s]
      BY <1>1, <2>1
    <3> HIDE DEF entries
    <3>2. s \in Job
      BY <1>1, <1>3 DEF Job
    <3>3. s.phase = "removing" /\ s.todo = entries
      BY <1>1 DEF Job
    <3> QED
      BY <3>1, <3>2, <3>3
  <2>2. CASE jobs' = [jobs EXCEPT ![r] = Dead(jobs[r])]
    <3> DEFINE s == Dead(jobs[r])
    <3>1. s \in Job /\ s.phase = "dead" /\ s.todo = {}
      BY <1>1 DEF Dead, IdleJob, Job
    <3> QED
      BY <2>2, <3>1
  <2> QED
    BY <2>1, <2>2 DEF DeleteAccount
<1>7. /\ jobs' \in [Jobs -> Job]
      /\ jobs'[r] = s /\ \A i \in Jobs \ {r} : jobs'[i] = jobs[i]
  BY <1>1, <1>6
<1> a \in Accounts
  BY <1>2 DEF DeletionInv, Types
<1> HIDE DEF a, entries
<1>8. Types'
  BY <1>2, <1>3, <1>7 DEF DeletionInv, Types
<1>9. RowsFound'
  <2> SUFFICES ASSUME NEW f \in Files, uploads[f].phase \in Kept
               PROVE  /\ uploads[f].owner \in accounts' =>
                            <<uploads[f].owner, f>> \in owners'
                      /\ uploads[f].owner \notin accounts' =>
                            \E e \in queue' : e.file = f
    BY <1>2 DEF RowsFound, Queued
  <2>1. CASE uploads[f].owner = a
    <3>1. <<a, f>> \in owners
      BY <1>2, <2>1 DEF DeletionInv, RowsFound
    <3> QED
      BY <1>2, <1>4, <2>1, <3>1
  <2>2. CASE uploads[f].owner # a
    BY <1>2, <2>2 DEF DeletionInv, RowsFound, Queued
  <2> QED
    BY <2>1, <2>2
<1>10. RowsOfUploads' /\ OnDiskOrQueued'
  BY <1>2 DEF DeletionInv, RowsOfUploads, OnDiskOrQueued, Queued
<1>11. QueueOfTheGone'
  <2> SUFFICES ASSUME NEW e \in queue'
               PROVE  /\ uploads[e.file].phase # "none"
                      /\ \E b \in Accounts \ accounts' :
                            uploads[e.file].owner = b \/ <<b, e.file>> \in messages
                      /\ jobs'[e.receipt].phase \notin {"idle", "deleting"}
    BY <1>2 DEF QueueOfTheGone
  <2>1. CASE e \in queue
    <3>1. jobs'[e.receipt] = jobs[e.receipt]
      BY <1>5, <1>7, <2>1 DEF Jobs
    <3> QED
      BY <1>2, <2>1, <3>1 DEF DeletionInv, QueueOfTheGone
  <2>2. CASE e \in entries
    <3>1. uploads[e.file].phase # "none"
          /\ (uploads[e.file].owner = a \/ <<a, e.file>> \in messages)
      BY <1>3, <2>2 DEF DeletionInv, RowsOfUploads
    <3>2. a \in Accounts \ accounts'
      BY <1>2
    <3>3. jobs'[e.receipt].phase \notin {"idle", "deleting"}
      BY <1>3, <1>6, <1>7, <2>2
    <3> QED
      BY <3>1, <3>2, <3>3
  <2> QED
    BY <1>2, <2>1, <2>2
<1>12. RemovedIsGone' /\ OneAwaited'
  BY <1>2 DEF DeletionInv, RemovedIsGone, OneAwaited
<1>13. MarksAreTrue'
  <2> SUFFICES ASSUME NEW m \in marks
               PROVE  /\ m.entry \in queue' /\ m.entry.file \notin disk
                      /\ m.state = "last" =>
                            \A e \in queue' : e.receipt = m.entry.receipt
                                              /\ e # m.entry => e \in removed
                      /\ m.awaited => jobs'[m.job].phase = "marking"
    BY <1>2 DEF MarksAreTrue
  <2>1. m.entry \in queue /\ m.entry.receipt # r /\ m.job \in Jobs
    BY <1>5 DEF DeletionInv, MarksAreTrue, Types, Mark
  <2>2. \A e \in queue' : e.receipt = m.entry.receipt => e \in queue
    BY <1>2, <1>3, <2>1
  <2>3. m.awaited => m.job # r
    BY <1>2 DEF DeletionInv, MarksAreTrue
  <2> QED
    BY <1>2, <1>7, <2>1, <2>2, <2>3 DEF DeletionInv, MarksAreTrue
<1>14. TodoIsQueued'
  BY <1>2, <1>6, <1>7 DEF DeletionInv, TodoIsQueued
<1>15. CompletedIsMarked'
  <2> SUFFICES ASSUME NEW q \in Receipts, receipts'[q] = "completed",
                      NEW e \in queue', e.receipt = q
               PROVE  e \in removed
    BY <1>2 DEF CompletedIsMarked
  <2>1. receipts \in [Receipts -> {"none", "open", "completed"}]
    BY DEF DeletionInv, Types
  <2>2. CASE q = r
    BY <1>2, <1>5, <2>1, <2>2
  <2>3. CASE q # r
    <3>1. receipts[q] = "completed" /\ e \in queue
      BY <1>2, <1>3, <2>1, <2>3
    <3> QED
      BY <3>1 DEF DeletionInv, CompletedIsMarked
  <2> QED
    BY <2>2, <2>3
<1>16. Accounted'
  <2> SUFFICES ASSUME NEW q \in Receipts
               PROVE  /\ /\ jobs'[q].phase \in {"removing", "marking", "replied"}
                         /\ jobs'[q].failed = 0
                         => \A e \in queue' : e.receipt = q =>
                               e \in removed \/ e \in jobs'[q].todo
                      /\ jobs'[q].phase = "replied" => jobs'[q].todo = {}
    BY <1>2 DEF Accounted
  <2>1. CASE q = r
    BY <1>2, <1>5, <1>6, <1>7, <2>1
  <2>2. CASE q # r
    <3>1. jobs'[q] = jobs[q]
      BY <1>7, <2>2 DEF Jobs
    <3>2. \A e \in queue' : e.receipt = q => e \in queue
      BY <1>2, <1>3, <2>2
    <3> QED
      BY <3>1, <3>2 DEF DeletionInv, Accounted
  <2> QED
    BY <2>1, <2>2
<1> QED
  BY <1>8, <1>9, <1>10, <1>11, <1>12, <1>13, <1>14, <1>15, <1>16 DEF DeletionInv

-----------------------------------------------------------------------------
(* removeDeletionFiles and the transactions it starts. *)

LEMMA UnlinkStep ==
    ASSUME DeletionInv, NEW j \in Jobs, Unlink(j)
    PROVE  DeletionInv'
<1> DEFINE c == Current(j)
           n == [entry |-> c, job |-> j, state |-> "sent", awaited |-> TRUE]
           s == [jobs[j] EXCEPT !.phase = "marking"]
<1>1. jobs \in [Jobs -> Job] /\ jobs[j] \in Job
  BY DEF DeletionInv, Types
<1>2. /\ jobs[j].phase = "removing"
      /\ disk' = disk \ ({c.file} \ Stuck)
      /\ c.file \notin Stuck \/ c.file \notin disk
      /\ jobs' = [jobs EXCEPT ![j] = s]
      /\ marks' = marks \cup {n}
      /\ UNCHANGED <<accounts, owners, messages, receipts, queue, removed, uploads>>
  BY <1>1 DEF Unlink, Unlinkable, tables
<1>3. c \in jobs[j].todo
  BY CurrentIsOnTheList DEF DeletionInv, Unlink
<1>4. c \in queue /\ c \in Entry
  BY <1>3 DEF DeletionInv, TodoIsQueued, Types
<1> HIDE DEF c
<1>5. /\ n \in Mark /\ n.entry = c /\ n.job = j /\ n.state = "sent" /\ n.awaited
  BY <1>4 DEF Mark
<1>6. /\ s \in Job
      /\ s.phase = "marking" /\ s.todo = jobs[j].todo /\ s.failed = jobs[j].failed
  BY <1>1 DEF Job
<1> HIDE DEF n, s
<1>7. /\ jobs' \in [Jobs -> Job]
      /\ jobs'[j] = s /\ \A i \in Jobs \ {j} : jobs'[i] = jobs[i]
  BY <1>1, <1>2, <1>6
<1>8. /\ disk' \subseteq disk /\ c.file \notin disk'
      /\ \A f \in disk \ disk' : f = c.file
  BY <1>2
<1>9. Types' /\ RowsFound' /\ RowsOfUploads'
  BY <1>2, <1>5, <1>7, <1>8 DEF DeletionInv, Types, RowsFound, RowsOfUploads, Queued
<1>10. OnDiskOrQueued'
  BY <1>2, <1>4, <1>8 DEF DeletionInv, OnDiskOrQueued, Queued
<1>11. QueueOfTheGone'
  <2>1. \A e \in queue : e.receipt \in Jobs
    BY DEF DeletionInv, Types, Entry, Jobs
  <2>2. \A e \in queue : jobs'[e.receipt].phase \notin {"idle", "deleting"}
    BY <1>6, <1>7, <2>1 DEF DeletionInv, QueueOfTheGone
  <2> QED
    BY <1>2, <2>2 DEF DeletionInv, QueueOfTheGone
<1>12. RemovedIsGone' /\ CompletedIsMarked' /\ TodoIsQueued'
  BY <1>2, <1>6, <1>7, <1>8
     DEF DeletionInv, RemovedIsGone, CompletedIsMarked, TodoIsQueued
<1>13. \A m \in marks : m.job \in Jobs /\ (m.awaited => m.job # j)
  BY <1>2 DEF DeletionInv, Types, Mark, MarksAreTrue
<1>14. MarksAreTrue'
  <2> SUFFICES ASSUME NEW m \in marks'
               PROVE  /\ m.entry \in queue /\ m.entry.file \notin disk'
                      /\ m.state = "last" =>
                            \A e \in queue : e.receipt = m.entry.receipt
                                             /\ e # m.entry => e \in removed
                      /\ m.awaited => jobs'[m.job].phase = "marking"
    BY <1>2 DEF MarksAreTrue
  <2>1. CASE m \in marks
    BY <1>7, <1>8, <1>13, <2>1 DEF DeletionInv, MarksAreTrue
  <2>2. CASE m = n
    BY <1>4, <1>5, <1>6, <1>7, <1>8, <2>2
  <2> QED
    BY <1>2, <2>1, <2>2
<1>15. OneAwaited'
  BY <1>2, <1>5, <1>13 DEF DeletionInv, OneAwaited
<1>16. Accounted'
  <2> SUFFICES ASSUME NEW q \in Receipts
               PROVE  /\ /\ jobs'[q].phase \in {"removing", "marking", "replied"}
                         /\ jobs'[q].failed = 0
                         => \A e \in queue : e.receipt = q =>
                               e \in removed \/ e \in jobs'[q].todo
                      /\ jobs'[q].phase = "replied" => jobs'[q].todo = {}
    BY <1>2 DEF Accounted
  <2>1. CASE q = j
    BY <1>2, <1>6, <1>7, <2>1 DEF DeletionInv, Accounted
  <2>2. CASE q # j
    BY <1>7, <2>2 DEF DeletionInv, Accounted, Jobs
  <2> QED
    BY <2>1, <2>2
<1> QED
  BY <1>9, <1>10, <1>11, <1>12, <1>14, <1>15, <1>16 DEF DeletionInv

LEMMA UpdateAndCheckStep ==
    ASSUME DeletionInv, NEW m \in marks, UpdateAndCheck(m)
    PROVE  DeletionInv'
<1> DEFINE others == {e \in queue : e.receipt = m.entry.receipt /\ e # m.entry}
           state == IF others \subseteq removed THEN "last" ELSE "not_last"
           n == [m EXCEPT !.state = state]
<1>1. /\ marks' = (marks \ {m}) \cup {n}
      /\ UNCHANGED <<accounts, owners, messages, receipts, queue, removed, disk,
                     uploads, jobs>>
  BY DEF UpdateAndCheck, tables
<1>2. m \in Mark
  BY DEF DeletionInv, Types
<1>3. state \in {"last", "not_last"} /\ (state = "last" => others \subseteq removed)
  OBVIOUS
<1> HIDE DEF state
<1>4. /\ n \in Mark /\ n.entry = m.entry /\ n.job = m.job /\ n.state = state
      /\ n.awaited = m.awaited
  BY <1>2, <1>3 DEF Mark
<1> HIDE DEF n
<1>5. Types'
  BY <1>1, <1>4 DEF DeletionInv, Types
<1>6. MarksAreTrue'
  <2> SUFFICES ASSUME NEW x \in marks'
               PROVE  /\ x.entry \in queue /\ x.entry.file \notin disk
                      /\ x.state = "last" =>
                            \A e \in queue : e.receipt = x.entry.receipt
                                             /\ e # x.entry => e \in removed
                      /\ x.awaited => jobs[x.job].phase = "marking"
    BY <1>1 DEF MarksAreTrue
  <2>1. CASE x \in marks
    BY <2>1 DEF DeletionInv, MarksAreTrue
  <2>2. CASE x = n
    BY <1>3, <1>4, <2>2 DEF DeletionInv, MarksAreTrue
  <2> QED
    BY <1>1, <2>1, <2>2
<1>7. OneAwaited'
  BY <1>1, <1>4 DEF DeletionInv, OneAwaited
<1>8. RowsFound' /\ RowsOfUploads' /\ OnDiskOrQueued' /\ QueueOfTheGone'
  BY <1>1 DEF DeletionInv, RowsFound, RowsOfUploads, OnDiskOrQueued, Queued,
              QueueOfTheGone
<1>9. RemovedIsGone' /\ TodoIsQueued' /\ CompletedIsMarked' /\ Accounted'
  BY <1>1 DEF DeletionInv, RemovedIsGone, TodoIsQueued, CompletedIsMarked, Accounted
<1> QED
  BY <1>5, <1>6, <1>7, <1>8, <1>9 DEF DeletionInv

(* The run is done with an entry: it goes on with the rest of its list. *)
Onward(r, e, count) ==
    [r EXCEPT !.phase = "removing", !.todo = r.todo \ {e}, !.failed = count]

LEMMA NextOnTheList ==
    ASSUME NEW r \in Job, NEW e, NEW count \in Nat
    PROVE  /\ Onward(r, e, count) \in Job
           /\ Onward(r, e, count).phase = "removing"
           /\ Onward(r, e, count).todo = r.todo \ {e}
           /\ Onward(r, e, count).failed = count
<1> DEFINE left == r.todo \ {e}
           s == [r EXCEPT !.phase = "removing", !.todo = left, !.failed = count]
<1>1. left \in SUBSET Entry
  BY DEF Job
<1>2. Onward(r, e, count) = s
  BY DEF Onward
<1> HIDE DEF left
<1>3. s \in Job
  BY <1>1 DEF Job
<1>4. s.phase = "removing" /\ s.todo = left /\ s.failed = count
  BY DEF Job
<1> QED
  BY <1>2, <1>3, <1>4 DEF left

(* The transaction commits: its entry is marked, and the receipt completed   *)
(* if it was the last.                                                       *)
LEMMA CommitMarkStep ==
    ASSUME DeletionInv, NEW m \in marks, CommitMark(m)
    PROVE  DeletionInv'
<1> DEFINE j == m.job
           s == Onward(jobs[j], m.entry, jobs[j].failed)
<1>1. /\ jobs \in [Jobs -> Job] /\ j \in Jobs /\ jobs[j] \in Job
      /\ jobs[j].failed \in Nat
      /\ m.entry \in Entry /\ m.entry \in queue /\ m.entry.file \notin disk
      /\ m.entry.receipt \in Receipts
      /\ m.awaited \in BOOLEAN
      /\ m.awaited => jobs[j].phase = "marking"
  BY DEF DeletionInv, Types, Mark, MarksAreTrue, Job, Entry
<1>2. /\ removed' = removed \cup {m.entry}
      /\ receipts' = IF m.state = "last"
                     THEN [receipts EXCEPT ![m.entry.receipt] = "completed"]
                     ELSE receipts
      /\ marks' = marks \ {m}
      /\ UNCHANGED <<accounts, disk, owners, messages, uploads, queue>>
  BY DEF CommitMark
<1>3. /\ s \in Job
      /\ s.phase = "removing" /\ s.todo = jobs[j].todo \ {m.entry}
      /\ s.failed = jobs[j].failed
  BY <1>1, NextOnTheList
<1>4. /\ m.awaited => jobs' = [jobs EXCEPT ![j] = s]
      /\ ~m.awaited => jobs' = jobs
  <2>1. CASE m.awaited
    <3>1. jobs' = [jobs EXCEPT ![j].phase = "removing", ![j].todo = @ \ {m.entry}]
      BY <2>1 DEF CommitMark
    <3>2. s = [jobs[j] EXCEPT !.phase = "removing", !.todo = jobs[j].todo \ {m.entry}]
      BY <1>1 DEF Job, Onward
    <3> HIDE DEF s
    <3> QED
      BY <1>1, <2>1, <3>1, <3>2
  <2>2. CASE ~m.awaited
    BY <2>2 DEF CommitMark
  <2> QED
    BY <2>1, <2>2
<1> HIDE DEF s
<1>5. /\ jobs' \in [Jobs -> Job]
      /\ \A i \in Jobs \ {j} : jobs'[i] = jobs[i]
      /\ jobs'[j] = IF m.awaited THEN s ELSE jobs[j]
  BY <1>1, <1>3, <1>4
<1>6. \A i \in Jobs : /\ jobs'[i].failed = jobs[i].failed
                      /\ jobs'[i].todo \subseteq jobs[i].todo
                      /\ jobs[i].todo \subseteq jobs'[i].todo \cup {m.entry}
                      /\ \/ jobs'[i].phase = jobs[i].phase
                         \/ jobs[i].phase = "marking" /\ jobs'[i].phase = "removing"
  BY <1>1, <1>3, <1>5
<1>7. Types'
  BY <1>1, <1>2, <1>5 DEF DeletionInv, Types
<1>8. RowsFound' /\ RowsOfUploads' /\ OnDiskOrQueued'
  BY <1>2 DEF DeletionInv, RowsFound, RowsOfUploads, OnDiskOrQueued, Queued
<1>9. QueueOfTheGone'
  <2>1. \A e \in queue : e.receipt \in Jobs
    BY DEF DeletionInv, Types, Entry, Jobs
  <2>2. \A e \in queue : jobs'[e.receipt].phase \notin {"idle", "deleting"}
    BY <1>6, <2>1 DEF DeletionInv, QueueOfTheGone
  <2> QED
    BY <1>2, <2>2 DEF DeletionInv, QueueOfTheGone
<1>10. RemovedIsGone'
  BY <1>1, <1>2 DEF DeletionInv, RemovedIsGone
<1>11. MarksAreTrue'
  <2> SUFFICES ASSUME NEW x \in marks, x # m
               PROVE  /\ x.entry \in queue /\ x.entry.file \notin disk
                      /\ x.state = "last" =>
                            \A e \in queue : e.receipt = x.entry.receipt
                                             /\ e # x.entry => e \in removed'
                      /\ x.awaited => jobs'[x.job].phase = "marking"
    BY <1>2 DEF MarksAreTrue
  <2>1. x.job \in Jobs /\ (x.awaited => jobs[x.job].phase = "marking")
    BY DEF DeletionInv, Types, Mark, MarksAreTrue
  <2>2. x.awaited => jobs'[x.job] = jobs[x.job]
    BY <1>5, <2>1 DEF DeletionInv, OneAwaited
  <2> QED
    BY <1>2, <2>1, <2>2 DEF DeletionInv, MarksAreTrue
<1>12. OneAwaited'
  BY <1>2 DEF DeletionInv, OneAwaited
<1>13. TodoIsQueued'
  BY <1>2, <1>6 DEF DeletionInv, TodoIsQueued
<1>14. CompletedIsMarked'
  <2> SUFFICES ASSUME NEW q \in Receipts, receipts'[q] = "completed",
                      NEW e \in queue, e.receipt = q
               PROVE  e \in removed'
    BY <1>2 DEF CompletedIsMarked
  <2>1. CASE receipts[q] = "completed"
    BY <1>2, <2>1 DEF DeletionInv, CompletedIsMarked
  <2>2. CASE receipts[q] # "completed"
    <3>1. m.state = "last" /\ q = m.entry.receipt
      BY <1>2, <2>2 DEF DeletionInv, Types
    <3> QED
      BY <1>2, <3>1 DEF DeletionInv, MarksAreTrue
  <2> QED
    BY <2>1, <2>2
<1>15. Accounted'
  <2> SUFFICES ASSUME NEW q \in Receipts
               PROVE  /\ /\ jobs'[q].phase \in {"removing", "marking", "replied"}
                         /\ jobs'[q].failed = 0
                         => \A e \in queue : e.receipt = q =>
                               e \in removed' \/ e \in jobs'[q].todo
                      /\ jobs'[q].phase = "replied" => jobs'[q].todo = {}
    BY <1>2 DEF Accounted
  <2>1. q \in Jobs
    BY DEF Jobs
  <2>2. jobs'[q].phase = "replied" => jobs'[q].todo = {}
    BY <1>6, <2>1 DEF DeletionInv, Accounted
  <2>3. /\ jobs'[q].phase \in {"removing", "marking", "replied"}
        /\ jobs'[q].failed = 0
        => /\ jobs[q].phase \in {"removing", "marking", "replied"}
           /\ jobs[q].failed = 0
    BY <1>6, <2>1
  <2>4. \A e \in jobs[q].todo : e \in removed' \/ e \in jobs'[q].todo
    BY <1>2, <1>6, <2>1
  <2> QED
    BY <1>2, <2>2, <2>3, <2>4 DEF DeletionInv, Accounted
<1> QED
  BY <1>7, <1>8, <1>9, <1>10, <1>11, <1>12, <1>13, <1>14, <1>15 DEF DeletionInv

(* The call fails for its caller; the transaction may go on unobserved. *)
LEMMA LoseMarkStep ==
    ASSUME DeletionInv, NEW m \in marks, LoseMark(m)
    PROVE  DeletionInv'
<1> DEFINE j == m.job
           n == [m EXCEPT !.awaited = FALSE]
           count == jobs[j].failed + 1
           s == Onward(jobs[j], Current(j), count)
<1>1. /\ jobs \in [Jobs -> Job] /\ j \in Jobs /\ jobs[j] \in Job
      /\ m \in Mark /\ m.awaited /\ jobs[j].phase = "marking"
  BY DEF DeletionInv, Types, Mark, MarksAreTrue, LoseMark
<1>2. /\ marks' \subseteq (marks \ {m}) \cup {n}
      /\ jobs' = [jobs EXCEPT ![j] = s]
      /\ UNCHANGED <<accounts, owners, messages, receipts, queue, removed, disk,
                     uploads>>
  BY <1>1 DEF LoseMark, Skip, Onward, tables
<1>3. count \in Nat /\ count # 0
  BY <1>1 DEF Job
<1> HIDE DEF count
<1>4. /\ s \in Job
      /\ s.phase = "removing" /\ s.todo \subseteq jobs[j].todo /\ s.failed # 0
  BY <1>1, <1>3, NextOnTheList
<1>5. /\ n \in Mark /\ n.entry = m.entry /\ n.state = m.state /\ ~n.awaited
  BY <1>1 DEF Mark
<1> HIDE DEF s, n
<1>6. /\ jobs' \in [Jobs -> Job]
      /\ jobs'[j] = s /\ \A i \in Jobs \ {j} : jobs'[i] = jobs[i]
  BY <1>1, <1>2, <1>4
<1>7. Types' /\ RowsFound' /\ RowsOfUploads' /\ OnDiskOrQueued'
  BY <1>2, <1>5, <1>6
     DEF DeletionInv, Types, RowsFound, RowsOfUploads, OnDiskOrQueued, Queued
<1>8. QueueOfTheGone'
  <2>1. \A e \in queue : e.receipt \in Jobs
    BY DEF DeletionInv, Types, Entry, Jobs
  <2>2. \A e \in queue : jobs'[e.receipt].phase \notin {"idle", "deleting"}
    BY <1>4, <1>6, <2>1 DEF DeletionInv, QueueOfTheGone
  <2> QED
    BY <1>2, <2>2 DEF DeletionInv, QueueOfTheGone
<1>9. RemovedIsGone' /\ CompletedIsMarked' /\ TodoIsQueued'
  BY <1>2, <1>4, <1>6 DEF DeletionInv, RemovedIsGone, CompletedIsMarked, TodoIsQueued
<1>10. MarksAreTrue'
  <2> SUFFICES ASSUME NEW x \in marks'
               PROVE  /\ x.entry \in queue /\ x.entry.file \notin disk
                      /\ x.state = "last" =>
                            \A e \in queue : e.receipt = x.entry.receipt
                                             /\ e # x.entry => e \in removed
                      /\ x.awaited => jobs'[x.job].phase = "marking"
    BY <1>2 DEF MarksAreTrue
  <2>1. CASE x \in marks /\ x # m
    <3>1. x.awaited => x.job \in Jobs /\ x.job # j
      BY <1>1, <2>1 DEF DeletionInv, Types, Mark, OneAwaited
    <3> QED
      BY <1>6, <2>1, <3>1 DEF DeletionInv, MarksAreTrue
  <2>2. CASE x = n
    BY <1>5, <2>2 DEF DeletionInv, MarksAreTrue
  <2> QED
    BY <1>2, <2>1, <2>2
<1>11. OneAwaited'
  BY <1>2, <1>5 DEF DeletionInv, OneAwaited
<1>12. Accounted'
  <2> SUFFICES ASSUME NEW q \in Receipts
               PROVE  /\ /\ jobs'[q].phase \in {"removing", "marking", "replied"}
                         /\ jobs'[q].failed = 0
                         => \A e \in queue : e.receipt = q =>
                               e \in removed \/ e \in jobs'[q].todo
                      /\ jobs'[q].phase = "replied" => jobs'[q].todo = {}
    BY <1>2 DEF Accounted
  <2>1. CASE q = j
    BY <1>4, <1>6, <2>1
  <2>2. CASE q # j
    BY <1>6, <2>2 DEF DeletionInv, Accounted, Jobs
  <2> QED
    BY <2>1, <2>2
<1> QED
  BY <1>7, <1>8, <1>9, <1>10, <1>11, <1>12 DEF DeletionInv

(* The server dies: its runs and uploads end, the tables and transactions do *)
(* not.                                                                      *)
LEMMA CrashStep ==
    ASSUME DeletionInv, Crash
    PROVE  DeletionInv'
<1> DEFINE Unawaited(m) == [m EXCEPT !.awaited = FALSE]
<1>1. /\ marks' = {Unawaited(m) : m \in marks}
      /\ UNCHANGED <<accounts, owners, messages, receipts, queue, removed, disk>>
  BY DEF Crash, tables
<1>2. /\ jobs \in [Jobs -> Job] /\ uploads \in [Files -> Upload]
      /\ marks \subseteq Mark
  BY DEF DeletionInv, Types
<1>3. \A r \in Receipts : r \in Jobs /\ r # Worker
  BY NamesAreOrdered DEF Jobs, Worker
<1>4. ASSUME NEW j \in Jobs
      PROVE  /\ jobs'[j] \in Job
             /\ \/ jobs'[j] = jobs[j]
                \/ jobs'[j].todo = {} /\ jobs'[j].phase \in {"idle", "dead"}
             /\ j # Worker =>
                   \/ jobs'[j] = jobs[j]
                   \/ jobs'[j].todo = {} /\ jobs'[j].phase = "dead"
  <2>1. jobs[j] \in Job
    BY <1>2
  <2>2. IdleJob \in Job /\ IdleJob.todo = {} /\ IdleJob.phase = "idle"
    BY DEF IdleJob, Job
  <2>3. /\ Dead(jobs[j]) \in Job
        /\ Dead(jobs[j]).todo = {} /\ Dead(jobs[j]).phase = "dead"
    BY <2>1 DEF Dead, IdleJob, Job
  <2>4. jobs'[j] = IF j = Worker THEN IdleJob
                   ELSE IF jobs[j].phase \in {"deleting", "removing", "marking"}
                        THEN Dead(jobs[j]) ELSE jobs[j]
    BY DEF Crash
  <2> QED
    BY <2>1, <2>2, <2>3, <2>4
<1>5. ASSUME NEW f \in Files
      PROVE  /\ uploads'[f] \in Upload
             /\ uploads'[f].owner = uploads[f].owner
             /\ uploads'[f].phase \in Kept => uploads[f].phase \in Kept
             /\ uploads'[f].phase = "registering" => uploads[f].phase = "registering"
             /\ uploads'[f].phase = "none" <=> uploads[f].phase = "none"
  <2> DEFINE phase == AfterCrash(uploads[f].phase)
  <2>1. uploads[f] \in Upload
    BY <1>2
  <2>2. uploads'[f] = [uploads[f] EXCEPT !.phase = phase]
    BY DEF Crash
  <2>3. /\ phase \in {"none", "registering", "registered", "done", "failed",
                      "orphaned", "unreported"}
        /\ phase \in Kept => uploads[f].phase \in Kept
        /\ phase = "registering" => uploads[f].phase = "registering"
        /\ phase = "none" <=> uploads[f].phase = "none"
    BY <2>1 DEF AfterCrash, Upload, Kept
  <2> HIDE DEF phase
  <2>4. uploads'[f] \in Upload
    BY <2>1, <2>2, <2>3 DEF Upload
  <2>5. uploads'[f].phase = phase /\ uploads'[f].owner = uploads[f].owner
    BY <2>1, <2>2 DEF Upload
  <2> QED
    BY <2>3, <2>4, <2>5
<1>6. ASSUME NEW m \in marks
      PROVE  /\ Unawaited(m) \in Mark
             /\ Unawaited(m).entry = m.entry /\ Unawaited(m).state = m.state
             /\ ~Unawaited(m).awaited
  BY <1>2 DEF Mark
<1> HIDE DEF Unawaited
<1>7. Types'
  <2>1. jobs' \in [Jobs -> Job]
    <3>1. jobs' = [j \in Jobs |-> jobs'[j]]
      BY DEF Crash
    <3> QED
      BY <1>4, <3>1
  <2>2. uploads' \in [Files -> Upload]
    <3>1. uploads' = [f \in Files |-> uploads'[f]]
      BY DEF Crash
    <3> QED
      BY <1>5, <3>1
  <2>3. marks' \subseteq Mark
    BY <1>1, <1>6
  <2> QED
    BY <1>1, <2>1, <2>2, <2>3 DEF DeletionInv, Types
<1>8. RowsFound' /\ RowsOfUploads'
  BY <1>1, <1>5 DEF DeletionInv, RowsFound, RowsOfUploads, Queued
<1>9. OnDiskOrQueued'
  BY <1>1, <1>5 DEF DeletionInv, OnDiskOrQueued, Queued
<1>10. QueueOfTheGone'
  <2> SUFFICES ASSUME NEW e \in queue
               PROVE  /\ uploads'[e.file].phase # "none"
                      /\ \E b \in Accounts \ accounts :
                            uploads'[e.file].owner = b \/ <<b, e.file>> \in messages
                      /\ jobs'[e.receipt].phase \notin {"idle", "deleting"}
    BY <1>1 DEF QueueOfTheGone
  <2>1. e.file \in Files /\ e.receipt \in Receipts
    BY DEF DeletionInv, Types, Entry
  <2>2. jobs'[e.receipt].phase \notin {"idle", "deleting"}
    BY <1>3, <1>4, <2>1 DEF DeletionInv, QueueOfTheGone
  <2> QED
    BY <1>5, <2>1, <2>2 DEF DeletionInv, QueueOfTheGone
<1>11. RemovedIsGone' /\ CompletedIsMarked'
  BY <1>1 DEF DeletionInv, RemovedIsGone, CompletedIsMarked
<1>12. MarksAreTrue' /\ OneAwaited'
  <2>1. MarksAreTrue'
    <3> SUFFICES ASSUME NEW x \in marks'
                 PROVE  /\ x.entry \in queue /\ x.entry.file \notin disk
                        /\ x.state = "last" =>
                              \A e \in queue : e.receipt = x.entry.receipt
                                               /\ e # x.entry => e \in removed
                        /\ ~x.awaited
      BY <1>1 DEF MarksAreTrue
    <3>1. PICK m \in marks : x = Unawaited(m)
      BY <1>1
    <3> QED
      BY <1>6, <3>1 DEF DeletionInv, MarksAreTrue
  <2>2. OneAwaited'
    BY <1>1, <1>6 DEF OneAwaited
  <2> QED
    BY <2>1, <2>2
<1>13. TodoIsQueued'
  BY <1>1, <1>4 DEF DeletionInv, TodoIsQueued
<1>14. Accounted'
  BY <1>1, <1>3, <1>4 DEF DeletionInv, Accounted
<1> QED
  BY <1>7, <1>8, <1>9, <1>10, <1>11, <1>12, <1>13, <1>14 DEF DeletionInv

-----------------------------------------------------------------------------
(* The invariant. *)

LEMMA DeletionStarts == Init => DeletionInv
<1> SUFFICES ASSUME Init PROVE DeletionInv
  OBVIOUS
<1>1. IdleJob \in Job
  BY DEF IdleJob, Job
<1>2. Types
  BY <1>1 DEF Init, Types, Upload
<1>3. RowsFound /\ RowsOfUploads /\ OnDiskOrQueued
  BY DEF Init, RowsFound, RowsOfUploads, OnDiskOrQueued, Kept
<1>4. QueueOfTheGone /\ RemovedIsGone /\ MarksAreTrue /\ OneAwaited
  BY DEF Init, QueueOfTheGone, RemovedIsGone, MarksAreTrue, OneAwaited
<1>5. \A j \in Jobs : jobs[j].phase = "idle" /\ jobs[j].todo = {}
  BY DEF Init, IdleJob
<1>6. TodoIsQueued /\ CompletedIsMarked
  BY <1>5 DEF Init, TodoIsQueued, CompletedIsMarked
<1>7. Accounted
  BY <1>5 DEF Accounted, Jobs
<1> QED
  BY <1>2, <1>3, <1>4, <1>6, <1>7 DEF DeletionInv

LEMMA DeletionStepsKeepIt ==
    ASSUME DeletionInv, [Next]_vars
    PROVE  DeletionInv'
<1>1. CASE \E f \in Files : UploadStep(f)
  BY <1>1, WriteUploadStep, PostMessageStep, UploadSteps DEF UploadStep
<1>2. CASE \E r \in Receipts : DeletionStep(r)
  BY <1>2, RequestStep, DeleteAccountStep DEF DeletionStep
<1>3. CASE WorkerStep
  BY <1>3, WorkerMoves
<1>4. CASE \E j \in Jobs : RemovalStep(j)
  BY <1>4, UnlinkStep, UnlinkFailsStep DEF RemovalStep
<1>5. CASE \E m \in marks : MarkStep(m) \/ LoseMark(m)
  BY <1>5, UpdateAndCheckStep, CommitMarkStep, LoseMarkStep DEF MarkStep
<1>6. CASE Crash
  BY <1>6, CrashStep
<1>7. CASE UNCHANGED vars
  <2>1. Types' /\ RowsFound' /\ RowsOfUploads' /\ OnDiskOrQueued' /\ QueueOfTheGone'
    BY <1>7 DEF vars, DeletionInv, Types, RowsFound, RowsOfUploads, OnDiskOrQueued,
                Queued, QueueOfTheGone
  <2>2. RemovedIsGone' /\ MarksAreTrue' /\ OneAwaited' /\ TodoIsQueued'
    BY <1>7 DEF vars, DeletionInv, RemovedIsGone, MarksAreTrue, OneAwaited,
                TodoIsQueued
  <2>3. CompletedIsMarked' /\ Accounted'
    BY <1>7 DEF vars, DeletionInv, CompletedIsMarked, Accounted
  <2> QED
    BY <2>1, <2>2, <2>3 DEF DeletionInv
<1> QED
  BY <1>1, <1>2, <1>3, <1>4, <1>5, <1>6, <1>7 DEF Next

(* The queue, the tables, the disk and the runs stay in step, whatever calls *)
(* fail and whenever the server dies.                                        *)
THEOREM DeletionInvHolds == Spec => []DeletionInv
  BY DeletionStarts, DeletionStepsKeepIt, PTL DEF Spec

LEMMA FaultsOnlyCount ==
    ASSUME Next
    PROVE  faults' = faults \/ Fault
<1>1. CASE \E f \in Files : UploadStep(f)
  BY <1>1 DEF UploadStep, WriteUpload, PostMessage, RegisterUpload, FinishUpload,
              FailUpload
<1>2. CASE \E r \in Receipts : DeletionStep(r)
  BY <1>2 DEF DeletionStep, RequestDeletion, DeleteAccount, RefuseDeletion, Reply
<1>3. CASE WorkerStep
  BY <1>3 DEF WorkerStep, StartWorker, EndWorker
<1>4. CASE \E j \in Jobs : RemovalStep(j)
  BY <1>4 DEF RemovalStep, Unlink, UnlinkFails
<1>5. CASE \E m \in marks : MarkStep(m) \/ LoseMark(m)
  BY <1>5 DEF MarkStep, UpdateAndCheck, CommitMark, LoseMark
<1>6. CASE Crash
  BY <1>6 DEF Crash
<1> QED
  BY <1>1, <1>2, <1>3, <1>4, <1>5, <1>6 DEF Next

(* Every table, handler and transaction keeps its type, and there are never  *)
(* more faults than the bound allows.                                        *)
THEOREM DeletionTypeCorrect == Spec => []TypeOK
<1> DEFINE Bounded == faults \in 0..MaxFaults
<1>1. Init => Bounded
  BY FaultsAreBounded DEF Init
<1>2. Bounded /\ [Next]_vars => Bounded'
  <2>1. ASSUME Bounded, Next PROVE Bounded'
    BY <2>1, FaultsOnlyCount, FaultsAreBounded DEF Fault
  <2>2. ASSUME Bounded, UNCHANGED vars PROVE Bounded'
    BY <2>2 DEF vars
  <2> QED
    BY <2>1, <2>2
<1>3. DeletionInv /\ Bounded => TypeOK
  BY DEF DeletionInv, Types, TypeOK
<1> QED
  BY <1>1, <1>2, <1>3, DeletionInvHolds, PTL DEF Spec

(* Deleting an account leaves none of its files behind: an uploaded file of  *)
(* an account that is gone is off the disk or has an entry still to be       *)
(* removed, however delete_account_complete, uploads and crashes interleave. *)
THEOREM NoFileForgotten == Spec => []NothingLeftBehind
<1>1. DeletionInv => NothingLeftBehind
  BY DEF DeletionInv, Types, RowsFound, RemovedIsGone, Kept, Queued, Pending,
         NothingLeftBehind
<1> QED
  BY <1>1, DeletionInvHolds, PTL

(* account_deletion_file_removed completes a receipt only when all its files *)
(* are off the disk, although concurrent transactions do not see each other. *)
THEOREM CompletedIsTrue == Spec => []CompletedMeansGone
<1>1. DeletionInv => CompletedMeansGone
  BY DEF DeletionInv, CompletedIsMarked, RemovedIsGone, CompletedMeansGone
<1> QED
  BY <1>1, DeletionInvHolds, PTL

(* A client that DELETE /auth/account told of no pending file has nothing    *)
(* left on the server.                                                       *)
THEOREM ReplyIsHonest == Spec => []HonestReply
<1>1. DeletionInv => HonestReply
  <2> SUFFICES ASSUME DeletionInv, NEW r \in Receipts,
                      jobs[r].phase = "replied", jobs[r].failed = 0,
                      NEW e \in queue, e.receipt = r
               PROVE  e \in removed /\ e.file \notin disk
    BY DEF HonestReply
  <2>1. e \in removed
    BY DEF DeletionInv, Accounted
  <2> QED
    BY <2>1 DEF DeletionInv, RemovedIsGone
<1> QED
  BY <1>1, DeletionInvHolds, PTL

(* A file uploaded for good disappears only with an account that uploaded it *)
(* or posted it in a message.                                                *)
THEOREM FilesGoWithAccounts == Spec => []GoneWithAnAccount
<1>1. DeletionInv => GoneWithAnAccount
  <2> SUFFICES ASSUME DeletionInv, NEW f \in Files \ disk, uploads[f].phase \in Kept
               PROVE  \E a \in Accounts \ accounts :
                         uploads[f].owner = a \/ <<a, f>> \in messages
    BY DEF GoneWithAnAccount, Kept
  <2>1. PICK e \in queue : e.file = f
    BY DEF DeletionInv, OnDiskOrQueued, Queued
  <2> QED
    BY <2>1 DEF DeletionInv, QueueOfTheGone
<1> QED
  BY <1>1, DeletionInvHolds, PTL
=============================================================================
