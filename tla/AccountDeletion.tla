--------------------------- MODULE AccountDeletion ---------------------------
(***************************************************************************)
(* Uploaded files and the deletion of an account: the upload handler, the  *)
(* handler of DELETE /auth/account, the background worker that retries     *)
(* what the handler left, and the stored functions they call.              *)
(*                                                                         *)
(* The handlers and the worker are interleaved at their awaits.  Most      *)
(* stored functions are single steps; account_deletion_file_removed reads  *)
(* in one step and commits in a later one, because at READ COMMITTED it    *)
(* sees only what other transactions have committed.  Calls can fail or    *)
(* lose their reply, in which case the transaction may still go on, and    *)
(* the server process can die; MaxFaults bounds how often.                 *)
(*                                                                         *)
(* An operator named X_Y is X with a plausible fault Y, used by no         *)
(* specification.                                                          *)
(***************************************************************************)
EXTENDS Integers, FiniteSets

CONSTANTS
    Accounts,   \* contributor ids, never used again after a deletion
    Files,      \* random upload names, as numbers that give their order
    Receipts,   \* receipt UUIDs, one per deletion request, as numbers
    Stuck,      \* files that unlink always fails on (EACCES, EIO, ...)
    Batch,      \* how many entries one pass of the worker fetches
    MaxFaults   \* bound on failed calls and crashes

ASSUME NamesAreOrdered == Files \subseteq Nat /\ Receipts \subseteq Nat \ {0}
ASSUME StuckFilesExist == Stuck \subseteq Files
ASSUME BatchIsPositive == Batch \in Nat \ {0}
ASSUME FaultsAreBounded == MaxFaults \in Nat

(* removeDeletionFiles runs in the handler that made a receipt, or in the    *)
(* worker.                                                                   *)
Worker == 0
Jobs == Receipts \cup {Worker}
NoAccount == "no account"

VARIABLES
    accounts,   \* rows of contributors
    disk,       \* files in UPLOAD_DIR
    owners,     \* rows of uploaded_files
    messages,   \* chat_messages with an attachment: author and file
    uploads,    \* per file name, its upload handler
    receipts,   \* rows of account_deletion_receipts
    queue,      \* rows of account_deletion_files: receipt and file
    removed,    \* those of queue with removed_at
    jobs,       \* the runs of removeDeletionFiles
    marks,      \* account_deletion_file_removed transactions under way
    faults

vars == <<accounts, disk, owners, messages, uploads, receipts, queue, removed,
          jobs, marks, faults>>
tables == <<accounts, owners, messages, receipts, queue, removed>>

Entry == [receipt : Receipts, file : Files]
Upload == [phase : {"none", "registering", "registered", "done", "failed",
                    "orphaned", "unreported"},
           owner : Accounts \cup {NoAccount}]
Job == [phase : {"idle", "deleting", "removing", "marking", "replied", "dead"},
        account : Accounts \cup {NoAccount},
        todo : SUBSET Entry,
        failed : Nat]   \* files it could not remove or mark
Mark == [entry : Entry, job : Jobs,
         state : {"sent", "last", "not_last"}, awaited : BOOLEAN]

TypeOK ==
    /\ accounts \subseteq Accounts
    /\ disk \subseteq Files
    /\ owners \subseteq Accounts \X Files
    /\ messages \subseteq Accounts \X Files
    /\ uploads \in [Files -> Upload]
    /\ receipts \in [Receipts -> {"none", "open", "completed"}]
    /\ queue \subseteq Entry
    /\ removed \subseteq queue
    /\ jobs \in [Jobs -> Job]
    /\ marks \subseteq Mark
    /\ faults \in 0..MaxFaults

IdleJob == [phase |-> "idle", account |-> NoAccount, todo |-> {}, failed |-> 0]

Init ==
    /\ accounts = Accounts
    /\ disk = {}
    /\ owners = {}
    /\ messages = {}
    /\ uploads = [f \in Files |-> [phase |-> "none", owner |-> NoAccount]]
    /\ receipts = [r \in Receipts |-> "none"]
    /\ queue = {}
    /\ removed = {}
    /\ jobs = [j \in Jobs |-> IdleJob]
    /\ marks = {}
    /\ faults = 0

(* The handler is over, without the reply that counts what is left.          *)
Dead(job) == [IdleJob EXCEPT !.phase = "dead", !.account = job.account]

Fault == faults < MaxFaults /\ faults' = faults + 1

-----------------------------------------------------------------------------
(* POST /auth/upload.  A token may outlive its account, so nothing here asks *)
(* whether the account still exists; the foreign key of uploaded_files does. *)

WriteUpload(a, f) ==
    /\ uploads[f].phase = "none"
    /\ uploads' = [uploads EXCEPT ![f] = [phase |-> "registering", owner |-> a]]
    /\ disk' = disk \cup {f}
    /\ UNCHANGED <<tables, jobs, marks, faults>>

RegisterUpload_NoForeignKey(f) ==
    /\ uploads[f].phase = "registering"
    /\ uploads' = [uploads EXCEPT ![f].phase = "registered"]
    /\ owners' = owners \cup {<<uploads[f].owner, f>>}
    /\ UNCHANGED <<accounts, disk, messages, receipts, queue, removed, jobs,
                   marks, faults>>
RegisterUpload(f) ==
    /\ uploads[f].phase = "registering"
    /\ uploads[f].owner \in accounts
    /\ uploads' = [uploads EXCEPT ![f].phase = "registered"]
    /\ owners' = owners \cup {<<uploads[f].owner, f>>}
    /\ UNCHANGED <<accounts, disk, messages, receipts, queue, removed, jobs,
                   marks, faults>>

FinishUpload(f) ==
    /\ uploads[f].phase = "registered"
    /\ uploads' = [uploads EXCEPT ![f].phase = "done"]
    /\ UNCHANGED <<tables, disk, jobs, marks, faults>>

(* The catch block: the row could not be inserted, or only the reply of the  *)
(* call was lost.  An error of the unlink is swallowed.                      *)
FailUpload(f) ==
    /\ \/ /\ uploads[f].phase = "registering"
          /\ uploads[f].owner \notin accounts
          /\ UNCHANGED faults
       \/ uploads[f].phase \in {"registering", "registered"} /\ Fault
    /\ uploads' = [uploads EXCEPT ![f].phase = "failed"]
    /\ disk' = disk \ ({f} \ Stuck)
    /\ UNCHANGED <<tables, jobs, marks>>

(* A client posts a chat message that refers to a file somebody uploaded. (A *)
(* message with a file of one's own adds nothing to uploaded_files.)         *)
PostMessage(a, f) ==
    /\ a \in accounts
    /\ uploads[f].phase = "done"
    /\ uploads[f].owner # a
    /\ messages' = messages \cup {<<a, f>>}
    /\ UNCHANGED <<accounts, disk, owners, uploads, receipts, queue, removed,
                   jobs, marks, faults>>

-----------------------------------------------------------------------------
(* DELETE /auth/account. *)

RequestDeletion(r, a) ==
    /\ jobs[r].phase = "idle"
    /\ jobs' = [jobs EXCEPT ![r].phase = "deleting", ![r].account = a]
    /\ UNCHANGED <<tables, disk, uploads, marks, faults>>

(* delete_account_complete; the cascade empties uploaded_files. What becomes *)
(* of the account's messages is never read here again.                       *)
FilesOf_Everyones(a) == {f \in Files : \E b \in Accounts : <<b, f>> \in owners}
FilesOf(a) == {f \in Files : <<a, f>> \in owners \cup messages}

DeleteAccount(r) ==
    LET a == jobs[r].account
        entries == {[receipt |-> r, file |-> f] : f \in FilesOf(a)}
    IN  /\ jobs[r].phase = "deleting"
        /\ a \in accounts
        /\ accounts' = accounts \ {a}
        /\ owners' = {o \in owners : o[1] # a}
        /\ receipts' = [receipts EXCEPT ![r] =
                           IF entries = {} THEN "completed" ELSE "open"]
        /\ queue' = queue \cup entries
        /\ \/ /\ jobs' = [jobs EXCEPT ![r].phase = "removing",
                                      ![r].todo = entries]
              /\ UNCHANGED faults
           \/ /\ jobs' = [jobs EXCEPT ![r] = Dead(@)]  \* lost reply: 500
              /\ Fault
        /\ UNCHANGED <<disk, messages, uploads, removed, marks>>

(* status 'not_found', or an error of the call: 500.                         *)
RefuseDeletion(r) ==
    /\ jobs[r].phase = "deleting"
    /\ IF jobs[r].account \in accounts THEN Fault ELSE UNCHANGED faults
    /\ jobs' = [jobs EXCEPT ![r] = Dead(@)]
    /\ UNCHANGED <<tables, disk, uploads, marks>>

Reply(r) ==
    /\ jobs[r].phase = "removing"
    /\ jobs[r].todo = {}
    /\ jobs' = [jobs EXCEPT ![r].phase = "replied"]
    /\ UNCHANGED <<tables, disk, uploads, marks, faults>>

-----------------------------------------------------------------------------
(* runDeletionFileWorker: one run at a time. *)

Before(e, g) ==
    \/ e.receipt < g.receipt
    \/ e.receipt = g.receipt /\ e.file < g.file
Pending == queue \ removed
(* account_deletion_pending_files *)
FirstPending == {e \in Pending : Cardinality({g \in Pending : Before(g, e)}) < Batch}

StartWorker ==
    /\ jobs[Worker].phase = "idle"
    /\ Pending # {}
    /\ jobs' = [jobs EXCEPT ![Worker].phase = "removing",
                            ![Worker].todo = FirstPending]
    /\ UNCHANGED <<tables, disk, uploads, marks, faults>>

EndWorker_FlagStaysSet ==
    /\ jobs[Worker].phase = "removing"
    /\ jobs[Worker].todo = {}
    /\ jobs' = [jobs EXCEPT ![Worker].phase =
                   IF jobs[Worker].failed > 0 THEN "dead" ELSE "idle",
                            ![Worker].failed = 0]
    /\ UNCHANGED <<tables, disk, uploads, marks, faults>>
EndWorker ==
    /\ jobs[Worker].phase = "removing"
    /\ jobs[Worker].todo = {}
    /\ jobs' = [jobs EXCEPT ![Worker] = IdleJob]
    /\ UNCHANGED <<tables, disk, uploads, marks, faults>>

-----------------------------------------------------------------------------
(* removeDeletionFiles, in order: unlink the file, then mark its entry.      *)

Current(j) == CHOOSE e \in jobs[j].todo : \A g \in jobs[j].todo : ~Before(g, e)
Skip_Uncounted(j) ==
    [jobs EXCEPT ![j].phase = "removing", ![j].todo = @ \ {Current(j)}]
Skip(j) ==
    [jobs EXCEPT ![j].phase = "removing", ![j].todo = @ \ {Current(j)},
                 ![j].failed = @ + 1]

Unlinkable_ErrorSwallowed(f) == TRUE
Unlinkable(f) == f \notin Stuck \/ f \notin disk   \* ENOENT is no error

Unlink(j) ==
    /\ jobs[j].phase = "removing"
    /\ jobs[j].todo # {}
    /\ Unlinkable(Current(j).file)
    /\ disk' = disk \ ({Current(j).file} \ Stuck)
    /\ jobs' = [jobs EXCEPT ![j].phase = "marking"]
    /\ marks' = marks \cup {[entry |-> Current(j), job |-> j, state |-> "sent",
                             awaited |-> TRUE]}
    /\ UNCHANGED <<tables, uploads, faults>>

UnlinkFails(j) ==
    /\ jobs[j].phase = "removing"
    /\ jobs[j].todo # {}
    /\ ~Unlinkable(Current(j).file)
    /\ jobs' = Skip(j)
    /\ UNCHANGED <<tables, disk, uploads, marks, faults>>

(* account_deletion_file_removed: its writes are seen by others only when it *)
(* commits.                                                                  *)
(* The UPDATE waits while another transaction holds the row; then            *)
(* IF NOT EXISTS (... removed_at IS NULL) sees its own update and what       *)
(* others have committed by then.                                            *)
UpdateAndCheck(m) ==
    LET others == {e \in queue : e.receipt = m.entry.receipt /\ e # m.entry}
        state == IF others \subseteq removed THEN "last" ELSE "not_last"
    IN  /\ m.state = "sent"
        /\ \A n \in marks : n.entry = m.entry => n.state = "sent"
        /\ marks' = (marks \ {m}) \cup {[m EXCEPT !.state = state]}
        /\ UNCHANGED <<tables, disk, uploads, jobs, faults>>

CommitMark(m) ==
    /\ m.state \in {"last", "not_last"}
    /\ removed' = removed \cup {m.entry}
    /\ receipts' = IF m.state = "last"
                   THEN [receipts EXCEPT ![m.entry.receipt] = "completed"]
                   ELSE receipts
    /\ marks' = marks \ {m}
    /\ jobs' = IF m.awaited
               THEN [jobs EXCEPT ![m.job].phase = "removing",
                                 ![m.job].todo = @ \ {m.entry}]
               ELSE jobs
    /\ UNCHANGED <<accounts, disk, owners, messages, uploads, queue, faults>>

(* The call fails for its caller: the transaction never ran or was rolled    *)
(* back, or it goes on unobserved.                                           *)
LoseMark(m) ==
    /\ m.awaited
    /\ Fault
    /\ \/ marks' = marks \ {m}
       \/ marks' = (marks \ {m}) \cup {[m EXCEPT !.awaited = FALSE]}
    /\ jobs' = Skip(m.job)
    /\ UNCHANGED <<tables, disk, uploads>>

(* The server process dies and is started again.  A file it had written and  *)
(* not yet registered stays on the disk.                                     *)
AfterCrash(phase) ==
    CASE phase = "registering" -> "orphaned"
      [] phase = "registered" -> "unreported"
      [] OTHER -> phase

Crash ==
    /\ Fault
    /\ jobs' = [j \in Jobs |->
          IF j = Worker THEN IdleJob
          ELSE IF jobs[j].phase \in {"deleting", "removing", "marking"}
               THEN Dead(jobs[j]) ELSE jobs[j]]
    /\ uploads' = [f \in Files |->
          [uploads[f] EXCEPT !.phase = AfterCrash(uploads[f].phase)]]
    /\ marks' = {[m EXCEPT !.awaited = FALSE] : m \in marks}
    /\ UNCHANGED <<tables, disk>>

-----------------------------------------------------------------------------
UploadStep(f) ==
    \/ \E a \in Accounts : WriteUpload(a, f) \/ PostMessage(a, f)
    \/ RegisterUpload(f)
    \/ FinishUpload(f)
    \/ FailUpload(f)

DeletionStep(r) ==
    \/ \E a \in Accounts : RequestDeletion(r, a)
    \/ DeleteAccount(r)
    \/ RefuseDeletion(r)
    \/ Reply(r)

WorkerStep == StartWorker \/ EndWorker
RemovalStep(j) == Unlink(j) \/ UnlinkFails(j)
MarkStep(m) == UpdateAndCheck(m) \/ CommitMark(m)

Next ==
    \/ \E f \in Files : UploadStep(f)
    \/ \E r \in Receipts : DeletionStep(r)
    \/ WorkerStep
    \/ \E j \in Jobs : RemovalStep(j)
    \/ \E m \in marks : MarkStep(m) \/ LoseMark(m)
    \/ Crash

(* The timer starts the worker every five minutes; a started run of it and a *)
(* transaction of the database go on.  No fairness for clients and handlers. *)
Fairness ==
    /\ WF_vars(WorkerStep \/ RemovalStep(Worker))
    /\ WF_vars(\E m \in marks : MarkStep(m))

Spec == Init /\ [][Next]_vars
FairSpec == Spec /\ Fairness

-----------------------------------------------------------------------------
(* Properties. *)

(* Deleting an account leaves none of its files behind: an uploaded file of  *)
(* an account that is gone is off the disk or still has an entry in the      *)
(* queue. (A file whose upload is under way, or was cut short by a crash or  *)
(* an error, has no row to be found by.)                                     *)
NothingLeftBehind ==
    \A f \in disk :
        /\ uploads[f].phase \in {"done", "unreported"}
        /\ uploads[f].owner \notin accounts
        => \E e \in Pending : e.file = f

(* A file that was uploaded for good disappears only with an account that    *)
(* uploaded it or posted it.  The poster need not be the uploader: an        *)
(* account's deletion takes along every file its messages link to, also one  *)
(* that belongs to an account which stays.                                   *)
GoneWithAnAccount ==
    \A f \in Files \ disk :
        uploads[f].phase \in {"registered", "done", "unreported"} =>
            \E a \in Accounts \ accounts :
                uploads[f].owner = a \/ <<a, f>> \in messages

(* A completed receipt is the truth: all its files are off the disk for good.*)
CompletedMeansGone ==
    \A r \in Receipts : receipts[r] = "completed" =>
        \A e \in queue : e.receipt = r => e \in removed /\ e.file \notin disk

(* A client told filesPendingDeletion = 0 has nothing left on the server.    *)
HonestReply ==
    \A r \in Receipts : jobs[r].phase = "replied" /\ jobs[r].failed = 0 =>
        \A e \in queue : e.receipt = r => e \in removed /\ e.file \notin disk

(* Every file that can be removed eventually is, by the handler or a later   *)
(* pass of the worker, whatever calls fail and however often the server is   *)
(* restarted on the way, as long as the files that cannot be removed do not  *)
(* fill the worker's batch.                                                  *)
QueueDrains ==
    \A e \in [receipt : Receipts, file : Files \ Stuck] :
        e \in queue ~> e \in removed /\ e.file \notin disk

(* server.js:2684: "The durable DB queue remains pending and a later pass    *)
(* retries". Then a receipt still open, with no transaction under way, has   *)
(* an entry in the queue that a later pass will find.                        *)
OpenReceiptIsQueued ==
    \A r \in Receipts :
        receipts[r] = "open" =>
            \/ \E e \in Pending : e.receipt = r
            \/ \E m \in marks : m.entry.receipt = r
=============================================================================
