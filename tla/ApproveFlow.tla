----------------------------- MODULE ApproveFlow -----------------------------
(***************************************************************************)
(* POST /auth/verify/approve and POST /auth/verify/ca/complete, several    *)
(* requests at a time, on top of the challenges (ChallengeLedger), the     *)
(* verification tables (VerificationStore) and the attempt limiter.  The   *)
(* handlers run in one process and are interleaved at their awaits; the    *)
(* code between two awaits is one step.  What the process keeps in memory, *)
(* handlers and challenges, dies with it; the tables do not.               *)
(*                                                                         *)
(* Left to other modules: authentication and App Attest, here merely       *)
(* passed or the request never gets this far.  External: the biometric     *)
(* worker and Passive Authentication, which may answer anything.           *)
(*                                                                         *)
(* An operator named X_Y is X with a plausible fault Y, used by no         *)
(* specification.                                                          *)
(***************************************************************************)
EXTENDS Integers, FiniteSets

CONSTANTS
    Documents, Contributors, Nobody, AttestKeys,
    Challenges,    \* challenge ids
    MaxRotations, MaxRequestId,
    NoPurpose,
    Testers,       \* BIOMETRIC_SHADOW_TESTER_IDS
    Handlers,      \* HTTP requests
    Lockable       \* bound on the model: the keys of the limiter that may
                   \* run out of attempts

ASSUME TestersAreAccounts ==
    /\ Testers \subseteq Contributors
    /\ Lockable \subseteq Contributors \cup AttestKeys
ASSUME TablesAssumption ==
    Nobody \notin Contributors /\ MaxRotations \in Nat /\ MaxRequestId \in Nat

VARIABLES
    generation, contributors, documentTokens, requests, receipts, caReceipts,
    ledger,    \* challenges in memory, and what became of each
    locks,     \* keys of the attempt limiter that are locked: accounts, devices
    handlers

tables == <<generation, contributors, documentTokens, requests, receipts,
            caReceipts>>
vars == <<tables, ledger, locks, handlers>>

Modes == {"production", "calibration"}
LivenessPurpose(mode) ==
    IF mode = "calibration" THEN "liveness_calibration" ELSE "liveness"
DocumentPurpose(mode) ==
    IF mode = "calibration" THEN "document_auth_calibration" ELSE "document_auth"
Purposes == {LivenessPurpose(m) : m \in Modes} \cup {DocumentPurpose(m) : m \in Modes}

Store == INSTANCE VerificationStore
Memory == INSTANCE ChallengeLedger WITH Ids <- Challenges

None == "none"

ASSUME NoneIsNoChallenge == None \notin Challenges

(* What the worker found; its word on chip authentication is the client's    *)
(* and good for a review only.                                               *)
ReviewOnly == {"passive_only", "chip_authentication_attested"}
WorkerAssurances == ReviewOnly \cup {"active_authentication"}

Handler ==
    [pc : {"free", "account_check", "device_check", "admitted", "verifying", "ca_lookup", "deciding",
           "recording", "replying", "done", "lost"},
     account : Contributors \cup {Nobody},
     key : AttestKeys \cup {None},
     mode : Modes \cup {None},
     liveness : Challenges \cup {None},     \* the liveness challenge it consumed
     document : Challenges \cup {None},     \* the document challenge
     passport : Documents \cup {None},
     assurance : WorkerAssurances \cup {None, "chip_authentication_server"},
     outcome : {None, "refused", "calibration", "verified", "pending",
                "ca_recorded"}]

TypeOK ==
    /\ Store!TypeOK
    /\ Memory!LedgerTypeOK
    /\ locks \subseteq Contributors \cup AttestKeys
    /\ handlers \in [Handlers -> Handler]

Free == [pc |-> "free", account |-> Nobody, key |-> None, mode |-> None,
         liveness |-> None, document |-> None, passport |-> None,
         assurance |-> None, outcome |-> None]

Init ==
    /\ Store!Init
    /\ Memory!Init
    /\ locks = {}
    /\ handlers = [h \in Handlers |-> Free]

At(h, pc) == handlers[h].pc = pc
Keys(h) == {handlers[h].account, handlers[h].key}  \* rlKeysFor
Ends(h, outcome) ==
    handlers' = [handlers EXCEPT ![h].pc = "done", ![h].outcome = outcome]

-----------------------------------------------------------------------------
(* Both endpoints: the session and the App Attest assertion are good, then   *)
(* rlCheck of the account, then of the device; a calibration run is checked  *)
(* by neither, only by the list of testers.  Which endpoint it is shows only *)
(* after that.                                                               *)

Start(h, c, k, mode) ==
    /\ At(h, "free")
    /\ contributors[c].registered
    /\ mode = "calibration" => c \in Testers
    /\ handlers' = [handlers EXCEPT
          ![h].pc = IF mode = "calibration" THEN "admitted" ELSE "account_check",
          ![h].account = c, ![h].key = k, ![h].mode = mode]
    /\ UNCHANGED <<tables, ledger, locks>>

CheckAccount(h) ==
    /\ At(h, "account_check") /\ handlers[h].account \notin locks
    /\ handlers' = [handlers EXCEPT ![h].pc = "device_check"]
    /\ UNCHANGED <<tables, ledger, locks>>

CheckDevice(h) ==
    /\ At(h, "device_check") /\ handlers[h].key \notin locks
    /\ handlers' = [handlers EXCEPT ![h].pc = "admitted"]
    /\ UNCHANGED <<tables, ledger, locks>>

(* From the last rlCheck to the first verifySOD nothing is awaited: the      *)
(* liveness challenge is consumed, the evidence is validated against it,     *)
(* the document challenge is consumed.  A refusal in between costs only the  *)
(* first.                                                                    *)
Usable(h, i, purpose) == Memory!IsLive(i, handlers[h].account, purpose)

Spent_KeptUntilReply(ids) == ledger
Spent(ids) == [i \in Challenges |->
                  IF i \in ids THEN [ledger[i] EXCEPT !.state = "consumed"]
                  ELSE ledger[i]]

ConsumeLiveness(h, l) ==
    /\ At(h, "admitted")
    /\ Usable(h, l, LivenessPurpose(handlers[h].mode))
    /\ ledger' = Spent({l})
    /\ handlers' = [handlers EXCEPT ![h].pc = "done", ![h].liveness = l,
                                    ![h].outcome = "refused"]
    /\ UNCHANGED <<tables, locks>>

ConsumeEvidence(h, l, d) ==
    /\ At(h, "admitted")
    /\ Usable(h, l, LivenessPurpose(handlers[h].mode))
    /\ Usable(h, d, DocumentPurpose(handlers[h].mode))
    /\ l # d
    /\ ledger' = Spent({l, d})
    /\ handlers' = [handlers EXCEPT ![h].pc = "verifying", ![h].liveness = l,
                                    ![h].document = d]
    /\ UNCHANGED <<tables, locks>>

(* Passive Authentication, the worker, Passive Authentication again on the   *)
(* worker's hashes: three awaits and one step, for none of them reads or     *)
(* writes anything that another step does, and a crash in between leaves the *)
(* same as one before.                                                       *)
VerifyEvidence(h, p, assurance) ==
    /\ At(h, "verifying")
    /\ assurance \in WorkerAssurances
    /\ handlers' = [handlers EXCEPT ![h].pc = "ca_lookup", ![h].passport = p,
                                    ![h].assurance = assurance]
    /\ UNCHANGED <<tables, ledger, locks>>

(* hasDocumentCAReceipt: an answer that may be stale when it is used.        *)
Receipts(h) == Store!MatchingCAReceipts(handlers[h].account, handlers[h].key,
                                        handlers[h].document, handlers[h].passport)
LookUpCA(h) ==
    /\ At(h, "ca_lookup")
    /\ handlers' = [handlers EXCEPT ![h].pc = "deciding",
          ![h].assurance = IF Receipts(h) # {} THEN "chip_authentication_server"
                           ELSE @]
    /\ UNCHANGED <<tables, ledger, locks>>

Decided(h, outcome) ==
    \/ handlers' = [handlers EXCEPT ![h].pc = "replying", ![h].outcome = outcome]
    \/ Ends(h, "refused")    \* committed, but the reply of the call was lost

ActivateVerifiedID_InAnyMode(h) ==
    /\ At(h, "deciding")
    /\ \/ /\ handlers[h].assurance = "active_authentication"
          /\ Store!ActivateAA(handlers[h].account, handlers[h].passport)
       \/ /\ handlers[h].assurance = "chip_authentication_server"
          /\ Store!ActivateCA(handlers[h].account, handlers[h].key,
                              handlers[h].document, handlers[h].passport)
    /\ Decided(h, "verified")
    /\ UNCHANGED <<ledger, locks>>
ActivateVerifiedID(h) ==
    /\ At(h, "deciding") /\ handlers[h].mode = "production"
    /\ \/ /\ handlers[h].assurance = "active_authentication"
          /\ Store!ActivateAA(handlers[h].account, handlers[h].passport)
       \/ /\ handlers[h].assurance = "chip_authentication_server"
          /\ Store!ActivateCA(handlers[h].account, handlers[h].key,
                              handlers[h].document, handlers[h].passport)
    /\ Decided(h, "verified")
    /\ UNCHANGED <<ledger, locks>>

SubmitForReview(h) ==
    LET c == handlers[h].account
        p == handlers[h].passport
    IN  /\ At(h, "deciding") /\ handlers[h].mode = "production"
        /\ handlers[h].assurance \in ReviewOnly
        /\ \/ Store!SubmitReview(c, p)
           \/ /\ Store!SubmitOutcome(c, p) = "pending"
              /\ Store!RequestsOn(p) # {}
              /\ UNCHANGED tables
        /\ Decided(h, "pending")
        /\ UNCHANGED <<ledger, locks>>

(* rlReset of the account, then of the device; a failure of either ends it   *)
(* and is only logged.                                                       *)
ResetLimiter(h) ==
    locks' \in {locks, locks \ {handlers[h].account}, locks \ Keys(h)}

Reply(h) ==
    /\ At(h, "replying")
    /\ ResetLimiter(h)
    /\ Ends(h, handlers[h].outcome)
    /\ UNCHANGED <<tables, ledger>>

(* The calibration lane stops after the lookup, having measured.             *)
FinishCalibration(h) ==
    /\ At(h, "deciding") /\ handlers[h].mode = "calibration"
    /\ ResetLimiter(h)
    /\ Ends(h, "calibration")
    /\ UNCHANGED <<tables, ledger>>

(* Any other answer: bad evidence, a failed check, a service that is down, a *)
(* document or an account that the tables do not accept.                     *)
Refuse(h) ==
    /\ handlers[h].pc \in {"account_check", "device_check", "admitted", "verifying",
                           "ca_lookup", "deciding", "recording"}
    /\ Ends(h, "refused")
    /\ UNCHANGED <<tables, ledger, locks>>

-----------------------------------------------------------------------------
(* /auth/verify/ca/complete: the transcript is verified, for the chip of     *)
(* passport p, and the document challenge only looked at.                    *)

InspectForCA(h, d, p) ==
    /\ At(h, "admitted")
    /\ Usable(h, d, DocumentPurpose(handlers[h].mode))
    /\ handlers' = [handlers EXCEPT ![h].pc = "recording", ![h].document = d,
                                    ![h].passport = p]
    /\ UNCHANGED <<tables, ledger, locks>>

RecordReceipt(h) ==
    /\ At(h, "recording")
    /\ Store!RecordCAReceipt(handlers[h].account, handlers[h].key,
                             handlers[h].document, handlers[h].passport)
    /\ Ends(h, "ca_recorded")
    /\ UNCHANGED <<ledger, locks>>

-----------------------------------------------------------------------------
(* The surroundings. *)

(* /auth/verify/challenge *)
IssueChallenge(i, c, p) ==
    /\ contributors[c].registered
    /\ p \in {LivenessPurpose("calibration"), DocumentPurpose("calibration")}
          => c \in Testers
    /\ p \in {LivenessPurpose("production"), DocumentPurpose("production")}
          => c \notin locks /\ AttestKeys \ locks # {}
    /\ Memory!Issue(i, c, p)
    /\ UNCHANGED <<tables, locks, handlers>>

LoseChallenge(i) ==
    /\ ledger[i].state = "live"
    /\ Memory!Lose({i})
    /\ UNCHANGED <<tables, locks, handlers>>

(* The challenge that is refused instead: rl_touch finds that the attempts   *)
(* of a key are used up and locks it.  In time the lock runs out.            *)
Lock(key) ==
    /\ key \in Lockable \ locks
    /\ locks' = locks \cup {key}
    /\ UNCHANGED <<tables, ledger, handlers>>

Unlock(key) ==
    /\ key \in locks
    /\ locks' = locks \ {key}
    /\ UNCHANGED <<tables, ledger, handlers>>

(* Account ids are never used again.  Moderators withdraw, review and ban    *)
(* documents meanwhile; a banned account is just refused.                    *)
AccountStep(c) ==
    /\ \/ /\ \A h \in Handlers : handlers[h].account # c
          /\ Store!Register(c)
       \/ Store!DeleteAccount(c)
       \/ Store!WithdrawVerification(c)
    /\ UNCHANGED <<ledger, locks, handlers>>

TableStep ==
    /\ \/ \E q \in caReceipts : Store!ExpireCAReceipt(q)
       \/ \E t \in Store!Tokens : Store!BanDocument(t)
       \/ \E r \in requests : Store!ApproveRequest(r) \/ Store!CloseRequest(r)
    /\ UNCHANGED <<ledger, locks, handlers>>

(* The process stops, and starts again with the pepper it had or a new one.  *)
Crash ==
    /\ Memory!Lose(Challenges)
    /\ handlers' = [h \in Handlers |->
                       IF handlers[h].pc \in {"free", "done"} THEN handlers[h]
                       ELSE [handlers[h] EXCEPT !.pc = "lost"]]
    /\ UNCHANGED tables \/ Store!RotatePepper
    /\ UNCHANGED locks

ApproveStep(h) ==
    \/ CheckAccount(h)
    \/ CheckDevice(h)
    \/ \E l \in Challenges :
          ConsumeLiveness(h, l) \/ \E d \in Challenges : ConsumeEvidence(h, l, d)
    \/ \E p \in Documents, assurance \in WorkerAssurances :
          VerifyEvidence(h, p, assurance)
    \/ LookUpCA(h)
    \/ ActivateVerifiedID(h)
    \/ SubmitForReview(h)
    \/ Reply(h)
    \/ FinishCalibration(h)
    \/ Refuse(h)

Next ==
    \/ \E h \in Handlers :
          \/ ApproveStep(h)
          \/ \E d \in Challenges, p \in Documents : InspectForCA(h, d, p)
          \/ RecordReceipt(h)
          \/ \E c \in Contributors, k \in AttestKeys, mode \in Modes :
                Start(h, c, k, mode)
    \/ \E i \in Challenges :
          LoseChallenge(i) \/ \E c \in Contributors, p \in Purposes : IssueChallenge(i, c, p)
    \/ \E key \in Contributors \cup AttestKeys : Lock(key) \/ Unlock(key)
    \/ \E c \in Contributors : AccountStep(c)
    \/ TableStep
    \/ Crash

Spec == Init /\ [][Next]_vars

-----------------------------------------------------------------------------
(* Properties. *)

(* "Auth споживає обидва nonce рівно один раз" (docs/server-side.md): two    *)
(* approve requests, however they overlap, never rest on one challenge.      *)
EvidenceUsedOnce ==
    \A g, h \in Handlers : g # h =>
        /\ handlers[g].liveness # handlers[h].liveness \/ handlers[g].liveness = None
        /\ handlers[g].liveness # None /\ handlers[h].liveness # None =>
              handlers[g].document # handlers[h].document \/ handlers[g].document = None

(* The challenge was issued to the account for the purpose and is used up.   *)
UsedUp(i, c, purpose) ==
    /\ i # None
    /\ ledger[i] = [state |-> "consumed", owner |-> c, purpose |-> purpose]

(* Nobody gets a Verified ID but through a production request of their own   *)
(* that used up a liveness and a document challenge issued to them for       *)
(* production, and found the assurance that the account shows; neither a     *)
(* calibration run nor a crash half-way ever does.                           *)
VerifiedOnlyWithEvidence ==
    \A c \in Contributors : Store!Verified(c) =>
        \E h \in Handlers :
            /\ handlers[h].account = c
            /\ handlers[h].mode = "production"
            /\ UsedUp(handlers[h].liveness, c, "liveness")
            /\ UsedUp(handlers[h].document, c, "document_auth")
            /\ handlers[h].assurance = contributors[c].assurance

(* A receipt of server-owned chip authentication is consumed only by the     *)
(* approve request that used up the very challenge the chip answered, of the *)
(* account and device that ran it: receipts of the calibration lane and      *)
(* receipts whose challenge went elsewhere stay unused.                      *)
ReceiptsBoundToEvidence ==
    \A q \in caReceipts : q.status = "consumed" =>
        /\ UsedUp(q.challenge, q.contributor, "document_auth")
        /\ \E h \in Handlers : /\ handlers[h].account = q.contributor
                               /\ handlers[h].key = q.key
                               /\ handlers[h].document = q.challenge
                               /\ handlers[h].liveness # None
                               /\ handlers[h].passport = q.document
=============================================================================
