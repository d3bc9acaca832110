-------------------------- MODULE VerificationStore --------------------------
(***************************************************************************)
(* The verification tables of the database (contributors, document_tokens, *)
(* verification_requests, verification_receipts, document_ca_receipts) and *)
(* the stored functions that are the only writers of them, each as one     *)
(* transaction: every function takes the advisory locks of its account and *)
(* of both tokens of its document before it reads, so two calls that could *)
(* touch the same rows run one after the other.                            *)
(*                                                                         *)
(* A document token is an HMAC of the document under a pepper; the server  *)
(* sends the token of its current pepper and that of the previous one.     *)
(* Here a token is the pair of the document and the pepper's generation.   *)
(*                                                                         *)
(* An operator named X_Y is X with a plausible fault Y. No specification   *)
(* uses it: replacing X by it shows that a property notices.               *)
(***************************************************************************)
EXTENDS Integers, FiniteSets

CONSTANTS
    Documents,     \* passports: sodDG1Hash tells them apart
    Contributors,  \* account ids
    Nobody,        \* SQL NULL in document_tokens.contributor_id
    AttestKeys,    \* App Attest key ids
    Challenges,    \* ids of document_auth challenges
    MaxRotations,  \* how many times the pepper is rotated
    MaxRequestId   \* bound on the BIGSERIAL of verification_requests

ASSUME NobodyIsNoAccount == Nobody \notin Contributors
ASSUME BoundsAreNatural == MaxRotations \in Nat /\ MaxRequestId \in Nat

VARIABLES
    generation,      \* generation of DOC_TOKEN_PEPPER the server runs with
    contributors,    \* account rows: registered, banned, assurance
    documentTokens,  \* rows of document_tokens
    requests,        \* the active (pending, approved) verification_requests
    receipts,        \* verification_receipts
    caReceipts       \* document_ca_receipts

vars == <<generation, contributors, documentTokens, requests, receipts,
          caReceipts>>

Generations == 0..MaxRotations
Tokens == Documents \X Generations
DocumentOf(t) == t[1]
GenerationOf(t) == t[2]

Assurances == {"active_authentication", "chip_authentication_server"}
Account == [registered : BOOLEAN, banned : BOOLEAN,
            assurance : Assurances \cup {"none"}]
TokenRow == [status : {"absent", "active", "banned"},
             owner : Contributors \cup {Nobody}]
Request == [id : 1..MaxRequestId, owner : Contributors, token : Tokens,
            status : {"pending", "approved"}]
Receipt == [contributor : Contributors, token : Tokens, assurance : Assurances]
CAReceipt == [contributor : Contributors, key : AttestKeys,
              challenge : Challenges, document : Documents,
              status : {"open", "consumed", "expired"}]

TypeOK ==
    /\ generation \in Generations
    /\ contributors \in [Contributors -> Account]
    /\ documentTokens \in [Tokens -> TokenRow]
    /\ requests \subseteq Request
    /\ receipts \subseteq Receipt
    /\ caReceipts \subseteq CAReceipt

NoAccount == [registered |-> FALSE, banned |-> FALSE, assurance |-> "none"]
NoRow == [status |-> "absent", owner |-> Nobody]

Init ==
    /\ generation = 0
    /\ contributors = [c \in Contributors |-> NoAccount]
    /\ documentTokens = [t \in Tokens |-> NoRow]
    /\ requests = {}
    /\ receipts = {}
    /\ caReceipts = {}

-----------------------------------------------------------------------------
(* Reading the tables. *)

Verified(c) == contributors[c].assurance # "none"
HasRow(t) == documentTokens[t].status # "absent"
OwnsRow(c, t) == HasRow(t) /\ documentTokens[t].owner = c

(* p_document_token, and p_legacy_document_token once there has been a       *)
(* rotation. The pepper before the previous one is forgotten.                *)
CurrentToken(d) == <<d, generation>>
LegacyTokens(d) == IF generation = 0 THEN {} ELSE {<<d, generation - 1>>}
KnownTokens_CurrentOnly(d) == {CurrentToken(d)}
KnownTokens(d) == {CurrentToken(d)} \cup LegacyTokens(d)
KnownRows(d) == {t \in KnownTokens(d) : HasRow(t)}

RequestsOn(d) == {r \in requests : r.token \in KnownTokens(d)}
RequestsOf(c) == {r \in requests : r.owner = c}

(* ORDER BY id DESC LIMIT 1 *)
Newest(rs) == CHOOSE r \in rs : \A s \in rs : s.id <= r.id
NewestBelongsTo_Unchecked(c, rs) == TRUE
NewestBelongsTo(c, rs) == rs # {} => Newest(rs).owner = c

(* BIGSERIAL grows, with gaps. *)
FreshRequestIds == {i \in 1..MaxRequestId : \A r \in requests : r.id < i}

-----------------------------------------------------------------------------
(* submit_verification_review_v7_rotating: put a document in the queue of    *)
(* manual review. Every other outcome than "pending" leaves the tables as    *)
(* they are.                                                                 *)

ReviewVerdict(c, t) ==
    CASE documentTokens[t].status = "banned" -> "banned"
      [] documentTokens[t].status # "banned"
         /\ documentTokens[t].owner \notin {Nobody, c} -> "duplicate"
      [] documentTokens[t].status # "banned"
         /\ documentTokens[t].owner = c -> "already_verified"
      [] OTHER -> "free"

(* The rows are visited in the order of the tokens, which are HMACs: the     *)
(* first of them that is not free decides, and which one is first is         *)
(* arbitrary.                                                                *)
TakenRows(c, d) == {t \in KnownRows(d) : ReviewVerdict(c, t) # "free"}

SubmitOutcome(c, d) ==
    IF TakenRows(c, d) # {}
    THEN ReviewVerdict(c, CHOOSE t \in TakenRows(c, d) : TRUE)
    ELSE IF ~NewestBelongsTo(c, RequestsOn(d)) THEN "duplicate"
    ELSE IF /\ RequestsOf(c) # {}
            /\ Newest(RequestsOf(c)).token \notin KnownTokens(d)
         THEN "contributor_conflict"
    ELSE IF RequestsOn(d) # {}
         THEN IF Newest(RequestsOn(d)).status = "pending"
              THEN "pending" ELSE "raise"  \* v7 updates no pending row
    ELSE IF ~contributors[c].registered THEN "raise"
    ELSE "pending"

(* An unclaimed row that is already there stays canonical. *)
EffectiveTokens(d) ==
    IF KnownRows(d) # {} THEN KnownRows(d) ELSE {CurrentToken(d)}

SubmitReview(c, d) ==
    /\ SubmitOutcome(c, d) = "pending"
    /\ RequestsOn(d) = {}
    /\ \E i \in FreshRequestIds, t \in EffectiveTokens(d) :
          requests' = requests \cup
              {[id |-> i, owner |-> c, token |-> t, status |-> "pending"]}
    /\ UNCHANGED <<generation, contributors, documentTokens, receipts,
                   caReceipts>>

-----------------------------------------------------------------------------
(* activate_self_hosted_verified_id_v7_rotating and its CA variant.          *)

ActivationVerdict_IgnoresOwner(c, t) ==
    IF documentTokens[t].status = "banned" THEN "banned" ELSE "free"
ActivationVerdict(c, t) ==
    CASE documentTokens[t].status = "banned" -> "banned"
      [] documentTokens[t].status # "banned"
         /\ documentTokens[t].owner \notin {Nobody, c} -> "duplicate"
      [] OTHER -> "free"

BlockingRows(c, d) == {t \in KnownRows(d) : ActivationVerdict(c, t) # "free"}

(* After a rotation the account's own active request moves to the current    *)
(* token, and a pending one is approved by the activation.                   *)
Moved(c, d) ==
    [r \in requests |->
        IF r.owner = c /\ r.token \in KnownTokens(d)
        THEN [r EXCEPT !.token = CurrentToken(d), !.status = "approved"]
        ELSE r]

RequestsAfterActivation(c, d) == {Moved(c, d)[r] : r \in requests}

(* uq_verification_request_active_document, uq_verification_receipts_document *)
BreaksUniqueIndex(c, d) ==
    \/ \E r, s \in requests : /\ r # s
                              /\ Moved(c, d)[r].token = CurrentToken(d)
                              /\ Moved(c, d)[s].token = CurrentToken(d)
    \/ \E q \in receipts : q.token = CurrentToken(d)

ActivateOutcome(c, d) ==
    IF ~contributors[c].registered \/ contributors[c].banned
    THEN "account_invalid"
    ELSE IF Verified(c) THEN "already_verified"
    ELSE IF BlockingRows(c, d) # {}
         THEN ActivationVerdict(c, CHOOSE t \in BlockingRows(c, d) : TRUE)
    ELSE IF \E t \in Tokens \ KnownTokens(d) : OwnsRow(c, t)
         THEN "contributor_conflict"
    ELSE IF ~NewestBelongsTo(c, RequestsOn(d)) THEN "duplicate"
    ELSE IF BreaksUniqueIndex(c, d) THEN "conflict"
    ELSE "verified"

(* The writes of a successful activation: the legacy row goes, the current   *)
(* one is inserted or taken over, the account is verified, its request is    *)
(* approved and the receipt is recorded.                                     *)
Activated_FlagOnly(c, d, assurance) ==
    /\ documentTokens' = [documentTokens EXCEPT
          ![CurrentToken(d)] = [status |-> "active", owner |-> c]]
    /\ contributors' = [contributors EXCEPT ![c].assurance = "strong"]
    /\ UNCHANGED <<generation, requests, receipts>>
Activated(c, d, assurance) ==
    /\ documentTokens' = [t \in Tokens |->
          IF t = CurrentToken(d) THEN [status |-> "active", owner |-> c]
          ELSE IF t \in LegacyTokens(d) THEN NoRow
          ELSE documentTokens[t]]
    /\ contributors' = [contributors EXCEPT ![c].assurance = assurance]
    /\ requests' = RequestsAfterActivation(c, d)
    /\ receipts' = receipts \cup
          {[contributor |-> c, token |-> CurrentToken(d),
            assurance |-> assurance]}
    /\ UNCHANGED generation

ActivateAA(c, d) ==
    /\ ActivateOutcome(c, d) = "verified"
    /\ Activated(c, d, "active_authentication")
    /\ UNCHANGED caReceipts

(* The receipt of the server-owned chip authentication is consumed in the    *)
(* same transaction; without exactly one matching receipt the exception      *)
(* undoes the activation.                                                    *)
MatchingCAReceipts_Replayed(c, k, ch, d) ==
    {q \in caReceipts : /\ q.contributor = c /\ q.key = k
                        /\ q.challenge = ch /\ q.document = d
                        /\ q.status # "expired"}
MatchingCAReceipts_AnyChallenge(c, k, ch, d) ==
    {q \in caReceipts : /\ q.contributor = c /\ q.key = k
                        /\ q.document = d /\ q.status = "open"}
MatchingCAReceipts(c, k, ch, d) ==
    {q \in caReceipts : /\ q.contributor = c /\ q.key = k
                        /\ q.challenge = ch /\ q.document = d
                        /\ q.status = "open"}

ActivateCA_RowCountIgnored(c, k, ch, d) ==
    /\ ActivateOutcome(c, d) = "verified"
    /\ Activated(c, d, "chip_authentication_server")
    /\ caReceipts' = {IF q \in MatchingCAReceipts(c, k, ch, d)
                      THEN [q EXCEPT !.status = "consumed"] ELSE q :
                         q \in caReceipts}
ActivateCA(c, k, ch, d) ==
    /\ ActivateOutcome(c, d) = "verified"
    /\ Activated(c, d, "chip_authentication_server")
    /\ \E q \in MatchingCAReceipts(c, k, ch, d) :
          /\ MatchingCAReceipts(c, k, ch, d) = {q}
          /\ caReceipts' = (caReceipts \ {q}) \cup
                               {[q EXCEPT !.status = "consumed"]}

(* document_ca_record_receipt: false on a second receipt of one challenge.   *)
RecordCAReceipt(c, k, ch, d) ==
    /\ contributors[c].registered
    /\ \A q \in caReceipts : q.contributor # c \/ q.challenge # ch
    /\ caReceipts' = caReceipts \cup
          {[contributor |-> c, key |-> k, challenge |-> ch, document |-> d,
            status |-> "open"]}
    /\ UNCHANGED <<generation, contributors, documentTokens, requests, receipts>>

(* expires_at passes. *)
ExpireCAReceipt(q) ==
    /\ q.status = "open"
    /\ caReceipts' = (caReceipts \ {q}) \cup {[q EXCEPT !.status = "expired"]}
    /\ UNCHANGED <<generation, contributors, documentTokens, requests, receipts>>

-----------------------------------------------------------------------------
(* The life of an account. *)

Register(c) ==
    /\ ~contributors[c].registered
    /\ contributors' = [contributors EXCEPT ![c].registered = TRUE]
    /\ UNCHANGED <<generation, documentTokens, requests, receipts, caReceipts>>

(* delete_account_complete: the foreign keys cascade, except that            *)
(* document_tokens keeps its row with the owner set to NULL.                 *)
DeleteAccount_CascadesToTokens(c) ==
    /\ contributors[c].registered
    /\ contributors' = [contributors EXCEPT ![c] = NoAccount]
    /\ documentTokens' = [t \in Tokens |->
          IF documentTokens[t].owner = c THEN NoRow ELSE documentTokens[t]]
    /\ requests' = {r \in requests : r.owner # c}
    /\ receipts' = {q \in receipts : q.contributor # c}
    /\ caReceipts' = {q \in caReceipts : q.contributor # c}
    /\ UNCHANGED generation
DeleteAccount(c) ==
    /\ contributors[c].registered
    /\ contributors' = [contributors EXCEPT ![c] = NoAccount]
    /\ documentTokens' = [t \in Tokens |->
          IF documentTokens[t].owner = c
          THEN [documentTokens[t] EXCEPT !.owner = Nobody]
          ELSE documentTokens[t]]
    /\ requests' = {r \in requests : r.owner # c}
    /\ receipts' = {q \in receipts : q.contributor # c}
    /\ caReceipts' = {q \in caReceipts : q.contributor # c}
    /\ UNCHANGED generation

(* What the moderators do by hand in the database. *)
BanDocument(t) ==
    /\ documentTokens[t].status = "active"
    /\ documentTokens' = [documentTokens EXCEPT ![t].status = "banned"]
    /\ UNCHANGED <<generation, contributors, requests, receipts, caReceipts>>

BanContributor(c) ==
    /\ contributors[c].registered /\ ~contributors[c].banned
    /\ contributors' = [contributors EXCEPT ![c].banned = TRUE]
    /\ UNCHANGED <<generation, documentTokens, requests, receipts, caReceipts>>

(* db/reverify_weak_window.sh: the account must verify again; document       *)
(* tokens and bans are left alone.                                           *)
WithdrawVerification(c) ==
    /\ Verified(c)
    /\ contributors' = [contributors EXCEPT ![c].assurance = "none"]
    /\ UNCHANGED <<generation, documentTokens, requests, receipts, caReceipts>>

ApproveRequest(r) ==
    /\ r.status = "pending"
    /\ requests' = (requests \ {r}) \cup {[r EXCEPT !.status = "approved"]}
    /\ UNCHANGED <<generation, contributors, documentTokens, receipts,
                   caReceipts>>

(* Rejected and cancelled requests are never read again. *)
CloseRequest(r) ==
    /\ requests' = requests \ {r}
    /\ UNCHANGED <<generation, contributors, documentTokens, receipts,
                   caReceipts>>

(* The server restarts with a new DOC_TOKEN_PEPPER and the old one as        *)
(* DOC_TOKEN_PEPPER_PREVIOUS.                                                *)
RotatePepper ==
    /\ generation < MaxRotations
    /\ generation' = generation + 1
    /\ UNCHANGED <<contributors, documentTokens, requests, receipts, caReceipts>>

AccountStep(c) ==
    \/ Register(c)
    \/ DeleteAccount(c)
    \/ BanContributor(c)
    \/ WithdrawVerification(c)

DocumentStep(c, d) ==
    \/ SubmitReview(c, d)
    \/ ActivateAA(c, d)
    \/ \E k \in AttestKeys, ch \in Challenges :
          ActivateCA(c, k, ch, d) \/ RecordCAReceipt(c, k, ch, d)

Next ==
    \/ \E c \in Contributors : AccountStep(c)
    \/ \E c \in Contributors, d \in Documents : DocumentStep(c, d)
    \/ \E q \in caReceipts : ExpireCAReceipt(q)
    \/ \E t \in Tokens : BanDocument(t)
    \/ \E r \in requests : ApproveRequest(r) \/ CloseRequest(r)
    \/ RotatePepper

Spec == Init /\ [][Next]_vars

-----------------------------------------------------------------------------
(* Properties. They speak of documents, which the tables never name: a       *)
(* document may be known under the token of any pepper.                      *)

TokensOf(d) == {d} \X Generations
Claimants(d) == {documentTokens[t].owner : t \in TokensOf(d)} \ {Nobody}
Applicants(d) == {r.owner : r \in {q \in requests : DocumentOf(q.token) = d}}
InterestedIn(d) == Claimants(d) \cup Applicants(d)
BannedDocuments ==
    {d \in Documents : \E t \in TokensOf(d) : documentTokens[t].status = "banned"}

(* "One passport, one account": over every generation of its token and over  *)
(* claims and active requests together, a document belongs to one account    *)
(* at most (20260722_document_pepper_rotation.sql:3-7).                      *)
OneAccountPerDocument ==
    \A d \in Documents : \A a, b \in InterestedIn(d) : a = b

(* Why that holds while the server knows every pepper that was ever in use.  *)
NoTokenOfFuturePepper ==
    /\ \A t \in Tokens : HasRow(t) => GenerationOf(t) <= generation
    /\ \A r \in requests : GenerationOf(r.token) <= generation
OneRowPerDocument ==
    \A t, u \in Tokens :
        HasRow(t) /\ HasRow(u) /\ DocumentOf(t) = DocumentOf(u) => t = u
OneRequestPerDocument ==
    \A r, s \in requests : DocumentOf(r.token) = DocumentOf(s.token) => r = s
ClaimantIsApplicant ==
    \A r \in requests, t \in Tokens :
        /\ DocumentOf(r.token) = DocumentOf(t)
        /\ documentTokens[t].owner # Nobody
        => documentTokens[t].owner = r.owner
OnlyRowsHaveOwners ==
    \A t \in Tokens : documentTokens[t].owner # Nobody => HasRow(t)

(* A document has one row and one active request over all generations of     *)
(* its token, of the same account (the inductive invariant behind            *)
(* OneAccountPerDocument).                                                   *)
ClaimInv ==
    /\ NoTokenOfFuturePepper
    /\ OneRowPerDocument
    /\ OneRequestPerDocument
    /\ ClaimantIsApplicant
    /\ OnlyRowsHaveOwners

(* A Verified ID is never left without what it rests on: the account owns    *)
(* the claim of one document, has a receipt for that document with the       *)
(* assurance shown on the account, and, when that is server-owned chip       *)
(* authentication, a consumed CA receipt for the same document.              *)
BackedBy(c, t) ==
    /\ OwnsRow(c, t)
    /\ \E q \in receipts : /\ q.contributor = c
                          /\ DocumentOf(q.token) = DocumentOf(t)
                          /\ q.assurance = contributors[c].assurance
    /\ contributors[c].assurance = "chip_authentication_server" =>
          \E q \in caReceipts : /\ q.contributor = c
                                /\ q.document = DocumentOf(t)
                                /\ q.status = "consumed"
VerifiedIsBacked ==
    \A c \in Contributors : Verified(c) => \E t \in Tokens : BackedBy(c, t)

(* One chip authentication transcript activates once: every verification     *)
(* receipt of CA assurance has a consumed CA receipt of its own.             *)
CAActivations(c) ==
    {q \in receipts : /\ q.contributor = c
                      /\ q.assurance = "chip_authentication_server"}
ConsumedCAReceipts(c) ==
    {q \in caReceipts : q.contributor = c /\ q.status = "consumed"}
OneActivationPerCAReceipt ==
    \A c \in Contributors :
        Cardinality(CAActivations(c)) = Cardinality(ConsumedCAReceipts(c))

(* A claimed document goes to another account only after the claimant's      *)
(* account is gone: no rotation, review, withdrawal or activation by someone *)
(* else takes it away.                                                       *)
ClaimEndsWithAccount ==
    [][\A d \in Documents : \A a \in Claimants(d) :
          a \in Claimants(d)' \/ ~contributors'[a].registered]_vars

(* A ban outlives the account and the pepper it was made under: from then on *)
(* nobody newly claims the document or enters the queue with it.             *)
BannedDocumentStaysOut ==
    [][\A d \in BannedDocuments :
          d \in BannedDocuments' /\ InterestedIn(d)' \subseteq InterestedIn(d)]_vars

(* The tables implement the promise of DocumentClaims.                       *)
TheOne(S) == IF S = {} THEN Nobody ELSE CHOOSE c \in S : TRUE

Claims == INSTANCE DocumentClaims WITH
    holder <- [d \in Documents |-> TheOne(Claimants(d))],
    reserver <- [d \in Documents |-> TheOne(Applicants(d))],
    banned <- BannedDocuments

ImplementsDocumentClaims == Claims!Spec
=============================================================================
