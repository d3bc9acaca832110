----------------------- MODULE VerificationStoreProofs -----------------------
(***************************************************************************)
(* Proofs about VerificationStore, for any number of accounts, documents,  *)
(* keys and challenges.                                                    *)
(*                                                                         *)
(* What rests on an account's own rows holds for any number of pepper      *)
(* rotations: the column types, what backs a Verified ID, one activation   *)
(* per transcript, a claim ends with its account. What is said of a        *)
(* document over all its tokens, and with it the refinement of             *)
(* DocumentClaims, holds for at most one, since a second rotation makes    *)
(* the server forget the oldest tokens.                                    *)
(***************************************************************************)
EXTENDS VerificationStore, FiniteSetTheorems, TLAPS

(* The tables keep their column types and foreign keys' domains.           *)
THEOREM TypeCorrect == Spec => []TypeOK
<1> USE BoundsAreNatural
<1>1. Init => TypeOK
  BY DEF Init, TypeOK, Generations, NoAccount, NoRow, Account, TokenRow
<1>2. ASSUME TypeOK, [Next]_vars PROVE TypeOK'
  <2> USE <1>2 DEF TypeOK
  <2>1. ASSUME NEW c \in Contributors, AccountStep(c) PROVE TypeOK'
    <3>1. CASE Register(c)
      BY <3>1 DEF Register, Account
    <3>2. CASE DeleteAccount(c)
      BY <3>2 DEF DeleteAccount, Account, NoAccount, TokenRow, Tokens
    <3>3. CASE BanContributor(c)
      BY <3>3 DEF BanContributor, Account
    <3>4. CASE WithdrawVerification(c)
      BY <3>4 DEF WithdrawVerification, Account
    <3> QED BY <2>1, <3>1, <3>2, <3>3, <3>4 DEF AccountStep
  <2>2. ASSUME NEW c \in Contributors, NEW d \in Documents, SubmitReview(c, d)
        PROVE TypeOK'
    <3>1. EffectiveTokens(d) \subseteq Tokens
      BY DEF EffectiveTokens, KnownRows, KnownTokens, LegacyTokens, CurrentToken,
             Tokens, Generations
    <3>2. PICK i \in FreshRequestIds, t \in EffectiveTokens(d) :
            requests' = requests \cup
              {[id |-> i, owner |-> c, token |-> t, status |-> "pending"]}
      BY <2>2 DEF SubmitReview
    <3>3. i \in 1..MaxRequestId
      BY DEF FreshRequestIds
    <3> QED BY <2>2, <3>1, <3>2, <3>3 DEF SubmitReview, Request
  <2>3. ASSUME NEW c \in Contributors, NEW d \in Documents,
               NEW a \in Assurances, Activated(c, d, a)
        PROVE /\ generation' \in Generations
              /\ contributors' \in [Contributors -> Account]
              /\ documentTokens' \in [Tokens -> TokenRow]
              /\ requests' \subseteq Request
              /\ receipts' \subseteq Receipt
    <3>1. CurrentToken(d) \in Tokens
      BY DEF CurrentToken, Tokens
    <3>2. RequestsAfterActivation(c, d) \subseteq Request
      BY <3>1 DEF RequestsAfterActivation, Moved, Request
    <3>3. documentTokens' \in [Tokens -> TokenRow]
      BY <2>3, <3>1 DEF Activated, TokenRow, NoRow
    <3>4. contributors' \in [Contributors -> Account]
      BY <2>3 DEF Activated, Account
    <3>5. receipts' \subseteq Receipt
      BY <2>3, <3>1 DEF Activated, Receipt
    <3> QED BY <2>3, <3>2, <3>3, <3>4, <3>5 DEF Activated
  <2>4. ASSUME NEW c \in Contributors, NEW d \in Documents, ActivateAA(c, d)
        PROVE TypeOK'
    BY <2>4, <2>3 DEF ActivateAA, Assurances
  <2>5. ASSUME NEW c \in Contributors, NEW d \in Documents,
               NEW k \in AttestKeys, NEW ch \in Challenges, ActivateCA(c, k, ch, d)
        PROVE TypeOK'
    <3>1. PICK q \in MatchingCAReceipts(c, k, ch, d) :
            caReceipts' = (caReceipts \ {q}) \cup {[q EXCEPT !.status = "consumed"]}
      BY <2>5 DEF ActivateCA
    <3>2. q \in CAReceipt
      BY DEF MatchingCAReceipts
    <3>3. caReceipts' \subseteq CAReceipt
      BY <3>1, <3>2 DEF CAReceipt
    <3>4. Activated(c, d, "chip_authentication_server")
      BY <2>5 DEF ActivateCA
    <3>5. "chip_authentication_server" \in Assurances
      BY DEF Assurances
    <3> QED BY <2>3, <3>3, <3>4, <3>5
  <2>6. ASSUME NEW c \in Contributors, NEW d \in Documents,
               NEW k \in AttestKeys, NEW ch \in Challenges,
               RecordCAReceipt(c, k, ch, d)
        PROVE TypeOK'
    BY <2>6 DEF RecordCAReceipt, CAReceipt
  <2>7. ASSUME NEW q \in caReceipts, ExpireCAReceipt(q) PROVE TypeOK'
    BY <2>7 DEF ExpireCAReceipt, CAReceipt
  <2>8. ASSUME NEW t \in Tokens, BanDocument(t) PROVE TypeOK'
    BY <2>8 DEF BanDocument, TokenRow
  <2>9. ASSUME NEW r \in requests, ApproveRequest(r) \/ CloseRequest(r) PROVE TypeOK'
    BY <2>9 DEF ApproveRequest, CloseRequest, Request
  <2>10. CASE RotatePepper
    BY <2>10 DEF RotatePepper, Generations
  <2>11. CASE UNCHANGED vars
    BY <2>11 DEF vars
  <2> QED
    BY <1>2, <2>1, <2>2, <2>4, <2>5, <2>6, <2>7, <2>8, <2>9, <2>10, <2>11
    DEF Next, DocumentStep
<1> QED BY <1>1, <1>2, PTL DEF Spec
-----------------------------------------------------------------------------
(* The tokens the server computes for a document are all its tokens that can *)
(* have a row, when there was at most one rotation.                          *)
LEMMA KnownTokensSuffice ==
    ASSUME MaxRotations <= 1, TypeOK, NEW d \in Documents, NEW t \in Tokens
    PROVE  DocumentOf(t) = d /\ GenerationOf(t) <= generation
             => t \in KnownTokens(d)
<1> USE BoundsAreNatural DEF TypeOK, Generations
<1>1. t = <<t[1], t[2]>> /\ t[2] \in 0..MaxRotations
  BY DEF Tokens
<1>2. generation = 0 \/ generation = 1
  OBVIOUS
<1> QED
  BY <1>1, <1>2 DEF DocumentOf, GenerationOf, KnownTokens, CurrentToken, LegacyTokens

LEMMA KnownTokensType ==
    ASSUME TypeOK, NEW d \in Documents, NEW t \in KnownTokens(d)
    PROVE  t \in Tokens /\ DocumentOf(t) = d /\ GenerationOf(t) <= generation
BY BoundsAreNatural
DEF TypeOK, Generations, Tokens, DocumentOf, GenerationOf, KnownTokens,
    CurrentToken, LegacyTokens

(* What a review request that is accepted has seen.                          *)
LEMMA PendingOutcome ==
    ASSUME NEW c, NEW d, SubmitOutcome(c, d) = "pending"
    PROVE  \A t \in KnownRows(d) : /\ documentTokens[t].owner = Nobody
                                  /\ documentTokens[t].status # "banned"
<1>1. \A t : ReviewVerdict(c, t) \in {"banned", "duplicate", "already_verified", "free"}
  BY DEF ReviewVerdict
<1>2. TakenRows(c, d) = {}
  BY <1>1 DEF SubmitOutcome
<1>3. \A t : ReviewVerdict(c, t) = "free" => /\ documentTokens[t].owner = Nobody
                                            /\ documentTokens[t].status # "banned"
  BY DEF ReviewVerdict
<1> QED BY <1>2, <1>3 DEF TakenRows

(* What a successful activation has seen.                                    *)
LEMMA VerifiedOutcome ==
    ASSUME NEW c, NEW d, ActivateOutcome(c, d) = "verified"
    PROVE  /\ contributors[c].registered /\ ~contributors[c].banned
           /\ ~Verified(c)
           /\ \A t \in KnownRows(d) : /\ documentTokens[t].status # "banned"
                                      /\ documentTokens[t].owner \in {Nobody, c}
           /\ \A t \in Tokens \ KnownTokens(d) : ~OwnsRow(c, t)
           /\ NewestBelongsTo(c, RequestsOn(d))
<1>1. \A t : ActivationVerdict(c, t) \in {"banned", "duplicate", "free"}
  BY DEF ActivationVerdict
<1>2. BlockingRows(c, d) = {}
  BY <1>1 DEF ActivateOutcome
<1>3. \A t : ActivationVerdict(c, t) = "free" =>
                /\ documentTokens[t].status # "banned"
                /\ documentTokens[t].owner \in {Nobody, c}
  BY DEF ActivationVerdict
<1>4. \A t \in KnownRows(d) : /\ documentTokens[t].status # "banned"
                             /\ documentTokens[t].owner \in {Nobody, c}
  BY <1>2, <1>3 DEF BlockingRows
<1>5. \A t \in Tokens \ KnownTokens(d) : ~OwnsRow(c, t)
  BY <1>2 DEF ActivateOutcome
<1> QED BY <1>2, <1>4, <1>5 DEF ActivateOutcome

-----------------------------------------------------------------------------
(* A document that enters the queue is nobody's and not banned.              *)
LEMMA SubmissionFree ==
    ASSUME MaxRotations <= 1, TypeOK, ClaimInv,
           NEW c \in Contributors, NEW d \in Documents, SubmitReview(c, d)
    PROVE  /\ \A r \in requests : DocumentOf(r.token) # d
           /\ \A u \in Tokens : DocumentOf(u) = d =>
                 /\ documentTokens[u].owner = Nobody
                 /\ documentTokens[u].status # "banned"
<1>1. ASSUME NEW r \in requests, DocumentOf(r.token) = d PROVE FALSE
  <2>1. r.token \in Tokens /\ GenerationOf(r.token) <= generation
    BY DEF TypeOK, Request, ClaimInv, NoTokenOfFuturePepper
  <2>2. r \in RequestsOn(d)
    BY <1>1, <2>1, KnownTokensSuffice DEF RequestsOn
  <2> QED BY <2>2 DEF SubmitReview
<1>2. ASSUME NEW u \in Tokens, DocumentOf(u) = d, HasRow(u)
      PROVE  documentTokens[u].owner = Nobody /\ documentTokens[u].status # "banned"
  <2>1. u \in KnownRows(d)
    BY <1>2, KnownTokensSuffice DEF ClaimInv, NoTokenOfFuturePepper, KnownRows
  <2> QED BY <2>1, PendingOutcome DEF SubmitReview
<1> QED BY <1>1, <1>2 DEF ClaimInv, OnlyRowsHaveOwners, HasRow

(* An activation finds no request of anybody else on the document.           *)
LEMMA ActivationApplicant ==
    ASSUME MaxRotations <= 1, TypeOK, ClaimInv,
           NEW c \in Contributors, NEW d \in Documents,
           ActivateOutcome(c, d) = "verified",
           NEW r \in requests, DocumentOf(r.token) = d
    PROVE  r.owner = c
<1>1. r.token \in Tokens /\ GenerationOf(r.token) <= generation /\ r.id \in Int
  BY BoundsAreNatural DEF TypeOK, Request, ClaimInv, NoTokenOfFuturePepper
<1>2. r \in RequestsOn(d)
  BY <1>1, KnownTokensSuffice DEF RequestsOn
<1>3. \A s \in RequestsOn(d) : DocumentOf(s.token) = d
  BY KnownTokensType DEF RequestsOn
<1>4. RequestsOn(d) = {r}
  BY <1>2, <1>3 DEF ClaimInv, OneRequestPerDocument, RequestsOn
<1>5. Newest(RequestsOn(d)) = r
  BY <1>1, <1>4 DEF Newest
<1> QED BY <1>2, <1>5, VerifiedOutcome DEF NewestBelongsTo

(* Each transaction that touches tokens or requests keeps ClaimInv.          *)
LEMMA SubmitKeepsClaims ==
    ASSUME MaxRotations <= 1, TypeOK, TypeOK', ClaimInv,
           NEW c \in Contributors, NEW d \in Documents, SubmitReview(c, d)
    PROVE  ClaimInv'
<1>1. PICK i \in FreshRequestIds, t \in EffectiveTokens(d) :
        requests' = requests \cup
          {[id |-> i, owner |-> c, token |-> t, status |-> "pending"]}
  BY DEF SubmitReview
<1> DEFINE new == [id |-> i, owner |-> c, token |-> t, status |-> "pending"]
<1>2. t \in KnownTokens(d)
  BY DEF EffectiveTokens, KnownRows, KnownTokens
<1>3. t \in Tokens /\ DocumentOf(t) = d /\ GenerationOf(t) <= generation
  BY <1>2, KnownTokensType
<1>4. \A r \in requests : DocumentOf(r.token) # d
  BY SubmissionFree
<1>5. \A u \in Tokens : DocumentOf(u) = d => documentTokens[u].owner = Nobody
  BY SubmissionFree
<1>6. UNCHANGED <<generation, documentTokens>>
  BY DEF SubmitReview
<1>7. NoTokenOfFuturePepper'
  BY <1>1, <1>3, <1>6 DEF ClaimInv, NoTokenOfFuturePepper, HasRow
<1>8. OneRequestPerDocument'
  BY <1>1, <1>3, <1>4 DEF ClaimInv, OneRequestPerDocument
<1>9. ClaimantIsApplicant'
  BY <1>1, <1>3, <1>5, <1>6 DEF ClaimInv, ClaimantIsApplicant
<1> QED BY <1>6, <1>7, <1>8, <1>9
        DEF ClaimInv, OneRowPerDocument, OnlyRowsHaveOwners, HasRow

LEMMA ActivationKeepsClaims ==
    ASSUME MaxRotations <= 1, TypeOK, TypeOK', ClaimInv,
           NEW c \in Contributors, NEW d \in Documents, NEW a \in Assurances,
           ActivateOutcome(c, d) = "verified", Activated(c, d, a)
    PROVE  ClaimInv'
<1> DEFINE cur == CurrentToken(d)
<1>1. cur \in KnownTokens(d)
  BY DEF KnownTokens
<1>2. cur \in Tokens /\ DocumentOf(cur) = d /\ GenerationOf(cur) <= generation
  BY <1>1, KnownTokensType
<1>3. generation' = generation
  BY DEF Activated
<1>4. \A t \in Tokens : documentTokens'[t] =
        IF t = cur THEN [status |-> "active", owner |-> c]
        ELSE IF t \in LegacyTokens(d) THEN NoRow ELSE documentTokens[t]
  BY DEF Activated
(* The document keeps one row, under the current token. *)
<1>5. \A t \in Tokens : DocumentOf(t) = d /\ HasRow(t)' => t = cur
  <2> SUFFICES ASSUME NEW t \in Tokens, DocumentOf(t) = d, HasRow(t)', t # cur
               PROVE  FALSE
    OBVIOUS
  <2>1. t \notin LegacyTokens(d)
    BY <1>4 DEF HasRow, NoRow
  <2>2. HasRow(t)
    BY <1>4, <2>1 DEF HasRow
  <2>3. t \in KnownTokens(d)
    BY <2>2, KnownTokensSuffice DEF ClaimInv, NoTokenOfFuturePepper
  <2> QED BY <2>1, <2>3 DEF KnownTokens
<1>6. \A t \in Tokens : DocumentOf(t) # d => documentTokens'[t] = documentTokens[t]
  BY <1>1, <1>4, KnownTokensType DEF KnownTokens
<1>7. OnlyRowsHaveOwners'
  BY <1>4, <1>2 DEF ClaimInv, OnlyRowsHaveOwners, HasRow, NoRow
(* Requests stay on their documents, and d's belongs to c. *)
<1>8. \A r \in requests : /\ Moved(c, d)[r].owner = r.owner
                          /\ DocumentOf(Moved(c, d)[r].token) = DocumentOf(r.token)
                          /\ GenerationOf(Moved(c, d)[r].token) <= generation
  <2> SUFFICES ASSUME NEW r \in requests
               PROVE  /\ Moved(c, d)[r].owner = r.owner
                      /\ DocumentOf(Moved(c, d)[r].token) = DocumentOf(r.token)
                      /\ GenerationOf(Moved(c, d)[r].token) <= generation
    OBVIOUS
  <2>1. r \in Request /\ GenerationOf(r.token) <= generation
    BY DEF TypeOK, ClaimInv, NoTokenOfFuturePepper
  <2>2. CASE r.owner = c /\ r.token \in KnownTokens(d)
    <3>1. Moved(c, d)[r] = [r EXCEPT !.token = cur, !.status = "approved"]
      BY <2>2 DEF Moved
    <3>2. Moved(c, d)[r].owner = r.owner /\ Moved(c, d)[r].token = cur
      BY <2>1, <3>1 DEF Request
    <3> QED BY <1>2, <2>2, <3>2, KnownTokensType
  <2>3. CASE ~(r.owner = c /\ r.token \in KnownTokens(d))
    BY <2>1, <2>3 DEF Moved
  <2> QED BY <2>2, <2>3
<1>9. \A r \in requests' : \E q \in requests : r = Moved(c, d)[q]
  BY DEF Activated, RequestsAfterActivation
<1>10. \A r \in requests : DocumentOf(r.token) = d => r.owner = c
  BY ActivationApplicant
<1>11. NoTokenOfFuturePepper'
  BY <1>2, <1>3, <1>4, <1>8, <1>9 DEF ClaimInv, NoTokenOfFuturePepper, HasRow, NoRow
<1>12. OneRowPerDocument'
  BY <1>5, <1>6 DEF ClaimInv, OneRowPerDocument, HasRow
<1>13. OneRequestPerDocument'
  BY <1>8, <1>9 DEF ClaimInv, OneRequestPerDocument
<1>14. ClaimantIsApplicant'
  <2> SUFFICES ASSUME NEW r \in requests', NEW t \in Tokens,
                      DocumentOf(r.token) = DocumentOf(t),
                      documentTokens'[t].owner # Nobody
               PROVE  documentTokens'[t].owner = r.owner
    BY DEF ClaimantIsApplicant
  <2>1. PICK q \in requests : r = Moved(c, d)[q]
    BY <1>9
  <2>2. r.owner = q.owner /\ DocumentOf(r.token) = DocumentOf(q.token)
    BY <1>8, <2>1
  <2>3. CASE DocumentOf(t) = d
    <3>1. HasRow(t)'
      BY <1>7 DEF OnlyRowsHaveOwners
    <3>2. t = cur
      BY <1>5, <2>3, <3>1
    <3>3. documentTokens'[t].owner = c
      BY <1>4, <3>2
    <3>4. q.owner = c
      BY <1>10, <2>2, <2>3
    <3> QED BY <2>2, <3>3, <3>4
  <2>4. CASE DocumentOf(t) # d
    BY <1>6, <2>2, <2>4 DEF ClaimInv, ClaimantIsApplicant
  <2> QED BY <2>3, <2>4
<1> QED BY <1>7, <1>11, <1>12, <1>13, <1>14 DEF ClaimInv

LEMMA DeletionKeepsClaims ==
    ASSUME TypeOK, ClaimInv, NEW c \in Contributors, DeleteAccount(c)
    PROVE  ClaimInv'
<1>1. \A t \in Tokens : /\ documentTokens'[t].status = documentTokens[t].status
                       /\ documentTokens'[t].owner \in {Nobody, documentTokens[t].owner}
                       /\ documentTokens'[t].owner # c
  BY NobodyIsNoAccount DEF DeleteAccount, TypeOK, TokenRow
<1>2. requests' = {r \in requests : r.owner # c} /\ generation' = generation
  BY DEF DeleteAccount
<1> QED
  BY <1>1, <1>2
  DEF ClaimInv, NoTokenOfFuturePepper, OneRowPerDocument, OneRequestPerDocument,
      ClaimantIsApplicant, OnlyRowsHaveOwners, HasRow

(* A document's rows and active requests, over both pepper generations,      *)
(* belong to one account: submit_verification_review, activate_self_hosted_  *)
(* verified_id, account deletion, bans and reviews in any order.             *)
THEOREM ClaimsConsistent ==
    ASSUME MaxRotations <= 1
    PROVE  Spec => []ClaimInv
<1>1. Init => ClaimInv
  BY DEF Init, ClaimInv, NoTokenOfFuturePepper, OneRowPerDocument,
         OneRequestPerDocument, ClaimantIsApplicant, OnlyRowsHaveOwners, HasRow, NoRow
<1>2. ASSUME TypeOK, TypeOK', ClaimInv, [Next]_vars PROVE ClaimInv'
  <2>1. ASSUME UNCHANGED <<generation, documentTokens, requests>> PROVE ClaimInv'
    BY <1>2, <2>1
    DEF ClaimInv, NoTokenOfFuturePepper, OneRowPerDocument, OneRequestPerDocument,
        ClaimantIsApplicant, OnlyRowsHaveOwners, HasRow
  <2>2. ASSUME NEW c \in Contributors, AccountStep(c) PROVE ClaimInv'
    BY <1>2, <2>1, <2>2, DeletionKeepsClaims
    DEF AccountStep, Register, BanContributor, WithdrawVerification
  <2>3. ASSUME NEW c \in Contributors, NEW d \in Documents, DocumentStep(c, d)
        PROVE ClaimInv'
    <3>1. CASE SubmitReview(c, d)
      BY <1>2, <3>1, SubmitKeepsClaims
    <3>2. ASSUME NEW a \in Assurances, ActivateOutcome(c, d) = "verified",
                 Activated(c, d, a)
          PROVE  ClaimInv'
      BY <1>2, <3>2, ActivationKeepsClaims
    <3>3. CASE ActivateAA(c, d)
      BY <3>2, <3>3 DEF ActivateAA, Assurances
    <3>4. ASSUME NEW k \in AttestKeys, NEW ch \in Challenges, ActivateCA(c, k, ch, d)
          PROVE  ClaimInv'
      BY <3>2, <3>4 DEF ActivateCA, Assurances
    <3>5. ASSUME NEW k \in AttestKeys, NEW ch \in Challenges,
                 RecordCAReceipt(c, k, ch, d)
          PROVE  ClaimInv'
      BY <2>1, <3>5 DEF RecordCAReceipt
    <3> QED BY <2>3, <3>1, <3>3, <3>4, <3>5 DEF DocumentStep
  <2>4. ASSUME NEW q \in caReceipts, ExpireCAReceipt(q) PROVE ClaimInv'
    BY <2>1, <2>4 DEF ExpireCAReceipt
  <2>5. ASSUME NEW t \in Tokens, BanDocument(t) PROVE ClaimInv'
    <3>1. \A u \in Tokens : /\ documentTokens'[u].owner = documentTokens[u].owner
                           /\ HasRow(u)' <=> HasRow(u)
      BY <1>2, <2>5 DEF BanDocument, TypeOK, TokenRow, HasRow
    <3> QED
      BY <1>2, <2>5, <3>1
      DEF BanDocument, ClaimInv, NoTokenOfFuturePepper, OneRowPerDocument,
          OneRequestPerDocument, ClaimantIsApplicant, OnlyRowsHaveOwners
  <2>6. ASSUME NEW r \in requests, ApproveRequest(r) PROVE ClaimInv'
    <3> DEFINE approved == [r EXCEPT !.status = "approved"]
    <3>1. approved.token = r.token /\ approved.owner = r.owner
      BY <1>2 DEF TypeOK, Request
    <3>2. /\ requests' = (requests \ {r}) \cup {approved}
          /\ UNCHANGED <<generation, documentTokens>>
      BY <2>6 DEF ApproveRequest
    <3> HIDE DEF approved
    <3>3. NoTokenOfFuturePepper'
      BY <1>2, <3>1, <3>2 DEF ClaimInv, NoTokenOfFuturePepper, HasRow
    <3>4. OneRequestPerDocument'
      BY <1>2, <3>1, <3>2 DEF ClaimInv, OneRequestPerDocument
    <3>5. ClaimantIsApplicant'
      BY <1>2, <3>1, <3>2 DEF ClaimInv, ClaimantIsApplicant
    <3> QED
      BY <1>2, <3>2, <3>3, <3>4, <3>5
      DEF ClaimInv, OneRowPerDocument, OnlyRowsHaveOwners, HasRow
  <2>7. ASSUME NEW r \in requests, CloseRequest(r) PROVE ClaimInv'
    BY <1>2, <2>7
    DEF CloseRequest, ClaimInv, NoTokenOfFuturePepper, OneRowPerDocument,
        OneRequestPerDocument, ClaimantIsApplicant, OnlyRowsHaveOwners, HasRow
  <2>8. CASE RotatePepper
    <3>1. /\ generation' \in Int /\ generation \in Int /\ generation <= generation'
          /\ UNCHANGED <<documentTokens, requests>>
      BY <1>2, <2>8, BoundsAreNatural DEF RotatePepper, TypeOK, Generations
    <3>2. /\ \A t \in Tokens : GenerationOf(t) \in Int
          /\ \A r \in requests : GenerationOf(r.token) \in Int
      BY <1>2, BoundsAreNatural DEF TypeOK, Request, Tokens, Generations, GenerationOf
    <3>3. NoTokenOfFuturePepper'
      BY <1>2, <3>1, <3>2 DEF ClaimInv, NoTokenOfFuturePepper, HasRow
    <3> QED
      BY <1>2, <3>1, <3>3
      DEF ClaimInv, OneRowPerDocument, OneRequestPerDocument,
          ClaimantIsApplicant, OnlyRowsHaveOwners, HasRow
  <2>9. CASE UNCHANGED vars
    BY <2>1, <2>9 DEF vars
  <2> QED
    BY <1>2, <2>2, <2>3, <2>4, <2>5, <2>6, <2>7, <2>8, <2>9 DEF Next
<1> QED BY <1>1, <1>2, TypeCorrect, PTL DEF Spec

(* "One passport, one account", for any number of accounts and documents.    *)
THEOREM OneAccount ==
    ASSUME MaxRotations <= 1
    PROVE  Spec => []OneAccountPerDocument
<1>1. ASSUME TypeOK, ClaimInv, NEW d \in Documents,
             NEW a \in InterestedIn(d), NEW b \in InterestedIn(d)
      PROVE  a = b
  <2>1. \A t \in TokensOf(d) : t \in Tokens /\ DocumentOf(t) = d
    BY DEF TokensOf, Tokens, DocumentOf
  <2>2. ASSUME NEW x \in Claimants(d), NEW y \in Claimants(d) PROVE x = y
    BY <1>1, <2>1, <2>2 DEF Claimants, ClaimInv, OneRowPerDocument, OnlyRowsHaveOwners
  <2>3. ASSUME NEW x \in Applicants(d), NEW y \in Applicants(d) PROVE x = y
    BY <1>1, <2>3 DEF Applicants, ClaimInv, OneRequestPerDocument
  <2>4. ASSUME NEW x \in Claimants(d), NEW y \in Applicants(d) PROVE x = y
    BY <1>1, <2>1, <2>4 DEF Claimants, Applicants, ClaimInv, ClaimantIsApplicant
  <2> QED BY <2>2, <2>3, <2>4 DEF InterestedIn
<1>2. TypeOK /\ ClaimInv => OneAccountPerDocument
  BY <1>1 DEF OneAccountPerDocument
<1> QED BY <1>2, TypeCorrect, ClaimsConsistent, PTL

-----------------------------------------------------------------------------
(* What rests on an account's own rows, for any number of rotations.         *)

(* An activation puts the document's current token into the account's hands  *)
(* and takes no row from anybody.                                            *)
LEMMA ActivationTokens ==
    ASSUME TypeOK, NEW c \in Contributors, NEW d \in Documents, NEW a \in Assurances,
           ActivateOutcome(c, d) = "verified", Activated(c, d, a)
    PROVE  /\ CurrentToken(d) \in Tokens /\ DocumentOf(CurrentToken(d)) = d
           /\ documentTokens'[CurrentToken(d)] = [status |-> "active", owner |-> c]
           /\ \A t \in Tokens : \/ t \in KnownTokens(d)
                               \/ documentTokens'[t] = documentTokens[t]
           /\ \A t \in KnownTokens(d) :
                 HasRow(t) => documentTokens[t].owner \in {Nobody, c}
<1>1. CurrentToken(d) \in KnownTokens(d)
  BY DEF KnownTokens
<1>2. CurrentToken(d) \in Tokens /\ DocumentOf(CurrentToken(d)) = d
  BY <1>1, KnownTokensType
<1>3. \A t \in Tokens : documentTokens'[t] =
        IF t = CurrentToken(d) THEN [status |-> "active", owner |-> c]
        ELSE IF t \in LegacyTokens(d) THEN NoRow ELSE documentTokens[t]
  BY DEF Activated
<1>4. documentTokens'[CurrentToken(d)] = [status |-> "active", owner |-> c]
  BY <1>2, <1>3
<1>5. \A t \in Tokens : t \in KnownTokens(d) \/ documentTokens'[t] = documentTokens[t]
  BY <1>3 DEF KnownTokens
<1>6. \A t \in KnownTokens(d) : HasRow(t) => documentTokens[t].owner \in {Nobody, c}
  BY VerifiedOutcome DEF KnownRows
<1> QED BY <1>2, <1>4, <1>5, <1>6

(* Only a row that is there has an owner: deleting an account frees its rows *)
(* and a rotation removes the legacy row with its owner.                     *)
LEMMA RowsOfOwners == Spec => []OnlyRowsHaveOwners
<1>1. Init => OnlyRowsHaveOwners
  BY DEF Init, OnlyRowsHaveOwners, NoRow
<1>2. ASSUME TypeOK, OnlyRowsHaveOwners, [Next]_vars PROVE OnlyRowsHaveOwners'
  <2> USE <1>2
  <2>1. ASSUME UNCHANGED documentTokens PROVE OnlyRowsHaveOwners'
    BY <2>1 DEF OnlyRowsHaveOwners, HasRow
  <2>2. ASSUME NEW c \in Contributors, DeleteAccount(c) PROVE OnlyRowsHaveOwners'
    <3>1. \A t \in Tokens :
            /\ documentTokens'[t].status = documentTokens[t].status
            /\ documentTokens'[t].owner \in {Nobody, documentTokens[t].owner}
      BY <2>2 DEF DeleteAccount, TypeOK, TokenRow
    <3> QED BY <3>1 DEF OnlyRowsHaveOwners, HasRow
  <2>3. ASSUME NEW c \in Contributors, NEW d \in Documents, NEW a \in Assurances,
               Activated(c, d, a)
        PROVE  OnlyRowsHaveOwners'
    <3>1. \A t \in Tokens :
            documentTokens'[t] \in {[status |-> "active", owner |-> c], NoRow,
                                    documentTokens[t]}
      BY <2>3 DEF Activated
    <3> QED BY <3>1 DEF OnlyRowsHaveOwners, HasRow, NoRow
  <2>4. ASSUME NEW t \in Tokens, BanDocument(t) PROVE OnlyRowsHaveOwners'
    <3>1. \A u \in Tokens :
            /\ documentTokens'[u].owner = documentTokens[u].owner
            /\ documentTokens'[u].status \in {documentTokens[u].status, "banned"}
      BY <2>4 DEF BanDocument, TypeOK, TokenRow
    <3> QED BY <3>1 DEF OnlyRowsHaveOwners, HasRow
  <2>5. ASSUME NEW c \in Contributors, AccountStep(c) PROVE OnlyRowsHaveOwners'
    BY <2>1, <2>2, <2>5
    DEF AccountStep, Register, BanContributor, WithdrawVerification
  <2>6. ASSUME NEW c \in Contributors, NEW d \in Documents, DocumentStep(c, d)
        PROVE  OnlyRowsHaveOwners'
    BY <2>1, <2>3, <2>6
    DEF DocumentStep, SubmitReview, ActivateAA, ActivateCA, RecordCAReceipt, Assurances
  <2>7. CASE \E q \in caReceipts : ExpireCAReceipt(q)
    BY <2>1, <2>7 DEF ExpireCAReceipt
  <2>8. CASE \E r \in requests : ApproveRequest(r) \/ CloseRequest(r)
    BY <2>1, <2>8 DEF ApproveRequest, CloseRequest
  <2>9. CASE RotatePepper \/ UNCHANGED vars
    BY <2>1, <2>9 DEF RotatePepper, vars
  <2> QED BY <2>4, <2>5, <2>6, <2>7, <2>8, <2>9 DEF Next
<1> QED BY <1>1, <1>2, TypeCorrect, PTL DEF Spec

(* What backs a Verified ID keeps backing it while the account owns the row, *)
(* its assurance stays, and its receipts are not taken away.                 *)
LEMMA StaysBacked ==
    ASSUME NEW c, NEW t, BackedBy(c, t), OwnsRow(c, t)',
           contributors'[c].assurance = contributors[c].assurance,
           \A q \in receipts : q.contributor = c => q \in receipts',
           \A q \in caReceipts :
              q.contributor = c /\ q.status = "consumed" => q \in caReceipts'
    PROVE  BackedBy(c, t)'
BY DEF BackedBy

(* An activation backs what it grants, and nobody else's Verified ID loses   *)
(* its backing.                                                              *)
LEMMA ActivationBacks ==
    ASSUME TypeOK, TypeOK', VerifiedIsBacked,
           NEW c \in Contributors, NEW d \in Documents, NEW a \in Assurances,
           ActivateOutcome(c, d) = "verified", Activated(c, d, a),
           \A q \in caReceipts : q.status = "consumed" => q \in caReceipts',
           a = "chip_authentication_server" =>
              \E q \in caReceipts' : /\ q.contributor = c /\ q.document = d
                                    /\ q.status = "consumed"
    PROVE  VerifiedIsBacked'
<1> SUFFICES ASSUME NEW x \in Contributors, Verified(x)'
             PROVE  \E t \in Tokens : BackedBy(x, t)'
  BY DEF VerifiedIsBacked
<1>1. CASE x = c
  <2>1. OwnsRow(c, CurrentToken(d))'
    <3>1. documentTokens'[<<d, generation>>] = [status |-> "active", owner |-> c]
      BY ActivationTokens DEF CurrentToken
    <3>2. generation' = generation
      BY DEF Activated
    <3> QED BY <3>1, <3>2 DEF OwnsRow, HasRow, CurrentToken
  <2>2. contributors'[c].assurance = a
    BY DEF Activated, TypeOK, Account
  <2>3. [contributor |-> c, token |-> CurrentToken(d), assurance |-> a] \in receipts'
    BY DEF Activated
  <2>4. CurrentToken(d)' = CurrentToken(d)
    BY DEF Activated, CurrentToken
  <2>5. CurrentToken(d) \in Tokens /\ DocumentOf(CurrentToken(d)) = d
    BY ActivationTokens
  <2>6. BackedBy(c, CurrentToken(d))'
    BY <2>1, <2>2, <2>3, <2>4, <2>5 DEF BackedBy
  <2> QED BY <1>1, <2>4, <2>5, <2>6
<1>2. CASE x # c
  <2>1. contributors'[x] = contributors[x]
    BY <1>2 DEF Activated, TypeOK
  <2>2. PICK t \in Tokens : BackedBy(x, t)
    BY <2>1 DEF VerifiedIsBacked, Verified
  <2>3. OwnsRow(x, t)
    BY <2>2 DEF BackedBy
  <2>4. t \notin KnownTokens(d)
    BY <1>2, <2>3, ActivationTokens, NobodyIsNoAccount DEF OwnsRow
  <2>5. documentTokens'[t] = documentTokens[t]
    BY <2>4, ActivationTokens
  <2>6. OwnsRow(x, t)'
    BY <2>3, <2>5 DEF OwnsRow, HasRow
  <2>7. receipts \subseteq receipts'
    BY DEF Activated
  <2> QED BY <2>1, <2>2, <2>6, <2>7, StaysBacked
<1> QED BY <1>1, <1>2

(* Every Verified ID rests on a claim of the account's, a receipt for that   *)
(* document, and the consumed transcript where the assurance calls for one,  *)
(* for any number of pepper rotations.                                       *)
THEOREM VerifiedIDsAreBacked == Spec => []VerifiedIsBacked
<1>1. Init => VerifiedIsBacked
  BY DEF Init, VerifiedIsBacked, Verified, NoAccount
<1>2. ASSUME TypeOK, TypeOK', VerifiedIsBacked, [Next]_vars PROVE VerifiedIsBacked'
  <2> USE <1>2
  (* Steps that leave assurances, owners and receipts in place. *)
  <2>1. ASSUME \A c \in Contributors :
                  Verified(c)' => contributors'[c].assurance = contributors[c].assurance,
               \A c \in Contributors, t \in Tokens :
                  Verified(c)' /\ OwnsRow(c, t) => OwnsRow(c, t)',
               \A q \in receipts : Verified(q.contributor)' => q \in receipts',
               \A q \in caReceipts :
                  q.status = "consumed" /\ Verified(q.contributor)' => q \in caReceipts'
        PROVE  VerifiedIsBacked'
    <3> SUFFICES ASSUME NEW c \in Contributors, Verified(c)'
                 PROVE  \E t \in Tokens : BackedBy(c, t)'
      BY DEF VerifiedIsBacked
    <3>1. Verified(c)
      BY <2>1 DEF Verified
    <3>2. PICK t \in Tokens : BackedBy(c, t)
      BY <3>1 DEF VerifiedIsBacked
    <3> QED BY <2>1, <3>2, StaysBacked DEF BackedBy
  <2>2. ASSUME UNCHANGED <<contributors, documentTokens, receipts, caReceipts>>
        PROVE  VerifiedIsBacked'
    BY <2>1, <2>2 DEF OwnsRow, HasRow, Verified
  <2>3. ASSUME NEW c \in Contributors, AccountStep(c) PROVE VerifiedIsBacked'
    <3>1. CASE Register(c) \/ BanContributor(c) \/ WithdrawVerification(c)
      <4>1. \A x \in Contributors :
              contributors'[x].assurance \in {contributors[x].assurance, "none"}
        BY <3>1 DEF Register, BanContributor, WithdrawVerification, TypeOK, Account
      <4>2. UNCHANGED <<documentTokens, receipts, caReceipts>>
        BY <3>1 DEF Register, BanContributor, WithdrawVerification
      <4> QED BY <2>1, <4>1, <4>2 DEF OwnsRow, HasRow, Verified
    <3>2. CASE DeleteAccount(c)
      <4>1. contributors' = [contributors EXCEPT ![c] = NoAccount]
        BY <3>2 DEF DeleteAccount
      <4>2. \A x \in Contributors : contributors'[x] = contributors[x] \/ x = c
        BY <4>1 DEF TypeOK
      <4>3. ~Verified(c)'
        BY <4>1 DEF TypeOK, Verified, NoAccount
      <4>4. \A t \in Tokens :
              documentTokens[t].owner # c => documentTokens'[t] = documentTokens[t]
        BY <3>2 DEF DeleteAccount
      <4>5. /\ \A q \in receipts : q.contributor # c => q \in receipts'
            /\ \A q \in caReceipts : q.contributor # c => q \in caReceipts'
        BY <3>2 DEF DeleteAccount
      <4> QED BY <2>1, <4>2, <4>3, <4>4, <4>5 DEF OwnsRow, HasRow, Verified
    <3> QED BY <2>3, <3>1, <3>2 DEF AccountStep
  <2>4. ASSUME NEW c \in Contributors, NEW d \in Documents, DocumentStep(c, d)
        PROVE  VerifiedIsBacked'
    <3>1. CASE SubmitReview(c, d)
      BY <2>2, <3>1 DEF SubmitReview
    <3>2. CASE ActivateAA(c, d)
      BY <3>2, ActivationBacks DEF ActivateAA, Assurances
    <3>3. ASSUME NEW k \in AttestKeys, NEW ch \in Challenges, ActivateCA(c, k, ch, d)
          PROVE  VerifiedIsBacked'
      <4>1. PICK q \in MatchingCAReceipts(c, k, ch, d) :
              caReceipts' = (caReceipts \ {q}) \cup {[q EXCEPT !.status = "consumed"]}
        BY <3>3 DEF ActivateCA
      <4>2. q \in CAReceipt /\ q.contributor = c /\ q.document = d /\ q.status = "open"
        BY DEF MatchingCAReceipts, TypeOK
      <4> DEFINE used == [q EXCEPT !.status = "consumed"]
      <4>3. used.contributor = c /\ used.document = d /\ used.status = "consumed"
        BY <4>2 DEF CAReceipt
      <4> HIDE DEF used
      <4>4. caReceipts' = (caReceipts \ {q}) \cup {used}
        BY <4>1 DEF used
      <4>5. /\ ActivateOutcome(c, d) = "verified"
            /\ Activated(c, d, "chip_authentication_server")
        BY <3>3 DEF ActivateCA
      <4>6. \A s \in caReceipts : s.status = "consumed" => s \in caReceipts'
        BY <4>2, <4>4
      <4> QED BY <4>3, <4>4, <4>5, <4>6, ActivationBacks DEF Assurances
    <3>4. ASSUME NEW k \in AttestKeys, NEW ch \in Challenges,
                 RecordCAReceipt(c, k, ch, d)
          PROVE  VerifiedIsBacked'
      <4>1. /\ UNCHANGED <<contributors, documentTokens, receipts>>
            /\ caReceipts \subseteq caReceipts'
        BY <3>4 DEF RecordCAReceipt
      <4> QED BY <2>1, <4>1 DEF OwnsRow, HasRow, Verified
    <3> QED BY <2>4, <3>1, <3>2, <3>3, <3>4 DEF DocumentStep
  <2>5. ASSUME NEW q \in caReceipts, ExpireCAReceipt(q) PROVE VerifiedIsBacked'
    <3>1. /\ UNCHANGED <<contributors, documentTokens, receipts>>
          /\ \A s \in caReceipts : s.status = "consumed" => s \in caReceipts'
      BY <2>5 DEF ExpireCAReceipt
    <3> QED BY <2>1, <3>1 DEF OwnsRow, HasRow, Verified
  <2>6. ASSUME NEW t \in Tokens, BanDocument(t) PROVE VerifiedIsBacked'
    <3>1. \A u \in Tokens :
            /\ documentTokens'[u].owner = documentTokens[u].owner
            /\ documentTokens'[u].status \in {documentTokens[u].status, "banned"}
      BY <2>6 DEF BanDocument, TypeOK, TokenRow
    <3>2. UNCHANGED <<contributors, receipts, caReceipts>>
      BY <2>6 DEF BanDocument
    <3> QED BY <2>1, <3>1, <3>2 DEF OwnsRow, HasRow, Verified
  <2>7. CASE \E r \in requests : ApproveRequest(r) \/ CloseRequest(r)
    BY <2>2, <2>7 DEF ApproveRequest, CloseRequest
  <2>8. CASE RotatePepper \/ UNCHANGED vars
    BY <2>2, <2>8 DEF RotatePepper, vars
  <2> QED BY <2>3, <2>4, <2>5, <2>6, <2>7, <2>8 DEF Next
<1> QED BY <1>1, <1>2, TypeCorrect, PTL DEF Spec

-----------------------------------------------------------------------------
(* Chip authentication transcripts and the activations they pay for, for any *)
(* number of rotations.                                                      *)

(* UNIQUE (contributor_id, challenge) on document_ca_receipts.               *)
CAReceiptPerChallenge ==
    \A q, s \in caReceipts :
        q.contributor = s.contributor /\ q.challenge = s.challenge => q = s

(* OneActivationPerCAReceipt counts rows, of tables that are finite; a row   *)
(* that is marked as consumed must not fall together with another one.       *)
ReceiptInv ==
    /\ IsFiniteSet(receipts) /\ IsFiniteSet(caReceipts)
    /\ CAReceiptPerChallenge
    /\ OneActivationPerCAReceipt

LEMMA ReceiptsCounted ==
    ASSUME ReceiptInv, NEW c \in Contributors
    PROVE  /\ IsFiniteSet(CAActivations(c)) /\ Cardinality(CAActivations(c)) \in Nat
           /\ IsFiniteSet(ConsumedCAReceipts(c))
           /\ Cardinality(CAActivations(c)) = Cardinality(ConsumedCAReceipts(c))
<1>1. CAActivations(c) \subseteq receipts /\ ConsumedCAReceipts(c) \subseteq caReceipts
  BY DEF CAActivations, ConsumedCAReceipts
<1> QED
  BY <1>1, FS_Subset, FS_CardinalityType DEF ReceiptInv, OneActivationPerCAReceipt

(* A row of document_ca_receipts whose status changes stays one row.         *)
LEMMA RowUpdate ==
    ASSUME ReceiptInv, caReceipts \subseteq CAReceipt, NEW q \in caReceipts,
           NEW s \in {"consumed", "expired"}, q.status = "open",
           caReceipts' = (caReceipts \ {q}) \cup {[q EXCEPT !.status = s]}
    PROVE  /\ IsFiniteSet(caReceipts')
           /\ CAReceiptPerChallenge'
           /\ [q EXCEPT !.status = s] \notin caReceipts
<1> DEFINE row == [q EXCEPT !.status = s]
<1>1. row.contributor = q.contributor /\ row.challenge = q.challenge /\ row.status = s
  BY DEF CAReceipt
<1>2. caReceipts' = (caReceipts \ {q}) \cup {row}
  OBVIOUS
<1> HIDE DEF row
<1>3. row \notin caReceipts
  BY <1>1 DEF ReceiptInv, CAReceiptPerChallenge
<1>4. IsFiniteSet(caReceipts')
  <2>1. IsFiniteSet(caReceipts \ {q})
    BY FS_RemoveElement DEF ReceiptInv
  <2>2. IsFiniteSet((caReceipts \ {q}) \cup {row})
    BY <2>1, FS_AddElement
  <2> QED BY <1>2, <2>2
<1>5. CAReceiptPerChallenge'
  BY <1>1, <1>2 DEF ReceiptInv, CAReceiptPerChallenge
<1> QED BY <1>3, <1>4, <1>5 DEF row

(* An activation records one new receipt: the document has none yet.         *)
LEMMA ActivationReceipt ==
    ASSUME ReceiptInv, NEW c \in Contributors, NEW d, NEW a \in Assurances,
           ActivateOutcome(c, d) = "verified", Activated(c, d, a)
    PROVE  /\ IsFiniteSet(receipts')
           /\ \A x \in Contributors :
                 CAActivations(x)' =
                    IF x = c /\ a = "chip_authentication_server"
                    THEN CAActivations(x) \cup
                           {[contributor |-> c, token |-> CurrentToken(d),
                             assurance |-> a]}
                    ELSE CAActivations(x)
           /\ [contributor |-> c, token |-> CurrentToken(d), assurance |-> a]
                 \notin receipts
<1> DEFINE new == [contributor |-> c, token |-> CurrentToken(d), assurance |-> a]
<1>1. receipts' = receipts \cup {new}
  BY DEF Activated
<1>2. new.contributor = c /\ new.assurance = a /\ new.token = CurrentToken(d)
  OBVIOUS
<1>3. ~BreaksUniqueIndex(c, d)
  <2>1. \A t : ActivationVerdict(c, t) # "verified"
    BY DEF ActivationVerdict
  <2> QED BY <2>1 DEF ActivateOutcome
<1>4. new \notin receipts
  BY <1>2, <1>3 DEF BreaksUniqueIndex
<1> HIDE DEF new
<1>5. IsFiniteSet(receipts')
  BY <1>1, FS_AddElement DEF ReceiptInv
<1>6. \A x \in Contributors :
        CAActivations(x)' = IF x = c /\ a = "chip_authentication_server"
                            THEN CAActivations(x) \cup {new} ELSE CAActivations(x)
  BY <1>1, <1>2 DEF CAActivations
<1> QED BY <1>4, <1>5, <1>6 DEF new

(* A chip authentication transcript pays for one activation: the account's   *)
(* receipts of CA assurance are as many as its consumed transcripts.         *)
THEOREM TranscriptsPayOnce == Spec => []OneActivationPerCAReceipt
<1>1. Init => ReceiptInv
  <2> SUFFICES ASSUME Init PROVE ReceiptInv
    OBVIOUS
  <2>1. \A c \in Contributors : CAActivations(c) = {} /\ ConsumedCAReceipts(c) = {}
    BY DEF Init, CAActivations, ConsumedCAReceipts
  <2> QED BY <2>1, FS_EmptySet
          DEF Init, ReceiptInv, CAReceiptPerChallenge, OneActivationPerCAReceipt
<1>2. ASSUME TypeOK, ReceiptInv, [Next]_vars PROVE ReceiptInv'
  <2> USE <1>2
  <2>1. ASSUME UNCHANGED <<receipts, caReceipts>> PROVE ReceiptInv'
    BY <2>1 DEF ReceiptInv, CAReceiptPerChallenge, OneActivationPerCAReceipt,
                CAActivations, ConsumedCAReceipts
  <2>2. ASSUME NEW c \in Contributors, DeleteAccount(c) PROVE ReceiptInv'
    <3>1. /\ receipts' = {q \in receipts : q.contributor # c}
          /\ caReceipts' = {q \in caReceipts : q.contributor # c}
      BY <2>2 DEF DeleteAccount
    <3>2. CAActivations(c)' = {} /\ ConsumedCAReceipts(c)' = {}
      BY <3>1 DEF CAActivations, ConsumedCAReceipts
    <3>3. \A x \in Contributors \ {c} :
            /\ CAActivations(x)' = CAActivations(x)
            /\ ConsumedCAReceipts(x)' = ConsumedCAReceipts(x)
      BY <3>1 DEF CAActivations, ConsumedCAReceipts
    <3>4. OneActivationPerCAReceipt'
      BY <3>2, <3>3, ReceiptsCounted DEF OneActivationPerCAReceipt
    <3>5. IsFiniteSet(receipts') /\ IsFiniteSet(caReceipts')
      BY <3>1, FS_Subset DEF ReceiptInv
    <3> QED BY <3>1, <3>4, <3>5 DEF ReceiptInv, CAReceiptPerChallenge
  <2>3. ASSUME NEW c \in Contributors, NEW d \in Documents, ActivateAA(c, d)
        PROVE  ReceiptInv'
    <3>1. /\ IsFiniteSet(receipts')
          /\ \A x \in Contributors : CAActivations(x)' = CAActivations(x)
      BY <2>3, ActivationReceipt DEF ActivateAA, Assurances
    <3>2. caReceipts' = caReceipts
      BY <2>3 DEF ActivateAA
    <3> QED BY <3>1, <3>2 DEF ReceiptInv, CAReceiptPerChallenge,
                              OneActivationPerCAReceipt, ConsumedCAReceipts
  <2>4. ASSUME NEW c \in Contributors, NEW d \in Documents, NEW k \in AttestKeys,
               NEW ch \in Challenges, ActivateCA(c, k, ch, d)
        PROVE  ReceiptInv'
    <3>1. PICK q \in MatchingCAReceipts(c, k, ch, d) :
            caReceipts' = (caReceipts \ {q}) \cup {[q EXCEPT !.status = "consumed"]}
      BY <2>4 DEF ActivateCA
    <3> DEFINE used == [q EXCEPT !.status = "consumed"]
               new == [contributor |-> c, token |-> CurrentToken(d),
                       assurance |-> "chip_authentication_server"]
    <3>2. q \in caReceipts /\ q \in CAReceipt /\ q.contributor = c /\ q.status = "open"
      BY DEF MatchingCAReceipts, TypeOK
    <3>3. used.contributor = c /\ used.status = "consumed"
      BY <3>2 DEF CAReceipt
    <3>4. /\ IsFiniteSet(caReceipts') /\ CAReceiptPerChallenge'
          /\ used \notin caReceipts
      BY <3>1, <3>2, RowUpdate DEF TypeOK
    <3>5. /\ IsFiniteSet(receipts')
          /\ CAActivations(c)' = CAActivations(c) \cup {new}
          /\ \A x \in Contributors \ {c} : CAActivations(x)' = CAActivations(x)
          /\ new \notin receipts
      BY <2>4, ActivationReceipt DEF ActivateCA, Assurances
    <3>6. caReceipts' = (caReceipts \ {q}) \cup {used}
      BY <3>1
    <3> HIDE DEF used, new
    <3>7. /\ ConsumedCAReceipts(c)' = ConsumedCAReceipts(c) \cup {used}
          /\ used \notin ConsumedCAReceipts(c)
          /\ \A x \in Contributors \ {c} :
                ConsumedCAReceipts(x)' = ConsumedCAReceipts(x)
      BY <3>2, <3>3, <3>4, <3>6 DEF ConsumedCAReceipts
    <3>8. new \notin CAActivations(c)
      BY <3>5 DEF CAActivations
    <3>9. Cardinality(CAActivations(c)') = Cardinality(ConsumedCAReceipts(c)')
      <4>1. Cardinality(CAActivations(c) \cup {new}) = Cardinality(CAActivations(c)) + 1
        BY <3>8, ReceiptsCounted, FS_AddElement
      <4>2. Cardinality(ConsumedCAReceipts(c) \cup {used})
              = Cardinality(ConsumedCAReceipts(c)) + 1
        BY <3>7, ReceiptsCounted, FS_AddElement
      <4> QED BY <3>5, <3>7, <4>1, <4>2, ReceiptsCounted
    <3>10. OneActivationPerCAReceipt'
      BY <3>5, <3>7, <3>9, ReceiptsCounted DEF OneActivationPerCAReceipt
    <3> QED BY <3>4, <3>5, <3>10 DEF ReceiptInv
  <2>5. ASSUME NEW c \in Contributors, NEW d \in Documents, NEW k \in AttestKeys,
               NEW ch \in Challenges, RecordCAReceipt(c, k, ch, d)
        PROVE  ReceiptInv'
    <3> DEFINE open == [contributor |-> c, key |-> k, challenge |-> ch,
                        document |-> d, status |-> "open"]
    <3>1. /\ \A q \in caReceipts : q.contributor # c \/ q.challenge # ch
          /\ caReceipts' = caReceipts \cup {open}
          /\ receipts' = receipts
      BY <2>5 DEF RecordCAReceipt
    <3>2. open.contributor = c /\ open.challenge = ch /\ open.status = "open"
      OBVIOUS
    <3> HIDE DEF open
    <3>3. IsFiniteSet(caReceipts')
      BY <3>1, FS_AddElement DEF ReceiptInv
    <3>4. CAReceiptPerChallenge'
      BY <3>1, <3>2 DEF ReceiptInv, CAReceiptPerChallenge
    <3>5. \A x \in Contributors : /\ ConsumedCAReceipts(x)' = ConsumedCAReceipts(x)
                                 /\ CAActivations(x)' = CAActivations(x)
      BY <3>1, <3>2 DEF ConsumedCAReceipts, CAActivations
    <3> QED BY <3>1, <3>3, <3>4, <3>5 DEF ReceiptInv, OneActivationPerCAReceipt
  <2>6. ASSUME NEW q \in caReceipts, ExpireCAReceipt(q) PROVE ReceiptInv'
    <3> DEFINE late == [q EXCEPT !.status = "expired"]
    <3>1. /\ q.status = "open" /\ receipts' = receipts
          /\ caReceipts' = (caReceipts \ {q}) \cup {late}
      BY <2>6 DEF ExpireCAReceipt
    <3>2. late.status = "expired"
      BY DEF TypeOK, CAReceipt
    <3>3. IsFiniteSet(caReceipts') /\ CAReceiptPerChallenge'
      BY <3>1, RowUpdate DEF TypeOK
    <3> HIDE DEF late
    <3>4. \A x \in Contributors : /\ ConsumedCAReceipts(x)' = ConsumedCAReceipts(x)
                                 /\ CAActivations(x)' = CAActivations(x)
      BY <3>1, <3>2 DEF ConsumedCAReceipts, CAActivations
    <3> QED BY <3>1, <3>3, <3>4 DEF ReceiptInv, OneActivationPerCAReceipt
  <2> QED
    BY <2>1, <2>2, <2>3, <2>4, <2>5, <2>6
    DEF Next, AccountStep, DocumentStep, Register, BanContributor,
        WithdrawVerification, SubmitReview, BanDocument, ApproveRequest,
        CloseRequest, RotatePepper, vars
<1>3. ReceiptInv => OneActivationPerCAReceipt
  BY DEF ReceiptInv
<1> QED BY <1>1, <1>2, <1>3, TypeCorrect, PTL DEF Spec

-----------------------------------------------------------------------------
(* What the steps do to a document's claimants and applicants.               *)

LEMMA TokensOfDocument ==
    ASSUME NEW d \in Documents, NEW t
    PROVE  t \in TokensOf(d) <=> t \in Tokens /\ DocumentOf(t) = d
BY DEF TokensOf, Tokens, DocumentOf

LEMMA ClaimantsFromOwners ==
    ASSUME NEW d \in Documents,
           \A t \in TokensOf(d) : documentTokens'[t].owner = documentTokens[t].owner
    PROVE  Claimants(d)' = Claimants(d)
BY DEF Claimants, TokensOf, Generations

LEMMA BannedFromStatus ==
    ASSUME \A t \in Tokens : documentTokens'[t].status = "banned"
                               <=> documentTokens[t].status = "banned"
    PROVE  BannedDocuments' = BannedDocuments
BY TokensOfDocument DEF BannedDocuments, TokensOf, Tokens, Generations

LEMMA ApplicantsFromRequests ==
    ASSUME UNCHANGED requests
    PROVE  \A d : Applicants(d)' = Applicants(d)
BY DEF Applicants

(* An activation leaves every request on its document and with its owner.    *)
LEMMA ActivationKeepsApplicants ==
    ASSUME TypeOK, NEW c \in Contributors, NEW d \in Documents, NEW a \in Assurances,
           Activated(c, d, a), NEW e \in Documents
    PROVE  Applicants(e)' = Applicants(e)
<1>1. \A r \in requests : /\ Moved(c, d)[r].owner = r.owner
                          /\ DocumentOf(Moved(c, d)[r].token) = DocumentOf(r.token)
  <2> SUFFICES ASSUME NEW r \in requests
               PROVE  /\ Moved(c, d)[r].owner = r.owner
                      /\ DocumentOf(Moved(c, d)[r].token) = DocumentOf(r.token)
    OBVIOUS
  <2>1. CASE r.owner = c /\ r.token \in KnownTokens(d)
    <3>1. Moved(c, d)[r] = [r EXCEPT !.token = CurrentToken(d), !.status = "approved"]
      BY <2>1 DEF Moved
    <3>2. r \in Request
      BY DEF TypeOK
    <3>3. Moved(c, d)[r].owner = r.owner /\ Moved(c, d)[r].token = CurrentToken(d)
      BY <3>1, <3>2 DEF Request
    <3>4. CurrentToken(d) \in KnownTokens(d)
      BY DEF KnownTokens
    <3> QED BY <2>1, <3>3, <3>4, KnownTokensType
  <2>2. CASE ~(r.owner = c /\ r.token \in KnownTokens(d))
    BY <2>2 DEF Moved
  <2> QED BY <2>1, <2>2
<1>2. requests' = {Moved(c, d)[r] : r \in requests}
  BY DEF Activated, RequestsAfterActivation
<1> QED BY <1>1, <1>2 DEF Applicants

(* A claim ends with its account: a step that takes a document from a        *)
(* claimant is that account's deletion, for any number of rotations.         *)
THEOREM ClaimsEndWithAccounts == Spec => ClaimEndsWithAccount
<1>1. ASSUME TypeOK, OnlyRowsHaveOwners, [Next]_vars
      PROVE  [\A d \in Documents : \A a \in Claimants(d) :
                a \in Claimants(d)' \/ ~contributors'[a].registered]_vars
  <2> USE <1>1
  <2> SUFFICES ASSUME NEW d \in Documents, NEW a \in Claimants(d)
               PROVE  a \in Claimants(d)' \/ ~contributors'[a].registered
    OBVIOUS
  <2>1. PICK t \in TokensOf(d) : documentTokens[t].owner = a /\ a # Nobody
    BY DEF Claimants
  <2>2. t \in Tokens /\ DocumentOf(t) = d
    BY TokensOfDocument
  <2>3. a \in Contributors
    BY <2>1, <2>2 DEF TypeOK, TokenRow
  <2>4. ASSUME NEW u \in TokensOf(d), documentTokens'[u].owner = a
        PROVE  a \in Claimants(d)'
    <3>1. TokensOf(d)' = TokensOf(d)
      BY DEF TokensOf, Generations
    <3> QED BY <2>1, <2>4, <3>1 DEF Claimants
  <2>5. ASSUME UNCHANGED documentTokens PROVE a \in Claimants(d)'
    BY <2>1, <2>4, <2>5
  <2>6. ASSUME NEW c \in Contributors, DeleteAccount(c)
        PROVE  a \in Claimants(d)' \/ ~contributors'[a].registered
    <3>1. CASE c = a
      BY <2>3, <2>6, <3>1 DEF DeleteAccount, TypeOK, NoAccount
    <3>2. CASE c # a
      <4>1. documentTokens'[t] = documentTokens[t]
        BY <2>1, <2>2, <2>6, <3>2 DEF DeleteAccount
      <4> QED BY <2>1, <2>4, <4>1
    <3> QED BY <3>1, <3>2
  <2>7. ASSUME NEW c \in Contributors, NEW e \in Documents, NEW x \in Assurances,
               ActivateOutcome(c, e) = "verified", Activated(c, e, x)
        PROVE  a \in Claimants(d)'
    <3>1. CASE t \notin KnownTokens(e)
      <4>1. documentTokens'[t] = documentTokens[t]
        BY <2>2, <2>7, <3>1, ActivationTokens
      <4> QED BY <2>1, <2>4, <4>1
    <3>2. CASE t \in KnownTokens(e)
      <4>1. e = d
        BY <2>2, <3>2, KnownTokensType
      <4>2. a = c
        BY <2>1, <2>2, <2>7, <3>2, ActivationTokens DEF OnlyRowsHaveOwners
      <4>3. /\ CurrentToken(d) \in TokensOf(d)
            /\ documentTokens'[CurrentToken(d)].owner = a
        <5>1. /\ CurrentToken(e) \in Tokens /\ DocumentOf(CurrentToken(e)) = e
              /\ documentTokens'[CurrentToken(e)] = [status |-> "active", owner |-> c]
          BY <2>7, ActivationTokens
        <5> QED BY <4>1, <4>2, <5>1, TokensOfDocument
      <4> QED BY <2>4, <4>3
    <3> QED BY <3>1, <3>2
  <2>8. ASSUME NEW u \in Tokens, BanDocument(u) PROVE a \in Claimants(d)'
    <3>1. documentTokens'[t].owner = documentTokens[t].owner
      BY <2>2, <2>8 DEF BanDocument, TypeOK, TokenRow
    <3> QED BY <2>1, <2>4, <3>1
  <2>9. ASSUME NEW c \in Contributors, AccountStep(c)
        PROVE  a \in Claimants(d)' \/ ~contributors'[a].registered
    BY <2>5, <2>6, <2>9
    DEF AccountStep, Register, BanContributor, WithdrawVerification
  <2>10. ASSUME NEW c \in Contributors, NEW e \in Documents, DocumentStep(c, e)
         PROVE  a \in Claimants(d)'
    <3>1. CASE ActivateAA(c, e)
      BY <2>7, <3>1 DEF ActivateAA, Assurances
    <3>2. ASSUME NEW k \in AttestKeys, NEW ch \in Challenges, ActivateCA(c, k, ch, e)
          PROVE  a \in Claimants(d)'
      BY <2>7, <3>2 DEF ActivateCA, Assurances
    <3> QED BY <2>5, <2>10, <3>1, <3>2 DEF DocumentStep, SubmitReview, RecordCAReceipt
  <2>11. CASE \/ \E q \in caReceipts : ExpireCAReceipt(q)
              \/ \E r \in requests : ApproveRequest(r) \/ CloseRequest(r)
              \/ RotatePepper \/ UNCHANGED vars
    BY <2>5, <2>11
    DEF ExpireCAReceipt, ApproveRequest, CloseRequest, RotatePepper, vars
  <2> QED BY <2>8, <2>9, <2>10, <2>11 DEF Next
<1> QED BY <1>1, TypeCorrect, RowsOfOwners, PTL DEF Spec, ClaimEndsWithAccount

-----------------------------------------------------------------------------
(* The same two transactions in the terms of DocumentClaims.                 *)

LEMMA ActivationClaims ==
    ASSUME MaxRotations <= 1, TypeOK, ClaimInv,
           NEW c \in Contributors, NEW d \in Documents, NEW a \in Assurances,
           ActivateOutcome(c, d) = "verified", Activated(c, d, a)
    PROVE  /\ d \notin BannedDocuments
           /\ BannedDocuments' = BannedDocuments
           /\ Claimants(d) \subseteq {c} /\ Applicants(d) \subseteq {c}
           /\ Claimants(d)' = {c}
           /\ \A e \in Documents \ {d} :
                 Claimants(e)' = Claimants(e) /\ c \notin Claimants(e)
<1> DEFINE cur == CurrentToken(d)
<1>1. /\ cur \in Tokens /\ DocumentOf(cur) = d
      /\ documentTokens'[cur] = [status |-> "active", owner |-> c]
  BY ActivationTokens
<1>2. \A t \in Tokens : DocumentOf(t) # d => documentTokens'[t] = documentTokens[t]
  BY ActivationTokens, KnownTokensType
<1>3. \A t \in Tokens : DocumentOf(t) = d =>
        /\ documentTokens[t].status # "banned"
        /\ documentTokens[t].owner \in {Nobody, c}
  <2> SUFFICES ASSUME NEW t \in Tokens, DocumentOf(t) = d, HasRow(t)
               PROVE  /\ documentTokens[t].status # "banned"
                      /\ documentTokens[t].owner \in {Nobody, c}
    BY DEF HasRow, ClaimInv, OnlyRowsHaveOwners
  <2>1. t \in KnownRows(d)
    BY KnownTokensSuffice DEF ClaimInv, NoTokenOfFuturePepper, KnownRows
  <2> QED BY <2>1, VerifiedOutcome
<1>4. \A t \in Tokens : DocumentOf(t) = d =>
        /\ documentTokens'[t].status # "banned"
        /\ documentTokens'[t].owner \in {Nobody, c}
  <2>1. \A t \in Tokens :
          documentTokens'[t] \in {[status |-> "active", owner |-> c], NoRow,
                                  documentTokens[t]}
    BY DEF Activated
  <2> QED BY <1>3, <2>1 DEF NoRow
<1> HIDE DEF cur
<1>5. d \notin BannedDocuments
  BY <1>3, TokensOfDocument DEF BannedDocuments
<1>6. BannedDocuments' = BannedDocuments
  BY <1>2, <1>3, <1>4, BannedFromStatus
<1>7. Claimants(d) \subseteq {c}
  BY <1>3, TokensOfDocument DEF Claimants
<1>8. Applicants(d) \subseteq {c}
  BY ActivationApplicant DEF Applicants
<1>9. Claimants(d)' = {c}
  <2>1. TokensOf(d)' = TokensOf(d)
    BY DEF TokensOf, Generations
  <2>2. Claimants(d)' = {documentTokens'[t].owner : t \in TokensOf(d)} \ {Nobody}
    BY <2>1 DEF Claimants
  <2>3. cur \in TokensOf(d) /\ documentTokens'[cur].owner = c
    BY <1>1, TokensOfDocument
  <2>4. \A t \in TokensOf(d) : documentTokens'[t].owner \in {Nobody, c}
    BY <1>4, TokensOfDocument
  <2> QED BY <2>2, <2>3, <2>4, NobodyIsNoAccount
<1>10. ASSUME NEW e \in Documents \ {d}
       PROVE  Claimants(e)' = Claimants(e) /\ c \notin Claimants(e)
  <2>1. \A t \in TokensOf(e) : t \in Tokens /\ DocumentOf(t) = e
    BY TokensOfDocument
  <2>2. Claimants(e)' = Claimants(e)
    BY <1>2, <2>1, ClaimantsFromOwners
  <2>3. \A t \in TokensOf(e) : t \notin KnownTokens(d)
    BY <2>1, KnownTokensType
  <2>4. \A t \in TokensOf(e) : ~OwnsRow(c, t)
    BY <2>1, <2>3, VerifiedOutcome
  <2>5. \A t \in TokensOf(e) : documentTokens[t].owner # c
    BY <2>1, <2>4, NobodyIsNoAccount DEF OwnsRow, ClaimInv, OnlyRowsHaveOwners
  <2> QED BY <2>2, <2>5 DEF Claimants
<1> QED BY <1>5, <1>6, <1>7, <1>8, <1>9, <1>10

(* uq_verification_request_active_contributor, which                         *)
(* submit_verification_review_v7_rotating checks before the index would.     *)
OneRequestPerContributor == \A r, s \in requests : r.owner = s.owner => r = s

LEMMA SubmitterHasNoRequest ==
    ASSUME TypeOK, OneRequestPerContributor,
           NEW c \in Contributors, NEW d \in Documents, SubmitReview(c, d)
    PROVE  \A r \in requests : r.owner # c
<1> SUFFICES ASSUME NEW r \in requests, r.owner = c PROVE FALSE
  OBVIOUS
<1>1. RequestsOf(c) = {r}
  BY DEF OneRequestPerContributor, RequestsOf
<1>2. r.id \in Int
  BY BoundsAreNatural DEF TypeOK, Request
<1>3. Newest(RequestsOf(c)) = r
  BY <1>1, <1>2 DEF Newest
<1>4. r.token \in KnownTokens(d)
  <2>1. \A u : ReviewVerdict(c, u) \in {"banned", "duplicate", "already_verified", "free"}
    BY DEF ReviewVerdict
  <2>2. TakenRows(c, d) = {}
    BY <2>1 DEF SubmitReview, SubmitOutcome, TakenRows
  <2> QED BY <1>1, <1>3, <2>2 DEF SubmitReview, SubmitOutcome
<1> QED BY <1>4 DEF SubmitReview, RequestsOn

LEMMA SubmissionClaims ==
    ASSUME MaxRotations <= 1, TypeOK, ClaimInv, OneRequestPerContributor,
           NEW c \in Contributors, NEW d \in Documents, SubmitReview(c, d)
    PROVE  /\ d \notin BannedDocuments
           /\ Claimants(d) = {} /\ Applicants(d) = {}
           /\ Applicants(d)' = {c}
           /\ \A e \in Documents \ {d} :
                 Applicants(e)' = Applicants(e) /\ c \notin Applicants(e)
<1>1. /\ \A r \in requests : DocumentOf(r.token) # d
      /\ \A u \in Tokens : DocumentOf(u) = d => /\ documentTokens[u].owner = Nobody
                                               /\ documentTokens[u].status # "banned"
  BY SubmissionFree
<1>2. d \notin BannedDocuments /\ Claimants(d) = {} /\ Applicants(d) = {}
  BY <1>1, TokensOfDocument DEF BannedDocuments, Claimants, Applicants
<1>3. PICK i \in FreshRequestIds, t \in EffectiveTokens(d) :
        requests' = requests \cup
          {[id |-> i, owner |-> c, token |-> t, status |-> "pending"]}
  BY DEF SubmitReview
<1>4. DocumentOf(t) = d
  BY KnownTokensType DEF EffectiveTokens, KnownRows, KnownTokens
<1> DEFINE new == [id |-> i, owner |-> c, token |-> t, status |-> "pending"]
<1>5. Applicants(d)' = {c}
  <2>1. new.owner = c /\ DocumentOf(new.token) = d
    BY <1>4
  <2>2. requests' = requests \cup {new}
    BY <1>3
  <2> HIDE DEF new
  <2>3. {q \in requests' : DocumentOf(q.token) = d} = {new}
    BY <1>1, <2>1, <2>2
  <2>4. Applicants(d)' = {r.owner : r \in {new}}
    BY <2>3 DEF Applicants
  <2> QED BY <2>1, <2>4
<1>6. \A r \in requests : r.owner # c
  BY SubmitterHasNoRequest
<1>7. \A e \in Documents \ {d} :
        Applicants(e)' = Applicants(e) /\ c \notin Applicants(e)
  BY <1>3, <1>4, <1>6 DEF Applicants
<1> QED BY <1>2, <1>5, <1>7

LEMMA RequestsOfContributors == Spec => []OneRequestPerContributor
<1>1. Init => OneRequestPerContributor
  BY DEF Init, OneRequestPerContributor
<1>2. ASSUME TypeOK, OneRequestPerContributor, [Next]_vars
      PROVE  OneRequestPerContributor'
  <2> USE <1>2
  <2>1. ASSUME requests' \subseteq requests PROVE OneRequestPerContributor'
    BY <2>1 DEF OneRequestPerContributor
  <2>2. ASSUME NEW c \in Contributors, NEW d \in Documents, SubmitReview(c, d)
        PROVE  OneRequestPerContributor'
    <3>1. PICK i \in FreshRequestIds, t \in EffectiveTokens(d) :
            requests' = requests \cup
              {[id |-> i, owner |-> c, token |-> t, status |-> "pending"]}
      BY <2>2 DEF SubmitReview
    <3>2. \A r \in requests : r.owner # c
      BY <2>2, SubmitterHasNoRequest
    <3> QED BY <3>1, <3>2 DEF OneRequestPerContributor
  <2>3. ASSUME NEW c \in Contributors, NEW d \in Documents, NEW a \in Assurances,
               Activated(c, d, a)
        PROVE  OneRequestPerContributor'
    <3>1. \A r \in requests : Moved(c, d)[r].owner = r.owner
      BY DEF Moved, TypeOK, Request
    <3>2. requests' = {Moved(c, d)[r] : r \in requests}
      BY <2>3 DEF Activated, RequestsAfterActivation
    <3> QED BY <3>1, <3>2 DEF OneRequestPerContributor
  <2>4. ASSUME NEW r \in requests, ApproveRequest(r) PROVE OneRequestPerContributor'
    <3> DEFINE approved == [r EXCEPT !.status = "approved"]
    <3>1. approved.owner = r.owner
      BY DEF TypeOK, Request
    <3>2. requests' = (requests \ {r}) \cup {approved}
      BY <2>4 DEF ApproveRequest
    <3> HIDE DEF approved
    <3> QED BY <3>1, <3>2 DEF OneRequestPerContributor
  <2>5. ASSUME NEW c \in Contributors, NEW d \in Documents, DocumentStep(c, d)
        PROVE  OneRequestPerContributor'
    BY <2>1, <2>2, <2>3, <2>5
    DEF DocumentStep, ActivateAA, ActivateCA, RecordCAReceipt, Assurances
  <2> QED
    BY <2>1, <2>4, <2>5
    DEF Next, AccountStep, Register, DeleteAccount, BanContributor,
        WithdrawVerification, ExpireCAReceipt, BanDocument, CloseRequest,
        RotatePepper, vars
<1> QED BY <1>1, <1>2, TypeCorrect, PTL DEF Spec

(* What each step of the tables does to documents: DocumentClaims' actions,  *)
(* over sets of accounts.                                                    *)
SameClaims == \A d \in Documents : Claimants(d)' = Claimants(d)
SameQueue == \A d \in Documents : Applicants(d)' = Applicants(d)
SameBans == BannedDocuments' = BannedDocuments

Takes(c, d) ==
    /\ d \notin BannedDocuments
    /\ Claimants(d) \subseteq {c} /\ Applicants(d) \subseteq {c}
    /\ Claimants(d)' = {c}
    /\ \A e \in Documents \ {d} : Claimants(e)' = Claimants(e) /\ c \notin Claimants(e)
    /\ SameQueue /\ SameBans
Queues(c, d) ==
    /\ d \notin BannedDocuments
    /\ Claimants(d) = {} /\ Applicants(d) = {}
    /\ Applicants(d)' = {c}
    /\ \A e \in Documents \ {d} :
          Applicants(e)' = Applicants(e) /\ c \notin Applicants(e)
    /\ SameClaims /\ SameBans
Leaves(c) ==
    /\ \A d \in Documents : /\ Claimants(d)' = Claimants(d) \ {c}
                            /\ Applicants(d)' = Applicants(d) \ {c}
    /\ SameBans
Unqueues(d) ==
    /\ Applicants(d) # {} /\ Applicants(d)' = {}
    /\ \A e \in Documents \ {d} : Applicants(e)' = Applicants(e)
    /\ SameClaims /\ SameBans
Bans(d) ==
    /\ BannedDocuments' = BannedDocuments \cup {d}
    /\ SameClaims /\ SameQueue

ClaimStep ==
    \/ \E c \in Contributors, d \in Documents : Takes(c, d) \/ Queues(c, d)
    \/ \E c \in Contributors : Leaves(c)
    \/ \E d \in Documents : Unqueues(d) \/ Bans(d)
    \/ SameClaims /\ SameQueue /\ SameBans

LEMMA StepsAreClaimSteps ==
    ASSUME MaxRotations <= 1, TypeOK, ClaimInv, OneRequestPerContributor, [Next]_vars
    PROVE  ClaimStep
<1>1. ASSUME UNCHANGED documentTokens PROVE SameClaims /\ SameBans
  BY <1>1, ClaimantsFromOwners, BannedFromStatus DEF SameClaims, SameBans
<1>2. ASSUME UNCHANGED requests PROVE SameQueue
  BY <1>2, ApplicantsFromRequests DEF SameQueue
<1>3. ASSUME UNCHANGED <<documentTokens, requests>> PROVE ClaimStep
  BY <1>1, <1>2, <1>3 DEF ClaimStep
<1>4. ASSUME NEW c \in Contributors, DeleteAccount(c) PROVE Leaves(c)
  <2>1. \A t \in Tokens :
          /\ documentTokens'[t].status = documentTokens[t].status
          /\ documentTokens'[t].owner =
               IF documentTokens[t].owner = c THEN Nobody ELSE documentTokens[t].owner
    BY <1>4 DEF DeleteAccount, TypeOK, TokenRow
  <2>2. SameBans
    BY <2>1, BannedFromStatus DEF SameBans
  <2>3. ASSUME NEW d \in Documents PROVE Claimants(d)' = Claimants(d) \ {c}
    <3>1. \A t \in TokensOf(d) : t \in Tokens
      BY TokensOfDocument
    <3>2. Claimants(d)' = {documentTokens'[t].owner : t \in TokensOf(d)} \ {Nobody}
      BY DEF Claimants, TokensOf, Generations
    <3> QED BY <2>1, <3>1, <3>2 DEF Claimants
  <2>4. ASSUME NEW d \in Documents PROVE Applicants(d)' = Applicants(d) \ {c}
    <3>1. requests' = {r \in requests : r.owner # c}
      BY <1>4 DEF DeleteAccount
    <3> QED BY <3>1 DEF Applicants
  <2> QED BY <2>2, <2>3, <2>4 DEF Leaves
<1>5. ASSUME NEW c \in Contributors, NEW d \in Documents, SubmitReview(c, d)
      PROVE  Queues(c, d)
  <2>1. SameClaims /\ SameBans
    BY <1>1, <1>5 DEF SubmitReview
  <2> QED BY <1>5, <2>1, SubmissionClaims DEF Queues
<1>6. ASSUME NEW c \in Contributors, NEW d \in Documents, NEW a \in Assurances,
             ActivateOutcome(c, d) = "verified", Activated(c, d, a)
      PROVE  Takes(c, d)
  <2>1. SameQueue
    BY <1>6, ActivationKeepsApplicants DEF SameQueue
  <2> QED BY <1>6, <2>1, ActivationClaims DEF Takes, SameBans
<1>7. ASSUME NEW t \in Tokens, BanDocument(t) PROVE Bans(DocumentOf(t))
  <2>1. \A u \in Tokens :
          /\ documentTokens'[u].owner = documentTokens[u].owner
          /\ documentTokens'[u].status =
               IF u = t THEN "banned" ELSE documentTokens[u].status
    BY <1>7 DEF BanDocument, TypeOK, TokenRow
  <2>2. SameQueue
    BY <1>2, <1>7 DEF BanDocument
  <2>3. SameClaims
    BY <2>1, TokensOfDocument, ClaimantsFromOwners DEF SameClaims
  <2>4. DocumentOf(t) \in Documents
    BY DEF Tokens, DocumentOf
  <2>5. \A d \in Documents : d \in BannedDocuments' <=>
          \E u \in TokensOf(d) : documentTokens'[u].status = "banned"
    BY DEF BannedDocuments, TokensOf, Generations
  <2>6. BannedDocuments' \subseteq Documents
    BY DEF BannedDocuments
  <2>7. BannedDocuments' = BannedDocuments \cup {DocumentOf(t)}
    BY <2>1, <2>4, <2>5, <2>6, TokensOfDocument DEF BannedDocuments
  <2> QED BY <2>2, <2>3, <2>7 DEF Bans
<1>8. ASSUME NEW r \in requests, ApproveRequest(r) PROVE ClaimStep
  <2> DEFINE approved == [r EXCEPT !.status = "approved"]
  <2>1. approved.token = r.token /\ approved.owner = r.owner
    BY DEF TypeOK, Request
  <2>2. requests' = (requests \ {r}) \cup {approved}
    BY <1>8 DEF ApproveRequest
  <2> HIDE DEF approved
  <2>3. SameQueue
    BY <2>1, <2>2 DEF SameQueue, Applicants
  <2> QED BY <1>1, <1>8, <2>3 DEF ApproveRequest, ClaimStep
<1>9. ASSUME NEW r \in requests, CloseRequest(r) PROVE Unqueues(DocumentOf(r.token))
  <2>1. requests' = requests \ {r}
    BY <1>9 DEF CloseRequest
  <2>2. SameClaims /\ SameBans
    BY <1>1, <1>9 DEF CloseRequest
  <2>3. \A s \in requests' : DocumentOf(s.token) # DocumentOf(r.token)
    BY <2>1 DEF ClaimInv, OneRequestPerDocument
  <2>4. Applicants(DocumentOf(r.token)) # {} /\ Applicants(DocumentOf(r.token))' = {}
    BY <2>3 DEF Applicants
  <2>5. \A e \in Documents \ {DocumentOf(r.token)} : Applicants(e)' = Applicants(e)
    BY <2>1 DEF Applicants
  <2> QED BY <2>2, <2>4, <2>5 DEF Unqueues
<1>10. \A r \in requests : DocumentOf(r.token) \in Documents
  BY DEF TypeOK, Request, Tokens, DocumentOf
<1>11. \A t \in Tokens : DocumentOf(t) \in Documents
  BY DEF Tokens, DocumentOf
<1>12. ASSUME NEW c \in Contributors, AccountStep(c) PROVE ClaimStep
  BY <1>3, <1>4, <1>12
  DEF AccountStep, Register, BanContributor, WithdrawVerification, ClaimStep
<1>13. ASSUME NEW c \in Contributors, NEW d \in Documents, DocumentStep(c, d)
       PROVE  ClaimStep
  <2>1. CASE SubmitReview(c, d)
    BY <1>5, <2>1 DEF ClaimStep
  <2>2. CASE ActivateAA(c, d)
    BY <1>6, <2>2 DEF ActivateAA, Assurances, ClaimStep
  <2>3. ASSUME NEW k \in AttestKeys, NEW ch \in Challenges, ActivateCA(c, k, ch, d)
        PROVE  ClaimStep
    BY <1>6, <2>3 DEF ActivateCA, Assurances, ClaimStep
  <2>4. ASSUME NEW k \in AttestKeys, NEW ch \in Challenges, RecordCAReceipt(c, k, ch, d)
        PROVE  ClaimStep
    BY <1>3, <2>4 DEF RecordCAReceipt
  <2> QED BY <1>13, <2>1, <2>2, <2>3, <2>4 DEF DocumentStep
<1>14. CASE RotatePepper \/ UNCHANGED vars \/ \E q \in caReceipts : ExpireCAReceipt(q)
  BY <1>3, <1>14 DEF RotatePepper, vars, ExpireCAReceipt
<1>15. ASSUME NEW t \in Tokens, BanDocument(t) PROVE ClaimStep
  BY <1>7, <1>11, <1>15 DEF ClaimStep
<1>16. ASSUME NEW r \in requests, CloseRequest(r) PROVE ClaimStep
  BY <1>9, <1>10, <1>16 DEF ClaimStep
<1> QED BY <1>8, <1>12, <1>13, <1>14, <1>15, <1>16 DEF Next

(* A banned document stays banned, under every pepper, and nobody newly      *)
(* claims it or enters the queue with it.                                    *)
THEOREM BansAreFinal ==
    ASSUME MaxRotations <= 1
    PROVE  Spec => BannedDocumentStaysOut
<1>1. ASSUME TypeOK, ClaimInv, OneRequestPerContributor, [Next]_vars
      PROVE  [\A d \in BannedDocuments :
                d \in BannedDocuments' /\ InterestedIn(d)' \subseteq InterestedIn(d)]_vars
  <2> SUFFICES ASSUME NEW d \in BannedDocuments
               PROVE  /\ d \in BannedDocuments'
                      /\ InterestedIn(d)' \subseteq InterestedIn(d)
    OBVIOUS
  <2>1. ClaimStep
    BY <1>1, StepsAreClaimSteps
  <2>2. d \in Documents
    BY DEF BannedDocuments
  <2>3. /\ d \in BannedDocuments'
        /\ Claimants(d)' \subseteq Claimants(d)
        /\ Applicants(d)' \subseteq Applicants(d)
    <3>1. CASE \E c \in Contributors, e \in Documents : Takes(c, e)
      BY <2>2, <3>1 DEF Takes, SameQueue, SameBans
    <3>2. CASE \E c \in Contributors, e \in Documents : Queues(c, e)
      BY <2>2, <3>2 DEF Queues, SameClaims, SameBans
    <3>3. CASE \E c \in Contributors : Leaves(c)
      BY <2>2, <3>3 DEF Leaves, SameBans
    <3>4. CASE \E e \in Documents : Unqueues(e)
      BY <2>2, <3>4 DEF Unqueues, SameClaims, SameBans
    <3>5. CASE \E e \in Documents : Bans(e)
      BY <2>2, <3>5 DEF Bans, SameClaims, SameQueue
    <3>6. CASE SameClaims /\ SameQueue /\ SameBans
      BY <2>2, <3>6 DEF SameClaims, SameQueue, SameBans
    <3> QED BY <2>1, <3>1, <3>2, <3>3, <3>4, <3>5, <3>6 DEF ClaimStep
  <2> QED BY <2>3 DEF InterestedIn
<1> QED
  BY <1>1, TypeCorrect, ClaimsConsistent, RequestsOfContributors, PTL
  DEF Spec, BannedDocumentStaysOut

-----------------------------------------------------------------------------
(* The refinement mapping: who holds a document, and who waits with it.      *)
Holder == [d \in Documents |-> TheOne(Claimants(d))]
Reserver == [d \in Documents |-> TheOne(Applicants(d))]

LEMMA TheOneOf ==
    /\ TheOne({}) = Nobody
    /\ \A c : TheOne({c}) = c
BY DEF TheOne

(* OneAccountPerDocument is what makes the mapping well defined.             *)
AtMostOne(S) == S = {} \/ \E c \in Contributors : S = {c}

LEMMA AccountsOfDocument ==
    ASSUME TypeOK, ClaimInv, NEW d \in Documents
    PROVE  AtMostOne(Claimants(d)) /\ AtMostOne(Applicants(d))
<1>1. Claimants(d) \subseteq Contributors
  BY TokensOfDocument DEF Claimants, TypeOK, TokenRow
<1>2. \A x, y \in Claimants(d) : x = y
  BY TokensOfDocument DEF Claimants, ClaimInv, OneRowPerDocument, OnlyRowsHaveOwners
<1>3. Applicants(d) \subseteq Contributors
  BY DEF Applicants, TypeOK, Request
<1>4. \A x, y \in Applicants(d) : x = y
  BY DEF Applicants, ClaimInv, OneRequestPerDocument
<1> QED BY <1>1, <1>2, <1>3, <1>4 DEF AtMostOne

LEMMA OneHolder ==
    ASSUME NEW S, AtMostOne(S), NEW c \in Contributors
    PROVE  /\ TheOne(S) = c <=> c \in S
           /\ TheOne(S) \in {Nobody, c} <=> S \subseteq {c}
           /\ TheOne(S) = Nobody <=> S = {}
           /\ TheOne(S \ {c}) = IF TheOne(S) = c THEN Nobody ELSE TheOne(S)
<1>1. CASE S = {}
  <2>1. S \ {c} = {}
    BY <1>1
  <2> QED BY <1>1, <2>1, TheOneOf, NobodyIsNoAccount
<1>2. ASSUME NEW a \in Contributors, S = {a}
      PROVE  /\ TheOne(S) = c <=> c \in S
             /\ TheOne(S) \in {Nobody, c} <=> S \subseteq {c}
             /\ TheOne(S) = Nobody <=> S = {}
             /\ TheOne(S \ {c}) = IF TheOne(S) = c THEN Nobody ELSE TheOne(S)
  <2>1. TheOne(S) = a /\ a # Nobody
    BY <1>2, TheOneOf, NobodyIsNoAccount
  <2>2. S \ {c} = IF a = c THEN {} ELSE S
    BY <1>2
  <2> QED BY <1>2, <2>1, <2>2, TheOneOf
<1> QED BY <1>1, <1>2 DEF AtMostOne

LEMMA SameMapped ==
    /\ SameClaims => Holder' = Holder
    /\ SameQueue => Reserver' = Reserver
BY DEF SameClaims, SameQueue, Holder, Reserver

LEMMA ClaimStepsRefine ==
    ASSUME TypeOK, ClaimInv, ClaimStep
    PROVE  [Claims!Next]_(Claims!vars)
<1>1. \A d \in Documents : AtMostOne(Claimants(d)) /\ AtMostOne(Applicants(d))
  BY AccountsOfDocument
<1>2. /\ Holder = [d \in Documents |-> TheOne(Claimants(d))]
      /\ Holder' = [d \in Documents |-> TheOne(Claimants(d)')]
      /\ Reserver = [d \in Documents |-> TheOne(Applicants(d))]
      /\ Reserver' = [d \in Documents |-> TheOne(Applicants(d)')]
  BY DEF Holder, Reserver
<1>3. ASSUME NEW c \in Contributors, NEW d \in Documents, Takes(c, d)
      PROVE  Claims!Claim(c, d)
  <2>1. Holder[d] \in {Nobody, c} /\ Reserver[d] \in {Nobody, c}
    BY <1>1, <1>2, <1>3, OneHolder DEF Takes
  <2>2. \A e \in Documents \ {d} : Holder[e] # c
    BY <1>1, <1>2, <1>3, OneHolder DEF Takes
  <2>3. Holder' = [Holder EXCEPT ![d] = c]
    BY <1>2, <1>3, TheOneOf DEF Takes
  <2>4. Reserver' = Reserver /\ BannedDocuments' = BannedDocuments
    BY <1>3, SameMapped DEF Takes, SameBans
  <2> QED BY <1>3, <2>1, <2>2, <2>3, <2>4
          DEF Takes, Claims!Claim, Claims!FreeFor, Holder, Reserver
<1>4. ASSUME NEW c \in Contributors, NEW d \in Documents, Queues(c, d)
      PROVE  Claims!Reserve(c, d)
  <2>1. Holder[d] = Nobody /\ Reserver[d] = Nobody
    BY <1>2, <1>4, TheOneOf DEF Queues
  <2>2. \A e \in Documents \ {d} : Reserver[e] # c
    BY <1>1, <1>2, <1>4, OneHolder DEF Queues
  <2>3. Reserver' = [Reserver EXCEPT ![d] = c]
    BY <1>2, <1>4, TheOneOf DEF Queues
  <2>4. Holder' = Holder /\ BannedDocuments' = BannedDocuments
    BY <1>4, SameMapped DEF Queues, SameBans
  <2> QED BY <1>4, <2>1, <2>2, <2>3, <2>4
          DEF Queues, Claims!Reserve, Claims!FreeFor, Holder, Reserver
<1>5. ASSUME NEW c \in Contributors, Leaves(c) PROVE Claims!DeleteAccount(c)
  <2>1. Holder' = [d \in Documents |-> IF Holder[d] = c THEN Nobody ELSE Holder[d]]
    BY <1>1, <1>2, <1>5, OneHolder DEF Leaves
  <2>2. Reserver' = [d \in Documents |-> IF Reserver[d] = c THEN Nobody
                                         ELSE Reserver[d]]
    BY <1>1, <1>2, <1>5, OneHolder DEF Leaves
  <2> QED BY <1>5, <2>1, <2>2
          DEF Leaves, SameBans, Claims!DeleteAccount, Claims!Without, Holder, Reserver
<1>6. ASSUME NEW d \in Documents, Unqueues(d) PROVE Claims!DropReservation(d)
  <2>1. PICK c \in Contributors : Applicants(d) = {c}
    BY <1>1, <1>6 DEF Unqueues, AtMostOne
  <2>2. Reserver[d] # Nobody
    BY <1>2, <2>1, TheOneOf, NobodyIsNoAccount
  <2>3. Reserver' = [Reserver EXCEPT ![d] = Nobody]
    BY <1>2, <1>6, TheOneOf DEF Unqueues
  <2>4. Holder' = Holder /\ BannedDocuments' = BannedDocuments
    BY <1>6, SameMapped DEF Unqueues, SameBans
  <2> QED BY <2>2, <2>3, <2>4 DEF Claims!DropReservation, Holder, Reserver
<1>7. ASSUME NEW d \in Documents, Bans(d) PROVE Claims!Ban(d)
  BY <1>7, SameMapped DEF Bans, Claims!Ban, Holder, Reserver
<1>8. CASE SameClaims /\ SameQueue /\ SameBans
  BY <1>8, SameMapped DEF SameBans, Claims!vars, Holder, Reserver
<1> QED BY <1>3, <1>4, <1>5, <1>6, <1>7, <1>8 DEF ClaimStep, Claims!Next

(* The tables, tokens, peppers and queues together keep the promise that     *)
(* DocumentClaims states of documents and accounts alone.                    *)
THEOREM TablesImplementClaims ==
    ASSUME MaxRotations <= 1
    PROVE  Spec => ImplementsDocumentClaims
<1>1. Init => Claims!Init
  <2> SUFFICES ASSUME Init PROVE Claims!Init
    OBVIOUS
  <2>1. \A d \in Documents : Claimants(d) = {} /\ Applicants(d) = {}
    BY TokensOfDocument DEF Init, NoRow, Claimants, Applicants
  <2>2. BannedDocuments = {}
    BY TokensOfDocument DEF Init, NoRow, BannedDocuments
  <2> QED BY <2>1, <2>2, TheOneOf DEF Claims!Init
<1>2. TypeOK /\ ClaimInv /\ OneRequestPerContributor /\ [Next]_vars
        => [Claims!Next]_(Claims!vars)
  BY StepsAreClaimSteps, ClaimStepsRefine
<1> QED
  BY <1>1, <1>2, TypeCorrect, ClaimsConsistent, RequestsOfContributors, PTL
  DEF Spec, ImplementsDocumentClaims, Claims!Spec
=============================================================================
