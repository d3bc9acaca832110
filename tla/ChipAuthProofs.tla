--------------------------- MODULE ChipAuthProofs ---------------------------
(***************************************************************************)
(* That a signed request is let in once, in order and with its own key,    *)
(* that receipts rest on a chip's answer and that no weaker algorithm is   *)
(* used, for any number of accounts, keys, requests, sessions and          *)
(* documents.                                                              *)
(***************************************************************************)
EXTENDS ChipAuth, FiniteSetTheorems, WellFoundedInduction, TLAPS

USE KeysAssumption, NoneAssumption

-----------------------------------------------------------------------------
(* The choice of the algorithm *)

LEMMA LeastNumber ==
    ASSUME NEW S \in SUBSET Nat, S # {}
    PROVE  \E n \in S : \A m \in S : n <= m
<1>1. PICK n \in S : \A m \in S : ~(<<m, n>> \in OpToRel(<, Nat))
  BY NatLessThanWellFounded, WFMin, Zenon
<1>2. \A m \in S : ~(m < n)
  BY <1>1 DEF OpToRel
<1> QED BY <1>2

LEMMA Entries ==
    ASSUME NEW dg14 \in DG14, NEW c \in Candidates(dg14)
    PROVE  /\ c = <<c[1], c[2]>> /\ c[1] \in Nat /\ c[2] \in Nat
           /\ dg14[c[1]] \in PublicKeys /\ dg14[c[2]] \in Protocols
           /\ dg14[c[2]].keyLength \in KeyLengths
<1>1. /\ c \in (DOMAIN dg14) \X (DOMAIN dg14)
      /\ dg14[c[1]].kind = "key" /\ dg14[c[2]].kind = "protocol"
  BY DEF Candidates
<1>2. c = <<c[1], c[2]>> /\ c[1] \in DOMAIN dg14 /\ c[2] \in DOMAIN dg14
  BY <1>1
<1>3. DOMAIN dg14 = 1..Len(dg14) /\ Len(dg14) \in Nat
  BY DEF DG14
<1>4. /\ dg14[c[1]] \in PublicKeys \cup Protocols \cup {Skipped, Refused}
      /\ dg14[c[2]] \in PublicKeys \cup Protocols \cup {Skipped, Refused}
  BY <1>2 DEF DG14
<1>5. dg14[c[1]] \in PublicKeys /\ dg14[c[2]] \in Protocols
  BY <1>1, <1>4 DEF PublicKeys, Protocols, Skipped, Refused
<1> QED BY <1>2, <1>3, <1>5 DEF Protocols

LEMMA FinitelyMany ==
    ASSUME NEW dg14 \in DG14 PROVE IsFiniteSet(Candidates(dg14))
<1>1. DOMAIN dg14 = 1..Len(dg14) /\ Len(dg14) \in Nat
  BY DEF DG14
<1>2. IsFiniteSet(DOMAIN dg14)
  BY <1>1, FS_Interval
<1>3. IsFiniteSet((DOMAIN dg14) \X (DOMAIN dg14))
  BY <1>2, FS_Product
<1>4. Candidates(dg14) \in SUBSET ((DOMAIN dg14) \X (DOMAIN dg14))
  BY DEF Candidates
<1> QED BY <1>3, <1>4, FS_Subset

\* One candidate sorts before all others: of those with the longest key, the
\* one with the first key and of that the first protocol.
LEMMA SomeFirst ==
    ASSUME NEW dg14 \in DG14, Candidates(dg14) # {}
    PROVE  \E c \in Candidates(dg14) : \A d \in Candidates(dg14) : ~SortsBefore(dg14, d, c)
<1> DEFINE C == Candidates(dg14)
           length(c) == dg14[c[2]].keyLength
<1>1. \A c \in C : /\ length(c) \in {128, 192, 256}
                   /\ c[1] \in Nat /\ c[2] \in Nat
  BY Entries DEF KeyLengths
<1> HIDE DEF C, length
<1>2. PICK best \in C : \A d \in C : length(d) <= length(best)
  BY <1>1 DEF C
<1> DEFINE B == {c \in C : length(c) = length(best)}
           first == {c[1] : c \in B}
<1>3. PICK i \in first : \A m \in first : i <= m
  <2>1. first \in SUBSET Nat /\ first # {}
    BY <1>1
  <2> QED BY <2>1, LeastNumber
<1> DEFINE second == {c[2] : c \in {b \in B : b[1] = i}}
<1>4. PICK j \in second : \A m \in second : j <= m
  <2>1. second \in SUBSET Nat /\ second # {}
    BY <1>1, <1>3
  <2> QED BY <2>1, LeastNumber
<1>5. PICK c \in B : c[1] = i /\ c[2] = j
  BY <1>4
<1>6. ASSUME NEW d \in C PROVE ~SortsBefore(dg14, d, c)
  <2>1. length(c) = length(best) /\ length(d) <= length(c)
    BY <1>2, <1>5
  <2>2. length(d) = length(c) => i <= d[1] /\ (d[1] = i => j <= d[2])
    BY <1>3, <1>4, <2>1
  <2>3. /\ Compare(dg14, d, c) = length(c) - length(d)
        /\ length(c) \in Nat /\ length(d) \in Nat
    BY <1>1, <1>5 DEF Compare, length
  <2>4. d[1] \in Nat /\ d[2] \in Nat /\ i \in Nat /\ j \in Nat
    BY <1>1, <1>5
  <2> QED BY <1>5, <2>1, <2>2, <2>3, <2>4 DEF SortsBefore, FoundBefore
<1> QED BY <1>5, <1>6 DEF C

\* The first of the sorted list is a candidate that none sorts before.
LEMMA HeadOfSorted ==
    ASSUME NEW dg14 \in DG14, Supported(dg14)
    PROVE  LET head == parseDG14(dg14)[1] IN
           head \in Candidates(dg14) /\ \A d \in Candidates(dg14) : ~SortsBefore(dg14, d, head)
<1> DEFINE C == Candidates(dg14)
           head == parseDG14(dg14)[1]
           before(c) == {d \in C : SortsBefore(dg14, d, c)}
<1>1. C # {} /\ IsFiniteSet(C)
  BY FinitelyMany DEF Supported
<1>2. Cardinality(C) \in Nat /\ Cardinality(C) # 0
  BY <1>1, FS_EmptySet, FS_CardinalityType
<1>3. 1 \in 1..Cardinality(C)
  BY <1>2
<1>4. PICK c \in C : before(c) = {}
  BY <1>1, SomeFirst
<1>5. Cardinality(before(c)) = 1 - 1
  BY <1>4, FS_EmptySet
<1>6. head = CHOOSE x \in C : Cardinality(before(x)) = 1 - 1
  BY <1>3 DEF parseDG14
<1>7. head \in C /\ Cardinality(before(head)) = 0
  <2> HIDE DEF C, before, head
  <2> QED BY <1>5, <1>6
<1>8. before(head) \in SUBSET C
  OBVIOUS
<1>9. IsFiniteSet(before(head))
  BY <1>1, <1>8, FS_Subset
<1>10. before(head) = {}
  BY <1>7, <1>9, FS_EmptySet
<1> QED BY <1>7, <1>10

LEMMA ChosenType ==
    ASSUME NEW dg14 \in DG14, Supported(dg14) PROVE ChosenLength(dg14) \in KeyLengths
BY HeadOfSorted, Entries DEF ChosenLength

\* What is chosen is no weaker than any algorithm the DG14 has a key for.
LEMMA ChosenStrongest ==
    ASSUME NEW dg14 \in DG14, Supported(dg14), NEW i \in DOMAIN dg14, NEW j \in DOMAIN dg14,
           dg14[i].kind = "key", dg14[j].kind = "protocol",
           Number(dg14[i].keyId) = Number(dg14[j].keyId)
    PROVE  dg14[j].keyLength <= ChosenLength(dg14)
<1> DEFINE head == parseDG14(dg14)[1]
<1>1. <<i, j>> \in Candidates(dg14)
  BY DEF Candidates, Matching
<1>2. head \in Candidates(dg14) /\ ~SortsBefore(dg14, <<i, j>>, head)
  BY <1>1, HeadOfSorted
<1>3. dg14[j].keyLength \in KeyLengths /\ dg14[head[2]].keyLength \in KeyLengths
  BY <1>1, <1>2, Entries
<1>4. ~(dg14[head[2]].keyLength - dg14[j].keyLength < 0)
  BY <1>2 DEF SortsBefore, Compare
<1> QED BY <1>3, <1>4 DEF ChosenLength, KeyLengths

-----------------------------------------------------------------------------
(* Types *)

LEMMA InitTypes == Init => TypeOK
BY DEF Init, TypeOK, Memory!Init, Memory!LedgerTypeOK, Memory!Blank

LEMMA LedgerTypes ==
    ASSUME TypeOK,
           \/ UNCHANGED ledger
           \/ \E i \in Ids, c \in Contributors, p \in {"attestation", "document_auth"} :
                 Memory!Issue(i, c, p) \/ Memory!Consume(i, c, p)
           \/ Memory!Lose(Ids)
    PROVE  Memory!LedgerTypeOK'
BY DEF TypeOK, Memory!LedgerTypeOK, Memory!Issue, Memory!Consume, Memory!Lose, Memory!Without

\* Only what a phone signed is handled, and only a session is recorded.
SignedJobs ==
    \A j \in Jobs : jobs[j] # None =>
        /\ signed[jobs[j].id] # None
        /\ jobs[j].stage = "recording" =>
              jobs[j].session \in Sessions /\ jobs[j].challenge \in DocumentChallenges

LEMMA JobType ==
    ASSUME TypeOK, SignedJobs, NEW j \in Jobs, jobs[j] # None
    PROVE  /\ jobs[j] \in Job /\ jobs[j].id \in Challenges /\ jobs[j].id \in Ids
           /\ jobs[j].contributor \in Contributors
           /\ KeyOf(jobs[j].id) \in Keys /\ signed[jobs[j].id].counter \in Nat
           /\ signed[jobs[j].id] # None
           /\ Row(j) \in AttestKey \cup {None}
<1>1. jobs[j] \in Job /\ signed[jobs[j].id] # None
  BY DEF TypeOK, SignedJobs
<1>2. jobs[j].id \in Challenges /\ jobs[j].contributor \in Contributors
  BY <1>1 DEF Job
<1>3. KeyOf(jobs[j].id) \in Keys /\ signed[jobs[j].id].counter \in Nat
  BY <1>1, <1>2 DEF TypeOK, KeyOf
<1> QED BY <1>1, <1>2, <1>3 DEF TypeOK, Row, Ids

LEMMA TypeStep == ASSUME TypeOK, SignedJobs, [Next]_vars PROVE TypeOK'
<1> USE DEF TypeOK, ca, history
<1>1. ASSUME NEW i \in Challenges, NEW c \in Contributors, NEW k \in Keys, Sign(i, c, k)
      PROVE  TypeOK'
  <2>1. NextCounter(k) \in Nat
    <3>1. {n \in SignedWith(k) : signed[n].counter > 0} \in SUBSET Challenges
      BY DEF SignedWith
    <3> QED BY <3>1, FS_Subset, FS_CardinalityType DEF NextCounter
  <2>2. Memory!LedgerTypeOK'
    BY <1>1, LedgerTypes DEF Sign, Ids
  <2> QED BY <1>1, <2>1, <2>2 DEF Sign
<1>2. ASSUME NEW i \in Challenges, NEW c \in Contributors, NEW j \in Jobs, Arrive(j, i, c)
      PROVE  TypeOK'
  <2>1. Memory!LedgerTypeOK'
    BY <1>2, LedgerTypes DEF Arrive, Consume, Ids
  <2> QED BY <1>2, <2>1 DEF Arrive, Job, Stages
<1>3. ASSUME NEW d \in DocumentChallenges, NEW c \in Contributors,
             IssueDocumentChallenge(d, c)
      PROVE  TypeOK'
  <2>1. Memory!LedgerTypeOK'
    BY <1>3, LedgerTypes DEF IssueDocumentChallenge, Ids
  <2> QED BY <1>3, <2>1 DEF IssueDocumentChallenge
<1>4. ASSUME UNCHANGED ledger PROVE Memory!LedgerTypeOK'
  BY <1>4, LedgerTypes
<1>5. ASSUME NEW j \in Jobs, Ends(j) PROVE jobs' \in [Jobs -> Job \cup {None}]
  BY <1>5 DEF Ends
<1>6. ASSUME NEW j \in Jobs, UpsertKey(j) PROVE TypeOK'
  <2>1. KeyOf(jobs[j].id) \in Keys /\ Upserted(j) \in AttestKey
    <3>1. jobs[j] # None
      BY <1>6 DEF UpsertKey, At
    <3> QED BY <3>1, JobType DEF Upserted, AttestKey, EnvironmentOf, Environments
  <2>2. attestKeys' \in [Keys -> AttestKey \cup {None}] /\ current' \subseteq Challenges
    BY <1>6, <2>1 DEF UpsertKey
  <2> QED BY <1>4, <1>5, <1>6, <2>2 DEF UpsertKey
<1>7. ASSUME NEW j \in Jobs, ReadKey(j) PROVE TypeOK'
  <2>1. jobs[j] \in Job /\ Row(j).environment \in Environments
    BY <1>7, JobType DEF ReadKey, At, AttestKey
  <2>2. [jobs[j] EXCEPT !.stage = "comparing", !.environment = Row(j).environment] \in Job
    BY <2>1 DEF Job, Stages
  <2> QED BY <1>4, <1>7, <2>2 DEF ReadKey
<1>8. ASSUME NEW j \in Jobs, RaiseCounter(j) PROVE TypeOK'
  <2>1. /\ jobs[j] \in Job /\ KeyOf(jobs[j].id) \in Keys /\ Row(j) \in AttestKey
        /\ signed[jobs[j].id].counter \in Nat /\ jobs[j].id \in Challenges
    BY <1>8, JobType DEF RaiseCounter, At, StillBehind
  <2>2. [Row(j) EXCEPT !.counter = signed[jobs[j].id].counter] \in AttestKey
    BY <2>1 DEF AttestKey
  <2>3. [jobs[j] EXCEPT !.stage = "admitted"] \in Job
    BY <2>1 DEF Job, Stages
  <2>4. OnceMore(accepted[jobs[j].id]) \in 0..2
    BY <2>1 DEF OnceMore
  <2>5. attestKeys' \in [Keys -> AttestKey \cup {None}]
    BY <1>8, <2>1, <2>2 DEF RaiseCounter
  <2>6. jobs' \in [Jobs -> Job \cup {None}] /\ accepted' \in [Challenges -> 0..2]
        /\ current' \subseteq Challenges
    BY <1>5, <1>8, <2>1, <2>3, <2>4 DEF RaiseCounter, Goes
  <2> QED BY <1>4, <1>8, <2>5, <2>6 DEF RaiseCounter
<1>9. ASSUME NEW j \in Jobs, NEW t \in Sessions, NEW d \in DocumentChallenges,
             StartCA(j, t, d)
      PROVE  TypeOK'
  <2>1. PICK document \in Documents, keyLength \in KeyLengths :
           tokens' = [tokens EXCEPT ![t] = Started(j, d, document, keyLength)]
    <3>1. PICK document \in Documents :
             /\ Supported(DG14Of[document])
             /\ tokens' = [tokens EXCEPT ![t] =
                   Started(j, d, document, ChosenLength(DG14Of[document]))]
      BY <1>9 DEF StartCA
    <3>2. DG14Of[document] \in DG14
      OBVIOUS
    <3>3. ChosenLength(DG14Of[document]) \in KeyLengths
      BY <3>1, <3>2, ChosenType
    <3> QED BY <3>1, <3>3
  <2>2. Started(j, d, document, keyLength) \in Token
    <3>1. jobs[j] # None
      BY <1>9 DEF StartCA, At
    <3> QED BY <3>1, JobType DEF Started, Token
  <2> QED BY <1>4, <1>5, <1>9, <2>1, <2>2 DEF StartCA
<1>10. ASSUME NEW j \in Jobs, NEW t \in Sessions, NEW d \in DocumentChallenges,
              CompleteCA(j, t, d)
       PROVE  TypeOK'
  <2>1. jobs[j] \in Job
    BY <1>10, JobType DEF CompleteCA, At
  <2>2. [jobs[j] EXCEPT !.stage = "recording", !.session = t, !.challenge = d] \in Job
    BY <2>1 DEF Job, Stages
  <2> QED BY <1>4, <1>10, <2>2 DEF CompleteCA
<1>11. ASSUME NEW j \in Jobs, RecordReceipt(j) PROVE TypeOK'
  <2>1. /\ jobs[j].id \in Challenges
        /\ jobs[j].session \in Sessions /\ jobs[j].challenge \in DocumentChallenges
    BY <1>11, JobType DEF RecordReceipt, At, SignedJobs
  <2> QED BY <1>4, <1>5, <1>11, <2>1 DEF RecordReceipt
<1>12. ASSUME NEW j \in Jobs, Refuse(j) PROVE TypeOK'
  BY <1>4, <1>5, <1>12 DEF Refuse
<1>13. ASSUME NEW t \in Sessions, ChipAnswers(t) PROVE TypeOK'
  BY <1>4, <1>13 DEF ChipAnswers
<1>14. ASSUME NEW t \in Sessions, Expire(t) PROVE TypeOK'
  <2>1. tokens[t] \in Token
    BY <1>14 DEF Expire
  <2>2. [tokens[t] EXCEPT !.fresh = FALSE] \in Token
    BY <2>1 DEF Token
  <2> QED BY <1>4, <1>14, <2>2 DEF Expire
<1>15. ASSUME NEW c \in Contributors, DeleteAccount(c) PROVE TypeOK'
  BY <1>4, <1>15 DEF DeleteAccount
<1>16. CASE Restart
  <2>1. Memory!LedgerTypeOK'
    BY <1>16, LedgerTypes DEF Restart
  <2> QED BY <1>16, <2>1 DEF Restart
<1>17. CASE UNCHANGED vars
  BY <1>4, <1>17 DEF vars
<1> QED BY <1>1, <1>2, <1>3, <1>6, <1>7, <1>8, <1>9, <1>10, <1>11, <1>12, <1>13, <1>14,
           <1>15, <1>16, <1>17 DEF Next

-----------------------------------------------------------------------------
(* The invariant *)

Consumed(i) == ledger[i].state = "consumed"

\* What a job about to be recorded has shown of its session.
Proven(job) ==
    LET s == job.session IN
    /\ tokens[s] # None /\ answers[s] = "9000"
    /\ tokens[s].contributor = job.contributor /\ tokens[s].key = KeyOf(job.id)
    /\ tokens[s].challenge = job.challenge
    /\ ledger[job.challenge].state # "unissued"
    /\ ledger[job.challenge].owner = job.contributor

JobOK(job) ==
    /\ Consumed(job.id) /\ ledger[job.id].owner = job.contributor
    /\ job.stage \in {"upserting", "reading", "comparing"} => accepted[job.id] = 0
    /\ job.stage \in {"admitted", "recording"} => accepted[job.id] = 1
    /\ job.stage = "comparing" /\ attEnv = "production" => job.environment = "production"
    /\ job.stage = "recording" => Proven(job)
JobsOK == \A j \in Jobs : jobs[j] # None => JobOK(jobs[j])

\* A signed request is handled by one job at most.
Distinct ==
    \A j, k \in Jobs : jobs[j] # None /\ jobs[k] # None /\ jobs[j].id = jobs[k].id => j = k

AcceptedOK ==
    \A i \in Challenges : accepted[i] <= 1 /\ (accepted[i] > 0 => Consumed(i))

\* The counter of a key is that of the last request let in with it.
CurrentOK ==
    \A i \in current :
        /\ signed[i] # None /\ Consumed(i)
        /\ attestKeys[KeyOf(i)] # None /\ signed[i].counter <= attestKeys[KeyOf(i)].counter

RowsOK ==
    \A k \in Keys : attestKeys[k] # None => attestKeys[k].environment = EnvironmentOf(k)

TokensOK ==
    \A s \in Sessions : tokens[s] # None =>
        LET dg14 == DG14Of[tokens[s].document]
        IN  Supported(dg14) /\ tokens[s].keyLength = ChosenLength(dg14)

ReceiptsOK ==
    \A s \in Sessions : receipts[s] # None =>
        /\ tokens[s] # None /\ answers[s] = "9000"
        /\ accepted[receipts[s].request] = 1 /\ signed[receipts[s].request] # None
        /\ KeyOf(receipts[s].request) = tokens[s].key
        /\ ledger[receipts[s].request].owner = tokens[s].contributor
        /\ receipts[s].challenge = tokens[s].challenge
        /\ ledger[receipts[s].challenge].owner = tokens[s].contributor
        /\ ledger[receipts[s].challenge].state # "unissued"

IInv == /\ TypeOK /\ SignedJobs /\ JobsOK /\ Distinct /\ AcceptedOK /\ CurrentOK /\ RowsOK
        /\ TokensOK /\ ReceiptsOK

LEMMA InitIInv == Init => IInv
<1> SUFFICES ASSUME Init PROVE IInv
  OBVIOUS
<1>1. TypeOK
  BY InitTypes
<1>2. SignedJobs /\ JobsOK /\ Distinct /\ AcceptedOK /\ CurrentOK /\ RowsOK /\ TokensOK
      /\ ReceiptsOK
  BY DEF Init, SignedJobs, JobsOK, Distinct, AcceptedOK, CurrentOK, RowsOK, TokensOK,
         ReceiptsOK
<1> QED BY <1>1, <1>2 DEF IInv

\* What has happened to a challenge, a token, an answer remains.
LEMMA LedgerKeeps ==
    ASSUME TypeOK, [Next]_vars, NEW i \in Ids, ledger[i].state # "unissued"
    PROVE  /\ ledger'[i].state # "unissued" /\ ledger'[i].owner = ledger[i].owner
           /\ Consumed(i) => Consumed(i)'
           /\ i \in Challenges => signed'[i] = signed[i]
<1>1. ledger \in [Ids -> [state : {"unissued", "live", "consumed", "gone"},
                         owner : Contributors \cup {Nobody},
                         purpose : {"attestation", "document_auth", NoPurpose}]]
  BY DEF TypeOK, Memory!LedgerTypeOK
<1> DEFINE Kept == /\ ledger'[i].state # "unissued" /\ ledger'[i].owner = ledger[i].owner
                   /\ ledger[i].state = "consumed" => ledger'[i].state = "consumed"
<1>2. ASSUME NEW n \in Ids, NEW c \in Contributors, NEW p, Memory!Issue(n, c, p)
      PROVE  n # i /\ Kept
  BY <1>1, <1>2 DEF Memory!Issue
<1>3. ASSUME NEW n \in Ids, NEW c \in Contributors, NEW p, Memory!Consume(n, c, p) PROVE Kept
  BY <1>1, <1>3 DEF Memory!Consume
<1>4. ASSUME Memory!Lose(Ids) PROVE Kept
  BY <1>1, <1>4 DEF Memory!Lose, Memory!Without
<1>5. ASSUME ledger' = ledger PROVE Kept
  BY <1>5
<1> HIDE DEF Kept
<1>6. ASSUME NEW n \in Challenges, NEW c \in Contributors, NEW k \in Keys, Sign(n, c, k)
      PROVE  Kept /\ (i \in Challenges => signed'[i] = signed[i])
  <2>1. Kept /\ n # i
    BY <1>2, <1>6 DEF Sign, Ids
  <2> QED BY <1>6, <2>1 DEF Sign, TypeOK
<1>7. \/ Kept /\ signed' = signed
      \/ \E n \in Challenges, c \in Contributors, k \in Keys : Sign(n, c, k)
  BY <1>2, <1>3, <1>4, <1>5
     DEF Next, vars, Ids, Arrive, Consume, IssueDocumentChallenge, UpsertKey, ReadKey,
         RaiseCounter, RecordReceipt, Refuse, StartCA, CompleteCA, ChipAnswers, Expire,
         DeleteAccount, Restart
<1>8. Kept /\ (i \in Challenges => signed'[i] = signed[i])
  BY <1>6, <1>7
<1> QED BY <1>8 DEF Kept, Consumed

LEMMA TokenKeeps ==
    ASSUME TypeOK, SignedJobs, [Next]_vars, NEW s \in Sessions, tokens[s] # None
    PROVE  /\ tokens'[s] # None
           /\ tokens'[s].contributor = tokens[s].contributor /\ tokens'[s].key = tokens[s].key
           /\ tokens'[s].challenge = tokens[s].challenge
           /\ tokens'[s].document = tokens[s].document
           /\ tokens'[s].keyLength = tokens[s].keyLength
           /\ answers[s] = "9000" => answers'[s] = "9000"
<1>1. tokens[s] \in Token /\ tokens \in [Sessions -> Token \cup {None}]
      /\ answers \in [Sessions -> {"none", "9000", "error"}]
  BY DEF TypeOK
<1> DEFINE Same(t) == /\ t # None /\ t.contributor = tokens[s].contributor
                      /\ t.key = tokens[s].key /\ t.challenge = tokens[s].challenge
                      /\ t.document = tokens[s].document /\ t.keyLength = tokens[s].keyLength
<1>2. ASSUME NEW t \in Sessions, Expire(t) PROVE Same(tokens'[s])
  <2>1. CASE t = s
    <3>1. tokens'[s] = [tokens[s] EXCEPT !.fresh = FALSE]
      BY <1>1, <1>2, <2>1 DEF Expire
    <3>2. [tokens[s] EXCEPT !.fresh = FALSE] \in Token
      BY <1>1 DEF Token
    <3> QED BY <1>1, <3>1, <3>2 DEF Token
  <2>2. CASE t # s
    BY <1>1, <1>2, <2>2 DEF Expire
  <2> QED BY <2>1, <2>2
<1>3. ASSUME NEW j \in Jobs, NEW t \in Sessions, NEW d \in DocumentChallenges, StartCA(j, t, d)
      PROVE  tokens'[s] = tokens[s]
  BY <1>1, <1>3 DEF StartCA
<1>4. \/ tokens'[s] = tokens[s] \/ \E t \in Sessions : Expire(t)
  BY <1>3
     DEF Next, vars, ca, Sign, Arrive, Consume, IssueDocumentChallenge, UpsertKey, ReadKey,
         RaiseCounter, RecordReceipt, Refuse, CompleteCA, ChipAnswers, DeleteAccount, Restart
<1>5. answers'[s] = answers[s] \/ answers[s] = "none"
  <2>1. ASSUME NEW t \in Sessions, ChipAnswers(t)
        PROVE  answers'[s] = answers[s] \/ answers[s] = "none"
    BY <1>1, <2>1 DEF ChipAnswers
  <2> QED BY <2>1
     DEF Next, vars, ca, Sign, Arrive, Consume, IssueDocumentChallenge, UpsertKey, ReadKey,
         RaiseCounter, RecordReceipt, Refuse, StartCA, CompleteCA, Expire, DeleteAccount, Restart
<1> QED BY <1>1, <1>2, <1>4, <1>5

\* What a step does to a job that goes on.
LEMMA JobEffect ==
    ASSUME TypeOK, [Next]_vars, NEW j \in Jobs, jobs'[j] # None
    PROVE  \/ jobs'[j] = jobs[j] \/ ReadKey(j) \/ RaiseCounter(j)
           \/ \E i \in Challenges, c \in Contributors : Arrive(j, i, c)
           \/ \E s \in Sessions, d \in DocumentChallenges : CompleteCA(j, s, d)
<1>1. jobs \in [Jobs -> Job \cup {None}]
  BY DEF TypeOK
<1>2. ASSUME NEW n \in Jobs, Ends(n) PROVE jobs'[j] = jobs[j]
  BY <1>1, <1>2 DEF Ends
<1>3. ASSUME NEW n \in Jobs, n # j, ReadKey(n) \/ RaiseCounter(n) PROVE jobs'[j] = jobs[j]
  BY <1>1, <1>2, <1>3 DEF ReadKey, RaiseCounter, Goes
<1>4. ASSUME NEW n \in Jobs, n # j,
             \/ \E i \in Challenges, c \in Contributors : Arrive(n, i, c)
             \/ \E s \in Sessions, d \in DocumentChallenges : CompleteCA(n, s, d)
      PROVE  jobs'[j] = jobs[j]
  BY <1>1, <1>4 DEF Arrive, CompleteCA
<1>5. ASSUME NEW n \in Jobs,
             \/ UpsertKey(n) \/ RecordReceipt(n) \/ Refuse(n)
             \/ \E s \in Sessions, d \in DocumentChallenges : StartCA(n, s, d)
      PROVE  jobs'[j] = jobs[j]
  BY <1>2, <1>5 DEF UpsertKey, RecordReceipt, Refuse, StartCA
<1>6. ~Restart
  BY DEF Restart
<1> QED BY <1>3, <1>4, <1>5, <1>6
        DEF Next, vars, Sign, IssueDocumentChallenge, ChipAnswers, Expire, DeleteAccount

\* The record that each of these steps makes of a job.
LEMMA Arrived ==
    ASSUME TypeOK, NEW j \in Jobs, NEW i \in Challenges, NEW c \in Contributors,
           Arrive(j, i, c)
    PROVE  /\ jobs'[j].stage \in {"upserting", "reading"} /\ jobs'[j].id = i
           /\ jobs'[j].contributor = c /\ signed[i] # None
           /\ signed' = signed /\ accepted' = accepted
           /\ ledger[i].state = "live" /\ ledger[i].owner = c
           /\ ledger'[i].state = "consumed" /\ ledger'[i].owner = c
<1>1. /\ ledger \in [Ids -> [state : {"unissued", "live", "consumed", "gone"},
                            owner : Contributors \cup {Nobody},
                            purpose : {"attestation", "document_auth", NoPurpose}]]
      /\ jobs \in [Jobs -> Job \cup {None}] /\ i \in Ids
  BY DEF TypeOK, Memory!LedgerTypeOK, Ids
<1>2. ledger[i] = [state |-> "live", owner |-> c, purpose |-> "attestation"]
      /\ ledger' = [ledger EXCEPT ![i].state = "consumed"]
  BY DEF Arrive, Consume, Memory!Consume, Memory!IsLive
<1>3. ledger'[i].state = "consumed" /\ ledger'[i].owner = c
  BY <1>1, <1>2
<1>4. PICK stage \in {"upserting", "reading"} :
         jobs' = [jobs EXCEPT ![j] = [stage |-> stage, contributor |-> c, id |-> i,
                     environment |-> None, session |-> None, challenge |-> None]]
  BY DEF Arrive
<1> QED BY <1>1, <1>2, <1>3, <1>4 DEF Arrive, history

LEMMA KeyRead ==
    ASSUME TypeOK, NEW j \in Jobs, ReadKey(j)
    PROVE  /\ jobs[j] # None /\ jobs[j].stage = "reading" /\ jobs'[j].stage = "comparing"
           /\ jobs'[j].id = jobs[j].id /\ jobs'[j].contributor = jobs[j].contributor
           /\ attEnv' = attEnv /\ jobs'[j].environment = Row(j).environment
           /\ attEnv = "production" => Row(j).environment = "production"
           /\ UNCHANGED <<ledger, accepted>>
<1>1. jobs[j] # None /\ jobs[j].stage = "reading"
  BY DEF ReadKey, At
<1>2. jobs[j] \in Job /\ jobs \in [Jobs -> Job \cup {None}]
  BY <1>1 DEF TypeOK
<1>3. jobs' = [jobs EXCEPT ![j] =
          [jobs[j] EXCEPT !.stage = "comparing", !.environment = Row(j).environment]]
  BY DEF ReadKey
<1>4. jobs'[j] = [jobs[j] EXCEPT !.stage = "comparing", !.environment = Row(j).environment]
  BY <1>2, <1>3
<1>5. /\ attEnv' = attEnv
      /\ attEnv = "production" => Row(j).environment = "production"
      /\ UNCHANGED <<ledger, accepted>>
  BY DEF ReadKey, AssertionGood, history
<1> QED BY <1>1, <1>2, <1>4, <1>5 DEF Job

LEMMA Admitted ==
    ASSUME TypeOK, NEW j \in Jobs, RaiseCounter(j), jobs'[j] # None
    PROVE  /\ jobs[j] # None /\ jobs[j].stage = "comparing" /\ jobs'[j].stage = "admitted"
           /\ jobs'[j].id = jobs[j].id /\ jobs'[j].contributor = jobs[j].contributor
           /\ accepted' = [accepted EXCEPT ![jobs[j].id] = OnceMore(accepted[jobs[j].id])]
           /\ current' = current \cup {jobs[j].id}
           /\ UNCHANGED ledger
<1>1. jobs[j] # None /\ jobs[j].stage = "comparing"
  BY DEF RaiseCounter, At
<1>2. jobs[j] \in Job /\ jobs \in [Jobs -> Job \cup {None}]
  BY <1>1 DEF TypeOK
<1>3. ~Ends(j)
  BY <1>2 DEF Ends
<1>4. /\ jobs' = [jobs EXCEPT ![j] = [jobs[j] EXCEPT !.stage = "admitted"]]
      /\ accepted' = [accepted EXCEPT ![jobs[j].id] = OnceMore(accepted[jobs[j].id])]
      /\ current' = current \cup {jobs[j].id} /\ UNCHANGED ledger
  BY <1>3 DEF RaiseCounter, Goes
<1>5. jobs'[j] = [jobs[j] EXCEPT !.stage = "admitted"]
  BY <1>2, <1>4
<1> QED BY <1>1, <1>2, <1>4, <1>5 DEF Job

LEMMA Completed ==
    ASSUME TypeOK, NEW j \in Jobs, NEW s \in Sessions, NEW d \in DocumentChallenges,
           CompleteCA(j, s, d)
    PROVE  /\ jobs[j] # None /\ jobs[j].stage = "admitted" /\ jobs'[j].stage = "recording"
           /\ jobs'[j].id = jobs[j].id /\ jobs'[j].contributor = jobs[j].contributor
           /\ jobs'[j].session = s /\ jobs'[j].challenge = d
           /\ UNCHANGED <<ledger, signed, accepted, tokens, answers, attestKeys, current>>
<1>1. jobs[j] # None /\ jobs[j].stage = "admitted"
  BY DEF CompleteCA, At
<1>2. jobs[j] \in Job /\ jobs \in [Jobs -> Job \cup {None}]
  BY <1>1 DEF TypeOK
<1>3. jobs'[j] = [jobs[j] EXCEPT !.stage = "recording", !.session = s, !.challenge = d]
  BY <1>2 DEF CompleteCA
<1>4. UNCHANGED <<ledger, signed, accepted, tokens, answers, attestKeys, current>>
  BY DEF CompleteCA, ca, history
<1> QED BY <1>1, <1>2, <1>3, <1>4 DEF Job

\* What the invariant says of one job.
LEMMA JobFacts ==
    ASSUME IInv, NEW j \in Jobs, jobs[j] # None
    PROVE  /\ jobs[j].id \in Challenges /\ jobs[j].id \in Ids
           /\ signed[jobs[j].id] # None /\ JobOK(jobs[j])
BY JobType DEF IInv, JobsOK

\* A job is that of the same request as before, or its request just arrived.
LEMMA JobBefore ==
    ASSUME IInv, [Next]_vars, NEW j \in Jobs, jobs'[j] # None
    PROVE  \/ /\ jobs[j] # None
              /\ jobs'[j].id = jobs[j].id /\ jobs'[j].contributor = jobs[j].contributor
           \/ \E i \in Challenges, c \in Contributors : Arrive(j, i, c)
BY JobEffect, KeyRead, Admitted, Completed DEF IInv

\* Only the counter's rise lets a request in.
LEMMA LetInByRaise ==
    ASSUME TypeOK, SignedJobs, [Next]_vars
    PROVE  \/ accepted' = accepted /\ current' \subseteq current
           \/ \E n \in Jobs : RaiseCounter(n) /\ jobs'[n] # None
<1>1. ASSUME NEW n \in Jobs, RaiseCounter(n)
      PROVE  jobs'[n] # None \/ (accepted' = accepted /\ current' = current)
  <2>1. jobs[n] # None /\ jobs[n] \in Job /\ jobs \in [Jobs -> Job \cup {None}]
    BY <1>1 DEF RaiseCounter, At, TypeOK
  <2>2. CASE Goes(n, "admitted")
    <3>1. [jobs[n] EXCEPT !.stage = "admitted"] \in Job
      BY <2>1 DEF Job, Stages
    <3>2. jobs'[n] = [jobs[n] EXCEPT !.stage = "admitted"]
      BY <2>1, <2>2 DEF Goes
    <3> QED BY <3>1, <3>2
  <2>3. CASE ~Goes(n, "admitted")
    BY <1>1, <2>3 DEF RaiseCounter, history
  <2> QED BY <2>2, <2>3
<1> QED BY <1>1
  DEF Next, vars, history, Sign, Arrive, IssueDocumentChallenge, UpsertKey, ReadKey,
      RecordReceipt, Refuse, StartCA, CompleteCA, ChipAnswers, Expire, DeleteAccount, Restart

LEMMA AcceptedKeeps ==
    ASSUME IInv, [Next]_vars, NEW i \in Challenges, accepted[i] = 1
    PROVE  accepted'[i] = 1
<1>1. ASSUME NEW n \in Jobs, RaiseCounter(n), jobs'[n] # None PROVE accepted'[i] = 1
  <2>1. /\ jobs[n] # None /\ jobs[n].stage = "comparing"
        /\ accepted' = [accepted EXCEPT ![jobs[n].id] = OnceMore(accepted[jobs[n].id])]
    BY <1>1, Admitted DEF IInv
  <2>2. accepted[jobs[n].id] = 0
    BY <2>1, JobFacts DEF JobOK
  <2> QED BY <2>1, <2>2 DEF IInv, TypeOK
<1> QED BY <1>1, LetInByRaise DEF IInv

-----------------------------------------------------------------------------
(* Each part of the invariant is kept. *)

LEMMA SignedStep == ASSUME IInv, [Next]_vars PROVE SignedJobs'
<1> SUFFICES ASSUME NEW j \in Jobs, jobs'[j] # None
             PROVE  /\ signed'[jobs'[j].id] # None
                    /\ jobs'[j].stage = "recording" =>
                          jobs'[j].session \in Sessions
                          /\ jobs'[j].challenge \in DocumentChallenges
  BY DEF SignedJobs
<1>1. ASSUME jobs[j] # None, jobs'[j].id = jobs[j].id PROVE signed'[jobs'[j].id] # None
  <2>1. ledger[jobs[j].id].state # "unissued"
    BY <1>1, JobFacts DEF JobOK, Consumed
  <2> QED BY <1>1, <2>1, JobFacts, LedgerKeeps DEF IInv
<1>2. ASSUME NEW i \in Challenges, NEW c \in Contributors, Arrive(j, i, c)
      PROVE  signed'[jobs'[j].id] # None /\ jobs'[j].stage # "recording"
  BY <1>2, Arrived DEF IInv
<1>3. signed'[jobs'[j].id] # None
  BY <1>1, <1>2, JobBefore
<1>4. ASSUME jobs'[j].stage = "recording"
      PROVE  jobs'[j].session \in Sessions /\ jobs'[j].challenge \in DocumentChallenges
  <2>1. CASE jobs'[j] = jobs[j]
    BY <1>4, <2>1 DEF IInv, SignedJobs
  <2>2. ASSUME NEW s \in Sessions, NEW d \in DocumentChallenges, CompleteCA(j, s, d)
        PROVE  jobs'[j].session \in Sessions /\ jobs'[j].challenge \in DocumentChallenges
    BY <2>2, Completed DEF IInv
  <2>3. ~ReadKey(j) /\ ~RaiseCounter(j)
    BY <1>4, KeyRead, Admitted DEF IInv
  <2> QED BY <1>2, <1>4, <2>1, <2>2, <2>3, JobEffect DEF IInv
<1> QED BY <1>3, <1>4

LEMMA DistinctStep == ASSUME IInv, [Next]_vars PROVE Distinct'
<1> SUFFICES ASSUME NEW j \in Jobs, NEW k \in Jobs, jobs'[j] # None, jobs'[k] # None,
                    jobs'[j].id = jobs'[k].id, j # k
             PROVE  FALSE
  BY DEF Distinct
<1>1. ASSUME NEW n \in Jobs, NEW m \in Jobs, n # m, jobs'[m] # None, jobs'[n].id = jobs'[m].id,
             NEW i \in Challenges, NEW c \in Contributors, Arrive(n, i, c)
      PROVE  FALSE
  <2>1. jobs'[m] = jobs[m]
    BY <1>1 DEF Arrive, IInv, TypeOK
  <2>2. jobs'[n].id = i /\ ledger[i].state = "live"
    BY <1>1, Arrived DEF IInv
  <2>3. ledger[jobs[m].id].state = "consumed"
    BY <1>1, <2>1, JobFacts DEF JobOK, Consumed
  <2> QED BY <1>1, <2>1, <2>2, <2>3
<1>2. jobs[j] # None /\ jobs'[j].id = jobs[j].id /\ jobs[k] # None /\ jobs'[k].id = jobs[k].id
  BY <1>1, JobBefore
<1> QED BY <1>2 DEF IInv, Distinct

LEMMA AcceptedStep == ASSUME IInv, [Next]_vars PROVE AcceptedOK'
<1> SUFFICES ASSUME NEW i \in Challenges
             PROVE  accepted'[i] <= 1 /\ (accepted'[i] > 0 => ledger'[i].state = "consumed")
  BY DEF AcceptedOK, Consumed
<1>0. accepted[i] \in 0..2 /\ i \in Ids /\ accepted[i] <= 1
  BY DEF IInv, TypeOK, AcceptedOK, Ids
<1>1. accepted[i] > 0 => ledger'[i].state = "consumed"
  BY <1>0, LedgerKeeps DEF IInv, AcceptedOK, Consumed
<1>2. CASE accepted'[i] = accepted[i]
  BY <1>0, <1>1, <1>2
<1>3. ASSUME NEW n \in Jobs, RaiseCounter(n), jobs'[n] # None, accepted'[i] # accepted[i]
      PROVE  accepted'[i] <= 1 /\ ledger'[i].state = "consumed"
  <2>1. /\ jobs[n] # None /\ jobs[n].stage = "comparing" /\ UNCHANGED ledger
        /\ accepted' = [accepted EXCEPT ![jobs[n].id] = OnceMore(accepted[jobs[n].id])]
    BY <1>3, Admitted DEF IInv
  <2>2. accepted[jobs[n].id] = 0 /\ ledger[jobs[n].id].state = "consumed"
    BY <2>1, JobFacts DEF JobOK, Consumed
  <2>3. jobs[n].id = i /\ accepted'[i] = OnceMore(accepted[i])
    BY <1>3, <2>1 DEF IInv, TypeOK
  <2> QED BY <2>1, <2>2, <2>3 DEF OnceMore
<1> QED BY <1>2, <1>3, LetInByRaise DEF IInv

\* The answer that complete accepts is the chip's, to the session's command.
LEMMA AcceptedAnswer ==
    ASSUME NEW s \in Sessions, NEW answer \in HeldOut, tokens[s] # None,
           Accepts(answer, s, tokens[s].document, tokens[s].keyLength)
    PROVE  answers[s] = "9000"
<1>1. PICK t \in Sessions :
         /\ tokens[t] # None
         /\ \/ answer = Command(t, tokens[t].document, tokens[t].keyLength)
            \/ /\ answers[t] # "none"
               /\ answer = Answer(t, tokens[t].document, tokens[t].keyLength, answers[t])
  BY DEF HeldOut
<1>2. answer.mac.key.session = s /\ answer.mac.ssc = 2 /\ answer.status = "9000"
  BY DEF Accepts, Mac, SessionKey
<1>3. answer # Command(t, tokens[t].document, tokens[t].keyLength)
  BY <1>2 DEF Command, Protected, Mac
<1>4. answer = Answer(t, tokens[t].document, tokens[t].keyLength, answers[t])
  BY <1>1, <1>3
<1>5. answer.mac.key.session = t /\ answer.status = answers[t]
  BY <1>4 DEF Answer, Protected, Mac, SessionKey
<1> QED BY <1>2, <1>5

LEMMA ProvenStep ==
    ASSUME IInv, [Next]_vars, NEW j \in Jobs, jobs[j] # None, Proven(jobs[j]),
           jobs[j].stage = "recording", jobs'[j] = jobs[j]
    PROVE  Proven(jobs[j])'
<1> DEFINE s == jobs[j].session
           d == jobs[j].challenge
<1>1. s \in Sessions /\ d \in Ids
  BY DEF IInv, SignedJobs, Ids
<1>2. /\ tokens[s] # None /\ answers[s] = "9000"
      /\ tokens[s].contributor = jobs[j].contributor /\ tokens[s].key = KeyOf(jobs[j].id)
      /\ tokens[s].challenge = d
      /\ ledger[d].state # "unissued" /\ ledger[d].owner = jobs[j].contributor
  BY DEF Proven
<1>3. signed'[jobs[j].id] = signed[jobs[j].id]
  BY JobFacts, LedgerKeeps DEF IInv, JobOK, Consumed
<1> HIDE DEF s, d
<1>4. /\ tokens'[s] # None /\ answers'[s] = "9000"
      /\ tokens'[s].contributor = tokens[s].contributor /\ tokens'[s].key = tokens[s].key
      /\ tokens'[s].challenge = tokens[s].challenge
  BY <1>1, <1>2, TokenKeeps DEF IInv
<1>5. ledger'[d].state # "unissued" /\ ledger'[d].owner = ledger[d].owner
  BY <1>1, <1>2, LedgerKeeps DEF IInv
<1>6. s = jobs'[j].session /\ d = jobs'[j].challenge
  BY DEF s, d
<1> QED BY <1>2, <1>3, <1>4, <1>5, <1>6 DEF Proven, KeyOf

LEMMA JobsStep == ASSUME IInv, [Next]_vars PROVE JobsOK'
<1> SUFFICES ASSUME NEW j \in Jobs, jobs'[j] # None PROVE JobOK(jobs[j])'
  BY DEF JobsOK
<1> DEFINE i == jobs'[j].id
           Owned == ledger'[i].state = "consumed" /\ ledger'[i].owner = jobs'[j].contributor
<1>1. CASE jobs'[j] = jobs[j]
  <2>1. jobs[j] # None /\ JobOK(jobs[j]) /\ jobs[j].id \in Ids /\ jobs[j].id \in Challenges
    BY <1>1, JobFacts
  <2>2. Owned
    BY <1>1, <2>1, LedgerKeeps DEF IInv, JobOK, Consumed
  <2>3. accepted'[jobs[j].id] = accepted[jobs[j].id]
    <3>1. ASSUME NEW n \in Jobs, RaiseCounter(n), jobs'[n] # None
          PROVE  accepted'[jobs[j].id] = accepted[jobs[j].id]
      <4>1. /\ jobs[n] # None /\ jobs[n].stage = "comparing" /\ jobs'[n].stage = "admitted"
            /\ accepted' = [accepted EXCEPT ![jobs[n].id] = OnceMore(accepted[jobs[n].id])]
        BY <3>1, Admitted DEF IInv
      <4>2. n # j
        BY <1>1, <4>1
      <4>3. jobs[n].id # jobs[j].id
        BY <2>1, <4>1, <4>2 DEF IInv, Distinct
      <4> QED BY <2>1, <4>1, <4>3 DEF IInv, TypeOK
    <3> QED BY <3>1, LetInByRaise DEF IInv
  <2>4. attEnv' = attEnv
    <3>1. ~Restart
      BY DEF Restart
    <3> QED BY <3>1
      DEF Next, vars, Sign, Arrive, IssueDocumentChallenge, UpsertKey, ReadKey, RaiseCounter,
          RecordReceipt, Refuse, StartCA, CompleteCA, ChipAnswers, Expire, DeleteAccount
  <2>5. jobs[j].stage = "recording" => Proven(jobs[j])'
    BY <1>1, <2>1, ProvenStep DEF JobOK
  <2> QED BY <1>1, <2>1, <2>2, <2>3, <2>4, <2>5 DEF JobOK, Consumed
<1>2. ASSUME NEW n \in Challenges, NEW c \in Contributors, Arrive(j, n, c)
      PROVE  JobOK(jobs[j])'
  <2>1. /\ jobs'[j].stage \in {"upserting", "reading"} /\ jobs'[j].id = n
        /\ jobs'[j].contributor = c /\ accepted' = accepted /\ ledger[n].state = "live"
        /\ ledger'[n].state = "consumed" /\ ledger'[n].owner = c
    BY <1>2, Arrived DEF IInv
  <2>2. accepted[n] = 0
    BY <2>1 DEF IInv, TypeOK, AcceptedOK, Consumed
  <2> QED BY <2>1, <2>2 DEF JobOK, Consumed
<1>3. CASE ReadKey(j)
  <2>1. /\ jobs[j] # None /\ jobs[j].stage = "reading" /\ jobs'[j].stage = "comparing"
        /\ jobs'[j].id = jobs[j].id /\ jobs'[j].contributor = jobs[j].contributor
        /\ attEnv' = attEnv /\ jobs'[j].environment = Row(j).environment
        /\ attEnv = "production" => Row(j).environment = "production"
        /\ ledger' = ledger /\ accepted' = accepted
    BY <1>3, KeyRead DEF IInv
  <2>2. JobOK(jobs[j])
    BY <2>1, JobFacts
  <2> QED BY <2>1, <2>2 DEF JobOK, Consumed
<1>4. CASE RaiseCounter(j)
  <2>1. /\ jobs[j] # None /\ jobs[j].stage = "comparing" /\ jobs'[j].stage = "admitted"
        /\ jobs'[j].id = jobs[j].id /\ jobs'[j].contributor = jobs[j].contributor
        /\ accepted' = [accepted EXCEPT ![jobs[j].id] = OnceMore(accepted[jobs[j].id])]
        /\ ledger' = ledger
    BY <1>4, Admitted DEF IInv
  <2>2. JobOK(jobs[j]) /\ jobs[j].id \in Challenges
    BY <2>1, JobFacts
  <2>3. accepted'[jobs'[j].id] = 1
    BY <2>1, <2>2 DEF JobOK, OnceMore, IInv, TypeOK
  <2> QED BY <2>1, <2>2, <2>3 DEF JobOK, Consumed
<1>5. ASSUME NEW s \in Sessions, NEW d \in DocumentChallenges, CompleteCA(j, s, d)
      PROVE  JobOK(jobs[j])'
  <2>1. /\ jobs[j] # None /\ jobs[j].stage = "admitted" /\ jobs'[j].stage = "recording"
        /\ jobs'[j].id = jobs[j].id /\ jobs'[j].contributor = jobs[j].contributor
        /\ jobs'[j].session = s /\ jobs'[j].challenge = d
        /\ ledger' = ledger /\ signed' = signed /\ accepted' = accepted /\ tokens' = tokens
        /\ answers' = answers
    BY <1>5, Completed DEF IInv
  <2>2. JobOK(jobs[j])
    BY <2>1, JobFacts
  <2>3. /\ tokens[s] # None /\ tokens[s].contributor = jobs[j].contributor
        /\ tokens[s].key = KeyOf(jobs[j].id) /\ tokens[s].challenge = d
    BY <1>5 DEF CompleteCA, Completes, Sealed, Bound
  <2>4. answers[s] = "9000"
    BY <1>5, <2>3, AcceptedAnswer DEF CompleteCA, Completes
  <2>5. ledger[d].state = "live" /\ ledger[d].owner = jobs[j].contributor
    BY <1>5 DEF CompleteCA, Memory!IsLive
  <2>6. Proven(jobs[j])'
    BY <2>1, <2>3, <2>4, <2>5 DEF Proven, KeyOf
  <2> QED BY <2>1, <2>2, <2>6 DEF JobOK, Consumed
<1> QED BY <1>1, <1>2, <1>3, <1>4, <1>5, JobEffect DEF IInv

\* The row of a key after its registration, and after its counter rose.
LEMMA Registered ==
    ASSUME IInv, NEW j \in Jobs, UpsertKey(j)
    PROVE  /\ jobs[j] # None /\ KeyOf(jobs[j].id) \in Keys /\ Upserted(j) \in AttestKey
           /\ Upserted(j).environment = EnvironmentOf(KeyOf(jobs[j].id))
           /\ Row(j) # None => Upserted(j).contributor = Row(j).contributor
           /\ attestKeys' = [attestKeys EXCEPT ![KeyOf(jobs[j].id)] = Upserted(j)]
           /\ current' = current \ SignedWith(KeyOf(jobs[j].id))
<1>1. jobs[j] # None
  BY DEF UpsertKey, At
<1> QED BY <1>1, JobType
        DEF UpsertKey, Upserted, AttestKey, EnvironmentOf, Environments, IInv

LEMMA Raised ==
    ASSUME IInv, NEW j \in Jobs, RaiseCounter(j)
    PROVE  LET k == KeyOf(jobs[j].id) IN
           /\ jobs[j] # None /\ jobs[j].stage = "comparing" /\ k \in Keys
           /\ signed[jobs[j].id] # None /\ signed[jobs[j].id].counter \in Nat
           /\ attestKeys[k] # None /\ attestKeys[k].contributor = jobs[j].contributor
           /\ attestKeys[k].environment = jobs[j].environment
           /\ attestKeys[k].counter \in Nat
           /\ attestKeys[k].counter < signed[jobs[j].id].counter
           /\ attestKeys'[k] # None
           /\ attestKeys'[k].contributor = attestKeys[k].contributor
           /\ attestKeys'[k].environment = attestKeys[k].environment
           /\ attestKeys'[k].counter = signed[jobs[j].id].counter
           /\ \A other \in Keys \ {k} : attestKeys'[other] = attestKeys[other]
           /\ current' \subseteq current \cup {jobs[j].id}
<1> DEFINE k == KeyOf(jobs[j].id)
           n == signed[jobs[j].id].counter
<1>1. /\ jobs[j] # None /\ jobs[j].stage = "comparing" /\ k \in Keys /\ n \in Nat
      /\ signed[jobs[j].id] # None /\ Row(j) = attestKeys[k]
  BY JobType DEF RaiseCounter, At, IInv, Row
<1>2. /\ Row(j) # None /\ Row(j).contributor = jobs[j].contributor
      /\ Row(j).environment = jobs[j].environment /\ Row(j).counter < n
  BY DEF RaiseCounter, StillBehind
<1>3. Row(j) \in AttestKey /\ attestKeys \in [Keys -> AttestKey \cup {None}]
  BY <1>1, <1>2 DEF IInv, TypeOK
<1>4. attestKeys' = [attestKeys EXCEPT ![k] = [Row(j) EXCEPT !.counter = n]]
  BY DEF RaiseCounter
<1>5. current' \subseteq current \cup {jobs[j].id}
  BY DEF RaiseCounter, history
<1> HIDE DEF k, n
<1>6. /\ attestKeys'[k] = [Row(j) EXCEPT !.counter = n]
      /\ \A other \in Keys \ {k} : attestKeys'[other] = attestKeys[other]
  BY <1>1, <1>3, <1>4
<1>7. /\ [Row(j) EXCEPT !.counter = n] \in AttestKey
      /\ [Row(j) EXCEPT !.counter = n].contributor = Row(j).contributor
      /\ [Row(j) EXCEPT !.counter = n].environment = Row(j).environment
      /\ [Row(j) EXCEPT !.counter = n].counter = n /\ Row(j).counter \in Nat
  BY <1>1, <1>3 DEF AttestKey
<1>8. attestKeys'[k] # None
  BY <1>6, <1>7
<1> QED BY <1>1, <1>2, <1>5, <1>6, <1>7, <1>8 DEF k, n

LEMMA Deleted ==
    ASSUME IInv, NEW c \in Contributors, DeleteAccount(c), NEW k \in Keys
    PROVE  /\ attestKeys[k] = None => attestKeys'[k] = None
           /\ attestKeys[k] # None /\ attestKeys[k].contributor = c =>
                 attestKeys'[k] = None /\ current' \cap SignedWith(k) = {}
           /\ attestKeys[k] # None /\ attestKeys[k].contributor # c =>
                 attestKeys'[k] = attestKeys[k]
           /\ current' \subseteq current /\ c \notin registered'
BY DEF DeleteAccount, SignedWith

\* All other steps leave the table alone.
LEMMA RowsAlone ==
    ASSUME IInv, [Next]_vars
    PROVE  \/ attestKeys' = attestKeys /\ current' = current
           \/ \E j \in Jobs : UpsertKey(j) \/ RaiseCounter(j)
           \/ \E c \in Contributors : DeleteAccount(c)
BY DEF Next, vars, history, Sign, Arrive, IssueDocumentChallenge, ReadKey, RecordReceipt,
       Refuse, StartCA, CompleteCA, ChipAnswers, Expire, Restart

LEMMA RowsStep == ASSUME IInv, [Next]_vars PROVE RowsOK'
<1> SUFFICES ASSUME NEW k \in Keys, attestKeys'[k] # None
             PROVE  attestKeys'[k].environment = EnvironmentOf(k)
  BY DEF RowsOK, EnvironmentOf
<1>1. attestKeys[k] # None => attestKeys[k].environment = EnvironmentOf(k)
  BY DEF IInv, RowsOK
<1>2. ASSUME NEW j \in Jobs, UpsertKey(j) PROVE attestKeys'[k].environment = EnvironmentOf(k)
  BY <1>1, <1>2, Registered DEF IInv, TypeOK
<1>3. ASSUME NEW j \in Jobs, RaiseCounter(j)
      PROVE  attestKeys'[k].environment = EnvironmentOf(k)
  BY <1>1, <1>3, Raised
<1>4. ASSUME NEW c \in Contributors, DeleteAccount(c)
      PROVE  attestKeys'[k].environment = EnvironmentOf(k)
  BY <1>1, <1>4, Deleted
<1> QED BY <1>1, <1>2, <1>3, <1>4, RowsAlone

LEMMA CurrentStep == ASSUME IInv, [Next]_vars PROVE CurrentOK'
<1> SUFFICES ASSUME NEW i \in current'
             PROVE  /\ signed'[i] # None /\ ledger'[i].state = "consumed"
                    /\ attestKeys'[signed'[i].key] # None
                    /\ signed'[i].counter <= attestKeys'[signed'[i].key].counter
  BY DEF CurrentOK, Consumed, KeyOf
<1>0. i \in Challenges /\ i \in Ids
  BY TypeStep DEF IInv, TypeOK, Ids
<1>1. i \in current \/ \E j \in Jobs : RaiseCounter(j) /\ i = jobs[j].id
  BY LetInByRaise, Raised DEF IInv
<1>2. signed[i] # None /\ Consumed(i)
  <2>1. ASSUME NEW j \in Jobs, RaiseCounter(j), i = jobs[j].id
        PROVE  signed[i] # None /\ Consumed(i)
    BY <2>1, Raised, JobFacts DEF JobOK
  <2> QED BY <1>1, <2>1 DEF IInv, CurrentOK
<1>3. signed'[i] = signed[i] /\ ledger'[i].state = "consumed"
  BY <1>0, <1>2, LedgerKeeps DEF IInv, Consumed
<1>4. signed[i].key \in Keys /\ signed[i].counter \in Nat /\ KeyOf(i) = signed[i].key
  BY <1>0, <1>2 DEF IInv, TypeOK, KeyOf
<1> DEFINE Covered == /\ attestKeys'[KeyOf(i)] # None
                      /\ signed[i].counter <= attestKeys'[KeyOf(i)].counter
<1>5. ASSUME i \in current
      PROVE  attestKeys[KeyOf(i)] # None /\ signed[i].counter <= attestKeys[KeyOf(i)].counter
  BY <1>5 DEF IInv, CurrentOK
<1>6. ASSUME NEW j \in Jobs, UpsertKey(j) PROVE Covered
  <2>1. i \in current /\ i \notin SignedWith(KeyOf(jobs[j].id))
    BY <1>6, Registered
  <2>2. KeyOf(i) # KeyOf(jobs[j].id)
    BY <1>0, <1>2, <2>1 DEF SignedWith
  <2>3. attestKeys'[KeyOf(i)] = attestKeys[KeyOf(i)]
    BY <1>4, <1>6, <2>2, Registered DEF IInv, TypeOK
  <2> QED BY <1>5, <2>1, <2>3
<1>7. ASSUME NEW j \in Jobs, RaiseCounter(j) PROVE Covered
  <2>1. CASE i = jobs[j].id
    BY <1>4, <1>7, <2>1, Raised
  <2>2. CASE i # jobs[j].id /\ KeyOf(i) = KeyOf(jobs[j].id)
    <3>1. /\ attestKeys[KeyOf(i)].counter \in Nat /\ attestKeys'[KeyOf(i)] # None
          /\ attestKeys'[KeyOf(i)].counter \in Nat
          /\ attestKeys[KeyOf(i)].counter < attestKeys'[KeyOf(i)].counter
          /\ i \in current
      BY <1>7, <2>2, Raised
    <3> QED BY <1>4, <1>5, <3>1
  <2>3. CASE KeyOf(i) # KeyOf(jobs[j].id)
    <3>1. attestKeys'[KeyOf(i)] = attestKeys[KeyOf(i)] /\ i \in current
      BY <1>4, <1>7, <2>3, Raised
    <3> QED BY <1>5, <3>1
  <2> QED BY <2>1, <2>2, <2>3
<1>8. ASSUME NEW c \in Contributors, DeleteAccount(c) PROVE Covered
  <2>1. i \in current /\ i \in SignedWith(KeyOf(i))
    BY <1>0, <1>2, <1>4, <1>8, Deleted DEF SignedWith
  <2> QED BY <1>4, <1>5, <1>8, <2>1, Deleted
<1>9. ASSUME attestKeys' = attestKeys, current' = current PROVE Covered
  BY <1>5, <1>9
<1>10. Covered
  BY <1>6, <1>7, <1>8, <1>9, RowsAlone
<1>11. signed'[i].key = KeyOf(i) /\ signed'[i].counter = signed[i].counter /\ signed'[i] # None
  BY <1>2, <1>3, <1>4
<1> QED BY <1>3, <1>10, <1>11

LEMMA TokensStep == ASSUME IInv, [Next]_vars PROVE TokensOK'
<1> DEFINE Chosen(token) ==
        /\ Supported(DG14Of[token.document])
        /\ token.keyLength = ChosenLength(DG14Of[token.document])
<1> SUFFICES ASSUME NEW s \in Sessions, tokens'[s] # None
             PROVE  Chosen(tokens'[s])
  BY DEF TokensOK
<1>1. CASE tokens[s] # None
  BY <1>1, TokenKeeps DEF IInv, TokensOK
<1>2. CASE tokens[s] = None
  <2>1. ASSUME NEW j \in Jobs, NEW t \in Sessions, NEW d \in DocumentChallenges,
               StartCA(j, t, d)
        PROVE  Chosen(tokens'[s])
    <3>1. PICK document \in Documents :
             /\ Supported(DG14Of[document])
             /\ tokens' = [tokens EXCEPT ![t] =
                   Started(j, d, document, ChosenLength(DG14Of[document]))]
      BY <2>1 DEF StartCA
    <3>2. tokens'[s] = Started(j, d, document, ChosenLength(DG14Of[document]))
      BY <1>2, <3>1 DEF IInv, TypeOK
    <3> QED BY <3>1, <3>2 DEF Started
  <2>2. ASSUME NEW t \in Sessions, Expire(t) PROVE FALSE
    BY <1>2, <2>2 DEF Expire, IInv, TypeOK
  <2>3. tokens' # tokens
    BY <1>2
  <2> QED BY <2>1, <2>2, <2>3
    DEF Next, vars, ca, Sign, Arrive, IssueDocumentChallenge, UpsertKey, ReadKey,
        RaiseCounter, RecordReceipt, Refuse, CompleteCA, ChipAnswers, DeleteAccount, Restart
<1> QED BY <1>1, <1>2

LEMMA ReceiptsStep == ASSUME IInv, [Next]_vars PROVE ReceiptsOK'
<1> SUFFICES ASSUME NEW s \in Sessions, receipts'[s] # None
             PROVE  /\ tokens'[s] # None /\ answers'[s] = "9000"
                    /\ accepted'[receipts'[s].request] = 1
                    /\ signed'[receipts'[s].request] # None
                    /\ signed'[receipts'[s].request].key = tokens'[s].key
                    /\ ledger'[receipts'[s].request].owner = tokens'[s].contributor
                    /\ receipts'[s].challenge = tokens'[s].challenge
                    /\ ledger'[receipts'[s].challenge].owner = tokens'[s].contributor
                    /\ ledger'[receipts'[s].challenge].state # "unissued"
  BY DEF ReceiptsOK, KeyOf
<1>1. CASE receipts'[s] = receipts[s]
  <2> DEFINE i == receipts[s].request
             d == receipts[s].challenge
  <2>1. /\ i \in Challenges /\ i \in Ids /\ d \in Ids
        /\ tokens[s] # None /\ answers[s] = "9000" /\ accepted[i] = 1 /\ signed[i] # None
        /\ signed[i].key = tokens[s].key /\ ledger[i].owner = tokens[s].contributor
        /\ d = tokens[s].challenge /\ ledger[d].owner = tokens[s].contributor
        /\ ledger[d].state # "unissued"
    BY <1>1 DEF IInv, ReceiptsOK, TypeOK, Ids, KeyOf
  <2> HIDE DEF i, d
  <2>2. ledger[i].state = "consumed"
    BY <2>1 DEF IInv, AcceptedOK, Consumed
  <2>3. /\ ledger'[i].owner = ledger[i].owner /\ signed'[i] = signed[i]
        /\ ledger'[d].owner = ledger[d].owner /\ ledger'[d].state # "unissued"
    BY <2>1, <2>2, LedgerKeeps DEF IInv
  <2>4. accepted'[i] = 1
    BY <2>1, AcceptedKeeps
  <2>5. /\ tokens'[s] # None /\ answers'[s] = "9000" /\ tokens'[s].key = tokens[s].key
        /\ tokens'[s].contributor = tokens[s].contributor
        /\ tokens'[s].challenge = tokens[s].challenge
    BY <2>1, TokenKeeps DEF IInv
  <2>6. receipts'[s].request = i /\ receipts'[s].challenge = d
    BY <1>1 DEF i, d
  <2> QED BY <2>1, <2>3, <2>4, <2>5, <2>6
<1>2. CASE receipts'[s] # receipts[s]
  <2>1. ASSUME NEW c \in Contributors, DeleteAccount(c) PROVE FALSE
    BY <1>2, <2>1 DEF DeleteAccount
  <2>2. PICK j \in Jobs : RecordReceipt(j)
    BY <1>2, <2>1
      DEF Next, vars, ca, Sign, Arrive, IssueDocumentChallenge, UpsertKey, ReadKey,
          RaiseCounter, Refuse, StartCA, CompleteCA, ChipAnswers, Expire, Restart
  <2>3. jobs[j] # None /\ jobs[j].stage = "recording"
    BY <2>2 DEF RecordReceipt, At
  <2>4. /\ jobs[j].session = s
        /\ receipts'[s] = [request |-> jobs[j].id, challenge |-> jobs[j].challenge]
    BY <1>2, <2>2 DEF RecordReceipt, IInv, TypeOK
  <2>5. JobOK(jobs[j]) /\ signed[jobs[j].id] # None
    BY <2>3, JobFacts
  <2>6. UNCHANGED <<ledger, signed, tokens, answers, accepted>>
    BY <2>2 DEF RecordReceipt, history
  <2> QED BY <2>3, <2>4, <2>5, <2>6 DEF JobOK, Proven, KeyOf
<1> QED BY <1>1, <1>2

LEMMA Inductive == Spec => []IInv
<1>1. ASSUME IInv, [Next]_vars PROVE IInv'
  <2>1. TypeOK'
    BY <1>1, TypeStep DEF IInv
  <2> QED BY <1>1, <2>1, SignedStep, JobsStep, DistinctStep, AcceptedStep, CurrentStep,
             RowsStep, TokensStep, ReceiptsStep DEF IInv
<1> QED BY <1>1, InitIInv, PTL DEF Spec

-----------------------------------------------------------------------------
(* The theorems *)

\* Every variable keeps its type.
THEOREM ChipTypeCorrect == Spec => []TypeOK
<1>1. IInv => TypeOK
  BY DEF IInv
<1> QED BY <1>1, Inductive, PTL

\* A request signed once is let in at most once, whatever arrives again and
\* whatever is registered again: consumeChallenge gives each id away once.
THEOREM RequestsLetInOnce == Spec => []NoRequestTwice
<1>1. IInv => NoRequestTwice
  BY DEF IInv, AcceptedOK, NoRequestTwice
<1> QED BY <1>1, Inductive, PTL

\* A receipt in document_ca_receipts rests on the chip's own answer and on a
\* request of the same account, key and document challenge.
THEOREM ReceiptsProve == Spec => []ReceiptsAreProofs
<1>1. IInv => ReceiptsAreProofs
  BY DEF IInv, ReceiptsOK, ReceiptsAreProofs
<1> QED BY <1>1, Inductive, PTL

\* However a client orders and pads the DG14 it sends, parseDG14 sorts and start
\* takes an algorithm no weaker than the strongest it has a key for.
THEOREM AlwaysStrongest == Spec => []StrongestUsed
<1>1. ASSUME IInv PROVE StrongestUsed
  <2> SUFFICES ASSUME NEW s \in Sessions, tokens[s] # None,
                      NEW i \in DOMAIN DG14Of[tokens[s].document],
                      NEW j \in DOMAIN DG14Of[tokens[s].document],
                      DG14Of[tokens[s].document][i].kind = "key",
                      DG14Of[tokens[s].document][j].kind = "protocol",
                      Number(DG14Of[tokens[s].document][i].keyId)
                          = Number(DG14Of[tokens[s].document][j].keyId)
               PROVE  DG14Of[tokens[s].document][j].keyLength <= tokens[s].keyLength
    BY DEF StrongestUsed
  <2> DEFINE dg14 == DG14Of[tokens[s].document]
  <2>1. tokens[s].document \in Documents
    BY <1>1 DEF IInv, TypeOK, Token
  <2>2. dg14 \in DG14
    BY <2>1
  <2>3. Supported(dg14) /\ tokens[s].keyLength = ChosenLength(dg14)
    BY <1>1 DEF IInv, TokensOK
  <2> QED BY <2>2, <2>3, ChosenStrongest
<1> QED BY <1>1, Inductive, PTL

\* Requests of a key are let in in the order of its counter, which the
\* compare-and-swap of attest_keys only raises.
THEOREM LetInInOrder == Spec => InOrder
<1>1. ASSUME IInv, [Next]_vars
      PROVE  [\A i \in current' \ current : \A earlier \in current :
                KeyOf(earlier) = KeyOf(i) => signed[earlier].counter < signed[i].counter]_vars
  <2> SUFFICES ASSUME NEW i \in current' \ current, NEW earlier \in current,
                      KeyOf(earlier) = KeyOf(i)
               PROVE  signed[earlier].counter < signed[i].counter
    OBVIOUS
  <2>1. PICK j \in Jobs : RaiseCounter(j) /\ i = jobs[j].id
    BY <1>1, LetInByRaise, Raised DEF IInv
  <2>2. /\ attestKeys[KeyOf(i)].counter < signed[i].counter
        /\ attestKeys[KeyOf(i)].counter \in Nat /\ signed[i].counter \in Nat
    BY <1>1, <2>1, Raised
  <2>3. signed[earlier] # None /\ signed[earlier].counter <= attestKeys[KeyOf(i)].counter
    BY <1>1 DEF IInv, CurrentOK
  <2>4. signed[earlier].counter \in Nat
    BY <1>1, <2>3 DEF IInv, TypeOK
  <2> QED BY <2>2, <2>3, <2>4
<1> QED BY <1>1, Inductive, PTL DEF Spec, InOrder

\* A key stays with the account that registered it first, and serves no other.
THEOREM KeysKeepAccounts == Spec => KeyKeepsAccount
<1>1. ASSUME IInv, [Next]_vars
      PROVE  [\A k \in Keys :
         attestKeys[k] # None /\ attestKeys[k].contributor \in registered' =>
            /\ attestKeys'[k] # None
            /\ attestKeys'[k].contributor = attestKeys[k].contributor
            /\ \A i \in current' \ current : KeyOf(i) = k =>
                  ledger[i].owner = attestKeys[k].contributor]_vars
  <2> SUFFICES ASSUME NEW k \in Keys, attestKeys[k] # None,
                      attestKeys[k].contributor \in registered'
               PROVE  /\ attestKeys'[k] # None
                      /\ attestKeys'[k].contributor = attestKeys[k].contributor
                      /\ \A i \in current' \ current : KeyOf(i) = k =>
                            ledger[i].owner = attestKeys[k].contributor
    OBVIOUS
  <2> DEFINE Kept == attestKeys'[k] # None
                     /\ attestKeys'[k].contributor = attestKeys[k].contributor
  <2>1. ASSUME NEW j \in Jobs, UpsertKey(j) PROVE Kept
    <3>1. CASE KeyOf(jobs[j].id) = k
      <4>1. attestKeys'[k] = Upserted(j) /\ Row(j) = attestKeys[k]
        BY <1>1, <2>1, <3>1, Registered DEF IInv, TypeOK, Row
      <4> QED BY <1>1, <2>1, <4>1, Registered
    <3>2. CASE KeyOf(jobs[j].id) # k
      BY <1>1, <2>1, <3>2, Registered DEF IInv, TypeOK
    <3> QED BY <3>1, <3>2
  <2>2. ASSUME NEW j \in Jobs, RaiseCounter(j) PROVE Kept
    BY <1>1, <2>2, Raised
  <2>3. ASSUME NEW c \in Contributors, DeleteAccount(c) PROVE Kept
    BY <1>1, <2>3, Deleted
  <2>4. Kept
    BY <1>1, <2>1, <2>2, <2>3, RowsAlone
  <2>5. ASSUME NEW i \in current' \ current, KeyOf(i) = k
        PROVE  ledger[i].owner = attestKeys[k].contributor
    <3>1. PICK j \in Jobs : RaiseCounter(j) /\ i = jobs[j].id
      BY <1>1, <2>5, LetInByRaise, Raised DEF IInv
    <3>2. jobs[j] # None /\ attestKeys[k].contributor = jobs[j].contributor
      BY <1>1, <2>5, <3>1, Raised
    <3> QED BY <1>1, <3>1, <3>2, JobFacts DEF JobOK
  <2> QED BY <2>4, <2>5
<1> QED BY <1>1, Inductive, PTL DEF Spec, KeyKeepsAccount

\* A production process lets in no request of a key attested as development.
THEOREM ProductionOnly == Spec => NoDevelopmentAccess
<1>1. ASSUME IInv, [Next]_vars
      PROVE  [\A i \in Challenges :
                accepted'[i] > accepted[i] /\ attEnv = "production" =>
                   KeyOf(i) \notin DevelopmentKeys]_vars
  <2> SUFFICES ASSUME NEW i \in Challenges, accepted'[i] > accepted[i],
                      attEnv = "production"
               PROVE  KeyOf(i) \notin DevelopmentKeys
    OBVIOUS
  <2>1. accepted' # accepted
    <3>1. accepted[i] \in 0..2
      BY <1>1 DEF IInv, TypeOK
    <3> QED BY <3>1
  <2>2. PICK j \in Jobs : RaiseCounter(j) /\ jobs'[j] # None
    BY <1>1, <2>1, LetInByRaise DEF IInv
  <2>3. /\ jobs[j] # None /\ jobs[j].stage = "comparing"
        /\ accepted' = [accepted EXCEPT ![jobs[j].id] = OnceMore(accepted[jobs[j].id])]
    BY <1>1, <2>2, Admitted DEF IInv
  <2>4. i = jobs[j].id
    <3>1. accepted \in [Challenges -> 0..2]
      BY <1>1 DEF IInv, TypeOK
    <3>2. i # jobs[j].id => accepted'[i] = accepted[i]
      BY <2>3, <3>1
    <3> QED BY <3>1, <3>2
  <2>5. jobs[j].environment = "production"
    BY <1>1, <2>3, JobFacts DEF JobOK
  <2>6. /\ KeyOf(i) \in Keys /\ attestKeys[KeyOf(i)] # None
        /\ attestKeys[KeyOf(i)].environment = "production"
    BY <1>1, <2>2, <2>4, <2>5, Raised
  <2>7. EnvironmentOf(KeyOf(i)) = "production"
    BY <1>1, <2>6 DEF IInv, RowsOK
  <2> QED BY <2>7 DEF EnvironmentOf
<1> QED BY <1>1, Inductive, PTL DEF Spec, NoDevelopmentAccess
=============================================================================
