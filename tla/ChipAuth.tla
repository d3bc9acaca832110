------------------------------- MODULE ChipAuth -------------------------------
(***************************************************************************)
(* The App Attest keys of phones and the requests they sign, and chip      *)
(* authentication run by the server: POST /auth/verify/attest-key,         *)
(* verifyDeviceAttestation, /ca/start and /ca/complete.  Handlers are      *)
(* interleaved at their awaits; challenges and handlers die with the       *)
(* process, keys and receipts do not.                                      *)
(*                                                                         *)
(* What a phone signs is the challenge and the whole body, so a signed     *)
(* request is known by its challenge; what its body asks for is chosen     *)
(* when the handler looks at it.  Lanes and the attempt limiter are those  *)
(* of ApproveFlow and merely refuse here.                                  *)
(*                                                                         *)
(* An operator named X_Y is X with a plausible fault Y, used by no         *)
(* specification.                                                          *)
(***************************************************************************)
EXTENDS DocumentCA

CONSTANTS
    Contributors, Nobody,
    Keys, DevelopmentKeys,   \* App Attest keys; those attested as development
    Challenges,              \* ids of attestation challenges
    DocumentChallenges,      \* ids of document challenges
    Documents,               \* DG14 files and the chips that hold their keys
    DG14Of,                  \* what each of these files says
    Sessions,                \* CA sessions
    Jobs,                    \* requests handled at a time
    NoPurpose, None

ASSUME KeysAssumption ==
    /\ DevelopmentKeys \subseteq Keys
    /\ Challenges \cap DocumentChallenges = {}
    /\ Nobody \notin Contributors
    /\ DG14Of \in [Documents -> DG14]
    /\ IsFiniteSet(Challenges)

VARIABLES
    registered,    \* accounts there are
    ledger,        \* challenges in memory, and what became of each
    signed,        \* what was signed over each attestation challenge
    attestKeys,    \* table attest_keys
    attEnv,        \* APPATTEST_ENV of the process
    jobs,
    tokens,        \* sealed tokens the clients hold
    answers,       \* what the chip answered to the command of a session
    receipts,      \* table document_ca_receipts; a row repeats the token
                   \* of its session, and remembers (history) what recorded it
    accepted,      \* history: how often each signed request was let in
    current        \* history: those let in since their key was registered

vars == <<registered, ledger, signed, attestKeys, attEnv, jobs, tokens, answers,
          receipts, accepted, current>>
ca == <<tokens, answers, receipts>>
history == <<accepted, current>>

Ids == Challenges \cup DocumentChallenges
Memory == INSTANCE ChallengeLedger WITH Purposes <- {"attestation", "document_auth"}

Environments == {"production", "development"}
EnvironmentOf(k) == IF k \in DevelopmentKeys THEN "development" ELSE "production"

Stages == {"upserting", "reading", "comparing", "admitted", "recording"}
AttestKey == [contributor : Contributors, counter : Nat, environment : Environments]
Job == [stage : Stages, contributor : Contributors, id : Challenges,
        environment : Environments \cup {None}, session : Sessions \cup {None},
        challenge : DocumentChallenges \cup {None}]
Token == [contributor : Contributors, key : Keys, challenge : DocumentChallenges,
          document : Documents, keyLength : KeyLengths, fresh : BOOLEAN]

ASSUME NoneAssumption == None \notin AttestKey \cup Job \cup Token

TypeOK ==
    /\ registered \subseteq Contributors
    /\ Memory!LedgerTypeOK
    /\ signed \in [Challenges -> [key : Keys, counter : Nat] \cup {None}]
    /\ attestKeys \in [Keys -> AttestKey \cup {None}]
    /\ attEnv \in Environments
    /\ jobs \in [Jobs -> Job \cup {None}]
    /\ tokens \in [Sessions -> Token \cup {None}]
    /\ answers \in [Sessions -> {"none", "9000", "error"}]
    /\ receipts \in [Sessions -> [request : Challenges, challenge : DocumentChallenges]
                                \cup {None}]
    /\ accepted \in [Challenges -> 0..2]
    /\ current \subseteq Challenges

Init ==
    /\ registered = Contributors
    /\ Memory!Init
    /\ signed = [i \in Challenges |-> None]
    /\ attestKeys = [k \in Keys |-> None]
    /\ attEnv \in Environments
    /\ jobs = [j \in Jobs |-> None]
    /\ tokens = [s \in Sessions |-> None]
    /\ answers = [s \in Sessions |-> "none"]
    /\ receipts = [s \in Sessions |-> None]
    /\ accepted = [i \in Challenges |-> 0]
    /\ current = {}

At(j, stage) == jobs[j] # None /\ jobs[j].stage = stage
KeyOf(i) == signed[i].key
Ends(j) == jobs' = [jobs EXCEPT ![j] = None]
Goes(j, stage) == jobs' = [jobs EXCEPT ![j] = [jobs[j] EXCEPT !.stage = stage]]

-----------------------------------------------------------------------------
(* The phone *)

\* It asks for a challenge and signs with it: the key's attestation, counter
\* 0, or a request, with the next number of the key.
SignedWith(k) == {i \in Challenges : signed[i] # None /\ KeyOf(i) = k}
NextCounter(k) ==
    1 + Cardinality({i \in SignedWith(k) : signed[i].counter > 0})

Sign(i, c, k) ==
    /\ c \in registered
    /\ Memory!Issue(i, c, "attestation")
    /\ \E counter \in {0, NextCounter(k)} :
          signed' = [signed EXCEPT ![i] = [key |-> k, counter |-> counter]]
    /\ UNCHANGED <<registered, attestKeys, attEnv, jobs, ca, history>>

IssueDocumentChallenge(d, c) ==
    /\ c \in registered
    /\ Memory!Issue(d, c, "document_auth")
    /\ UNCHANGED <<registered, signed, attestKeys, attEnv, jobs, ca, history>>

\* The chip whose key is in the session's DG14 gets the command, in time.
ChipAnswers(s) ==
    /\ tokens[s] # None /\ answers[s] = "none"
    /\ \E status \in {"9000", "error"} : answers' = [answers EXCEPT ![s] = status]
    /\ UNCHANGED <<registered, ledger, signed, attestKeys, attEnv, jobs, tokens,
                   receipts, history>>

-----------------------------------------------------------------------------
(* A signed request arrives, for the first time or again. *)

Consume_Keeps(i, c) == Memory!IsLive(i, c, "attestation") /\ UNCHANGED ledger
Consume(i, c) == Memory!Consume(i, c, "attestation")

\* verifyAttestation: Apple's chain, the challenge, key and app are checked.
AttestationGood(i) ==
    /\ signed[i].counter = 0
    /\ attEnv = "production" => EnvironmentOf(KeyOf(i)) = "production"

Arrive(j, i, c) ==
    /\ jobs[j] = None /\ c \in registered /\ signed[i] # None
    /\ Consume(i, c)
    /\ \E stage \in {"upserting", "reading"} :
          /\ stage = "upserting" => AttestationGood(i)
          /\ jobs' = [jobs EXCEPT ![j] = [stage |-> stage, contributor |-> c, id |-> i,
                                          environment |-> None, session |-> None,
                                          challenge |-> None]]
    /\ UNCHANGED <<registered, signed, attestKeys, attEnv, ca, history>>

Row(j) == attestKeys[KeyOf(jobs[j].id)]

\* The row has a new public key, environment and counter, and keeps its owner.
Upserted_ChangesOwner(j) ==
    [contributor |-> jobs[j].contributor, counter |-> 0,
     environment |-> EnvironmentOf(KeyOf(jobs[j].id))]
Upserted(j) ==
    [contributor |-> IF Row(j) = None THEN jobs[j].contributor ELSE Row(j).contributor,
     counter |-> 0, environment |-> EnvironmentOf(KeyOf(jobs[j].id))]

\* insert_attest_keys_one; the foreign key wants the account.
UpsertKey(j) ==
    /\ At(j, "upserting")
    /\ Row(j) = None => jobs[j].contributor \in registered
    /\ attestKeys' = [attestKeys EXCEPT ![KeyOf(jobs[j].id)] = Upserted(j)]
    /\ current' = current \ SignedWith(KeyOf(jobs[j].id))
    /\ Ends(j)
    /\ UNCHANGED <<registered, ledger, signed, attEnv, ca, accepted>>

AssertionGood_AnyEnvironment(i, row) ==
    signed[i].counter > row.counter

\* verifyAssertion: the key made the signature over this challenge and body.
AssertionGood(i, row) ==
    /\ attEnv = "production" => row.environment = "production"
    /\ signed[i].counter > row.counter

ReadKey(j) ==
    /\ At(j, "reading")
    /\ Row(j) # None /\ Row(j).contributor = jobs[j].contributor
    /\ AssertionGood(jobs[j].id, Row(j))
    /\ jobs' = [jobs EXCEPT ![j] =
          [jobs[j] EXCEPT !.stage = "comparing", !.environment = Row(j).environment]]
    /\ UNCHANGED <<registered, ledger, signed, attestKeys, attEnv, ca, history>>

StillBehind_Unchecked(j) ==
    Row(j) # None /\ Row(j).contributor = jobs[j].contributor
StillBehind(j) ==
    /\ Row(j) # None /\ Row(j).contributor = jobs[j].contributor
    /\ Row(j).environment = jobs[j].environment
    /\ Row(j).counter < signed[jobs[j].id].counter

OnceMore(n) == IF n < 2 THEN n + 1 ELSE n

\* The compare-and-swap; when its answer is lost, the request is refused.
RaiseCounter(j) ==
    /\ At(j, "comparing") /\ StillBehind(j)
    /\ attestKeys' = [attestKeys EXCEPT
          ![KeyOf(jobs[j].id)] = [Row(j) EXCEPT !.counter = signed[jobs[j].id].counter]]
    /\ \/ /\ Goes(j, "admitted")
          /\ accepted' = [accepted EXCEPT ![jobs[j].id] = OnceMore(accepted[jobs[j].id])]
          /\ current' = current \cup {jobs[j].id}
       \/ /\ Ends(j)
          /\ UNCHANGED history
    /\ UNCHANGED <<registered, ledger, signed, attEnv, ca>>

-----------------------------------------------------------------------------
(* What the request was for *)

\* What start seals into the token: all that complete will want to know.
Started(j, d, document, keyLength) ==
    [contributor |-> jobs[j].contributor, key |-> KeyOf(jobs[j].id),
     challenge |-> d, document |-> document, keyLength |-> keyLength, fresh |-> TRUE]

\* /ca/start: the document challenge is only looked at.
StartCA(j, s, d) ==
    /\ At(j, "admitted") /\ tokens[s] = None
    /\ Memory!IsLive(d, jobs[j].contributor, "document_auth")
    /\ \E document \in Documents :
          /\ Supported(DG14Of[document])
          /\ tokens' = [tokens EXCEPT ![s] =
                Started(j, d, document, ChosenLength(DG14Of[document]))]
    /\ Ends(j)
    /\ UNCHANGED <<registered, ledger, signed, attestKeys, attEnv, answers, receipts,
                   history>>

\* Nothing opens but what start sealed.
Sealed(s) == tokens[s] # None

Bound_ToTheAccount(j, s, d) == tokens[s].contributor = jobs[j].contributor
Bound(j, s, d) ==
    /\ tokens[s].contributor = jobs[j].contributor
    /\ tokens[s].key = KeyOf(jobs[j].id)
    /\ tokens[s].challenge = d

\* What a client can hold out as the answer of a chip: the commands that it was
\* sent, what a chip answered to any of them.
HeldOut ==
    UNION {{Command(s, tokens[s].document, tokens[s].keyLength)} \cup
           (IF answers[s] = "none" THEN {}
            ELSE {Answer(s, tokens[s].document, tokens[s].keyLength, answers[s])}) :
              s \in {t \in Sessions : tokens[t] # None}}

\* complete of document_ca.js
Completes(j, s, d) ==
    /\ Sealed(s) /\ tokens[s].fresh /\ Bound(j, s, d)
    /\ \E answer \in HeldOut :
          Accepts(answer, s, tokens[s].document, tokens[s].keyLength)

CompleteCA(j, s, d) ==
    /\ At(j, "admitted")
    /\ Memory!IsLive(d, jobs[j].contributor, "document_auth")
    /\ Completes(j, s, d)
    /\ jobs' = [jobs EXCEPT ![j] =
          [jobs[j] EXCEPT !.stage = "recording", !.session = s, !.challenge = d]]
    /\ UNCHANGED <<registered, ledger, signed, attestKeys, attEnv, ca, history>>

\* document_ca_record_receipt: one per session, and per account and challenge.
Unrecorded(s) ==
    \A t \in Sessions :
        receipts[t] # None => t # s /\
            <<tokens[t].contributor, tokens[t].challenge>> #
            <<tokens[s].contributor, tokens[s].challenge>>

RecordReceipt(j) ==
    /\ At(j, "recording")
    /\ jobs[j].contributor \in registered /\ Unrecorded(jobs[j].session)
    /\ receipts' = [receipts EXCEPT ![jobs[j].session] =
                      [request |-> jobs[j].id, challenge |-> jobs[j].challenge]]
    /\ Ends(j)
    /\ UNCHANGED <<registered, ledger, signed, attestKeys, attEnv, tokens, answers,
                   history>>

\* Any other answer, at any stage.
Refuse(j) ==
    /\ jobs[j] # None
    /\ Ends(j)
    /\ UNCHANGED <<registered, ledger, signed, attestKeys, attEnv, ca, history>>

-----------------------------------------------------------------------------
(* The surroundings *)

Expire(s) ==
    /\ tokens[s] # None /\ tokens[s].fresh
    /\ tokens' = [tokens EXCEPT ![s] = [tokens[s] EXCEPT !.fresh = FALSE]]
    /\ UNCHANGED <<registered, ledger, signed, attestKeys, attEnv, jobs, answers,
                   receipts, history>>

\* Keys and receipts go with their account, ON DELETE CASCADE.
DeleteAccount(c) ==
    /\ c \in registered
    /\ registered' = registered \ {c}
    /\ LET gone == {k \in Keys : attestKeys[k] # None /\ attestKeys[k].contributor = c} IN
       /\ attestKeys' = [k \in Keys |-> IF k \in gone THEN None ELSE attestKeys[k]]
       /\ current' = current \ UNION {SignedWith(k) : k \in gone}
    /\ receipts' = [s \in Sessions |->
          IF receipts[s] # None /\ tokens[s].contributor = c THEN None ELSE receipts[s]]
    /\ UNCHANGED <<ledger, signed, attEnv, jobs, tokens, answers, accepted>>

\* The sealing key outlives the process, and so do the tokens.  A challenge
\* that expires or is evicted on its own only makes a request fail that might
\* as well never come; here they all go with the process.
Restart ==
    /\ Memory!Lose(Ids)
    /\ jobs' = [j \in Jobs |-> None]
    /\ attEnv' \in Environments
    /\ UNCHANGED <<registered, signed, attestKeys, ca, history>>

Next ==
    \/ \E i \in Challenges, c \in Contributors :
          (\E k \in Keys : Sign(i, c, k)) \/ (\E j \in Jobs : Arrive(j, i, c))
    \/ \E d \in DocumentChallenges, c \in Contributors : IssueDocumentChallenge(d, c)
    \/ \E j \in Jobs :
          \/ UpsertKey(j) \/ ReadKey(j) \/ RaiseCounter(j) \/ RecordReceipt(j) \/ Refuse(j)
          \/ \E s \in Sessions, d \in DocumentChallenges :
                StartCA(j, s, d) \/ CompleteCA(j, s, d)
    \/ \E s \in Sessions : ChipAnswers(s) \/ Expire(s)
    \/ \E c \in Contributors : DeleteAccount(c)
    \/ Restart

Spec == Init /\ [][Next]_vars

-----------------------------------------------------------------------------
(* Properties *)

\* A request that a phone signed once is let in at most once, whatever is
\* repeated, and even if its key is registered again and starts from counter 0.
NoRequestTwice == \A i \in Challenges : accepted[i] <= 1

\* Requests of a key are let in in the order in which it signed them, as long
\* as it is not registered again meanwhile.
InOrder ==
    [][\A i \in current' \ current : \A earlier \in current :
         KeyOf(earlier) = KeyOf(i) => signed[earlier].counter < signed[i].counter]_vars

\* A key once registered stays with its account until that is deleted, and
\* nobody else's request is let in with it.
KeyKeepsAccount ==
    [][\A k \in Keys :
         attestKeys[k] # None /\ attestKeys[k].contributor \in registered' =>
            /\ attestKeys'[k] # None
            /\ attestKeys'[k].contributor = attestKeys[k].contributor
            /\ \A i \in current' \ current : KeyOf(i) = k =>
                  ledger[i].owner = attestKeys[k].contributor]_vars

\* A production process lets nobody in with a key attested as development,
\* also one registered before it was switched to production.
NoDevelopmentAccess ==
    [][\A i \in Challenges :
         accepted'[i] > accepted[i] /\ attEnv = "production" =>
            KeyOf(i) \notin DevelopmentKeys]_vars

\* Each receipt rests on the session's own challenge answered by the chip whose
\* key is in the DG14, and on a request that was let in, of the account, with
\* the key and naming the document challenge that the session was started for.
ReceiptsAreProofs ==
    \A s \in Sessions : receipts[s] # None =>
        LET request == receipts[s].request IN
        /\ answers[s] = "9000"
        /\ accepted[request] = 1
        /\ KeyOf(request) = tokens[s].key
        /\ ledger[request].owner = tokens[s].contributor
        /\ receipts[s].challenge = tokens[s].challenge
        /\ ledger[receipts[s].challenge].owner = tokens[s].contributor

\* Whatever the order in which a client lists the entries of the DG14 it sends,
\* and whatever it adds, no weaker algorithm is used than the strongest the file
\* offers with a key of its own, an absent key number counting as 0.
StrongestUsed ==
    \A s \in Sessions : tokens[s] # None =>
        LET dg14 == DG14Of[tokens[s].document]
            Places(kind) == {i \in DOMAIN dg14 : dg14[i].kind = kind}
        IN  \A i \in Places("key"), j \in Places("protocol") :
               Number(dg14[i].keyId) = Number(dg14[j].keyId) =>
                   dg14[j].keyLength <= tokens[s].keyLength
=============================================================================
