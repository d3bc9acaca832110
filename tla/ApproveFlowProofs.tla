-------------------------- MODULE ApproveFlowProofs --------------------------
(***************************************************************************)
(* Theorems about the approve and CA-complete routes: whatever the number  *)
(* of overlapping requests, accounts, challenges and pepper rotations, no  *)
(* challenge is evidence twice, no account is verified without evidence    *)
(* that was issued to it and is used up, and no receipt of server-owned    *)
(* chip authentication is consumed for any other evidence.                 *)
(*                                                                         *)
(* A finished request is where the proof of an activation stays, because   *)
(* its handler never changes again but for the outcome.  The inductive     *)
(* invariant says for each handler what it has proved so far (Sound), and  *)
(* for each Verified ID and consumed receipt which finished handler it     *)
(* rests on.  Every step is looked at from three sides: what it does to    *)
(* the challenges (ChallengesStaySpent), to the handlers (HandlersGoOn)    *)
(* and to the tables (TablesAreExplained).                                 *)
(*                                                                         *)
(* Then the parts are put together: to the tables the routes are callers   *)
(* of VerificationStore, whose theorems hold of them.                      *)
(***************************************************************************)
EXTENDS ApproveFlow, TLAPS

Finished == {"replying", "done", "lost"}

(* Challenge i is used up in l, issued to c for the purpose. *)
BurntFor(l, i, c, purpose) ==
    /\ i # None
    /\ l[i] = [state |-> "consumed", owner |-> c, purpose |-> purpose]

(* What the fields of a handler r mean, given the challenges l. *)
Sound(r, l) ==
    /\ r.pc = "free" => r = Free
    /\ r.pc # "free" =>
          r.account \in Contributors /\ r.key \in AttestKeys /\ r.mode \in Modes
    /\ r.pc \in {"account_check", "device_check", "admitted"} =>
          r.liveness = None /\ r.document = None
    /\ r.liveness # None =>
          BurntFor(l, r.liveness, r.account, LivenessPurpose(r.mode))
    /\ r.liveness # None /\ r.document # None =>
          BurntFor(l, r.document, r.account, DocumentPurpose(r.mode))
    /\ r.pc \in {"verifying", "ca_lookup", "deciding", "replying"} =>
          r.liveness # None /\ r.document # None
    /\ r.pc \in {"ca_lookup", "deciding", "replying"} => r.passport \in Documents
    /\ r.pc = "recording" =>
          r.liveness = None /\ r.document # None /\ r.passport \in Documents

(* Handler r is the finished production request of c, with its evidence. *)
ProductionEvidence(r, c) ==
    /\ r.pc \in Finished
    /\ r.account = c
    /\ r.mode = "production"
    /\ r.liveness # None /\ r.document # None
Supports(r, c, assurance) == ProductionEvidence(r, c) /\ r.assurance = assurance
Justifies(r, q) ==
    /\ ProductionEvidence(r, q.contributor)
    /\ r.key = q.key
    /\ r.document = q.challenge
    /\ r.passport = q.document

FlowTypes ==
    /\ Memory!LedgerTypeOK
    /\ handlers \in [Handlers -> Handler]
    /\ contributors \in [Contributors -> Store!Account]
    /\ caReceipts \subseteq Store!CAReceipt
HandlersSound == \A h \in Handlers : Sound(handlers[h], ledger)
VerifiedSupported ==
    \A c \in Contributors : Store!Verified(c) =>
        \E h \in Handlers : Supports(handlers[h], c, contributors[c].assurance)
ConsumedJustified ==
    \A q \in caReceipts : q.status = "consumed" =>
        \E h \in Handlers : Justifies(handlers[h], q)

FlowInv ==
    /\ FlowTypes
    /\ HandlersSound
    /\ VerifiedSupported
    /\ ConsumedJustified
    /\ EvidenceUsedOnce

-----------------------------------------------------------------------------
(* Three sides of a step. *)

ChallengesStaySpent ==
    /\ Memory!LedgerTypeOK'
    /\ \A i \in Challenges :
          ledger[i].state = "consumed" => ledger'[i] = ledger[i]

(* A finished handler stays finished, with the same evidence. *)
Carries(r, s) ==
    r.pc \in Finished =>
        /\ s.pc \in Finished
        /\ s.account = r.account /\ s.key = r.key /\ s.mode = r.mode
        /\ s.liveness = r.liveness /\ s.document = r.document
        /\ s.passport = r.passport /\ s.assurance = r.assurance

(* A handler keeps its evidence, has no liveness challenge, or takes         *)
(* challenges that were live in l.                                           *)
TakesLive(r, s, l) ==
    \/ s.liveness = r.liveness /\ s.document = r.document
    \/ s.liveness = None
    \/ /\ s.liveness \in Challenges /\ l[s.liveness].state = "live"
       /\ \/ s.document = None
          \/ s.document \in Challenges /\ l[s.document].state = "live"

HandlersGoOn ==
    /\ handlers' \in [Handlers -> Handler]
    /\ \A h \in Handlers :
          Sound(handlers'[h], ledger') /\ Carries(handlers[h], handlers'[h])
    /\ EvidenceUsedOnce'

OneHandlerMoves(h, s) ==
    /\ handlers' = [handlers EXCEPT ![h] = s]
    /\ s \in Handler
    /\ Sound(s, ledger')
    /\ Carries(handlers[h], s)
    /\ TakesLive(handlers[h], s, ledger)

TablesAreExplained ==
    /\ contributors' \in [Contributors -> Store!Account]
    /\ caReceipts' \subseteq Store!CAReceipt
    /\ \A c \in Contributors : contributors'[c].assurance # "none" =>
          \/ contributors'[c].assurance = contributors[c].assurance
          \/ \E h \in Handlers :
                Supports(handlers'[h], c, contributors'[c].assurance)
    /\ \A q \in caReceipts' : q.status = "consumed" =>
          \/ q \in caReceipts
          \/ \E h \in Handlers : Justifies(handlers'[h], q)

(* What a handler proved with used-up challenges stays proved. *)
LEMMA SoundStaysSound ==
    ASSUME NEW r \in Handler, NEW l, NEW m, Sound(r, l),
           \A i \in Challenges : l[i].state = "consumed" => m[i] = l[i]
    PROVE  Sound(r, m)
<1>1. ASSUME NEW i \in Challenges \cup {None}, NEW c, NEW p, BurntFor(l, i, c, p)
      PROVE  BurntFor(m, i, c, p)
  BY <1>1 DEF BurntFor
<1>2. r.liveness \in Challenges \cup {None} /\ r.document \in Challenges \cup {None}
  BY DEF Handler
<1> QED
  BY <1>1, <1>2 DEF Sound

(* The three sides together are the induction step. *)
LEMMA ThreeSides ==
    ASSUME FlowInv, ChallengesStaySpent, HandlersGoOn, TablesAreExplained
    PROVE  FlowInv'
<1>1. FlowTypes'
  BY DEF FlowTypes, ChallengesStaySpent, HandlersGoOn, TablesAreExplained
<1>2. HandlersSound'
  BY DEF HandlersSound, HandlersGoOn
<1>3. ASSUME NEW c, NEW a, NEW h \in Handlers, Supports(handlers[h], c, a)
      PROVE  Supports(handlers'[h], c, a)
  BY <1>3 DEF Supports, ProductionEvidence, HandlersGoOn, Carries
<1>4. ASSUME NEW q, NEW h \in Handlers, Justifies(handlers[h], q)
      PROVE  Justifies(handlers'[h], q)
  BY <1>4 DEF Justifies, ProductionEvidence, HandlersGoOn, Carries
<1>5. VerifiedSupported'
  <2> SUFFICES ASSUME NEW c \in Contributors, contributors'[c].assurance # "none"
               PROVE  \E h \in Handlers :
                         Supports(handlers'[h], c, contributors'[c].assurance)
    BY DEF VerifiedSupported, Store!Verified
  <2>1. CASE contributors'[c].assurance = contributors[c].assurance
    <3>1. PICK h \in Handlers : Supports(handlers[h], c, contributors[c].assurance)
      BY <2>1 DEF FlowInv, VerifiedSupported, Store!Verified
    <3> QED
      BY <2>1, <3>1, <1>3
  <2> QED
    BY <2>1 DEF TablesAreExplained
<1>6. ConsumedJustified'
  <2> SUFFICES ASSUME NEW q \in caReceipts', q.status = "consumed"
               PROVE  \E h \in Handlers : Justifies(handlers'[h], q)
    BY DEF ConsumedJustified
  <2>1. CASE q \in caReceipts
    <3>1. PICK h \in Handlers : Justifies(handlers[h], q)
      BY <2>1 DEF FlowInv, ConsumedJustified
    <3> QED
      BY <3>1, <1>4
  <2> QED
    BY <2>1 DEF TablesAreExplained
<1> QED
  BY <1>1, <1>2, <1>5, <1>6 DEF FlowInv, HandlersGoOn

(* One handler moves and the others do not. *)
LEMMA OneMoves ==
    ASSUME FlowInv, ChallengesStaySpent, NEW h \in Handlers, NEW s,
           OneHandlerMoves(h, s)
    PROVE  HandlersGoOn
<1>1. /\ handlers \in [Handlers -> Handler]
      /\ handlers' \in [Handlers -> Handler]
      /\ handlers'[h] = s
      /\ \A g \in Handlers \ {h} : handlers'[g] = handlers[g]
  BY DEF FlowInv, FlowTypes, OneHandlerMoves
<1>2. \A g \in Handlers : Carries(handlers[g], handlers'[g])
  BY <1>1 DEF OneHandlerMoves, Carries
<1>3. ASSUME NEW g \in Handlers PROVE Sound(handlers'[g], ledger')
  <2>1. CASE g = h
    BY <2>1, <1>1 DEF OneHandlerMoves
  <2>2. CASE g # h
    <3>1. handlers[g] \in Handler /\ Sound(handlers[g], ledger)
      BY <1>1 DEF FlowInv, HandlersSound
    <3>2. Sound(handlers[g], ledger')
      BY <3>1, SoundStaysSound DEF ChallengesStaySpent
    <3> QED
      BY <3>2, <2>2, <1>1
  <2> QED
    BY <2>1, <2>2
<1> DEFINE Apart(r, t) ==
      /\ r.liveness # t.liveness \/ r.liveness = None
      /\ r.liveness # None /\ t.liveness # None =>
            r.document # t.document \/ r.document = None
<1>4. ASSUME NEW g \in Handlers, g # h
      PROVE  Apart(handlers[g], s) /\ Apart(s, handlers[g])
  <2> DEFINE r == handlers[g]
  <2>1. Sound(r, ledger) /\ Apart(r, handlers[h]) /\ Apart(handlers[h], r)
    BY <1>4 DEF FlowInv, HandlersSound, EvidenceUsedOnce
  <2>2. /\ r.liveness # None => ledger[r.liveness].state = "consumed"
        /\ r.liveness # None /\ r.document # None =>
              ledger[r.document].state = "consumed"
    BY <2>1 DEF Sound, BurntFor
  <2>3. TakesLive(handlers[h], s, ledger)
    BY DEF OneHandlerMoves
  <2> QED
    BY <2>1, <2>2, <2>3, NoneIsNoChallenge DEF TakesLive
<1>5. EvidenceUsedOnce'
  <2> SUFFICES ASSUME NEW f \in Handlers, NEW g \in Handlers, f # g
               PROVE  Apart(handlers'[f], handlers'[g])
    BY DEF EvidenceUsedOnce
  <2>1. Apart(handlers[f], handlers[g])
    BY DEF FlowInv, EvidenceUsedOnce
  <2> HIDE DEF Apart
  <2> QED
    BY <2>1, <1>1, <1>4
<1> QED
  BY <1>1, <1>2, <1>3, <1>5 DEF HandlersGoOn

(* No handler moves. *)
LEMMA NoneMoves ==
    ASSUME FlowInv, ChallengesStaySpent, UNCHANGED handlers
    PROVE  HandlersGoOn
<1>1. \A g \in Handlers : Sound(handlers[g], ledger')
  <2> TAKE g \in Handlers
  <2>1. handlers[g] \in Handler /\ Sound(handlers[g], ledger)
    BY DEF FlowInv, FlowTypes, HandlersSound
  <2> QED
    BY <2>1, SoundStaysSound DEF ChallengesStaySpent
<1> QED
  BY <1>1 DEF HandlersGoOn, FlowInv, FlowTypes, EvidenceUsedOnce, Carries

-----------------------------------------------------------------------------
(* The challenges. *)

LEMMA ChallengesStay ==
    ASSUME FlowTypes, UNCHANGED ledger
    PROVE  ChallengesStaySpent
  BY DEF FlowTypes, ChallengesStaySpent, Memory!LedgerTypeOK

LEMMA LosingKeepsSpent ==
    ASSUME FlowTypes, NEW lost \in SUBSET Challenges, Memory!Lose(lost)
    PROVE  ChallengesStaySpent
<1>1. \A i \in Challenges :
         \/ ledger'[i] = ledger[i]
         \/ /\ ledger[i].state = "live"
            /\ ledger'[i] = [ledger[i] EXCEPT !.state = "gone"]
  BY DEF Memory!Lose, Memory!Without
<1>2. Memory!LedgerTypeOK'
  <2> DEFINE Entry == [state : {"unissued", "live", "consumed", "gone"},
                       owner : Contributors \cup {Nobody},
                       purpose : Purposes \cup {NoPurpose}]
  <2>1. ASSUME NEW i \in Challenges PROVE ledger'[i] \in Entry
    <3>1. ledger[i] \in Entry
      BY DEF FlowTypes, Memory!LedgerTypeOK
    <3>2. [ledger[i] EXCEPT !.state = "gone"] \in Entry
      BY <3>1
    <3> HIDE DEF Entry
    <3> QED
      BY <1>1, <3>1, <3>2
  <2>2. ledger' = [i \in Challenges |-> ledger'[i]]
    BY DEF Memory!Lose, Memory!Without
  <2> HIDE DEF Entry
  <2>3. ledger' \in [Challenges -> Entry]
    BY <2>1, <2>2
  <2> QED
    BY <2>3 DEF Memory!LedgerTypeOK, Entry
<1> QED
  BY <1>1, <1>2 DEF ChallengesStaySpent

LEMMA IssuingKeepsSpent ==
    ASSUME FlowTypes, NEW i \in Challenges, NEW c \in Contributors,
           NEW p \in Purposes, Memory!Issue(i, c, p)
    PROVE  ChallengesStaySpent
  BY DEF FlowTypes, Memory!LedgerTypeOK, Memory!Issue, ChallengesStaySpent

(* What is spent was live, and is now used up by its owner. *)
LEMMA SpendingBurns ==
    ASSUME FlowTypes, NEW ids \in SUBSET Challenges, NEW c,
           \A i \in ids : ledger[i].state = "live" /\ ledger[i].owner = c,
           ledger' = Spent(ids)
    PROVE  /\ ChallengesStaySpent
           /\ \A i \in ids : BurntFor(ledger', i, c, ledger[i].purpose)
<1>1. \A i \in Challenges : ledger'[i] = IF i \in ids
                                         THEN [ledger[i] EXCEPT !.state = "consumed"]
                                         ELSE ledger[i]
  BY DEF Spent
<1>2. Memory!LedgerTypeOK'
  BY DEF FlowTypes, Memory!LedgerTypeOK, Spent
<1>3. ChallengesStaySpent
  BY <1>1, <1>2 DEF ChallengesStaySpent
<1>4. ASSUME NEW i \in ids PROVE BurntFor(ledger', i, c, ledger[i].purpose)
  <2>1. i \in Challenges /\ i # None
    BY NoneIsNoChallenge
  <2>2. ledger[i] \in [state : {"unissued", "live", "consumed", "gone"},
                       owner : Contributors \cup {Nobody},
                       purpose : Purposes \cup {NoPurpose}]
    BY <2>1 DEF FlowTypes, Memory!LedgerTypeOK
  <2>3. ledger'[i] = [ledger[i] EXCEPT !.state = "consumed"]
    BY <1>1, <2>1
  <2> QED
    BY <2>1, <2>2, <2>3 DEF BurntFor
<1> QED
  BY <1>3, <1>4

-----------------------------------------------------------------------------
(* The handlers: each step of a request moves its own handler. *)

LEMMA ConsumeLivenessStep ==
    ASSUME FlowInv, NEW h \in Handlers, NEW l \in Challenges, ConsumeLiveness(h, l)
    PROVE  ChallengesStaySpent /\ HandlersGoOn
<1> DEFINE r == handlers[h]
           s == [r EXCEPT !.pc = "done", !.liveness = l, !.outcome = "refused"]
<1>1. r \in Handler /\ r.pc = "admitted" /\ Sound(r, ledger)
  BY DEF FlowInv, FlowTypes, HandlersSound, ConsumeLiveness, At
<1>2. ledger[l] = [state |-> "live", owner |-> r.account,
                   purpose |-> LivenessPurpose(r.mode)]
  BY DEF ConsumeLiveness, Usable, Memory!IsLive
<1>3. /\ ChallengesStaySpent
      /\ BurntFor(ledger', l, r.account, LivenessPurpose(r.mode))
  <2>1. ledger' = Spent({l})
    BY DEF ConsumeLiveness
  <2> QED
    BY <2>1, <1>2, SpendingBurns DEF FlowInv
<1>4. handlers' = [handlers EXCEPT ![h] = s]
  BY DEF FlowInv, FlowTypes, ConsumeLiveness
<1>5. /\ s \in Handler
      /\ s.pc = "done" /\ s.liveness = l /\ s.document = r.document
      /\ s.account = r.account /\ s.key = r.key /\ s.mode = r.mode
  <2>1. s \in Handler
    BY <1>1 DEF Handler
  <2>2. /\ s.pc = "done" /\ s.liveness = l /\ s.document = r.document
        /\ s.account = r.account /\ s.key = r.key /\ s.mode = r.mode
    BY <1>1 DEF Handler
  <2> QED
    BY <2>1, <2>2
<1>6. r.document = None
  BY <1>1 DEF Sound
<1> HIDE DEF s
<1>7. Sound(s, ledger')
  BY <1>1, <1>3, <1>5, <1>6 DEF Sound
<1>8. Carries(r, s) /\ TakesLive(r, s, ledger)
  BY <1>1, <1>2, <1>5, <1>6 DEF Carries, TakesLive, Finished
<1> QED
  BY <1>3, <1>4, <1>5, <1>7, <1>8, OneMoves DEF OneHandlerMoves

LEMMA ConsumeEvidenceStep ==
    ASSUME FlowInv, NEW h \in Handlers, NEW l \in Challenges, NEW d \in Challenges,
           ConsumeEvidence(h, l, d)
    PROVE  ChallengesStaySpent /\ HandlersGoOn
<1> DEFINE r == handlers[h]
           s == [r EXCEPT !.pc = "verifying", !.liveness = l, !.document = d]
<1>1. r \in Handler /\ r.pc = "admitted" /\ Sound(r, ledger)
  BY DEF FlowInv, FlowTypes, HandlersSound, ConsumeEvidence, At
<1>2. /\ ledger[l] = [state |-> "live", owner |-> r.account,
                      purpose |-> LivenessPurpose(r.mode)]
      /\ ledger[d] = [state |-> "live", owner |-> r.account,
                      purpose |-> DocumentPurpose(r.mode)]
  BY DEF ConsumeEvidence, Usable, Memory!IsLive
<1>3. /\ ChallengesStaySpent
      /\ BurntFor(ledger', l, r.account, LivenessPurpose(r.mode))
      /\ BurntFor(ledger', d, r.account, DocumentPurpose(r.mode))
  <2>1. ledger' = Spent({l, d})
    BY DEF ConsumeEvidence
  <2> QED
    BY <2>1, <1>2, SpendingBurns DEF FlowInv
<1>4. handlers' = [handlers EXCEPT ![h] = s]
  BY DEF FlowInv, FlowTypes, ConsumeEvidence
<1>5. /\ s \in Handler
      /\ s.pc = "verifying" /\ s.liveness = l /\ s.document = d
      /\ s.account = r.account /\ s.key = r.key /\ s.mode = r.mode
  <2>1. s \in Handler
    BY <1>1 DEF Handler
  <2>2. /\ s.pc = "verifying" /\ s.liveness = l /\ s.document = d
        /\ s.account = r.account /\ s.key = r.key /\ s.mode = r.mode
    BY <1>1 DEF Handler
  <2> QED
    BY <2>1, <2>2
<1> HIDE DEF s
<1>6. l # None /\ d # None
  BY NoneIsNoChallenge
<1>7. Sound(s, ledger')
  BY <1>1, <1>3, <1>5, <1>6 DEF Sound
<1>8. Carries(r, s) /\ TakesLive(r, s, ledger)
  BY <1>1, <1>2, <1>5 DEF Carries, TakesLive, Finished
<1> QED
  BY <1>3, <1>4, <1>5, <1>7, <1>8, OneMoves DEF OneHandlerMoves

(* Any other step of a request takes no challenge: it only moves on, over    *)
(* the same evidence.                                                        *)
LEMMA MovingOnStep ==
    ASSUME FlowInv, UNCHANGED ledger, NEW h \in Handlers, NEW s \in Handler,
           handlers' = [handlers EXCEPT ![h] = s],
           handlers[h].pc # "free",
           s.pc # "free",
           s.pc \in {"account_check", "device_check", "admitted"} =>
              handlers[h].pc \in {"account_check", "device_check", "admitted"},
           s.account = handlers[h].account, s.key = handlers[h].key,
           s.mode = handlers[h].mode, s.liveness = handlers[h].liveness,
           s.document = handlers[h].document,
           s.pc \in {"verifying", "ca_lookup", "deciding", "replying"} =>
              handlers[h].pc \in {"verifying", "ca_lookup", "deciding", "replying"},
           s.pc \in {"ca_lookup", "deciding", "replying"} => s.passport \in Documents,
           s.pc # "recording",
           Carries(handlers[h], s)
    PROVE  ChallengesStaySpent /\ HandlersGoOn
<1>1. ChallengesStaySpent
  BY ChallengesStay DEF FlowInv
<1>2. Sound(handlers[h], ledger)
  BY DEF FlowInv, HandlersSound
<1>3. Sound(s, ledger')
  BY <1>2 DEF Sound, BurntFor
<1>4. TakesLive(handlers[h], s, ledger)
  BY DEF TakesLive
<1> QED
  BY <1>1, <1>3, <1>4, OneMoves DEF OneHandlerMoves

LEMMA VerifyEvidenceStep ==
    ASSUME FlowInv, NEW h \in Handlers, NEW p \in Documents,
           NEW assurance \in WorkerAssurances, VerifyEvidence(h, p, assurance)
    PROVE  ChallengesStaySpent /\ HandlersGoOn
<1> DEFINE r == handlers[h]
           s == [r EXCEPT !.pc = "ca_lookup", !.passport = p, !.assurance = assurance]
<1>1. r \in Handler /\ r.pc = "verifying" /\ handlers' = [handlers EXCEPT ![h] = s]
  BY DEF FlowInv, FlowTypes, VerifyEvidence, At
<1>2. /\ s \in Handler
      /\ s.pc = "ca_lookup" /\ s.passport = p
      /\ s.account = r.account /\ s.key = r.key /\ s.mode = r.mode
      /\ s.liveness = r.liveness /\ s.document = r.document
  <2>1. s \in Handler
    BY <1>1 DEF Handler
  <2>2. /\ s.pc = "ca_lookup" /\ s.passport = p
        /\ s.account = r.account /\ s.key = r.key /\ s.mode = r.mode
        /\ s.liveness = r.liveness /\ s.document = r.document
    BY <1>1 DEF Handler
  <2> QED
    BY <2>1, <2>2
<1> HIDE DEF s
<1>3. Carries(r, s)
  BY <1>1 DEF Carries, Finished
<1>4. UNCHANGED ledger
  BY DEF VerifyEvidence
<1> QED
  BY <1>1, <1>2, <1>3, <1>4, MovingOnStep

LEMMA LookUpCAStep ==
    ASSUME FlowInv, NEW h \in Handlers, LookUpCA(h)
    PROVE  ChallengesStaySpent /\ HandlersGoOn
<1> DEFINE r == handlers[h]
           found == IF Receipts(h) # {} THEN "chip_authentication_server"
                    ELSE r.assurance
           s == [r EXCEPT !.pc = "deciding", !.assurance = found]
<1>1. /\ r \in Handler /\ Sound(r, ledger)
      /\ r.pc = "ca_lookup" /\ handlers' = [handlers EXCEPT ![h] = s]
  BY DEF FlowInv, FlowTypes, HandlersSound, LookUpCA, At
<1> found \in WorkerAssurances \cup {None, "chip_authentication_server"}
  BY <1>1 DEF Handler
<1> HIDE DEF found
<1>2. /\ s \in Handler
      /\ s.pc = "deciding" /\ s.passport = r.passport
      /\ s.account = r.account /\ s.key = r.key /\ s.mode = r.mode
      /\ s.liveness = r.liveness /\ s.document = r.document
  <2>1. s \in Handler
    BY <1>1 DEF Handler
  <2>2. /\ s.pc = "deciding" /\ s.passport = r.passport
        /\ s.account = r.account /\ s.key = r.key /\ s.mode = r.mode
        /\ s.liveness = r.liveness /\ s.document = r.document
    BY <1>1 DEF Handler
  <2> QED
    BY <2>1, <2>2
<1> HIDE DEF s
<1>3. Carries(r, s) /\ s.passport \in Documents
  BY <1>1, <1>2 DEF Carries, Finished, Sound
<1>4. UNCHANGED ledger
  BY DEF LookUpCA
<1> QED
  BY <1>1, <1>2, <1>3, <1>4, MovingOnStep

(* The request answers, or has its answer and waits to send it. *)
LEMMA AnswerStep ==
    ASSUME FlowInv, UNCHANGED ledger, NEW h \in Handlers,
           NEW outcome \in {"refused", "calibration", "verified", "pending",
                            "ca_recorded"} \cup {handlers[h].outcome},
           handlers[h].pc \notin {"free", "done", "lost"},
           NEW pc \in {"replying", "done"},
           pc = "replying" => handlers[h].pc = "deciding",
           handlers' = [handlers EXCEPT ![h].pc = pc, ![h].outcome = outcome]
    PROVE  /\ ChallengesStaySpent /\ HandlersGoOn
           /\ handlers'[h] = [handlers[h] EXCEPT !.pc = pc, !.outcome = outcome]
<1> DEFINE r == handlers[h]
           s == [r EXCEPT !.pc = pc, !.outcome = outcome]
<1>1. r \in Handler /\ Sound(r, ledger) /\ handlers' = [handlers EXCEPT ![h] = s]
  BY DEF FlowInv, FlowTypes, HandlersSound
<1>2. /\ s \in Handler
      /\ s.pc = pc /\ s.passport = r.passport /\ s.assurance = r.assurance
      /\ s.account = r.account /\ s.key = r.key /\ s.mode = r.mode
      /\ s.liveness = r.liveness /\ s.document = r.document
  <2>1. outcome \in {None, "refused", "calibration", "verified", "pending",
                     "ca_recorded"}
    BY <1>1 DEF Handler
  <2>2. r \in Handler
    BY <1>1
  <2> HIDE DEF r
  <2>3. s \in Handler
    BY ONLY <2>1, <2>2, pc \in {"replying", "done"} DEF Handler, s
  <2>4. /\ s.pc = pc /\ s.passport = r.passport /\ s.assurance = r.assurance
        /\ s.account = r.account /\ s.key = r.key /\ s.mode = r.mode
        /\ s.liveness = r.liveness /\ s.document = r.document
    BY ONLY <2>2 DEF Handler, s
  <2> QED
    BY <2>3, <2>4
<1>3. handlers'[h] = s
  BY <1>1 DEF FlowInv, FlowTypes
<1> HIDE DEF s
<1>4. /\ s.pc = "replying" => s.passport \in Documents
      /\ s.pc \notin {"free", "account_check", "device_check", "admitted", "verifying",
                      "ca_lookup", "deciding", "recording"}
  BY <1>1, <1>2 DEF Sound
<1>5. Carries(r, s)
  BY <1>2 DEF Carries, Finished
<1>6. ChallengesStaySpent /\ HandlersGoOn
  BY <1>1, <1>2, <1>4, <1>5, MovingOnStep
<1> QED
  BY <1>3, <1>6 DEF s

(* A request that begins or is being admitted holds no challenge yet.        *)
LEMMA EnteringStep ==
    ASSUME FlowInv, UNCHANGED ledger, NEW h \in Handlers, NEW s \in Handler,
           handlers[h].pc \in {"free", "account_check", "device_check", "admitted"},
           handlers' = [handlers EXCEPT ![h] = s],
           s.pc \in {"account_check", "device_check", "admitted", "recording"},
           s.account \in Contributors, s.key \in AttestKeys, s.mode \in Modes,
           s.liveness = None,
           s.pc # "recording" => s.document = None,
           s.pc = "recording" => s.document # None /\ s.passport \in Documents
    PROVE  ChallengesStaySpent /\ HandlersGoOn
<1>1. ChallengesStaySpent
  BY ChallengesStay DEF FlowInv
<1>2. Sound(s, ledger')
  BY DEF Sound
<1>3. Carries(handlers[h], s) /\ TakesLive(handlers[h], s, ledger)
  BY DEF Carries, Finished, TakesLive
<1> QED
  BY <1>1, <1>2, <1>3, OneMoves DEF OneHandlerMoves

LEMMA StartStep ==
    ASSUME FlowInv, NEW h \in Handlers, NEW c \in Contributors,
           NEW k \in AttestKeys, NEW mode \in Modes, Start(h, c, k, mode)
    PROVE  ChallengesStaySpent /\ HandlersGoOn
<1> DEFINE r == handlers[h]
           pc == IF mode = "calibration" THEN "admitted" ELSE "account_check"
           s == [r EXCEPT !.pc = pc, !.account = c, !.key = k, !.mode = mode]
<1>1. /\ r \in Handler /\ Sound(r, ledger) /\ r.pc = "free"
      /\ handlers' = [handlers EXCEPT ![h] = s]
  BY DEF FlowInv, FlowTypes, HandlersSound, Start, At
<1>2. r.liveness = None /\ r.document = None
  BY <1>1 DEF Sound, Free
<1>3. pc \in {"admitted", "account_check"}
  OBVIOUS
<1> HIDE DEF pc
<1>4. /\ s \in Handler
      /\ s.pc = pc /\ s.account = c /\ s.key = k /\ s.mode = mode
      /\ s.liveness = None /\ s.document = None
  <2>1. s \in Handler
    BY <1>1, <1>2, <1>3 DEF Handler
  <2>2. /\ s.pc = pc /\ s.account = c /\ s.key = k /\ s.mode = mode
        /\ s.liveness = None /\ s.document = None
    BY <1>1, <1>2 DEF Handler
  <2> QED
    BY <2>1, <2>2
<1>5. UNCHANGED ledger
  BY DEF Start
<1> HIDE DEF s
<1> QED
  BY <1>1, <1>3, <1>4, <1>5, EnteringStep

LEMMA CheckStep ==
    ASSUME FlowInv, NEW h \in Handlers, CheckAccount(h) \/ CheckDevice(h)
    PROVE  ChallengesStaySpent /\ HandlersGoOn
<1> DEFINE r == handlers[h]
           s(pc) == [r EXCEPT !.pc = pc]
<1>1. PICK pc \in {"device_check", "admitted"} :
         /\ r.pc \in {"account_check", "device_check"}
         /\ handlers' = [handlers EXCEPT ![h] = s(pc)]
  BY DEF CheckAccount, CheckDevice, At
<1>2. r \in Handler /\ Sound(r, ledger)
  BY DEF FlowInv, FlowTypes, HandlersSound
<1>3. /\ r.liveness = None /\ r.document = None
      /\ r.account \in Contributors /\ r.key \in AttestKeys /\ r.mode \in Modes
  BY <1>1, <1>2 DEF Sound
<1>4. /\ s(pc) \in Handler
      /\ s(pc).pc = pc /\ s(pc).account = r.account /\ s(pc).key = r.key
      /\ s(pc).mode = r.mode /\ s(pc).liveness = None /\ s(pc).document = None
  <2>1. s(pc) \in Handler
    BY <1>1, <1>2 DEF Handler
  <2>2. /\ s(pc).pc = pc /\ s(pc).account = r.account /\ s(pc).key = r.key
        /\ s(pc).mode = r.mode /\ s(pc).liveness = None /\ s(pc).document = None
    BY <1>2, <1>3 DEF Handler
  <2> QED
    BY <2>1, <2>2
<1>5. UNCHANGED ledger
  BY DEF CheckAccount, CheckDevice
<1> HIDE DEF s
<1> QED
  BY <1>1, <1>3, <1>4, <1>5, EnteringStep

LEMMA InspectForCAStep ==
    ASSUME FlowInv, NEW h \in Handlers, NEW d \in Challenges, NEW p \in Documents,
           InspectForCA(h, d, p)
    PROVE  ChallengesStaySpent /\ HandlersGoOn
<1> DEFINE r == handlers[h]
           s == [r EXCEPT !.pc = "recording", !.document = d, !.passport = p]
<1>1. /\ r \in Handler /\ Sound(r, ledger) /\ r.pc = "admitted"
      /\ handlers' = [handlers EXCEPT ![h] = s]
  BY DEF FlowInv, FlowTypes, HandlersSound, InspectForCA, At
<1>2. /\ r.liveness = None
      /\ r.account \in Contributors /\ r.key \in AttestKeys /\ r.mode \in Modes
  BY <1>1 DEF Sound
<1>3. /\ s \in Handler
      /\ s.pc = "recording" /\ s.account = r.account /\ s.key = r.key
      /\ s.mode = r.mode /\ s.liveness = None /\ s.document = d /\ s.passport = p
  <2>1. s \in Handler
    BY <1>1 DEF Handler
  <2>2. /\ s.pc = "recording" /\ s.account = r.account /\ s.key = r.key
        /\ s.mode = r.mode /\ s.liveness = None /\ s.document = d /\ s.passport = p
    BY <1>1, <1>2 DEF Handler
  <2> QED
    BY <2>1, <2>2
<1>4. UNCHANGED ledger
  BY DEF InspectForCA
<1>5. d # None
  BY NoneIsNoChallenge
<1> HIDE DEF s
<1> QED
  BY <1>1, <1>2, <1>3, <1>4, <1>5, EnteringStep

(* A crash loses requests under way; what they had done is not undone. *)
LEMMA CrashStep ==
    ASSUME FlowInv, Crash
    PROVE  ChallengesStaySpent /\ HandlersGoOn
<1>1. ChallengesStaySpent
  BY LosingKeepsSpent DEF FlowInv, Crash
<1>2. ASSUME NEW h \in Handlers
      PROVE  /\ handlers'[h] \in Handler
             /\ Sound(handlers'[h], ledger') /\ Carries(handlers[h], handlers'[h])
             /\ handlers'[h].liveness = handlers[h].liveness
             /\ handlers'[h].document = handlers[h].document
  <2> DEFINE r == handlers[h]
             s == [r EXCEPT !.pc = "lost"]
  <2>1. r \in Handler /\ Sound(r, ledger)
    BY DEF FlowInv, FlowTypes, HandlersSound
  <2>2. Sound(r, ledger')
    BY <1>1, <2>1, SoundStaysSound DEF ChallengesStaySpent
  <2>3. CASE r.pc \in {"free", "done"}
    <3>1. handlers'[h] = r
      BY <2>3 DEF Crash
    <3> QED
      BY <2>1, <2>2, <3>1 DEF Carries
  <2>4. CASE r.pc \notin {"free", "done"}
    <3>1. handlers'[h] = s
      BY <2>4 DEF Crash
    <3>2. /\ s \in Handler
          /\ s.pc = "lost" /\ s.passport = r.passport /\ s.assurance = r.assurance
          /\ s.account = r.account /\ s.key = r.key /\ s.mode = r.mode
          /\ s.liveness = r.liveness /\ s.document = r.document
      BY <2>1 DEF Handler
    <3> HIDE DEF s
    <3>3. Sound(s, ledger') /\ Carries(r, s)
      BY <2>2, <2>4, <3>2 DEF Sound, Carries, Finished
    <3> QED
      BY <3>1, <3>2, <3>3
  <2> QED
    BY <2>3, <2>4
<1>3. handlers' = [h \in Handlers |-> handlers'[h]]
  BY DEF Crash
<1>4. handlers' \in [Handlers -> Handler]
  BY <1>2, <1>3
<1>5. EvidenceUsedOnce'
  BY <1>2 DEF EvidenceUsedOnce, FlowInv
<1> QED
  BY <1>1, <1>2, <1>4, <1>5 DEF HandlersGoOn

-----------------------------------------------------------------------------
(* The tables: only an activation verifies an account or consumes a receipt. *)

LEMMA TablesStay ==
    ASSUME FlowInv, UNCHANGED <<contributors, caReceipts>>
    PROVE  TablesAreExplained
  BY DEF FlowInv, FlowTypes, TablesAreExplained

LEMMA AccountsComeAndGo ==
    ASSUME FlowInv, NEW c \in Contributors,
           \/ Store!Register(c) \/ Store!DeleteAccount(c)
           \/ Store!WithdrawVerification(c)
    PROVE  TablesAreExplained
<1>1. contributors \in [Contributors -> Store!Account] /\ caReceipts \subseteq Store!CAReceipt
  BY DEF FlowInv, FlowTypes
<1>2. CASE Store!Register(c)
  BY <1>1, <1>2 DEF Store!Register, Store!Account, TablesAreExplained
<1>3. CASE Store!DeleteAccount(c)
  BY <1>1, <1>3
     DEF Store!DeleteAccount, Store!NoAccount, Store!Account, TablesAreExplained
<1>4. CASE Store!WithdrawVerification(c)
  BY <1>1, <1>4 DEF Store!WithdrawVerification, Store!Account, TablesAreExplained
<1> QED
  BY <1>2, <1>3, <1>4

LEMMA ReceiptsExpire ==
    ASSUME FlowInv, NEW q \in caReceipts, Store!ExpireCAReceipt(q)
    PROVE  TablesAreExplained
<1> DEFINE expired == [q EXCEPT !.status = "expired"]
<1>1. /\ contributors \in [Contributors -> Store!Account]
      /\ caReceipts \subseteq Store!CAReceipt
      /\ UNCHANGED contributors
      /\ caReceipts' = (caReceipts \ {q}) \cup {expired}
  BY DEF FlowInv, FlowTypes, Store!ExpireCAReceipt
<1>2. expired \in Store!CAReceipt /\ expired.status = "expired"
  BY <1>1 DEF Store!CAReceipt
<1> HIDE DEF expired
<1> QED
  BY <1>1, <1>2 DEF TablesAreExplained

LEMMA ReceiptsAreRecorded ==
    ASSUME FlowInv, NEW c \in Contributors, NEW k \in AttestKeys,
           NEW d \in Challenges, NEW p \in Documents,
           Store!RecordCAReceipt(c, k, d, p)
    PROVE  TablesAreExplained
<1> DEFINE fresh == [contributor |-> c, key |-> k, challenge |-> d,
                     document |-> p, status |-> "open"]
<1>1. /\ contributors \in [Contributors -> Store!Account]
      /\ caReceipts \subseteq Store!CAReceipt
      /\ UNCHANGED contributors
      /\ caReceipts' = caReceipts \cup {fresh}
  BY DEF FlowInv, FlowTypes, Store!RecordCAReceipt
<1>2. fresh \in Store!CAReceipt /\ fresh.status = "open"
  BY DEF Store!CAReceipt
<1> HIDE DEF fresh
<1> QED
  BY <1>1, <1>2 DEF TablesAreExplained

(* An activation of an account: its handler is the evidence. *)
LEMMA ActivationIsExplained ==
    ASSUME FlowInv, NEW h \in Handlers, NEW c \in Contributors,
           NEW d \in Documents, NEW assurance \in Store!Assurances,
           Store!Activated(c, d, assurance),
           Supports(handlers'[h], c, assurance),
           caReceipts' \subseteq Store!CAReceipt,
           \A q \in caReceipts' : q.status = "consumed" =>
              q \in caReceipts \/ Justifies(handlers'[h], q)
    PROVE  TablesAreExplained
<1>1. contributors \in [Contributors -> Store!Account]
  BY DEF FlowInv, FlowTypes
<1>2. contributors' = [contributors EXCEPT ![c].assurance = assurance]
  BY DEF Store!Activated
<1>3. contributors' \in [Contributors -> Store!Account]
  BY <1>1, <1>2 DEF Store!Account
<1>4. /\ contributors'[c].assurance = assurance
      /\ \A b \in Contributors \ {c} : contributors'[b] = contributors[b]
  BY <1>1, <1>2 DEF Store!Account
<1> QED
  BY <1>3, <1>4 DEF TablesAreExplained

LEMMA ActivateVerifiedIDStep ==
    ASSUME FlowInv, NEW h \in Handlers, ActivateVerifiedID(h)
    PROVE  FlowInv'
<1> DEFINE r == handlers[h]
<1>1. /\ r \in Handler /\ Sound(r, ledger)
      /\ r.pc = "deciding" /\ r.mode = "production"
  BY DEF FlowInv, FlowTypes, HandlersSound, ActivateVerifiedID, At
<1>2. /\ r.account \in Contributors /\ r.key \in AttestKeys
      /\ r.liveness # None /\ r.document # None
      /\ r.passport \in Documents /\ r.document \in Challenges
  BY <1>1 DEF Sound, Handler
<1>3. PICK pc \in {"replying", "done"}, outcome \in {"refused", "verified"} :
         handlers' = [handlers EXCEPT ![h].pc = pc, ![h].outcome = outcome]
  BY DEF ActivateVerifiedID, Decided, Ends
<1>4. UNCHANGED ledger
  BY DEF ActivateVerifiedID
<1>5. /\ ChallengesStaySpent /\ HandlersGoOn
      /\ handlers'[h] = [r EXCEPT !.pc = pc, !.outcome = outcome]
  BY <1>1, <1>3, <1>4, AnswerStep
<1>6. ProductionEvidence(handlers'[h], r.account)
      /\ handlers'[h].assurance = r.assurance /\ handlers'[h].key = r.key
      /\ handlers'[h].document = r.document /\ handlers'[h].passport = r.passport
  <2>1. /\ handlers'[h].pc = pc /\ handlers'[h].account = r.account
        /\ handlers'[h].mode = r.mode /\ handlers'[h].liveness = r.liveness
        /\ handlers'[h].document = r.document /\ handlers'[h].key = r.key
        /\ handlers'[h].passport = r.passport
        /\ handlers'[h].assurance = r.assurance
    BY <1>1, <1>5 DEF Handler
  <2> QED
    BY <1>1, <1>2, <2>1 DEF ProductionEvidence, Finished
<1>7. CASE /\ r.assurance = "active_authentication"
           /\ Store!ActivateAA(r.account, r.passport)
  <2>1. Store!Activated(r.account, r.passport, "active_authentication")
        /\ UNCHANGED caReceipts
    BY <1>7 DEF Store!ActivateAA
  <2>2. Supports(handlers'[h], r.account, "active_authentication")
    BY <1>6, <1>7 DEF Supports
  <2>3. caReceipts' \subseteq Store!CAReceipt
    BY <2>1 DEF FlowInv, FlowTypes
  <2>4. TablesAreExplained
    BY <1>2, <2>1, <2>2, <2>3, ActivationIsExplained DEF Store!Assurances
  <2> QED
    BY <1>5, <2>4, ThreeSides
<1>8. CASE /\ r.assurance = "chip_authentication_server"
           /\ Store!ActivateCA(r.account, r.key, r.document, r.passport)
  <2>1. Store!Activated(r.account, r.passport, "chip_authentication_server")
    BY <1>8 DEF Store!ActivateCA
  <2>2. PICK q \in Store!MatchingCAReceipts(r.account, r.key, r.document, r.passport) :
           caReceipts' = (caReceipts \ {q}) \cup {[q EXCEPT !.status = "consumed"]}
    BY <1>8 DEF Store!ActivateCA
  <2> DEFINE spent == [q EXCEPT !.status = "consumed"]
  <2>3. /\ q \in caReceipts /\ caReceipts \subseteq Store!CAReceipt
        /\ q.contributor = r.account /\ q.key = r.key
        /\ q.challenge = r.document /\ q.document = r.passport
    BY DEF Store!MatchingCAReceipts, FlowInv, FlowTypes
  <2>4. /\ spent \in Store!CAReceipt
        /\ spent.contributor = r.account /\ spent.key = r.key
        /\ spent.challenge = r.document /\ spent.document = r.passport
    BY <2>3 DEF Store!CAReceipt
  <2>5. caReceipts' = (caReceipts \ {q}) \cup {spent}
    BY <2>2
  <2> HIDE DEF spent
  <2>6. Justifies(handlers'[h], spent)
    BY <1>6, <2>4 DEF Justifies
  <2>7. Supports(handlers'[h], r.account, "chip_authentication_server")
    BY <1>6, <1>8 DEF Supports
  <2>8. caReceipts' \subseteq Store!CAReceipt
    BY <2>3, <2>4, <2>5
  <2>9. \A x \in caReceipts' : x.status = "consumed" =>
           x \in caReceipts \/ Justifies(handlers'[h], x)
    BY <2>5, <2>6
  <2>10. TablesAreExplained
    BY <1>2, <2>1, <2>7, <2>8, <2>9, ActivationIsExplained DEF Store!Assurances
  <2> QED
    BY <1>5, <2>10, ThreeSides
<1> QED
  BY <1>7, <1>8 DEF ActivateVerifiedID

-----------------------------------------------------------------------------
(* The rest of a request's steps. *)

LEMMA DecisionStep ==
    ASSUME FlowInv, NEW h \in Handlers,
           SubmitForReview(h) \/ Reply(h) \/ FinishCalibration(h) \/ Refuse(h)
    PROVE  FlowInv'
<1>1. UNCHANGED <<contributors, caReceipts, ledger>>
  BY DEF SubmitForReview, Reply, FinishCalibration, Refuse, tables, Store!SubmitReview
<1>2. PICK pc \in {"replying", "done"},
           outcome \in {"refused", "calibration", "verified", "pending",
                        "ca_recorded"} \cup {handlers[h].outcome} :
         /\ handlers' = [handlers EXCEPT ![h].pc = pc, ![h].outcome = outcome]
         /\ handlers[h].pc \notin {"free", "done", "lost"}
         /\ pc = "replying" => handlers[h].pc = "deciding"
  <2>1. CASE SubmitForReview(h)
    BY <2>1 DEF SubmitForReview, Decided, Ends, At
  <2>2. CASE Reply(h)
    BY <2>2 DEF Reply, Ends, At
  <2>3. CASE FinishCalibration(h)
    BY <2>3 DEF FinishCalibration, Ends, At
  <2>4. CASE Refuse(h)
    BY <2>4 DEF Refuse, Ends
  <2> QED
    BY <2>1, <2>2, <2>3, <2>4
<1>3. ChallengesStaySpent /\ HandlersGoOn
  BY <1>1, <1>2, AnswerStep
<1> QED
  BY <1>1, <1>3, TablesStay, ThreeSides

LEMMA RecordReceiptStep ==
    ASSUME FlowInv, NEW h \in Handlers, RecordReceipt(h)
    PROVE  FlowInv'
<1> DEFINE r == handlers[h]
<1>1. r \in Handler /\ Sound(r, ledger) /\ r.pc = "recording"
  BY DEF FlowInv, FlowTypes, HandlersSound, RecordReceipt, At
<1>2. /\ r.account \in Contributors /\ r.key \in AttestKeys
      /\ r.document \in Challenges /\ r.passport \in Documents
  BY <1>1 DEF Sound, Handler
<1>3. TablesAreExplained
  BY <1>2, ReceiptsAreRecorded DEF RecordReceipt
<1>4. UNCHANGED ledger
      /\ handlers' = [handlers EXCEPT ![h].pc = "done", ![h].outcome = "ca_recorded"]
  BY DEF RecordReceipt, Ends
<1>5. ChallengesStaySpent /\ HandlersGoOn
  BY <1>1, <1>4, AnswerStep
<1> QED
  BY <1>3, <1>5, ThreeSides

LEMMA EvidenceStep ==
    ASSUME FlowInv, NEW h \in Handlers,
           \/ \E l \in Challenges :
                 ConsumeLiveness(h, l) \/ \E d \in Challenges : ConsumeEvidence(h, l, d)
           \/ \E p \in Documents, assurance \in WorkerAssurances :
                 VerifyEvidence(h, p, assurance)
           \/ LookUpCA(h)
           \/ CheckAccount(h) \/ CheckDevice(h)
           \/ \E d \in Challenges, p \in Documents : InspectForCA(h, d, p)
           \/ \E c \in Contributors, k \in AttestKeys, mode \in Modes :
                 Start(h, c, k, mode)
    PROVE  FlowInv'
<1>1. UNCHANGED <<contributors, caReceipts>>
  BY DEF ConsumeLiveness, ConsumeEvidence, VerifyEvidence, LookUpCA, CheckAccount,
         CheckDevice, InspectForCA, Start, tables
<1>2. ChallengesStaySpent /\ HandlersGoOn
  BY ConsumeLivenessStep, ConsumeEvidenceStep, VerifyEvidenceStep, LookUpCAStep,
     CheckStep, InspectForCAStep, StartStep
<1> QED
  BY <1>1, <1>2, TablesStay, ThreeSides

-----------------------------------------------------------------------------
(* The surroundings. *)

LEMMA ChallengeStep ==
    ASSUME FlowInv, NEW i \in Challenges,
           \/ LoseChallenge(i)
           \/ \E c \in Contributors, p \in Purposes : IssueChallenge(i, c, p)
    PROVE  FlowInv'
<1>1. UNCHANGED <<contributors, caReceipts, handlers>>
  BY DEF LoseChallenge, IssueChallenge, tables
<1>2. FlowTypes
  BY DEF FlowInv
<1>3. CASE LoseChallenge(i)
  <2>1. Memory!Lose({i})
    BY <1>3 DEF LoseChallenge
  <2>2. ChallengesStaySpent
    BY <1>2, <2>1, LosingKeepsSpent
  <2> QED
    BY <1>1, <2>2, NoneMoves, TablesStay, ThreeSides
<1>4. CASE \E c \in Contributors, p \in Purposes : IssueChallenge(i, c, p)
  <2>1. PICK c \in Contributors, p \in Purposes : Memory!Issue(i, c, p)
    BY <1>4 DEF IssueChallenge
  <2>2. ChallengesStaySpent
    BY <1>2, <2>1, IssuingKeepsSpent
  <2> QED
    BY <1>1, <2>2, NoneMoves, TablesStay, ThreeSides
<1> QED
  BY <1>3, <1>4

LEMMA SurroundingsStep ==
    ASSUME FlowInv,
           \/ \E key \in Contributors \cup AttestKeys : Lock(key) \/ Unlock(key)
           \/ \E c \in Contributors : AccountStep(c)
           \/ TableStep
           \/ Crash
    PROVE  FlowInv'
<1>1. CASE \E key \in Contributors \cup AttestKeys : Lock(key) \/ Unlock(key)
  <2>1. UNCHANGED <<contributors, caReceipts, ledger, handlers>>
    BY <1>1 DEF Lock, Unlock, tables
  <2>2. ChallengesStaySpent
    BY <2>1, ChallengesStay DEF FlowInv
  <2> QED
    BY <2>1, <2>2, NoneMoves, TablesStay, ThreeSides
<1>2. CASE \E c \in Contributors : AccountStep(c)
  <2>1. TablesAreExplained /\ UNCHANGED <<ledger, handlers>>
    BY <1>2, AccountsComeAndGo DEF AccountStep
  <2>2. ChallengesStaySpent
    BY <2>1, ChallengesStay DEF FlowInv
  <2> QED
    BY <2>1, <2>2, NoneMoves, ThreeSides
<1>3. CASE TableStep
  <2>1. TablesAreExplained
    <3>1. CASE \E q \in caReceipts : Store!ExpireCAReceipt(q)
      BY <3>1, ReceiptsExpire
    <3>2. CASE \E t \in Store!Tokens : Store!BanDocument(t)
      BY <3>2, TablesStay DEF Store!BanDocument
    <3>3. CASE \E r \in requests : Store!ApproveRequest(r) \/ Store!CloseRequest(r)
      BY <3>3, TablesStay DEF Store!ApproveRequest, Store!CloseRequest
    <3> QED
      BY <1>3, <3>1, <3>2, <3>3 DEF TableStep
  <2>2. UNCHANGED <<ledger, handlers>>
    BY <1>3 DEF TableStep
  <2>3. ChallengesStaySpent
    BY <2>2, ChallengesStay DEF FlowInv
  <2> QED
    BY <2>1, <2>2, <2>3, NoneMoves, ThreeSides
<1>4. CASE Crash
  <2>1. UNCHANGED <<contributors, caReceipts>>
    BY <1>4 DEF Crash, tables, Store!RotatePepper
  <2> QED
    BY <1>4, <2>1, CrashStep, TablesStay, ThreeSides
<1> QED
  BY <1>1, <1>2, <1>3, <1>4

-----------------------------------------------------------------------------
(* The invariant. *)

LEMMA FlowStarts == Init => FlowInv
<1> SUFFICES ASSUME Init PROVE FlowInv
  OBVIOUS
<1>1. /\ ledger = [i \in Challenges |-> Memory!Blank]
      /\ contributors = [c \in Contributors |-> Store!NoAccount]
      /\ caReceipts = {}
      /\ handlers = [h \in Handlers |-> Free]
  BY DEF Init, Store!Init, Memory!Init
<1>2. Free \in Handler
  BY DEF Free, Handler
<1>3. FlowTypes
  BY <1>1, <1>2 DEF FlowTypes, Memory!LedgerTypeOK, Memory!Blank, Store!NoAccount,
                    Store!Account
<1>4. HandlersSound
  BY <1>1 DEF HandlersSound, Sound, Free
<1>5. VerifiedSupported /\ ConsumedJustified
  BY <1>1 DEF VerifiedSupported, ConsumedJustified, Store!Verified, Store!NoAccount
<1>6. EvidenceUsedOnce
  BY <1>1 DEF EvidenceUsedOnce, Free
<1> QED
  BY <1>3, <1>4, <1>5, <1>6 DEF FlowInv

LEMMA FlowStepsKeepIt ==
    ASSUME FlowInv, [Next]_vars
    PROVE  FlowInv'
<1>1. CASE \E h \in Handlers : ApproveStep(h)
  BY <1>1, EvidenceStep, ActivateVerifiedIDStep, DecisionStep DEF ApproveStep
<1>2. CASE \E h \in Handlers : RecordReceipt(h)
  BY <1>2, RecordReceiptStep
<1>3. CASE \E h \in Handlers :
              \/ \E d \in Challenges, p \in Documents : InspectForCA(h, d, p)
              \/ \E c \in Contributors, k \in AttestKeys, mode \in Modes :
                    Start(h, c, k, mode)
  BY <1>3, EvidenceStep
<1>4. CASE \E i \in Challenges :
              \/ LoseChallenge(i)
              \/ \E c \in Contributors, p \in Purposes : IssueChallenge(i, c, p)
  BY <1>4, ChallengeStep
<1>5. CASE \/ \E key \in Contributors \cup AttestKeys : Lock(key) \/ Unlock(key)
           \/ \E c \in Contributors : AccountStep(c)
           \/ TableStep
           \/ Crash
  BY <1>5, SurroundingsStep
<1>6. CASE UNCHANGED vars
  <2>1. UNCHANGED <<contributors, caReceipts, ledger, handlers>>
    BY <1>6 DEF vars, tables
  <2>2. ChallengesStaySpent
    BY <2>1, ChallengesStay DEF FlowInv
  <2> QED
    BY <2>1, <2>2, NoneMoves, TablesStay, ThreeSides
<1> QED
  BY <1>1, <1>2, <1>3, <1>4, <1>5, <1>6 DEF Next

(* Every handler has proved what its fields say, and every Verified ID and   *)
(* consumed receipt rests on a finished production request.                  *)
THEOREM FlowInvHolds == Spec => []FlowInv
  BY FlowStarts, FlowStepsKeepIt, PTL DEF Spec

(* Two approve requests, however they overlap, never rest on one challenge:  *)
(* the consumption of both nonces between two awaits of the approve handler. *)
THEOREM NoEvidenceTwice == Spec => []EvidenceUsedOnce
<1>1. FlowInv => EvidenceUsedOnce
  BY DEF FlowInv
<1> QED
  BY <1>1, FlowInvHolds, PTL

(* Nobody is verified but through a finished production request of their     *)
(* own, over challenges issued to them for production and used up, with the  *)
(* assurance that the account shows.                                         *)
THEOREM VerifiedRestsOnEvidence == Spec => []VerifiedOnlyWithEvidence
<1>1. FlowInv => VerifiedOnlyWithEvidence
  <2> SUFFICES ASSUME FlowInv, NEW c \in Contributors, Store!Verified(c)
               PROVE  \E h \in Handlers :
                         /\ handlers[h].account = c
                         /\ handlers[h].mode = "production"
                         /\ UsedUp(handlers[h].liveness, c, "liveness")
                         /\ UsedUp(handlers[h].document, c, "document_auth")
                         /\ handlers[h].assurance = contributors[c].assurance
    BY DEF VerifiedOnlyWithEvidence
  <2>1. PICK h \in Handlers : Supports(handlers[h], c, contributors[c].assurance)
    BY DEF FlowInv, VerifiedSupported
  <2>2. Sound(handlers[h], ledger)
    BY DEF FlowInv, HandlersSound
  <2> QED
    BY <2>1, <2>2 DEF Supports, ProductionEvidence, Sound, BurntFor, UsedUp,
                      LivenessPurpose, DocumentPurpose
<1> QED
  BY <1>1, FlowInvHolds, PTL

(* A receipt of server-owned chip authentication is consumed only by the     *)
(* approve request that used up the challenge the chip answered, of the      *)
(* account and device that ran it.                                           *)
THEOREM ReceiptsServeTheirEvidence == Spec => []ReceiptsBoundToEvidence
<1>1. FlowInv => ReceiptsBoundToEvidence
  <2> SUFFICES ASSUME FlowInv, NEW q \in caReceipts, q.status = "consumed"
               PROVE  /\ UsedUp(q.challenge, q.contributor, "document_auth")
                      /\ \E h \in Handlers : /\ handlers[h].account = q.contributor
                                             /\ handlers[h].key = q.key
                                             /\ handlers[h].document = q.challenge
                                             /\ handlers[h].liveness # None
                                             /\ handlers[h].passport = q.document
    BY DEF ReceiptsBoundToEvidence
  <2>1. PICK h \in Handlers : Justifies(handlers[h], q)
    BY DEF FlowInv, ConsumedJustified
  <2>2. Sound(handlers[h], ledger)
    BY DEF FlowInv, HandlersSound
  <2> QED
    BY <2>1, <2>2 DEF Justifies, ProductionEvidence, Sound, BurntFor, UsedUp,
                      DocumentPurpose
<1> QED
  BY <1>1, FlowInvHolds, PTL

-----------------------------------------------------------------------------
(* The handlers and the tables together. *)

LEMMA HandlersCallTheStore ==
    ASSUME FlowInv, NEW h \in Handlers,
           ActivateVerifiedID(h) \/ SubmitForReview(h) \/ RecordReceipt(h)
    PROVE  [Store!Next]_(Store!vars)
<1> DEFINE r == handlers[h]
<1>1. /\ r \in Handler /\ Sound(r, ledger) /\ r.pc \in {"deciding", "recording"}
  BY DEF FlowInv, FlowTypes, HandlersSound, ActivateVerifiedID, SubmitForReview,
         RecordReceipt, At
<1>2. /\ r.account \in Contributors /\ r.passport \in Documents
      /\ r.key \in AttestKeys /\ r.document \in Challenges
  BY <1>1 DEF Sound, Handler
<1>3. CASE SubmitForReview(h)
  BY <1>2, <1>3 DEF SubmitForReview, Store!Next, Store!DocumentStep, Store!vars, tables
<1>4. CASE ActivateVerifiedID(h)
  BY <1>2, <1>4 DEF ActivateVerifiedID, Store!Next, Store!DocumentStep
<1>5. CASE RecordReceipt(h)
  BY <1>2, <1>5 DEF RecordReceipt, Store!Next, Store!DocumentStep
<1> QED
  BY <1>3, <1>4, <1>5

LEMMA StepsOfTheStore ==
    ASSUME FlowInv, [Next]_vars
    PROVE  [Store!Next]_(Store!vars)
<1>1. ASSUME UNCHANGED tables PROVE UNCHANGED Store!vars
  BY <1>1 DEF tables, Store!vars
<1>2. ASSUME NEW h \in Handlers, ApproveStep(h) \/ RecordReceipt(h)
      PROVE  [Store!Next]_(Store!vars)
  BY <1>1, <1>2, HandlersCallTheStore
     DEF ApproveStep, CheckAccount, CheckDevice, ConsumeLiveness, ConsumeEvidence, VerifyEvidence, LookUpCA, Reply,
         FinishCalibration, Refuse
<1>3. ASSUME NEW h \in Handlers,
             \/ \E d \in Challenges, p \in Documents : InspectForCA(h, d, p)
             \/ \E c \in Contributors, k \in AttestKeys, mode \in Modes :
                   Start(h, c, k, mode)
      PROVE  UNCHANGED Store!vars
  BY <1>1, <1>3 DEF Start, InspectForCA
<1>4. ASSUME NEW i \in Challenges,
             LoseChallenge(i) \/ \E c \in Contributors, p \in Purposes : IssueChallenge(i, c, p)
      PROVE  UNCHANGED Store!vars
  BY <1>1, <1>4 DEF LoseChallenge, IssueChallenge
<1>5. ASSUME NEW key \in Contributors \cup AttestKeys, Lock(key) \/ Unlock(key)
      PROVE  UNCHANGED Store!vars
  BY <1>1, <1>5 DEF Lock, Unlock
<1>6. ASSUME NEW c \in Contributors, AccountStep(c)
      PROVE  Store!Next
  BY <1>6 DEF AccountStep, Store!Next, Store!AccountStep
<1>7. CASE TableStep
  BY <1>7 DEF TableStep, Store!Next
<1>8. CASE Crash
  BY <1>1, <1>8 DEF Crash, Store!Next
<1>9. CASE UNCHANGED vars
  BY <1>1, <1>9 DEF vars
<1> QED
  BY <1>2, <1>3, <1>4, <1>5, <1>6, <1>7, <1>8, <1>9 DEF Next

(* However the handlers overlap, crash and lose replies, all they ever do to *)
(* the tables is to call the functions of VerificationStore: its invariants  *)
(* and its refinement of DocumentClaims are those of the running server.     *)
THEOREM FlowUsesTheStore == Spec => Store!Spec
<1>1. Init => Store!Init
  BY DEF Init
<1> QED
  BY <1>1, FlowInvHolds, StepsOfTheStore, PTL DEF Spec, Store!Spec

(* VerificationStore with what is proved about it; the two instances say the *)
(* same.                                                                     *)
StoreFacts == INSTANCE VerificationStoreProofs

LEMMA OneStore == Store!Spec => StoreFacts!Spec
<1>1. Store!Init => StoreFacts!Init
  BY DEF
      Store!Init, Store!Generations, Store!Tokens, Store!NoAccount, Store!NoRow,
      StoreFacts!Init, StoreFacts!Generations, StoreFacts!Tokens,
      StoreFacts!NoAccount, StoreFacts!NoRow
<1>2. [Store!Next]_(Store!vars) => [StoreFacts!Next]_(StoreFacts!vars)
  BY Zenon DEF
      Store!Generations, Store!Tokens, Store!DocumentOf, Store!GenerationOf,
      Store!NoAccount, Store!NoRow, Store!Verified, Store!HasRow, Store!OwnsRow,
      Store!CurrentToken, Store!LegacyTokens, Store!KnownTokens, Store!KnownRows,
      Store!RequestsOn, Store!RequestsOf, Store!Newest, Store!NewestBelongsTo,
      Store!FreshRequestIds, Store!ReviewVerdict, Store!TakenRows,
      Store!SubmitOutcome, Store!EffectiveTokens, Store!SubmitReview,
      Store!ActivationVerdict, Store!BlockingRows, Store!Moved,
      Store!RequestsAfterActivation, Store!BreaksUniqueIndex,
      Store!ActivateOutcome, Store!Activated, Store!ActivateAA,
      Store!MatchingCAReceipts, Store!ActivateCA, Store!RecordCAReceipt,
      Store!ExpireCAReceipt, Store!Register, Store!DeleteAccount,
      Store!BanDocument, Store!BanContributor, Store!WithdrawVerification,
      Store!ApproveRequest, Store!CloseRequest, Store!RotatePepper,
      Store!AccountStep, Store!DocumentStep, Store!Next, Store!vars,
      StoreFacts!Generations, StoreFacts!Tokens, StoreFacts!DocumentOf,
      StoreFacts!GenerationOf, StoreFacts!NoAccount, StoreFacts!NoRow,
      StoreFacts!Verified, StoreFacts!HasRow, StoreFacts!OwnsRow,
      StoreFacts!CurrentToken, StoreFacts!LegacyTokens, StoreFacts!KnownTokens,
      StoreFacts!KnownRows, StoreFacts!RequestsOn, StoreFacts!RequestsOf,
      StoreFacts!Newest, StoreFacts!NewestBelongsTo, StoreFacts!FreshRequestIds,
      StoreFacts!ReviewVerdict, StoreFacts!TakenRows, StoreFacts!SubmitOutcome,
      StoreFacts!EffectiveTokens, StoreFacts!SubmitReview,
      StoreFacts!ActivationVerdict, StoreFacts!BlockingRows, StoreFacts!Moved,
      StoreFacts!RequestsAfterActivation, StoreFacts!BreaksUniqueIndex,
      StoreFacts!ActivateOutcome, StoreFacts!Activated, StoreFacts!ActivateAA,
      StoreFacts!MatchingCAReceipts, StoreFacts!ActivateCA,
      StoreFacts!RecordCAReceipt, StoreFacts!ExpireCAReceipt, StoreFacts!Register,
      StoreFacts!DeleteAccount, StoreFacts!BanDocument, StoreFacts!BanContributor,
      StoreFacts!WithdrawVerification, StoreFacts!ApproveRequest,
      StoreFacts!CloseRequest, StoreFacts!RotatePepper, StoreFacts!AccountStep,
      StoreFacts!DocumentStep, StoreFacts!Next, StoreFacts!vars
<1> QED
  BY <1>1, <1>2, PTL DEF Store!Spec, StoreFacts!Spec

(* One passport never serves two accounts, whatever approve requests of      *)
(* different people are under way for it, while every pepper is known.       *)
THEOREM OneAccountWhileRequestsOverlap ==
    ASSUME MaxRotations <= 1
    PROVE  Spec => []Store!OneAccountPerDocument
<1>1. StoreFacts!Spec => []StoreFacts!OneAccountPerDocument
  BY StoreFacts!OneAccount, TablesAssumption
<1>2. StoreFacts!OneAccountPerDocument => Store!OneAccountPerDocument
  BY Zenon DEF
      Store!OneAccountPerDocument, Store!InterestedIn, Store!Claimants,
      Store!Applicants, Store!TokensOf, Store!Generations, Store!DocumentOf,
      StoreFacts!OneAccountPerDocument, StoreFacts!InterestedIn,
      StoreFacts!Claimants, StoreFacts!Applicants, StoreFacts!TokensOf,
      StoreFacts!Generations, StoreFacts!DocumentOf
<1> QED
  BY <1>1, <1>2, FlowUsesTheStore, OneStore, PTL

(* A Verified ID always has the claim, the receipt and, if it came from      *)
(* server-owned chip authentication, the transcript of its own account,      *)
(* whatever the handlers and the moderators do meanwhile.                    *)
THEOREM BackedWhileRequestsOverlap == Spec => []Store!VerifiedIsBacked
<1>1. StoreFacts!Spec => []StoreFacts!VerifiedIsBacked
  BY StoreFacts!VerifiedIDsAreBacked, TablesAssumption
<1>2. StoreFacts!VerifiedIsBacked => Store!VerifiedIsBacked
  BY Zenon DEF
      Store!VerifiedIsBacked, Store!BackedBy, Store!OwnsRow, Store!HasRow,
      Store!Verified, Store!DocumentOf, Store!Tokens, Store!Generations,
      StoreFacts!VerifiedIsBacked, StoreFacts!BackedBy, StoreFacts!OwnsRow,
      StoreFacts!HasRow, StoreFacts!Verified, StoreFacts!DocumentOf,
      StoreFacts!Tokens, StoreFacts!Generations
<1> QED
  BY <1>1, <1>2, FlowUsesTheStore, OneStore, PTL
=============================================================================
