------------------------- MODULE PassiveAuthProofs -------------------------
(***************************************************************************)
(* That permits are exact, that "passed" is said on true grounds only,     *)
(* that undisturbed checks decide rightly and never by a snapshot that is  *)
(* too old, for any number of callers, permits, signers and replacements.  *)
(***************************************************************************)
EXTENDS PassiveAuth, FiniteSetTheorems, TLAPS

USE PoolAssumption, FilesAssumption, NoneAssumption

-----------------------------------------------------------------------------
(* What is verified *)

\* A signature openssl accepts is valid.
LEMMA AcceptedIsValid ==
    ASSUME NEW sod \in SOD, NEW bundle
    PROVE  /\ CmsOutcome(sod, bundle) \in {"groups", "fallback", "failed", "unavailable"}
           /\ CmsOutcome(sod, bundle) = "groups" => sod.signature = "valid"
BY DEF CmsOutcome, SOD

\* The groups match exactly if the client holds out the document the state
\* signed.
LEMMA MatchIsAuthentic ==
    ASSUME NEW e \in Evidence
    PROVE  GroupsMatch(e) <=> Authentic(e)
<1>1. ASSUME GroupsMatch(e) PROVE Authentic(e)
  <2> DEFINE omitted == {g \in e.signed : e.sent[g] = "nothing"}
  <2>1. omitted \in SUBSET (IF e.evaluationOnly THEN ChipGroups ELSE {})
    BY <1>1 DEF GroupsMatch, Evidence
  <2>2. e.sent = [g \in Groups |-> IF g \in omitted THEN "nothing"
                                   ELSE [h \in Groups |->
                                           IF h \in e.signed THEN "same" ELSE "nothing"][g]]
    BY <1>1 DEF GroupsMatch, Evidence
  <2> QED BY <1>1, <2>1, <2>2 DEF Authentic, GroupsMatch
<1>2. ASSUME Authentic(e) PROVE GroupsMatch(e)
  <2>1. PICK omitted \in SUBSET (IF e.evaluationOnly THEN ChipGroups ELSE {}) :
           e.sent = [g \in Groups |-> IF g \in omitted THEN "nothing"
                                   ELSE [h \in Groups |->
                                           IF h \in e.signed THEN "same" ELSE "nothing"][g]]
    BY <1>2 DEF Authentic
  <2> QED BY <1>2, <2>1 DEF Authentic, GroupsMatch, Evidence
<1> QED BY <1>1, <1>2

\* What the files say of a signer, each ground by itself.
ListedNow(signer) ==
    /\ files.active.sound /\ signer \in files.active.listed
    /\ Fresh(files.active.generated)
Unrevoked(signer) ==
    /\ signer \notin files.crl.revokes
    /\ signer \in files.crl.covers => now <= files.crl.until

LEMMA GroundsMean ==
    ASSUME NEW signer, NEW given, given = GroundsFor(signer, files, now)
    PROVE  /\ given \in SUBSET Grounds
           /\ "anchored" \in given <=> signer \in files.anchors
           /\ "unrevoked" \in given <=> Unrevoked(signer)
           /\ "cleared" \in given <=>
                 Unrevoked(signer) /\ signer \in files.crl.covers /\ ~strict
           /\ "listed" \in given <=> ListedNow(signer)
BY DEF GroundsFor, Grounds, Unrevoked, ListedNow, Fresh

LEMMA GroundsType ==
    ASSUME NEW signer, NEW fs, NEW time PROVE GroundsFor(signer, fs, time) \subseteq Grounds
BY DEF GroundsFor

-----------------------------------------------------------------------------
(* The records keep their types. *)

JobTypes == job \in [Requests -> Running \cup Decided \cup {None}]

LEMMA UnderWayType ==
    ASSUME JobTypes, NEW r \in Requests, UnderWay(r) PROVE job[r] \in Running
BY DEF JobTypes, UnderWay, Running, Decided, Stages, Verdicts

LEMMA VerdictType ==
    ASSUME NEW r \in Requests, NEW status \in Verdicts, NEW trouble \in Troubles
    PROVE  Verdict(r, status, trouble) \in Decided
<1>1. Expected(r) \in {"pass", "refuse", "either"}
  BY DEF Expected
<1> QED BY <1>1 DEF Verdict, Decided

\* What looking at the signature and at the groups makes of a job.
Bundle(readable) == IF readable THEN files.lookup ELSE {}
Trouble(readable) == IF readable THEN "none" ELSE "other"
Signed(r, sod, readable) ==
    [job[r] EXCEPT !.stage = CmsOutcome(sod, Bundle(readable)), !.signer = sod.signer,
                   !.genuine = (sod.signature = "valid"), !.trouble = Trouble(readable),
                   !.grounds = GroundsFor(sod.signer, files, now)]
Matched(r, e) ==
    [job[r] EXCEPT !.stage = "chain", !.genuine = job[r].genuine /\ Authentic(e)]
Unmatched(r, e) ==
    [Verdict(r, "failed", job[r].trouble) EXCEPT
        !.expected = IF Authentic(e) THEN "pass" ELSE "refuse"]
Stamped(r) == [job[r] EXCEPT !.stage = "bundle", !.mtime = files.active.mtime]
Unread(r) == [job[r] EXCEPT !.stage = "active", !.trouble = "crl"]

LEMMA CmsEffect ==
    ASSUME NEW r \in Requests, VerifyCMS(r)
    PROVE  \E readable \in BOOLEAN, sod \in SOD :
              IF CmsOutcome(sod, Bundle(readable)) \in Verdicts
              THEN job' = [job EXCEPT ![r] =
                      Verdict(r, CmsOutcome(sod, Bundle(readable)), Trouble(readable))]
              ELSE job' = [job EXCEPT ![r] = Signed(r, sod, readable)]
<1>1. PICK readable \in BOOLEAN :
         \E seen \in {<<CmsOutcome(sod, Bundle(readable)), sod.signer,
                        sod.signature = "valid">> : sod \in SOD} :
            IF seen[1] \in Verdicts
            THEN job' = [job EXCEPT ![r] = Verdict(r, seen[1], Trouble(readable))]
            ELSE job' = [job EXCEPT ![r] =
                    [job[r] EXCEPT !.stage = seen[1], !.signer = seen[2],
                                   !.genuine = seen[3], !.trouble = Trouble(readable),
                                   !.grounds = GroundsFor(seen[2], files, now)]]
  BY DEF VerifyCMS, Bundle, Trouble
<1>2. PICK sod \in SOD :
         LET seen == <<CmsOutcome(sod, Bundle(readable)), sod.signer,
                       sod.signature = "valid">> IN
            IF seen[1] \in Verdicts
            THEN job' = [job EXCEPT ![r] = Verdict(r, seen[1], Trouble(readable))]
            ELSE job' = [job EXCEPT ![r] =
                    [job[r] EXCEPT !.stage = seen[1], !.signer = seen[2],
                                   !.genuine = seen[3], !.trouble = Trouble(readable),
                                   !.grounds = GroundsFor(seen[2], files, now)]]
  BY <1>1
<1> QED BY <1>2 DEF Signed

LEMMA GroupsEffect ==
    ASSUME NEW r \in Requests, MatchGroups(r)
    PROVE  \E e \in Evidence :
              IF GroupsMatch(e) THEN job' = [job EXCEPT ![r] = Matched(r, e)]
              ELSE job' = [job EXCEPT ![r] = Unmatched(r, e)]
<1>1. PICK outcome \in GroupOutcomes :
         IF outcome[1]
         THEN job' = [job EXCEPT ![r] =
                 [job[r] EXCEPT !.stage = "chain", !.genuine = job[r].genuine /\ outcome[2]]]
         ELSE job' = [job EXCEPT ![r] = [Verdict(r, "failed", job[r].trouble) EXCEPT
                         !.expected = IF outcome[2] THEN "pass" ELSE "refuse"]]
  BY DEF MatchGroups
<1>2. PICK e \in Evidence : outcome = <<GroupsMatch(e), Authentic(e)>>
  BY DEF GroupOutcomes
<1> QED BY <1>1, <1>2 DEF Matched, Unmatched

\* A step of a check changes its own job, and at most the cache besides.
LEMMA CheckEffect ==
    ASSUME TypeOK, NEW r \in Requests, Check(r)
    PROVE  /\ UnderWay(r)
           /\ UNCHANGED <<running, waiters, files, now, strict>>
           /\ \E next \in Running \cup Decided : job' = [job EXCEPT ![r] = next]
<1>1. UnderWay(r)
  BY DEF Check, VerifyCMS, Fallback, MatchGroups, VerifyChain, LookForCrl, CheckCrl,
         StatActive, ReadActive, CheckIssuer, Disturbed, At, UnderWay, Stages
<1>2. job[r] \in Running /\ job[r].trouble \in Troubles
  BY <1>1, UnderWayType DEF TypeOK, JobTypes, Running
<1> DEFINE Typed == \E next \in Running \cup Decided : job' = [job EXCEPT ![r] = next]
<1>3. \A stage \in Stages : [job[r] EXCEPT !.stage = stage] \in Running
  BY <1>2 DEF Running
<1>4. ASSUME NEW stage \in Stages, Proceed(r, stage) PROVE Typed
  BY <1>3, <1>4 DEF Proceed
<1>5. ASSUME NEW status \in Verdicts, Conclude(r, status) PROVE Typed
  BY <1>2, <1>5, VerdictType DEF Conclude
<1>6. ASSUME NEW outcome \in Stages \cup Verdicts, Step(r, outcome) PROVE Typed
  BY <1>4, <1>5, <1>6 DEF Step
<1>7. ASSUME NEW next \in Running \cup Decided, job' = [job EXCEPT ![r] = next]
      PROVE  Typed
  BY <1>7
<1> HIDE DEF Typed
<1>8. UNCHANGED <<running, waiters, files, now, strict>>
  BY DEF Check, VerifyCMS, Fallback, MatchGroups, VerifyChain, LookForCrl, CheckCrl,
         StatActive, ReadActive, CheckIssuer, Disturbed, ConsultCache, Conclude, Proceed,
         Step, Unchained
<1>9. ASSUME VerifyCMS(r) PROVE Typed
  <2>1. PICK readable \in BOOLEAN, sod \in SOD :
           IF CmsOutcome(sod, Bundle(readable)) \in Verdicts
           THEN job' = [job EXCEPT ![r] =
                   Verdict(r, CmsOutcome(sod, Bundle(readable)), Trouble(readable))]
           ELSE job' = [job EXCEPT ![r] = Signed(r, sod, readable)]
    BY <1>9, CmsEffect
  <2> DEFINE outcome == CmsOutcome(sod, Bundle(readable))
  <2>2. sod.signer \in Signers /\ Trouble(readable) \in Troubles
    BY DEF SOD, Trouble, Troubles
  <2>3. CASE outcome \in Verdicts
    BY <1>7, <2>1, <2>2, <2>3, VerdictType
  <2>4. CASE outcome \notin Verdicts
    <3>1. outcome \in Stages
      BY <2>4, AcceptedIsValid DEF Verdicts, Stages
    <3>2. Signed(r, sod, readable) \in Running
      BY <1>2, <2>2, <3>1, GroundsType DEF Signed, Running
    <3> QED BY <1>7, <2>1, <2>4, <3>2
  <2> QED BY <2>3, <2>4
<1>10. ASSUME Fallback(r) PROVE Typed
  BY <1>4, <1>5, <1>10 DEF Fallback, Stages, Verdicts
<1>11. ASSUME MatchGroups(r) PROVE Typed
  <2>1. PICK e \in Evidence :
           IF GroupsMatch(e) THEN job' = [job EXCEPT ![r] = Matched(r, e)]
           ELSE job' = [job EXCEPT ![r] = Unmatched(r, e)]
    BY <1>11, GroupsEffect
  <2>2. Matched(r, e) \in Running
    BY <1>2 DEF Matched, Running, Stages
  <2>3. Verdict(r, "failed", job[r].trouble) \in Decided
    BY <1>2, VerdictType DEF Verdicts
  <2>4. Unmatched(r, e) \in Decided
    BY <2>3 DEF Unmatched, Decided
  <2> QED BY <1>7, <2>1, <2>2, <2>4
<1>12. ASSUME Unchained(r) PROVE Typed
  BY <1>5, <1>12 DEF Unchained, Verdicts
<1>13. ASSUME VerifyChain(r) PROVE Typed
  BY <1>4, <1>5, <1>12, <1>13 DEF VerifyChain, Stages, Verdicts
<1>14. ASSUME LookForCrl(r) PROVE Typed
  <2>1. Unread(r) \in Running
    BY <1>2 DEF Unread, Running, Stages, Troubles
  <2>2. job' = [job EXCEPT ![r] = Unread(r)] => Typed
    BY <1>7, <2>1
  <2>3. Proceed(r, "active") \/ Proceed(r, "crl_check")
        \/ job' = [job EXCEPT ![r] = Unread(r)]
    BY <1>14 DEF LookForCrl, Unread
  <2> QED BY <1>4, <2>2, <2>3 DEF Stages
<1>15. ASSUME CheckCrl(r) PROVE Typed
  <2>1. CrlOutcome(job[r].signer) \in Stages \cup Verdicts
    BY DEF CrlOutcome, Stages, Verdicts
  <2> QED BY <1>6, <1>12, <1>15, <2>1 DEF CheckCrl
<1>16. \A listed : Listed(job[r].signer, listed) \in Stages \cup Verdicts
  BY DEF Listed, Stages, Verdicts
<1>17. ASSUME StatActive(r) PROVE Typed
  <2>1. CASE ConsultCache(r)
    BY <1>6, <1>16, <2>1 DEF ConsultCache, Verdicts
  <2>2. CASE ~Cached
    <3>1. job' = [job EXCEPT ![r] = Stamped(r)]
      BY <1>17, <2>2 DEF StatActive, ConsultCache, Stamped
    <3>2. Stamped(r) \in Running
      BY <1>2 DEF Stamped, TypeOK, Files, Snapshot, Running, Stages
    <3> QED BY <1>7, <3>1, <3>2
  <2> QED BY <1>17, <2>1, <2>2 DEF StatActive
<1>18. ASSUME ReadActive(r) PROVE Typed
  BY <1>5, <1>6, <1>16, <1>18 DEF ReadActive, Verdicts
<1>19. ASSUME CheckIssuer(r) PROVE Typed
  BY <1>5, <1>19 DEF CheckIssuer, Verdicts
<1>20. ASSUME Disturbed(r) PROVE Typed
  BY <1>7, <1>20, VerdictType DEF Disturbed, Verdicts, Troubles
<1> QED BY <1>1, <1>8, <1>9, <1>10, <1>11, <1>13, <1>14, <1>15, <1>17, <1>18, <1>19, <1>20
        DEF Check, Typed

\* A change of a file or of the time overtakes the checks under way.
LEMMA OvertakenEffect ==
    ASSUME JobTypes, NEW fs, NEW time, NEW r \in Requests
    PROVE  LET next == Overtaken(fs, time)[r] IN
           /\ next \in Running \cup Decided \cup {None}
           /\ UnderWay(r) => /\ next \in Running /\ ~next.steady
                             /\ next.stage = job[r].stage /\ next.mtime = job[r].mtime
                             /\ next.genuine = job[r].genuine
                             /\ next.signer = job[r].signer
                             /\ next.trouble = job[r].trouble
                             /\ next.grounds = job[r].grounds
                                    \cup GroundsFor(job[r].signer, fs, time)
           /\ ~UnderWay(r) => next = job[r]
<1> DEFINE new == GroundsFor(job[r].signer, fs, time)
<1>1. ASSUME UnderWay(r)
      PROVE  Overtaken(fs, time)[r] =
                [job[r] EXCEPT !.steady = FALSE, !.grounds = job[r].grounds \cup new]
  BY <1>1, UnderWayType DEF Overtaken, Running
<1>2. ASSUME UnderWay(r) PROVE job[r] \in Running
  BY <1>2, UnderWayType
<1>3. ~UnderWay(r) => Overtaken(fs, time)[r] = job[r]
  BY DEF Overtaken
<1>4. new \subseteq Grounds
  BY GroundsType
<1> HIDE DEF new
<1>5. ASSUME UnderWay(r)
      PROVE  [job[r] EXCEPT !.steady = FALSE, !.grounds = job[r].grounds \cup new] \in Running
  BY <1>2, <1>4, <1>5 DEF Running
<1> QED BY <1>1, <1>2, <1>3, <1>5 DEF Running, JobTypes, new

LEMMA InitTypes == Init => TypeOK
<1> SUFFICES ASSUME Init PROVE TypeOK
  OBVIOUS
<1>1. files \in Files
  <2>1. files.crl \in Crl /\ files.active \in Snapshot
    BY DEF Init, Crl, Snapshot
  <2> QED BY <2>1 DEF Init, Files
<1> QED BY <1>1 DEF Init, TypeOK

LEMMA ReplacedTypes == ASSUME TypeOK, ReplaceFile PROVE files' \in Files
<1>1. files \in Files /\ files.version + 1 \in 0..MaxReplacements
  <2>1. files.version < MaxReplacements
    BY DEF ReplaceFile
  <2> QED BY <2>1 DEF TypeOK, Files
<1> DEFINE next == [files EXCEPT !.version = files.version + 1]
<1>2. next \in Files
  BY <1>1 DEF Files
<1>3. \/ \E list \in SUBSET Signers : files' = [next EXCEPT !.anchors = list]
      \/ \E list \in SUBSET Signers : files' = [next EXCEPT !.lookup = list]
      \/ \E crl \in Crl : files' = [next EXCEPT !.crl = crl]
      \/ \E snapshot \in Snapshot : files' = [next EXCEPT !.active = snapshot]
  BY DEF ReplaceFile
<1> HIDE DEF next
<1> QED BY <1>2, <1>3 DEF Files

-----------------------------------------------------------------------------
(* The pool *)

Busy == {r \in Requests : job[r] # None}

\* A caller stands in line once.
InLine == \A i, j \in DOMAIN waiters : waiters[i] = waiters[j] => i = j

PoolInv == PermitsExact /\ InLine

LEMMA BusyFinite == IsFiniteSet(Busy) /\ Cardinality(Busy) \in Nat
<1>1. Busy \in SUBSET Requests
  BY DEF Busy
<1> QED BY <1>1, FS_Subset, FS_CardinalityType

LEMMA NewJobType == NewJob \in Running /\ NewJob # None
<1>1. NewJob \in Running
  BY DEF NewJob, Running, Stages, Troubles
<1> QED BY <1>1

LEMMA AcquireStep ==
    ASSUME TypeOK, PoolInv, NEW r \in Requests, Acquire(r)
    PROVE  TypeOK' /\ PoolInv'
<1> USE DEF TypeOK, PoolInv
<1>1. CASE TakePermit(r)
  <2>1. waiters = <<>> /\ running + 1 \in 0..MaxConcurrent /\ r \notin Busy
    BY <1>1 DEF TakePermit, PermitsExact, Acquire, Busy
  <2>2. Busy' = Busy \cup {r}
    BY <1>1, NewJobType DEF TakePermit, Busy
  <2>3. Cardinality(Busy') = Cardinality(Busy) + 1
    BY <2>1, <2>2, BusyFinite, FS_AddElement
  <2>4. TypeOK'
    BY <1>1, <2>1, NewJobType DEF TakePermit, Acquire
  <2> QED BY <1>1, <2>1, <2>3, <2>4 DEF TakePermit, Acquire, PermitsExact, Waiting, InLine, Busy
<1>2. CASE Queue(r)
  <2>1. running = MaxConcurrent /\ job' = job /\ running' = running
        /\ waiters' = Append(waiters, r) /\ ~Waiting(r) /\ job[r] = None
    BY <1>2 DEF Queue, PermitsExact, Acquire
  <2>2. TypeOK'
    BY <1>2 DEF Queue, Acquire
  <2>3. InLine'
    BY <2>1 DEF InLine, Waiting
  <2>4. \A q \in Requests : Waiting(q)' => Waiting(q) \/ q = r
    BY <2>1 DEF Waiting
  <2> QED BY <2>1, <2>2, <2>3, <2>4 DEF PermitsExact
<1> QED BY <1>1, <1>2 DEF Acquire

LEMMA ReleaseStep ==
    ASSUME TypeOK, PoolInv, NEW r \in Requests, Release(r)
    PROVE  TypeOK' /\ PoolInv'
<1> USE DEF TypeOK, PoolInv
<1>1. r \in Busy /\ ~Waiting(r)
  BY DEF Release, Concluded, Busy, PermitsExact
<1>2. CASE FreePermit(r)
  <2>1. Busy' = Busy \ {r} /\ running' = running - 1 /\ waiters = <<>> /\ waiters' = <<>>
    BY <1>2 DEF FreePermit, Busy
  <2>2. Cardinality(Busy') = Cardinality(Busy) - 1
    BY <1>1, <2>1, BusyFinite, FS_RemoveElement
  <2>3. running = Cardinality(Busy) /\ running' \in 0..MaxConcurrent
    <3>1. Cardinality(Busy) - 1 \in Nat
      BY <2>1, <2>2, <1>1, BusyFinite, FS_RemoveElement, FS_CardinalityType
    <3> QED BY <2>1, <3>1 DEF PermitsExact, Busy
  <2>4. TypeOK'
    BY <1>2, <2>1, <2>3 DEF FreePermit, Release
  <2> QED BY <2>1, <2>2, <2>3, <2>4 DEF PermitsExact, Waiting, InLine, Busy
<1>3. CASE HandOver(r)
  <2> DEFINE h == Head(waiters)
  <2>1. h \in Requests /\ Waiting(h) /\ h # r /\ h \notin Busy
    BY <1>1, <1>3 DEF HandOver, Waiting, PermitsExact, Busy
  <2>2. /\ job' = [job EXCEPT ![r] = None, ![h] = NewJob]
        /\ waiters' = Tail(waiters) /\ running' = running
    BY <1>3 DEF HandOver
  <2>3. Busy' = (Busy \ {r}) \cup {h}
    BY <2>1, <2>2, NewJobType DEF Busy
  <2>4. Cardinality(Busy \ {r}) = Cardinality(Busy) - 1 /\ IsFiniteSet(Busy \ {r})
    BY <1>1, BusyFinite, FS_RemoveElement
  <2>5. Cardinality((Busy \ {r}) \cup {h}) = Cardinality(Busy \ {r}) + 1
    BY <2>1, <2>4, FS_AddElement
  <2>6. Cardinality(Busy') = Cardinality(Busy)
    BY <2>3, <2>4, <2>5, BusyFinite
  <2>7. TypeOK'
    <3>1. waiters' \in Seq(Requests) /\ Len(waiters') <= MaxWaiters
      BY <1>3, <2>2 DEF HandOver
    <3>2. job' \in [Requests -> Running \cup Decided \cup {None}]
      BY <2>1, <2>2, NewJobType
    <3> QED BY <2>2, <3>1, <3>2 DEF Release
  <2>8. InLine'
    BY <1>3, <2>2 DEF InLine, HandOver
  <2>9. \A q \in Requests : Waiting(q)' => Waiting(q) /\ q # h
    BY <1>3, <2>2 DEF InLine, HandOver, Waiting
  <2> QED BY <1>1, <1>3, <2>1, <2>2, <2>6, <2>7, <2>8, <2>9 DEF PermitsExact, Busy, HandOver
<1> QED BY <1>2, <1>3 DEF Release

LEMMA SameBusy ==
    ASSUME PoolInv, UNCHANGED <<running, waiters>>, \A r \in Requests : job'[r] = None <=> job[r] = None
    PROVE  PoolInv'
<1>1. Busy' = Busy
  BY DEF Busy
<1> QED BY <1>1 DEF PoolInv, PermitsExact, InLine, Waiting, Busy

LEMMA CheckStep ==
    ASSUME TypeOK, PoolInv, NEW r \in Requests, Check(r)
    PROVE  TypeOK' /\ PoolInv'
<1>1. PICK next \in Running \cup Decided : job' = [job EXCEPT ![r] = next]
  BY CheckEffect
<1>2. UNCHANGED <<running, waiters, files, now, strict>> /\ UnderWay(r)
  BY CheckEffect
<1>3. PoolInv'
  BY <1>1, <1>2, SameBusy DEF UnderWay, TypeOK
<1>4. cache' \in {None} \cup [mtime : 0..MaxReplacements, listed : SUBSET Signers,
                              generated : 0..MaxNow]
  <2>1. UNCHANGED cache \/ ReadActive(r)
    BY DEF Check, VerifyCMS, Fallback, MatchGroups, VerifyChain, LookForCrl, CheckCrl,
           StatActive, CheckIssuer, Disturbed
  <2>2. job[r].mtime \in 0..MaxReplacements
    BY <1>2, UnderWayType DEF TypeOK, JobTypes, Running
  <2>3. files.active.listed \subseteq Signers /\ files.active.generated \in 0..MaxNow
    BY DEF TypeOK, Files, Snapshot
  <2> QED BY <2>1, <2>2, <2>3 DEF ReadActive, TypeOK
<1> QED BY <1>1, <1>2, <1>3, <1>4 DEF TypeOK

LEMMA PoolStep == ASSUME TypeOK, PoolInv, [Next]_vars PROVE TypeOK' /\ PoolInv'
<1>1. ASSUME job' = Overtaken(files', now'), UNCHANGED <<running, waiters>>
      PROVE  PoolInv' /\ JobTypes'
  <2> DEFINE next == Overtaken(files', now')
  <2>1. \A r \in Requests : /\ next[r] \in Running \cup Decided \cup {None}
                            /\ next[r] = None <=> job[r] = None
    BY OvertakenEffect DEF TypeOK, JobTypes, UnderWay
  <2>2. next = [r \in Requests |-> next[r]]
    BY DEF Overtaken
  <2> HIDE DEF next
  <2> QED BY <1>1, <2>1, <2>2, SameBusy DEF JobTypes, next
<1>2. CASE ReplaceFile
  BY <1>1, <1>2, ReplacedTypes DEF ReplaceFile, TypeOK, JobTypes
<1>3. CASE Tick
  BY <1>1, <1>3 DEF Tick, TypeOK, JobTypes
<1>4. CASE UNCHANGED vars
  BY <1>4 DEF vars, TypeOK, PoolInv, PermitsExact, InLine, Waiting
<1> QED BY <1>2, <1>3, <1>4, AcquireStep, ReleaseStep, CheckStep DEF Next

LEMMA InitPool == Init => PoolInv
<1> SUFFICES ASSUME Init PROVE PoolInv
  OBVIOUS
<1>1. Busy = {} /\ running = 0 /\ waiters = <<>> /\ \A r \in Requests : job[r] = None
  BY DEF Init, Busy
<1>2. Cardinality(Busy) = 0
  BY <1>1, FS_EmptySet
<1>3. PermitsExact
  BY <1>1, <1>2 DEF PermitsExact, Busy
<1> QED BY <1>1, <1>3 DEF PoolInv, InLine

LEMMA PoolInductive == Spec => [](TypeOK /\ PoolInv)
BY InitPool, InitTypes, PoolStep, PTL DEF Spec

\* The records keep their types, the queue its limit.
THEOREM PassiveTypeCorrect == Spec => []TypeOK
BY PoolInductive, PTL

\* Permits are as many as checks under way, and nobody waits while one is free
\* (acquire and release), whoever ends first.
THEOREM PermitsStayExact == Spec => []PermitsExact
<1>1. PoolInv => PermitsExact
  BY DEF PoolInv
<1> QED BY <1>1, PoolInductive, PTL

-----------------------------------------------------------------------------
(* Verdicts *)

\* What a check under way has established, whatever happened meanwhile.
Traced(check) ==
    /\ check.mtime <= files.version
    /\ check.stage # "cms" => GroundsFor(check.signer, files, now) \subseteq check.grounds
    /\ check.stage \notin {"cms", "fallback"} => check.genuine
    /\ check.stage \in {"crl", "crl_check", "active", "bundle"} => "anchored" \in check.grounds
    /\ check.trouble = "crl" => check.stage \in {"active", "bundle", "issuer"}
    /\ check.stage \in {"active", "bundle"} =>
          check.trouble = "crl" \/ "unrevoked" \in check.grounds
    /\ check.stage = "issuer" => Sufficient(check.grounds, check.trouble)

\* And one whose surroundings have not changed.
Undisturbed(check) ==
    /\ check.stage # "cms" => check.grounds = GroundsFor(check.signer, files, now)
    /\ check.stage = "crl_check" => files.crl.present
    /\ check.stage \in {"active", "bundle"} =>
          check.trouble = "crl" \/ "cleared" \notin check.grounds

Sound(check) == Traced(check) /\ (check.steady => Undisturbed(check))

Settled(verdict) ==
    /\ verdict.expected = "pass" /\ verdict.trouble = "none" => verdict.stage = "passed"
    /\ verdict.expected = "refuse" => verdict.stage # "passed"

Fine(r) == (UnderWay(r) => Sound(job[r])) /\ (Concluded(r) => Settled(job[r]))

\* The cache repeats the snapshot there is, unless that is newer.
CacheSound ==
    /\ files.active.mtime <= files.version
    /\ cache # None => cache.mtime <= files.version
    /\ Cached => /\ files.active.sound /\ cache.listed = files.active.listed
                 /\ cache.generated = files.active.generated

VerdictInv == TypeOK /\ PoolInv /\ CacheSound /\ \A r \in Requests : Fine(r)

\* What a step of a check must leave behind, the files being as they were.
Right(r) == (UnderWay(r)' => Sound(job'[r])) /\ (Concluded(r)' => Settled(job'[r]))

LEMMA VerdictFacts ==
    ASSUME VerdictInv, NEW r \in Requests, UnderWay(r)
    PROVE  /\ job[r] \in Running /\ Traced(job[r])
           /\ job[r].steady => Undisturbed(job[r])
           /\ job \in [Requests -> Running \cup Decided \cup {None}]
           /\ now \in Nat /\ files.crl.until \in Nat /\ files.active.generated \in Nat
           /\ files.crl \in Crl
<1>1. job[r] \in Running
  BY UnderWayType DEF VerdictInv, TypeOK, JobTypes
<1>2. files.crl \in Crl /\ files.active \in Snapshot /\ now \in Nat
  BY DEF VerdictInv, TypeOK, Files
<1>3. files.crl.until \in Nat /\ files.active.generated \in Nat
  BY <1>2 DEF Crl, Snapshot
<1> QED BY <1>1, <1>2, <1>3 DEF VerdictInv, TypeOK, Fine, Sound

\* A check that goes on, from what it has become.
LEMMA GoesOn ==
    ASSUME VerdictInv, NEW r \in Requests, UnderWay(r), NEW next \in Running,
           job' = [job EXCEPT ![r] = next], Sound(next)
    PROVE  Right(r)
<1>1. job'[r] = next
  BY VerdictFacts
<1>2. ~Concluded(r)'
  BY <1>1 DEF Concluded, Running, Stages, Verdicts
<1> QED BY <1>1, <1>2 DEF Right

LEMMA ProceedRight ==
    ASSUME VerdictInv, NEW r \in Requests, UnderWay(r), NEW stage \in Stages,
           Proceed(r, stage), Sound([job[r] EXCEPT !.stage = stage])
    PROVE  Right(r)
<1>1. [job[r] EXCEPT !.stage = stage] \in Running
  BY VerdictFacts DEF Running
<1> QED BY <1>1, GoesOn DEF Proceed

LEMMA ConcludeRight ==
    ASSUME VerdictInv, NEW r \in Requests, UnderWay(r), NEW status \in Verdicts,
           NEW trouble \in Troubles,
           job' = [job EXCEPT ![r] = Verdict(r, status, trouble)],
           status = "passed" => Expected(r) # "refuse",
           trouble # "none" \/ status = "passed" \/ Expected(r) # "pass"
    PROVE  Right(r)
<1>1. job'[r] = Verdict(r, status, trouble)
  BY VerdictFacts
<1>2. /\ job'[r].stage = status /\ job'[r].trouble = trouble
      /\ job'[r].expected = Expected(r)
  BY <1>1 DEF Verdict
<1>3. ~UnderWay(r)'
  BY <1>2 DEF UnderWay, Stages, Verdicts
<1> QED BY <1>2, <1>3 DEF Right, Settled

LEMMA RefuseRight ==
    ASSUME VerdictInv, NEW r \in Requests, UnderWay(r), NEW status \in {"failed", "unavailable"},
           Conclude(r, status), Expected(r) # "pass"
    PROVE  Right(r)
<1>1. job[r].trouble \in Troubles
  BY VerdictFacts DEF Running
<1> QED BY <1>1, ConcludeRight DEF Conclude, Verdicts

LEMMA CmsRight ==
    ASSUME VerdictInv, NEW r \in Requests, VerifyCMS(r) PROVE Right(r)
<1>1. UnderWay(r) /\ Expected(r) = "either"
  BY DEF VerifyCMS, At, UnderWay, Stages, Expected
<1>2. PICK readable \in BOOLEAN, sod \in SOD :
         IF CmsOutcome(sod, Bundle(readable)) \in Verdicts
         THEN job' = [job EXCEPT ![r] =
                 Verdict(r, CmsOutcome(sod, Bundle(readable)), Trouble(readable))]
         ELSE job' = [job EXCEPT ![r] = Signed(r, sod, readable)]
  BY CmsEffect
<1> DEFINE outcome == CmsOutcome(sod, Bundle(readable))
<1>3. Trouble(readable) \in Troubles /\ Trouble(readable) # "crl" /\ sod.signer \in Signers
  BY DEF Trouble, Troubles, SOD
<1>4. CASE outcome \in Verdicts
  <2>1. outcome # "passed"
    BY AcceptedIsValid
  <2> QED BY <1>1, <1>2, <1>3, <1>4, <2>1, ConcludeRight
<1>5. CASE outcome \notin Verdicts
  <2> DEFINE next == Signed(r, sod, readable)
  <2>1. outcome \in {"groups", "fallback"}
    BY <1>5, AcceptedIsValid DEF Verdicts
  <2>2. next \in Running
    <3>1. outcome \in Stages /\ job[r] \in Running
      BY <1>1, <2>1, VerdictFacts DEF Stages
    <3> QED BY <1>3, <3>1, GroundsType DEF Signed, Running
  <2>3. /\ next.stage = outcome /\ next.signer = sod.signer /\ next.mtime = job[r].mtime
        /\ next.trouble = Trouble(readable)
        /\ next.grounds = GroundsFor(sod.signer, files, now)
    BY <1>1, VerdictFacts DEF Signed, Running
  <2>4. outcome = "groups" => next.genuine
    <3>1. next.genuine = (sod.signature = "valid")
      BY <1>1, VerdictFacts DEF Signed, Running
    <3> QED BY <3>1, AcceptedIsValid
  <2>5. job' = [job EXCEPT ![r] = next]
    BY <1>2, <1>5
  <2>6. job[r].mtime <= files.version
    BY <1>1, VerdictFacts DEF Traced
  <2> HIDE DEF next, outcome
  <2>7. Traced(next)
    BY <1>3, <2>1, <2>3, <2>4, <2>6 DEF Traced
  <2>8. Undisturbed(next)
    BY <2>1, <2>3 DEF Undisturbed
  <2> QED BY <1>1, <2>2, <2>5, <2>7, <2>8, GoesOn DEF Sound
<1> QED BY <1>4, <1>5

LEMMA FallbackRight ==
    ASSUME VerdictInv, NEW r \in Requests, Fallback(r) PROVE Right(r)
<1>1. UnderWay(r) /\ job[r].stage = "fallback"
  BY DEF Fallback, At, UnderWay, Stages
<1>2. CASE FallbackAccepts(r) /\ Proceed(r, "groups")
  <2> DEFINE next == [job[r] EXCEPT !.stage = "groups"]
  <2>1. /\ next.stage = "groups" /\ next.signer = job[r].signer /\ next.mtime = job[r].mtime
        /\ next.genuine = job[r].genuine /\ next.trouble = job[r].trouble
        /\ next.grounds = job[r].grounds /\ next.steady = job[r].steady
    BY <1>1, VerdictFacts DEF Running
  <2>2. job[r].genuine
    BY <1>2 DEF FallbackAccepts
  <2>3. Sound(next)
    BY <1>1, <2>1, <2>2, VerdictFacts DEF Sound, Traced, Undisturbed
  <2> QED BY <1>1, <1>2, <2>3, ProceedRight DEF Stages
<1>3. CASE Conclude(r, "unavailable")
  <2>1. Expected(r) # "pass"
    BY <1>1 DEF Expected
  <2> QED BY <1>1, <1>3, <2>1, RefuseRight
<1> QED BY <1>2, <1>3 DEF Fallback

LEMMA GroupsRight ==
    ASSUME VerdictInv, NEW r \in Requests, MatchGroups(r) PROVE Right(r)
<1>1. UnderWay(r) /\ job[r].stage = "groups"
  BY DEF MatchGroups, At, UnderWay, Stages
<1>2. PICK e \in Evidence :
         IF GroupsMatch(e) THEN job' = [job EXCEPT ![r] = Matched(r, e)]
         ELSE job' = [job EXCEPT ![r] = Unmatched(r, e)]
  BY GroupsEffect
<1>3. GroupsMatch(e) <=> Authentic(e)
  BY MatchIsAuthentic
<1>4. CASE GroupsMatch(e)
  <2> DEFINE next == Matched(r, e)
  <2>1. /\ next.stage = "chain" /\ next.signer = job[r].signer /\ next.mtime = job[r].mtime
        /\ next.genuine = (job[r].genuine /\ Authentic(e))
        /\ next.trouble = job[r].trouble
        /\ next.grounds = job[r].grounds /\ next.steady = job[r].steady
    BY <1>1, VerdictFacts DEF Matched, Running
  <2>2. next \in Running
    BY <1>1, VerdictFacts DEF Matched, Running, Stages
  <2>3. job' = [job EXCEPT ![r] = next]
    BY <1>2, <1>4
  <2> HIDE DEF next
  <2>4. Sound(next)
    BY <1>1, <1>3, <1>4, <2>1, VerdictFacts DEF Sound, Traced, Undisturbed
  <2> QED BY <1>1, <2>2, <2>3, <2>4, GoesOn
<1>5. CASE ~GroupsMatch(e)
  <2>1. job'[r] = Unmatched(r, e)
    BY <1>1, <1>2, <1>5, VerdictFacts
  <2>2. Unmatched(r, e).stage = "failed" /\ Unmatched(r, e).expected = "refuse"
    BY <1>3, <1>5 DEF Unmatched, Verdict
  <2> QED BY <2>1, <2>2 DEF Right, UnderWay, Stages, Settled
<1> QED BY <1>4, <1>5

LEMMA UnchainedRight ==
    ASSUME VerdictInv, NEW r \in Requests, UnderWay(r), Unchained(r),
           job[r].signer \notin files.anchors
    PROVE  Right(r)
<1>1. PICK status \in {"failed", "unavailable"} : Conclude(r, status)
  BY DEF Unchained
<1>2. Expected(r) # "pass"
  BY GroundsMean DEF Expected, GoodStanding, Sufficient
<1> QED BY <1>1, <1>2, RefuseRight

LEMMA ChainRight ==
    ASSUME VerdictInv, NEW r \in Requests, VerifyChain(r) PROVE Right(r)
<1>1. UnderWay(r) /\ job[r].stage = "chain"
  BY DEF VerifyChain, At, UnderWay, Stages
<1>2. CASE job[r].signer \in files.anchors /\ Proceed(r, "crl")
  <2> DEFINE next == [job[r] EXCEPT !.stage = "crl"]
  <2>1. /\ next.stage = "crl" /\ next.signer = job[r].signer /\ next.mtime = job[r].mtime
        /\ next.genuine = job[r].genuine /\ next.trouble = job[r].trouble
        /\ next.grounds = job[r].grounds /\ next.steady = job[r].steady
    BY <1>1, VerdictFacts DEF Running
  <2>2. "anchored" \in job[r].grounds
    BY <1>1, <1>2, VerdictFacts, GroundsMean DEF Traced
  <2>3. Sound(next)
    BY <1>1, <2>1, <2>2, VerdictFacts DEF Sound, Traced, Undisturbed
  <2> QED BY <1>1, <1>2, <2>3, ProceedRight DEF Stages
<1>3. CASE job[r].signer \notin files.anchors /\ Unchained(r)
  BY <1>1, <1>3, UnchainedRight
<1>4. CASE files.anchors = {} /\ Conclude(r, "unavailable")
  <2>1. Expected(r) # "pass"
    BY <1>4, GroundsMean DEF Expected, GoodStanding, Sufficient
  <2> QED BY <1>1, <1>4, <2>1, RefuseRight
<1> QED BY <1>2, <1>3, <1>4 DEF VerifyChain

LEMMA LookRight ==
    ASSUME VerdictInv, NEW r \in Requests, LookForCrl(r) PROVE Right(r)
<1>1. UnderWay(r) /\ job[r].stage = "crl"
  BY DEF LookForCrl, At, UnderWay, Stages
<1>2. /\ job[r].trouble # "crl" /\ "anchored" \in job[r].grounds /\ job[r].genuine
      /\ GroundsFor(job[r].signer, files, now) \subseteq job[r].grounds
      /\ job[r].mtime <= files.version
  BY <1>1, VerdictFacts DEF Traced
<1>3. job[r].steady => job[r].grounds = GroundsFor(job[r].signer, files, now)
  BY <1>1, VerdictFacts DEF Undisturbed
<1>4. CASE files.crl.present /\ Proceed(r, "crl_check")
  <2> DEFINE next == [job[r] EXCEPT !.stage = "crl_check"]
  <2>1. /\ next.stage = "crl_check" /\ next.signer = job[r].signer
        /\ next.mtime = job[r].mtime /\ next.genuine = job[r].genuine
        /\ next.trouble = job[r].trouble
        /\ next.grounds = job[r].grounds /\ next.steady = job[r].steady
    BY <1>1, VerdictFacts DEF Running
  <2>2. Sound(next)
    BY <1>2, <1>3, <1>4, <2>1 DEF Sound, Traced, Undisturbed
  <2> QED BY <1>1, <1>4, <2>2, ProceedRight DEF Stages
<1>5. CASE ~files.crl.present /\ Proceed(r, "active")
  <2> DEFINE next == [job[r] EXCEPT !.stage = "active"]
  <2>1. /\ next.stage = "active" /\ next.signer = job[r].signer
        /\ next.mtime = job[r].mtime /\ next.genuine = job[r].genuine
        /\ next.trouble = job[r].trouble
        /\ next.grounds = job[r].grounds /\ next.steady = job[r].steady
    BY <1>1, VerdictFacts DEF Running
  <2>2. files.crl.covers = {} /\ files.crl.revokes = {}
    BY <1>1, <1>5, VerdictFacts DEF Crl
  <2>3. /\ "unrevoked" \in GroundsFor(job[r].signer, files, now)
        /\ "cleared" \notin GroundsFor(job[r].signer, files, now)
    BY <2>2, GroundsMean DEF Unrevoked
  <2>4. Sound(next)
    BY <1>2, <1>3, <2>1, <2>3 DEF Sound, Traced, Undisturbed
  <2> QED BY <1>1, <1>5, <2>4, ProceedRight DEF Stages
<1>6. CASE job' = [job EXCEPT ![r] = Unread(r)]
  <2> DEFINE next == Unread(r)
  <2>1. /\ next.stage = "active" /\ next.signer = job[r].signer
        /\ next.mtime = job[r].mtime /\ next.genuine = job[r].genuine
        /\ next.trouble = "crl"
        /\ next.grounds = job[r].grounds /\ next.steady = job[r].steady
    BY <1>1, VerdictFacts DEF Unread, Running
  <2>2. next \in Running
    BY <1>1, VerdictFacts DEF Unread, Running, Stages, Troubles
  <2> HIDE DEF next
  <2>3. Sound(next)
    BY <1>2, <1>3, <2>1 DEF Sound, Traced, Undisturbed
  <2> QED BY <1>1, <1>6, <2>2, <2>3, GoesOn DEF next
<1>7. \/ files.crl.present /\ Proceed(r, "crl_check")
      \/ ~files.crl.present /\ Proceed(r, "active")
      \/ job' = [job EXCEPT ![r] = Unread(r)]
  BY DEF LookForCrl, Unread
<1> QED BY <1>4, <1>5, <1>6, <1>7

LEMMA CrlRight ==
    ASSUME VerdictInv, NEW r \in Requests, CheckCrl(r) PROVE Right(r)
<1> DEFINE signer == job[r].signer
           given == GroundsFor(signer, files, now)
<1>1. UnderWay(r) /\ job[r].stage = "crl_check"
  BY DEF CheckCrl, At, UnderWay, Stages
<1>2. /\ job[r].trouble # "crl" /\ "anchored" \in job[r].grounds /\ job[r].genuine
      /\ given \subseteq job[r].grounds /\ job[r].mtime <= files.version
  BY <1>1, VerdictFacts DEF Traced
<1>3. job[r].steady => job[r].grounds = given /\ files.crl.present
  BY <1>1, VerdictFacts DEF Undisturbed
<1>4. /\ "unrevoked" \in given <=> Unrevoked(signer)
      /\ "cleared" \in given <=> Unrevoked(signer) /\ signer \in files.crl.covers /\ ~strict
  BY GroundsMean
<1> HIDE DEF given
<1>5. CASE Unrevoked(signer) /\ files.crl.present /\ Step(r, CrlOutcome(signer))
  <2> DEFINE stage == IF strict \/ signer \notin files.crl.covers THEN "active" ELSE "issuer"
             next == [job[r] EXCEPT !.stage = stage]
  <2>1. CrlOutcome(signer) = stage
    BY <1>1, <1>5, VerdictFacts DEF Unrevoked, CrlOutcome
  <2>2. stage \in Stages /\ stage \notin Verdicts
    BY DEF Stages, Verdicts
  <2>3. Proceed(r, stage)
    BY <1>5, <2>1, <2>2 DEF Step
  <2>4. /\ next.stage = stage /\ next.signer = signer
        /\ next.mtime = job[r].mtime /\ next.genuine = job[r].genuine
        /\ next.trouble = job[r].trouble
        /\ next.grounds = job[r].grounds /\ next.steady = job[r].steady
    BY <1>1, VerdictFacts DEF Running
  <2>5. stage = "issuer" => Sufficient(job[r].grounds, job[r].trouble)
    BY <1>2, <1>4, <1>5 DEF Sufficient
  <2>6. stage \in {"active", "issuer"} /\ (stage = "active" => "cleared" \notin given)
    BY <1>4
  <2>7. "unrevoked" \in job[r].grounds
    BY <1>2, <1>4, <1>5
  <2> HIDE DEF stage, next
  <2>8. Sound(next)
    BY <1>2, <1>3, <2>4, <2>5, <2>6, <2>7 DEF Sound, Traced, Undisturbed, given
  <2> QED BY <1>1, <2>2, <2>3, <2>8, ProceedRight DEF next
<1>6. CASE ~(Unrevoked(signer) /\ files.crl.present) /\ Step(r, CrlOutcome(signer))
  <2>1. CrlOutcome(signer) \in {"failed", "unavailable"}
    BY <1>1, <1>6, VerdictFacts DEF Unrevoked, CrlOutcome
  <2>2. Conclude(r, CrlOutcome(signer))
    BY <1>6, <2>1 DEF Step, Verdicts
  <2>3. Expected(r) # "pass"
    BY <1>2, <1>3, <1>4, <1>6 DEF Expected, GoodStanding, Sufficient, given
  <2> QED BY <1>1, <2>1, <2>2, <2>3, RefuseRight
<1>7. CASE signer \notin files.anchors /\ Unchained(r)
  BY <1>1, <1>7, UnchainedRight
<1> QED BY <1>5, <1>6, <1>7 DEF CheckCrl

LEMMA SnapshotRight ==
    ASSUME VerdictInv, NEW r \in Requests, At(r, "active") \/ At(r, "bundle"),
           \/ ListedNow(job[r].signer) /\ Proceed(r, "issuer")
           \/ /\ ~ListedNow(job[r].signer)
              /\ \E status \in {"failed", "unavailable"} : Conclude(r, status)
    PROVE  Right(r)
<1> DEFINE given == GroundsFor(job[r].signer, files, now)
<1>1. UnderWay(r) /\ job[r].stage \in {"active", "bundle"}
  BY DEF At, UnderWay, Stages
<1>2. /\ "anchored" \in job[r].grounds /\ job[r].genuine
      /\ job[r].trouble = "crl" \/ "unrevoked" \in job[r].grounds
      /\ given \subseteq job[r].grounds /\ job[r].mtime <= files.version
  BY <1>1, VerdictFacts DEF Traced
<1>3. job[r].steady => /\ job[r].grounds = given
                       /\ job[r].trouble = "crl" \/ "cleared" \notin job[r].grounds
  BY <1>1, VerdictFacts DEF Undisturbed
<1>4. "listed" \in given <=> ListedNow(job[r].signer)
  BY GroundsMean
<1> HIDE DEF given
<1>5. CASE ListedNow(job[r].signer) /\ Proceed(r, "issuer")
  <2> DEFINE next == [job[r] EXCEPT !.stage = "issuer"]
  <2>1. /\ next.stage = "issuer" /\ next.signer = job[r].signer
        /\ next.mtime = job[r].mtime /\ next.genuine = job[r].genuine
        /\ next.trouble = job[r].trouble
        /\ next.grounds = job[r].grounds /\ next.steady = job[r].steady
    BY <1>1, VerdictFacts DEF Running
  <2>2. Sufficient(job[r].grounds, job[r].trouble)
    BY <1>2, <1>4, <1>5 DEF Sufficient
  <2>3. Sound(next)
    BY <1>2, <1>3, <2>1, <2>2 DEF Sound, Traced, Undisturbed, given
  <2> QED BY <1>1, <1>5, <2>3, ProceedRight DEF Stages
<1>6. ASSUME ~ListedNow(job[r].signer), NEW status \in {"failed", "unavailable"},
             Conclude(r, status)
      PROVE  Right(r)
  <2>1. Expected(r) # "pass"
    BY <1>3, <1>4, <1>6 DEF Expected, GoodStanding, Sufficient, given
  <2> QED BY <1>1, <1>6, <2>1, RefuseRight
<1> QED BY <1>5, <1>6

LEMMA StatRight ==
    ASSUME VerdictInv, NEW r \in Requests, StatActive(r) PROVE Right(r)
<1>1. UnderWay(r) /\ At(r, "active") /\ job[r].stage = "active"
  BY DEF StatActive, At, UnderWay, Stages
<1>2. CASE ConsultCache(r)
  <2>1. /\ files.active.sound /\ cache.listed = files.active.listed
        /\ cache.generated = files.active.generated
    BY <1>2 DEF ConsultCache, VerdictInv, CacheSound
  <2>2. Step(r, IF ListedNow(job[r].signer) THEN "issuer"
                ELSE IF Fresh(files.active.generated) THEN "failed" ELSE "unavailable")
    BY <1>2, <2>1 DEF ConsultCache, Listed, ListedNow
  <2> QED BY <1>1, <2>2, SnapshotRight DEF Step, Verdicts
<1>3. CASE ~Cached
  <2> DEFINE next == Stamped(r)
  <2>1. job' = [job EXCEPT ![r] = next]
    BY <1>3 DEF StatActive, ConsultCache, Stamped
  <2>2. /\ next.stage = "bundle" /\ next.mtime = files.active.mtime
        /\ next.genuine = job[r].genuine /\ next.steady = job[r].steady
        /\ next.signer = job[r].signer /\ next.trouble = job[r].trouble
        /\ next.grounds = job[r].grounds
    BY <1>1, VerdictFacts DEF Stamped, Running
  <2>3. next \in Running
    <3>1. files.active.mtime \in 0..MaxReplacements
      BY DEF VerdictInv, TypeOK, Files, Snapshot
    <3> QED BY <1>1, <3>1, VerdictFacts DEF Stamped, Running, Stages
  <2>4. files.active.mtime <= files.version
    BY DEF VerdictInv, CacheSound
  <2> HIDE DEF next
  <2>5. Sound(next)
    BY <1>1, <2>2, <2>4, VerdictFacts DEF Sound, Traced, Undisturbed
  <2> QED BY <1>1, <2>1, <2>3, <2>5, GoesOn
<1> QED BY <1>2, <1>3 DEF StatActive

LEMMA ReadRight ==
    ASSUME VerdictInv, NEW r \in Requests, ReadActive(r) PROVE Right(r)
<1>1. At(r, "bundle")
  BY DEF ReadActive
<1>2. CASE files.active.sound /\ Fresh(files.active.generated)
  <2>1. Step(r, IF ListedNow(job[r].signer) THEN "issuer" ELSE "failed")
    BY <1>2 DEF ReadActive, Listed, ListedNow
  <2> QED BY <1>1, <2>1, SnapshotRight DEF Step, Verdicts
<1>3. CASE ~(files.active.sound /\ Fresh(files.active.generated))
  <2>1. Conclude(r, "unavailable") /\ ~ListedNow(job[r].signer)
    BY <1>3 DEF ReadActive, ListedNow
  <2> QED BY <1>1, <2>1, SnapshotRight
<1> QED BY <1>2, <1>3

LEMMA IssuerRight ==
    ASSUME VerdictInv, NEW r \in Requests, CheckIssuer(r) PROVE Right(r)
<1>1. UnderWay(r) /\ job[r].stage = "issuer" /\ job[r].trouble \in Troubles
  <2>1. UnderWay(r) /\ job[r].stage = "issuer"
    BY DEF CheckIssuer, At, UnderWay, Stages
  <2> QED BY <2>1, VerdictFacts DEF Running
<1>2. CASE job[r].signer \in Ukrainian
  <2>1. Conclude(r, "passed")
    BY <1>2 DEF CheckIssuer
  <2>2. Sufficient(job[r].grounds, job[r].trouble) /\ job[r].genuine
    BY <1>1, VerdictFacts DEF Traced
  <2>3. job[r].steady => GoodStanding(r)
    BY <1>1, <1>2, <2>2, VerdictFacts DEF Undisturbed, GoodStanding
  <2>4. Expected(r) # "refuse"
    BY <2>2, <2>3 DEF Expected
  <2> QED BY <1>1, <2>1, <2>4, ConcludeRight DEF Conclude, Verdicts
<1>3. CASE job[r].signer \notin Ukrainian
  <2>1. Conclude(r, "failed")
    BY <1>3 DEF CheckIssuer
  <2>2. Expected(r) # "pass"
    BY <1>3 DEF Expected, GoodStanding
  <2> QED BY <1>1, <2>1, <2>2, RefuseRight
<1> QED BY <1>2, <1>3

LEMMA CheckRight == ASSUME VerdictInv, NEW r \in Requests, Check(r) PROVE Right(r)
<1>1. ASSUME Disturbed(r) PROVE Right(r)
  <2>1. PICK status \in {"failed", "unavailable"} :
           job' = [job EXCEPT ![r] = Verdict(r, status, "other")]
    BY <1>1 DEF Disturbed
  <2> QED BY <1>1, <2>1, ConcludeRight DEF Check, Disturbed, Verdicts, Troubles
<1> QED BY <1>1, CmsRight, FallbackRight, GroupsRight, ChainRight, LookRight, CrlRight,
           StatRight, ReadRight, IssuerRight DEF Check

-----------------------------------------------------------------------------
(* Every step *)

LEMMA StillFine ==
    ASSUME NEW r \in Requests, Fine(r), job'[r] = job[r], UNCHANGED <<files, now, strict>>
    PROVE  Fine(r)'
BY DEF Fine, UnderWay, Concluded, Sound, Traced, Undisturbed, Settled, GroundsFor

LEMMA NewFine ==
    ASSUME TypeOK', NEW r \in Requests, job'[r] = NewJob PROVE Fine(r)'
<1>1. files'.version \in Nat
  BY DEF TypeOK, Files
<1> QED BY <1>1 DEF Fine, NewJob, UnderWay, Concluded, Sound, Traced, Undisturbed, Verdicts

\* The files as they were and as they are, where a check is overtaken.
LEMMA OvertakenFine ==
    ASSUME VerdictInv, TypeOK', NEW r \in Requests, UNCHANGED strict,
           job' = Overtaken(files', now'), files.version <= files'.version
    PROVE  Fine(r)'
<1>1. JobTypes /\ Fine(r)
  BY DEF VerdictInv, TypeOK, JobTypes
<1>2. CASE UnderWay(r)
  <2> DEFINE given == GroundsFor(job[r].signer, files', now')
  <2>1. /\ ~job'[r].steady /\ job'[r].stage = job[r].stage
        /\ job'[r].mtime = job[r].mtime /\ job'[r].genuine = job[r].genuine
        /\ job'[r].signer = job[r].signer /\ job'[r].trouble = job[r].trouble
        /\ job'[r].grounds = job[r].grounds \cup given
    BY <1>1, <1>2, OvertakenEffect
  <2>2. GroundsFor(job[r].signer, files, now)' = given
    BY <2>1 DEF GroundsFor
  <2> HIDE DEF given
  <2>3. job'[r].mtime <= files'.version
    <3>1. job[r].mtime <= files.version /\ job[r].mtime \in Nat
      BY <1>1, <1>2, UnderWayType DEF Fine, Sound, Traced, Running
    <3>2. files.version \in Nat /\ files'.version \in Nat
      BY DEF VerdictInv, TypeOK, Files
    <3> QED BY <2>1, <3>1, <3>2
  <2>4. /\ job[r].stage \notin {"cms", "fallback"} => job[r].genuine
        /\ job[r].stage \in {"crl", "crl_check", "active", "bundle"} =>
              "anchored" \in job[r].grounds
        /\ job[r].trouble = "crl" => job[r].stage \in {"active", "bundle", "issuer"}
        /\ job[r].stage \in {"active", "bundle"} =>
              job[r].trouble = "crl" \/ "unrevoked" \in job[r].grounds
        /\ job[r].stage = "issuer" => Sufficient(job[r].grounds, job[r].trouble)
    BY <1>1, <1>2 DEF Fine, Sound, Traced
  <2>5. Sufficient(job[r].grounds, job[r].trouble) =>
           Sufficient(job'[r].grounds, job'[r].trouble)
    BY <2>1 DEF Sufficient
  <2>6. Traced(job[r])'
    BY <2>1, <2>2, <2>3, <2>4, <2>5 DEF Traced
  <2>7. ~Concluded(r)'
    BY <1>2, <2>1 DEF UnderWay, Concluded, Stages, Verdicts
  <2> QED BY <2>1, <2>6, <2>7 DEF Fine, Sound
<1>3. CASE ~UnderWay(r)
  <2>1. job'[r] = job[r]
    BY <1>1, <1>3, OvertakenEffect
  <2> QED BY <1>1, <1>3, <2>1 DEF Fine, UnderWay, Concluded, Settled
<1> QED BY <1>2, <1>3

LEMMA NewerFiles ==
    ASSUME TypeOK, ReplaceFile
    PROVE  /\ cache' = cache /\ files'.version = files.version + 1
           /\ files'.active = files.active \/ files'.active.mtime = files.version + 1
           /\ job' = Overtaken(files', now')
<1>1. files \in Files /\ files.version \in Nat
  BY DEF TypeOK, Files
<1> DEFINE next == [files EXCEPT !.version = files.version + 1]
<1>2. next \in [anchors : SUBSET Signers, lookup : SUBSET Signers, crl : Crl,
                active : Snapshot, version : Nat]
      /\ next.version = files.version + 1 /\ next.active = files.active
  BY <1>1 DEF Files
<1>3. \/ \E list \in SUBSET Signers : files' = [next EXCEPT !.anchors = list]
      \/ \E list \in SUBSET Signers : files' = [next EXCEPT !.lookup = list]
      \/ \E crl \in Crl : files' = [next EXCEPT !.crl = crl]
      \/ \E snapshot \in Snapshot : /\ snapshot.mtime = next.version
                                    /\ files' = [next EXCEPT !.active = snapshot]
  BY DEF ReplaceFile
<1>4. cache' = cache /\ job' = Overtaken(files', now')
  BY DEF ReplaceFile
<1> HIDE DEF next
<1>5. files'.version = files.version + 1
  BY <1>2, <1>3
<1>6. files'.active = files.active \/ files'.active.mtime = files.version + 1
  BY <1>2, <1>3
<1> QED BY <1>4, <1>5, <1>6

LEMMA FineStep ==
    ASSUME VerdictInv, [Next]_vars, NEW r \in Requests PROVE Fine(r)'
<1>1. /\ TypeOK /\ TypeOK' /\ Fine(r) /\ files.version \in Nat
      /\ job \in [Requests -> Running \cup Decided \cup {None}]
  BY PoolStep DEF VerdictInv, TypeOK, Files
<1>2. ASSUME NEW q \in Requests, Check(q) PROVE Fine(r)'
  <2>1. /\ UNCHANGED <<files, now, strict>>
        /\ \E next \in Running \cup Decided : job' = [job EXCEPT ![q] = next]
    BY <1>1, <1>2, CheckEffect
  <2>2. CASE q = r
    <3>1. Right(r)
      BY <1>2, <2>2, CheckRight
    <3> QED BY <2>1, <3>1 DEF Right, Fine, UnderWay, Concluded, Sound, Traced, Undisturbed,
                              Settled, GroundsFor
  <2>3. CASE q # r
    BY <1>1, <2>1, <2>3, StillFine
  <2> QED BY <2>2, <2>3
<1>3. ASSUME NEW q \in Requests, Acquire(q) \/ Release(q) PROVE Fine(r)'
  <2>1. UNCHANGED <<files, now, strict>>
    BY <1>3 DEF Acquire, Release
  <2>2. job'[r] \in {job[r], NewJob, None}
    BY <1>1, <1>3 DEF Acquire, Release, TakePermit, Queue, FreePermit, HandOver
  <2>3. job'[r] = None => Fine(r)'
    BY DEF Fine, UnderWay, Concluded
  <2> QED BY <1>1, <2>1, <2>2, <2>3, StillFine, NewFine
<1>4. CASE ReplaceFile
  <2>1. job' = Overtaken(files', now') /\ files'.version = files.version + 1
    BY <1>1, <1>4, NewerFiles
  <2>2. strict' = strict
    BY <1>4 DEF ReplaceFile
  <2>3. files.version <= files'.version
    BY <1>1, <2>1
  <2> QED BY <1>1, <2>1, <2>2, <2>3, OvertakenFine
<1>5. CASE Tick
  <2>1. job' = Overtaken(files', now') /\ files' = files /\ strict' = strict
    BY <1>5 DEF Tick
  <2>2. files.version <= files'.version
    BY <1>1, <2>1
  <2> QED BY <1>1, <2>1, <2>2, OvertakenFine
<1>6. CASE UNCHANGED vars
  BY <1>1, <1>6, StillFine DEF vars
<1> QED BY <1>2, <1>3, <1>4, <1>5, <1>6 DEF Next

LEMMA CacheStep == ASSUME VerdictInv, [Next]_vars PROVE CacheSound'
<1>1. TypeOK /\ CacheSound
  BY DEF VerdictInv
<1>2. /\ files.version \in Nat /\ files.active.mtime \in Nat
      /\ cache # None => cache.mtime \in Nat
  BY <1>1 DEF TypeOK, Files, Snapshot
<1>3. CASE UNCHANGED <<files, cache>>
  BY <1>1, <1>3 DEF CacheSound, Cached
<1>4. ASSUME NEW r \in Requests, ReadActive(r), ~UNCHANGED cache PROVE CacheSound'
  <2>1. /\ files' = files /\ files.active.sound
        /\ cache' = [mtime |-> job[r].mtime, listed |-> files.active.listed,
                     generated |-> files.active.generated]
    BY <1>4 DEF ReadActive, Step, Conclude, Proceed
  <2>2. job[r].mtime <= files.version
    <3>1. UnderWay(r)
      BY <1>4 DEF ReadActive, At, UnderWay, Stages
    <3> QED BY <3>1, VerdictFacts DEF Traced
  <2> QED BY <1>1, <2>1, <2>2 DEF CacheSound, Cached
<1>5. CASE ReplaceFile
  <2>1. CASE files'.active = files.active
    BY <1>1, <1>2, <1>5, <2>1, NewerFiles DEF CacheSound, Cached
  <2>2. CASE files'.active.mtime = files.version + 1
    BY <1>1, <1>2, <1>5, <2>2, NewerFiles DEF CacheSound, Cached
  <2> QED BY <1>1, <1>5, <2>1, <2>2, NewerFiles
<1>6. UNCHANGED <<files, cache>> \/ ReplaceFile \/ \E r \in Requests : ReadActive(r)
  <2>1. ASSUME NEW r \in Requests, Check(r)
        PROVE  files' = files /\ (cache' = cache \/ ReadActive(r))
    BY <1>1, <2>1, CheckEffect
       DEF Check, VerifyCMS, Fallback, MatchGroups, VerifyChain, LookForCrl, CheckCrl,
           StatActive, CheckIssuer, Disturbed
  <2> QED BY <2>1 DEF Next, vars, Acquire, Release, Tick
<1>7. ASSUME NEW r \in Requests, ReadActive(r) PROVE files' = files
  BY <1>7 DEF ReadActive, Step, Conclude, Proceed
<1> QED BY <1>3, <1>4, <1>5, <1>6, <1>7

LEMMA InitVerdicts == Init => VerdictInv
<1> SUFFICES ASSUME Init PROVE VerdictInv
  OBVIOUS
<1>1. \A r \in Requests : Fine(r)
  BY DEF Init, Fine, UnderWay, Concluded
<1>2. CacheSound
  BY DEF Init, CacheSound, Cached
<1> QED BY <1>1, <1>2, InitPool, InitTypes DEF VerdictInv

LEMMA Inductive == Spec => []VerdictInv
<1>1. ASSUME VerdictInv, [Next]_vars PROVE VerdictInv'
  <2>1. TypeOK' /\ PoolInv' /\ CacheSound' /\ \A r \in Requests : Fine(r)'
    BY <1>1, PoolStep, CacheStep, FineStep DEF VerdictInv
  <2> QED BY <2>1 DEF VerdictInv
<1> QED BY <1>1, InitVerdicts, PTL DEF Spec

\* Undisturbed checks pass exactly the authentic documents of signers in good
\* standing; CRLs that could not be read count as none (containsPEMCRL), and
\* what else fails (a call, a file) only refuses.
THEOREM VerdictsStaySteady == Spec => []SteadyVerdict
<1>1. VerdictInv => SteadyVerdict
  BY DEF VerdictInv, Fine, Settled, SteadyVerdict
<1> QED BY <1>1, Inductive, PTL

LEMMA StepStage ==
    ASSUME TypeOK, NEW r \in Requests, UnderWay(r), NEW outcome \in Stages \cup Verdicts,
           Step(r, outcome)
    PROVE  job'[r].stage = outcome
<1>1. job[r] \in Running /\ job \in [Requests -> Running \cup Decided \cup {None}]
  BY UnderWayType DEF TypeOK, JobTypes
<1> QED BY <1>1 DEF Step, Conclude, Proceed, Verdict, Running

\* Only its own steps take a check further.
LEMMA OwnStep ==
    ASSUME VerdictInv, [Next]_vars, NEW r \in Requests,
           NEW stage \in {"issuer", "passed"}, ~At(r, stage), At(r, stage)'
    PROVE  Check(r)
<1>1. TypeOK /\ JobTypes /\ job \in [Requests -> Running \cup Decided \cup {None}]
  BY DEF VerdictInv, TypeOK, JobTypes
<1>2. job'[r] # job[r]
  BY DEF At
<1>3. ASSUME NEW q \in Requests, Check(q) PROVE q = r
  BY <1>1, <1>2, <1>3, CheckEffect
<1>4. ASSUME job' = Overtaken(files', now') PROVE FALSE
  <2>1. UnderWay(r) => job'[r].stage = job[r].stage
    BY <1>1, <1>4, OvertakenEffect
  <2>2. ~UnderWay(r) => job'[r] = job[r]
    BY <1>1, <1>4, OvertakenEffect
  <2> QED BY <1>2, <2>1, <2>2 DEF At, UnderWay
<1>5. ASSUME NEW q \in Requests, Acquire(q) \/ Release(q) PROVE FALSE
  <2>1. job'[r] \in {job[r], NewJob, None}
    BY <1>1, <1>5 DEF Acquire, Release, TakePermit, Queue, FreePermit, HandOver
  <2> QED BY <1>2, <2>1 DEF At, NewJob
<1>6. (ReplaceFile \/ Tick) => job' = Overtaken(files', now')
  BY <1>1, NewerFiles DEF Tick
<1> QED BY <1>2, <1>3, <1>4, <1>5, <1>6 DEF Next, vars

\* What is true of a document that passes.
LEMMA TrueGrounds ==
    ASSUME VerdictInv, [Next]_vars, NEW r \in Requests, ~Concluded(r), At(r, "passed")'
    PROVE  job[r].genuine /\ Sufficient(job[r].grounds, job[r].trouble)
<1>1. Check(r)
  BY OwnStep DEF At, Concluded, Verdicts
<1>2. /\ TypeOK /\ UnderWay(r) /\ job[r] \in Running
      /\ job \in [Requests -> Running \cup Decided \cup {None}] /\ job'[r].stage = "passed"
  BY <1>1, CheckEffect, UnderWayType DEF VerdictInv, TypeOK, JobTypes, At
<1>3. ASSUME NEW outcome \in Stages \cup Verdicts, outcome # "passed", Step(r, outcome)
      PROVE  FALSE
  BY <1>2, <1>3, StepStage
<1>4. ASSUME NEW stage \in Stages, Proceed(r, stage) PROVE FALSE
  BY <1>2, <1>4 DEF Proceed, Running, Stages
<1>5. ASSUME NEW status \in {"failed", "unavailable"}, NEW trouble,
             job' = [job EXCEPT ![r] = Verdict(r, status, trouble)]
      PROVE  FALSE
  BY <1>2, <1>5 DEF Verdict
<1>6. ASSUME NEW next \in Running, job' = [job EXCEPT ![r] = next] PROVE FALSE
  BY <1>2, <1>6 DEF Running, Stages
<1>7. ASSUME NEW status \in {"failed", "unavailable"}, Conclude(r, status) PROVE FALSE
  BY <1>5, <1>7 DEF Conclude
<1>8. ~VerifyCMS(r)
  <2>1. SUFFICES ASSUME VerifyCMS(r) PROVE FALSE
    OBVIOUS
  <2>2. PICK readable \in BOOLEAN, sod \in SOD :
           IF CmsOutcome(sod, Bundle(readable)) \in Verdicts
           THEN job' = [job EXCEPT ![r] =
                   Verdict(r, CmsOutcome(sod, Bundle(readable)), Trouble(readable))]
           ELSE job' = [job EXCEPT ![r] = Signed(r, sod, readable)]
    BY <2>1, CmsEffect
  <2> DEFINE outcome == CmsOutcome(sod, Bundle(readable))
  <2>3. outcome \in {"groups", "fallback", "failed", "unavailable"}
    BY AcceptedIsValid
  <2>4. outcome \notin Verdicts => Signed(r, sod, readable).stage = outcome
    BY <1>2 DEF Signed, Running
  <2> HIDE DEF outcome
  <2>5. outcome \notin {"failed", "unavailable"}
    BY <1>5, <2>2 DEF outcome, Verdicts
  <2> QED BY <1>2, <2>2, <2>3, <2>4, <2>5 DEF outcome, Verdicts
<1>9. ~Fallback(r)
  BY <1>4, <1>7 DEF Fallback, Stages
<1>10. ~MatchGroups(r)
  <2>1. SUFFICES ASSUME MatchGroups(r) PROVE FALSE
    OBVIOUS
  <2>2. PICK e \in Evidence :
           IF GroupsMatch(e) THEN job' = [job EXCEPT ![r] = Matched(r, e)]
           ELSE job' = [job EXCEPT ![r] = Unmatched(r, e)]
    BY <2>1, GroupsEffect
  <2>3. Matched(r, e).stage = "chain" /\ Unmatched(r, e).stage = "failed"
    BY <1>2 DEF Matched, Unmatched, Verdict, Running
  <2> QED BY <1>2, <2>2, <2>3
<1>11. ~Unchained(r)
  BY <1>7 DEF Unchained
<1>12. ~VerifyChain(r)
  BY <1>4, <1>7, <1>11 DEF VerifyChain, Stages
<1>13. ~LookForCrl(r)
  <2>1. Unread(r).stage = "active"
    BY <1>2 DEF Unread, Running
  <2>2. job' # [job EXCEPT ![r] = Unread(r)]
    BY <1>2, <2>1
  <2>3. LookForCrl(r) => \/ Proceed(r, "active") \/ Proceed(r, "crl_check")
                         \/ job' = [job EXCEPT ![r] = Unread(r)]
    BY DEF LookForCrl, Unread
  <2> QED BY <1>4, <2>2, <2>3 DEF Stages
<1>14. ~CheckCrl(r)
  <2>1. CrlOutcome(job[r].signer) \in (Stages \cup Verdicts) \ {"passed"}
    BY DEF CrlOutcome, Stages, Verdicts
  <2> QED BY <1>3, <1>11, <2>1 DEF CheckCrl
<1>15. \A listed : Listed(job[r].signer, listed) \in (Stages \cup Verdicts) \ {"passed"}
  BY DEF Listed, Stages, Verdicts
<1>16. ~StatActive(r)
  <2>1. ~ConsultCache(r)
    BY <1>3, <1>15 DEF ConsultCache, Verdicts
  <2>2. Stamped(r).stage = "bundle"
    BY <1>2 DEF Stamped, Running
  <2>3. job' # [job EXCEPT ![r] = Stamped(r)]
    BY <1>2, <2>2
  <2> QED BY <2>1, <2>3 DEF StatActive, Stamped
<1>17. ~ReadActive(r)
  BY <1>3, <1>7, <1>15 DEF ReadActive
<1>18. ~Disturbed(r)
  <2>1. Disturbed(r) => \E status \in {"failed", "unavailable"} :
                           job' = [job EXCEPT ![r] = Verdict(r, status, "other")]
    BY DEF Disturbed
  <2> QED BY <1>5, <2>1
<1>19. CheckIssuer(r)
  BY <1>1, <1>8, <1>9, <1>10, <1>12, <1>13, <1>14, <1>16, <1>17, <1>18 DEF Check
<1>20. job[r].stage = "issuer"
  BY <1>19 DEF CheckIssuer, At
<1> QED BY <1>2, <1>20, VerdictFacts DEF Traced

\* What passes is authentic (verifySOD), signed by a signer that was on the
\* master list, not revoked as far as CRLs could be read, and active where that
\* was asked, in files that were in place while the check ran.
THEOREM PassedStaysGrounded == Spec => PassedOnTrueGrounds
<1>1. ASSUME VerdictInv, [Next]_vars
      PROVE  [\A r \in Requests : ~Concluded(r) /\ At(r, "passed")' =>
                 job[r].genuine /\ Sufficient(job[r].grounds, job[r].trouble)]_vars
  BY <1>1, TrueGrounds
<1> QED BY <1>1, Inductive, PTL DEF Spec, PassedOnTrueGrounds

\* Past the snapshot leads only one of two steps.
LEMMA PastSnapshot ==
    ASSUME VerdictInv, [Next]_vars, NEW r \in Requests,
           At(r, "active") \/ At(r, "bundle"), At(r, "issuer")'
    PROVE  StatActive(r) \/ ReadActive(r)
<1>1. /\ UnderWay(r) /\ TypeOK /\ job[r] \in Running
      /\ job \in [Requests -> Running \cup Decided \cup {None}]
  BY UnderWayType DEF At, UnderWay, Stages, VerdictInv, TypeOK, JobTypes
<1>2. Check(r)
  BY OwnStep DEF At
<1>3. ~Disturbed(r)
  <2>1. SUFFICES ASSUME Disturbed(r) PROVE FALSE
    OBVIOUS
  <2>2. PICK status \in {"failed", "unavailable"} :
           job' = [job EXCEPT ![r] = Verdict(r, status, "other")]
    BY <2>1 DEF Disturbed
  <2>3. job'[r].stage = status
    BY <1>1, <2>2 DEF Verdict
  <2> QED BY <2>3 DEF At
<1> QED BY <1>2, <1>3 DEF Check, VerifyCMS, Fallback, MatchGroups, VerifyChain, LookForCrl,
                          CheckCrl, CheckIssuer, At

LEMMA NotStale ==
    ASSUME VerdictInv, [Next]_vars, NEW r \in Requests,
           At(r, "active") \/ At(r, "bundle"), At(r, "issuer")'
    PROVE  /\ job[r].signer \in cache'.listed
           /\ now <= cache'.generated + MaxAge
<1>1. /\ UnderWay(r) /\ TypeOK /\ job[r] \in Running
      /\ job \in [Requests -> Running \cup Decided \cup {None}]
  BY UnderWayType DEF At, UnderWay, Stages, VerdictInv, TypeOK, JobTypes
<1>2. ASSUME StatActive(r)
      PROVE  /\ cache' = cache /\ job[r].signer \in cache.listed /\ Fresh(cache.generated)
  <2>1. Cached
    <3>1. SUFFICES ASSUME ~Cached PROVE FALSE
      OBVIOUS
    <3>2. job' = [job EXCEPT ![r] =
             [job[r] EXCEPT !.stage = "bundle", !.mtime = files.active.mtime]]
      BY <1>2, <3>1 DEF StatActive, ConsultCache
    <3>3. job'[r].stage = "bundle"
      BY <1>1, <3>2 DEF Running
    <3> QED BY <3>3 DEF At
  <2> DEFINE outcome == IF Fresh(cache.generated) THEN Listed(job[r].signer, cache.listed)
                        ELSE "unavailable"
  <2>2. Step(r, outcome) /\ cache' = cache
    BY <1>2, <2>1 DEF StatActive, ConsultCache
  <2>3. outcome \in Stages \cup Verdicts
    BY DEF Listed, Stages, Verdicts
  <2>4. outcome = "issuer"
    <3> HIDE DEF outcome
    <3> QED BY <1>1, <2>2, <2>3, StepStage DEF At
  <2> QED BY <2>2, <2>4 DEF Listed
<1>3. ASSUME ReadActive(r)
      PROVE  /\ cache'.listed = files.active.listed /\ job[r].signer \in files.active.listed
             /\ cache'.generated = files.active.generated /\ Fresh(files.active.generated)
  <2> DEFINE outcome == Listed(job[r].signer, files.active.listed)
  <2>1. outcome \in Stages \cup Verdicts
    BY DEF Listed, Stages, Verdicts
  <2>2. files.active.sound /\ Fresh(files.active.generated)
    <3>1. SUFFICES ASSUME ~(files.active.sound /\ Fresh(files.active.generated)) PROVE FALSE
      OBVIOUS
    <3>2. Conclude(r, "unavailable")
      BY <1>3, <3>1 DEF ReadActive
    <3>3. job'[r].stage = "unavailable"
      BY <1>1, <3>2 DEF Conclude, Verdict
    <3> QED BY <3>3 DEF At
  <2>3. /\ Step(r, outcome)
        /\ cache' = [mtime |-> job[r].mtime, listed |-> files.active.listed,
                     generated |-> files.active.generated]
    BY <1>3, <2>2 DEF ReadActive
  <2>4. outcome = "issuer"
    <3> HIDE DEF outcome
    <3> QED BY <1>1, <2>1, <2>3, StepStage DEF At
  <2> QED BY <2>2, <2>3, <2>4 DEF Listed
<1> QED BY <1>2, <1>3, PastSnapshot DEF Fresh

\* No signer gets past a snapshot that does not list it or is too old.
THEOREM NeverStale == Spec => NoStaleSnapshot
<1>1. ASSUME VerdictInv, [Next]_vars
      PROVE  [\A r \in Requests :
                (At(r, "active") \/ At(r, "bundle")) /\ At(r, "issuer")' =>
                   /\ job[r].signer \in cache'.listed
                   /\ now <= cache'.generated + MaxAge]_vars
  BY <1>1, NotStale
<1> QED BY <1>1, Inductive, PTL DEF Spec, NoStaleSnapshot
=============================================================================
