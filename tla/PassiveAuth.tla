----------------------------- MODULE PassiveAuth -----------------------------
(***************************************************************************)
(* Passive Authentication, verifySOD of passiveauth.js: a bounded pool of  *)
(* checks that share the processor, a chain of openssl calls for each, the *)
(* files they read, which an administrator replaces while checks run, and  *)
(* the cache of the snapshot of active document signers.                   *)
(*                                                                         *)
(* A signature, a hash or a certificate is what verifying it yields.  The  *)
(* document of a request is chosen in the step that looks at it, so that a *)
(* job carries only what later steps use.                                  *)
(*                                                                         *)
(* An operator named X_Y is X with a plausible fault Y, used by no         *)
(* specification.                                                          *)
(***************************************************************************)
EXTENDS Naturals, Sequences, FiniteSets

CONSTANTS
    Requests,                 \* callers that may be in verifySOD at a time
    MaxConcurrent,            \* MAX_CONCURRENT, 2
    MaxWaiters,               \* MAX_WAITERS, 64
    Signers,                  \* document signer certificates (DSC)
    Ukrainian,                \* those whose issuer has C=UA
    MaxAge,                   \* ACTIVE_DSC_MAX_AGE_MS, in units of the clock
    MaxNow, MaxReplacements,  \* bounds of the clock and of replaced files
    None

ASSUME PoolAssumption ==
    MaxConcurrent \in Nat \ {0} /\ MaxWaiters \in Nat /\ IsFiniteSet(Requests)

ASSUME FilesAssumption ==
    Ukrainian \subseteq Signers /\ MaxAge \in Nat /\ MaxNow \in Nat /\ MaxReplacements \in Nat

VARIABLES
    running,   \* permits taken
    waiters,   \* callers asleep in acquire, first come first
    job,       \* the check a caller has under way
    files,     \* the files as they are now, and the number of replacements
    cache,     \* activeDscCache
    now,
    strict     \* PA_REVOCATION_MODE, read when the process starts

vars == <<running, waiters, job, files, cache, now, strict>>

-----------------------------------------------------------------------------
(* The files.  A list that is missing, or without a certificate, is empty. *)

\* The CRLs: whether the file has any, the signers whose issuer published one,
\* and their expiry, if they cover any.
Crl == {c \in [present : BOOLEAN, covers : SUBSET Signers, revokes : SUBSET Signers,
               until : 0..MaxNow] :
          /\ c.revokes \subseteq c.covers /\ (c.present \/ c.covers = {})
          /\ c.covers = {} => c.until = 0}

\* The snapshot of active signers; sound: its size, provenance and number of
\* certificates, no CA and no duplicate among them.  One that is not sound is
\* refused, whatever else it says.
Snapshot == {s \in [listed : SUBSET Signers, sound : BOOLEAN, generated : 0..MaxNow,
                    mtime : 0..MaxReplacements] :
               s.sound \/ (s.listed = {} /\ s.generated = 0)}

Files == [anchors : SUBSET Signers,    \* signers that chain to the master list
          lookup : SUBSET Signers,     \* DSC_LOOKUP_BUNDLE
          crl : Crl,
          active : Snapshot,
          version : 0..MaxReplacements]

\* What can be said for a signer, from the master list, the CRLs (not revoked,
\* or cleared: that is enough) and the snapshot.
Grounds == {"anchored", "unrevoked", "cleared", "listed"}

\* All but stage, signer and mtime is history: the document is what the state
\* signed, as far as the check has come; no file and no time has changed since
\* it began; what failed in it, "crl" if it could not read the CRLs; what was
\* true of the signer at some moment while the check had it; and, of a verdict,
\* what it had to be.
Stages == {"cms", "fallback", "groups", "chain", "crl", "crl_check", "active", "bundle",
           "issuer"}
Verdicts == {"passed", "failed", "unavailable"}
Troubles == {"none", "crl", "other"}
Running == [stage : Stages, signer : Signers \cup {None}, mtime : 0..MaxReplacements,
            genuine : BOOLEAN, steady : BOOLEAN, trouble : Troubles,
            grounds : SUBSET Grounds]
Decided == [stage : Verdicts, expected : {"pass", "refuse", "either"}, trouble : Troubles]

NewJob == [stage |-> "cms", signer |-> None, mtime |-> 0, genuine |-> TRUE,
           steady |-> TRUE, trouble |-> "none", grounds |-> {}]

ASSUME NoneAssumption == None \notin Running \cup Decided \cup Signers

TypeOK ==
    /\ running \in 0..MaxConcurrent
    /\ waiters \in Seq(Requests) /\ Len(waiters) <= MaxWaiters
    /\ job \in [Requests -> Running \cup Decided \cup {None}]
    /\ files \in Files
    /\ cache \in {None} \cup [mtime : 0..MaxReplacements, listed : SUBSET Signers,
                              generated : 0..MaxNow]
    /\ now \in 0..MaxNow
    /\ strict \in BOOLEAN

Init ==
    /\ running = 0 /\ waiters = <<>>
    /\ job = [r \in Requests |-> None]
    /\ files = [anchors |-> Signers, lookup |-> Ukrainian,
                crl |-> [present |-> FALSE, covers |-> {}, revokes |-> {}, until |-> 0],
                active |-> [listed |-> Signers, sound |-> TRUE, generated |-> 0, mtime |-> 0],
                version |-> 0]
    /\ cache = None
    /\ now = 0
    /\ strict \in BOOLEAN

-----------------------------------------------------------------------------
(* The pool *)

Waiting(r) == \E i \in DOMAIN waiters : waiters[i] = r
At(r, stage) == job[r] # None /\ job[r].stage = stage
UnderWay(r) == job[r] # None /\ job[r].stage \in Stages
Concluded(r) == job[r] # None /\ job[r].stage \in Verdicts

TakePermit(r) ==
    /\ running < MaxConcurrent
    /\ running' = running + 1
    /\ job' = [job EXCEPT ![r] = NewJob]
    /\ UNCHANGED waiters

Queue(r) ==
    /\ running >= MaxConcurrent /\ Len(waiters) < MaxWaiters
    /\ waiters' = Append(waiters, r)
    /\ UNCHANGED <<running, job>>

\* acquire; a caller that finds the queue full is refused at once and leaves
\* no trace.
Acquire(r) ==
    /\ job[r] = None /\ ~Waiting(r)
    /\ TakePermit(r) \/ Queue(r)
    /\ UNCHANGED <<files, cache, now, strict>>

FreePermit(r) ==
    /\ waiters = <<>>
    /\ running' = running - 1
    /\ job' = [job EXCEPT ![r] = None]
    /\ UNCHANGED waiters

HandOver_FreesToo(r) ==
    /\ waiters # <<>>
    /\ running' = running - 1
    /\ job' = [job EXCEPT ![r] = None, ![Head(waiters)] = NewJob]
    /\ waiters' = Tail(waiters)

HandOver_NewestFirst(r) ==
    /\ waiters # <<>>
    /\ job' = [job EXCEPT ![r] = None, ![waiters[Len(waiters)]] = NewJob]
    /\ waiters' = SubSeq(waiters, 1, Len(waiters) - 1)
    /\ UNCHANGED running

\* The permit goes to the caller that waits longest, whose check begins.
HandOver(r) ==
    /\ waiters # <<>>
    /\ job' = [job EXCEPT ![r] = None, ![Head(waiters)] = NewJob]
    /\ waiters' = Tail(waiters)
    /\ UNCHANGED running

\* release, in the finally of verifySOD, after the verdict.
Release(r) ==
    /\ Concluded(r)
    /\ FreePermit(r) \/ HandOver(r)
    /\ UNCHANGED <<files, cache, now, strict>>

-----------------------------------------------------------------------------
(* What a check concludes *)

\* A CRL past its time is not in force, and says nothing of its signers.
GroundsFor(signer, fs, time) ==
    {g \in Grounds :
        \/ g = "anchored" /\ signer \in fs.anchors
        \/ /\ g \in {"unrevoked", "cleared"}
           /\ signer \notin fs.crl.revokes
           /\ signer \in fs.crl.covers => time <= fs.crl.until
           /\ g = "cleared" => signer \in fs.crl.covers /\ ~strict
        \/ /\ g = "listed"
           /\ fs.active.sound /\ signer \in fs.active.listed
           /\ time <= fs.active.generated + MaxAge}

\* CRLs that could not be read count as none, and then the snapshot decides.
Sufficient(grounds, trouble) ==
    /\ "anchored" \in grounds
    /\ trouble = "crl" \/ "unrevoked" \in grounds
    /\ "listed" \in grounds \/ (trouble # "crl" /\ "cleared" \in grounds)

GoodStanding(r) ==
    /\ job[r].signer \in Ukrainian
    /\ Sufficient(GroundsFor(job[r].signer, files, now), job[r].trouble)

\* Before the groups are seen a check cannot tell which document it has.
Expected(r) ==
    IF ~job[r].steady \/ job[r].stage \in {"cms", "fallback", "groups"} THEN "either"
    ELSE IF job[r].genuine /\ GoodStanding(r) THEN "pass" ELSE "refuse"

Verdict(r, status, trouble) ==
    [stage |-> status, expected |-> Expected(r), trouble |-> trouble]

Conclude(r, status) ==
    /\ job' = [job EXCEPT ![r] = Verdict(r, status, job[r].trouble)]
    /\ UNCHANGED <<running, waiters, files, now, strict>>

Proceed(r, stage) ==
    /\ job' = [job EXCEPT ![r] = [job[r] EXCEPT !.stage = stage]]
    /\ UNCHANGED <<running, waiters, files, now, strict>>

\* A step of the check ends it with a verdict, or goes on to the next stage.
Step(r, outcome) ==
    IF outcome \in Verdicts
    THEN Conclude(r, outcome) ELSE Proceed(r, outcome)

-----------------------------------------------------------------------------
(* 1. The signature of the SOD *)

\* sid: how the signer identifier spells the issuer's name.
SOD == [form : {"cms", "other"}, signature : {"valid", "invalid", "unsupported"},
        signer : Signers, embedded : BOOLEAN, sid : {"exact", "reordered"}]

\* openssl compares names byte for byte.
FoundByOpenSSL(sod, bundle) ==
    sod.sid = "exact" /\ (sod.embedded \/ sod.signer \in bundle)

CmsOutcome(sod, bundle) ==
    IF sod.form = "other" THEN "failed"
    ELSE IF ~FoundByOpenSSL(sod, bundle) THEN "fallback"
    ELSE CASE sod.signature = "valid" -> "groups"
           [] sod.signature = "invalid" -> "failed"
           [] sod.signature = "unsupported" -> "unavailable"

\* A lookup bundle that cannot be read is left out of the call.
VerifyCMS(r) ==
    /\ At(r, "cms")
    /\ \E readable \in BOOLEAN :
       \E seen \in {<<CmsOutcome(sod, IF readable THEN files.lookup ELSE {}), sod.signer,
                      sod.signature = "valid">> : sod \in SOD} :
          LET trouble == IF readable THEN "none" ELSE "other" IN
          IF seen[1] \in Verdicts
          THEN job' = [job EXCEPT ![r] = Verdict(r, seen[1], trouble)]
          ELSE job' = [job EXCEPT ![r] =
                  [job[r] EXCEPT !.stage = seen[1], !.signer = seen[2], !.genuine = seen[3],
                                 !.trouble = trouble,
                                 !.grounds = GroundsFor(seen[2], files, now)]]
    /\ UNCHANGED <<running, waiters, files, cache, now, strict>>

\* trySidTolerantVerify: names are compared as sets of attributes, and the
\* digest and the signature are verified.
FallbackAccepts_AnySignature(r) == job[r].signer \in files.lookup
FallbackAccepts(r) == job[r].signer \in files.lookup /\ job[r].genuine

\* The fallback reads the bundle again.  It takes only the profile of one signer
\* with signed attributes and an RSA signature of PKCS #1 v1.5.
Fallback(r) ==
    /\ At(r, "fallback")
    /\ \/ FallbackAccepts(r) /\ Proceed(r, "groups")
       \/ Conclude(r, "unavailable")
    /\ UNCHANGED cache

(* 2. The data groups *)

Groups == {"dg1", "dg2", "dg14", "dg15"}
ChipGroups == {"dg14", "dg15"}

\* The groups the LDS object signs, and what the client sent of each.
Evidence == [signed : SUBSET Groups, sent : [Groups -> {"same", "other", "nothing"}],
             evaluationOnly : BOOLEAN]

\* parseLDSSecurityObject wants DG1 and DG2; then every signed group must have
\* been sent, except DG14 and DG15 in an evaluation, and what was sent match.
GroupsMatch(e) ==
    /\ {"dg1", "dg2"} \subseteq e.signed
    /\ \A g \in Groups :
          /\ g \in e.signed /\ e.sent[g] = "nothing" => e.evaluationOnly /\ g \in ChipGroups
          /\ e.sent[g] # "nothing" => g \in e.signed /\ e.sent[g] = "same"

\* The document the client holds out is the signed one: the whole of it, in
\* an evaluation at least its first two groups.
Authentic(e) ==
    LET whole == [g \in Groups |-> IF g \in e.signed THEN "same" ELSE "nothing"] IN
    /\ {"dg1", "dg2"} \subseteq e.signed
    /\ \E omitted \in SUBSET (IF e.evaluationOnly THEN ChipGroups ELSE {}) :
          e.sent = [g \in Groups |-> IF g \in omitted THEN "nothing" ELSE whole[g]]

GroupOutcomes == {<<GroupsMatch(e), Authentic(e)>> : e \in Evidence}

MatchGroups(r) ==
    /\ At(r, "groups")
    /\ \E outcome \in GroupOutcomes :
          IF outcome[1]
          THEN job' = [job EXCEPT ![r] =
                  [job[r] EXCEPT !.stage = "chain", !.genuine = job[r].genuine /\ outcome[2]]]
          ELSE job' = [job EXCEPT ![r] =
                  [Verdict(r, "failed", job[r].trouble) EXCEPT
                      !.expected = IF outcome[2] THEN "pass" ELSE "refuse"]]
    /\ UNCHANGED <<running, waiters, files, cache, now, strict>>

(* 3. The signer *)

\* openssl verify found no chain, for one reason or another.
Unchained(r) == \E status \in {"failed", "unavailable"} : Conclude(r, status)

VerifyChain(r) ==
    /\ At(r, "chain")
    /\ \/ job[r].signer \in files.anchors /\ Proceed(r, "crl")
       \/ job[r].signer \notin files.anchors /\ files.anchors # {} /\ Unchained(r)
       \/ files.anchors = {} /\ Conclude(r, "unavailable")
    /\ UNCHANGED cache

\* containsPEMCRL: CRLs that cannot be read are as good as none.
LookForCrl(r) ==
    /\ At(r, "crl")
    /\ \/ Proceed(r, IF files.crl.present THEN "crl_check" ELSE "active")
       \/ /\ job' = [job EXCEPT ![r] = [job[r] EXCEPT !.stage = "active", !.trouble = "crl"]]
          /\ UNCHANGED <<running, waiters, files, now, strict>>
    /\ UNCHANGED cache

\* A signer no CRL covers, and in strict mode every signer, must be active.
\* openssl cannot load a file without a CRL.
CrlOutcome(signer) ==
    IF ~files.crl.present \/ signer \in files.crl.revokes THEN "failed"
    ELSE IF signer \in files.crl.covers /\ now > files.crl.until THEN "unavailable"
    ELSE IF strict \/ signer \notin files.crl.covers THEN "active" ELSE "issuer"

\* The call verifies the chain once more, with the files as they are by now.
CheckCrl(r) ==
    /\ At(r, "crl_check")
    /\ \/ job[r].signer \in files.anchors /\ Step(r, CrlOutcome(job[r].signer))
       \/ job[r].signer \notin files.anchors /\ Unchained(r)
    /\ UNCHANGED cache

Fresh(generated) == now <= generated + MaxAge

Listed(signer, listed) == IF signer \in listed THEN "issuer" ELSE "failed"

Cached_WhateverFile == cache # None
Cached == cache # None /\ cache.mtime = files.active.mtime

ConsultCache_NoAge(r) ==
    /\ Cached
    /\ Step(r, Listed(job[r].signer, cache.listed))

\* The cached snapshot is of the file there is: only its age may have changed.
ConsultCache(r) ==
    /\ Cached
    /\ Step(r, IF Fresh(cache.generated) THEN Listed(job[r].signer, cache.listed)
               ELSE "unavailable")

\* loadFreshActiveDSCBundle: stat, and the cache if it is of this file.
StatActive(r) ==
    /\ At(r, "active")
    /\ \/ ConsultCache(r)
       \/ /\ ~Cached
          /\ job' = [job EXCEPT ![r] =
                  [job[r] EXCEPT !.stage = "bundle", !.mtime = files.active.mtime]]
          /\ UNCHANGED <<running, waiters, files, now, strict>>
    /\ UNCHANGED cache

\* The file is read after the stat, and cached under what the stat said.
ReadActive(r) ==
    /\ At(r, "bundle")
    /\ LET file == files.active IN
       IF file.sound /\ Fresh(file.generated)
       THEN /\ cache' = [mtime |-> job[r].mtime, listed |-> file.listed,
                         generated |-> file.generated]
            /\ Step(r, Listed(job[r].signer, file.listed))
       ELSE Conclude(r, "unavailable") /\ UNCHANGED cache

(* 4. The country *)

CheckIssuer(r) ==
    /\ At(r, "issuer")
    /\ Conclude(r, IF job[r].signer \in Ukrainian THEN "passed" ELSE "failed")
    /\ UNCHANGED cache

\* An openssl call that times out or cannot run, a temporary file that cannot
\* be read or written: failed.  A master list, the certificates beside it, a
\* lookup bundle or a snapshot that cannot be read: unavailable.  (Of the CRLs
\* LookForCrl speaks, and of the lookup bundle at first VerifyCMS.)
Disturbed(r) ==
    /\ job[r].stage # "crl"
    /\ \E status \in {"failed"} \cup
            (IF job[r].stage \in {"fallback", "chain", "active", "bundle"}
             THEN {"unavailable"} ELSE {}) :
          job' = [job EXCEPT ![r] = Verdict(r, status, "other")]
    /\ UNCHANGED <<running, waiters, files, cache, now, strict>>

-----------------------------------------------------------------------------
(* The administrator and the clock *)

\* The checks under way, once the files are fs and the time is time.
Overtaken(fs, time) == [r \in Requests |->
    IF UnderWay(r)
    THEN [job[r] EXCEPT !.steady = FALSE,
                        !.grounds = @ \cup GroundsFor(job[r].signer, fs, time)]
    ELSE job[r]]

ReplaceFile ==
    /\ files.version < MaxReplacements
    /\ LET next == [files EXCEPT !.version = files.version + 1] IN
       \/ \E list \in SUBSET Signers : files' = [next EXCEPT !.anchors = list]
       \/ \E list \in SUBSET Signers : files' = [next EXCEPT !.lookup = list]
       \/ \E crl \in Crl : files' = [next EXCEPT !.crl = crl]
       \/ \E snapshot \in Snapshot :
             /\ snapshot.generated <= now /\ snapshot.mtime = next.version
             /\ files' = [next EXCEPT !.active = snapshot]
    /\ job' = Overtaken(files', now)
    /\ UNCHANGED <<running, waiters, cache, now, strict>>

Tick ==
    /\ now < MaxNow
    /\ now' = now + 1
    /\ job' = Overtaken(files, now')
    /\ UNCHANGED <<running, waiters, files, cache, strict>>

Check(r) ==
    /\ UnderWay(r)
    /\ \/ Disturbed(r)
       \/ VerifyCMS(r) \/ Fallback(r) \/ MatchGroups(r) \/ VerifyChain(r)
       \/ LookForCrl(r) \/ CheckCrl(r)
       \/ StatActive(r) \/ ReadActive(r) \/ CheckIssuer(r)

Next ==
    \/ \E r \in Requests : Acquire(r) \/ Check(r) \/ Release(r)
    \/ ReplaceFile \/ Tick

\* Every call a check awaits ends: openssl within OPENSSL_TIMEOUT_MS.
Fairness == \A r \in Requests : WF_vars(Check(r) \/ Release(r))

Spec == Init /\ [][Next]_vars /\ Fairness

-----------------------------------------------------------------------------
(* Properties *)

\* Permits are neither lost nor made up, whoever ends first: as many are taken
\* as checks are under way, and nobody waits while one is free.
PermitsExact ==
    /\ running = Cardinality({r \in Requests : job[r] # None})
    /\ running <= MaxConcurrent
    /\ waiters # <<>> => running = MaxConcurrent
    /\ \A r \in Requests : Waiting(r) => job[r] = None

\* Also a check that files are replaced under, call after call, passes only a
\* document whose signature verified, by openssl or by the fallback, over the
\* groups presented, and whose signer was found on the master list, not revoked
\* and where necessary active in files that really were in place meanwhile: no
\* earlier file, no cached list and no other check's result speaks for it.
PassedOnTrueGrounds ==
    [][\A r \in Requests : ~Concluded(r) /\ At(r, "passed")' =>
          job[r].genuine /\ Sufficient(job[r].grounds, job[r].trouble)]_vars

\* A check during which no file changed and no time passed passes exactly the
\* authentic documents of signers in good standing; if a call of it failed, it
\* may also refuse, but never passes another.
SteadyVerdict ==
    \A r \in Requests : Concluded(r) =>
        /\ job[r].expected = "pass" /\ job[r].trouble = "none" => job[r].stage = "passed"
        /\ job[r].expected = "refuse" => job[r].stage # "passed"

\* A signer gets past the snapshot only with one that lists it and is no older
\* than MaxAge at that moment, cached or not.
NoStaleSnapshot ==
    [][\A r \in Requests :
         (At(r, "active") \/ At(r, "bundle")) /\ At(r, "issuer")' =>
            /\ job[r].signer \in cache'.listed
            /\ now <= cache'.generated + MaxAge]_vars

\* Every caller that is let in or queued gets an answer and leaves.
EveryoneAnswered ==
    \A r \in Requests : (Waiting(r) \/ job[r] # None) ~> (~Waiting(r) /\ job[r] = None)

=============================================================================
