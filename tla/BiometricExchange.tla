-------------------------- MODULE BiometricExchange --------------------------
(***************************************************************************)
(* The auth server asks the biometric service, verifySelfHostedBiometrics  *)
(* of biometric_client.js: signed requests with a nonce and a timestamp,   *)
(* workers that serve one each and share the nonces they have seen as      *)
(* files (replay_cache.py), signed answers.  A message may be delivered    *)
(* late, repeatedly, or to somebody else.                                  *)
(*                                                                         *)
(* Time has two ticks to the second: timestamps are cut to the second, the *)
(* times of files are not.                                                 *)
(*                                                                         *)
(* An operator named X_Y is X with a plausible fault Y, used by no         *)
(* specification.                                                          *)
(***************************************************************************)
EXTENDS Naturals, FiniteSets

CONSTANTS
    Requests,      \* calls of the auth server; each has its id and nonce
    Workers,
    Window,        \* AUTH_WINDOW_SECONDS, and that of answers, 30
    Ttl,           \* ttl_seconds of the cache, 60
    MaxEntries,    \* maximum_entries of the cache, 4096
    Skew,          \* ticks by which the clock of the auth server may be ahead
    Delay,         \* ticks a worker may take from the timestamp to the nonce
    Bodies,        \* the evidence of calls
    CalibrationApproved,
    MaxNow,        \* bound of the clock
    None

\* The evidence: whether a group came along and what it supports, what the
\* client claims to have done with it, whether its movements and all the rest
\* pass, and whether the call is for evaluation only.
Evidence == [dg14 : {"absent", "no_ca", "ca"}, dg15 : {"absent", "signed", "unsigned"},
             caPassed : BOOLEAN, aaPassed : BOOLEAN,
             challengePassed : BOOLEAN, othersPassed : BOOLEAN,
             evaluationOnly : BOOLEAN]

ASSUME BodiesAssumption == Bodies \subseteq Evidence /\ CalibrationApproved \in BOOLEAN

\* With Ttl = 2 * Window the clock of the auth server and a slow worker
\* together may take nearly a window, which the code takes for granted.
ASSUME TimesAssumption ==
    /\ Window \in Nat /\ Ttl \in Nat /\ MaxEntries \in Nat
    /\ Skew \in Nat /\ Delay \in Nat /\ MaxNow \in Nat
    /\ Skew + Delay + 2 * Window < 2 * Ttl
    /\ None \notin Nat

VARIABLES
    now,        \* of the service, in ticks
    ahead,      \* ticks by which the auth server's clock is
    calls,      \* calls of the auth server
    workers,
    cache,      \* nonce files, with their modification times
    answers,    \* the last answer to a request, to whomever it is delivered
    worked      \* history: how often each request was worked on

vars == <<now, ahead, calls, workers, cache, answers, worked>>

Seconds(t) == t \div 2

-----------------------------------------------------------------------------
(* What the service finds *)

\* verify of engine.py: a chip that supports an authentication must have
\* passed it, and none other can be claimed.
Coherent(e) ==
    /\ e.caPassed <=> e.dg14 = "ca"
    /\ e.aaPassed <=> e.dg15 # "absent"
    /\ e.dg15 # "unsigned"

Decision(e) ==
    IF ~(CalibrationApproved \/ e.evaluationOnly) THEN "unavailable"
    ELSE IF e.challengePassed /\ e.othersPassed THEN "passed" ELSE "failed"

Assurance(e) ==
    IF e.dg15 # "absent" THEN "active_authentication"
    ELSE IF e.caPassed THEN "chip_authentication_attested" ELSE "passive_only"

Result(e) ==
    [decision |-> Decision(e), challengePassed |-> e.challengePassed,
     groups |-> {g \in {"dg14", "dg15"} : e[g] # "absent"},
     assurance |-> Assurance(e),
     activeAuthentication |-> e.dg15 # "absent", chipAuthentication |-> e.caPassed,
     evaluationOnly |-> e.evaluationOnly]

\* validateResult
Valid(result) ==
    /\ result.assurance = "active_authentication" <=> result.activeAuthentication
    /\ result.assurance = "chip_authentication_attested" => result.chipAuthentication
    /\ result.chipAuthentication => "dg14" \in result.groups
    /\ result.activeAuthentication <=> "dg15" \in result.groups
    /\ result.decision = "passed" => result.challengePassed

-----------------------------------------------------------------------------
NewCall == [state |-> "new", timestamp |-> 0, evidence |-> None, result |-> None]

Results == {Result(e) : e \in Bodies}
SentCalls == [state : {"waiting", "answered", "failed"}, timestamp : Nat,
              evidence : Bodies, result : Results \cup {None}]
Calls == {NewCall} \cup SentCalls
AtWork == [stage : {"checked", "cleaning", "working"}, request : Requests,
           since : Nat, current : Nat, old : SUBSET Requests]

TypeOK ==
    /\ now \in Nat /\ ahead \in 0..Skew
    /\ calls \in [Requests -> Calls]
    /\ workers \in [Workers -> AtWork \cup {None}]
    /\ cache \in [Requests -> Nat \cup {None}]
    /\ answers \in [Requests -> [timestamp : Nat, good : BOOLEAN] \cup {None}]
    /\ worked \in [Requests -> 0..2]

Init ==
    /\ now = 0 /\ ahead \in 0..Skew
    /\ calls = [r \in Requests |-> NewCall]
    /\ workers = [w \in Workers |-> None]
    /\ cache = [r \in Requests |-> None]
    /\ answers = [r \in Requests |-> None]
    /\ worked = [r \in Requests |-> 0]

-----------------------------------------------------------------------------
(* The auth server *)

Send(r) ==
    /\ calls[r].state = "new"
    /\ \E e \in Bodies :
          calls' = [calls EXCEPT ![r] =
             [state |-> "waiting", timestamp |-> Seconds(now + ahead),
              evidence |-> e, result |-> None]]
    /\ UNCHANGED <<now, ahead, workers, cache, answers, worked>>

Fresh(a) ==
    LET t == now + ahead IN
    t <= 2 * (answers[a].timestamp + Window) /\ 2 * answers[a].timestamp <= t + 2 * Window

SignedFor_Anyone(a, r) == Fresh(a)

\* verifyResponseSignature: signed lately, for the id of this call.
SignedFor(a, r) == a = r /\ Fresh(a)

\* What came with the answer to a.
ResultOf(a) == Result(calls[a].evidence)

Usable(a, r) ==
    /\ SignedFor(a, r)
    /\ answers[a].good /\ Valid(ResultOf(a))
    /\ ResultOf(a).evaluationOnly = calls[r].evidence.evaluationOnly

\* The answer to a is delivered to the call r.
Receive(r, a) ==
    /\ calls[r].state = "waiting" /\ answers[a] # None
    /\ calls' = [calls EXCEPT ![r] =
          IF Usable(a, r) THEN [calls[r] EXCEPT !.state = "answered", !.result = ResultOf(a)]
          ELSE [calls[r] EXCEPT !.state = "failed"]]
    /\ UNCHANGED <<now, ahead, workers, cache, answers, worked>>

\* It breaks, or its 40 s are over.
GiveUp(r) ==
    /\ calls[r].state = "waiting"
    /\ calls' = [calls EXCEPT ![r].state = "failed"]
    /\ UNCHANGED <<now, ahead, workers, cache, answers, worked>>

-----------------------------------------------------------------------------
(* A worker.  A request it refuses leaves no trace but the cleaning.       *)

At(w, stage) == workers[w] # None /\ workers[w].stage = stage
Entries == {r \in Requests : cache[r] # None}

Within(t, timestamp) ==
    Seconds(t) <= timestamp + Window /\ timestamp <= Seconds(t) + Window

\* _authenticate up to the nonce: the time, then the signature.
Authenticate(w, r) ==
    /\ workers[w] = None /\ calls[r].state # "new"
    /\ Within(now, calls[r].timestamp)
    /\ workers' = [workers EXCEPT ![w] =
          [stage |-> "checked", request |-> r, since |-> now, current |-> now, old |-> {}]]
    /\ UNCHANGED <<now, ahead, calls, cache, answers, worked>>

Expired_InHalfTheTime(r, t) == cache[r] + Ttl < t
Expired(r, t) == cache[r] + 2 * Ttl < t

\* _cleanup looks at every file, and at their number.
Scan(w) ==
    /\ At(w, "checked")
    /\ LET old == {r \in Entries : Expired(r, now)} IN
       /\ Cardinality(Entries \ old) < MaxEntries
       /\ workers' = [workers EXCEPT ![w] =
             [workers[w] EXCEPT !.stage = "cleaning", !.current = now, !.old = old]]
    /\ UNCHANGED <<now, ahead, calls, cache, answers, worked>>

\* A file that another worker was quicker to remove is an error.
Unlink(w, r) ==
    /\ At(w, "cleaning") /\ r \in workers[w].old /\ cache[r] # None
    /\ cache' = [cache EXCEPT ![r] = None]
    /\ workers' = [workers EXCEPT ![w].old = workers[w].old \ {r}]
    /\ UNCHANGED <<now, ahead, calls, answers, worked>>

Create_Overwrites(r) == TRUE
Create(r) == cache[r] = None     \* O_EXCL

OnceMore(n) == IF n < 2 THEN n + 1 ELSE n

KeepNonce(w) ==
    /\ At(w, "cleaning") /\ workers[w].old = {}
    /\ Create(workers[w].request)
    /\ cache' = [cache EXCEPT ![workers[w].request] = workers[w].current]
    /\ workers' = [workers EXCEPT ![w] = [stage |-> "working",
          request |-> workers[w].request, since |-> 0, current |-> 0, old |-> {}]]
    /\ worked' = [worked EXCEPT ![workers[w].request] = OnceMore(worked[workers[w].request])]
    /\ UNCHANGED <<now, ahead, calls, answers>>

\* The worker answers, with a result or an error, and exits.
AnswerCall(w) ==
    /\ At(w, "working")
    /\ LET r == workers[w].request IN
       \E good \in BOOLEAN :
          /\ good => Coherent(calls[r].evidence)
          /\ answers' = [answers EXCEPT ![r] = [timestamp |-> Seconds(now), good |-> good]]
    /\ workers' = [workers EXCEPT ![w] = None]
    /\ UNCHANGED <<now, ahead, calls, cache, worked>>

\* It refuses, fails, or is killed.
Leave(w) ==
    /\ workers[w] # None
    /\ workers' = [workers EXCEPT ![w] = None]
    /\ UNCHANGED <<now, ahead, calls, cache, answers, worked>>

-----------------------------------------------------------------------------
Tick ==
    /\ now < MaxNow
    /\ \A w \in Workers : At(w, "checked") \/ At(w, "cleaning") =>
          now - workers[w].since < Delay
    /\ now' = now + 1
    /\ UNCHANGED <<ahead, calls, workers, cache, answers, worked>>

Next ==
    \/ \E r \in Requests :
          Send(r) \/ GiveUp(r) \/ (\E a \in Requests : Receive(r, a))
    \/ \E w \in Workers :
          \/ Scan(w) \/ KeepNonce(w) \/ AnswerCall(w) \/ Leave(w)
          \/ \E r \in Requests : Authenticate(w, r) \/ Unlink(w, r)
    \/ Tick

Spec == Init /\ [][Next]_vars

-----------------------------------------------------------------------------
(* Properties *)

\* A signed request is worked on at most once, however often it is delivered
\* and to however many workers at a time: a nonce is kept for as long as its
\* signature is good, when the clocks differ by no more than TimesAssumption.
WorkedOnOnce == \A r \in Requests : worked[r] <= 1

\* What a call returns was found in that very call's evidence by a worker, in
\* the call's mode, and never claims less than the chip supports.
AnswersAreOwn ==
    \A r \in Requests : calls[r].state = "answered" =>
       LET e == calls[r].evidence IN
       /\ worked[r] > 0
       /\ Coherent(e) /\ calls[r].result = Result(e)
       /\ e.dg15 # "absent" => calls[r].result.assurance = "active_authentication"
       /\ e.dg14 = "ca" => calls[r].result.assurance # "passive_only"
=============================================================================
