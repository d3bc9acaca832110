--------------------------- MODULE ChallengeStore ---------------------------
(***************************************************************************)
(* The in-memory Map of challenges in appattest.js.  Every function runs   *)
(* without an await, so each is one action.  Ids are random in the code;   *)
(* here they are the order of issue, which is the insertion order of the   *)
(* Map.                                                                    *)
(*                                                                         *)
(* An operator named X_Y is X with a plausible fault Y, used by no         *)
(* specification.                                                          *)
(***************************************************************************)
EXTENDS Integers, FiniteSets, Sequences

CONSTANTS
    Contributors,
    Purposes,           \* "attestation", "liveness", "document_auth" and the
                        \* calibration variants of the last two
    Nobody, NoPurpose,
    MaxChallenges,      \* MAX_CHALLENGES
    MaxPerContributor,  \* MAX_PER_CONTRIBUTOR
    MaxIssued           \* bound on the model: how many are ever issued

ASSUME LimitsAreNatural ==
    /\ MaxChallenges \in Nat \ {0}
    /\ MaxPerContributor \in Nat \ {0}
    /\ MaxIssued \in Nat

Ids == 1..MaxIssued

VARIABLES
    challenges,  \* the Map
    log,         \* history: to whom and for what each id was issued
    grants       \* history: to whom and for what consumeChallenge gave each id

vars == <<challenges, log, grants>>

Request == [owner : Contributors, purpose : Purposes]
Challenge == [id : Ids, owner : Contributors, purpose : Purposes,
              expired : BOOLEAN]

TypeOK ==
    /\ challenges \subseteq Challenge
    /\ log \in Seq(Request) /\ Len(log) <= MaxIssued
    /\ \A x \in challenges :
          /\ x.id <= Len(log)
          /\ log[x.id] = [owner |-> x.owner, purpose |-> x.purpose]
    /\ grants \in [Ids -> Seq(Request)]

Init ==
    /\ challenges = {}
    /\ log = <<>>
    /\ grants = [i \in Ids |-> <<>>]

-----------------------------------------------------------------------------
Mine(c) == {x \in challenges : x.owner = c}
Unexpired(xs) == {x \in xs : ~x.expired}

(* The oldest of one's own make room for the new one.                        *)
Evicted_OneTooFew(c) ==
    {x \in Mine(c) : Cardinality({y \in Mine(c) : y.id > x.id})
                        >= MaxPerContributor}
Evicted(c) ==
    {x \in Mine(c) : Cardinality({y \in Mine(c) : y.id > x.id})
                        >= MaxPerContributor - 1}

(* At the global limit the expired ones go.                                  *)
Room(c) ==
    LET kept == challenges \ Evicted(c)
    IN  IF Cardinality(kept) >= MaxChallenges THEN Unexpired(kept) ELSE kept

Issue(c, p) ==
    /\ Len(log) < MaxIssued
    /\ Cardinality(Room(c)) < MaxChallenges
    /\ challenges' = Room(c) \cup
          {[id |-> Len(log) + 1, owner |-> c, purpose |-> p, expired |-> FALSE]}
    /\ log' = Append(log, [owner |-> c, purpose |-> p])
    /\ UNCHANGED grants

(* 'Челенджі вичерпано': the caller answers 503.                             *)
RefuseToIssue(c) ==
    /\ Cardinality(Room(c)) >= MaxChallenges
    /\ challenges' = Room(c)
    /\ UNCHANGED <<log, grants>>

Consume_BurnsForeign(i, c, p) ==
    \E x \in challenges :
        /\ x.id = i
        /\ challenges' = challenges \ {x}
        /\ grants' = IF x.owner # c \/ x.purpose # p \/ x.expired THEN grants
                     ELSE [grants EXCEPT ![i] =
                              Append(@, [owner |-> c, purpose |-> p])]
        /\ UNCHANGED log
Consume_AnyPurpose(i, c, p) ==
    \E x \in challenges :
        /\ x.id = i /\ x.owner = c
        /\ challenges' = challenges \ {x}
        /\ grants' = IF x.expired THEN grants
                     ELSE [grants EXCEPT ![i] =
                              Append(@, [owner |-> c, purpose |-> p])]
        /\ UNCHANGED log
(* A challenge that is not there, or not the caller's, is left alone.        *)
Consume(i, c, p) ==
    \E x \in challenges :
        /\ x.id = i /\ x.owner = c /\ x.purpose = p
        /\ challenges' = challenges \ {x}
        /\ grants' = IF x.expired THEN grants
                     ELSE [grants EXCEPT ![i] =
                              Append(@, [owner |-> c, purpose |-> p])]
        /\ UNCHANGED log

(* inspectChallenge changes the Map only when it meets an expired one.       *)
Inspect(i, c, p) ==
    \E x \in challenges :
        /\ x.id = i /\ x.owner = c /\ x.purpose = p /\ x.expired
        /\ challenges' = challenges \ {x}
        /\ UNCHANGED <<log, grants>>

Sweep ==
    /\ challenges' = Unexpired(challenges)
    /\ UNCHANGED <<log, grants>>

(* Time passes: 90 seconds for the physical operations, 5 minutes for an     *)
(* attestation.                                                              *)
Lifetime(p) == IF p = "attestation" THEN 300 ELSE 90

Expire(x) ==
    /\ ~x.expired
    /\ \A y \in challenges :
          y.id < x.id /\ Lifetime(y.purpose) <= Lifetime(x.purpose) => y.expired
    /\ challenges' = (challenges \ {x}) \cup {[x EXCEPT !.expired = TRUE]}
    /\ UNCHANGED <<log, grants>>

Restart ==
    /\ challenges' = {}
    /\ UNCHANGED <<log, grants>>

Next ==
    \/ \E c \in Contributors :
          RefuseToIssue(c) \/ \E p \in Purposes : Issue(c, p)
    \/ \E i \in Ids, c \in Contributors, p \in Purposes :
          Consume(i, c, p) \/ Inspect(i, c, p)
    \/ Sweep
    \/ \E x \in challenges : Expire(x)
    \/ Restart

Spec == Init /\ [][Next]_vars

-----------------------------------------------------------------------------
(* Properties. *)

(* The Map never outgrows its limits: MAX_PER_CONTRIBUTOR of one account,    *)
(* MAX_CHALLENGES of all together.                                           *)
WithinLimits ==
    /\ Cardinality(challenges) <= MaxChallenges
    /\ \A c \in Contributors : Cardinality(Mine(c)) <= MaxPerContributor

(* No account loses a challenge that is still good through what others do:   *)
(* such a challenge goes when its owner uses it, with the process, or when   *)
(* it is the oldest of an owner at the limit who is given a new one          *)
(* (docs/AUDIT_RESPONSE_2026-07-19.md:274-276).                              *)
LosesGood(x) == \A y \in challenges' : y.id # x.id

OnlyTheOwnerLosesIt ==
    [][\A x \in Unexpired(challenges) : LosesGood(x) =>
          \/ grants'[x.id] # grants[x.id]
          \/ challenges' = {}
          \/ /\ log' = Append(log, log'[Len(log')])
             /\ log'[Len(log')].owner = x.owner
             /\ Cardinality(Mine(x.owner)) = MaxPerContributor
             /\ \A y \in Mine(x.owner) : x.id <= y.id]_vars

(* The Map keeps the promise of ChallengeLedger: one owner, one purpose, one *)
(* use.                                                                      *)
StateOf(i) ==
    IF grants[i] # <<>>
    THEN IF grants[i] = <<log[i]>> THEN "consumed" ELSE "misused"
    ELSE IF \E x \in Unexpired(challenges) : x.id = i THEN "live" ELSE "gone"

Unissued == [state |-> "unissued", owner |-> Nobody, purpose |-> NoPurpose]

Ledger == INSTANCE ChallengeLedger WITH
    ledger <- [i \in Ids |->
                  IF i > Len(log) THEN Unissued
                  ELSE [state |-> StateOf(i), owner |-> log[i].owner,
                        purpose |-> log[i].purpose]]

ImplementsLedger == Ledger!Spec
=============================================================================
