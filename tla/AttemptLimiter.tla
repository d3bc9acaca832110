---------------------------- MODULE AttemptLimiter ----------------------------
(***************************************************************************)
(* The limiter of verification attempts: a row of verify_rate_limit for    *)
(* every account and every device, rl_touch, rl_check and rl_reset, and    *)
(* the requests that call them.  A request carries an account and a device *)
(* and works through its two keys one transaction at a time, so requests   *)
(* interleave between them.                                                *)
(*                                                                         *)
(* Only how long a lock lasts is left out: an ordinary lock ends at some   *)
(* time, the lock of 100 years never.                                      *)
(*                                                                         *)
(* The challenge route asks the limiter before it issues a challenge, and  *)
(* ChallengeRouteProofs extends both modules; hence LimiterInit,           *)
(* LimiterNext, ... where the other says Init, Next, ...                   *)
(*                                                                         *)
(* An operator named X_Y is X with a plausible fault Y, used by no         *)
(* specification.                                                          *)
(***************************************************************************)
EXTENDS Integers

CONSTANTS
    Accounts, Devices,
    Testers,                 \* BIOMETRIC_SHADOW_TESTER_IDS
    Requests,                \* requests under way at a time
    First, Second, Third,    \* thr: 10, 7, 5
    NoKey

ASSUME ThresholdsArePositive ==
    /\ First \in Nat \ {0} /\ Second \in Nat \ {0} /\ Third \in Nat \ {0}

VARIABLES
    rows,      \* verify_rate_limit; a key without a row is as one never used
    requests,
    admitted   \* history: attempts let through since the last reset of the key

limiterVars == <<rows, requests, admitted>>

Keys == Accounts \cup Devices

Row == [attempts : Nat, tier : 0..4, lock : {"none", "timed", "appeal"}]
Idle == [pc |-> "free", account |-> NoKey, device |-> NoKey]
RequestState ==
    {Idle} \cup [pc : {"touching", "checking", "proving", "resetting",
                       "measuring", "clearing"},
                 account : Accounts, device : Devices]

LimiterTypeOK ==
    /\ rows \in [Keys -> Row]
    /\ requests \in [Requests -> RequestState]
    /\ admitted \in [Keys -> Nat]

Fresh == [attempts |-> 0, tier |-> 0, lock |-> "none"]

LimiterInit ==
    /\ rows = [key \in Keys |-> Fresh]
    /\ requests = [r \in Requests |-> Idle]
    /\ admitted = [key \in Keys |-> 0]

-----------------------------------------------------------------------------
(* rl_touch *)

Threshold(tier) ==
    IF tier = 0 THEN First ELSE IF tier = 1 THEN Second ELSE Third

Locked(key) == rows[key].lock # "none"
LastAttempt_OffByOne(key) == rows[key].attempts >= Threshold(rows[key].tier)
LastAttempt(key) == rows[key].attempts + 1 >= Threshold(rows[key].tier)

Admits(key) == ~Locked(key) /\ ~LastAttempt(key)

Escalated_NeverForGood(row) ==
    [attempts |-> 0, tier |-> row.tier + 1, lock |-> "timed"]
Escalated(row) ==
    [attempts |-> 0, tier |-> row.tier + 1,
     lock |-> IF row.tier >= 3 THEN "appeal" ELSE "timed"]

Counted(row) == [row EXCEPT !.attempts = row.attempts + 1]

Touch(key) ==
    /\ rows' = IF Locked(key) THEN rows
               ELSE [rows EXCEPT ![key] =
                        IF LastAttempt(key) THEN Escalated(rows[key])
                        ELSE Counted(rows[key])]
    /\ admitted' = IF Admits(key) THEN [admitted EXCEPT ![key] = @ + 1]
                   ELSE admitted

Reset(key) ==
    /\ rows' = [rows EXCEPT ![key] = Fresh]
    /\ admitted' = [admitted EXCEPT ![key] = 0]

Goes(r, pc) == requests' = [requests EXCEPT ![r].pc = pc]
Ends(r) == requests' = [requests EXCEPT ![r] = Idle]
Starts(r, a, d, pc) ==
    /\ requests[r].pc = "free"
    /\ requests' = [requests EXCEPT
                       ![r] = [pc |-> pc, account |-> a, device |-> d]]

-----------------------------------------------------------------------------
(* POST /auth/verify/challenge for a production liveness challenge.  The     *)
(* account is counted first, and a refused account does not count the device.*)

TouchAccount(r, a, d) ==
    /\ IF Admits(a) THEN Starts(r, a, d, "touching")
       ELSE requests[r].pc = "free" /\ UNCHANGED requests
    /\ Touch(a)

TouchDevice(r) ==
    /\ requests[r].pc = "touching"
    /\ Touch(requests[r].device)
    /\ Ends(r)

(* POST /auth/verify/approve *)
CheckAccount(r, a, d) ==
    /\ ~Locked(a)
    /\ Starts(r, a, d, "checking")
    /\ UNCHANGED <<rows, admitted>>

CheckDevice(r) ==
    /\ requests[r].pc = "checking"
    /\ ~Locked(requests[r].device)
    /\ Goes(r, "proving")
    /\ UNCHANGED <<rows, admitted>>

(* A calibration run is checked by neither key, only by the list of testers. *)
StartCalibration(r, a, d) ==
    /\ a \in Testers
    /\ Starts(r, a, d, "measuring")
    /\ UNCHANGED <<rows, admitted>>

(* The evidence was accepted: both keys start over.                          *)
ResetAccount(r) ==
    /\ requests[r].pc = "proving"
    /\ Reset(requests[r].account)
    /\ Goes(r, "resetting")

ResetDevice(r) ==
    /\ requests[r].pc = "resetting"
    /\ Reset(requests[r].device)
    /\ Ends(r)

(* A calibration run was measured, whatever came of it: likewise.            *)
ClearAccount(r) ==
    /\ requests[r].pc = "measuring"
    /\ Reset(requests[r].account)
    /\ Goes(r, "clearing")

ClearDevice(r) ==
    /\ requests[r].pc = "clearing"
    /\ Reset(requests[r].device)
    /\ Ends(r)

(* A key that is locked, evidence that is refused, a database that is away,  *)
(* a process that stops.                                                     *)
GiveUp(r) ==
    /\ requests[r].pc # "free"
    /\ Ends(r)
    /\ UNCHANGED <<rows, admitted>>

(* locked_until passes. *)
ExpireLock_StartsOver(key) ==
    /\ rows[key].lock = "timed"
    /\ rows' = [rows EXCEPT ![key] = Fresh]
    /\ UNCHANGED <<requests, admitted>>
ExpireLock(key) ==
    /\ rows[key].lock = "timed"
    /\ rows' = [rows EXCEPT ![key].lock = "none"]
    /\ UNCHANGED <<requests, admitted>>

Step(r) ==
    \/ \E a \in Accounts, d \in Devices :
          TouchAccount(r, a, d) \/ CheckAccount(r, a, d) \/ StartCalibration(r, a, d)
    \/ TouchDevice(r)
    \/ CheckDevice(r)
    \/ ResetAccount(r)
    \/ ResetDevice(r)
    \/ ClearAccount(r)
    \/ ClearDevice(r)
    \/ GiveUp(r)

LimiterNext ==
    \/ \E r \in Requests : Step(r)
    \/ \E key \in Keys : ExpireLock(key)

LimiterSpec == LimiterInit /\ [][LimiterNext]_limiterVars

-----------------------------------------------------------------------------
(* Properties. *)

(* However long an account or a device waits out its locks, and whatever     *)
(* other requests do meanwhile, it is let through a fixed number of times in *)
(* all before somebody succeeds: one less than the threshold in each of the  *)
(* tiers, and the fourth lock is for ever.                                   *)
AttemptsBounded ==
    \A key \in Keys :
        admitted[key] <= (First - 1) + (Second - 1) + 2 * (Third - 1)

(* Why: the row is the exact account of the attempts let through, and only   *)
(* the last tier carries the lock that does not end.                         *)
Earlier(tier) ==
    CASE tier = 0 -> 0
      [] tier = 1 -> First - 1
      [] tier = 2 -> (First - 1) + (Second - 1)
      [] tier = 3 -> (First - 1) + (Second - 1) + (Third - 1)
      [] tier = 4 -> (First - 1) + (Second - 1) + 2 * (Third - 1)

RowsAccount ==
    \A key \in Keys :
        /\ admitted[key] = Earlier(rows[key].tier) + rows[key].attempts
        /\ rows[key].attempts < Threshold(rows[key].tier)
        /\ rows[key].tier = 4 => rows[key].lock = "appeal" /\ rows[key].attempts = 0

(* An escalation is taken back, and a lock without end lifted, only after a  *)
(* successful verification of the account or the device: for a request that  *)
(* neither key stopped and whose evidence was accepted.  So the migration    *)
(* says of rl_reset, and docs/server-side.md that a calibration run ends     *)
(* before any change of the database.  The code of POST /auth/verify/approve *)
(* does not keep to it: a tester's calibration run resets its own account    *)
(* and the device, even one that another account has locked.                 *)
Verifying(r, key) ==
    /\ requests[r].pc \in {"proving", "resetting"}
    /\ key \in {requests[r].account, requests[r].device}

EscalationLasts ==
    [][\A key \in Keys :
          \/ rows'[key].tier < rows[key].tier
          \/ rows[key].lock = "appeal" /\ rows'[key].lock # "appeal"
          => \E r \in Requests : Verifying(r, key)]_limiterVars
=============================================================================
