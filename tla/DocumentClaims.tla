--------------------------- MODULE DocumentClaims ---------------------------
(***************************************************************************)
(* What the verification database promises about passports and accounts,   *)
(* with no tokens, peppers, queues or transactions in it:                  *)
(*   - a document is claimed (verified) by at most one account;            *)
(*   - a document waiting for manual review is reserved for one account,   *)
(*     and nobody else may claim or reserve it meanwhile;                  *)
(*   - a claim ends only with the claiming account;                        *)
(*   - a banned document gets neither a new claim nor a new reservation.   *)
(* VerificationStore implements this specification.                        *)
(***************************************************************************)
CONSTANTS
    Documents,     \* passports, as the hash of DG1 tells them apart
    Contributors,  \* accounts
    Nobody         \* no account: not one of Contributors

VARIABLES
    holder,    \* the account whose Verified ID rests on the document
    reserver,  \* the account whose review request is active on it
    banned     \* the documents the moderators banned

vars == <<holder, reserver, banned>>

ClaimsTypeOK ==
    /\ holder \in [Documents -> Contributors \cup {Nobody}]
    /\ reserver \in [Documents -> Contributors \cup {Nobody}]
    /\ banned \subseteq Documents

Init ==
    /\ holder = [d \in Documents |-> Nobody]
    /\ reserver = [d \in Documents |-> Nobody]
    /\ banned = {}

FreeFor(c, d) ==
    /\ d \notin banned
    /\ holder[d] \in {Nobody, c}
    /\ reserver[d] \in {Nobody, c}

(* c becomes verified with d; c may hold no other document. *)
Claim(c, d) ==
    /\ FreeFor(c, d)
    /\ \A e \in Documents \ {d} : holder[e] # c
    /\ holder' = [holder EXCEPT ![d] = c]
    /\ UNCHANGED <<reserver, banned>>

(* d enters the review queue on behalf of c, who has no other request. *)
Reserve(c, d) ==
    /\ FreeFor(c, d)
    /\ holder[d] = Nobody
    /\ \A e \in Documents \ {d} : reserver[e] # c
    /\ reserver' = [reserver EXCEPT ![d] = c]
    /\ UNCHANGED <<holder, banned>>

(* A reviewer rejects or cancels the request on d. *)
DropReservation(d) ==
    /\ reserver[d] # Nobody
    /\ reserver' = [reserver EXCEPT ![d] = Nobody]
    /\ UNCHANGED <<holder, banned>>

Without(c, f) == [d \in Documents |-> IF f[d] = c THEN Nobody ELSE f[d]]

(* Account c is deleted: the document survives it, unclaimed. *)
DeleteAccount(c) ==
    /\ holder' = Without(c, holder)
    /\ reserver' = Without(c, reserver)
    /\ UNCHANGED banned

Ban(d) ==
    /\ banned' = banned \cup {d}
    /\ UNCHANGED <<holder, reserver>>

Next ==
    \/ \E c \in Contributors, d \in Documents : Claim(c, d) \/ Reserve(c, d)
    \/ \E d \in Documents : DropReservation(d) \/ Ban(d)
    \/ \E c \in Contributors : DeleteAccount(c)

Spec == Init /\ [][Next]_vars
=============================================================================
