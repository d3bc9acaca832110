--------------------------- MODULE ChallengeLedger ---------------------------
(***************************************************************************)
(* What the handlers rely on when they hand out a challenge and take it    *)
(* back: a challenge belongs to one account and one purpose, only that     *)
(* account can use it, for that purpose and once, and it may be gone at    *)
(* any moment.  ChallengeStore implements this; ApproveFlow builds on it.  *)
(***************************************************************************)
CONSTANTS
    Ids,           \* challenge ids
    Contributors,
    Purposes,
    Nobody, NoPurpose

VARIABLE ledger

Blank == [state |-> "unissued", owner |-> Nobody, purpose |-> NoPurpose]

LedgerTypeOK ==
    ledger \in [Ids -> [state : {"unissued", "live", "consumed", "gone"},
                        owner : Contributors \cup {Nobody},
                        purpose : Purposes \cup {NoPurpose}]]

Init == ledger = [i \in Ids |-> Blank]

IsLive(i, c, p) == ledger[i] = [state |-> "live", owner |-> c, purpose |-> p]

Issue(i, c, p) ==
    /\ ledger[i].state = "unissued"
    /\ ledger' = [ledger EXCEPT ![i] =
                     [state |-> "live", owner |-> c, purpose |-> p]]

Consume(i, c, p) ==
    /\ IsLive(i, c, p)
    /\ ledger' = [ledger EXCEPT ![i].state = "consumed"]

(* Expiry, eviction and restart of the server, of any number of challenges,  *)
(* possibly to make room for a new one.                                      *)
Without(lost) ==
    [i \in Ids |-> IF i \in lost /\ ledger[i].state = "live"
                   THEN [ledger[i] EXCEPT !.state = "gone"] ELSE ledger[i]]
Lose(lost) == ledger' = Without(lost)

IssueInPlaceOf(i, c, p, lost) ==
    /\ ledger[i].state = "unissued"
    /\ ledger' = [Without(lost) EXCEPT ![i] =
                     [state |-> "live", owner |-> c, purpose |-> p]]

Next ==
    \/ \E i \in Ids, c \in Contributors, p \in Purposes :
          \/ Consume(i, c, p)
          \/ \E lost \in SUBSET Ids : IssueInPlaceOf(i, c, p, lost)
    \/ \E lost \in SUBSET Ids : Lose(lost)

Spec == Init /\ [][Next]_ledger
=============================================================================
