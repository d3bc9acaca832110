-------------------------- MODULE AuthSessionsProofs --------------------------
(***************************************************************************)
(* Theorems about passwords, sessions, reset codes and invites, for any    *)
(* number of accounts and overlapping requests and any number of tries:    *)
(* who may still be in after a password is replaced, that whatever         *)
(* replaces one has its grounds, that a code used once opens nothing       *)
(* again, and that nothing is left of an account that is gone.             *)
(*                                                                         *)
(* A step is described by what becomes of the request it belongs to        *)
(* (Moves), of an account (AccountGoes), of a session (SessionGoes) and of *)
(* a code (CodeGoes); every action is shown to be such a step, and the     *)
(* invariants follow from the four descriptions alone.                     *)
(***************************************************************************)
EXTENDS AuthSessions, WellFoundedInduction, TLAPS

(* What a request's program counter says of its other fields.                *)
Routed(q) ==
    /\ q.pc # "free" => q.account \in Accounts
    /\ q.pc = "proved" => q.route = "change"
    /\ q.pc = "hashed" => q.route = "reset"
    /\ q.pc = "setting" => q.route = "accept"
    /\ q.pc = "creating" => q.route \in {"accept", "register"}
RequestsRouted == \A r \in Requests : Routed(requests[r])

(* A password is the hash of a request that has begun, of an account that is *)
(* there; and no request has read a password where there was no account.     *)
Password(a) == accounts[a].password
PasswordsMade ==
    \A a \in Accounts : Password(a) # None =>
        /\ Here(a)
        /\ requests[Password(a)].pc # "free"
NothingReadOfTheAbsent ==
    \A r \in Requests :
        /\ requests[r].pc # "free"
        /\ accounts[requests[r].account].state = "absent"
        => requests[r].seen = None

(* Why a request or session r may rest on another password than the present. *)
Excused(r, a) ==
    \/ r \in late
    \/ Password(a) # None /\ requests[Password(a)].route = "accept"

(* A request under way has proved the present password, or is excused.       *)
ReadersExcused ==
    \A r \in Requests :
        /\ requests[r].pc \notin {"free", "done"}
        /\ Here(requests[r].account)
        /\ requests[r].seen \notin {None, Password(requests[r].account)}
        => Excused(r, requests[r].account)

(* An active session is that of an account, and rests on its password or is  *)
(* excused.                                                                  *)
SessionsOwned ==
    \A s \in Requests : sessions[s].state = "active" =>
        sessions[s].account \in Accounts /\ Here(sessions[s].account)
SessionsExcused ==
    \A s \in Requests :
        /\ sessions[s].state = "active"
        /\ sessions[s].proof \notin {None, Password(sessions[s].account)}
        => Excused(s, sessions[s].account)

(* A code has been issued, belongs to an account and is written once; a code *)
(* that was there when one was used is used.                                 *)
IsIssued(k) == \E n \in 1..Len(issued) : issued[n] = k
CodesWritten ==
    \A k \in Requests :
        /\ requests[k].pc = "marked" => IsIssued(k)
        /\ resets[k].state # "none" =>
              /\ requests[k].pc = "done" /\ IsIssued(k)
              /\ resets[k].account \in Accounts
        /\ resets[k].state = "none" => resets[k].account = None
        /\ resets[k].state = "unused" => Here(resets[k].account)

(* An invite is about to set the password of an account that had none, or    *)
(* was under way when the password came.                                     *)
SettersLate ==
    \A r \in Requests : requests[r].pc = "setting" =>
        /\ accounts[requests[r].account].state # "absent"
        /\ Password(requests[r].account) = None \/ r \in late
SpentAreUsed == \A k \in spent : resets[k].state = "used"

AuthInv ==
    /\ TypeOK
    /\ RequestsRouted
    /\ PasswordsMade
    /\ NothingReadOfTheAbsent
    /\ ReadersExcused
    /\ SessionsOwned
    /\ SessionsExcused
    /\ CodesWritten
    /\ SettersLate
    /\ SpentAreUsed

-----------------------------------------------------------------------------
(* The sides of a step. *)

Stays(a) ==
    accounts'[a].state = accounts[a].state /\ accounts'[a].password = Password(a)
Appears(a) ==
    /\ accounts[a].state = "absent" /\ accounts'[a].state = "here"
    /\ \/ accounts'[a].password = None
       \/ \E r \in Requests : accounts'[a].password = r /\ requests'[r].pc # "free"
Replaces(a, r) ==
    /\ Here(a) /\ accounts'[a].state = "here"
    /\ accounts'[a].password = r
    /\ requests[r].pc # "free" /\ requests[r].account = a
    /\ UnderWay(a) \ {r} \subseteq late'
    /\ requests'[r].seen = r \/ requests'[r].pc = "done"
    /\ \/ sessions' = Closed(a)
       \/ requests[r].route = "accept" /\ sessions' = sessions
Leaves(a) ==
    /\ accounts'[a].state = "deleted" /\ accounts'[a].password = None
    /\ sessions' = Closed(a)
    /\ \A k \in Requests : resets[k].account = a => resets'[k].state # "unused"

Moves(r) ==
    /\ requests' \in [Requests -> Request]
    /\ \A x \in Requests \ {r} : requests'[x] = requests[x]
    /\ requests[r].pc # "done" /\ requests'[r].pc # "free"
    /\ Routed(requests'[r])
    /\ requests[r].pc # "free" => /\ requests'[r].route = requests[r].route
                                  /\ requests'[r].account = requests[r].account
    /\ requests[r].pc = "marked" => requests'[r].pc = "done"
    /\ requests'[r].pc = "marked" =>
          requests[r].pc = "free" /\ issued' = Append(issued, r)
    /\ requests'[r].pc = "setting" =>
          LET a == requests'[r].account
          IN  Here(a) /\ Password(a) = None /\ accounts' = accounts
    /\ \/ requests'[r].seen = None
       \/ /\ requests[r].pc # "free" /\ requests'[r].seen = requests[r].seen
          /\ requests'[r].pc = "done" \/ accounts' = accounts
       \/ /\ accounts'[requests'[r].account].state = "here"
          /\ requests'[r].seen = accounts'[requests'[r].account].password

(* Either a request moves, and with it what it writes of accounts, or none   *)
(* does.                                                                     *)
RequestAndAccounts ==
    \/ \E r \in Requests :
          /\ Moves(r)
          /\ \A a \in Accounts : Stays(a) \/ Appears(a) \/ Replaces(a, r) \/ Leaves(a)
    \/ /\ requests' = requests
       /\ \A a \in Accounts : Stays(a)

SessionGoes(s) ==
    \/ sessions'[s] = sessions[s]
    \/ sessions'[s].state # "active"
    \/ /\ At(s, "opening") /\ Here(requests[s].account)
       /\ sessions'[s] = [state |-> "active", account |-> requests[s].account,
                          proof |-> requests[s].seen]
       /\ accounts' = accounts
OnlyUsed(k) ==
    \/ resets'[k].state = resets[k].state /\ resets'[k].account = resets[k].account
    \/ /\ resets[k].state # "none" /\ resets'[k].state = "used"
       /\ resets'[k].account = resets[k].account
CodeGoes(k) ==
    \/ OnlyUsed(k)
    \/ /\ At(k, "marked") /\ requests'[k].pc = "done"
       /\ resets'[k].state = "unused" /\ resets'[k].account = requests[k].account
       /\ Here(requests[k].account) /\ accounts' = accounts

Histories ==
    /\ late \subseteq late'
    /\ issued' = issued \/ \E r \in Requests : issued' = Append(issued, r)
    /\ \A k \in spent' \ spent : resets'[k].state = "used"

Sides ==
    /\ TypeOK'
    /\ RequestAndAccounts
    /\ \A r \in Requests : SessionGoes(r) /\ CodeGoes(r)
    /\ Histories

-----------------------------------------------------------------------------
(* Every action is such a step. First the three ways a request moves.        *)

LEMMA OneRequestMoves ==
    ASSUME requests \in [Requests -> Request], NEW r \in Requests, NEW q \in Request,
           requests' = [requests EXCEPT ![r] = q]
    PROVE  /\ requests' \in [Requests -> Request]
           /\ requests'[r] = q
           /\ \A x \in Requests \ {r} : requests'[x] = requests[x]
<1>1. requests' \in [Requests -> Request]
  OBVIOUS
<1>2. requests'[r] = q
  OBVIOUS
<1>3. \A x \in Requests \ {r} : requests'[x] = requests[x]
  OBVIOUS
<1> QED
  BY <1>1, <1>2, <1>3

LEMMA Begins ==
    ASSUME TypeOK, NEW r \in Requests, NEW a \in Accounts, NEW route \in Route,
           NEW pc, NEW seen, NEW ref \in Requests \cup {None},
           Starts(r, route, a, pc, seen, ref),
           \/ route = "change" /\ pc = "proved"
           \/ route = "reset" /\ pc = "hashed"
           \/ route = "register" /\ pc = "creating"
           \/ pc \in {"opening", "writing", "found", "admitted"}
           \/ pc = "marked" /\ issued' = Append(issued, r),
           seen = None \/ /\ Here(a) /\ seen = Password(a)
                          /\ seen \in Requests /\ accounts' = accounts
    PROVE  Moves(r)
<1> DEFINE q == [pc |-> pc, route |-> route, account |-> a, seen |-> seen, ref |-> ref]
<1>1. requests \in [Requests -> Request] /\ requests[r].pc = "free"
      /\ requests' = [requests EXCEPT ![r] = q]
  BY DEF TypeOK, Starts, At
<1>2. q \in Request
  BY DEF Request
<1>3. /\ requests' \in [Requests -> Request] /\ requests'[r] = q
      /\ \A x \in Requests \ {r} : requests'[x] = requests[x]
  <2> HIDE DEF q
  <2> QED
    BY <1>1, <1>2, OneRequestMoves
<1>4. /\ Routed(q) /\ q.pc \notin {"free", "setting"}
      /\ q.pc = "marked" => issued' = Append(issued, r)
  BY DEF Routed
<1>5. \/ q.seen = None
      \/ accounts'[q.account].state = "here" /\ q.seen = accounts'[q.account].password
  BY DEF Here, Password
<1> HIDE DEF q
<1> QED
  BY <1>1, <1>3, <1>4, <1>5 DEF Moves

LEMMA GoesOn ==
    ASSUME TypeOK, RequestsRouted, NEW r \in Requests, NEW pc, Goes(r, pc),
           requests[r].pc \notin {"free", "done"},
           \/ pc = "done"
           \/ /\ accounts' = accounts /\ requests[r].pc # "marked"
              /\ \/ pc = "opening"
                 \/ pc \in {"setting", "creating"} /\ requests[r].route = "accept"
              /\ pc = "setting" => LET a == requests[r].account
                                   IN  Here(a) /\ Password(a) = None
    PROVE  Moves(r) /\ requests'[r].pc = pc
<1>1. requests \in [Requests -> Request] /\ requests[r] \in Request
      /\ requests' = [requests EXCEPT ![r] = [requests[r] EXCEPT !.pc = pc]]
  BY DEF TypeOK, Goes
<1> DEFINE q == [requests[r] EXCEPT !.pc = pc]
<1>2. /\ q \in Request /\ q.pc = pc /\ q.route = requests[r].route
      /\ q.account = requests[r].account /\ q.seen = requests[r].seen
  BY <1>1 DEF Request
<1>3. requests[r].account \in Accounts
  BY DEF RequestsRouted, Routed
<1>6. requests' = [requests EXCEPT ![r] = q]
  BY <1>1
<1> HIDE DEF q
<1>4. /\ requests' \in [Requests -> Request] /\ requests'[r] = q
      /\ \A x \in Requests \ {r} : requests'[x] = requests[x]
  BY <1>1, <1>2, <1>6, OneRequestMoves
<1>5. Routed(q)
  BY <1>2, <1>3 DEF Routed
<1> QED
  BY <1>2, <1>4, <1>5 DEF Moves

LEMMA HashIsRead ==
    ASSUME TypeOK, RequestsRouted, NEW r \in Requests,
           NEW pc \in {"opening", "burning"},
           requests' = [requests EXCEPT ![r].pc = pc, ![r].seen = r],
           requests[r].pc \notin {"free", "marked", "done"},
           accounts'[requests[r].account].state = "here",
           accounts'[requests[r].account].password = r
    PROVE  Moves(r) /\ requests'[r].pc = pc /\ requests'[r].seen = r
<1>1. requests \in [Requests -> Request] /\ requests[r] \in Request
  BY DEF TypeOK
<1> DEFINE q == [requests[r] EXCEPT !.pc = pc, !.seen = r]
<1>2. requests' = [requests EXCEPT ![r] = q]
  BY <1>1
<1>3. /\ q \in Request /\ q.pc = pc /\ q.route = requests[r].route
      /\ q.account = requests[r].account /\ q.seen = r
  BY <1>1 DEF Request
<1>4. requests[r].account \in Accounts
  BY DEF RequestsRouted, Routed
<1> HIDE DEF q
<1>5. /\ requests' \in [Requests -> Request] /\ requests'[r] = q
      /\ \A x \in Requests \ {r} : requests'[x] = requests[x]
  BY <1>1, <1>2, <1>3, OneRequestMoves
<1>6. Routed(q)
  BY <1>3, <1>4 DEF Routed
<1> QED
  BY <1>3, <1>5, <1>6 DEF Moves

-----------------------------------------------------------------------------
(* Steps that only read, or write an invite.                                 *)
LEMMA RequestAlone ==
    ASSUME TypeOK, NEW r \in Requests, Moves(r), accounts' = accounts,
           sessions' = sessions, resets' = resets, issued' = issued,
           late' = late, spent' = spent, invites' \in [Accounts -> Invite]
    PROVE  Sides
<1>1. TypeOK'
  BY DEF TypeOK, Moves
<1>2. RequestAndAccounts
  BY DEF RequestAndAccounts, Stays, Password
<1> QED
  BY <1>1, <1>2 DEF Sides, SessionGoes, CodeGoes, OnlyUsed, Histories

LEMMA PasswordIsHash ==
    ASSUME TypeOK, NEW a \in Accounts
    PROVE  Password(a) \in Requests \cup {None}
BY DEF TypeOK, Account, Password

LEMMA ReadersStep ==
    ASSUME AuthInv, NEW r \in Requests, NEW a \in Accounts,
           \/ Login(r, a) \/ StartInvite(r, a)
           \/ \E route \in Guarded : Admit(r, a, route)
           \/ ReadInvite(r, a) \/ ReadForRegister(r, a)
           \/ \E k \in Requests \cup {None} : PresentCode(r, a, k)
    PROVE  Sides
<1>0. TypeOK
  BY DEF AuthInv
<1>1. Moves(r)
  <2>1. CASE Login(r, a)
    <3>1. /\ Here(a) /\ Password(a) # None /\ accounts' = accounts
          /\ Starts(r, "login", a, "opening", Password(a), None)
      BY <2>1 DEF Login, Password
    <3>2. Password(a) \in Requests
      BY <1>0, <3>1, PasswordIsHash
    <3> QED
      BY <1>0, <3>1, <3>2, Begins DEF Route
  <2>2. ASSUME NEW route \in Guarded, Admit(r, a, route)
        PROVE  Moves(r)
    BY <1>0, <2>2, Begins DEF Admit, Route
  <2>3. CASE StartInvite(r, a)
    BY <1>0, <2>3, Begins DEF StartInvite, Route
  <2>4. CASE ReadInvite(r, a)
    <3>1. invites[a].token \in Requests \cup {None}
      BY <1>0 DEF TypeOK, Invite
    <3> QED
      BY <1>0, <2>4, <3>1, Begins DEF ReadInvite, Route
  <2>5. CASE ReadForRegister(r, a)
    <3>1. invites[a].token \in Requests \cup {None}
      BY <1>0 DEF TypeOK, Invite
    <3> QED
      BY <1>0, <2>5, <3>1, Begins DEF ReadForRegister, Route
  <2>6. ASSUME NEW k \in Requests \cup {None}, PresentCode(r, a, k)
        PROVE  Moves(r)
    BY <1>0, <2>6, Begins DEF PresentCode, Route
  <2> QED
    BY <2>1, <2>2, <2>3, <2>4, <2>5, <2>6
<1>2. UNCHANGED <<accounts, sessions, resets, issued, invites, late, spent>>
  BY DEF Login, Admit, StartInvite, ReadInvite, ReadForRegister, PresentCode
<1>3. invites' \in [Accounts -> Invite]
  BY <1>0, <1>2 DEF TypeOK
<1> QED
  BY <1>0, <1>1, <1>2, <1>3, RequestAlone

LEMMA ProveStep ==
    ASSUME AuthInv, NEW r \in Requests, ProvePassword(r)
    PROVE  Sides
<1> DEFINE a == requests[r].account
           q == [requests[r] EXCEPT !.pc = "proved", !.seen = Password(a)]
<1>0. TypeOK /\ RequestsRouted
  BY DEF AuthInv
<1>1. /\ requests[r].pc = "admitted" /\ requests[r].route = "change"
      /\ Here(a) /\ Password(a) # None
      /\ requests' = [requests EXCEPT ![r] = q]
      /\ UNCHANGED <<accounts, sessions, resets, issued, invites, late, spent>>
  BY <1>0 DEF ProvePassword, Admitted, At, Password, TypeOK
<1>2. a \in Accounts
  BY <1>0, <1>1 DEF RequestsRouted, Routed
<1>3. Password(a) \in Requests
  BY <1>0, <1>1, <1>2, PasswordIsHash
<1>4. /\ q \in Request /\ q.pc = "proved" /\ q.route = "change"
      /\ q.account = a /\ q.seen = Password(a)
  BY <1>0, <1>1, <1>3 DEF TypeOK, Request
<1>5. a = requests[r].account
  OBVIOUS
<1> HIDE DEF q, a
<1>6. /\ requests' \in [Requests -> Request] /\ requests'[r] = q
      /\ \A x \in Requests \ {r} : requests'[x] = requests[x]
  BY <1>0, <1>1, <1>4, OneRequestMoves DEF TypeOK
<1>7. Routed(q)
  BY <1>2, <1>4 DEF Routed
<1>8. accounts'[q.account].state = "here" /\ q.seen = accounts'[q.account].password
  BY <1>1, <1>4 DEF Here, Password
<1>9. Moves(r)
  BY <1>1, <1>4, <1>5, <1>6, <1>7, <1>8 DEF Moves
<1>10. invites' \in [Accounts -> Invite]
  BY <1>0, <1>1 DEF TypeOK
<1> QED
  BY <1>0, <1>1, <1>9, <1>10, RequestAlone

LEMMA EndersStep ==
    ASSUME AuthInv, NEW r \in Requests,
           ForgetCode(r) \/ WriteInvite(r) \/ ReadAccount(r) \/ BurnInvite(r) \/ GiveUp(r)
    PROVE  Sides
<1>0. TypeOK /\ RequestsRouted
  BY DEF AuthInv
<1>1. UNCHANGED <<accounts, sessions, resets, issued, late, spent>>
  BY DEF ForgetCode, WriteInvite, ReadAccount, BurnInvite, GiveUp
<1>2. requests[r].pc \notin {"free", "done"}
  BY DEF ForgetCode, WriteInvite, ReadAccount, BurnInvite, GiveUp, At
<1>3. Moves(r)
  <2>1. CASE ForgetCode(r) \/ WriteInvite(r) \/ GiveUp(r)
    <3>1. Goes(r, "done")
      BY <2>1 DEF ForgetCode, WriteInvite, GiveUp
    <3> QED
      BY <1>0, <1>2, <3>1, GoesOn
  <2>2. CASE BurnInvite(r)
    <3>1. Goes(r, "opening") /\ requests[r].pc # "marked"
      BY <2>2 DEF BurnInvite, At
    <3> QED
      BY <1>0, <1>1, <1>2, <3>1, GoesOn
  <2>3. CASE ReadAccount(r)
    <3>1. PICK pc \in {"setting", "creating"} :
             /\ Goes(r, pc)
             /\ pc = "setting" => Here(requests[r].account)
      BY <2>3 DEF ReadAccount
    <3>0. Password(requests[r].account) = None
      BY <2>3 DEF ReadAccount, Password
    <3>2. requests[r].route = "accept" /\ requests[r].pc # "marked"
      BY <2>3 DEF ReadAccount, At
    <3> QED
      BY <1>0, <1>1, <1>2, <3>0, <3>1, <3>2, GoesOn
  <2> QED
    BY <2>1, <2>2, <2>3
<1>4. requests[r].account \in Accounts
  BY <1>0, <1>2 DEF RequestsRouted, Routed
<1>5. invites' \in [Accounts -> Invite]
  <2>0. invites \in [Accounts -> Invite] /\ invites[requests[r].account] \in Invite
    BY <1>0, <1>4 DEF TypeOK
  <2>1. CASE invites' = invites
    BY <2>0, <2>1
  <2>2. CASE WriteInvite(r)
    <3>1. [state |-> "open", token |-> r] \in Invite
      BY DEF Invite
    <3> QED
      BY <2>0, <2>2, <3>1 DEF WriteInvite
  <2>3. CASE BurnInvite(r)
    <3>1. [invites[requests[r].account] EXCEPT !.state = "used"] \in Invite
      BY <2>0 DEF Invite
    <3>2. \/ invites' = invites
          \/ invites' = [invites EXCEPT ![requests[r].account] =
                            [invites[requests[r].account] EXCEPT !.state = "used"]]
      BY <2>3 DEF BurnInvite
    <3> QED
      BY <2>0, <3>1, <3>2
  <2> QED
    BY <2>1, <2>2, <2>3 DEF ForgetCode, ReadAccount, GiveUp
<1> QED
  BY <1>0, <1>1, <1>3, <1>5, RequestAlone

-----------------------------------------------------------------------------
(* Steps that write sessions.                                                *)
LEMMA ClosedTyped ==
    ASSUME TypeOK, NEW a
    PROVE  /\ Closed(a) \in [Requests -> Session]
           /\ \A s \in Requests :
                 Closed(a)[s] = sessions[s] \/ Closed(a)[s].state # "active"
           /\ \A s \in Requests :
                 Closed(a)[s].state = "active" =>
                    Closed(a)[s] = sessions[s] /\ sessions[s].account # a
<1>1. sessions \in [Requests -> Session]
  BY DEF TypeOK
<1>2. ASSUME NEW s \in Requests
      PROVE  /\ Closed(a)[s] \in Session
             /\ Closed(a)[s] = sessions[s] \/ Closed(a)[s].state = "gone"
             /\ Closed(a)[s].state = "active" =>
                   Closed(a)[s] = sessions[s] /\ sessions[s].account # a
  <2>1. sessions[s] \in Session
    BY <1>1
  <2> QED
    BY <2>1 DEF Closed, Session
<1>3. Closed(a) = [s \in Requests |-> Closed(a)[s]]
  BY DEF Closed
<1> QED
  BY <1>2, <1>3

LEMMA OpenStep ==
    ASSUME AuthInv, NEW r \in Requests, OpenSession(r)
    PROVE  Sides
<1>0. TypeOK /\ RequestsRouted /\ sessions \in [Requests -> Session]
      /\ requests[r] \in Request
  BY DEF AuthInv, TypeOK
<1>1. /\ At(r, "opening") /\ Here(requests[r].account) /\ Goes(r, "done")
      /\ UNCHANGED <<accounts, resets, issued, invites, late, spent>>
  BY DEF OpenSession
<1>2. Moves(r)
  BY <1>0, <1>1, GoesOn DEF At
<1> DEFINE n == [state |-> "active", account |-> requests[r].account,
                 proof |-> requests[r].seen]
<1>3. sessions' = [sessions EXCEPT ![r] = n] /\ n \in Session
  BY <1>0 DEF OpenSession, Request, Session
<1> HIDE DEF n
<1>4. /\ sessions' \in [Requests -> Session] /\ sessions'[r] = n
      /\ \A s \in Requests \ {r} : sessions'[s] = sessions[s]
  BY <1>0, <1>3
<1>5. TypeOK'
  BY <1>0, <1>1, <1>2, <1>4 DEF TypeOK, Moves
<1>6. RequestAndAccounts
  BY <1>1, <1>2 DEF RequestAndAccounts, Stays, Password
<1>7. \A s \in Requests : SessionGoes(s) /\ CodeGoes(s)
  BY <1>1, <1>4 DEF SessionGoes, CodeGoes, OnlyUsed, n
<1> QED
  BY <1>1, <1>5, <1>6, <1>7 DEF Sides, Histories

LEMMA CloseStep ==
    ASSUME AuthInv, NEW r \in Requests, CloseSession(r)
    PROVE  Sides
<1>0. TypeOK /\ sessions \in [Requests -> Session]
  BY DEF AuthInv, TypeOK
<1>1. UNCHANGED <<accounts, resets, issued, invites, requests, late, spent>>
  BY DEF CloseSession
<1>2. /\ [sessions[r] EXCEPT !.state = "gone"] \in Session
      /\ [sessions[r] EXCEPT !.state = "gone"].state = "gone"
  BY <1>0 DEF Session
<1>3. sessions' = [sessions EXCEPT ![r] = [sessions[r] EXCEPT !.state = "gone"]]
  BY DEF CloseSession
<1>4. /\ sessions' \in [Requests -> Session]
      /\ \A s \in Requests : sessions'[s] = sessions[s] \/ sessions'[s].state # "active"
  BY <1>0, <1>2, <1>3
<1>5. TypeOK'
  BY <1>0, <1>1, <1>4 DEF TypeOK
<1> QED
  BY <1>1, <1>4, <1>5 DEF Sides, RequestAndAccounts, Stays, Password, SessionGoes,
                          CodeGoes, OnlyUsed, Histories

LEMMA LogoutStep ==
    ASSUME AuthInv, NEW r \in Requests, LogoutAll(r)
    PROVE  Sides
<1> DEFINE a == requests[r].account
<1>0. TypeOK /\ RequestsRouted
  BY DEF AuthInv
<1>1. /\ requests[r].pc = "admitted" /\ Goes(r, "done") /\ sessions' = Closed(a)
      /\ UNCHANGED <<accounts, resets, issued, invites, late, spent>>
  BY DEF LogoutAll, Admitted, At
<1>2. Moves(r)
  BY <1>0, <1>1, GoesOn
<1>3. /\ Closed(a) \in [Requests -> Session]
      /\ \A s \in Requests : Closed(a)[s] = sessions[s] \/ Closed(a)[s].state # "active"
  BY <1>0, ClosedTyped
<1> HIDE DEF a
<1>4. TypeOK'
  BY <1>0, <1>1, <1>2, <1>3 DEF TypeOK, Moves
<1>5. RequestAndAccounts
  BY <1>1, <1>2 DEF RequestAndAccounts, Stays, Password
<1> QED
  BY <1>1, <1>3, <1>4, <1>5 DEF Sides, SessionGoes, CodeGoes, OnlyUsed, Histories

-----------------------------------------------------------------------------
(* Steps that write a password or make an account.                           *)

(* The account written is one case, the others stay.                         *)
LEMMA OneAccountWritten ==
    ASSUME TypeOK, NEW a \in Accounts, NEW n \in Account,
           accounts' = [accounts EXCEPT ![a] = n]
    PROVE  /\ accounts' \in [Accounts -> Account]
           /\ accounts'[a] = n
           /\ \A x \in Accounts : x # a => Stays(x)
BY DEF TypeOK, Stays, Password

LEMMA PasswordWritten ==
    ASSUME TypeOK, NEW a \in Accounts, Here(a), NEW r \in Requests, SetPassword(r, a)
    PROVE  /\ accounts' \in [Accounts -> Account]
           /\ accounts'[a].state = "here" /\ accounts'[a].password = r
           /\ \A x \in Accounts : x # a => Stays(x)
           /\ late \subseteq late' /\ late' \subseteq Requests
           /\ UnderWay(a) \ {r} \subseteq late'
<1> DEFINE n == [accounts[a] EXCEPT !.password = r]
<1>1. accounts[a] \in Account /\ accounts' = [accounts EXCEPT ![a] = n]
  BY DEF TypeOK, SetPassword
<1>2. n \in Account /\ n.state = "here" /\ n.password = r
  BY <1>1 DEF Account, Here
<1> HIDE DEF n
<1>3. /\ late \subseteq late' /\ late' \subseteq Requests
      /\ UnderWay(a) \ {r} \subseteq late'
  BY DEF SetPassword, UnderWay, TypeOK
<1> QED
  BY <1>1, <1>2, <1>3, OneAccountWritten

LEMMA ChangeStep ==
    ASSUME AuthInv, NEW r \in Requests, ChangePassword(r)
    PROVE  Sides
<1> DEFINE a == requests[r].account
<1>0. TypeOK /\ RequestsRouted
  BY DEF AuthInv
<1>1. /\ At(r, "proved") /\ Here(a) /\ SetPassword(r, a) /\ sessions' = Closed(a)
      /\ requests' = [requests EXCEPT ![r].pc = "opening", ![r].seen = r]
      /\ UNCHANGED <<resets, issued, invites, spent>>
  BY DEF ChangePassword
<1>2. a \in Accounts
  BY <1>0, <1>1 DEF RequestsRouted, Routed, At
<1> HIDE DEF a
<1>3. /\ accounts' \in [Accounts -> Account]
      /\ accounts'[a].state = "here" /\ accounts'[a].password = r
      /\ \A x \in Accounts : x # a => Stays(x)
      /\ late \subseteq late' /\ late' \subseteq Requests
      /\ UnderWay(a) \ {r} \subseteq late'
  BY <1>0, <1>1, <1>2, PasswordWritten
<1>4. Moves(r) /\ requests'[r].seen = r
  BY <1>0, <1>1, <1>3, HashIsRead DEF a, At
<1>a. requests[r].pc # "free" /\ requests[r].account = a
  BY <1>1 DEF a, At
<1>5. Replaces(a, r)
  BY <1>1, <1>3, <1>4, <1>a DEF Replaces
<1>6. RequestAndAccounts
  BY <1>3, <1>4, <1>5 DEF RequestAndAccounts
<1>7. Closed(a) \in [Requests -> Session]
      /\ \A s \in Requests : Closed(a)[s] = sessions[s] \/ Closed(a)[s].state # "active"
  BY <1>0, ClosedTyped
<1>8. TypeOK'
  BY <1>0, <1>1, <1>3, <1>4, <1>7 DEF TypeOK, Moves
<1> QED
  BY <1>1, <1>3, <1>6, <1>7, <1>8 DEF Sides, SessionGoes, CodeGoes, OnlyUsed, Histories

LEMMA AcceptStep ==
    ASSUME AuthInv, NEW r \in Requests, AcceptInvite(r)
    PROVE  Sides
<1> DEFINE a == requests[r].account
<1>0. TypeOK /\ RequestsRouted
  BY DEF AuthInv
<1>1. /\ At(r, "setting") /\ Here(a) /\ SetPassword(r, a)
      /\ requests' = [requests EXCEPT ![r].pc = "burning", ![r].seen = r]
      /\ UNCHANGED <<sessions, resets, issued, invites, spent>>
  BY DEF AcceptInvite
<1>2. a \in Accounts /\ requests[r].route = "accept"
  BY <1>0, <1>1 DEF RequestsRouted, Routed, At
<1> HIDE DEF a
<1>3. /\ accounts' \in [Accounts -> Account]
      /\ accounts'[a].state = "here" /\ accounts'[a].password = r
      /\ \A x \in Accounts : x # a => Stays(x)
      /\ late \subseteq late' /\ late' \subseteq Requests
      /\ UnderWay(a) \ {r} \subseteq late'
  BY <1>0, <1>1, <1>2, PasswordWritten
<1>4. Moves(r) /\ requests'[r].seen = r
  BY <1>0, <1>1, <1>3, HashIsRead DEF a, At
<1>a. requests[r].pc # "free" /\ requests[r].account = a
  BY <1>1 DEF a, At
<1>5. Replaces(a, r)
  BY <1>1, <1>2, <1>3, <1>4, <1>a DEF Replaces, a
<1>6. RequestAndAccounts
  BY <1>3, <1>4, <1>5 DEF RequestAndAccounts
<1>7. TypeOK'
  BY <1>0, <1>1, <1>3, <1>4 DEF TypeOK, Moves
<1> QED
  BY <1>1, <1>3, <1>6, <1>7 DEF Sides, SessionGoes, CodeGoes, OnlyUsed, Histories

LEMMA OneMoreTry ==
    ASSUME NEW n \in 0..MaxTries, NEW tried \in BOOLEAN, tried => n < MaxTries
    PROVE  n + (IF tried THEN 1 ELSE 0) \in 0..MaxTries
BY TriesArePositive

(* What secure_password_reset does to the codes.                             *)
LEMMA CodesTried ==
    ASSUME TypeOK, NEW a, NEW k \in Requests, Tries(k),
           resets' = [j \in Requests |->
                         LET tried == IF j = k THEN 1 ELSE 0
                         IN  [resets[j] EXCEPT
                                 !.tries = resets[j].tries + tried,
                                 !.state = IF j \in Retired(a, k) THEN "used"
                                           ELSE resets[j].state]]
    PROVE  /\ resets' \in [Requests -> Code]
           /\ \A j \in Requests :
                 /\ resets'[j].account = resets[j].account
                 /\ resets'[j].state = IF j \in Unused(a) THEN "used"
                                       ELSE resets[j].state
<1>1. ASSUME NEW j \in Requests
      PROVE  /\ resets'[j] \in Code
             /\ resets'[j].account = resets[j].account
             /\ resets'[j].state = IF j \in Unused(a) THEN "used" ELSE resets[j].state
  <2>1. resets[j] \in Code
    BY DEF TypeOK
  <2> DEFINE tries == resets[j].tries + (IF j = k THEN 1 ELSE 0)
             state == IF j \in Unused(a) THEN "used" ELSE resets[j].state
  <2>2. tries \in 0..MaxTries
    <3>1. resets[j].tries \in 0..MaxTries
      BY <2>1 DEF Code
    <3>2. j = k => resets[j].tries < MaxTries
      BY DEF Tries
    <3> QED
      BY <3>1, <3>2, OneMoreTry
  <2>3. state \in {"none", "unused", "used"}
    BY <2>1 DEF Code
  <2>4. resets'[j] = [resets[j] EXCEPT !.tries = tries, !.state = state]
    BY DEF Retired
  <2> HIDE DEF tries, state
  <2>5. /\ resets'[j] \in Code /\ resets'[j].account = resets[j].account
        /\ resets'[j].state = state
    BY <2>1, <2>2, <2>3, <2>4 DEF Code
  <2> QED
    BY <2>5 DEF state
<1>2. resets' = [j \in Requests |-> resets'[j]]
  OBVIOUS
<1> QED
  BY <1>1, <1>2

LEMMA ResetStep ==
    ASSUME AuthInv, NEW r \in Requests, ResetPassword(r)
    PROVE  Sides
<1> DEFINE a == requests[r].account
           k == requests[r].ref
<1>0. TypeOK /\ RequestsRouted /\ requests[r] \in Request
  BY DEF AuthInv, TypeOK
<1>1. /\ At(r, "hashed") /\ k # None /\ Tries(k) /\ SetPassword(r, a)
      /\ spent' = spent \cup Unused(a) /\ sessions' = Closed(a) /\ Goes(r, "done")
      /\ UNCHANGED <<issued, invites>> /\ Unused(a) # {}
  BY DEF ResetPassword, Usable
<1>2. a \in Accounts /\ k \in Requests
  BY <1>0, <1>1 DEF RequestsRouted, Routed, At, Request
<1>3. resets' = [j \in Requests |->
                    LET tried == IF j = k THEN 1 ELSE 0
                    IN  [resets[j] EXCEPT
                            !.tries = resets[j].tries + tried,
                            !.state = IF j \in Retired(a, k) THEN "used"
                                      ELSE resets[j].state]]
  BY DEF ResetPassword
<1> HIDE DEF a, k
<1>4. /\ resets' \in [Requests -> Code]
      /\ \A j \in Requests :
            /\ resets'[j].account = resets[j].account
            /\ resets'[j].state = IF j \in Unused(a) THEN "used" ELSE resets[j].state
  BY <1>0, <1>1, <1>2, <1>3, CodesTried
<1>5. Here(a)
  BY <1>1 DEF Unused, AuthInv, CodesWritten
<1>6. /\ accounts' \in [Accounts -> Account]
      /\ accounts'[a].state = "here" /\ accounts'[a].password = r
      /\ \A x \in Accounts : x # a => Stays(x)
      /\ late \subseteq late' /\ late' \subseteq Requests
      /\ UnderWay(a) \ {r} \subseteq late'
  BY <1>0, <1>1, <1>2, <1>5, PasswordWritten
<1>7. Moves(r) /\ requests'[r].pc = "done"
  BY <1>0, <1>1, GoesOn DEF At
<1>a. requests[r].pc # "free" /\ requests[r].account = a
  BY <1>1 DEF a, At
<1>8. Replaces(a, r)
  BY <1>1, <1>5, <1>6, <1>7, <1>a DEF Replaces
<1>9. RequestAndAccounts
  BY <1>6, <1>7, <1>8 DEF RequestAndAccounts
<1>10. Closed(a) \in [Requests -> Session]
       /\ \A s \in Requests : Closed(a)[s] = sessions[s] \/ Closed(a)[s].state # "active"
  BY <1>0, ClosedTyped
<1>11. TypeOK'
  BY <1>0, <1>1, <1>4, <1>6, <1>7, <1>10 DEF TypeOK, Moves, Unused
<1>12. \A j \in Requests : CodeGoes(j)
  BY <1>4 DEF CodeGoes, OnlyUsed, Unused
<1>13. Histories
  BY <1>1, <1>4, <1>6 DEF Histories, Unused
<1> QED
  BY <1>1, <1>9, <1>10, <1>11, <1>12, <1>13 DEF Sides, SessionGoes

LEMMA CreateStep ==
    ASSUME AuthInv, NEW r \in Requests, CreateAccount(r)
    PROVE  Sides
<1> DEFINE a == requests[r].account
           n == [accounts[a] EXCEPT !.state = "here", !.password = r]
<1>0. TypeOK /\ RequestsRouted
  BY DEF AuthInv
<1>1. /\ At(r, "creating") /\ accounts[a].state = "absent"
      /\ accounts' = [accounts EXCEPT ![a].state = "here", ![a].password = r]
      /\ requests' = [requests EXCEPT ![r].pc = "burning", ![r].seen = r]
      /\ UNCHANGED <<sessions, resets, issued, invites, late, spent>>
  BY DEF CreateAccount
<1>2. a \in Accounts
  BY <1>0, <1>1 DEF RequestsRouted, Routed, At
<1>3. accounts[a] \in Account /\ accounts' = [accounts EXCEPT ![a] = n]
  BY <1>0, <1>1, <1>2 DEF TypeOK
<1>4. n \in Account /\ n.state = "here" /\ n.password = r
  BY <1>3 DEF Account
<1> HIDE DEF n
<1>5. /\ accounts' \in [Accounts -> Account] /\ accounts'[a] = n
      /\ \A x \in Accounts : x # a => Stays(x)
  BY <1>0, <1>2, <1>3, <1>4, OneAccountWritten
<1>6. Moves(r)
  BY <1>0, <1>1, <1>4, <1>5, HashIsRead DEF At
<1>7. Appears(a)
  BY <1>1, <1>4, <1>5, <1>6 DEF Appears, Moves
<1>8. RequestAndAccounts
  BY <1>5, <1>6, <1>7 DEF RequestAndAccounts
<1>9. TypeOK'
  BY <1>0, <1>1, <1>5, <1>6 DEF TypeOK, Moves
<1> QED
  BY <1>1, <1>8, <1>9 DEF Sides, SessionGoes, CodeGoes, OnlyUsed, Histories

LEMMA OAuthStep ==
    ASSUME AuthInv, NEW r \in Requests, NEW a \in Accounts, OAuth(r, a)
    PROVE  Sides
<1> DEFINE n == [accounts[a] EXCEPT !.state = "here"]
<1>0. TypeOK
  BY DEF AuthInv
<1>1. /\ accounts[a].state # "deleted"
      /\ accounts' = [accounts EXCEPT ![a] = n]
      /\ Starts(r, "oauth", a, "opening", None, None)
      /\ UNCHANGED <<sessions, resets, issued, invites, late, spent>>
  BY DEF OAuth
<1>2. Moves(r)
  BY <1>0, <1>1, Begins DEF Route
<1>3. accounts[a] \in Account
  BY <1>0 DEF TypeOK
<1>4. n \in Account /\ n.state = "here" /\ n.password = Password(a)
  BY <1>3 DEF Account, Password
<1> HIDE DEF n
<1>5. /\ accounts' \in [Accounts -> Account] /\ accounts'[a] = n
      /\ \A x \in Accounts : x # a => Stays(x)
  BY <1>0, <1>1, <1>4, OneAccountWritten
<1>6. Stays(a) \/ Appears(a)
  <2>1. CASE Here(a)
    BY <2>1, <1>4, <1>5 DEF Stays, Here
  <2>2. CASE ~Here(a)
    <3>1. accounts[a].state = "absent"
      BY <2>2, <1>1, <1>3 DEF Account, Here
    <3>2. Password(a) = None
      BY <2>2 DEF AuthInv, PasswordsMade
    <3> QED
      BY <3>1, <3>2, <1>4, <1>5 DEF Appears
  <2> QED
    BY <2>1, <2>2
<1>7. RequestAndAccounts
  BY <1>2, <1>5, <1>6 DEF RequestAndAccounts
<1>8. TypeOK'
  BY <1>0, <1>1, <1>2, <1>5 DEF TypeOK, Moves
<1> QED
  BY <1>1, <1>7, <1>8 DEF Sides, SessionGoes, CodeGoes, OnlyUsed, Histories

-----------------------------------------------------------------------------
(* Steps that write reset codes.                                             *)

LEMMA MarkStep ==
    ASSUME AuthInv, NEW r \in Requests, NEW a \in Accounts, MarkCodes(r, a)
    PROVE  Sides
<1>0. TypeOK
  BY DEF AuthInv
<1>1. /\ Starts(r, "forgot", a, "marked", None, None)
      /\ resets' = [k \in Requests |->
                       IF resets[k].account = a /\ resets[k].state = "unused"
                       THEN [resets[k] EXCEPT !.state = "used"] ELSE resets[k]]
      /\ issued' = Append(issued, r)
      /\ UNCHANGED <<accounts, sessions, invites, late, spent>>
  BY DEF MarkCodes
<1>2. Moves(r)
  BY <1>0, <1>1, Begins DEF Route
<1>3. ASSUME NEW k \in Requests
      PROVE  resets'[k] \in Code /\ OnlyUsed(k)
  <2>1. resets[k] \in Code
    BY <1>0 DEF TypeOK
  <2>2. /\ [resets[k] EXCEPT !.state = "used"] \in Code
        /\ [resets[k] EXCEPT !.state = "used"].state = "used"
        /\ [resets[k] EXCEPT !.state = "used"].account = resets[k].account
    BY <2>1 DEF Code
  <2>3. \/ resets'[k] = resets[k]
        \/ /\ resets[k].state = "unused"
           /\ resets'[k] = [resets[k] EXCEPT !.state = "used"]
    BY <1>1
  <2> QED
    BY <2>1, <2>2, <2>3 DEF OnlyUsed
<1>4. resets' = [k \in Requests |-> resets'[k]]
  BY <1>1
<1>5. resets' \in [Requests -> Code]
  BY <1>3, <1>4
<1>6. issued' \in Seq(Requests)
  BY <1>0, <1>1 DEF TypeOK
<1>7. TypeOK'
  BY <1>0, <1>1, <1>2, <1>5, <1>6 DEF TypeOK, Moves
<1>8. RequestAndAccounts
  BY <1>1, <1>2 DEF RequestAndAccounts, Stays, Password
<1>9. \A k \in Requests : CodeGoes(k) /\ SessionGoes(k)
  BY <1>1, <1>3 DEF CodeGoes, SessionGoes, OnlyUsed
<1> QED
  BY <1>1, <1>7, <1>8, <1>9 DEF Sides, Histories

LEMMA InsertStep ==
    ASSUME AuthInv, NEW r \in Requests, InsertCode(r)
    PROVE  Sides
<1>0. TypeOK /\ RequestsRouted /\ requests[r] \in Request /\ resets[r] \in Code
      /\ resets \in [Requests -> Code]
  BY DEF AuthInv, TypeOK
<1> DEFINE n == [resets[r] EXCEPT !.state = "unused",
                                  !.account = requests[r].account]
<1>1. /\ At(r, "marked") /\ Here(requests[r].account) /\ Goes(r, "done")
      /\ resets' = [resets EXCEPT ![r] = n]
      /\ UNCHANGED <<accounts, sessions, issued, invites, late, spent>>
  BY <1>0 DEF InsertCode
<1>2. Moves(r) /\ requests'[r].pc = "done"
  BY <1>0, <1>1, GoesOn DEF At
<1>3. n \in Code /\ n.state = "unused" /\ n.account = requests[r].account
  BY <1>0 DEF Code, Request
<1> HIDE DEF n
<1>4. /\ resets' \in [Requests -> Code] /\ resets'[r] = n
      /\ \A k \in Requests \ {r} : resets'[k] = resets[k]
  BY <1>0, <1>1, <1>3
<1>5. TypeOK'
  BY <1>0, <1>1, <1>2, <1>4 DEF TypeOK, Moves
<1>6. RequestAndAccounts
  BY <1>1, <1>2 DEF RequestAndAccounts, Stays, Password
<1>7. ASSUME NEW k \in Requests
      PROVE  CodeGoes(k) /\ SessionGoes(k)
  <2>1. CASE k = r
    BY <2>1, <1>1, <1>2, <1>3, <1>4 DEF CodeGoes, OnlyUsed, SessionGoes
  <2>2. CASE k # r
    BY <2>2, <1>1, <1>4 DEF CodeGoes, OnlyUsed, SessionGoes
  <2> QED
    BY <2>1, <2>2
<1> QED
  BY <1>1, <1>5, <1>6, <1>7 DEF Sides, Histories

LEMMA ExpireStep ==
    ASSUME AuthInv, NEW k \in Requests, ExpireCode(k)
    PROVE  Sides
<1>0. TypeOK /\ resets \in [Requests -> Code] /\ resets[k] \in Code
  BY DEF AuthInv, TypeOK
<1> DEFINE n == [resets[k] EXCEPT !.expired = TRUE]
<1>1. /\ resets' = [resets EXCEPT ![k] = n]
      /\ UNCHANGED <<accounts, sessions, issued, invites, requests, late, spent>>
  BY DEF ExpireCode
<1>2. n \in Code /\ n.state = resets[k].state /\ n.account = resets[k].account
  BY <1>0 DEF Code
<1> HIDE DEF n
<1>3. /\ resets' \in [Requests -> Code] /\ resets'[k] = n
      /\ \A j \in Requests \ {k} : resets'[j] = resets[j]
  BY <1>0, <1>1, <1>2
<1>4. TypeOK'
  BY <1>0, <1>1, <1>3 DEF TypeOK
<1>5. RequestAndAccounts
  BY <1>1 DEF RequestAndAccounts, Stays, Password
<1>6. ASSUME NEW j \in Requests
      PROVE  CodeGoes(j) /\ SessionGoes(j)
  BY <1>1, <1>2, <1>3 DEF CodeGoes, OnlyUsed, SessionGoes
<1> QED
  BY <1>1, <1>4, <1>5, <1>6 DEF Sides, Histories

LEMMA WrongStep ==
    ASSUME AuthInv, NEW r \in Requests, WrongCode(r)
    PROVE  Sides
<1> DEFINE a == requests[r].account
           k == Newest(a)
           n == [resets[k] EXCEPT !.tries = resets[k].tries + 1]
<1>0. TypeOK /\ RequestsRouted /\ resets \in [Requests -> Code]
  BY DEF AuthInv, TypeOK
<1>1. /\ At(r, "hashed") /\ Tries(k) /\ Goes(r, "done")
      /\ resets' = [resets EXCEPT ![k] = n]
      /\ UNCHANGED <<accounts, sessions, issued, invites, late, spent>>
  BY DEF WrongCode, Usable
<1>2. Moves(r)
  BY <1>0, <1>1, GoesOn DEF At
<1>3. /\ resets' \in [Requests -> Code]
      /\ \A j \in Requests : /\ resets'[j].state = resets[j].state
                             /\ resets'[j].account = resets[j].account
  <2> HIDE DEF k
  <2>1. CASE k \notin Requests
    BY <2>1, <1>0, <1>1
  <2>2. CASE k \in Requests
    <3>1. resets[k] \in Code /\ resets[k].tries < MaxTries
      BY <2>2, <1>0, <1>1 DEF Tries
    <3>2. resets[k].tries + 1 \in 0..MaxTries
      BY <3>1, TriesArePositive DEF Code
    <3>3. n \in Code /\ n.state = resets[k].state /\ n.account = resets[k].account
      BY <3>1, <3>2 DEF Code
    <3> HIDE DEF n
    <3> QED
      BY <2>2, <1>0, <1>1, <3>3
  <2> QED
    BY <2>1, <2>2
<1>4. TypeOK'
  BY <1>0, <1>1, <1>2, <1>3 DEF TypeOK, Moves
<1>5. RequestAndAccounts
  BY <1>1, <1>2 DEF RequestAndAccounts, Stays, Password
<1>6. ASSUME NEW j \in Requests
      PROVE  CodeGoes(j) /\ SessionGoes(j)
  BY <1>1, <1>3 DEF CodeGoes, OnlyUsed, SessionGoes
<1> QED
  BY <1>1, <1>4, <1>5, <1>6 DEF Sides, Histories

-----------------------------------------------------------------------------
(* Steps that belong to no request under way.                                *)

LEMMA DeleteStep ==
    ASSUME AuthInv, NEW r \in Requests, DeleteAccount(r)
    PROVE  Sides
<1> DEFINE a == requests[r].account
           n == [accounts[a] EXCEPT !.state = "deleted", !.password = None]
<1>a. /\ requests[r].pc = "admitted" /\ Goes(r, "done")
      /\ TypeOK /\ RequestsRouted
  BY DEF DeleteAccount, Admitted, At, AuthInv
<1>b. a \in Accounts
  BY <1>a DEF RequestsRouted, Routed
<1>0. TypeOK /\ accounts[a] \in Account /\ invites \in [Accounts -> Invite]
  BY <1>b DEF AuthInv, TypeOK
<1>c. Moves(r)
  BY <1>a, GoesOn
<1>1. /\ accounts' = [accounts EXCEPT ![a] = n]
      /\ sessions' = Closed(a)
      /\ resets' = [k \in Requests |-> IF resets[k].account = a
                                       THEN [resets[k] EXCEPT !.state = "used"]
                                       ELSE resets[k]]
      /\ invites' = [invites EXCEPT ![a] = [state |-> "none", token |-> None]]
      /\ UNCHANGED <<issued, late, spent>>
  BY <1>0 DEF DeleteAccount
<1>2. n \in Account /\ n.state = "deleted" /\ n.password = None
  BY <1>0 DEF Account
<1> HIDE DEF n, a
<1>3. /\ accounts' \in [Accounts -> Account] /\ accounts'[a] = n
      /\ \A x \in Accounts : x # a => Stays(x)
  BY <1>0, <1>b, <1>1, <1>2, OneAccountWritten
<1>4. ASSUME NEW k \in Requests
      PROVE  /\ resets'[k] \in Code /\ OnlyUsed(k)
             /\ resets[k].account = a => resets'[k].state # "unused"
  <2>1. resets[k] \in Code
    BY <1>0 DEF TypeOK
  <2>2. /\ [resets[k] EXCEPT !.state = "used"] \in Code
        /\ [resets[k] EXCEPT !.state = "used"].state = "used"
        /\ [resets[k] EXCEPT !.state = "used"].account = resets[k].account
    BY <2>1 DEF Code
  <2>3. resets'[k] = IF resets[k].account = a
                     THEN [resets[k] EXCEPT !.state = "used"] ELSE resets[k]
    BY <1>1
  <2>4. resets[k].account = a => resets[k].state # "none"
    BY <1>b, NoneIsNobody DEF AuthInv, CodesWritten
  <2> QED
    BY <2>1, <2>2, <2>3, <2>4 DEF OnlyUsed
<1>5. resets' = [k \in Requests |-> resets'[k]]
  BY <1>1
<1>6. resets' \in [Requests -> Code]
  BY <1>4, <1>5
<1>7. /\ Closed(a) \in [Requests -> Session]
      /\ \A s \in Requests : Closed(a)[s] = sessions[s] \/ Closed(a)[s].state # "active"
  BY <1>0, <1>b, ClosedTyped
<1>8. invites' \in [Accounts -> Invite]
  BY <1>0, <1>1 DEF Invite
<1>9. TypeOK'
  BY <1>0, <1>c, <1>1, <1>3, <1>6, <1>7, <1>8 DEF TypeOK, Moves
<1>10. Leaves(a)
  BY <1>1, <1>2, <1>3, <1>4 DEF Leaves
<1>11. RequestAndAccounts
  BY <1>c, <1>1, <1>3, <1>10 DEF RequestAndAccounts
<1>12. \A k \in Requests : CodeGoes(k) /\ SessionGoes(k)
  BY <1>1, <1>4, <1>7 DEF CodeGoes, SessionGoes, OnlyUsed
<1> QED
  BY <1>1, <1>9, <1>11, <1>12 DEF Sides, Histories

LEMMA BanStep ==
    ASSUME AuthInv, NEW a \in Accounts, Ban(a)
    PROVE  Sides
<1> DEFINE n == [accounts[a] EXCEPT !.banned = ~accounts[a].banned]
<1>0. TypeOK /\ accounts[a] \in Account
  BY DEF AuthInv, TypeOK
<1>1. /\ accounts' = [accounts EXCEPT ![a] = n]
      /\ UNCHANGED <<sessions, resets, issued, invites, requests, late, spent>>
  BY DEF Ban
<1>2. n \in Account /\ n.state = accounts[a].state /\ n.password = Password(a)
  BY <1>0 DEF Account, Password
<1> HIDE DEF n
<1>3. /\ accounts' \in [Accounts -> Account] /\ accounts'[a] = n
      /\ \A x \in Accounts : x # a => Stays(x)
  BY <1>0, <1>1, <1>2, OneAccountWritten
<1>4. TypeOK'
  BY <1>0, <1>1, <1>3 DEF TypeOK
<1>5. RequestAndAccounts
  BY <1>1, <1>2, <1>3 DEF RequestAndAccounts, Stays
<1> QED
  BY <1>1, <1>4, <1>5 DEF Sides, SessionGoes, CodeGoes, OnlyUsed, Histories

LEMMA EveryStepHasSides == ASSUME AuthInv, Next PROVE Sides
<1>1. ASSUME NEW r \in Requests, Step(r)
      PROVE  Sides
  <2>1. ASSUME NEW a \in Accounts,
               \/ Login(r, a) \/ OAuth(r, a) \/ MarkCodes(r, a)
               \/ \E route \in Guarded : Admit(r, a, route)
               \/ StartInvite(r, a) \/ ReadInvite(r, a) \/ ReadForRegister(r, a)
               \/ \E k \in Requests \cup {None} : PresentCode(r, a, k)
        PROVE  Sides
    BY <2>1, ReadersStep, OAuthStep, MarkStep
  <2>2. ASSUME \/ OpenSession(r) \/ ProvePassword(r) \/ ChangePassword(r)
               \/ LogoutAll(r) \/ DeleteAccount(r)
               \/ InsertCode(r) \/ ForgetCode(r) \/ ResetPassword(r) \/ WrongCode(r)
               \/ WriteInvite(r) \/ ReadAccount(r) \/ AcceptInvite(r)
               \/ CreateAccount(r) \/ BurnInvite(r) \/ GiveUp(r)
        PROVE  Sides
    BY <2>2, OpenStep, ProveStep, ChangeStep, LogoutStep, DeleteStep, InsertStep, ResetStep, WrongStep, AcceptStep,
       CreateStep, EndersStep
  <2> QED
    BY <1>1, <2>1, <2>2 DEF Step
<1> QED
  BY <1>1, CloseStep, ExpireStep, BanStep DEF Next

-----------------------------------------------------------------------------
(* What the sides of a step preserve.                                        *)

LEMMA TheRestStays ==
    ASSUME Sides, NEW x \in Requests
    PROVE  \/ requests'[x] = requests[x]
           \/ Moves(x) /\ \A a \in Accounts :
                             Stays(a) \/ Appears(a) \/ Replaces(a, x) \/ Leaves(a)
BY DEF Sides, RequestAndAccounts, Moves

(* A request that has begun keeps its route and account, and a done one      *)
(* everything.                                                               *)
LEMMA BegunStays ==
    ASSUME Sides, NEW x \in Requests, requests[x].pc # "free"
    PROVE  /\ requests'[x].pc # "free"
           /\ requests'[x].route = requests[x].route
           /\ requests'[x].account = requests[x].account
           /\ requests[x].pc = "done" => requests'[x] = requests[x]
BY TheRestStays DEF Moves

LEMMA RoutedNext ==
    ASSUME AuthInv, Sides
    PROVE  RequestsRouted'
<1> SUFFICES ASSUME NEW x \in Requests PROVE Routed(requests'[x])
  BY DEF RequestsRouted
<1>1. Routed(requests[x])
  BY DEF AuthInv, RequestsRouted
<1> QED
  BY <1>1, TheRestStays DEF Moves

LEMMA AccountCases ==
    ASSUME Sides, NEW a \in Accounts
    PROVE  \/ Stays(a) \/ Appears(a) \/ Leaves(a)
           \/ \E r \in Requests : Moves(r) /\ Replaces(a, r)
BY DEF Sides, RequestAndAccounts

LEMMA PasswordsMadeNext ==
    ASSUME AuthInv, Sides
    PROVE  PasswordsMade'
<1> SUFFICES ASSUME NEW a \in Accounts, accounts'[a].password # None
             PROVE  /\ accounts'[a].state = "here"
                    /\ requests'[accounts'[a].password].pc # "free"
  BY DEF PasswordsMade, Password, Here
<1>1. CASE Stays(a)
  <2>1. /\ accounts'[a].password = Password(a) /\ Password(a) # None /\ Here(a)
        /\ requests[Password(a)].pc # "free"
    BY <1>1 DEF Stays, AuthInv, PasswordsMade
  <2>2. Password(a) \in Requests
    BY <2>1, PasswordIsHash DEF AuthInv
  <2> QED
    BY <1>1, <2>1, <2>2, BegunStays DEF Stays, Here
<1>2. CASE Appears(a)
  BY <1>2 DEF Appears
<1>3. CASE Leaves(a)
  BY <1>3 DEF Leaves
<1>4. ASSUME NEW r \in Requests, Moves(r), Replaces(a, r)
      PROVE  /\ accounts'[a].state = "here"
             /\ requests'[accounts'[a].password].pc # "free"
  BY <1>4 DEF Moves, Replaces
<1> QED
  BY <1>1, <1>2, <1>3, <1>4, AccountCases

(* An account that is absent was absent before.                              *)
LEMMA AbsentWasAbsent ==
    ASSUME Sides, NEW a \in Accounts, accounts'[a].state = "absent"
    PROVE  accounts[a].state = "absent"
BY AccountCases DEF Stays, Appears, Leaves, Replaces

LEMMA NothingReadNext ==
    ASSUME AuthInv, Sides
    PROVE  NothingReadOfTheAbsent'
<1> SUFFICES ASSUME NEW x \in Requests, requests'[x].pc # "free",
                    accounts'[requests'[x].account].state = "absent"
             PROVE  requests'[x].seen = None
  BY DEF NothingReadOfTheAbsent
<1>1. requests'[x].account \in Accounts
  BY RoutedNext DEF RequestsRouted, Routed
<1>2. accounts[requests'[x].account].state = "absent"
  BY <1>1, AbsentWasAbsent
<1>3. /\ requests[x].pc # "free" /\ requests[x].account = requests'[x].account
      => requests[x].seen = None
  BY <1>2 DEF AuthInv, NothingReadOfTheAbsent
<1>4. CASE requests'[x] = requests[x]
  BY <1>3, <1>4
<1>5. CASE Moves(x)
  BY <1>3, <1>5 DEF Moves
<1> QED
  BY <1>4, <1>5, TheRestStays

(* Excused in the next state. *)
ExcusedNext(x, a) ==
    \/ x \in late'
    \/ /\ accounts'[a].password # None
       /\ requests'[accounts'[a].password].route = "accept"

LEMMA StillExcused ==
    ASSUME AuthInv, Sides, NEW x \in Requests, NEW a \in Accounts,
           Excused(x, a), accounts'[a].password = Password(a)
    PROVE  ExcusedNext(x, a)
<1>1. CASE x \in late
  BY <1>1 DEF ExcusedNext, Sides, Histories
<1>2. CASE Password(a) # None /\ requests[Password(a)].route = "accept"
  <2>1. Password(a) \in Requests /\ requests[Password(a)].pc # "free"
    BY <1>2, PasswordIsHash DEF AuthInv, PasswordsMade
  <2>2. requests'[Password(a)].route = "accept"
    BY <1>2, <2>1, BegunStays
  <2> QED
    BY <1>2, <2>2 DEF ExcusedNext, Password
<1> QED
  BY <1>1, <1>2 DEF Excused

LEMMA ReadersNext ==
    ASSUME AuthInv, Sides
    PROVE  ReadersExcused'
<1> SUFFICES ASSUME NEW x \in Requests, requests'[x].pc \notin {"free", "done"},
                    accounts'[requests'[x].account].state = "here",
                    requests'[x].seen \notin
                        {None, accounts'[requests'[x].account].password}
             PROVE  ExcusedNext(x, requests'[x].account)
  BY DEF ReadersExcused, Here, Password, Excused, ExcusedNext
<1> DEFINE a == requests'[x].account
<1>1. a \in Accounts
  BY RoutedNext DEF RequestsRouted, Routed
<1>2. /\ requests[x].pc \notin {"free", "done"}
      /\ requests[x].account = a /\ requests[x].seen = requests'[x].seen
      /\ requests'[x] = requests[x] \/ accounts' = accounts
  <2>1. CASE requests'[x] = requests[x]
    BY <2>1
  <2>2. CASE Moves(x)
    BY <2>2 DEF Moves
  <2> QED
    BY <2>1, <2>2, TheRestStays
<1>3. a = requests'[x].account
  OBVIOUS
<1> HIDE DEF a
<1>4. CASE accounts'[a].password = Password(a) /\ Here(a)
  <2>1. Excused(x, a)
    BY <1>2, <1>3, <1>4 DEF AuthInv, ReadersExcused
  <2> QED
    BY <1>1, <1>3, <1>4, <2>1, StillExcused
<1>5. CASE Stays(a) \/ accounts' = accounts
  BY <1>3, <1>4, <1>5 DEF Stays, Here, Password
<1>6. CASE Appears(a)
  <2>1. requests[x].seen = None
    BY <1>2, <1>6 DEF Appears, AuthInv, NothingReadOfTheAbsent
  <2> QED
    BY <1>2, <2>1
<1>7. ASSUME NEW r \in Requests, Moves(r), Replaces(a, r), requests'[x] = requests[x]
      PROVE  ExcusedNext(x, a)
  <2>1. x # r
    BY <1>2, <1>3, <1>7 DEF Replaces
  <2>2. x \in UnderWay(a)
    BY <1>2 DEF UnderWay
  <2> QED
    BY <1>7, <2>1, <2>2 DEF Replaces, ExcusedNext
<1>8. CASE Leaves(a)
  BY <1>3, <1>8 DEF Leaves
<1> QED
  BY <1>1, <1>2, <1>3, <1>5, <1>6, <1>7, <1>8, AccountCases

(* An account that is there stays there unless it leaves.                    *)
LEMMA HereStays ==
    ASSUME Sides, NEW a \in Accounts, Here(a), ~Leaves(a)
    PROVE  accounts'[a].state = "here"
BY AccountCases DEF Stays, Appears, Replaces, Here

LEMMA SessionsOwnedNext ==
    ASSUME AuthInv, Sides
    PROVE  SessionsOwned'
<1> SUFFICES ASSUME NEW s \in Requests, sessions'[s].state = "active"
             PROVE  /\ sessions'[s].account \in Accounts
                    /\ accounts'[sessions'[s].account].state = "here"
  BY DEF SessionsOwned, Here
<1>0. TypeOK
  BY DEF AuthInv
<1>1. CASE sessions'[s] = sessions[s]
  <2>1. sessions[s].account \in Accounts /\ Here(sessions[s].account)
    BY <1>1 DEF AuthInv, SessionsOwned
  <2>2. ~Leaves(sessions[s].account)
    BY <1>0, ClosedTyped, <1>1 DEF Leaves
  <2> QED
    BY <1>1, <2>1, <2>2, HereStays
<1>2. CASE /\ At(s, "opening") /\ Here(requests[s].account)
           /\ sessions'[s].account = requests[s].account
           /\ accounts' = accounts
  BY <1>2 DEF AuthInv, RequestsRouted, Routed, At, Here
<1>3. SessionGoes(s)
  BY DEF Sides
<1>4. CASE /\ At(s, "opening") /\ Here(requests[s].account)
           /\ sessions'[s] = [state |-> "active", account |-> requests[s].account,
                              proof |-> requests[s].seen]
           /\ accounts' = accounts
  <2>1. /\ sessions'[s].account = requests[s].account
        /\ sessions'[s].proof = requests[s].seen
    BY <1>4
  <2> QED
    BY <1>2, <1>4, <2>1
<1> QED
  BY <1>1, <1>3, <1>4 DEF SessionGoes

LEMMA SessionsExcusedNext ==
    ASSUME AuthInv, Sides
    PROVE  SessionsExcused'
<1> SUFFICES ASSUME NEW s \in Requests, sessions'[s].state = "active",
                    sessions'[s].proof \notin
                        {None, accounts'[sessions'[s].account].password}
             PROVE  ExcusedNext(s, sessions'[s].account)
  BY DEF SessionsExcused, Password, Excused, ExcusedNext
<1>0. TypeOK
  BY DEF AuthInv
<1>1. CASE sessions'[s] = sessions[s]
  <2> DEFINE a == sessions[s].account
  <2>1. a \in Accounts /\ Here(a)
    BY <1>1 DEF AuthInv, SessionsOwned
  <2>2. sessions'[s].account = a /\ sessions[s].account = a
    BY <1>1
  <2> HIDE DEF a
  <2>3. CASE Stays(a)
    <3>1. Excused(s, a)
      BY <1>1, <2>2, <2>3 DEF AuthInv, SessionsExcused, Stays
    <3> QED
      BY <2>1, <2>2, <2>3, <3>1, StillExcused DEF Stays
  <2>4. CASE Appears(a)
    BY <2>1, <2>4 DEF Appears, Here
  <2>5. sessions' # Closed(a)
    BY <1>0, <1>1, <2>2, ClosedTyped
  <2>6. ASSUME NEW r \in Requests, Moves(r), Replaces(a, r)
        PROVE  ExcusedNext(s, a)
    <3>1. requests[r].route = "accept" /\ requests[r].pc # "free"
      BY <2>5, <2>6 DEF Replaces
    <3>2. requests'[r].route = "accept"
      BY <3>1, BegunStays
    <3> QED
      BY <2>6, <3>2, NoneIsNobody DEF Replaces, ExcusedNext
  <2> QED
    BY <2>1, <2>2, <2>3, <2>4, <2>5, <2>6, AccountCases DEF Leaves
<1>2. CASE /\ At(s, "opening") /\ Here(requests[s].account)
           /\ sessions'[s].account = requests[s].account
           /\ sessions'[s].proof = requests[s].seen
           /\ accounts' = accounts
  <2>1. requests[s].account \in Accounts
    BY <1>2 DEF AuthInv, RequestsRouted, Routed, At
  <2>2. Excused(s, requests[s].account)
    BY <1>2 DEF AuthInv, ReadersExcused, At, Password
  <2>3. accounts'[requests[s].account].password = Password(requests[s].account)
    BY <1>2 DEF Password
  <2> QED
    BY <1>2, <2>1, <2>2, <2>3, StillExcused
<1>3. SessionGoes(s)
  BY DEF Sides
<1>4. CASE /\ At(s, "opening") /\ Here(requests[s].account)
           /\ sessions'[s] = [state |-> "active", account |-> requests[s].account,
                              proof |-> requests[s].seen]
           /\ accounts' = accounts
  <2>1. /\ sessions'[s].account = requests[s].account
        /\ sessions'[s].proof = requests[s].seen
    BY <1>4
  <2> QED
    BY <1>2, <1>4, <2>1
<1> QED
  BY <1>1, <1>3, <1>4 DEF SessionGoes

LEMMA SettersNext ==
    ASSUME AuthInv, Sides
    PROVE  SettersLate'
<1> SUFFICES ASSUME NEW x \in Requests, requests'[x].pc = "setting"
             PROVE  /\ accounts'[requests'[x].account].state # "absent"
                    /\ \/ accounts'[requests'[x].account].password = None
                       \/ x \in late'
  BY DEF SettersLate, Password
<1>1. CASE Moves(x)
  BY <1>1 DEF Moves, Here, Password
<1>2. CASE requests'[x] = requests[x] /\ ~Moves(x)
  <2> DEFINE a == requests[x].account
  <2>1. /\ a \in Accounts /\ accounts[a].state # "absent"
        /\ Password(a) = None \/ x \in late
        /\ x \in UnderWay(a)
    BY <1>2 DEF AuthInv, RequestsRouted, Routed, SettersLate, UnderWay
  <2>2. requests'[x].account = a /\ accounts'[a].state # "absent"
    BY <1>2, <2>1, AbsentWasAbsent
  <2> HIDE DEF a
  <2>3. late \subseteq late'
    BY DEF Sides, Histories
  <2>4. CASE Stays(a)
    BY <2>1, <2>2, <2>3, <2>4 DEF Stays
  <2>5. CASE Appears(a)
    BY <2>1, <2>5 DEF Appears
  <2>6. CASE Leaves(a)
    BY <2>2, <2>6 DEF Leaves
  <2>7. ASSUME NEW r \in Requests, Moves(r), Replaces(a, r)
        PROVE  x \in late'
    BY <1>2, <2>1, <2>7 DEF Replaces
  <2> QED
    BY <2>1, <2>2, <2>4, <2>5, <2>6, <2>7, AccountCases
<1> QED
  BY <1>1, <1>2, TheRestStays

LEMMA IssuedStays ==
    ASSUME AuthInv, Sides, NEW k, IsIssued(k)
    PROVE  IsIssued(k)'
<1>1. issued \in Seq(Requests)
  BY DEF AuthInv, TypeOK
<1>2. PICK n \in 1..Len(issued) : issued[n] = k
  BY DEF IsIssued
<1>3. issued' = issued \/ \E r \in Requests : issued' = Append(issued, r)
  BY DEF Sides, Histories
<1>4. n \in 1..Len(issued') /\ issued'[n] = k
  BY <1>1, <1>2, <1>3
<1> QED
  BY <1>4 DEF IsIssued

LEMMA CodesWrittenNext ==
    ASSUME AuthInv, Sides
    PROVE  CodesWritten'
<1> SUFFICES ASSUME NEW k \in Requests
             PROVE  /\ requests'[k].pc = "marked" => IsIssued(k)'
                    /\ resets'[k].state # "none" =>
                          /\ requests'[k].pc = "done" /\ IsIssued(k)'
                          /\ resets'[k].account \in Accounts
                    /\ resets'[k].state = "none" => resets'[k].account = None
                    /\ resets'[k].state = "unused" =>
                          accounts'[resets'[k].account].state = "here"
  BY DEF CodesWritten, Here, IsIssued
<1>0. /\ requests[k].pc = "marked" => IsIssued(k)
      /\ resets[k].state # "none" =>
            requests[k].pc = "done" /\ IsIssued(k) /\ resets[k].account \in Accounts
      /\ resets[k].state = "none" => resets[k].account = None
      /\ resets[k].state = "unused" => Here(resets[k].account)
  BY DEF AuthInv, CodesWritten
<1>1. ASSUME requests'[k].pc = "marked"
      PROVE  IsIssued(k)'
  <2>1. CASE requests[k].pc = "marked"
    BY <1>0, <2>1, IssuedStays
  <2>2. CASE requests[k].pc # "marked"
    <3>1. issued' = Append(issued, k)
      BY <1>1, <2>2, TheRestStays DEF Moves
    <3>2. issued \in Seq(Requests)
      BY DEF AuthInv, TypeOK
    <3>3. Len(issued) + 1 \in 1..Len(issued') /\ issued'[Len(issued) + 1] = k
      BY <3>1, <3>2
    <3> QED
      BY <3>3 DEF IsIssued
  <2> QED
    BY <2>1, <2>2
<1>2. CASE OnlyUsed(k)
  <2>1. /\ resets'[k].state # "none" => resets[k].state # "none"
        /\ resets'[k].account = resets[k].account
        /\ resets'[k].state = "none" => resets[k].state = "none"
        /\ resets'[k].state = "unused" => resets[k].state = "unused"
    BY <1>2 DEF OnlyUsed
  <2>2. ASSUME resets'[k].state # "none"
        PROVE  /\ requests'[k].pc = "done" /\ IsIssued(k)'
               /\ resets'[k].account \in Accounts
    <3>1. requests[k].pc = "done" /\ IsIssued(k) /\ resets[k].account \in Accounts
      BY <1>0, <2>1, <2>2
    <3>2. requests'[k].pc = "done"
      BY <3>1, BegunStays
    <3> QED
      BY <2>1, <3>1, <3>2, IssuedStays
  <2>3. ASSUME resets'[k].state = "unused"
        PROVE  accounts'[resets'[k].account].state = "here"
    <3>1. resets[k].account \in Accounts /\ Here(resets[k].account)
      BY <1>0, <2>1, <2>3
    <3>2. ~Leaves(resets[k].account)
      BY <2>3 DEF Leaves
    <3> QED
      BY <2>1, <3>1, <3>2, HereStays
  <2> QED
    BY <1>0, <1>1, <2>1, <2>2, <2>3
<1>3. CASE /\ At(k, "marked") /\ requests'[k].pc = "done"
           /\ resets'[k].state = "unused" /\ resets'[k].account = requests[k].account
           /\ Here(requests[k].account) /\ accounts' = accounts
  <2>1. requests[k].account \in Accounts
    BY <1>3 DEF AuthInv, RequestsRouted, Routed, At
  <2>2. IsIssued(k)'
    BY <1>0, <1>3, IssuedStays DEF At
  <2> QED
    BY <1>3, <2>1, <2>2 DEF Here
<1> QED
  BY <1>2, <1>3 DEF Sides, CodeGoes

LEMMA SpentNext ==
    ASSUME AuthInv, Sides
    PROVE  SpentAreUsed'
<1> SUFFICES ASSUME NEW k \in spent' PROVE resets'[k].state = "used"
  BY DEF SpentAreUsed
<1>1. CASE k \notin spent
  BY <1>1 DEF Sides, Histories
<1>2. CASE k \in spent
  <2>1. k \in Requests /\ resets[k].state = "used"
    BY <1>2 DEF AuthInv, TypeOK, SpentAreUsed
  <2>2. requests[k].pc = "done"
    BY <2>1 DEF AuthInv, CodesWritten
  <2> QED
    BY <2>1, <2>2 DEF Sides, CodeGoes, OnlyUsed, At
<1> QED
  BY <1>1, <1>2

-----------------------------------------------------------------------------
LEMMA AuthStarts == Init => AuthInv
<1> SUFFICES ASSUME Init PROVE AuthInv
  OBVIOUS
<1> USE NoneIsNobody, TriesArePositive
<1>1. TypeOK
  BY DEF Init, TypeOK, Account, Session, Code, Invite, Request
<1>2. RequestsRouted /\ NothingReadOfTheAbsent /\ ReadersExcused
  BY DEF Init, RequestsRouted, Routed, NothingReadOfTheAbsent, ReadersExcused
<1>3. PasswordsMade /\ SettersLate /\ SpentAreUsed
  BY DEF Init, PasswordsMade, Password, SettersLate, SpentAreUsed
<1>4. SessionsOwned /\ SessionsExcused /\ CodesWritten
  BY DEF Init, SessionsOwned, SessionsExcused, CodesWritten
<1> QED
  BY <1>1, <1>2, <1>3, <1>4 DEF AuthInv

LEMMA AuthStepsKeepIt == AuthInv /\ [Next]_vars => AuthInv'
<1> SUFFICES ASSUME AuthInv, [Next]_vars PROVE AuthInv'
  OBVIOUS
<1>1. CASE UNCHANGED vars
  BY <1>1 DEF vars, AuthInv, TypeOK, RequestsRouted, PasswordsMade, Here, Password,
      NothingReadOfTheAbsent, ReadersExcused, Excused, SessionsOwned,
      SessionsExcused, CodesWritten, IsIssued, SettersLate, SpentAreUsed
<1>2. CASE Next
  <2>1. Sides
    BY <1>2, EveryStepHasSides
  <2>2. TypeOK'
    BY <2>1 DEF Sides
  <2> QED
    BY <2>1, <2>2, RoutedNext, PasswordsMadeNext, NothingReadNext, ReadersNext,
       SessionsOwnedNext, SessionsExcusedNext, CodesWrittenNext, SettersNext,
       SpentNext DEF AuthInv
<1> QED
  BY <1>1, <1>2

(* Sessions, passwords, codes and the requests under way stay in step,       *)
(* however the routes of server.js that log in, change, reset, invite and    *)
(* delete overlap.                                                           *)
THEOREM AuthInvHolds == Spec => []AuthInv
  BY AuthStarts, AuthStepsKeepIt, PTL DEF Spec

(* Whoever changes or resets a password shuts out all who were in but those  *)
(* who were just coming in, for any number of accounts and requests.         *)
THEOREM ReplacedPasswordsShutOut == Spec => []SurvivorsWereUnderWay
<1>1. AuthInv => SurvivorsWereUnderWay
  BY DEF AuthInv, SessionsExcused, Excused, Password, SurvivorsWereUnderWay
<1> QED
  BY <1>1, AuthInvHolds, PTL

(* An account that is gone has no active session and no usable code left.    *)
THEOREM GoneLeavesNothing == Spec => []NoGhosts
<1>1. AuthInv => NoGhosts
  BY DEF AuthInv, SessionsOwned, CodesWritten, NoGhosts
<1> QED
  BY <1>1, AuthInvHolds, PTL

-----------------------------------------------------------------------------
(* Who writes a password. *)

LEMMA WhoWrites ==
    ASSUME AuthInv, Next, NEW a \in Accounts, NEW r \in Requests,
           accounts[a].password # accounts'[a].password,
           accounts'[a].password = r
    PROVE  /\ ChangePassword(r) \/ ResetPassword(r) \/ AcceptInvite(r) \/ CreateAccount(r)
           /\ requests[r].account = a
<1>0. accounts \in [Accounts -> Account] /\ accounts[a] \in Account
  BY DEF AuthInv, TypeOK
<1>1. accounts' # accounts
  OBVIOUS
<1>2. ASSUME NEW q \in Requests, CloseSession(q) \/ ExpireCode(q) PROVE FALSE
  BY <1>1, <1>2 DEF CloseSession, ExpireCode
<1>5. ASSUME NEW b \in Accounts, Ban(b) PROVE FALSE
  <2>1. accounts' = [accounts EXCEPT ![b] =
                        [accounts[b] EXCEPT !.banned = ~accounts[b].banned]]
    BY <1>0, <1>5 DEF Ban
  <2>2. accounts'[a].password = accounts[a].password
    BY <1>0, <2>1 DEF Account
  <2> QED
    BY <2>2
<1>6. PICK q \in Requests : Step(q)
  BY <1>2, <1>5 DEF Next
<1>3. ASSUME LogoutAll(q) PROVE FALSE
  BY <1>1, <1>3 DEF LogoutAll
<1>4. ASSUME DeleteAccount(q) PROVE FALSE
  <2>1. accounts' = [accounts EXCEPT ![requests[q].account] =
           [accounts[requests[q].account] EXCEPT !.state = "deleted", !.password = None]]
    BY <1>0, <1>4 DEF DeleteAccount
  <2>2. accounts'[a].password \in {accounts[a].password, None}
    BY <1>0, <2>1 DEF Account
  <2> QED
    BY <2>2, NoneIsNobody
<1>7. ASSUME NEW b \in Accounts, OAuth(q, b) PROVE FALSE
  <2>1. accounts' = [accounts EXCEPT ![b] = [accounts[b] EXCEPT !.state = "here"]]
    BY <1>0, <1>7 DEF OAuth
  <2>2. accounts'[a].password = accounts[a].password
    BY <1>0, <2>1 DEF Account
  <2> QED
    BY <2>2
<1>8. ASSUME NEW b \in Accounts,
             \/ Login(q, b) \/ MarkCodes(q, b)
             \/ \E route \in Guarded : Admit(q, b, route)
             \/ StartInvite(q, b) \/ ReadInvite(q, b) \/ ReadForRegister(q, b)
             \/ \E k \in Requests \cup {None} : PresentCode(q, b, k)
      PROVE  FALSE
  BY <1>1, <1>8 DEF Login, Admit, MarkCodes, StartInvite, ReadInvite,
      ReadForRegister, PresentCode
<1>9. ASSUME \/ OpenSession(q) \/ ProvePassword(q) \/ InsertCode(q) \/ ForgetCode(q) \/ WrongCode(q)
             \/ WriteInvite(q) \/ ReadAccount(q) \/ BurnInvite(q) \/ GiveUp(q)
      PROVE  FALSE
  BY <1>1, <1>9 DEF OpenSession, ProvePassword, InsertCode, ForgetCode, WrongCode, WriteInvite,
      ReadAccount, BurnInvite, GiveUp
<1>10. ChangePassword(q) \/ ResetPassword(q) \/ AcceptInvite(q) \/ CreateAccount(q)
  BY <1>6, <1>3, <1>4, <1>7, <1>8, <1>9 DEF Step
<1>11. requests[q].account = a /\ accounts'[a].password = q
  <2>1. CASE CreateAccount(q)
    <3>1. accounts' = [accounts EXCEPT ![requests[q].account] =
             [accounts[requests[q].account] EXCEPT !.state = "here", !.password = q]]
      BY <1>0, <2>1 DEF CreateAccount
    <3>2. requests[q].account = a
      BY <1>0, <3>1
    <3> QED
      BY <1>0, <3>1, <3>2 DEF Account
  <2>2. CASE ChangePassword(q) \/ ResetPassword(q) \/ AcceptInvite(q)
    <3>1. accounts' = [accounts EXCEPT ![requests[q].account] =
             [accounts[requests[q].account] EXCEPT !.password = q]]
      BY <2>2 DEF ChangePassword, ResetPassword, AcceptInvite, SetPassword
    <3>2. requests[q].account = a
      BY <1>0, <3>1
    <3> QED
      BY <1>0, <3>1, <3>2 DEF Account
  <2> QED
    BY <1>10, <2>1, <2>2
<1> QED
  BY <1>10, <1>11

-----------------------------------------------------------------------------
(* The newest code is one of the unused ones. *)

LEMMA LeastPlace ==
    ASSUME NEW T \in SUBSET Nat, T # {}
    PROVE  \E m \in T : \A n \in T : m <= n
<1> DEFINE R == {ss \in Nat \X Nat : ss[1] < ss[2]}
<1>1. R = OpToRel(<, Nat)
  BY DEF OpToRel
<1>2. IsWellFoundedOn(R, Nat)
  BY <1>1, NatLessThanWellFounded
<1>3. \A m, n \in Nat : <<m, n>> \notin R => n <= m
  OBVIOUS
<1> HIDE DEF R
<1>4. \E m \in T : \A n \in T : ~(<<n, m>> \in R)
  BY <1>2, WFMin
<1> QED
  BY <1>3, <1>4

LEMMA NewestIsUnused ==
    ASSUME AuthInv, NEW a \in Accounts, Unused(a) # {}
    PROVE  Newest(a) \in Unused(a)
<1> DEFINE Behind(k) == Len(issued) - Position(k)
           Places == {Behind(k) : k \in Unused(a)}
<1>1. Len(issued) \in Nat
  BY DEF AuthInv, TypeOK
<1>2. \A k \in Unused(a) : Position(k) \in 1..Len(issued)
  <2> SUFFICES ASSUME NEW k \in Unused(a) PROVE Position(k) \in 1..Len(issued)
    OBVIOUS
  <2>1. IsIssued(k)
    BY DEF Unused, AuthInv, CodesWritten
  <2> QED
    BY <2>1 DEF IsIssued, Position
<1>3. Places \in SUBSET Nat /\ Places # {}
  BY <1>1, <1>2
<1>4. PICK m \in Places : \A n \in Places : m <= n
  <2> HIDE DEF Places
  <2> QED
    BY <1>3, LeastPlace
<1>5. PICK k \in Unused(a) : m = Behind(k)
  BY <1>4
<1>6. ASSUME NEW j \in Unused(a)
      PROVE  Position(j) <= Position(k)
  <2>1. Behind(j) \in Places
    OBVIOUS
  <2>2. Behind(k) <= Behind(j)
    <3> HIDE DEF Places, Behind
    <3> QED
      BY <1>4, <1>5, <2>1
  <2>3. Position(j) \in Int /\ Position(k) \in Int
    BY <1>1, <1>2
  <2> QED
    BY <1>1, <2>2, <2>3
<1> QED
  BY <1>6 DEF Newest

(* A code that was there when a code was used never sets a password, nor     *)
(* does one code twice, whatever the number of codes that overlapping        *)
(* requests left behind.                                                     *)
THEOREM SpentCodesAreDead == Spec => SpentCodesStayDead
<1>1. AuthInv /\ [Next]_vars =>
        [\A a \in Accounts, r \in Requests :
            /\ accounts[a].password # accounts'[a].password
            /\ accounts'[a].password = r
            /\ requests[r].route = "reset"
            => requests[r].ref \notin spent]_vars
  <2> SUFFICES ASSUME AuthInv, Next, NEW a \in Accounts, NEW r \in Requests,
                      accounts[a].password # accounts'[a].password,
                      accounts'[a].password = r,
                      requests[r].route = "reset"
               PROVE  requests[r].ref \notin spent
    BY DEF vars
  <2>1. Routed(requests[r])
    BY DEF AuthInv, RequestsRouted
  <2>2. ~ChangePassword(r)
    BY <2>1 DEF Routed, ChangePassword, At
  <2>3. ~AcceptInvite(r) /\ ~CreateAccount(r)
    BY <2>1 DEF Routed, AcceptInvite, CreateAccount, At
  <2>4. ResetPassword(r) /\ requests[r].account = a
    BY <2>2, <2>3, WhoWrites
  <2>5. Usable(a, requests[r].ref)
    BY <2>4 DEF ResetPassword
  <2>6. Unused(a) # {} /\ requests[r].ref = Newest(a)
    BY <2>5 DEF Usable
  <2>7. requests[r].ref \in Unused(a)
    BY <2>6, NewestIsUnused
  <2>8. resets[requests[r].ref].state = "unused"
    BY <2>7 DEF Unused
  <2> QED
    BY <2>8 DEF AuthInv, SpentAreUsed
<1> QED
  BY <1>1, AuthInvHolds, PTL DEF Spec, SpentCodesStayDead

(* However changes, resets, invites, registrations and OAuth logins overlap, *)
(* a password is replaced only by a change that proved it, a reset with an   *)
(* unused code of the account, or an invite that was under way when it came. *)
THEOREM NobodyIsOverwritten == Spec => ReplacedOnGrounds
<1>1. AuthInv /\ [Next]_vars =>
        [\A a \in Accounts, r \in Requests :
            /\ accounts[a].password \notin {None, accounts'[a].password}
            /\ accounts'[a].password = r
            => \/ requests[r].route = "change" /\ requests[r].seen = accounts[a].password
               \/ /\ requests[r].route = "reset" /\ requests[r].ref \in Unused(a)
                  /\ resets'[requests[r].ref].state = "used"
               \/ requests[r].route = "accept" /\ r \in late]_vars
  <2> SUFFICES ASSUME AuthInv, Next, NEW a \in Accounts, NEW r \in Requests,
                      accounts[a].password \notin {None, accounts'[a].password},
                      accounts'[a].password = r
               PROVE  \/ requests[r].route = "change" /\ requests[r].seen = accounts[a].password
                      \/ /\ requests[r].route = "reset" /\ requests[r].ref \in Unused(a)
                         /\ resets'[requests[r].ref].state = "used"
                      \/ requests[r].route = "accept" /\ r \in late
    BY DEF vars
  <2>0. Routed(requests[r])
    BY DEF AuthInv, RequestsRouted
  <2>1. /\ ChangePassword(r) \/ ResetPassword(r) \/ AcceptInvite(r) \/ CreateAccount(r)
        /\ requests[r].account = a
    BY WhoWrites
  <2>2. CASE ChangePassword(r)
    BY <2>0, <2>1, <2>2 DEF ChangePassword, Routed, At
  <2>3. CASE ResetPassword(r)
    <3>1. /\ requests[r].route = "reset" /\ Usable(a, requests[r].ref)
          /\ requests[r].ref # None
      BY <2>0, <2>1, <2>3 DEF ResetPassword, Routed, At
    <3>2. requests[r].ref \in Unused(a)
      BY <3>1, NewestIsUnused DEF Usable
    <3>3. resets'[requests[r].ref].state = "used"
      BY <2>1, <2>3, <3>2 DEF ResetPassword, Retired, Unused, AuthInv, TypeOK, Code
    <3> QED
      BY <3>1, <3>2, <3>3
  <2>4. CASE AcceptInvite(r)
    BY <2>0, <2>1, <2>4 DEF AcceptInvite, Routed, At, AuthInv, SettersLate, Password
  <2>5. CASE CreateAccount(r)
    <3>1. accounts[a].state = "absent"
      BY <2>1, <2>5 DEF CreateAccount
    <3>2. accounts[a].password = None
      BY <3>1 DEF AuthInv, PasswordsMade, Password, Here
    <3> QED
      BY <3>2
  <2> QED
    BY <2>1, <2>2, <2>3, <2>4, <2>5
<1> QED
  BY <1>1, AuthInvHolds, PTL DEF Spec, ReplacedOnGrounds
=============================================================================
