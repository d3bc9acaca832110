----------------------------- MODULE AuthSessions -----------------------------
(***************************************************************************)
(* Passwords, sessions, reset codes and invites: the routes of server.js   *)
(* that log in, change, reset or set a password, with the SQL functions    *)
(* they call.  Every route reads, hashes or mails between its statements,  *)
(* so requests interleave there; each statement is one step.               *)
(*                                                                         *)
(* A request makes at most one password hash, one session, one reset code  *)
(* and one invite token, and gives them its name: hashes are salted, codes *)
(* and tokens random, so no two are equal.  Tables contributors,           *)
(* password_resets and invited_emails are external: their columns are      *)
(* those the routes use, email is taken as unique and id as never reused.  *)
(*                                                                         *)
(* An operator named X_Y is X with a plausible fault Y, used by no         *)
(* specification.                                                          *)
(***************************************************************************)
EXTENDS Integers, Sequences, FiniteSets

CONSTANTS
    Accounts,
    Requests,
    MaxTries,     \* 5, of a reset code
    None

ASSUME TriesArePositive == MaxTries \in Nat \ {0}
ASSUME NoneIsNobody == None \notin Requests \cup Accounts

VARIABLES
    accounts,    \* contributors
    sessions,    \* auth_sessions, by the request that opened it
    resets,      \* password_resets, by the request that asked for the code
    issued,      \* the order of created_at of the reset codes
    invites,     \* invited_emails
    requests,
    late,        \* history: requests under way when a password was replaced
    spent        \* history: codes that were there when a code was used

vars == <<accounts, sessions, resets, issued, invites, requests, late, spent>>

Account == [state : {"absent", "here", "deleted"}, banned : BOOLEAN,
            password : Requests \cup {None}]
Session == [state : {"none", "active", "gone"}, account : Accounts \cup {None},
            proof : Requests \cup {None}]
Code == [state : {"none", "unused", "used"}, account : Accounts \cup {None},
         expired : BOOLEAN, tries : 0..MaxTries]
Invite == [state : {"none", "open", "used"}, token : Requests \cup {None}]
Guarded == {"change", "logout", "delete"}
Route == Guarded \cup {"login", "oauth", "forgot", "reset", "invite", "accept",
                       "register"}
Request ==
    [pc : {"free", "admitted", "proved", "opening", "marked", "hashed", "writing", "found",
           "setting", "creating", "burning", "done"},
     route : Route \cup {None},
     account : Accounts \cup {None},
     seen : Requests \cup {None},   \* the password that was read and proved
     ref : Requests \cup {None}]    \* the code or the invite that was presented

TypeOK ==
    /\ accounts \in [Accounts -> Account]
    /\ sessions \in [Requests -> Session]
    /\ resets \in [Requests -> Code]
    /\ issued \in Seq(Requests)
    /\ invites \in [Accounts -> Invite]
    /\ requests \in [Requests -> Request]
    /\ late \subseteq Requests
    /\ spent \subseteq Requests

Init ==
    /\ accounts = [a \in Accounts |->
                      [state |-> "absent", banned |-> FALSE, password |-> None]]
    /\ sessions = [r \in Requests |->
                      [state |-> "none", account |-> None, proof |-> None]]
    /\ resets = [r \in Requests |-> [state |-> "none", account |-> None,
                                     expired |-> FALSE, tries |-> 0]]
    /\ issued = <<>>
    /\ invites = [a \in Accounts |-> [state |-> "none", token |-> None]]
    /\ requests = [r \in Requests |-> [pc |-> "free", route |-> None,
                      account |-> None, seen |-> None, ref |-> None]]
    /\ late = {} /\ spent = {}

-----------------------------------------------------------------------------
Here(a) == accounts[a].state = "here"
At(r, pc) == requests[r].pc = pc
Goes(r, pc) == requests' = [requests EXCEPT ![r].pc = pc]
Starts(r, route, a, pc, seen, ref) ==
    /\ At(r, "free")
    /\ requests' = [requests EXCEPT ![r] =
          [pc |-> pc, route |-> route, account |-> a, seen |-> seen, ref |-> ref]]

(* auth_session_is_active, of some session of the account.                   *)
SignedIn(a) ==
    /\ Here(a) /\ ~accounts[a].banned
    /\ \E s \in Requests : sessions[s].state = "active" /\ sessions[s].account = a

Closed(a) == [s \in Requests |->
                 IF sessions[s].account = a /\ sessions[s].state = "active"
                 THEN [sessions[s] EXCEPT !.state = "gone"] ELSE sessions[s]]

UnderWay(a) == {r \in Requests : /\ requests[r].account = a
                                 /\ requests[r].pc \notin {"free", "done"}}

(* requireContributor, which the routes in Guarded await first.              *)
Admit(r, a, route) ==
    /\ SignedIn(a)
    /\ Starts(r, route, a, "admitted", None, None)
    /\ UNCHANGED <<accounts, sessions, resets, issued, invites, late, spent>>
Admitted(r, route) == At(r, "admitted") /\ requests[r].route = route

(* The password becomes the hash that r made. *)
SetPassword(r, a) ==
    /\ accounts' = [accounts EXCEPT ![a].password = r]
    /\ late' = late \cup (UnderWay(a) \ {r})

-----------------------------------------------------------------------------
(* Logging in. *)

(* The row is read once; the password is compared with what was read.        *)
Login(r, a) ==
    /\ Here(a) /\ ~accounts[a].banned /\ accounts[a].password # None
    /\ Starts(r, "login", a, "opening", accounts[a].password, None)
    /\ UNCHANGED <<accounts, sessions, resets, issued, invites, late, spent>>

(* findOrCreateContributor, through the email the provider vouches for.      *)
OAuth(r, a) ==
    /\ accounts[a].state # "deleted"
    /\ accounts' = [accounts EXCEPT ![a].state = "here"]
    /\ Starts(r, "oauth", a, "opening", None, None)
    /\ UNCHANGED <<sessions, resets, issued, invites, late, spent>>

(* issueToken: auth_session_create, under the foreign key.                   *)
OpenSession_NoForeignKey(r) ==
    /\ At(r, "opening")
    /\ sessions' = [sessions EXCEPT ![r] =
          [state |-> "active", account |-> requests[r].account,
           proof |-> requests[r].seen]]
    /\ Goes(r, "done")
    /\ UNCHANGED <<accounts, resets, issued, invites, late, spent>>
OpenSession(r) ==
    /\ At(r, "opening") /\ Here(requests[r].account)
    /\ sessions' = [sessions EXCEPT ![r] =
          [state |-> "active", account |-> requests[r].account,
           proof |-> requests[r].seen]]
    /\ Goes(r, "done")
    /\ UNCHANGED <<accounts, resets, issued, invites, late, spent>>

(* /auth/logout and expiry; /auth/logout-all                                 *)
CloseSession(s) ==
    /\ sessions[s].state = "active"
    /\ sessions' = [sessions EXCEPT ![s].state = "gone"]
    /\ UNCHANGED <<accounts, resets, issued, invites, requests, late, spent>>

LogoutAll(r) ==
    /\ Admitted(r, "logout")
    /\ sessions' = Closed(requests[r].account)
    /\ Goes(r, "done")
    /\ UNCHANGED <<accounts, resets, issued, invites, late, spent>>

-----------------------------------------------------------------------------
(* /auth/change-password, admitted: read and compare; hash; compare-and-swap *)
(* and revoke; issueToken.                                                   *)

ProvePassword(r) ==
    LET a == requests[r].account IN
    /\ Admitted(r, "change") /\ Here(a) /\ accounts[a].password # None
    /\ requests' = [requests EXCEPT ![r].pc = "proved",
                                    ![r].seen = accounts[a].password]
    /\ UNCHANGED <<accounts, sessions, resets, issued, invites, late, spent>>

ChangePassword_NoCompare(r) ==
    LET a == requests[r].account IN
    /\ At(r, "proved") /\ Here(a)
    /\ SetPassword(r, a)
    /\ sessions' = Closed(a)
    /\ requests' = [requests EXCEPT ![r].pc = "opening", ![r].seen = r]
    /\ UNCHANGED <<resets, issued, invites, spent>>
ChangePassword_SessionsStay(r) ==
    LET a == requests[r].account IN
    /\ At(r, "proved") /\ Here(a) /\ accounts[a].password = requests[r].seen
    /\ SetPassword(r, a)
    /\ requests' = [requests EXCEPT ![r].pc = "opening", ![r].seen = r]
    /\ UNCHANGED <<sessions, resets, issued, invites, spent>>
ChangePassword(r) ==
    LET a == requests[r].account IN
    /\ At(r, "proved") /\ Here(a) /\ accounts[a].password = requests[r].seen
    /\ SetPassword(r, a)
    /\ sessions' = Closed(a)
    /\ requests' = [requests EXCEPT ![r].pc = "opening", ![r].seen = r]
    /\ UNCHANGED <<resets, issued, invites, spent>>

-----------------------------------------------------------------------------
(* /auth/forgot-password: one mutation that retires the codes it sees and    *)
(* inserts the new one; two of them that overlap do not see each other's.    *)

MarkCodes(r, a) ==
    /\ Here(a)
    /\ Starts(r, "forgot", a, "marked", None, None)
    /\ resets' = [k \in Requests |->
                     IF resets[k].account = a /\ resets[k].state = "unused"
                     THEN [resets[k] EXCEPT !.state = "used"] ELSE resets[k]]
    /\ issued' = Append(issued, r)
    /\ UNCHANGED <<accounts, sessions, invites, late, spent>>

InsertCode(r) ==
    /\ At(r, "marked") /\ Here(requests[r].account)
    /\ resets' = [resets EXCEPT ![r].state = "unused",
                                ![r].account = requests[r].account]
    /\ Goes(r, "done")
    /\ UNCHANGED <<accounts, sessions, issued, invites, late, spent>>

ExpireCode(k) ==
    /\ resets[k].state = "unused" /\ ~resets[k].expired
    /\ resets' = [resets EXCEPT ![k].expired = TRUE]
    /\ UNCHANGED <<accounts, sessions, issued, invites, requests, late, spent>>

(* /auth/reset-password: the account is looked up and the password hashed;   *)
(* then secure_password_reset.  A code that is nobody's is None.             *)
PresentCode(r, a, k) ==
    /\ Here(a)
    /\ k # None => resets[k].state # "none"
    /\ Starts(r, "reset", a, "hashed", None, k)
    /\ UNCHANGED <<accounts, sessions, resets, issued, invites, late, spent>>

Position(k) == CHOOSE n \in 1..Len(issued) : issued[n] = k
Unused(a) == {k \in Requests : resets[k].account = a /\ resets[k].state = "unused"}
Newest(a) == CHOOSE k \in Unused(a) : \A j \in Unused(a) : Position(j) <= Position(k)

Tries(k) == resets[k].tries < MaxTries

Usable(a, k) ==
    /\ Unused(a) # {} /\ k = Newest(a)
    /\ ~resets[k].expired /\ Tries(k)

Retired_OnlyIt(a, k) == {k}
Retired(a, k) == Unused(a)

ResetPassword(r) ==
    LET a == requests[r].account
        k == requests[r].ref
    IN  /\ At(r, "hashed")
        /\ k # None /\ Usable(a, k)
        /\ resets' = [j \in Requests |->
                         LET tried == IF j = k THEN 1 ELSE 0
                         IN  [resets[j] EXCEPT
                                 !.tries = resets[j].tries + tried,
                                 !.state = IF j \in Retired(a, k) THEN "used"
                                           ELSE resets[j].state]]
        /\ SetPassword(r, a)
        /\ spent' = spent \cup Unused(a)
        /\ sessions' = Closed(a)
        /\ Goes(r, "done")
        /\ UNCHANGED <<issued, invites>>

(* Another code than the newest costs that one a try.                        *)
WrongCode(r) ==
    LET a == requests[r].account IN
    /\ At(r, "hashed")
    /\ Unused(a) # {} /\ requests[r].ref # Newest(a)
    /\ Usable(a, Newest(a))
    /\ resets' = [resets EXCEPT ![Newest(a)].tries = @ + 1]
    /\ Goes(r, "done")
    /\ UNCHANGED <<accounts, sessions, issued, invites, late, spent>>

-----------------------------------------------------------------------------
(* /auth/invite: the coordinator is refused for an account with a password.  *)

StartInvite(r, a) ==
    /\ accounts[a].password = None
    /\ Starts(r, "invite", a, "writing", None, None)
    /\ UNCHANGED <<accounts, sessions, resets, issued, invites, late, spent>>

WriteInvite(r) ==
    /\ At(r, "writing")
    /\ invites' = [invites EXCEPT ![requests[r].account] =
                      [state |-> "open", token |-> r]]
    /\ Goes(r, "done")
    /\ UNCHANGED <<accounts, sessions, resets, issued, late, spent>>

(* /auth/accept-invite: the invite is read; the password hashed; the account *)
(* read; the password written or the account created; the invite burnt.      *)
ReadInvite(r, a) ==
    /\ invites[a].state = "open"
    /\ Starts(r, "accept", a, "found", None, invites[a].token)
    /\ UNCHANGED <<accounts, sessions, resets, issued, invites, late, spent>>

ReadAccount(r) ==
    LET a == requests[r].account IN
    /\ At(r, "found") /\ requests[r].route = "accept"
    /\ accounts[a].password = None
    /\ Goes(r, IF Here(a) THEN "setting" ELSE "creating")
    /\ UNCHANGED <<accounts, sessions, resets, issued, invites, late, spent>>

AcceptInvite(r) ==
    LET a == requests[r].account IN
    /\ At(r, "setting") /\ Here(a)
    /\ SetPassword(r, a)
    /\ requests' = [requests EXCEPT ![r].pc = "burning", ![r].seen = r]
    /\ UNCHANGED <<sessions, resets, issued, invites, spent>>

(* /auth/register, for an invited email without an account.                  *)
ReadForRegister(r, a) ==
    /\ invites[a].state = "open" /\ accounts[a].state = "absent"
    /\ Starts(r, "register", a, "creating", None, invites[a].token)
    /\ UNCHANGED <<accounts, sessions, resets, issued, invites, late, spent>>

CreateAccount_Upserts(r) ==
    LET a == requests[r].account IN
    /\ At(r, "creating") /\ accounts[a].state # "deleted"
    /\ accounts' = [accounts EXCEPT ![a].state = "here", ![a].password = r]
    /\ requests' = [requests EXCEPT ![r].pc = "burning", ![r].seen = r]
    /\ UNCHANGED <<sessions, resets, issued, invites, late, spent>>
CreateAccount(r) ==
    LET a == requests[r].account IN
    /\ At(r, "creating") /\ accounts[a].state = "absent"
    /\ accounts' = [accounts EXCEPT ![a].state = "here", ![a].password = r]
    /\ requests' = [requests EXCEPT ![r].pc = "burning", ![r].seen = r]
    /\ UNCHANGED <<sessions, resets, issued, invites, late, spent>>

(* Accepting burns its token, registering whatever the email has now.        *)
BurnInvite(r) ==
    LET a == requests[r].account IN
    /\ At(r, "burning")
    /\ invites' = IF \/ requests[r].route = "register" /\ invites[a].state = "open"
                     \/ requests[r].route = "accept" /\ invites[a].token = requests[r].ref
                  THEN [invites EXCEPT ![a].state = "used"] ELSE invites
    /\ Goes(r, "opening")
    /\ UNCHANGED <<accounts, sessions, resets, issued, late, spent>>

-----------------------------------------------------------------------------
(* A request that is refused, fails, or dies with the process.  What it has  *)
(* committed stays; of the one mutation of forgot-password nothing does, so  *)
(* there it may not be between its halves.                                   *)
GiveUp(r) ==
    /\ requests[r].pc \notin {"free", "marked", "done"}
    /\ Goes(r, "done")
    /\ UNCHANGED <<accounts, sessions, resets, issued, invites, late, spent>>

ForgetCode(r) ==
    /\ At(r, "marked") /\ ~Here(requests[r].account)
    /\ Goes(r, "done")
    /\ UNCHANGED <<accounts, sessions, resets, issued, invites, late, spent>>

(* delete_account_complete and its cascades, the invite by its email.        *)
DeleteAccount(r) ==
    LET a == requests[r].account IN
    /\ Admitted(r, "delete") /\ Here(a)
    /\ accounts' = [accounts EXCEPT ![a].state = "deleted", ![a].password = None]
    /\ sessions' = Closed(a)
    /\ resets' = [k \in Requests |-> IF resets[k].account = a
                                     THEN [resets[k] EXCEPT !.state = "used"]
                                     ELSE resets[k]]
    /\ invites' = [invites EXCEPT ![a] = [state |-> "none", token |-> None]]
    /\ Goes(r, "done")
    /\ UNCHANGED <<issued, late, spent>>

Ban(a) ==
    /\ Here(a)
    /\ accounts' = [accounts EXCEPT ![a].banned = ~accounts[a].banned]
    /\ UNCHANGED <<sessions, resets, issued, invites, requests, late, spent>>

Step(r) ==
    \/ \E a \in Accounts :
          \/ Login(r, a) \/ OAuth(r, a) \/ MarkCodes(r, a)
          \/ StartInvite(r, a) \/ ReadInvite(r, a) \/ ReadForRegister(r, a)
          \/ \E k \in Requests \cup {None} : PresentCode(r, a, k)
          \/ \E route \in Guarded : Admit(r, a, route)
    \/ OpenSession(r) \/ ProvePassword(r) \/ ChangePassword(r)
    \/ LogoutAll(r) \/ DeleteAccount(r)
    \/ InsertCode(r) \/ ForgetCode(r) \/ ResetPassword(r) \/ WrongCode(r)
    \/ WriteInvite(r) \/ ReadAccount(r) \/ AcceptInvite(r) \/ CreateAccount(r)
    \/ BurnInvite(r)
    \/ GiveUp(r)

Next ==
    \/ \E r \in Requests : Step(r) \/ CloseSession(r) \/ ExpireCode(r)
    \/ \E a \in Accounts : Ban(a)

Spec == Init /\ [][Next]_vars

-----------------------------------------------------------------------------
(* Properties. *)

(* A session whose password has been replaced is still open only if it was   *)
(* being opened at that moment, or an invite replaced the password           *)
(* (InviteNeverOverwrites): whoever changes or resets a password shuts out   *)
(* all who were in.                                                          *)
SurvivorsWereUnderWay ==
    \A s \in Requests :
        LET now == accounts[sessions[s].account].password IN
        sessions[s].state = "active" /\ sessions[s].proof \notin {None, now}
        => s \in late \/ requests[now].route = "accept"

(* Whichever route replaces a password, it has its ground for it: a change   *)
(* proved that very password, a reset uses up a code of the account that     *)
(* nobody has used, and nothing else replaces one - no registration or OAuth *)
(* login that overlaps with the creation of the account - but an invite whose*)
(* acceptance was under way when the password came (InviteNeverOverwrites).  *)
ReplacedOnGrounds ==
    [][\A a \in Accounts, r \in Requests :
          /\ accounts[a].password \notin {None, accounts'[a].password}
          /\ accounts'[a].password = r
          => \/ requests[r].route = "change" /\ requests[r].seen = accounts[a].password
             \/ /\ requests[r].route = "reset" /\ requests[r].ref \in Unused(a)
                /\ resets'[requests[r].ref].state = "used"
             \/ requests[r].route = "accept" /\ r \in late]_vars

(* A code that was there when a code was used never sets a password, nor     *)
(* does one code twice.                                                      *)
SpentCodesStayDead ==
    [][\A a \in Accounts, r \in Requests :
          /\ accounts[a].password # accounts'[a].password
          /\ accounts'[a].password = r
          /\ requests[r].route = "reset"
          => requests[r].ref \notin spent]_vars

(* Nothing can be done any more in the name of an account that is gone.      *)
NoGhosts ==
    \A r \in Requests :
        /\ sessions[r].state = "active" => Here(sessions[r].account)
        /\ resets[r].state = "unused" => Here(resets[r].account)

(* "Гасимо інвайт (одноразовий)" and the 409 for an account that has a       *)
(* password (src/Server/server.js:1398, 1419): an invite gives an account    *)
(* its first password and never replaces one.                                *)
InviteNeverOverwrites ==
    [][\A a \in Accounts, r \in Requests :
          /\ accounts[a].password # accounts'[a].password
          /\ accounts'[a].password = r
          /\ requests[r].route = "accept"
          => accounts[a].password = None]_vars

=============================================================================
