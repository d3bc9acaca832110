---------------------- MODULE BiometricExchangeProofs ----------------------
(***************************************************************************)
(* That a request is worked on once, and that answers are a call's own,    *)
(* for any number of calls and workers and any times that TimesAssumption  *)
(* allows.                                                                 *)
(***************************************************************************)
EXTENDS BiometricExchange, TLAPS

USE TimesAssumption, BodiesAssumption

\* The timestamp of a call, in ticks, and when everybody refuses it.
Stamp(r) == 2 * calls[r].timestamp
Sent(r) == calls[r].state # "new"
TooLate(r) == now + Skew > Stamp(r) + 2 * Ttl

\* Requests are stamped before anybody can work on them.
StampedBefore ==
    \A r \in Requests :
        /\ Sent(r) => Stamp(r) <= now + Skew
        /\ worked[r] > 0 => Sent(r)

\* A worker between the check of the timestamp and the nonce is in time, and
\* what it removes is forgotten too late to matter.
InTime(work) ==
    LET r == work.request IN
    /\ Sent(r)
    /\ work.stage # "working" =>
          /\ Stamp(r) <= work.since + Skew
          /\ work.since <= Stamp(r) + 2 * Window + 1
          /\ work.since <= work.current
          /\ work.current <= now
          /\ now <= work.since + Delay
    /\ work.stage = "working" => worked[r] > 0
    /\ \A old \in work.old : worked[old] > 0 /\ TooLate(old)

Punctual == \A w \in Workers : workers[w] # None => InTime(workers[w])

\* A nonce is on file from the work on its request until that is too late.
OnFile ==
    \A r \in Requests :
        /\ cache[r] # None => worked[r] > 0 /\ Stamp(r) <= cache[r] + Skew
        /\ worked[r] > 0 /\ cache[r] = None => TooLate(r)

\* Answers come from workers, results from evidence that is coherent.
FromWorkers ==
    \A r \in Requests :
        answers[r] # None =>
            /\ worked[r] > 0
            /\ answers[r].good => Coherent(calls[r].evidence)

IInv == TypeOK /\ StampedBefore /\ Punctual /\ OnFile /\ WorkedOnOnce /\ FromWorkers
                /\ AnswersAreOwn

LEMMA SecondsOf == ASSUME NEW t \in Nat
                   PROVE Seconds(t) \in Nat /\ 2 * Seconds(t) <= t /\ t <= 2 * Seconds(t) + 1
BY DEF Seconds

LEMMA InitIInv == Init => IInv
<1> SUFFICES ASSUME Init PROVE IInv
  OBVIOUS
<1>1. TypeOK
  BY DEF Init, TypeOK, NewCall, Calls
<1>2. StampedBefore /\ Punctual /\ OnFile /\ WorkedOnOnce /\ FromWorkers /\ AnswersAreOwn
  BY DEF Init, NewCall, StampedBefore, Punctual, OnFile, WorkedOnOnce, FromWorkers,
         AnswersAreOwn, Sent
<1> QED BY <1>1, <1>2 DEF IInv

-----------------------------------------------------------------------------
(* Each step keeps the types. *)

LEMMA TypeStep ==
    ASSUME TypeOK, StampedBefore, FromWorkers, [Next]_vars PROVE TypeOK'
<1> USE DEF TypeOK
<1>1. ASSUME NEW r \in Requests, Send(r) PROVE TypeOK'
  <2>1. now + ahead \in Nat
    OBVIOUS
  <2>2. Seconds(now + ahead) \in Nat
    BY <2>1, SecondsOf
  <2> QED BY <1>1, <2>2 DEF Send, Calls, SentCalls
<1>2. ASSUME NEW r \in Requests, NEW a \in Requests, Receive(r, a) PROVE TypeOK'
  <2>1. calls[a].state # "new"
    BY <1>2 DEF Receive, FromWorkers, StampedBefore, Sent
  <2>2. calls[a].evidence \in Bodies
    BY <2>1 DEF Calls, SentCalls, NewCall
  <2>3. ResultOf(a) \in Results
    BY <2>2 DEF ResultOf, Results
  <2>4. calls[r] \in SentCalls
    BY <1>2 DEF Receive, Calls, NewCall
  <2>5. [calls[r] EXCEPT !.state = "answered", !.result = ResultOf(a)] \in SentCalls
    BY <2>3, <2>4 DEF SentCalls
  <2>6. [calls[r] EXCEPT !.state = "failed"] \in SentCalls
    BY <2>4 DEF SentCalls
  <2> QED BY <1>2, <2>5, <2>6 DEF Receive, Calls
<1>3. ASSUME NEW r \in Requests, GiveUp(r) PROVE TypeOK'
  BY <1>3 DEF GiveUp, Calls, SentCalls, NewCall
<1>4. ASSUME NEW w \in Workers, NEW r \in Requests, Authenticate(w, r) PROVE TypeOK'
  BY <1>4 DEF Authenticate, AtWork
<1>5. ASSUME NEW w \in Workers, Scan(w) PROVE TypeOK'
  <2>1. PICK old \in SUBSET Requests :
           workers' = [workers EXCEPT ![w] =
              [workers[w] EXCEPT !.stage = "cleaning", !.current = now, !.old = old]]
    BY <1>5 DEF Scan, Entries
  <2>2. workers[w] \in AtWork
    BY <1>5 DEF Scan, At
  <2>3. [workers[w] EXCEPT !.stage = "cleaning", !.current = now, !.old = old] \in AtWork
    BY <2>2 DEF AtWork
  <2> QED BY <1>5, <2>1, <2>3 DEF Scan
<1>6. ASSUME NEW w \in Workers, NEW r \in Requests, Unlink(w, r) PROVE TypeOK'
  BY <1>6 DEF Unlink, At, AtWork
<1>7. ASSUME NEW w \in Workers, KeepNonce(w) PROVE TypeOK'
  BY <1>7 DEF KeepNonce, At, AtWork, OnceMore
<1>8. ASSUME NEW w \in Workers, AnswerCall(w) PROVE TypeOK'
  <2>1. workers[w].request \in Requests /\ Seconds(now) \in Nat
    BY <1>8, SecondsOf DEF AnswerCall, At, AtWork
  <2> QED BY <1>8, <2>1 DEF AnswerCall
<1>9. ASSUME NEW w \in Workers, Leave(w) PROVE TypeOK'
  BY <1>9 DEF Leave
<1>10. CASE Tick
  BY <1>10 DEF Tick
<1>11. CASE UNCHANGED vars
  BY <1>11 DEF vars
<1> QED BY <1>1, <1>2, <1>3, <1>4, <1>5, <1>6, <1>7, <1>8, <1>9, <1>10, <1>11 DEF Next
-----------------------------------------------------------------------------
(* Time.  A step leaves alone what the parts of IInv say, or changes it as  *)
(* the parts allow.                                                          *)

\* Nobody works on a request whose nonce has been forgotten: until then it
\* was refused for its timestamp.
LEMMA FirstWork ==
    ASSUME IInv, NEW w \in Workers, KeepNonce(w) PROVE worked[workers[w].request] = 0
<1> DEFINE r == workers[w].request
<1>1. r \in Requests /\ workers[w].since \in Nat /\ workers[w].current \in Nat
  BY DEF KeepNonce, At, IInv, TypeOK, AtWork
<1>2. cache[r] = None
  BY DEF KeepNonce, Create
<1>3. /\ workers[w].since <= Stamp(r) + 2 * Window + 1
      /\ now <= workers[w].since + Delay
  BY DEF KeepNonce, At, IInv, Punctual, InTime
<1>4. calls[r].timestamp \in Nat /\ now \in Nat /\ worked[r] \in Nat
  BY <1>1 DEF IInv, TypeOK, Calls, SentCalls, NewCall
<1>5. ~TooLate(r)
  BY <1>1, <1>3, <1>4 DEF TooLate, Stamp
<1> QED BY <1>1, <1>2, <1>4, <1>5 DEF IInv, OnFile

LEMMA OnceStep == ASSUME IInv, [Next]_vars PROVE WorkedOnOnce'
<1>1. ASSUME NEW w \in Workers, KeepNonce(w) PROVE WorkedOnOnce'
  <2> DEFINE r == workers[w].request
  <2>1. OnceMore(worked[r]) = 1
    BY <1>1, FirstWork DEF OnceMore
  <2>4. worked' = [worked EXCEPT ![r] = 1]
    BY <1>1, <2>1 DEF KeepNonce
  <2>2. worked \in [Requests -> 0..2] /\ \A q \in Requests : worked[q] <= 1
    BY DEF IInv, TypeOK, WorkedOnOnce
  <2>3. \A q \in Requests : worked'[q] = worked[q] \/ worked'[q] = 1
    BY <2>4, <2>2
  <2> QED BY <2>2, <2>3 DEF WorkedOnOnce
<1>2. UNCHANGED worked \/ \E w \in Workers : KeepNonce(w)
  BY DEF Next, vars, Send, GiveUp, Receive, Scan, AnswerCall, Leave, Authenticate, Unlink, Tick
<1> QED BY <1>1, <1>2 DEF IInv, WorkedOnOnce

\* What a step of the auth server does to a call.
LEMMA SendEffect ==
    ASSUME TypeOK, NEW r \in Requests, Send(r)
    PROVE  /\ \A q \in Requests \ {r} : calls'[q] = calls[q]
           /\ calls'[r].state = "waiting"
           /\ calls'[r].timestamp = Seconds(now + ahead)
           /\ calls[r].state = "new"
BY DEF Send, TypeOK

LEMMA EndEffect ==
    ASSUME TypeOK, NEW r \in Requests, GiveUp(r) \/ \E a \in Requests : Receive(r, a)
    PROVE  /\ \A q \in Requests \ {r} : calls'[q] = calls[q]
           /\ calls[r].state = "waiting" /\ calls'[r].state # "new"
           /\ calls'[r].timestamp = calls[r].timestamp
           /\ calls'[r].evidence = calls[r].evidence
<1>1. calls \in [Requests -> Calls] /\ calls[r] \in SentCalls /\ calls[r].state = "waiting"
  <2>1. calls[r].state = "waiting"
    BY DEF GiveUp, Receive
  <2> QED BY <2>1 DEF TypeOK, Calls, NewCall
<1>2. CASE GiveUp(r)
  <2>1. calls' = [calls EXCEPT ![r] = [calls[r] EXCEPT !.state = "failed"]]
    BY <1>1, <1>2 DEF GiveUp
  <2> QED BY <1>1, <2>1 DEF SentCalls
<1>3. ASSUME NEW a \in Requests, Receive(r, a)
      PROVE  /\ \A q \in Requests \ {r} : calls'[q] = calls[q]
             /\ calls'[r].state # "new"
             /\ calls'[r].timestamp = calls[r].timestamp
             /\ calls'[r].evidence = calls[r].evidence
  <2>1. CASE Usable(a, r)
    <3>1. calls' = [calls EXCEPT ![r] =
                      [calls[r] EXCEPT !.state = "answered", !.result = ResultOf(a)]]
      BY <1>3, <2>1 DEF Receive
    <3> QED BY <1>1, <3>1 DEF SentCalls
  <2>2. CASE ~Usable(a, r)
    <3>1. calls' = [calls EXCEPT ![r] = [calls[r] EXCEPT !.state = "failed"]]
      BY <1>3, <2>2 DEF Receive
    <3> QED BY <1>1, <3>1 DEF SentCalls
  <2> QED BY <2>1, <2>2
<1> QED BY <1>1, <1>2, <1>3

LEMMA StampedStep == ASSUME IInv, [Next]_vars PROVE StampedBefore'
<1>1. /\ now \in Nat /\ ahead \in 0..Skew
      /\ calls \in [Requests -> Calls] /\ worked \in [Requests -> 0..2]
      /\ StampedBefore /\ TypeOK
  BY DEF IInv, TypeOK
<1>2. ASSUME NEW r \in Requests, Send(r) PROVE StampedBefore'
  <2>1. Seconds(now + ahead) \in Nat /\ 2 * Seconds(now + ahead) <= now + Skew
    <3>1. now + ahead \in Nat /\ ahead <= Skew
      BY <1>1
    <3>2. Seconds(now + ahead) \in Nat /\ 2 * Seconds(now + ahead) <= now + ahead
      BY <3>1, SecondsOf
    <3> QED BY <1>1, <3>1, <3>2
  <2>2. now' = now /\ worked' = worked
    BY <1>2 DEF Send
  <2> QED BY <1>1, <1>2, <2>1, <2>2, SendEffect DEF StampedBefore, Sent, Stamp
<1>3. ASSUME NEW r \in Requests, GiveUp(r) \/ \E a \in Requests : Receive(r, a)
      PROVE  StampedBefore'
  <2>1. now' = now /\ worked' = worked
    BY <1>3 DEF GiveUp, Receive
  <2> QED BY <1>1, <1>3, <2>1, EndEffect DEF StampedBefore, Stamp, Sent
<1>4. ASSUME NEW w \in Workers, KeepNonce(w) PROVE StampedBefore'
  <2>1. Sent(workers[w].request)
    BY <1>4 DEF KeepNonce, At, IInv, Punctual, InTime
  <2>2. now' = now /\ calls' = calls
    BY <1>4 DEF KeepNonce
  <2>3. \A q \in Requests \ {workers[w].request} : worked'[q] = worked[q]
    BY <1>1, <1>4 DEF KeepNonce
  <2> QED BY <1>1, <2>1, <2>2, <2>3 DEF StampedBefore, Sent, Stamp
<1>5. ASSUME Tick PROVE StampedBefore'
  <2>1. \A r \in Requests : calls[r].timestamp \in Nat
    BY <1>1 DEF Calls, SentCalls, NewCall
  <2> QED BY <1>1, <1>5, <2>1 DEF Tick, StampedBefore, Sent, Stamp
<1>6. ASSUME UNCHANGED <<now, calls, worked>> PROVE StampedBefore'
  BY <1>1, <1>6 DEF StampedBefore, Sent, Stamp
<1> QED BY <1>2, <1>3, <1>4, <1>5, <1>6
        DEF Next, vars, Scan, AnswerCall, Leave, Authenticate, Unlink

-----------------------------------------------------------------------------
\* The parts about workers and their files, which a step disturbs only where
\* it says so.

LEMMA TypesOf ==
    ASSUME IInv
    PROVE  /\ now \in Nat /\ ahead \in 0..Skew
           /\ calls \in [Requests -> Calls]
           /\ \A r \in Requests : calls[r].timestamp \in Nat /\ Stamp(r) \in Nat
           /\ cache \in [Requests -> Nat \cup {None}]
           /\ worked \in [Requests -> 0..2]
           /\ workers \in [Workers -> AtWork \cup {None}]
           /\ answers \in [Requests -> [timestamp : Nat, good : BOOLEAN] \cup {None}]
<1>1. \A r \in Requests : calls[r].timestamp \in Nat
  BY DEF IInv, TypeOK, Calls, SentCalls, NewCall
<1> QED BY <1>1 DEF IInv, TypeOK, Stamp

\* Stamps of what was sent are final, what was worked on and what is too late
\* remain so.
LEMMA Lasting ==
    ASSUME IInv, [Next]_vars
    PROVE  \A r \in Requests :
              /\ Sent(r) => Sent(r)' /\ Stamp(r)' = Stamp(r)
                             /\ calls'[r].evidence = calls[r].evidence
              /\ worked[r] > 0 => worked'[r] > 0
              /\ Sent(r) /\ TooLate(r) => TooLate(r)'
<1> DEFINE Kept == \A r \in Requests : Sent(r) => Sent(r)' /\ Stamp(r)' = Stamp(r)
                                                 /\ calls'[r].evidence = calls[r].evidence
<1>1. Kept
  <2>1. ASSUME NEW q \in Requests, Send(q) PROVE Kept
    BY <2>1, SendEffect DEF Sent, Stamp, IInv
  <2>2. ASSUME NEW q \in Requests, GiveUp(q) \/ \E a \in Requests : Receive(q, a)
        PROVE  Kept
    BY <2>2, EndEffect DEF Sent, Stamp, IInv
  <2>3. ASSUME UNCHANGED calls PROVE Kept
    BY <2>3 DEF Sent, Stamp
  <2> QED BY <2>1, <2>2, <2>3
          DEF Next, vars, Scan, KeepNonce, AnswerCall, Leave, Authenticate, Unlink, Tick
<1>2. \A r \in Requests : worked[r] > 0 => worked'[r] > 0
  <2>1. ASSUME NEW w \in Workers, KeepNonce(w)
        PROVE  \A r \in Requests : worked'[r] = worked[r] \/ worked'[r] = 1
    <3>1. OnceMore(worked[workers[w].request]) = 1
      BY <2>1, FirstWork DEF OnceMore
    <3> QED BY <2>1, <3>1, TypesOf DEF KeepNonce
  <2>2. UNCHANGED worked \/ \E w \in Workers : KeepNonce(w)
    BY DEF Next, vars, Send, GiveUp, Receive, Scan, AnswerCall, Leave, Authenticate, Unlink,
           Tick
  <2> QED BY <2>1, <2>2
<1>3. now' = now \/ now' = now + 1
  BY DEF Next, vars, Send, GiveUp, Receive, Scan, AnswerCall, Leave, Authenticate, Unlink,
         Tick, KeepNonce
<1> QED BY <1>1, <1>2, <1>3, TypesOf DEF TooLate

\* Work goes on in time while the clock stands.
LEMMA StillInTime ==
    ASSUME IInv, [Next]_vars, now' = now, NEW work \in AtWork, InTime(work)
    PROVE  InTime(work)'
<1>1. work.request \in Requests /\ work.old \subseteq Requests
  BY DEF AtWork
<1>2. Sent(work.request)' /\ Stamp(work.request)' = Stamp(work.request)
  BY <1>1, Lasting DEF InTime
<1>3. worked[work.request] > 0 => worked'[work.request] > 0
  BY <1>1, Lasting
<1>4. \A old \in work.old : worked'[old] > 0 /\ TooLate(old)'
  BY <1>1, Lasting DEF InTime, IInv, StampedBefore
<1> QED BY <1>1, <1>2, <1>3, <1>4 DEF InTime

LEMMA PunctualStep == ASSUME IInv, [Next]_vars PROVE Punctual'
<1>1. workers \in [Workers -> AtWork \cup {None}] /\ Punctual /\ IInv
  BY DEF IInv, TypeOK
<1>2. workers' \in [Workers -> AtWork \cup {None}]
  BY TypeStep DEF IInv, TypeOK
<1> SUFFICES ASSUME NEW w \in Workers, workers'[w] # None
             PROVE  InTime(workers[w])'
  BY DEF Punctual
<1>3. CASE now' = now /\ workers'[w] = workers[w]
  <2>1. PICK work \in AtWork : work = workers[w] /\ InTime(work)
    BY <1>1, <1>3, <1>2 DEF Punctual
  <2> QED BY <1>3, <2>1, StillInTime
<1>4. ASSUME NEW r \in Requests, Authenticate(w, r) PROVE InTime(workers[w])'
  <2>1. workers'[w] = [stage |-> "checked", request |-> r, since |-> now,
                       current |-> now, old |-> {}]
    BY <1>1, <1>4 DEF Authenticate
  <2>2. Sent(r)' /\ Stamp(r)' = Stamp(r) /\ now' = now
    BY <1>4 DEF Authenticate, Sent, Stamp
  <2>3. Stamp(r) <= now + Skew
    BY <1>4 DEF Authenticate, IInv, StampedBefore, Sent
  <2>4. now <= Stamp(r) + 2 * Window + 1
    <3>1. Seconds(now) <= calls[r].timestamp + Window /\ now <= 2 * Seconds(now) + 1
          /\ Seconds(now) \in Nat
      BY <1>4, TypesOf, SecondsOf DEF Authenticate, Within
    <3> QED BY <3>1, TypesOf DEF Stamp
  <2> QED BY <2>1, <2>2, <2>3, <2>4, TypesOf DEF InTime
<1>5. ASSUME Scan(w) PROVE InTime(workers[w])'
  <2> DEFINE old == {r \in Entries : Expired(r, now)}
             work == [workers[w] EXCEPT !.stage = "cleaning", !.current = now, !.old = old]
  <2>1. workers'[w] = work /\ now' = now /\ calls' = calls /\ worked' = worked
    BY <1>1, <1>5 DEF Scan
  <2>2. workers[w] \in AtWork /\ workers[w].stage = "checked" /\ InTime(workers[w])
    BY <1>1, <1>5 DEF Scan, At, Punctual
  <2>3. /\ work.request = workers[w].request /\ work.since = workers[w].since
        /\ work.stage = "cleaning" /\ work.current = now /\ work.old = old
    BY <2>2 DEF AtWork
  <2>4. \A r \in old : worked[r] > 0 /\ TooLate(r)
    <3> TAKE r \in old
    <3>1. r \in Requests /\ cache[r] \in Nat /\ cache[r] + 2 * Ttl < now
      BY TypesOf DEF Entries, Expired
    <3>2. worked[r] > 0 /\ Stamp(r) <= cache[r] + Skew
      BY <3>1 DEF IInv, OnFile
    <3> QED BY <3>1, <3>2, TypesOf DEF TooLate
  <2> HIDE DEF old, work
  <2>5. /\ Sent(work.request) /\ Stamp(work.request) <= work.since + Skew
        /\ work.since <= Stamp(work.request) + 2 * Window + 1
        /\ work.since <= now /\ now <= work.since + Delay
    BY <2>2, <2>3, TypesOf DEF InTime, AtWork
  <2>6. InTime(work)
    BY <2>3, <2>4, <2>5, TypesOf DEF InTime
  <2> QED BY <2>1, <2>6 DEF InTime, Sent, Stamp, TooLate
<1>6. ASSUME NEW r \in Requests, Unlink(w, r) PROVE InTime(workers[w])'
  <2>1. workers[w] \in AtWork /\ InTime(workers[w])
    BY <1>1, <1>6 DEF Unlink, At, Punctual
  <2>2. /\ workers'[w] = [workers[w] EXCEPT !.old = workers[w].old \ {r}]
        /\ now' = now /\ calls' = calls /\ worked' = worked
    BY <1>1, <1>6 DEF Unlink
  <2>3. /\ workers'[w].request = workers[w].request /\ workers'[w].since = workers[w].since
        /\ workers'[w].stage = workers[w].stage /\ workers'[w].current = workers[w].current
        /\ workers'[w].old \subseteq workers[w].old
    BY <2>1, <2>2 DEF AtWork
  <2> QED BY <2>1, <2>2, <2>3 DEF InTime, Sent, Stamp, TooLate
<1>7. ASSUME KeepNonce(w) PROVE InTime(workers[w])'
  <2>1. workers[w] \in AtWork /\ Sent(workers[w].request)
    BY <1>1, <1>7 DEF KeepNonce, At, Punctual, InTime
  <2>2. workers'[w] = [stage |-> "working", request |-> workers[w].request,
                       since |-> 0, current |-> 0, old |-> {}]
    BY <1>1, <1>7 DEF KeepNonce
  <2>3. Sent(workers[w].request)'
    BY <1>7, <2>1, <2>2 DEF KeepNonce, Sent
  <2>4. worked'[workers[w].request] = 1
    <3>1. OnceMore(worked[workers[w].request]) = 1
      BY <1>7, FirstWork DEF OnceMore
    <3>2. workers[w].request \in Requests
      BY <2>1 DEF AtWork
    <3> QED BY <1>7, <3>1, <3>2, TypesOf DEF KeepNonce
  <2> QED BY <2>2, <2>3, <2>4 DEF InTime
<1>8. ASSUME Tick PROVE InTime(workers[w])'
  <2>1. /\ workers[w] \in AtWork /\ InTime(workers[w]) /\ workers' = workers
        /\ now' = now + 1 /\ calls' = calls /\ worked' = worked
    BY <1>1, <1>8 DEF Tick, Punctual
  <2>2. workers[w].stage # "working" => now - workers[w].since < Delay
    BY <1>8, <2>1 DEF Tick, At, AtWork
  <2>3. \A r \in workers[w].old : TooLate(r) => TooLate(r)'
    BY <2>1, TypesOf DEF TooLate, Stamp, AtWork
  <2>4. workers[w].stage # "working" => now + 1 <= workers[w].since + Delay
    BY <2>1, <2>2, TypesOf DEF AtWork
  <2> QED BY <2>1, <2>3, <2>4, TypesOf DEF InTime, AtWork, Sent, Stamp
<1>9. \/ Tick
      \/ now' = now /\ workers'[w] = workers[w]
      \/ Scan(w) \/ KeepNonce(w) \/ \E r \in Requests : Authenticate(w, r) \/ Unlink(w, r)
  <2>1. ASSUME NEW v \in Workers,
               \/ Scan(v) \/ KeepNonce(v) \/ AnswerCall(v) \/ Leave(v)
               \/ \E r \in Requests : Authenticate(v, r) \/ Unlink(v, r)
        PROVE  now' = now /\ \A u \in Workers \ {v} : workers'[u] = workers[u]
    BY <1>1, <2>1 DEF Scan, KeepNonce, AnswerCall, Leave, Authenticate, Unlink
  <2>2. ~AnswerCall(w) /\ ~Leave(w)
    BY <1>1 DEF AnswerCall, Leave
  <2> QED BY <2>1, <2>2 DEF Next, vars, Send, GiveUp, Receive
<1> QED BY <1>3, <1>4, <1>5, <1>6, <1>7, <1>8, <1>9

LEMMA OnFileStep == ASSUME IInv, [Next]_vars PROVE OnFile'
<1>1. /\ cache \in [Requests -> Nat \cup {None}] /\ worked \in [Requests -> 0..2]
      /\ OnFile /\ IInv
  BY TypesOf DEF IInv
<1> SUFFICES ASSUME NEW r \in Requests
             PROVE  /\ cache'[r] # None => worked'[r] > 0 /\ Stamp(r)' <= cache'[r] + Skew
                    /\ worked'[r] > 0 /\ cache'[r] = None => TooLate(r)'
  BY DEF OnFile
<1>2. worked[r] > 0 => Sent(r)
  BY <1>1 DEF IInv, StampedBefore
<1>3. CASE cache'[r] = cache[r] /\ worked'[r] = worked[r]
  BY <1>1, <1>2, <1>3, Lasting DEF OnFile
<1>4. ASSUME NEW w \in Workers, Unlink(w, r) PROVE worked'[r] > 0 /\ TooLate(r)' /\ cache'[r] = None
  <2>1. worked[r] > 0 /\ TooLate(r)
    BY <1>1, <1>4 DEF Unlink, At, IInv, Punctual, InTime
  <2> QED BY <1>1, <1>2, <1>4, <2>1, Lasting DEF Unlink
<1>5. ASSUME NEW w \in Workers, KeepNonce(w), workers[w].request = r
      PROVE  worked'[r] > 0 /\ Stamp(r)' <= cache'[r] + Skew /\ cache'[r] # None
  <2>1. workers[w] \in AtWork /\ InTime(workers[w]) /\ workers[w].stage # "working"
    BY <1>1, <1>5, TypesOf DEF KeepNonce, At, IInv, Punctual
  <2>2. Stamp(r) <= workers[w].current + Skew /\ workers[w].current \in Nat
    BY <1>5, <2>1, TypesOf DEF InTime, AtWork
  <2>3. cache'[r] = workers[w].current /\ Stamp(r)' = Stamp(r)
    BY <1>1, <1>5 DEF KeepNonce, Stamp
  <2>4. OnceMore(worked[r]) = 1
    BY <1>5, FirstWork DEF OnceMore
  <2>5. worked'[r] = 1
    BY <1>1, <1>5, <2>4 DEF KeepNonce
  <2> QED BY <2>2, <2>3, <2>5
<1>6. \/ cache'[r] = cache[r] /\ worked'[r] = worked[r]
      \/ \E w \in Workers : Unlink(w, r) \/ (KeepNonce(w) /\ workers[w].request = r)
  <2>1. ASSUME NEW w \in Workers, KeepNonce(w), workers[w].request # r
        PROVE  cache'[r] = cache[r] /\ worked'[r] = worked[r]
    BY <1>1, <2>1 DEF KeepNonce
  <2>2. ASSUME NEW w \in Workers, NEW q \in Requests, Unlink(w, q), q # r
        PROVE  cache'[r] = cache[r] /\ worked'[r] = worked[r]
    BY <1>1, <2>2 DEF Unlink
  <2> QED BY <2>1, <2>2
          DEF Next, vars, Send, GiveUp, Receive, Scan, AnswerCall, Leave, Authenticate, Tick
<1> QED BY <1>3, <1>4, <1>5, <1>6

-----------------------------------------------------------------------------
(* Answers *)

LEMMA FromWorkersStep == ASSUME IInv, [Next]_vars PROVE FromWorkers'
<1>1. FromWorkers /\ IInv
  BY DEF IInv
<1> SUFFICES ASSUME NEW r \in Requests, answers'[r] # None
             PROVE  worked'[r] > 0 /\ (answers'[r].good => Coherent(calls[r].evidence)')
  BY DEF FromWorkers
<1>2. worked[r] > 0 => /\ worked'[r] > 0
                       /\ calls'[r].evidence = calls[r].evidence
  BY <1>1, Lasting DEF IInv, StampedBefore
<1>3. CASE answers'[r] = answers[r]
  BY <1>1, <1>2, <1>3 DEF FromWorkers, Coherent
<1>4. ASSUME NEW w \in Workers, AnswerCall(w), workers[w].request = r
      PROVE  worked[r] > 0 /\ (answers'[r].good => Coherent(calls[r].evidence))
  <2>1. worked[r] > 0
    BY <1>4 DEF AnswerCall, At, IInv, Punctual, InTime
  <2> QED BY <1>4, <2>1, TypesOf DEF AnswerCall
<1>5. \/ answers'[r] = answers[r]
      \/ \E w \in Workers : AnswerCall(w) /\ workers[w].request = r
  <2>1. ASSUME NEW w \in Workers, AnswerCall(w), workers[w].request # r
        PROVE  answers'[r] = answers[r]
    BY <2>1, TypesOf DEF AnswerCall
  <2> QED BY <2>1 DEF Next, vars, Send, GiveUp, Receive, Scan, KeepNonce, Leave, Authenticate,
                      Unlink, Tick
<1> QED BY <1>2, <1>3, <1>4, <1>5 DEF Coherent

\* A result that fits the evidence shows the strongest authentication in it.
LEMMA ResultShows ==
    ASSUME NEW e \in Evidence, Coherent(e)
    PROVE  /\ e.dg15 # "absent" => Result(e).assurance = "active_authentication"
           /\ e.dg14 = "ca" => Result(e).assurance # "passive_only"
BY DEF Coherent, Result, Assurance, Evidence

LEMMA AnswersStep == ASSUME IInv, [Next]_vars PROVE AnswersAreOwn'
<1>1. IInv /\ TypeOK /\ AnswersAreOwn /\ FromWorkers
  BY DEF IInv
<1> SUFFICES ASSUME NEW r \in Requests, calls'[r].state = "answered"
             PROVE  /\ worked'[r] > 0
                    /\ calls'[r].evidence \in Evidence
                    /\ Coherent(calls'[r].evidence)
                    /\ calls'[r].result = Result(calls'[r].evidence)
  BY ResultShows DEF AnswersAreOwn
<1>2. calls'[r].evidence \in Evidence
  BY <1>1, TypeStep DEF IInv, TypeOK, Calls, SentCalls, NewCall
<1>3. worked[r] > 0 => worked'[r] > 0
  BY <1>1, Lasting
<1>4. CASE calls'[r] = calls[r]
  BY <1>1, <1>2, <1>3, <1>4 DEF AnswersAreOwn
<1>5. ASSUME NEW a \in Requests, Receive(r, a)
      PROVE  /\ worked[r] > 0 /\ Coherent(calls'[r].evidence)
             /\ calls'[r].result = Result(calls'[r].evidence)
  <2>1. calls[r] \in SentCalls /\ calls \in [Requests -> Calls]
    BY <1>1, <1>5 DEF Receive, TypeOK, Calls, NewCall
  <2>2. Usable(a, r)
    <3>1. SUFFICES ASSUME ~Usable(a, r) PROVE FALSE
      OBVIOUS
    <3>2. calls' = [calls EXCEPT ![r] = [calls[r] EXCEPT !.state = "failed"]]
      BY <1>5, <3>1 DEF Receive
    <3> QED BY <2>1, <3>2 DEF SentCalls
  <2>3. calls' = [calls EXCEPT ![r] =
                    [calls[r] EXCEPT !.state = "answered", !.result = ResultOf(a)]]
    BY <1>5, <2>2 DEF Receive
  <2>4. calls'[r].evidence = calls[r].evidence /\ calls'[r].result = ResultOf(a)
    BY <2>1, <2>3 DEF SentCalls
  <2>5. a = r /\ answers[r] # None /\ answers[r].good
    BY <1>5, <2>2 DEF Usable, SignedFor, Receive
  <2>6. worked[r] > 0 /\ Coherent(calls[r].evidence)
    BY <1>1, <2>5 DEF FromWorkers
  <2> QED BY <2>4, <2>5, <2>6 DEF ResultOf
<1>6. calls'[r] = calls[r] \/ \E a \in Requests : Receive(r, a)
  <2>1. ASSUME NEW q \in Requests, Send(q) PROVE calls'[r] = calls[r]
    BY <1>1, <2>1, SendEffect
  <2>2. ASSUME GiveUp(r) PROVE FALSE
    <3>1. calls[r] \in SentCalls /\ calls \in [Requests -> Calls]
      BY <1>1, <2>2 DEF GiveUp, TypeOK, Calls, NewCall
    <3> QED BY <2>2, <3>1 DEF GiveUp, SentCalls
  <2>3. ASSUME NEW q \in Requests \ {r},
               GiveUp(q) \/ \E a \in Requests : Receive(q, a)
        PROVE  calls'[r] = calls[r]
    BY <1>1, <2>3, EndEffect
  <2> QED BY <2>1, <2>2, <2>3
          DEF Next, vars, Scan, KeepNonce, AnswerCall, Leave, Authenticate, Unlink, Tick
<1> QED BY <1>2, <1>3, <1>4, <1>5, <1>6

-----------------------------------------------------------------------------
LEMMA Inductive == Spec => []IInv
<1>1. ASSUME IInv, [Next]_vars PROVE IInv'
  <2>1. TypeOK'
    BY <1>1, TypeStep DEF IInv
  <2> QED BY <1>1, <2>1, StampedStep, PunctualStep, OnFileStep, OnceStep, FromWorkersStep,
             AnswersStep DEF IInv
<1> QED BY <1>1, InitIInv, PTL DEF Spec

\* The service's records stay within their types.
THEOREM ExchangeTypeCorrect == Spec => []TypeOK
<1>1. IInv => TypeOK
  BY DEF IInv
<1> QED BY <1>1, Inductive, PTL

\* Requests are worked on at most once (replay_cache.py), for any number of
\* requests and workers and any clocks within TimesAssumption.
THEOREM RequestsWorkedOnOnce == Spec => []WorkedOnOnce
<1>1. IInv => WorkedOnOnce
  BY DEF IInv
<1> QED BY <1>1, Inductive, PTL

\* What a call returns is the result of a worker from its own evidence, and
\* shows what its chip supports.
THEOREM AnswersBelong == Spec => []AnswersAreOwn
<1>1. IInv => AnswersAreOwn
  BY DEF IInv
<1> QED BY <1>1, Inductive, PTL

\* validateResult refuses nothing that an honest worker can say.
THEOREM HonestResultsValid ==
    ASSUME NEW e \in Evidence, Coherent(e)
    PROVE  Valid(Result(e))
BY DEF Coherent, Valid, Result, Assurance, Decision, Evidence
=============================================================================
