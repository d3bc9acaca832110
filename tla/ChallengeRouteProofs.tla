------------------------- MODULE ChallengeRouteProofs -------------------------
(***************************************************************************)
(* What stands between a phone and a new challenge in                      *)
(* POST /auth/verify/challenge: the Map of challenges, and the limiter     *)
(* that counts attempts before it.                                         *)
(*                                                                         *)
(* Of ChallengeStore, for any number of accounts, purposes and challenges  *)
(* and any limits: the Map keeps to both limits, evicts only the oldest    *)
(* challenge of an owner at the limit, and implements the promise of       *)
(* ChallengeLedger.                                                        *)
(*                                                                         *)
(* Of AttemptLimiter, for any accounts, devices, requests and positive     *)
(* thresholds: the rows are an exact account of the attempts let through   *)
(* (RowsAccount), hence AttemptsBounded; and what the endpoints see of it  *)
(* is a set of locks.                                                      *)
(***************************************************************************)
EXTENDS ChallengeStore, AttemptLimiter, FiniteSetTheorems, SequenceTheorems,
        WellFoundedInduction, TLAPS

(* The keys of the Map are unique. *)
UniqueIds == \A x, y \in challenges : x.id = y.id => x = y

(* A challenge still in the Map was never granted, and a granted one was     *)
(* granted once, to the account and for the purpose it was issued for.       *)
GrantedAtMostOnce ==
    /\ \A x \in challenges : grants[x.id] = <<>>
    /\ \A i \in Ids : IF i <= Len(log) THEN grants[i] \in {<<>>, <<log[i]>>}
                      ELSE grants[i] = <<>>

MapInv ==
    /\ IsFiniteSet(challenges)
    /\ UniqueIds
    /\ GrantedAtMostOnce

-----------------------------------------------------------------------------
(* Least elements, for which challenge is the oldest.                        *)
LEMMA LeastElement ==
    ASSUME NEW T \in SUBSET Nat, T # {}
    PROVE  \E m \in T : \A n \in T : m <= n
<1> DEFINE R == {ss \in Nat \X Nat : ss[1] < ss[2]}
<1>1. R = OpToRel(<, Nat)
  BY DEF OpToRel
<1>2. IsWellFoundedOn(R, Nat)
  BY <1>1, NatLessThanWellFounded
<1>3. \A m, n \in Nat : <<m, n>> \notin R => n <= m
  OBVIOUS
<1> HIDE DEF R
<1>4. \E m \in T : \A n \in T : ~(<<n, m>> \in R)
  BY <1>2, WFMin
<1> QED BY <1>3, <1>4

(* What the steps make of the Map: it loses challenges, at most one of them  *)
(* is replaced or added.                                                     *)
LEMMA RoomIsMade ==
    ASSUME NEW c
    PROVE  /\ Room(c) \subseteq challenges
           /\ \A x \in challenges \ Room(c) : x.expired \/ x \in Evicted(c)
           /\ Room(c) \cap Evicted(c) = {}
BY DEF Room, Unexpired

LEMMA IdsAreNatural == \A i \in Ids : i \in Nat /\ i >= 1 /\ i <= MaxIssued
BY LimitsAreNatural DEF Ids

(* Issuing numbers the new challenge after all that went before.             *)
LEMMA IssueLogged ==
    ASSUME TypeOK, NEW c \in Contributors, NEW p \in Purposes, Issue(c, p)
    PROVE  /\ Len(log) \in Nat /\ Len(log) + 1 \in Ids
           /\ log' \in Seq(Request) /\ Len(log') = Len(log) + 1
           /\ \A i \in 1..Len(log) : log'[i] = log[i]
           /\ log'[Len(log) + 1] = [owner |-> c, purpose |-> p]
           /\ \A x \in challenges : x.id \in 1..Len(log)
<1>1. Len(log) \in Nat /\ Len(log) < MaxIssued
  BY DEF TypeOK, Issue
<1>2. [owner |-> c, purpose |-> p] \in Request
  BY DEF Request
<1>3. /\ log' \in Seq(Request) /\ Len(log') = Len(log) + 1
      /\ \A i \in 1..Len(log) : log'[i] = log[i]
      /\ log'[Len(log) + 1] = [owner |-> c, purpose |-> p]
  BY <1>2, AppendProperties DEF TypeOK, Issue
<1>4. \A x \in challenges : x.id \in 1..Len(log)
  <2> SUFFICES ASSUME NEW x \in challenges PROVE x.id \in 1..Len(log)
    OBVIOUS
  <2>1. x.id \in Ids /\ x.id <= Len(log)
    BY DEF TypeOK, Challenge
  <2> QED BY <1>1, <2>1, IdsAreNatural
<1> QED BY <1>1, <1>3, <1>4, LimitsAreNatural DEF Ids

(* The columns of the Map, the log and the grants keep their types, and a    *)
(* challenge in the Map is as it was issued.                                 *)
THEOREM TypeCorrect == Spec => []TypeOK
<1>1. Init => TypeOK
  BY LimitsAreNatural DEF Init, TypeOK
<1>2. ASSUME TypeOK, [Next]_vars PROVE TypeOK'
  <2> USE <1>2 DEF TypeOK
  <2>1. ASSUME challenges' \subseteq challenges, UNCHANGED <<log, grants>>
        PROVE  TypeOK'
    BY <2>1
  <2>2. ASSUME NEW c \in Contributors, NEW p \in Purposes, Issue(c, p) PROVE TypeOK'
    <3> DEFINE issue == [id |-> Len(log) + 1, owner |-> c, purpose |-> p,
                         expired |-> FALSE]
    <3>1. /\ challenges' = Room(c) \cup {issue} /\ Room(c) \subseteq challenges
          /\ grants' = grants
      BY <2>2, RoomIsMade DEF Issue
    <3>2. /\ issue \in Challenge /\ issue.id = Len(log) + 1
          /\ [owner |-> issue.owner, purpose |-> issue.purpose] = log'[Len(log) + 1]
      BY <2>2, IssueLogged DEF Challenge
    <3> HIDE DEF issue
    <3>3. challenges' \subseteq Challenge
      BY <3>1, <3>2
    <3>4. ASSUME NEW x \in challenges'
          PROVE  /\ x.id <= Len(log')
                 /\ log'[x.id] = [owner |-> x.owner, purpose |-> x.purpose]
      <4>1. CASE x = issue
        <5>1. Len(log') = Len(log) + 1 /\ Len(log) \in Nat
          BY <2>2, IssueLogged
        <5> QED BY <3>2, <4>1, <5>1
      <4>2. CASE x \in challenges
        <5>1. /\ x.id \in 1..Len(log) /\ Len(log) \in Nat
              /\ log'[x.id] = log[x.id] /\ Len(log') = Len(log) + 1
          BY <2>2, <4>2, IssueLogged
        <5> QED BY <4>2, <5>1
      <4> QED BY <3>1, <4>1, <4>2
    <3>5. Len(log') <= MaxIssued
      BY <2>2, IssueLogged, IdsAreNatural
    <3> QED BY <2>2, <3>1, <3>3, <3>4, <3>5, IssueLogged
  <2>3. ASSUME NEW c \in Contributors, RefuseToIssue(c) PROVE TypeOK'
    BY <2>1, <2>3, RoomIsMade DEF RefuseToIssue
  <2>4. ASSUME NEW i \in Ids, NEW c \in Contributors, NEW p \in Purposes,
               Consume(i, c, p)
        PROVE  TypeOK'
    <3> DEFINE request == [owner |-> c, purpose |-> p]
    <3>1. /\ challenges' \subseteq challenges /\ log' = log
          /\ \/ grants' = grants
             \/ grants' = [grants EXCEPT ![i] = Append(grants[i], request)]
      BY <2>4 DEF Consume
    <3>2. request \in Request
      BY DEF Request
    <3>3. Append(grants[i], request) \in Seq(Request)
      BY <3>2, AppendProperties
    <3> QED BY <3>1, <3>3
  <2>5. ASSUME NEW i \in Ids, NEW c \in Contributors, NEW p \in Purposes,
               Inspect(i, c, p)
        PROVE  TypeOK'
    BY <2>1, <2>5 DEF Inspect
  <2>6. ASSUME NEW x \in challenges, Expire(x) PROVE TypeOK'
    <3> DEFINE late == [x EXCEPT !.expired = TRUE]
    <3>1. /\ late \in Challenge /\ late.id = x.id /\ late.owner = x.owner
          /\ late.purpose = x.purpose
      BY DEF Challenge
    <3>2. challenges' = (challenges \ {x}) \cup {late} /\ UNCHANGED <<log, grants>>
      BY <2>6 DEF Expire
    <3> HIDE DEF late
    <3> QED BY <3>1, <3>2
  <2>7. CASE Sweep \/ Restart \/ UNCHANGED vars
    BY <2>1, <2>7 DEF Sweep, Restart, Unexpired, vars
  <2> QED BY <2>2, <2>3, <2>4, <2>5, <2>6, <2>7 DEF Next
<1> QED BY <1>1, <1>2, PTL DEF Spec

(* What a successful use of a challenge does.                                *)
LEMMA ConsumeEffect ==
    ASSUME TypeOK, MapInv, NEW i \in Ids, NEW c \in Contributors, NEW p \in Purposes,
           Consume(i, c, p)
    PROVE  /\ log' = log /\ i \in 1..Len(log)
           /\ log[i] = [owner |-> c, purpose |-> p]
           /\ \E x \in challenges :
                 /\ x.id = i /\ challenges' = challenges \ {x}
                 /\ grants' = IF x.expired THEN grants
                              ELSE [grants EXCEPT ![i] = <<log[i]>>]
<1>1. PICK x \in challenges :
        /\ x.id = i /\ x.owner = c /\ x.purpose = p
        /\ challenges' = challenges \ {x} /\ log' = log
        /\ grants' = IF x.expired THEN grants
                     ELSE [grants EXCEPT ![i] =
                             Append(grants[i], [owner |-> c, purpose |-> p])]
  BY DEF Consume
<1>2. /\ i \in 1..Len(log) /\ log[i] = [owner |-> c, purpose |-> p]
  BY <1>1, IdsAreNatural DEF TypeOK
<1>3. grants[i] = <<>>
  BY <1>1 DEF MapInv, GrantedAtMostOnce
<1>4. Append(grants[i], [owner |-> c, purpose |-> p]) = <<log[i]>>
  BY <1>2, <1>3
<1> QED BY <1>1, <1>2, <1>4

(* Ids in the Map differ, a challenge in it has not been given back, and     *)
(* none is given back but as it was issued.                                  *)
THEOREM MapConsistent == Spec => []MapInv
<1>1. Init => MapInv
  BY FS_EmptySet, IdsAreNatural DEF Init, MapInv, UniqueIds, GrantedAtMostOnce
<1>2. ASSUME TypeOK, MapInv, [Next]_vars PROVE MapInv'
  <2> USE <1>2
  <2>1. ASSUME challenges' \subseteq challenges, UNCHANGED <<log, grants>>
        PROVE  MapInv'
    <3>1. IsFiniteSet(challenges')
      BY <2>1, FS_Subset DEF MapInv
    <3> QED BY <2>1, <3>1 DEF MapInv, UniqueIds, GrantedAtMostOnce
  <2>2. ASSUME NEW c \in Contributors, NEW p \in Purposes, Issue(c, p) PROVE MapInv'
    <3> DEFINE issue == [id |-> Len(log) + 1, owner |-> c, purpose |-> p,
                         expired |-> FALSE]
    <3>1. /\ challenges' = Room(c) \cup {issue} /\ Room(c) \subseteq challenges
          /\ grants' = grants
      BY <2>2, RoomIsMade DEF Issue
    <3>2. issue.id = Len(log) + 1
      OBVIOUS
    <3> HIDE DEF issue
    <3>3. IsFiniteSet(challenges')
      <4>1. IsFiniteSet(Room(c))
        BY <3>1, FS_Subset DEF MapInv
      <4> QED BY <3>1, <4>1, FS_AddElement
    <3>4. /\ Len(log) \in Nat /\ Len(log') = Len(log) + 1 /\ Len(log) + 1 \in Ids
          /\ \A x \in challenges : x.id \in 1..Len(log)
          /\ \A i \in 1..Len(log) : log'[i] = log[i]
      BY <2>2, IssueLogged
    <3>5. UniqueIds'
      BY <3>1, <3>2, <3>4 DEF MapInv, UniqueIds
    <3>6. \A x \in challenges' : grants'[x.id] = <<>>
      BY <3>1, <3>2, <3>4 DEF MapInv, GrantedAtMostOnce
    <3>7. ASSUME NEW i \in Ids
          PROVE  IF i <= Len(log') THEN grants'[i] \in {<<>>, <<log'[i]>>}
                 ELSE grants'[i] = <<>>
      BY <3>1, <3>4, IdsAreNatural DEF MapInv, GrantedAtMostOnce
    <3> QED BY <3>3, <3>5, <3>6, <3>7 DEF MapInv, GrantedAtMostOnce
  <2>3. ASSUME NEW i \in Ids, NEW c \in Contributors, NEW p \in Purposes,
               Consume(i, c, p)
        PROVE  MapInv'
    <3>1. PICK x \in challenges :
            /\ x.id = i /\ challenges' = challenges \ {x} /\ log' = log
            /\ i \in 1..Len(log)
            /\ \/ grants' = grants
               \/ grants' = [grants EXCEPT ![i] = <<log[i]>>]
      BY <2>3, ConsumeEffect
    <3>2. IsFiniteSet(challenges')
      BY <3>1, FS_RemoveElement DEF MapInv
    <3>3. \A y \in challenges' : y \in challenges /\ y.id # i
      BY <3>1 DEF MapInv, UniqueIds
    <3>4. UniqueIds'
      BY <3>3 DEF MapInv, UniqueIds
    <3>5. \A j \in Ids : grants'[j] = grants[j] \/ (j = i /\ grants'[j] = <<log[j]>>)
      BY <3>1 DEF TypeOK
    <3>6. \A y \in challenges' : grants'[y.id] = <<>>
      BY <3>3, <3>5 DEF MapInv, GrantedAtMostOnce, TypeOK, Challenge
    <3>7. ASSUME NEW j \in Ids
          PROVE  IF j <= Len(log) THEN grants'[j] \in {<<>>, <<log[j]>>}
                 ELSE grants'[j] = <<>>
      <4>1. CASE grants'[j] = grants[j]
        BY <4>1 DEF MapInv, GrantedAtMostOnce
      <4>2. CASE j = i /\ grants'[j] = <<log[j]>>
        BY <3>1, <4>2
      <4> QED BY <3>5, <4>1, <4>2
    <3> QED BY <3>1, <3>2, <3>4, <3>6, <3>7 DEF MapInv, GrantedAtMostOnce
  <2>4. ASSUME NEW x \in challenges, Expire(x) PROVE MapInv'
    <3> DEFINE late == [x EXCEPT !.expired = TRUE]
    <3>1. late.id = x.id
      BY DEF TypeOK, Challenge
    <3>2. challenges' = (challenges \ {x}) \cup {late} /\ UNCHANGED <<log, grants>>
      BY <2>4 DEF Expire
    <3> HIDE DEF late
    <3>3. IsFiniteSet(challenges')
      <4>1. IsFiniteSet(challenges \ {x})
        BY FS_RemoveElement DEF MapInv
      <4> QED BY <3>2, <4>1, FS_AddElement
    <3> QED BY <3>1, <3>2, <3>3 DEF MapInv, UniqueIds, GrantedAtMostOnce
  <2> QED
    BY <2>1, <2>2, <2>3, <2>4, RoomIsMade
    DEF Next, RefuseToIssue, Inspect, Sweep, Restart, Unexpired, vars
<1> QED BY <1>1, <1>2, TypeCorrect, PTL DEF Spec

-----------------------------------------------------------------------------
(* Cardinalities. *)
LEMMA OneMore ==
    ASSUME NEW S, NEW x, IsFiniteSet(S)
    PROVE  /\ IsFiniteSet(S \cup {x})
           /\ Cardinality(S \cup {x}) \in Nat
           /\ Cardinality(S \cup {x}) <= Cardinality(S) + 1
<1>1. /\ IsFiniteSet(S \cup {x})
      /\ Cardinality(S \cup {x}) = IF x \in S THEN Cardinality(S) ELSE Cardinality(S) + 1
  BY FS_AddElement
<1>2. Cardinality(S) \in Nat
  BY FS_CardinalityType
<1> QED BY <1>1, <1>2

(* Eviction. *)

LEMMA MineFinite ==
    ASSUME MapInv, NEW c
    PROVE  IsFiniteSet(Mine(c)) /\ Cardinality(Mine(c)) \in Nat
BY FS_Subset, FS_CardinalityType DEF MapInv, Mine

Younger(c, x) == {y \in Mine(c) : y.id > x.id}

(* An evicted challenge has a whole allowance of younger ones behind it.     *)
LEMMA EvictedIsOldest ==
    ASSUME TypeOK, MapInv, WithinLimits, NEW c \in Contributors, NEW x \in Evicted(c)
    PROVE  /\ x \in Mine(c)
           /\ Cardinality(Mine(c)) = MaxPerContributor
           /\ \A y \in Mine(c) : x.id <= y.id
<1>1. x \in Mine(c) /\ Cardinality(Younger(c, x)) >= MaxPerContributor - 1
  BY DEF Evicted, Younger
<1>2. \A y \in Mine(c) : y.id \in Nat
  BY IdsAreNatural DEF Mine, TypeOK, Challenge
<1>3. Younger(c, x) \in SUBSET (Mine(c) \ {x})
  BY <1>1, <1>2 DEF Younger
<1>4. /\ IsFiniteSet(Mine(c) \ {x}) /\ Cardinality(Mine(c)) \in Nat
      /\ Cardinality(Mine(c) \ {x}) = Cardinality(Mine(c)) - 1
  BY <1>1, MineFinite, FS_RemoveElement
<1>5. /\ Cardinality(Younger(c, x)) <= Cardinality(Mine(c) \ {x})
      /\ Cardinality(Mine(c) \ {x}) = Cardinality(Younger(c, x))
           => Mine(c) \ {x} = Younger(c, x)
  BY <1>3, <1>4, FS_Subset
<1>6. Cardinality(Younger(c, x)) \in Nat
  BY <1>3, <1>4, FS_Subset, FS_CardinalityType
<1>7. Cardinality(Mine(c)) <= MaxPerContributor
  BY DEF WithinLimits
<1>8. /\ Cardinality(Mine(c)) = MaxPerContributor
      /\ Mine(c) \ {x} = Younger(c, x)
  BY <1>1, <1>4, <1>5, <1>6, <1>7, LimitsAreNatural
<1>9. ASSUME NEW y \in Mine(c) PROVE x.id <= y.id
  <2>1. CASE y = x
    BY <1>2, <2>1
  <2>2. CASE y # x
    <3>1. y \in Younger(c, x)
      BY <1>8, <2>2
    <3> QED BY <1>1, <1>2, <3>1 DEF Younger
  <2> QED BY <2>1, <2>2
<1> QED BY <1>1, <1>8, <1>9

(* An owner at the limit has an oldest challenge, and it is evicted.         *)
LEMMA OldestIsEvicted ==
    ASSUME TypeOK, MapInv, NEW c \in Contributors,
           Cardinality(Mine(c)) = MaxPerContributor
    PROVE  Evicted(c) # {}
<1> DEFINE T == {x.id : x \in Mine(c)}
<1>1. Mine(c) # {}
  BY FS_EmptySet, LimitsAreNatural
<1>2. \A y \in Mine(c) : y \in challenges /\ y.id \in Nat
  BY IdsAreNatural DEF Mine, TypeOK, Challenge
<1>3. T \in SUBSET Nat /\ T # {}
  BY <1>1, <1>2
<1> HIDE DEF T
<1>4. PICK m \in T : \A n \in T : m <= n
  BY <1>3, LeastElement
<1>5. PICK x \in Mine(c) : x.id = m
  BY DEF T
<1>6. \A y \in Mine(c) : x.id <= y.id
  BY <1>4, <1>5 DEF T
<1>7. \A y \in Mine(c) \ {x} : y.id > x.id
  BY <1>2, <1>6 DEF MapInv, UniqueIds
<1>8. Younger(c, x) = Mine(c) \ {x}
  BY <1>2, <1>7 DEF Younger
<1>9. Cardinality(Younger(c, x)) = MaxPerContributor - 1
  BY <1>8, MineFinite, FS_RemoveElement
<1>10. x \in Evicted(c)
  BY <1>9, LimitsAreNatural DEF Evicted, Younger
<1> QED BY <1>10

LEMMA EvictionMakesRoom ==
    ASSUME TypeOK, MapInv, WithinLimits, NEW c \in Contributors
    PROVE  /\ IsFiniteSet(Mine(c) \ Evicted(c))
           /\ Cardinality(Mine(c) \ Evicted(c)) \in Nat
           /\ Cardinality(Mine(c) \ Evicted(c)) < MaxPerContributor
<1> DEFINE kept == Mine(c) \ Evicted(c)
<1>1. kept \in SUBSET Mine(c)
  OBVIOUS
<1>2. IsFiniteSet(kept) /\ Cardinality(kept) \in Nat
      /\ Cardinality(kept) <= Cardinality(Mine(c))
  BY <1>1, MineFinite, FS_Subset, FS_CardinalityType
<1>3. Cardinality(Mine(c)) \in Nat /\ Cardinality(Mine(c)) <= MaxPerContributor
  BY MineFinite DEF WithinLimits
<1>4. CASE Cardinality(Mine(c)) = MaxPerContributor
  <2>1. PICK x : x \in Evicted(c)
    BY <1>4, OldestIsEvicted
  <2>2. x \in Mine(c)
    BY <2>1 DEF Evicted
  <2>3. kept # Mine(c)
    BY <2>1, <2>2
  <2>4. Cardinality(kept) # Cardinality(Mine(c))
    BY <1>1, <2>3, MineFinite, FS_Subset
  <2> QED BY <1>2, <1>3, <2>4, LimitsAreNatural
<1>5. CASE Cardinality(Mine(c)) # MaxPerContributor
  BY <1>2, <1>3, <1>5, LimitsAreNatural
<1> QED BY <1>2, <1>4, <1>5

(* The Map never outgrows MAX_PER_CONTRIBUTOR of one account nor             *)
(* MAX_CHALLENGES of all, for any values of both.                            *)
THEOREM LimitsKept == Spec => []WithinLimits
<1>1. Init => WithinLimits
  <2> SUFFICES ASSUME Init PROVE WithinLimits
    OBVIOUS
  <2>1. challenges = {} /\ \A c \in Contributors : Mine(c) = {}
    BY DEF Init, Mine
  <2> QED BY <2>1, FS_EmptySet, LimitsAreNatural DEF WithinLimits
<1>2. ASSUME TypeOK, MapInv, WithinLimits, [Next]_vars PROVE WithinLimits'
  <2> USE <1>2
  <2>1. Cardinality(challenges) \in Nat
    BY FS_CardinalityType DEF MapInv
  <2>2. ASSUME challenges' \subseteq challenges PROVE WithinLimits'
    <3>1. /\ Cardinality(challenges') <= Cardinality(challenges)
          /\ Cardinality(challenges') \in Nat
      BY <2>2, FS_Subset, FS_CardinalityType DEF MapInv
    <3>2. ASSUME NEW c \in Contributors
          PROVE  Cardinality(Mine(c)') <= MaxPerContributor
      <4>1. Mine(c)' \in SUBSET Mine(c)
        BY <2>2 DEF Mine
      <4>2. /\ Cardinality(Mine(c)') <= Cardinality(Mine(c))
            /\ Cardinality(Mine(c)') \in Nat
        BY <4>1, MineFinite, FS_Subset, FS_CardinalityType
      <4> QED BY <4>2, MineFinite, LimitsAreNatural DEF WithinLimits
    <3> QED BY <2>1, <3>1, <3>2, LimitsAreNatural DEF WithinLimits
  <2>3. ASSUME NEW c \in Contributors, NEW p \in Purposes, Issue(c, p)
        PROVE  WithinLimits'
    <3> DEFINE issue == [id |-> Len(log) + 1, owner |-> c, purpose |-> p,
                         expired |-> FALSE]
    <3>1. /\ challenges' = Room(c) \cup {issue} /\ Room(c) \subseteq challenges
          /\ Cardinality(Room(c)) < MaxChallenges
          /\ Room(c) \cap Evicted(c) = {}
      BY <2>3, RoomIsMade DEF Issue
    <3>2. issue.owner = c
      OBVIOUS
    <3> HIDE DEF issue
    <3>3. IsFiniteSet(Room(c)) /\ Cardinality(Room(c)) \in Nat
      BY <3>1, FS_Subset, FS_CardinalityType DEF MapInv
    <3>4. Cardinality(challenges') <= MaxChallenges
      <4>1. /\ Cardinality(challenges') <= Cardinality(Room(c)) + 1
            /\ Cardinality(challenges') \in Nat
        BY <3>1, <3>3, OneMore
      <4> QED BY <3>1, <3>3, <4>1, LimitsAreNatural
    <3>5. ASSUME NEW e \in Contributors
          PROVE  Cardinality(Mine(e)') <= MaxPerContributor
      <4>1. CASE e = c
        <5> DEFINE most == (Mine(c) \ Evicted(c)) \cup {issue}
        <5>1. Mine(c)' \in SUBSET most
          BY <3>1 DEF Mine
        <5>2. IsFiniteSet(most) /\ Cardinality(most) <= MaxPerContributor
              /\ Cardinality(most) \in Nat
          <6>1. /\ IsFiniteSet(most)
                /\ Cardinality(most) <= Cardinality(Mine(c) \ Evicted(c)) + 1
                /\ Cardinality(most) \in Nat
            BY EvictionMakesRoom, OneMore
          <6> HIDE DEF most
          <6> QED BY <6>1, EvictionMakesRoom, LimitsAreNatural
        <5> HIDE DEF most
        <5>3. Cardinality(Mine(c)') <= Cardinality(most) /\ Cardinality(Mine(c)') \in Nat
          BY <5>1, <5>2, FS_Subset, FS_CardinalityType
        <5> QED BY <4>1, <5>2, <5>3, LimitsAreNatural
      <4>2. CASE e # c
        <5>1. Mine(e)' \in SUBSET Mine(e)
          BY <3>1, <3>2, <4>2 DEF Mine
        <5>2. /\ Cardinality(Mine(e)') <= Cardinality(Mine(e))
              /\ Cardinality(Mine(e)') \in Nat
          BY <5>1, MineFinite, FS_Subset, FS_CardinalityType
        <5> QED BY <5>2, MineFinite, LimitsAreNatural DEF WithinLimits
      <4> QED BY <4>1, <4>2
    <3> QED BY <3>4, <3>5 DEF WithinLimits
  <2>4. ASSUME NEW x \in challenges, Expire(x) PROVE WithinLimits'
    <3> DEFINE late == [x EXCEPT !.expired = TRUE]
    <3>1. late.owner = x.owner /\ late.id = x.id
      BY DEF TypeOK, Challenge
    <3>2. challenges' = (challenges \ {x}) \cup {late}
      BY <2>4 DEF Expire
    <3>3. late \notin challenges \ {x}
      BY <3>1 DEF MapInv, UniqueIds
    <3> HIDE DEF late
    <3>4. ASSUME NEW S, IsFiniteSet(S), x \in S, late \notin S \ {x}
          PROVE  Cardinality((S \ {x}) \cup {late}) = Cardinality(S)
      <4>1. IsFiniteSet(S \ {x}) /\ Cardinality(S \ {x}) = Cardinality(S) - 1
        BY <3>4, FS_RemoveElement
      <4>2. Cardinality((S \ {x}) \cup {late}) = Cardinality(S \ {x}) + 1
        BY <3>4, <4>1, FS_AddElement
      <4> QED BY <3>4, <4>1, <4>2, FS_CardinalityType
    <3>5. Cardinality(challenges') = Cardinality(challenges)
      BY <3>2, <3>3, <3>4 DEF MapInv
    <3>6. ASSUME NEW c \in Contributors PROVE Cardinality(Mine(c)') = Cardinality(Mine(c))
      <4>1. CASE x.owner = c
        <5>1. Mine(c)' = (Mine(c) \ {x}) \cup {late} /\ x \in Mine(c)
          BY <3>1, <3>2, <4>1 DEF Mine
        <5>2. late \notin Mine(c) \ {x}
          BY <3>3 DEF Mine
        <5> QED BY <3>4, <5>1, <5>2, MineFinite
      <4>2. CASE x.owner # c
        <5>1. Mine(c)' = Mine(c)
          BY <3>1, <3>2, <4>2 DEF Mine
        <5> QED BY <5>1
      <4> QED BY <4>1, <4>2
    <3> QED BY <3>5, <3>6 DEF WithinLimits
  <2> QED
    BY <2>2, <2>3, <2>4, RoomIsMade
    DEF Next, RefuseToIssue, Consume, Inspect, Sweep, Restart, Unexpired, vars
<1> QED BY <1>1, <1>2, TypeCorrect, MapConsistent, PTL DEF Spec

-----------------------------------------------------------------------------
(* Who loses a challenge. *)

(* At the global limit a refusal evicts nobody: whoever is evicted leaves    *)
(* the room that was asked for.                                              *)
LEMMA RefusalEvictsNobody ==
    ASSUME TypeOK, MapInv, WithinLimits, NEW c \in Contributors, RefuseToIssue(c)
    PROVE  Evicted(c) = {}
<1> SUFFICES ASSUME NEW x \in Evicted(c) PROVE FALSE
  OBVIOUS
<1> DEFINE kept == challenges \ Evicted(c)
<1>1. x \in challenges
  BY DEF Evicted, Mine
<1>2. /\ IsFiniteSet(challenges \ {x})
      /\ Cardinality(challenges \ {x}) = Cardinality(challenges) - 1
      /\ Cardinality(challenges) \in Nat
  BY <1>1, FS_RemoveElement, FS_CardinalityType DEF MapInv
<1>3. kept \in SUBSET (challenges \ {x})
  OBVIOUS
<1>4. /\ Cardinality(kept) <= Cardinality(challenges \ {x})
      /\ Cardinality(kept) \in Nat
  BY <1>2, <1>3, FS_Subset, FS_CardinalityType
<1>5. Cardinality(kept) < MaxChallenges
  BY <1>2, <1>4, LimitsAreNatural DEF WithinLimits
<1>6. Room(c) = kept
  BY <1>4, <1>5, LimitsAreNatural DEF Room
<1> QED BY <1>4, <1>5, <1>6, LimitsAreNatural DEF RefuseToIssue

(* A good challenge goes when its owner uses it, with the process, or when   *)
(* it is the oldest of an owner at the limit who is given a new one, for any *)
(* limits and any number of accounts.                                        *)
THEOREM OnlyOwnersLose == Spec => OnlyTheOwnerLosesIt
<1>1. ASSUME TypeOK, MapInv, WithinLimits, [Next]_vars
      PROVE  [\A x \in Unexpired(challenges) : LosesGood(x) =>
                \/ grants'[x.id] # grants[x.id]
                \/ challenges' = {}
                \/ /\ log' = Append(log, log'[Len(log')])
                   /\ log'[Len(log')].owner = x.owner
                   /\ Cardinality(Mine(x.owner)) = MaxPerContributor
                   /\ \A y \in Mine(x.owner) : x.id <= y.id]_vars
  <2> USE <1>1
  <2> SUFFICES ASSUME NEW x \in Unexpired(challenges), LosesGood(x)
               PROVE  \/ grants'[x.id] # grants[x.id]
                      \/ challenges' = {}
                      \/ /\ log' = Append(log, log'[Len(log')])
                         /\ log'[Len(log')].owner = x.owner
                         /\ Cardinality(Mine(x.owner)) = MaxPerContributor
                         /\ \A y \in Mine(x.owner) : x.id <= y.id
    OBVIOUS
  <2>1. x \in challenges /\ ~x.expired /\ x.id \in Ids
    BY DEF Unexpired, TypeOK, Challenge
  <2>2. x \notin challenges'
    BY DEF LosesGood
  <2>3. ASSUME NEW c \in Contributors, NEW p \in Purposes, Issue(c, p)
        PROVE  /\ log' = Append(log, log'[Len(log')])
               /\ log'[Len(log')].owner = x.owner
               /\ Cardinality(Mine(x.owner)) = MaxPerContributor
               /\ \A y \in Mine(x.owner) : x.id <= y.id
    <3>1. x \in Evicted(c)
      BY <2>1, <2>2, <2>3, RoomIsMade DEF Issue
    <3>2. x.owner = c
      BY <3>1 DEF Evicted, Mine
    <3>3. log'[Len(log')] = [owner |-> c, purpose |-> p]
      BY <2>3, IssueLogged
    <3>4. log' = Append(log, [owner |-> c, purpose |-> p])
      BY <2>3 DEF Issue
    <3> QED BY <3>1, <3>2, <3>3, <3>4, EvictedIsOldest
  <2>4. ASSUME NEW c \in Contributors, RefuseToIssue(c) PROVE FALSE
    BY <2>1, <2>2, <2>4, RoomIsMade, RefusalEvictsNobody DEF RefuseToIssue
  <2>5. ASSUME NEW i \in Ids, NEW c \in Contributors, NEW p \in Purposes,
               Consume(i, c, p)
        PROVE  grants'[x.id] # grants[x.id]
    <3>1. PICK y \in challenges :
            /\ y.id = i /\ challenges' = challenges \ {y}
            /\ grants' = IF y.expired THEN grants
                         ELSE [grants EXCEPT ![i] = <<log[i]>>]
      BY <2>5, ConsumeEffect
    <3>2. x = y
      BY <2>1, <2>2, <3>1
    <3>3. grants'[i] = <<log[i]>>
      BY <2>1, <3>1, <3>2 DEF TypeOK
    <3>4. grants[i] = <<>>
      BY <2>1, <3>1, <3>2 DEF MapInv, GrantedAtMostOnce
    <3>5. \A r : <<r>> # <<>>
      OBVIOUS
    <3>6. grants'[i] # grants[i]
      BY <3>3, <3>4, <3>5
    <3>7. x.id = i
      BY <3>1, <3>2
    <3> QED BY <3>6, <3>7
  <2>6. ASSUME NEW i \in Ids, NEW c \in Contributors, NEW p \in Purposes,
               Inspect(i, c, p)
        PROVE  FALSE
    BY <2>1, <2>2, <2>6 DEF Inspect
  <2>7. ASSUME NEW y \in challenges, Expire(y) PROVE FALSE
    <3> DEFINE late == [y EXCEPT !.expired = TRUE]
    <3>1. late.id = y.id
      BY DEF TypeOK, Challenge
    <3>2. challenges' = (challenges \ {y}) \cup {late}
      BY <2>7 DEF Expire
    <3> HIDE DEF late
    <3> QED BY <2>1, <3>1, <3>2 DEF LosesGood
  <2>8. CASE Sweep
    BY <2>1, <2>2, <2>8 DEF Sweep, Unexpired
  <2>9. CASE Restart
    BY <2>9 DEF Restart
  <2>10. CASE UNCHANGED vars
    BY <2>1, <2>2, <2>10 DEF vars
  <2> QED
    BY <2>3, <2>4, <2>5, <2>6, <2>7, <2>8, <2>9, <2>10 DEF Next
<1> QED
  BY <1>1, TypeCorrect, MapConsistent, LimitsKept, PTL DEF Spec, OnlyTheOwnerLosesIt

-----------------------------------------------------------------------------
(* The refinement of ChallengeLedger. *)
Live(i) == \E x \in Unexpired(challenges) : x.id = i
Book == [i \in Ids |->
            IF i > Len(log) THEN Unissued
            ELSE [state |-> StateOf(i), owner |-> log[i].owner,
                  purpose |-> log[i].purpose]]

(* No challenge is ever "misused". *)
LEMMA StateOfChallenge ==
    ASSUME GrantedAtMostOnce, NEW i \in Ids, i <= Len(log)
    PROVE  StateOf(i) = IF grants[i] # <<>> THEN "consumed"
                        ELSE IF Live(i) THEN "live" ELSE "gone"
BY DEF StateOf, GrantedAtMostOnce, Live

LEMMA EntryOf ==
    ASSUME MapInv, NEW i \in Ids, i <= Len(log), Len(log) \in Nat
    PROVE  Book[i] = [state |-> IF grants[i] # <<>> THEN "consumed"
                                ELSE IF Live(i) THEN "live" ELSE "gone",
                      owner |-> log[i].owner, purpose |-> log[i].purpose]
<1>1. ~(i > Len(log))
  BY IdsAreNatural
<1> QED BY <1>1, StateOfChallenge DEF MapInv, Book

(* An issued challenge that is neither granted nor issued again is kept or   *)
(* lost.                                                                     *)
LEMMA KeptOrLost ==
    ASSUME MapInv, MapInv', Len(log) \in Nat, Len(log') \in Nat,
           NEW i \in Ids, i <= Len(log), i <= Len(log'), log'[i] = log[i],
           grants'[i] = grants[i], Live(i)' => Live(i)
    PROVE  Book'[i] = IF ~Live(i)' /\ Book[i].state = "live"
                      THEN [Book[i] EXCEPT !.state = "gone"] ELSE Book[i]
<1>1. Book[i] = [state |-> IF grants[i] # <<>> THEN "consumed"
                           ELSE IF Live(i) THEN "live" ELSE "gone",
                 owner |-> log[i].owner, purpose |-> log[i].purpose]
  BY EntryOf
<1>2. StateOf(i)' = IF grants[i] # <<>> THEN "consumed"
                    ELSE IF Live(i)' THEN "live" ELSE "gone"
  BY DEF MapInv, StateOf, GrantedAtMostOnce, Live
<1>3. ~(i > Len(log'))
  BY IdsAreNatural
<1>4. Book'[i] = [state |-> StateOf(i)', owner |-> log[i].owner,
                  purpose |-> log[i].purpose]
  BY <1>3 DEF Book
<1> QED BY <1>1, <1>2, <1>4

LEMMA NotYetIssued ==
    ASSUME NEW i \in Ids
    PROVE  i > Len(log) => Book[i] = Unissued
BY DEF Book

(* Losing challenges, in whatever way: expiry, sweep, inspection, eviction   *)
(* for a request that is refused, restart.                                   *)
LEMMA LossRefines ==
    ASSUME TypeOK, MapInv, MapInv', UNCHANGED <<log, grants>>,
           \A i \in Ids : Live(i)' => Live(i)
    PROVE  Ledger!Next
<1>1. PICK lost \in SUBSET Ids : lost = {i \in Ids : ~Live(i)'}
  OBVIOUS
<1>2. Book' = [i \in Ids |-> IF i \in lost /\ Book[i].state = "live"
                             THEN [Book[i] EXCEPT !.state = "gone"] ELSE Book[i]]
  <2> SUFFICES ASSUME NEW i \in Ids
               PROVE  Book'[i] = IF i \in lost /\ Book[i].state = "live"
                                 THEN [Book[i] EXCEPT !.state = "gone"] ELSE Book[i]
    BY DEF Book
  <2>1. CASE i > Len(log)
    <3>1. Book[i] = Unissued /\ Book'[i] = Unissued
      BY <2>1 DEF Book
    <3> QED BY <3>1 DEF Unissued
  <2>2. CASE ~(i > Len(log))
    <3>1. i <= Len(log) /\ Len(log) \in Nat
      BY <2>2, IdsAreNatural DEF TypeOK
    <3> QED BY <1>1, <3>1, KeptOrLost
  <2> QED BY <2>1, <2>2
<1>3. Ledger!Lose(lost)
  BY <1>2 DEF Ledger!Lose, Ledger!Without, Book
<1> QED BY <1>3 DEF Ledger!Next

LEMMA IssueRefines ==
    ASSUME TypeOK, MapInv, MapInv', NEW c \in Contributors, NEW p \in Purposes,
           Issue(c, p)
    PROVE  Ledger!Next
<1>1. PICK lost \in SUBSET Ids : lost = {i \in Ids : ~Live(i)'}
  OBVIOUS
<1>2. PICK n \in Ids : n = Len(log) + 1
  BY IssueLogged
<1>3. /\ Len(log) \in Nat /\ Len(log') = n /\ n \in Nat
      /\ \A i \in 1..Len(log) : log'[i] = log[i]
      /\ log'[n] = [owner |-> c, purpose |-> p]
  BY <1>2, IssueLogged
<1> DEFINE issue == [id |-> n, owner |-> c, purpose |-> p, expired |-> FALSE]
<1>4. /\ challenges' = Room(c) \cup {issue} /\ Room(c) \subseteq challenges
      /\ grants' = grants
  BY <1>2, RoomIsMade DEF Issue
<1>5. issue.id = n /\ ~issue.expired
  OBVIOUS
<1> HIDE DEF issue
<1>6. \A i \in Ids : i # n => (Live(i)' => Live(i))
  BY <1>4, <1>5 DEF Live, Unexpired
<1>7. Live(n)'
  BY <1>4, <1>5 DEF Live, Unexpired
<1>8. Book[n] = Unissued
  BY <1>2, <1>3, NotYetIssued
<1>9. Book'[n] = [state |-> "live", owner |-> c, purpose |-> p]
  <2>1. grants'[n] = <<>>
    BY <1>2, <1>3, <1>4 DEF MapInv, GrantedAtMostOnce
  <2>2. StateOf(n)' = "live"
    BY <1>7, <2>1 DEF StateOf, Live
  <2>3. ~(n > Len(log'))
    BY <1>3
  <2>4. Book'[n] = [state |-> StateOf(n)', owner |-> log'[n].owner,
                    purpose |-> log'[n].purpose]
    BY <2>3 DEF Book
  <2> QED BY <1>3, <2>2, <2>4
<1> DEFINE without == [i \in Ids |-> IF i \in lost /\ Book[i].state = "live"
                                     THEN [Book[i] EXCEPT !.state = "gone"]
                                     ELSE Book[i]]
<1>10. Book' = [without EXCEPT ![n] = [state |-> "live", owner |-> c, purpose |-> p]]
  <2> SUFFICES ASSUME NEW i \in Ids, i # n
               PROVE  Book'[i] = IF i \in lost /\ Book[i].state = "live"
                                 THEN [Book[i] EXCEPT !.state = "gone"] ELSE Book[i]
    BY <1>9 DEF Book
  <2>1. CASE i > Len(log)
    <3>1. i > Len(log')
      BY <1>2, <1>3, <2>1, IdsAreNatural
    <3>2. Book[i] = Unissued /\ Book'[i] = Unissued
      BY <2>1, <3>1 DEF Book
    <3> QED BY <3>2 DEF Unissued
  <2>2. CASE ~(i > Len(log))
    <3>1. i <= Len(log) /\ i <= Len(log') /\ Len(log') \in Nat /\ i \in 1..Len(log)
      BY <1>2, <1>3, <2>2, IdsAreNatural
    <3> QED BY <1>1, <1>3, <1>4, <1>6, <3>1, KeptOrLost
  <2> QED BY <2>1, <2>2
<1>11. Ledger!IssueInPlaceOf(n, c, p, lost)
  BY <1>8, <1>10 DEF Ledger!IssueInPlaceOf, Ledger!Without, Book, Unissued
<1> QED BY <1>11 DEF Ledger!Next

LEMMA ConsumeRefines ==
    ASSUME TypeOK, MapInv, MapInv', NEW i \in Ids, NEW c \in Contributors,
           NEW p \in Purposes, Consume(i, c, p)
    PROVE  Ledger!Next
<1>1. PICK x \in challenges :
        /\ x.id = i /\ challenges' = challenges \ {x}
        /\ grants' = IF x.expired THEN grants
                     ELSE [grants EXCEPT ![i] = <<log[i]>>]
  BY ConsumeEffect
<1>2. /\ log' = log /\ i \in 1..Len(log) /\ Len(log) \in Nat
      /\ log[i] = [owner |-> c, purpose |-> p]
  BY ConsumeEffect DEF TypeOK
<1>3. CASE x.expired
  <2>1. \A j \in Ids : Live(j)' => Live(j)
    BY <1>1 DEF Live, Unexpired
  <2> QED BY <1>1, <1>2, <1>3, <2>1, LossRefines
<1>4. CASE ~x.expired
  <2>1. grants[i] = <<>> /\ Live(i)
    BY <1>1, <1>4 DEF MapInv, GrantedAtMostOnce, Live, Unexpired
  <2>2. Book[i] = [state |-> "live", owner |-> c, purpose |-> p]
    BY <1>2, <2>1, EntryOf
  <2>3. grants'[i] = <<log[i]>> /\ \A j \in Ids \ {i} : grants'[j] = grants[j]
    BY <1>1, <1>4 DEF TypeOK
  <2>4. StateOf(i)' = "consumed"
    BY <1>2, <2>3 DEF StateOf
  <2>5. \A j \in Ids \ {i} : Live(j)' <=> Live(j)
    BY <1>1 DEF Live, Unexpired
  <2>6. \A j \in Ids \ {i} : StateOf(j)' = StateOf(j)
    BY <1>2, <2>3, <2>5 DEF StateOf, Live
  <2>7. Book' = [Book EXCEPT ![i].state = "consumed"]
    <3>1. Book'[i] = [state |-> "consumed", owner |-> c, purpose |-> p]
      BY <1>2, <2>4, IdsAreNatural DEF Book
    <3>2. \A j \in Ids \ {i} : Book'[j] = Book[j]
      BY <1>2, <2>6 DEF Book
    <3>3. [Book EXCEPT ![i].state = "consumed"]
            = [j \in Ids |-> IF j = i THEN [state |-> "consumed", owner |-> c,
                                            purpose |-> p]
                             ELSE Book[j]]
      <4>1. Book = [j \in Ids |-> Book[j]]
        BY DEF Book
      <4> QED BY <2>2, <4>1
    <3> QED BY <3>1, <3>2, <3>3 DEF Book
  <2>8. Ledger!Consume(i, c, p)
    BY <2>2, <2>7 DEF Ledger!Consume, Ledger!IsLive, Book
  <2> QED BY <2>8 DEF Ledger!Next
<1> QED BY <1>3, <1>4

(* A challenge belongs to one account and one purpose and is given back at   *)
(* most once, to that account for that purpose: every function of the Map is *)
(* a step of ChallengeLedger, for any limits.                                *)
THEOREM MapImplementsLedger == Spec => ImplementsLedger
<1>1. Init => Ledger!Init
  <2> SUFFICES ASSUME Init PROVE Ledger!Init
    OBVIOUS
  <2>1. \A i \in Ids : i > Len(log)
    BY IdsAreNatural DEF Init
  <2> QED BY <2>1 DEF Ledger!Init, Ledger!Blank, Unissued
<1>2. ASSUME TypeOK, MapInv, MapInv', [Next]_vars
      PROVE  [Ledger!Next]_Book
  <2> USE <1>2
  <2>1. ASSUME \A x \in Unexpired(challenges)' : \E y \in Unexpired(challenges) : x.id = y.id,
               UNCHANGED <<log, grants>>
        PROVE  Ledger!Next
    BY <2>1, LossRefines DEF Live
  <2>2. ASSUME NEW c \in Contributors, RefuseToIssue(c) PROVE Ledger!Next
    BY <2>1, <2>2, RoomIsMade DEF RefuseToIssue, Unexpired
  <2>3. ASSUME NEW i \in Ids, NEW c \in Contributors, NEW p \in Purposes,
               Inspect(i, c, p)
        PROVE  Ledger!Next
    BY <2>1, <2>3 DEF Inspect, Unexpired
  <2>4. ASSUME NEW x \in challenges, Expire(x) PROVE Ledger!Next
    <3> DEFINE late == [x EXCEPT !.expired = TRUE]
    <3>1. late.expired
      BY DEF TypeOK, Challenge
    <3>2. challenges' = (challenges \ {x}) \cup {late} /\ UNCHANGED <<log, grants>>
      BY <2>4 DEF Expire
    <3> HIDE DEF late
    <3> QED BY <2>1, <3>1, <3>2 DEF Unexpired
  <2>5. CASE Sweep \/ Restart
    BY <2>1, <2>5 DEF Sweep, Restart, Unexpired
  <2>6. CASE UNCHANGED vars
    BY <2>6 DEF vars, Book, StateOf, Unexpired
  <2> QED
    BY <2>2, <2>3, <2>4, <2>5, <2>6, IssueRefines, ConsumeRefines DEF Next
<1>3. [Ledger!Next]_Book => [Ledger!Next]_([i \in Ids |->
                  IF i > Len(log) THEN Unissued
                  ELSE [state |-> StateOf(i), owner |-> log[i].owner,
                        purpose |-> log[i].purpose]])
  BY DEF Book
<1> QED
  BY <1>1, <1>2, <1>3, TypeCorrect, MapConsistent, PTL
  DEF Spec, ImplementsLedger, Ledger!Spec

-----------------------------------------------------------------------------
(* The attempt limiter. *)

(* Inductive: the types alone are not, for it is the lock of tier 4 that     *)
(* keeps the tier from growing further.                                      *)
LimiterInv == LimiterTypeOK /\ RowsAccount

LEMMA LimiterStarts == LimiterInit => LimiterInv
<1> SUFFICES ASSUME LimiterInit PROVE LimiterInv
  OBVIOUS
<1> USE ThresholdsArePositive
<1>1. LimiterTypeOK
  BY DEF LimiterInit, LimiterTypeOK, Row, RequestState, Fresh, Idle
<1>2. RowsAccount
  BY DEF LimiterInit, RowsAccount, Fresh, Earlier, Threshold
<1> QED
  BY <1>1, <1>2 DEF LimiterInv

(* What touching a key does to its row and to the count.                     *)
LEMMA TouchKeepsRows ==
    ASSUME LimiterInv, NEW key \in Keys, Touch(key)
    PROVE  /\ rows' \in [Keys -> Row]
           /\ admitted' \in [Keys -> Nat]
           /\ RowsAccount'
<1> USE ThresholdsArePositive
<1>0. /\ rows \in [Keys -> Row] /\ admitted \in [Keys -> Nat]
      /\ rows[key] \in Row /\ admitted[key] \in Nat
      /\ rows[key].tier \in 0..4 /\ rows[key].attempts \in Nat
  BY DEF LimiterInv, LimiterTypeOK, Row
<1>1. \A k \in Keys :
        /\ admitted[k] = Earlier(rows[k].tier) + rows[k].attempts
        /\ rows[k].attempts < Threshold(rows[k].tier)
        /\ rows[k].tier = 4 => rows[k].lock = "appeal" /\ rows[k].attempts = 0
  BY DEF LimiterInv, RowsAccount
<1>2. CASE Locked(key)
  <2>1. rows' = rows /\ admitted' = admitted
    BY <1>2 DEF Touch, Admits
  <2> QED
    BY <2>1, <1>0, <1>1 DEF RowsAccount
<1>3. CASE ~Locked(key) /\ LastAttempt(key)
  <2>1. /\ rows' = [rows EXCEPT ![key] = Escalated(rows[key])]
        /\ admitted' = admitted
    BY <1>3 DEF Touch, Admits
  <2>2. rows[key].tier \in 0..3
    BY <1>0, <1>1, <1>3 DEF Locked
  <2>3. rows[key].attempts = Threshold(rows[key].tier) - 1
    BY <1>0, <1>1, <1>3, <2>2 DEF LastAttempt, Threshold
  <2>4. Escalated(rows[key]) \in Row
    BY <1>0, <2>2 DEF Escalated, Row
  <2>5. rows' \in [Keys -> Row] /\ rows'[key] = Escalated(rows[key])
    BY <1>0, <2>1, <2>4
  <2>6. admitted[key] = Earlier(Escalated(rows[key]).tier)
    BY <1>0, <1>1, <2>2, <2>3 DEF Escalated, Earlier, Threshold
  <2>7. Escalated(rows[key]).attempts = 0
    BY DEF Escalated
  <2>8. Escalated(rows[key]).tier = 4 => Escalated(rows[key]).lock = "appeal"
    BY <1>0, <2>2 DEF Escalated
  <2>9. 0 < Threshold(Escalated(rows[key]).tier)
    BY DEF Threshold
  <2>10. ASSUME NEW k \in Keys
         PROVE  /\ admitted'[k] = Earlier(rows'[k].tier) + rows'[k].attempts
                /\ rows'[k].attempts < Threshold(rows'[k].tier)
                /\ rows'[k].tier = 4 =>
                      rows'[k].lock = "appeal" /\ rows'[k].attempts = 0
    <3>1. CASE k = key
      BY <3>1, <1>0, <2>1, <2>5, <2>6, <2>7, <2>8, <2>9
    <3>2. CASE k # key
      <4>1. rows'[k] = rows[k] /\ admitted'[k] = admitted[k]
        BY <3>2, <1>0, <2>1
      <4> QED
        BY <4>1, <1>1
    <3> QED
      BY <3>1, <3>2
  <2> QED
    BY <2>1, <2>5, <2>10, <1>0 DEF RowsAccount
<1>4. CASE ~Locked(key) /\ ~LastAttempt(key)
  <2>1. /\ rows' = [rows EXCEPT ![key] = Counted(rows[key])]
        /\ admitted' = [admitted EXCEPT ![key] = admitted[key] + 1]
    BY <1>4 DEF Touch, Admits
  <2>2. rows[key].attempts + 1 < Threshold(rows[key].tier)
    BY <1>0, <1>4 DEF LastAttempt, Threshold
  <2>3. Counted(rows[key]) \in Row
    BY <1>0 DEF Row, Counted
  <2>4. /\ rows' \in [Keys -> Row] /\ admitted' \in [Keys -> Nat]
        /\ rows'[key].attempts = rows[key].attempts + 1
        /\ rows'[key].tier = rows[key].tier /\ rows'[key].lock = rows[key].lock
        /\ admitted'[key] = admitted[key] + 1
    BY <1>0, <2>1, <2>3 DEF Row, Counted
  <2>5. rows[key].tier # 4
    BY <1>1, <1>4 DEF Locked
  <2>6. Earlier(rows[key].tier) \in Int
    BY <1>0 DEF Earlier
  <2>7. ASSUME NEW k \in Keys
        PROVE  /\ admitted'[k] = Earlier(rows'[k].tier) + rows'[k].attempts
               /\ rows'[k].attempts < Threshold(rows'[k].tier)
               /\ rows'[k].tier = 4 =>
                     rows'[k].lock = "appeal" /\ rows'[k].attempts = 0
    <3>1. CASE k = key
      BY <3>1, <1>0, <1>1, <2>2, <2>4, <2>5, <2>6
    <3>2. CASE k # key
      <4>1. rows'[k] = rows[k] /\ admitted'[k] = admitted[k]
        BY <3>2, <1>0, <2>1
      <4> QED
        BY <4>1, <1>1
    <3> QED
      BY <3>1, <3>2
  <2> QED
    BY <2>4, <2>7 DEF RowsAccount
<1> QED
  BY <1>2, <1>3, <1>4

LEMMA ResetKeepsRows ==
    ASSUME LimiterInv, NEW key \in Keys, Reset(key)
    PROVE  /\ rows' \in [Keys -> Row]
           /\ admitted' \in [Keys -> Nat]
           /\ RowsAccount'
<1> USE ThresholdsArePositive
<1>1. rows \in [Keys -> Row] /\ admitted \in [Keys -> Nat]
  BY DEF LimiterInv, LimiterTypeOK
<1>2. rows' = [rows EXCEPT ![key] = Fresh] /\ admitted' = [admitted EXCEPT ![key] = 0]
  BY DEF Reset
<1>3. Fresh \in Row
  BY DEF Fresh, Row
<1>4. rows' \in [Keys -> Row] /\ admitted' \in [Keys -> Nat]
  BY <1>1, <1>2, <1>3
<1>5. ASSUME NEW k \in Keys
      PROVE  /\ admitted'[k] = Earlier(rows'[k].tier) + rows'[k].attempts
             /\ rows'[k].attempts < Threshold(rows'[k].tier)
             /\ rows'[k].tier = 4 => rows'[k].lock = "appeal" /\ rows'[k].attempts = 0
  <2>1. CASE k = key
    BY <2>1, <1>1, <1>2 DEF Fresh, Earlier, Threshold
  <2>2. CASE k # key
    BY <2>2, <1>1, <1>2 DEF LimiterInv, RowsAccount
  <2> QED
    BY <2>1, <2>2
<1> QED
  BY <1>4, <1>5 DEF RowsAccount

LEMMA ExpireKeepsRows ==
    ASSUME LimiterInv, NEW key \in Keys, ExpireLock(key)
    PROVE  LimiterInv'
<1>1. rows \in [Keys -> Row] /\ rows[key] \in Row
  BY DEF LimiterInv, LimiterTypeOK
<1>2. /\ rows' = [rows EXCEPT ![key] = [rows[key] EXCEPT !.lock = "none"]]
      /\ admitted' = admitted /\ requests' = requests /\ rows[key].lock = "timed"
  BY DEF ExpireLock
<1>3. [rows[key] EXCEPT !.lock = "none"] \in Row
  BY <1>1 DEF Row
<1>4. LimiterTypeOK'
  BY <1>1, <1>2, <1>3 DEF LimiterInv, LimiterTypeOK
<1>5. rows[key].tier # 4
  BY <1>2 DEF LimiterInv, RowsAccount
<1>6. ASSUME NEW k \in Keys
      PROVE  /\ rows'[k].tier = rows[k].tier
             /\ rows'[k].attempts = rows[k].attempts
             /\ k # key => rows'[k].lock = rows[k].lock
  BY <1>1, <1>2 DEF Row
<1>7. RowsAccount'
  BY <1>2, <1>5, <1>6 DEF LimiterInv, RowsAccount
<1> QED
  BY <1>4, <1>7 DEF LimiterInv

LEMMA LimiterStepsKeepIt == LimiterInv /\ [LimiterNext]_limiterVars => LimiterInv'
<1> SUFFICES ASSUME LimiterInv, [LimiterNext]_limiterVars PROVE LimiterInv'
  OBVIOUS
<1>0. requests \in [Requests -> RequestState]
  BY DEF LimiterInv, LimiterTypeOK
<1>1. ASSUME NEW r \in Requests, NEW a \in Accounts, NEW d \in Devices,
             TouchAccount(r, a, d)
      PROVE  LimiterInv'
  <2>1. a \in Keys /\ Touch(a)
    BY <1>1 DEF TouchAccount, Keys
  <2>2. requests' \in [Requests -> RequestState]
    BY <1>0, <1>1 DEF TouchAccount, Starts, RequestState
  <2> QED
    BY <2>1, <2>2, TouchKeepsRows DEF LimiterInv, LimiterTypeOK
<1>2. ASSUME NEW r \in Requests, NEW a \in Accounts, NEW d \in Devices,
             CheckAccount(r, a, d) \/ StartCalibration(r, a, d)
      PROVE  LimiterInv'
  <2>1. rows' = rows /\ admitted' = admitted
    BY <1>2 DEF CheckAccount, StartCalibration
  <2>2. requests' \in [Requests -> RequestState]
    BY <1>0, <1>2 DEF CheckAccount, StartCalibration, Starts, RequestState
  <2> QED
    BY <2>1, <2>2 DEF LimiterInv, LimiterTypeOK, RowsAccount
<1>3. ASSUME NEW r \in Requests, TouchDevice(r)
      PROVE  LimiterInv'
  <2>1. requests[r].device \in Keys /\ Touch(requests[r].device)
    BY <1>0, <1>3 DEF TouchDevice, RequestState, Idle, Keys
  <2>2. requests' \in [Requests -> RequestState]
    BY <1>0, <1>3 DEF TouchDevice, Ends, RequestState
  <2> QED
    BY <2>1, <2>2, TouchKeepsRows DEF LimiterInv, LimiterTypeOK
<1>4. ASSUME NEW r \in Requests, CheckDevice(r) \/ GiveUp(r)
      PROVE  LimiterInv'
  <2>1. rows' = rows /\ admitted' = admitted
    BY <1>4 DEF CheckDevice, GiveUp
  <2>2. requests' \in [Requests -> RequestState]
    BY <1>0, <1>4 DEF CheckDevice, GiveUp, Goes, Ends, RequestState, Idle
  <2> QED
    BY <2>1, <2>2 DEF LimiterInv, LimiterTypeOK, RowsAccount
<1>5. ASSUME NEW r \in Requests, ResetAccount(r) \/ ClearAccount(r)
      PROVE  LimiterInv'
  <2>1. requests[r].account \in Keys /\ Reset(requests[r].account)
    BY <1>0, <1>5 DEF ResetAccount, ClearAccount, RequestState, Idle, Keys
  <2>2. requests' \in [Requests -> RequestState]
    BY <1>0, <1>5 DEF ResetAccount, ClearAccount, Goes, RequestState, Idle
  <2> QED
    BY <2>1, <2>2, ResetKeepsRows DEF LimiterInv, LimiterTypeOK
<1>6. ASSUME NEW r \in Requests, ResetDevice(r) \/ ClearDevice(r)
      PROVE  LimiterInv'
  <2>1. requests[r].device \in Keys /\ Reset(requests[r].device)
    BY <1>0, <1>6 DEF ResetDevice, ClearDevice, RequestState, Idle, Keys
  <2>2. requests' \in [Requests -> RequestState]
    BY <1>0, <1>6 DEF ResetDevice, ClearDevice, Ends, RequestState
  <2> QED
    BY <2>1, <2>2, ResetKeepsRows DEF LimiterInv, LimiterTypeOK
<1>7. CASE UNCHANGED limiterVars
  BY <1>7 DEF limiterVars, LimiterInv, LimiterTypeOK, RowsAccount
<1> QED
  BY <1>1, <1>2, <1>3, <1>4, <1>5, <1>6, <1>7, ExpireKeepsRows
     DEF LimiterNext, Step

(* Every request keeps every row of the limiter well-typed; in particular no *)
(* key climbs past the last tier.                                            *)
THEOREM LimiterTypeCorrect == LimiterSpec => []LimiterTypeOK
<1>1. LimiterInv => LimiterTypeOK
  BY DEF LimiterInv
<1> QED
  BY <1>1, LimiterStarts, LimiterStepsKeepIt, PTL DEF LimiterSpec

(* A row is the exact account of the attempts let through since its reset.   *)
THEOREM RowsAreTheAccount == LimiterSpec => []RowsAccount
<1>1. LimiterInv => RowsAccount
  BY DEF LimiterInv
<1> QED
  BY <1>1, LimiterStarts, LimiterStepsKeepIt, PTL DEF LimiterSpec

(* For any thresholds, no key is let through more often than the tiers allow *)
(* together before somebody succeeds with it.                                *)
THEOREM AttemptsAreBounded == LimiterSpec => []AttemptsBounded
<1>1. LimiterInv => AttemptsBounded
  <2> SUFFICES ASSUME LimiterInv, NEW key \in Keys
               PROVE  admitted[key] <= (First - 1) + (Second - 1) + 2 * (Third - 1)
    BY DEF AttemptsBounded
  <2> USE ThresholdsArePositive
  <2>1. rows[key].tier \in 0..4 /\ rows[key].attempts \in Nat
    BY DEF LimiterInv, LimiterTypeOK, Row
  <2> QED
    BY <2>1 DEF LimiterInv, RowsAccount, Earlier, Threshold
<1> QED
  BY <1>1, LimiterStarts, LimiterStepsKeepIt, PTL DEF LimiterSpec

-----------------------------------------------------------------------------
(* The keys that are locked, and what becomes of them in a step. *)
LockedKeys == {key \in Keys : Locked(key)}
LocksMove ==
    \/ \E key \in Keys \ LockedKeys : LockedKeys' = LockedKeys \cup {key}
    \/ \E key \in LockedKeys : LockedKeys' = LockedKeys \ {key}

LEMMA OneRowAtATime ==
    ASSUME LimiterInv, LimiterNext
    PROVE  \/ rows' = rows
           \/ \E key \in Keys :
                 \A k \in Keys \ {key} : rows'[k] = rows[k]
<1>0. rows \in [Keys -> Row] /\ requests \in [Requests -> RequestState]
  BY DEF LimiterInv, LimiterTypeOK
<1>1. ASSUME NEW key \in Keys,
             Touch(key) \/ Reset(key) \/ ExpireLock(key)
      PROVE  \A k \in Keys \ {key} : rows'[k] = rows[k]
  BY <1>0, <1>1 DEF Touch, Reset, ExpireLock
<1>2. ASSUME NEW r \in Requests, requests[r].pc # "free"
      PROVE  requests[r].account \in Keys /\ requests[r].device \in Keys
  BY <1>0, <1>2 DEF RequestState, Idle, Keys
<1>3. ASSUME NEW r \in Requests, Step(r)
      PROVE  \/ rows' = rows
             \/ \E key \in Keys :
                   Touch(key) \/ Reset(key) \/ ExpireLock(key)
  <2>1. ASSUME NEW a \in Accounts, NEW d \in Devices, TouchAccount(r, a, d)
        PROVE  \E key \in Keys : Touch(key)
    BY <2>1 DEF TouchAccount, Keys
  <2>2. CASE TouchDevice(r)
    BY <2>2, <1>2 DEF TouchDevice
  <2>3. CASE \/ ResetAccount(r) \/ ResetDevice(r)
             \/ ClearAccount(r) \/ ClearDevice(r)
    BY <2>3, <1>2 DEF ResetAccount, ResetDevice, ClearAccount, ClearDevice
  <2>4. ASSUME NEW a \in Accounts, NEW d \in Devices,
               CheckAccount(r, a, d) \/ StartCalibration(r, a, d)
        PROVE  rows' = rows
    BY <2>4 DEF CheckAccount, StartCalibration
  <2>5. CASE CheckDevice(r) \/ GiveUp(r)
    BY <2>5 DEF CheckDevice, GiveUp
  <2> QED
    BY <1>3, <2>1, <2>2, <2>3, <2>4, <2>5 DEF Step
<1> QED
  BY <1>1, <1>3 DEF LimiterNext

(* The endpoints see of the limiter a set of locked keys, the variable       *)
(* `locks` of ApproveFlow: every rl_touch, rl_check and rl_reset, of         *)
(* whatever request, locks one key (its Lock), unlocks one (its Unlock and   *)
(* ResetLimiter) or leaves them all as they are.                             *)
THEOREM LocksAreTheLimiters ==
    LimiterSpec => LockedKeys = {} /\ [][LocksMove]_LockedKeys
<1>1. LimiterInit => LockedKeys = {}
  BY DEF LimiterInit, LockedKeys, Locked, Fresh
<1>2. LimiterInv /\ [LimiterNext]_limiterVars => [LocksMove]_LockedKeys
  <2> SUFFICES ASSUME LimiterInv, [LimiterNext]_limiterVars,
                      LockedKeys' # LockedKeys
               PROVE  LocksMove
    OBVIOUS
  <2>1. rows' # rows /\ LimiterNext
    BY DEF LockedKeys, Locked, limiterVars
  <2>2. PICK key \in Keys : \A k \in Keys \ {key} : rows'[k] = rows[k]
    BY <2>1, OneRowAtATime
  <2>3. \A k \in Keys \ {key} : k \in LockedKeys' <=> k \in LockedKeys
    BY <2>2 DEF LockedKeys, Locked
  <2>4. CASE key \in LockedKeys'
    BY <2>3, <2>4 DEF LocksMove, LockedKeys
  <2>5. CASE key \notin LockedKeys'
    BY <2>3, <2>5 DEF LocksMove, LockedKeys
  <2> QED
    BY <2>4, <2>5
<1> QED
  BY <1>1, <1>2, LimiterStarts, LimiterStepsKeepIt, PTL DEF LimiterSpec
=============================================================================
