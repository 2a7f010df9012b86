-------------------------- MODULE TxBoundaryProofs --------------------------
(***************************************************************************)
(* Proofs about TxBoundary, for every set of addresses, every boundary and *)
(* every set of transactions.                                              *)
(***************************************************************************)
EXTENDS TxBoundary, TLAPS

B == DelegateBoundary.blocksPerGeneration

-----------------------------------------------------------------------------
(* Arithmetic.                                                             *)

(* Whole generations cover at most the blocks that passed. *)
LEMMA WholeGenerations ==
    ASSUME NEW age \in Nat, NEW b \in Nat \ {0}
    PROVE  age \div b \in Nat /\ b * (age \div b) <= age
  OBVIOUS

(* A product grows with its factor. *)
LEMMA ProductMonotone ==
    ASSUME NEW b \in Nat, NEW m \in Nat, NEW n \in Nat, m <= n
    PROVE  b * m <= b * n
  OBVIOUS

LEMMA ProductSuccessor ==
    ASSUME NEW b \in Nat, NEW m \in Nat
    PROVE  b * (m + 1) = b * m + b /\ b * m \in Nat
  OBVIOUS

LEMMA ProductDifference ==
    ASSUME NEW b \in Nat, NEW m \in Nat, NEW n \in Nat
    PROVE  b * (m - n) = b * m - b * n
  OBVIOUS

-----------------------------------------------------------------------------
(* Type correctness.                                                       *)

LEMMA BoundaryFacts ==
    ASSUME NEW k \in Kind
    PROVE  /\ BoundaryOf(k).txLimit \in Nat
           /\ BoundaryOf(k).blocksPerGeneration \in Nat \ {0}
           /\ B \in Nat \ {0}
           /\ MaxAge \in Nat
  BY BoundaryAssumption DEF BoundaryOf, BoundaryType, Kind, B, MaxAge, MaxGenerated

(* What one update gives back. *)
Generated(limit) == Smaller(MaxGenerated, limit.age \div B)

(* An update either leaves the entry alone, or takes a number of whole     *)
(* generations from both counts and restarts the clock.                    *)
LEMMA UpdateCases ==
    ASSUME NEW limit \in LimitPerAddr
    PROVE  LET after == UpdateLimitPerAddr(limit)
           IN  \/ limit.age < B /\ after = limit
               \/ /\ limit.age >= B
                  /\ Generated(limit) \in Nat
                  /\ B * Generated(limit) <= limit.age
                  /\ after = [count |-> [k \in Kind |-> Less(limit.count[k], Generated(limit))],
                              age   |-> 0]
  <1>1. B \in Nat \ {0} /\ limit.age \in Int /\ limit.age >= Never /\ Never = -1
    BY BoundaryFacts DEF LimitPerAddr, Kind, Never
  <1>2. CASE limit.age < B
    BY <1>2 DEF UpdateLimitPerAddr, B
  <1>3. CASE limit.age >= B
    <2>1. limit.age \in Nat
      BY <1>1, <1>3
    <2>2. limit.age \div B \in Nat /\ B * (limit.age \div B) <= limit.age
      BY <1>1, <2>1, WholeGenerations
    <2>3. Generated(limit) \in Nat /\ Generated(limit) <= limit.age \div B
      BY <2>2 DEF Generated, Smaller, MaxGenerated
    <2>4. B * Generated(limit) <= B * (limit.age \div B)
      BY <1>1, <2>2, <2>3, ProductMonotone
    <2>5. B * Generated(limit) \in Int /\ B * (limit.age \div B) \in Int
      BY <1>1, <2>2, <2>3
    <2>6. B * Generated(limit) <= limit.age
      BY <1>1, <2>2, <2>4, <2>5
    <2>7. UpdateLimitPerAddr(limit)
            = [count |-> [k \in Kind |-> Less(limit.count[k], Generated(limit))], age |-> 0]
      BY <1>1, <1>3 DEF UpdateLimitPerAddr, Generated, B
    <2> QED  BY <1>3, <2>3, <2>6, <2>7
  <1> QED  BY <1>1, <1>2, <1>3

LEMMA UpdateType ==
    ASSUME NEW limit \in LimitPerAddr
    PROVE  /\ UpdateLimitPerAddr(limit) \in LimitPerAddr
           /\ \A k \in Kind : UpdateLimitPerAddr(limit).count[k] <= limit.count[k]
           /\ UpdateLimitPerAddr(limit).age < B
  <1>1. 0 \in Never..MaxAge /\ B \in Nat \ {0}
    BY BoundaryFacts DEF Never, Kind
  <1>2. CASE limit.age < B /\ UpdateLimitPerAddr(limit) = limit
    BY <1>2 DEF LimitPerAddr
  <1>3. CASE /\ Generated(limit) \in Nat
             /\ UpdateLimitPerAddr(limit)
                  = [count |-> [k \in Kind |-> Less(limit.count[k], Generated(limit))],
                     age |-> 0]
    <2>1. \A k \in Kind : /\ Less(limit.count[k], Generated(limit)) \in Nat
                          /\ Less(limit.count[k], Generated(limit)) <= limit.count[k]
      BY <1>3 DEF Less, LimitPerAddr
    <2> QED  BY <1>1, <1>3, <2>1 DEF LimitPerAddr
  <1> QED  BY <1>2, <1>3, UpdateCases

LEMMA IncrementType ==
    ASSUME NEW limit \in LimitPerAddr, NEW kind \in Kind
    PROVE  /\ Increment(limit, kind) \in LimitPerAddr
           /\ Increment(limit, kind).count[kind] = limit.count[kind] + 1
           /\ \A k \in Kind \ {kind} : Increment(limit, kind).count[k] = limit.count[k]
  <1>1. 0 \in Never..MaxAge
    BY BoundaryFacts DEF Never, Kind
  <1> QED  BY <1>1 DEF Increment, LimitPerAddr

(* Every store, the committed one and the branch, has entries of the right *)
(* type and counts within the limits.                                      *)
Within(store) ==
    /\ store \in StoreType
    /\ \A a \in Addr, k \in Kind : store[a].count[k] <= BoundaryOf(k).txLimit

TypeInv ==
    /\ Within(limits) /\ Within(branch.limits)
    /\ level \in LevelType
    /\ branch \in [msgs : Seq(Msg), limits : StoreType, level : LevelType]

(* The entry that Accept writes. *)
Accepted(limit, kind) ==
    IF Bounded(kind) THEN Increment(UpdateLimitPerAddr(limit), kind)
                     ELSE UpdateLimitPerAddr(limit)

LEMMA AcceptedWithin ==
    ASSUME NEW limit \in LimitPerAddr, NEW kind \in Kind,
           \A k \in Kind : limit.count[k] <= BoundaryOf(k).txLimit,
           Allowed(UpdateLimitPerAddr(limit), kind)
    PROVE  /\ Accepted(limit, kind) \in LimitPerAddr
           /\ \A k \in Kind : Accepted(limit, kind).count[k] <= BoundaryOf(k).txLimit
  <1> DEFINE u == UpdateLimitPerAddr(limit)
  <1>1. /\ u \in LimitPerAddr
        /\ \A k \in Kind : u.count[k] <= BoundaryOf(k).txLimit
        /\ \A k \in Kind : u.count[k] \in Nat /\ BoundaryOf(k).txLimit \in Nat
    <2>1. u \in LimitPerAddr /\ \A k \in Kind : u.count[k] <= limit.count[k]
      BY UpdateType
    <2>2. \A k \in Kind : /\ u.count[k] \in Nat /\ limit.count[k] \in Nat
                          /\ BoundaryOf(k).txLimit \in Nat
      BY <2>1, BoundaryFacts DEF LimitPerAddr
    <2> QED  BY <2>1, <2>2
  <1>2. CASE Bounded(kind)
    <2>1. u.count[kind] < BoundaryOf(kind).txLimit
      BY <1>2 DEF Allowed
    <2>2. /\ Increment(u, kind) \in LimitPerAddr
          /\ Increment(u, kind).count[kind] = u.count[kind] + 1
          /\ \A k \in Kind \ {kind} : Increment(u, kind).count[k] = u.count[k]
      BY <1>1, IncrementType
    <2>3. \A k \in Kind : Increment(u, kind).count[k] <= BoundaryOf(k).txLimit
      <3> TAKE k \in Kind
      <3>1. CASE k = kind
        <4>1. u.count[kind] + 1 <= BoundaryOf(kind).txLimit
          BY <1>1, <2>1
        <4> QED  BY <3>1, <4>1, <2>2
      <3>2. CASE k # kind
        BY <3>2, <1>1, <2>2
      <3> QED  BY <3>1, <3>2
    <2> QED  BY <1>2, <2>2, <2>3 DEF Accepted
  <1>3. CASE ~ Bounded(kind)
    BY <1>1, <1>3 DEF Accepted
  <1> QED  BY <1>2, <1>3

(* The store and the bucket one block later. *)
Aged(store) ==
    [a \in Addr |-> [store[a] EXCEPT !.age = IF @ = Never THEN Never
                                             ELSE Smaller(@ + 1, MaxAge)]]

Drained(lev) == [k \in Kind |-> [a \in Addr |-> Less(lev[k][a], 1)]]

LEMMA AgedWithin ==
    ASSUME NEW store, Within(store)
    PROVE  Within(Aged(store))
  <1>1. Never = -1 /\ MaxAge \in Nat
    BY BoundaryFacts DEF Never, Kind
  <1>2. ASSUME NEW a \in Addr
        PROVE  /\ Aged(store)[a] \in LimitPerAddr
               /\ Aged(store)[a].count = store[a].count
    <2>1. store[a] \in LimitPerAddr
      BY DEF Within, StoreType, LimitPerAddr
    <2>2. Smaller(store[a].age + 1, MaxAge) \in Never..MaxAge
      BY <1>1, <2>1 DEF Smaller, LimitPerAddr
    <2> QED  BY <1>1, <2>1, <2>2 DEF Aged, LimitPerAddr
  <1>3. Aged(store) \in StoreType
    BY <1>2 DEF Aged, StoreType, LimitPerAddr
  <1> QED  BY <1>2, <1>3 DEF Within

(* What Accept writes to the branch. *)
AfterAccept ==
    LET msg == Head(branch.msgs)
    IN  [msgs   |-> Tail(branch.msgs),
         limits |-> [branch.limits EXCEPT ![msg.delegator] =
                       Accepted(branch.limits[msg.delegator], msg.kind)],
         level  |-> IF Bounded(msg.kind)
                    THEN [branch.level EXCEPT ![msg.kind][msg.delegator] =
                            @ + BoundaryOf(msg.kind).blocksPerGeneration]
                    ELSE branch.level]

LEMMA AcceptIsAfterAccept ==
    ASSUME Accept
    PROVE  /\ branch.msgs # <<>>
           /\ Allowed(UpdateLimitPerAddr(branch.limits[Head(branch.msgs).delegator]),
                      Head(branch.msgs).kind)
           /\ WriteWhenDone(AfterAccept)
  BY DEF Accept, AfterAccept, Accepted

LEMMA TypeInvStep ==
    ASSUME TypeInv, [Next]_vars
    PROVE  TypeInv'
  <1>1. CASE UNCHANGED vars
    BY <1>1 DEF vars, TypeInv, Within
  <1>2. ASSUME NEW tx \in Txs, AnteHandle(tx)
        PROVE  TypeInv'
    <2>1. tx \in Seq(Msg)
      BY TxAssumption
    <2>2. branch' = [msgs |-> tx, limits |-> limits, level |-> level]
      BY <1>2 DEF AnteHandle, Idle
    <2>3. limits' = limits /\ level' = level
      BY <1>2 DEF AnteHandle
    <2>4. branch' \in [msgs : Seq(Msg), limits : StoreType, level : LevelType]
      BY <2>1, <2>2 DEF TypeInv, Within
    <2> QED  BY <2>2, <2>3, <2>4 DEF TypeInv, Within
  <1>3. CASE Accept
    <2> DEFINE msg == Head(branch.msgs)
               limit == branch.limits[msg.delegator]
    <2>1. msg \in Msg /\ msg.kind \in Kind /\ msg.delegator \in Addr
      <3>1. branch.msgs \in Seq(Msg) /\ branch.msgs # <<>>
        BY <1>3, AcceptIsAfterAccept DEF TypeInv
      <3>2. Head(branch.msgs) \in Msg
        BY <3>1
      <3> QED  BY <3>2 DEF Msg
    <2>2. limit \in LimitPerAddr /\ \A k \in Kind : limit.count[k] <= BoundaryOf(k).txLimit
      BY <2>1 DEF TypeInv, Within, StoreType, LimitPerAddr
    <2>3. /\ Accepted(limit, msg.kind) \in LimitPerAddr
          /\ \A k \in Kind : Accepted(limit, msg.kind).count[k] <= BoundaryOf(k).txLimit
      BY <1>3, <2>1, <2>2, AcceptIsAfterAccept, AcceptedWithin
    <2>4. Within(AfterAccept.limits)
      <3>1. AfterAccept.limits = [branch.limits EXCEPT ![msg.delegator] = Accepted(limit, msg.kind)]
        BY DEF AfterAccept
      <3> QED  BY <2>3, <3>1 DEF TypeInv, Within, StoreType, LimitPerAddr
    <2>5. AfterAccept.level \in LevelType
      <3>1. BoundaryOf(msg.kind).blocksPerGeneration \in Nat
        BY <2>1, BoundaryFacts
      <3>2. branch.level \in LevelType
        BY DEF TypeInv
      <3>3. branch.level[msg.kind][msg.delegator] + BoundaryOf(msg.kind).blocksPerGeneration \in Nat
        BY <2>1, <3>1, <3>2 DEF LevelType
      <3> QED  BY <2>1, <3>2, <3>3 DEF AfterAccept, LevelType
    <2>6. AfterAccept.msgs \in Seq(Msg)
      BY <1>3, AcceptIsAfterAccept DEF AfterAccept, TypeInv
    <2>7. AfterAccept \in [msgs : Seq(Msg), limits : StoreType, level : LevelType]
      BY <2>4, <2>5, <2>6 DEF AfterAccept, Within
    <2>8. WriteWhenDone(AfterAccept)
      BY <1>3, AcceptIsAfterAccept
    <2>9. branch' = AfterAccept /\ limits' \in {limits, AfterAccept.limits}
          /\ level' \in {level, AfterAccept.level}
      BY <2>8 DEF WriteWhenDone
    <2> QED  BY <2>4, <2>5, <2>7, <2>9 DEF TypeInv, Within
  <1>4. CASE Deny
    BY <1>4 DEF Deny, Idle, TypeInv, Within
  <1>5. CASE NextBlock
    <2>1. /\ limits' = Aged(limits) /\ level' = Drained(level)
          /\ branch' = [msgs |-> <<>>, limits |-> Aged(limits), level |-> Drained(level)]
      BY <1>5 DEF NextBlock, Aged, Drained
    <2>2. Within(Aged(limits))
      BY AgedWithin DEF TypeInv
    <2>3. Drained(level) \in LevelType
      BY DEF Drained, Less, LevelType, TypeInv
    <2> QED  BY <2>1, <2>2, <2>3 DEF TypeInv, Within
  <1> QED  BY <1>1, <1>2, <1>3, <1>4, <1>5 DEF Next

LEMMA TypeInvInit ==
    ASSUME Init
    PROVE  TypeInv
  <1>1. Never \in Never..MaxAge
    BY BoundaryFacts DEF Never, Kind
  <1>2. Within(limits)
    BY <1>1, BoundaryFacts DEF Init, Within, StoreType
  <1> QED  BY <1>2 DEF Init, Idle, TypeInv, Within, LevelType

(* The store of x/tx-boundary keeps its type, and no count ever exceeds    *)
(* the limit of its boundary (validDelegateMsg, validRedelegateMsg).       *)
THEOREM TypeCorrect == Spec => []TypeOK
  <1>1. TypeInv => TypeOK
    BY DEF TypeInv, TypeOK, Within
  <1> QED  BY <1>1, TypeInvInit, TypeInvStep, PTL DEF Spec

-----------------------------------------------------------------------------
(* The rate.                                                               *)

(* Both kinds of message are paid back at the same pace. *)
SamePace ==
    RedelegateBoundary.blocksPerGeneration = DelegateBoundary.blocksPerGeneration

LEMMA OnePace ==
    ASSUME SamePace, NEW k \in Kind
    PROVE  BoundaryOf(k).blocksPerGeneration = B
  BY DEF SamePace, BoundaryOf, B

(* What the count of an entry says about the bucket: the part of the       *)
(* bucket that the blocks since the last update have not drained is        *)
(* covered by the count, up to the blocks that update dropped.             *)
Paced(limit, n, kind) ==
    /\ limit.age = Never => limit.count[kind] = 0 /\ n = 0
    /\ n = 0 \/ n + limit.age < B * limit.count[kind] + B

LEMMA UpdatePaced ==
    ASSUME NEW limit \in LimitPerAddr, NEW n \in Nat, NEW k \in Kind,
           Paced(limit, n, k)
    PROVE  Paced(UpdateLimitPerAddr(limit), n, k)
  <1> DEFINE g == Generated(limit)
             c == limit.count[k]
             u == UpdateLimitPerAddr(limit)
  <1>1. c \in Nat /\ B \in Nat \ {0} /\ limit.age \in Int /\ Never = -1
    BY BoundaryFacts DEF LimitPerAddr, Never
  <1>2. CASE u = limit
    BY <1>2
  <1>3. CASE /\ limit.age >= B /\ g \in Nat /\ B * g <= limit.age
             /\ u = [count |-> [j \in Kind |-> Less(limit.count[j], g)], age |-> 0]
    <2>1. u.age = 0 /\ u.count[k] = Less(c, g)
      BY <1>3
    <2>2. n = 0 \/ n + limit.age < B * c + B
      BY DEF Paced
    <2>3. B * c \in Nat /\ B * g \in Nat
      BY <1>1, <1>3
    <2>4. CASE c < g
      <3>1. B * (c + 1) <= B * g
        <4> HIDE DEF g, c
        <4>1. c + 1 \in Nat /\ c + 1 <= g
          BY <1>1, <1>3, <2>4
        <4> QED  BY <1>1, <1>3, <4>1, ProductMonotone
      <3>2. B * (c + 1) = B * c + B
        BY <1>1, ProductSuccessor
      <3>3. B * c + B <= limit.age
        BY <1>1, <1>3, <2>3, <3>1, <3>2
      <3>4. n = 0
        BY <1>1, <2>2, <2>3, <3>3
      <3> QED  BY <1>1, <2>1, <3>4 DEF Paced
    <2>5. CASE ~ (c < g)
      <3>1. u.count[k] = c - g
        BY <2>1, <2>5 DEF Less
      <3>2. B * (c - g) = B * c - B * g
        BY <1>1, <1>3, ProductDifference
      <3>3. n = 0 \/ n + 0 < (B * c - B * g) + B
        BY <1>1, <1>3, <2>2, <2>3
      <3> QED  BY <1>1, <2>1, <3>1, <3>2, <3>3 DEF Paced
    <2> QED  BY <2>4, <2>5
  <1> QED  BY <1>2, <1>3, UpdateCases

LEMMA IncrementPaced ==
    ASSUME NEW limit \in LimitPerAddr, NEW n \in Nat, NEW kind \in Kind,
           Paced(limit, n, kind), limit.age < B
    PROVE  /\ Paced(Increment(limit, kind), n + B, kind)
           /\ \A k \in Kind \ {kind} : \A m \in Nat :
                 Paced(limit, m, k) => Paced(Increment(limit, kind), m, k)
  <1> DEFINE c == limit.count[kind]
             i == Increment(limit, kind)
  <1>1. c \in Nat /\ B \in Nat \ {0} /\ limit.age \in Int /\ Never = -1 /\ limit.age >= Never
    BY BoundaryFacts DEF LimitPerAddr, Never
  <1>2. /\ i.count[kind] = c + 1
        /\ \A k \in Kind \ {kind} : i.count[k] = limit.count[k]
    BY IncrementType
  <1>3. /\ i.age = IF limit.age = Never THEN 0 ELSE limit.age
        /\ i.age \in Nat /\ i.age < B
    BY <1>1 DEF Increment
  <1>4. B * (c + 1) = B * c + B /\ B * c \in Nat
    BY <1>1, ProductSuccessor
  <1>5. n + B + i.age < B * c + B + B
    BY <1>1, <1>3, <1>4 DEF Paced
  <1>6. Paced(i, n + B, kind)
    BY <1>1, <1>2, <1>3, <1>4, <1>5 DEF Paced
  <1>7. ASSUME NEW k \in Kind \ {kind}, NEW m \in Nat, Paced(limit, m, k)
        PROVE  Paced(i, m, k)
    BY <1>1, <1>2, <1>3, <1>7 DEF Paced
  <1> QED  BY <1>6, <1>7

AllPaced(store, lev) == \A a \in Addr, k \in Kind : Paced(store[a], lev[k][a], k)

RateInv == AllPaced(limits, level) /\ AllPaced(branch.limits, branch.level)

LEMMA AcceptPaced ==
    ASSUME SamePace, TypeInv, RateInv, Accept
    PROVE  AllPaced(AfterAccept.limits, AfterAccept.level)
  <1> DEFINE msg == Head(branch.msgs)
             kind == msg.kind
             who == msg.delegator
             limit == branch.limits[who]
             u == UpdateLimitPerAddr(limit)
             after == Accepted(limit, kind)
  <1>1. kind \in Kind /\ who \in Addr
    <2>1. branch.msgs \in Seq(Msg) /\ branch.msgs # <<>>
      BY AcceptIsAfterAccept DEF TypeInv
    <2>2. msg \in Msg
      BY <2>1
    <2> QED  BY <2>2 DEF Msg
  <1>2. /\ limit \in LimitPerAddr
        /\ \A k \in Kind : branch.level[k][who] \in Nat
        /\ \A k \in Kind : Paced(limit, branch.level[k][who], k)
    BY <1>1 DEF TypeInv, StoreType, LevelType, LimitPerAddr, RateInv, AllPaced
  <1>3. /\ u \in LimitPerAddr /\ u.age < B
        /\ \A k \in Kind : Paced(u, branch.level[k][who], k)
    BY <1>2, UpdateType, UpdatePaced
  <1>4. ASSUME NEW k \in Kind
        PROVE  Paced(after, AfterAccept.level[k][who], k)
    <2>1. CASE ~ Bounded(kind)
      BY <2>1, <1>3, <1>4 DEF AfterAccept, Accepted
    <2>2. CASE Bounded(kind)
      <3>1. after = Increment(u, kind)
        BY <2>2 DEF Accepted
      <3>2. AfterAccept.level = [branch.level EXCEPT ![kind][who] = @ + B]
        BY <1>1, <2>2, OnePace DEF AfterAccept
      <3>3. CASE k = kind
        <4>1. AfterAccept.level[k][who] = branch.level[kind][who] + B
          BY <1>1, <3>2, <3>3 DEF TypeInv, LevelType
        <4>2. Paced(Increment(u, kind), branch.level[kind][who] + B, kind)
          BY <1>1, <1>2, <1>3, IncrementPaced
        <4> QED  BY <3>1, <3>3, <4>1, <4>2
      <3>4. CASE k # kind
        <4>1. AfterAccept.level[k][who] = branch.level[k][who]
          BY <1>1, <3>2, <3>4 DEF TypeInv, LevelType
        <4>2. Paced(u, branch.level[k][who], k) => Paced(Increment(u, kind), branch.level[k][who], k)
          BY <1>1, <1>2, <1>3, <3>4, IncrementPaced
        <4> QED  BY <1>3, <3>1, <4>1, <4>2
      <3> QED  BY <3>3, <3>4
    <2> QED  BY <2>1, <2>2
  <1>5. ASSUME NEW a \in Addr, NEW k \in Kind
        PROVE  Paced(AfterAccept.limits[a], AfterAccept.level[k][a], k)
    <2>1. AfterAccept.limits = [branch.limits EXCEPT ![who] = after]
      BY DEF AfterAccept
    <2>2. CASE a = who
      <3>1. AfterAccept.limits[a] = after
        BY <1>1, <2>1, <2>2 DEF TypeInv, StoreType
      <3> QED  BY <1>4, <2>2, <3>1
    <2>3. CASE a # who
      <3>1. AfterAccept.limits[a] = branch.limits[a]
        BY <2>1, <2>3 DEF TypeInv, StoreType
      <3>2. AfterAccept.level[k][a] = branch.level[k][a]
        BY <1>1, <2>3 DEF AfterAccept, TypeInv, LevelType
      <3> QED  BY <3>1, <3>2 DEF RateInv, AllPaced
    <2> QED  BY <2>2, <2>3
  <1> QED  BY <1>5 DEF AllPaced

LEMMA AgedPaced ==
    ASSUME NEW store \in StoreType, NEW lev \in LevelType, AllPaced(store, lev)
    PROVE  AllPaced(Aged(store), Drained(lev))
  <1> SUFFICES ASSUME NEW a \in Addr, NEW k \in Kind
               PROVE  Paced(Aged(store)[a], Drained(lev)[k][a], k)
    BY DEF AllPaced
  <1> DEFINE c == store[a].count[k]
             n == lev[k][a]
  <1>1. c \in Nat /\ n \in Nat /\ store[a].age \in Int /\ store[a].age >= Never
        /\ Never = -1 /\ B \in Nat \ {0} /\ MaxAge \in Nat
    BY BoundaryFacts DEF StoreType, LevelType, Never
  <1>2. /\ Aged(store)[a].count[k] = c
        /\ Aged(store)[a].age = IF store[a].age = Never THEN Never
                                ELSE Smaller(store[a].age + 1, MaxAge)
        /\ Drained(lev)[k][a] = Less(n, 1)
    BY DEF Aged, Drained, StoreType
  <1>3. Paced(store[a], n, k)
    BY DEF AllPaced
  <1>4. B * c \in Nat
    BY <1>1
  <1>5. CASE store[a].age = Never
    BY <1>1, <1>2, <1>3, <1>5 DEF Paced, Less
  <1>6. CASE store[a].age # Never
    <2>1. Aged(store)[a].age \in Nat /\ Aged(store)[a].age <= store[a].age + 1
      BY <1>1, <1>2, <1>6 DEF Smaller
    <2>2. CASE n = 0
      BY <1>1, <1>2, <2>1, <2>2 DEF Paced, Less
    <2>3. CASE n # 0
      <3>1. n + store[a].age < B * c + B
        BY <1>3, <2>3 DEF Paced
      <3>2. Less(n, 1) = n - 1
        BY <1>1, <2>3 DEF Less
      <3>3. (n - 1) + Aged(store)[a].age < B * c + B
        BY <1>1, <1>4, <2>1, <3>1
      <3> QED  BY <1>1, <1>2, <2>1, <3>2, <3>3 DEF Paced
    <2> QED  BY <2>2, <2>3
  <1> QED  BY <1>5, <1>6

LEMMA RateInvStep ==
    ASSUME SamePace, TypeInv, RateInv, [Next]_vars
    PROVE  RateInv'
  <1>1. CASE UNCHANGED vars
    BY <1>1 DEF vars, RateInv, AllPaced
  <1>2. ASSUME NEW tx \in Txs, AnteHandle(tx)
        PROVE  RateInv'
    BY <1>2 DEF AnteHandle, Idle, RateInv, AllPaced
  <1>3. CASE Accept
    <2>1. AllPaced(AfterAccept.limits, AfterAccept.level)
      BY <1>3, AcceptPaced
    <2>2. WriteWhenDone(AfterAccept)
      BY <1>3, AcceptIsAfterAccept
    <2>3. /\ branch' = AfterAccept
          /\ \/ limits' = limits /\ level' = level
             \/ limits' = AfterAccept.limits /\ level' = AfterAccept.level
      BY <2>2 DEF WriteWhenDone
    <2> QED  BY <2>1, <2>3 DEF RateInv, AllPaced
  <1>4. CASE Deny
    BY <1>4 DEF Deny, Idle, RateInv, AllPaced
  <1>5. CASE NextBlock
    <2>1. /\ limits' = Aged(limits) /\ level' = Drained(level)
          /\ branch' = [msgs |-> <<>>, limits |-> Aged(limits), level |-> Drained(level)]
      BY <1>5 DEF NextBlock, Aged, Drained
    <2>2. AllPaced(Aged(limits), Drained(level))
      BY AgedPaced DEF TypeInv, Within, RateInv
    <2> QED  BY <2>1, <2>2 DEF RateInv, AllPaced
  <1> QED  BY <1>1, <1>2, <1>3, <1>4, <1>5 DEF Next

LEMMA RateInvInit ==
    ASSUME Init
    PROVE  RateInv
  BY DEF Init, Idle, RateInv, AllPaced, Paced, Kind

LEMMA PacedWithinRate ==
    ASSUME SamePace, TypeInv, RateInv
    PROVE  WithinRate
  <1> SUFFICES ASSUME NEW a \in Addr, NEW k \in Kind
               PROVE  level[k][a] < (BoundaryOf(k).txLimit + 1) * BoundaryOf(k).blocksPerGeneration
    BY DEF WithinRate
  <1> DEFINE c == limits[a].count[k]
             n == level[k][a]
             lim == BoundaryOf(k).txLimit
             age == limits[a].age
  <1>1. /\ c \in Nat /\ n \in Nat /\ age \in Int /\ age >= Never /\ Never = -1
        /\ B \in Nat \ {0} /\ lim \in Nat /\ c <= lim
    BY BoundaryFacts DEF TypeInv, Within, StoreType, LevelType, Never
  <1>2. BoundaryOf(k).blocksPerGeneration = B
    BY OnePace
  <1>3. B * c <= B * lim /\ B * c \in Nat
    BY <1>1, ProductMonotone
  <1>4. B * (lim + 1) = B * lim + B /\ B * lim \in Nat
    BY <1>1, ProductSuccessor
  <1>5. (lim + 1) * B = B * (lim + 1)
    BY <1>1
  <1>6. Paced(limits[a], n, k)
    BY DEF RateInv, AllPaced
  <1>7. n < B * lim + B
    <2>1. CASE n = 0
      BY <1>1, <1>4, <2>1
    <2>2. CASE n # 0
      <3>1. n + age < B * c + B /\ age # Never
        BY <1>6, <2>2 DEF Paced
      <3>2. age >= 0
        BY <1>1, <3>1
      <3> HIDE DEF n, c, lim, age
      <3> QED  BY <1>1, <1>3, <1>4, <3>1, <3>2
    <2> QED  BY <2>1, <2>2
  <1> QED  BY <1>2, <1>4, <1>5, <1>7

(* When both boundaries have the same blocksPerGeneration, as the default  *)
(* genesis has, no address gets more messages through than its limit and   *)
(* the blocks that passed allow, however messages of both kinds and blocks *)
(* interleave (UpdateLimitPerAddr, validDelegateMsg, validRedelegateMsg).  *)
THEOREM RateIsBounded ==
    ASSUME SamePace
    PROVE  Spec => []WithinRate
  <1> DEFINE Inv == TypeInv /\ RateInv
  <1>1. Init => Inv
    BY TypeInvInit, RateInvInit
  <1>2. Inv /\ [Next]_vars => Inv'
    BY TypeInvStep, RateInvStep
  <1>3. Inv => WithinRate
    BY PacedWithinRate
  <1> QED  BY <1>1, <1>2, <1>3, PTL DEF Spec
=============================================================================
