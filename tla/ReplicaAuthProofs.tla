------------------------- MODULE ReplicaAuthProofs -------------------------
(***************************************************************************)
(* GateExact of ReplicaAuth for every set of callers, every concurrency    *)
(* and every burst.                                                        *)
(*                                                                         *)
(* It is inductive once the queue is known to hold no caller twice: then   *)
(* dispatchAuth moves exactly n callers from the queue into the gate.      *)
(***************************************************************************)
EXTENDS ReplicaAuth, FiniteSetTheorems, TLAPS

Stages == {"idle", "waiting", "granted", "running"}

Distinct(q) == \A i, j \in 1..Len(q): q[i] = q[j] => i = j

Inside(who) == {c \in Callers: who[c] \in {"granted", "running"}}

(* The queue, the callers and the count agree.                             *)
Agree(q, who, busy) ==
  /\ q \in Seq(Callers) /\ Distinct(q) /\ who \in [Callers -> Stages]
  /\ busy = Cardinality(Inside(who)) /\ busy <= AuthConcurrency
  /\ {q[i]: i \in 1..Len(q)} = {c \in Callers: who[c] = "waiting"}

IInv == Agree(waiters, caller, running) /\ tokens \in Nat /\ elapsed \in Nat

-----------------------------------------------------------------------------
LEMMA LeastOfTwo ==
  ASSUME NEW a \in Nat, NEW b \in Nat
  PROVE  Least({a, b}) \in {a, b} /\ Least({a, b}) <= a /\ Least({a, b}) <= b
<1>1. \E n \in {a, b}: \A m \in {a, b}: n <= m
  OBVIOUS
<1>2. QED
  BY <1>1 DEF Least

LEMMA LeastOfThree ==
  ASSUME NEW a \in Nat, NEW b \in Nat, NEW c \in Nat
  PROVE  /\ Least({a, b, c}) \in {a, b, c}
         /\ Least({a, b, c}) <= a /\ Least({a, b, c}) <= b /\ Least({a, b, c}) <= c
<1>1. \E n \in {a, b, c}: \A m \in {a, b, c}: n <= m
  OBVIOUS
<1>2. QED
  BY <1>1 DEF Least

LEMMA InsideFinite ==
  ASSUME NEW who
  PROVE  IsFiniteSet(Inside(who)) /\ Cardinality(Inside(who)) \in Nat
<1>1. IsFiniteSet(Inside(who))
  BY AuthAssumption, FS_Subset DEF Inside
<1>2. QED
  BY <1>1, FS_CardinalityType

(* The first n of a queue without repetitions are n callers.               *)
LEMMA FirstCount ==
  ASSUME NEW q \in Seq(Callers), Distinct(q), NEW n \in 0..Len(q)
  PROVE  /\ IsFiniteSet({q[i]: i \in 1..n})
         /\ Cardinality({q[i]: i \in 1..n}) = n
<1> DEFINE F == {q[i]: i \in 1..n}
           f == [i \in 1..n |-> q[i]]
<1>1. IsFiniteSet(1..n) /\ Cardinality(1..n) = n
  BY FS_Interval
<1>2. f \in Bijection(1..n, F)
  BY DEF Bijection, Injection, Surjection, IsInjective, Distinct
<1>3. ExistsBijection(1..n, F)
  BY <1>2 DEF ExistsBijection
<1>4. QED
  BY <1>1, <1>2, <1>3, FS_Bijection

(* dispatchAuth keeps the agreement it finds.                              *)
LEMMA DispatchSound ==
  ASSUME NEW q, NEW who, NEW busy, Agree(q, who, busy), tokens \in Nat, elapsed \in Nat,
         dispatchAuth(q, who, busy)
  PROVE  IInv'
<1> DEFINE have == Least({AuthBurst, tokens + elapsed})
           n == Least({Len(q), AuthConcurrency - busy, have})
           first == {q[i]: i \in 1..n}
<1>1. /\ waiters' = SubSeq(q, n + 1, Len(q)) /\ running' = busy + n /\ tokens' = have - n
      /\ caller' = [c \in Callers |-> IF c \in first THEN "granted" ELSE who[c]]
      /\ elapsed' = 0
  BY DEF dispatchAuth
<1>2. /\ q \in Seq(Callers) /\ Distinct(q) /\ who \in [Callers -> Stages] /\ busy \in Nat
      /\ busy = Cardinality(Inside(who)) /\ busy <= AuthConcurrency
      /\ {q[i]: i \in 1..Len(q)} = {c \in Callers: who[c] = "waiting"}
  BY InsideFinite DEF Agree
<1>3. Len(q) \in Nat /\ AuthConcurrency - busy \in Nat /\ have \in Nat
  <2>1. AuthBurst \in Nat /\ tokens + elapsed \in Nat
    BY AuthAssumption
  <2>2. have \in Nat
    BY <2>1, LeastOfTwo
  <2>3. QED
    BY <1>2, <2>2, AuthAssumption
<1> HIDE DEF have
<1>4. n \in Nat /\ n <= Len(q) /\ n <= AuthConcurrency - busy /\ n <= have
  <2>1. /\ n \in {Len(q), AuthConcurrency - busy, have}
        /\ n <= Len(q) /\ n <= AuthConcurrency - busy /\ n <= have
    BY <1>3, LeastOfThree
  <2> HIDE DEF n
  <2>2. QED
    BY <1>3, <2>1
<1> HIDE DEF n
<1>5. tokens' \in Nat /\ elapsed' \in Nat /\ running' <= AuthConcurrency
  <2>1. have - n \in Nat
    BY <1>3, <1>4
  <2>2. busy + n <= AuthConcurrency
    BY <1>2, <1>3, <1>4, AuthAssumption
  <2>3. QED
    BY <1>1, <2>1, <2>2
<1>6. /\ waiters' \in Seq(Callers) /\ Len(waiters') = Len(q) - n
      /\ \A i \in 1..Len(q) - n: waiters'[i] = q[n + i]
  BY <1>1, <1>2, <1>3, <1>4
<1>7. Distinct(waiters')
  BY <1>2, <1>3, <1>4, <1>6 DEF Distinct
<1>8. first \subseteq {c \in Callers: who[c] = "waiting"}
  BY <1>2, <1>3, <1>4
<1>9. caller' \in [Callers -> Stages]
  BY <1>1, <1>2 DEF Stages
<1>10. {waiters'[i]: i \in 1..Len(waiters')} = {c \in Callers: caller'[c] = "waiting"}
  <2>1. ASSUME NEW c \in Callers, caller'[c] = "waiting"
        PROVE  \E i \in 1..Len(waiters'): waiters'[i] = c
    <3>1. who[c] = "waiting" /\ c \notin first
      BY <1>1, <2>1
    <3>2. PICK j \in 1..Len(q): q[j] = c
      BY <1>2, <3>1
    <3>3. j > n
      BY <1>3, <1>4, <3>1, <3>2
    <3>4. j - n \in 1..Len(waiters') /\ n + (j - n) = j
      BY <1>3, <1>4, <1>6, <3>2, <3>3
    <3>5. QED
      BY <1>6, <3>2, <3>4
  <2>2. ASSUME NEW i \in 1..Len(waiters')
        PROVE  waiters'[i] \in Callers /\ caller'[waiters'[i]] = "waiting"
    <3>1. n + i \in 1..Len(q) /\ waiters'[i] = q[n + i]
      BY <1>3, <1>4, <1>6
    <3>2. q[n + i] \in Callers /\ who[q[n + i]] = "waiting"
      BY <1>2, <3>1
    <3>3. q[n + i] \notin first
      BY <1>2, <1>3, <1>4, <3>1 DEF Distinct
    <3>4. QED
      BY <1>1, <3>1, <3>2, <3>3
  <2>3. QED
    BY <2>1, <2>2
<1>11. running' = Cardinality(Inside(caller'))
  <2>1. Inside(caller') = Inside(who) \cup first
    BY <1>1, <1>8 DEF Inside
  <2>2. Inside(who) \cap first = {}
    BY <1>8 DEF Inside
  <2>3. IsFiniteSet(first) /\ Cardinality(first) = n
    <3>1. n \in 0..Len(q)
      BY <1>3, <1>4
    <3>2. QED
      BY <1>2, <3>1, FirstCount
  <2>4. IsFiniteSet(Inside(who)) /\ Cardinality(Inside(who)) \in Nat
    BY InsideFinite
  <2> HIDE DEF first
  <2>5. Cardinality(Inside(who) \cup first) = Cardinality(Inside(who)) + Cardinality(first)
                                              - Cardinality(Inside(who) \cap first)
    BY <2>3, <2>4, FS_Union
  <2>6. Cardinality(Inside(who) \cup first) = busy + n - 0
    BY <1>2, <2>2, <2>3, <2>5, FS_EmptySet
  <2>7. busy + n - 0 = busy + n
    BY <1>2, <1>4
  <2>8. Cardinality(Inside(caller')) = Cardinality(Inside(who) \cup first)
    BY <2>1
  <2>9. QED
    BY <1>1, <2>6, <2>7, <2>8
<1>12. QED
  BY <1>5, <1>6, <1>7, <1>9, <1>10, <1>11 DEF IInv, Agree

-----------------------------------------------------------------------------
LEMMA AcquireStep == ASSUME IInv, NEW c \in Callers, acquireAuth(c) PROVE IInv'
<1> DEFINE q == Append(waiters, c)
           who == [caller EXCEPT ![c] = "waiting"]
<1>1. /\ waiters \in Seq(Callers) /\ Distinct(waiters) /\ caller \in [Callers -> Stages]
      /\ {waiters[i]: i \in 1..Len(waiters)} = {d \in Callers: caller[d] = "waiting"}
      /\ running = Cardinality(Inside(caller)) /\ running <= AuthConcurrency
      /\ caller[c] = "idle"
  BY DEF IInv, Agree, acquireAuth
<1>2. /\ q \in Seq(Callers) /\ Len(q) = Len(waiters) + 1 /\ Len(waiters) \in Nat
      /\ q[Len(waiters) + 1] = c /\ \A i \in 1..Len(waiters): q[i] = waiters[i]
  BY <1>1
<1>3. \A i \in 1..Len(waiters): waiters[i] # c
  BY <1>1
<1>4. Distinct(q)
  BY <1>1, <1>2, <1>3 DEF Distinct
<1>5. who \in [Callers -> Stages] /\ Inside(who) = Inside(caller)
  BY <1>1 DEF Inside, Stages
<1>6. {q[i]: i \in 1..Len(q)} = {d \in Callers: who[d] = "waiting"}
  <2>1. {q[i]: i \in 1..Len(q)} = {waiters[i]: i \in 1..Len(waiters)} \cup {c}
    BY <1>2
  <2>2. {d \in Callers: who[d] = "waiting"} = {d \in Callers: caller[d] = "waiting"} \cup {c}
    BY <1>1
  <2>3. QED
    BY <1>1, <2>1, <2>2
<1>7. Agree(q, who, running)
  BY <1>1, <1>2, <1>4, <1>5, <1>6 DEF Agree
<1>8. QED
  BY <1>7, DispatchSound DEF acquireAuth, IInv

(* A caller that waits leaves the queue without a gap.                     *)
LEMMA LeaveQueueStep ==
  ASSUME IInv, NEW c \in Callers, caller[c] = "waiting",
         dispatchAuth(Without(waiters, c), [caller EXCEPT ![c] = "idle"], running)
  PROVE  IInv'
<1> DEFINE q == Without(waiters, c)
           who == [caller EXCEPT ![c] = "idle"]
           p == PlaceOf(waiters, c)
           m == Len(waiters) - 1
<1>1. /\ waiters \in Seq(Callers) /\ Distinct(waiters) /\ caller \in [Callers -> Stages]
      /\ {waiters[i]: i \in 1..Len(waiters)} = {d \in Callers: caller[d] = "waiting"}
      /\ running = Cardinality(Inside(caller)) /\ running <= AuthConcurrency
      /\ Len(waiters) \in Nat
  BY DEF IInv, Agree
<1>2. p \in 1..Len(waiters) /\ waiters[p] = c
  <2>1. \E i \in 1..Len(waiters): waiters[i] = c
    BY <1>1
  <2>2. QED
    BY <2>1 DEF PlaceOf
<1>3. m \in Nat /\ q = [i \in 1..m |-> IF i < p THEN waiters[i] ELSE waiters[i + 1]]
  BY <1>1, <1>2 DEF Without
<1> HIDE DEF p, q
<1>4. /\ q \in Seq(Callers) /\ Len(q) = m
      /\ \A i \in 1..m: q[i] = waiters[IF i < p THEN i ELSE i + 1]
  <2>1. \A i \in 1..m: (IF i < p THEN waiters[i] ELSE waiters[i + 1]) \in Callers
    BY <1>1, <1>2, <1>3
  <2>2. QED
    BY <1>3, <2>1
<1>5. Distinct(q)
  <2> SUFFICES ASSUME NEW i \in 1..m, NEW j \in 1..m, q[i] = q[j] PROVE i = j
    BY <1>4 DEF Distinct
  <2> DEFINE a == IF i < p THEN i ELSE i + 1
             b == IF j < p THEN j ELSE j + 1
  <2>1. a \in 1..Len(waiters) /\ b \in 1..Len(waiters) /\ waiters[a] = waiters[b]
    BY <1>1, <1>2, <1>3, <1>4
  <2>2. a = b
    BY <1>1, <2>1 DEF Distinct
  <2>3. QED
    BY <1>2, <1>3, <2>2
<1>6. who \in [Callers -> Stages] /\ Inside(who) = Inside(caller)
  BY <1>1 DEF Inside, Stages
<1>7. {q[i]: i \in 1..Len(q)} = {d \in Callers: who[d] = "waiting"}
  <2>1. ASSUME NEW d \in Callers, who[d] = "waiting" PROVE \E i \in 1..m: q[i] = d
    <3>1. d # c /\ caller[d] = "waiting"
      BY <1>1, <2>1
    <3>2. PICK k \in 1..Len(waiters): waiters[k] = d
      BY <1>1, <3>1
    <3>3. k # p
      BY <1>2, <3>1, <3>2
    <3>4. CASE k < p
      BY <1>2, <1>3, <1>4, <3>2, <3>4
    <3>5. CASE k > p
      <4>1. k - 1 \in 1..m /\ ~(k - 1 < p) /\ (k - 1) + 1 = k
        BY <1>2, <1>3, <3>2, <3>5
      <4>2. QED
        BY <1>4, <3>2, <4>1
    <3>6. QED
      BY <1>2, <3>3, <3>4, <3>5
  <2>2. ASSUME NEW i \in 1..m PROVE q[i] \in Callers /\ who[q[i]] = "waiting"
    <3> DEFINE a == IF i < p THEN i ELSE i + 1
    <3>1. a \in 1..Len(waiters) /\ a # p /\ q[i] = waiters[a]
      BY <1>2, <1>3, <1>4
    <3>2. waiters[a] # c
      BY <1>1, <1>2, <3>1 DEF Distinct
    <3>3. waiters[a] \in Callers /\ caller[waiters[a]] = "waiting"
      BY <1>1, <3>1
    <3>4. QED
      BY <1>1, <3>1, <3>2, <3>3
  <2> HIDE DEF who, m
  <2>3. QED
    BY <1>4, <2>1, <2>2
<1>8. Agree(q, who, running)
  BY <1>1, <1>4, <1>5, <1>6, <1>7 DEF Agree
<1>9. QED
  BY <1>8, DispatchSound DEF q, IInv

(* A caller inside the gate leaves it, whether or not it had noticed.      *)
LEMMA LeaveGateStep ==
  ASSUME IInv, NEW c \in Callers, caller[c] \in {"granted", "running"},
         dispatchAuth(waiters, [caller EXCEPT ![c] = "idle"], running - 1)
  PROVE  IInv'
<1> DEFINE who == [caller EXCEPT ![c] = "idle"]
<1>1. /\ caller \in [Callers -> Stages]
      /\ running = Cardinality(Inside(caller)) /\ running <= AuthConcurrency
  BY DEF IInv, Agree
<1>2. who \in [Callers -> Stages] /\ Inside(who) = Inside(caller) \ {c} /\ c \in Inside(caller)
  BY <1>1 DEF Inside, Stages
<1>3. Cardinality(Inside(who)) = running - 1 /\ running \in Nat
  BY <1>1, <1>2, InsideFinite, FS_RemoveElement
<1>4. {d \in Callers: who[d] = "waiting"} = {d \in Callers: caller[d] = "waiting"}
  BY <1>1
<1>5. running - 1 <= AuthConcurrency
  BY <1>1, <1>3, AuthAssumption
<1> HIDE DEF who
<1>6. Agree(waiters, who, running - 1)
  BY <1>2, <1>3, <1>4, <1>5 DEF IInv, Agree
<1>7. QED
  BY <1>6, DispatchSound DEF IInv, who

LEMMA NoticeStep == ASSUME IInv, NEW c \in Callers, Ready(c) PROVE IInv'
<1>1. caller \in [Callers -> Stages] /\ caller[c] = "granted"
      /\ caller' = [caller EXCEPT ![c] = "running"]
  BY DEF IInv, Agree, Ready
<1>2. /\ caller' \in [Callers -> Stages] /\ Inside(caller') = Inside(caller)
      /\ {d \in Callers: caller'[d] = "waiting"} = {d \in Callers: caller[d] = "waiting"}
  BY <1>1 DEF Inside, Stages
<1>3. QED
  BY <1>2 DEF Ready, IInv, Agree

-----------------------------------------------------------------------------
LEMMA InitSound == GateInit => IInv
<1> SUFFICES ASSUME GateInit PROVE IInv
  OBVIOUS
<1>1. Inside(caller) = {} /\ caller \in [Callers -> Stages]
  BY DEF GateInit, Inside, Stages
<1>2. waiters \in Seq(Callers) /\ Len(waiters) = 0
  BY DEF GateInit
<1>3. {waiters[i]: i \in 1..Len(waiters)} = {c \in Callers: caller[c] = "waiting"}
      /\ Distinct(waiters)
  BY <1>2 DEF GateInit, Distinct
<1>4. running = Cardinality(Inside(caller)) /\ running <= AuthConcurrency
  BY <1>1, FS_EmptySet, AuthAssumption DEF GateInit
<1>5. tokens \in Nat /\ elapsed \in Nat
  BY AuthAssumption DEF GateInit
<1>6. QED
  BY <1>1, <1>2, <1>3, <1>4, <1>5 DEF IInv, Agree

LEMMA NextSound == IInv /\ [GateNext]_gate => IInv'
<1> SUFFICES ASSUME IInv, [GateNext]_gate PROVE IInv'
  OBVIOUS
<1>1. CASE UNCHANGED gate
  BY <1>1 DEF gate, IInv, Agree
<1>2. CASE Tick
  BY <1>2 DEF Tick, IInv, Agree
<1>3. CASE TimerFires
  BY <1>3, DispatchSound DEF TimerFires, IInv
<1>4. ASSUME NEW c \in Callers, Cancel(c) PROVE IInv'
  BY <1>4, LeaveQueueStep, LeaveGateStep DEF Cancel
<1>5. ASSUME NEW c \in Callers, releaseAuth(c) PROVE IInv'
  BY <1>5, LeaveGateStep DEF releaseAuth
<1>6. QED
  BY <1>1, <1>2, <1>3, <1>4, <1>5, AcquireStep, NoticeStep DEF GateNext

(* However grants, cancellations and releases cross, the gate counts       *)
(* exactly the callers inside it, never more than it may let in, and the   *)
(* queue holds exactly the callers that wait.                              *)
THEOREM GateCountsCallers == GateSpec => []GateExact
<1>1. IInv => GateExact
  BY DEF IInv, Agree, GateExact, Inside
<1>2. QED
  BY <1>1, InitSound, NextSound, PTL DEF GateSpec
=============================================================================
