---------------------------- MODULE ReplicaAuth ----------------------------
(***************************************************************************)
(* The authorisation gate of the replica ledger (replica_budget.go): a     *)
(* bounded FIFO of callers, a concurrency limit, tokens refilled by time   *)
(* and a single timer that is armed only when a token is what is missing.  *)
(***************************************************************************)
EXTENDS Naturals, Sequences, FiniteSets

CONSTANTS Callers, AuthConcurrency, AuthBurst, WaitCap

ASSUME AuthAssumption ==
  AuthConcurrency \in Nat \ {0} /\ AuthBurst \in Nat \ {0} /\ IsFiniteSet(Callers)

VARIABLES waiters,   \* b.authWaiters
          caller,    \* idle, waiting, granted (not yet noticed), running
          running,   \* b.used.AuthRunning
          tokens,    \* b.authTokens at the last dispatch
          elapsed,   \* whole tokens that have accrued since
          timer      \* b.authTimer is armed

gate == <<waiters, caller, running, tokens, elapsed, timer>>

GateInit ==
  /\ waiters = <<>> /\ caller = [c \in Callers |-> "idle"]
  /\ running = 0 /\ tokens = AuthBurst /\ elapsed = 0 /\ timer = FALSE

Least(S) == CHOOSE n \in S: \A m \in S: n <= m

\* The queue without c: what stands behind it moves up.
PlaceOf(q, c) == CHOOSE i \in 1..Len(q): q[i] = c
Without(q, c) == [i \in 1..Len(q) - 1 |-> IF i < PlaceOf(q, c) THEN q[i] ELSE q[i + 1]]

MutantDispatchAuth(q, who, busy) ==
  LET have == Least({AuthBurst, tokens + elapsed})
      n == Least({Len(q), AuthConcurrency - busy, have})
      first == {q[i]: i \in 1..n}
  IN
  /\ waiters' = SubSeq(q, n + 1, Len(q))
  /\ caller' = [c \in Callers |-> IF c \in first THEN "granted" ELSE who[c]]
  /\ running' = busy + n /\ tokens' = have - n /\ elapsed' = 0
  /\ timer' = (timer /\ n < Len(q))

\* dispatchAuthLocked, with the queue q, the callers who and busy of them running.
dispatchAuth(q, who, busy) ==
  LET have == Least({AuthBurst, tokens + elapsed})
      n == Least({Len(q), AuthConcurrency - busy, have})
      first == {q[i]: i \in 1..n}
  IN
  /\ waiters' = SubSeq(q, n + 1, Len(q))
  /\ caller' = [c \in Callers |-> IF c \in first THEN "granted" ELSE who[c]]
  /\ running' = busy + n /\ tokens' = have - n /\ elapsed' = 0
  /\ timer' = (n < Len(q) /\ busy + n < AuthConcurrency)

acquireAuth(c) ==
  /\ caller[c] = "idle" /\ Len(waiters) < WaitCap
  /\ dispatchAuth(Append(waiters, c), [caller EXCEPT ![c] = "waiting"], running)

Ready(c) ==
  /\ caller[c] = "granted" /\ caller' = [caller EXCEPT ![c] = "running"]
  /\ UNCHANGED <<waiters, running, tokens, elapsed, timer>>

MutantCancel(c) ==
  /\ caller[c] \in {"waiting", "granted"}
  /\ dispatchAuth(Without(waiters, c), [caller EXCEPT ![c] = "idle"], running)

\* The caller's context is done: it leaves the queue, or gives back what it was granted
\* whether or not it had noticed.
Cancel(c) ==
  \/ /\ caller[c] = "waiting"
     /\ dispatchAuth(Without(waiters, c), [caller EXCEPT ![c] = "idle"], running)
  \/ /\ caller[c] = "granted"
     /\ dispatchAuth(waiters, [caller EXCEPT ![c] = "idle"], running - 1)

releaseAuth(c) ==
  /\ caller[c] = "running"
  /\ dispatchAuth(waiters, [caller EXCEPT ![c] = "idle"], running - 1)

Tick ==
  /\ tokens + elapsed < AuthBurst /\ elapsed' = elapsed + 1
  /\ UNCHANGED <<waiters, caller, running, tokens, timer>>

TimerFires ==
  /\ timer /\ tokens + elapsed >= 1
  /\ dispatchAuth(waiters, caller, running)

GateNext ==
  \/ Tick \/ TimerFires
  \/ \E c \in Callers: acquireAuth(c) \/ Ready(c) \/ Cancel(c) \/ releaseAuth(c)

\* Time passes, an armed timer fires, and a caller that was granted the gate leaves it.
GateFairness ==
  /\ WF_gate(Tick) /\ WF_gate(TimerFires)
  /\ \A c \in Callers: WF_gate(Ready(c)) /\ WF_gate(releaseAuth(c))

GateSpec == GateInit /\ [][GateNext]_gate /\ GateFairness

(***************************************************************************)
(* Properties.                                                             *)
(***************************************************************************)
\* Nobody is stranded: every caller that waits is granted the gate or gives up, though
\* no one but the timer or a leaving caller looks at the queue (dispatchAuthLocked).
GateServes == \A c \in Callers: caller[c] = "waiting" ~> caller[c] # "waiting"

\* The gate counts exactly the callers inside it and never lets too many in, also when
\* a grant and a cancellation cross (acquireAuth, releaseAuth).
GateExact ==
  /\ running = Cardinality({c \in Callers: caller[c] \in {"granted", "running"}})
  /\ running <= AuthConcurrency
  /\ {waiters[i]: i \in 1..Len(waiters)} = {c \in Callers: caller[c] = "waiting"}
=============================================================================
