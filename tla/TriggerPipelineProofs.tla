----------------------- MODULE TriggerPipelineProofs -----------------------
(***************************************************************************)
(* CheckpointPublished and ReadyCovers of TriggerPipeline for every source *)
(* of events, every matching of rules and every size of the broker's and   *)
(* the pool's channels.                                                    *)
(*                                                                         *)
(* The argument follows an event through the evaluator.  Whatever the      *)
(* watcher has received is covered, but for the event it offers and the    *)
(* one in processEvent; those two are also what delivered is ahead of      *)
(* acknowledged.  After a failure of the source the offered event is lost, *)
(* and only what precedes the event in processEvent is still known.        *)
(***************************************************************************)
EXTENDS TriggerPipeline, TLAPS

Numbers ==
    /\ emitted \in 0 .. Last /\ saved \in 0 .. Last /\ base \in 0 .. Last
    /\ read \in 0 .. Last /\ out \in 0 .. Last /\ cur \in 0 .. Last
    /\ latest \in 0 .. Last /\ saving \in 0 .. Last
    /\ next \in Nat \ {0} /\ delivered \in Nat /\ acknowledged \in Nat

(* Every event after the base and up to n is covered.                      *)
DoneUpTo(n) == \A e \in base + 1 .. n : Covered(e)

Progress == DoneUpTo(saved) /\ DoneUpTo(latest) /\ DoneUpTo(saving)

(* Outside Start the evaluator holds no event; before it, no progress.     *)
Outside ==
    /\ eval # "run" => cur = 0 /\ out = 0
    /\ eval = "off" => latest = 0 /\ saving = 0 /\ delivered = acknowledged

Holding ==
    /\ cur # 0 => DoneUpTo(cur - 1) /\ cur <= read
    /\ cur # 0 => \A i \in 1 .. next - 1 : Task(cur, i) \in published
    /\ out # 0 => out <= read /\ cur < out /\ source = "open"

Receiving ==
    eval = "run" /\ source = "open" =>
        /\ \A e \in base + 1 .. read : e \notin {cur, out} => Covered(e)
        /\ delivered = acknowledged + (IF cur # 0 THEN 1 ELSE 0) + (IF out # 0 THEN 1 ELSE 0)

IInv == Numbers /\ Progress /\ Outside /\ Holding /\ Receiving

-----------------------------------------------------------------------------
LEMMA LastNat == Last \in Nat
BY PipelineAssumption

(* Steps of the broker and the pool do not reach the evaluator.            *)
LEMMA Aside ==
    ASSUME IInv, UNCHANGED <<saved, base, published, eval, watchVars, loopVars>>,
           emitted' \in 0 .. Last
    PROVE  IInv'
BY DEF IInv, Numbers, Progress, DoneUpTo, Covered, Outside, Holding, Receiving, watchVars, loopVars

LEMMA WatchStep == ASSUME IInv, Watch PROVE IInv'
<1>1. Numbers'
    BY DEF Watch, IInv, Numbers, loopVars
<1>2. eval = "off" /\ eval' = "run" /\ cur' = 0 /\ out' = 0 /\ latest' = 0 /\ saving' = 0
      /\ delivered' = acknowledged' /\ published' = published /\ saved' = saved
    BY DEF Watch, IInv, Outside, loopVars
<1>3. Outside' /\ Holding'
    BY <1>2 DEF Outside, Holding
<1>4. delivered' = acknowledged' + (IF cur' # 0 THEN 1 ELSE 0) + (IF out' # 0 THEN 1 ELSE 0)
    <2>1. acknowledged' \in Nat /\ delivered' = acknowledged' /\ cur' = 0 /\ out' = 0
        BY <1>1, <1>2 DEF Numbers
    <2>2. (IF cur' # 0 THEN 1 ELSE 0) = 0 /\ (IF out' # 0 THEN 1 ELSE 0) = 0
        BY <2>1
    <2>3. \A n \in Nat : n = n + 0 + 0
        OBVIOUS
    <2>4. QED
        BY <2>1, <2>2, <2>3
<1>5. CASE saved # 0 /\ read' = saved /\ UNCHANGED base
    <2>1. base' + 1 .. 0 = {}
        BY <1>5, LastNat DEF IInv, Numbers
    <2>2. Progress'
        BY <1>2, <1>5, <2>1 DEF IInv, Progress, DoneUpTo, Covered
    <2>3. Receiving'
        <3>1. \A e \in base' + 1 .. read' : Covered(e)'
            BY <1>2, <1>5 DEF IInv, Progress, DoneUpTo, Covered
        <3>2. QED
            BY <1>2, <1>4, <3>1 DEF Receiving
    <2>4. QED
        BY <1>1, <1>3, <2>2, <2>3 DEF IInv
<1>6. CASE saved = 0 /\ read' = emitted /\ base' = emitted
    <2>1. base' + 1 .. 0 = {} /\ base' + 1 .. read' = {}
        BY <1>6, LastNat DEF IInv, Numbers
    <2>2. Progress'
        BY <1>2, <1>6, <2>1 DEF Progress, DoneUpTo
    <2>3. Receiving'
        BY <1>2, <1>4, <2>1 DEF Receiving
    <2>4. QED
        BY <1>1, <1>3, <2>2, <2>3 DEF IInv
<1>7. QED
    BY <1>5, <1>6 DEF Watch

LEMMA WatchEventStep == ASSUME IInv, WatchEvent PROVE IInv'
<1>1. /\ eval = "run" /\ source = "open" /\ out = 0 /\ read' = read + 1 /\ read < emitted
      /\ UNCHANGED <<emitted, saved, base, published, eval, source, acknowledged, cur, next,
                     latest, saving>>
      /\ \/ read' \in Skipped /\ out' = 0 /\ delivered' = delivered
         \/ out' = read' /\ delivered' = delivered + 1
    BY DEF WatchEvent, Watching, sourceVars, loopVars
<1>2. Numbers'
    BY <1>1, LastNat DEF IInv, Numbers
<1>3. Progress' /\ Outside'
    BY <1>1 DEF IInv, Progress, DoneUpTo, Covered, Outside
<1>4. Holding'
    BY <1>1, <1>2, LastNat DEF IInv, Numbers, Holding, DoneUpTo, Covered
<1>5. Receiving'
    <2>1. \A e \in base + 1 .. read' : e \notin {cur, out'} => Covered(e)
        BY <1>1, LastNat DEF IInv, Numbers, Receiving, Covered
    <2>2. delivered' = acknowledged' + (IF cur' # 0 THEN 1 ELSE 0) + (IF out' # 0 THEN 1 ELSE 0)
        BY <1>1, <1>2, LastNat DEF IInv, Numbers, Receiving
    <2>3. QED
        BY <1>1, <2>1, <2>2 DEF Receiving, Covered
<1>6. QED
    BY <1>2, <1>3, <1>4, <1>5 DEF IInv

LEMMA TakeStep == ASSUME IInv, TakeEvent PROVE IInv'
<1>1. /\ eval = "run" /\ cur = 0 /\ out # 0 /\ out' = 0
      /\ UNCHANGED <<emitted, saved, base, published, eval, source, read, delivered, latest, saving>>
      /\ \/ out \in Empty /\ acknowledged' = acknowledged + 1 /\ UNCHANGED <<cur, next>>
         \/ cur' = out /\ next' = 1 /\ UNCHANGED acknowledged
    BY DEF TakeEvent, Acknowledge, sourceVars
<1>2. Numbers'
    BY <1>1 DEF IInv, Numbers
<1>3. Progress' /\ Outside'
    BY <1>1 DEF IInv, Progress, DoneUpTo, Covered, Outside
<1>4. \A e \in base + 1 .. read : e # out => Covered(e)
    BY <1>1, LastNat DEF IInv, Numbers, Holding, Receiving
<1>5. Holding'
    <2>1. cur' # 0 => DoneUpTo(cur' - 1) /\ cur' <= read
        BY <1>1, <1>4, LastNat DEF IInv, Numbers, Holding, DoneUpTo
    <2>2. cur' # 0 => 1 .. next' - 1 = {}
        BY <1>1
    <2>3. QED
        BY <1>1, <2>1, <2>2 DEF Holding, DoneUpTo, Covered
<1>6. Receiving'
    <2>1. \A e \in base + 1 .. read : e \notin {cur', out'} => Covered(e)
        BY <1>1, <1>4 DEF Covered
    <2>2. source = "open" => delivered' = acknowledged' + (IF cur' # 0 THEN 1 ELSE 0)
                                                        + (IF out' # 0 THEN 1 ELSE 0)
        BY <1>1, LastNat DEF IInv, Numbers, Receiving
    <2>3. QED
        BY <1>1, <2>1, <2>2 DEF Receiving, Covered
<1>7. QED
    BY <1>2, <1>3, <1>5, <1>6 DEF IInv

LEMMA PublishStep == ASSUME IInv, PublishTask PROVE IInv'
<1>1. /\ eval = "run" /\ cur # 0 /\ next' = next + 1
      /\ published' = published \cup {Task(cur, next)}
      /\ UNCHANGED <<emitted, saved, base, eval, watchVars, cur, latest, saving>>
    BY DEF PublishTask
<1>2. Numbers'
    BY <1>1 DEF IInv, Numbers, watchVars
<1>3. \A e : Covered(e) => Covered(e)'
    BY <1>1 DEF Covered
<1>4. Progress' /\ Outside'
    BY <1>1, <1>3 DEF IInv, Progress, DoneUpTo, Outside, watchVars
<1>5. Holding'
    BY <1>1, <1>3 DEF IInv, Numbers, Holding, DoneUpTo, watchVars
<1>6. Receiving'
    BY <1>1, <1>3 DEF IInv, Receiving, watchVars
<1>7. QED
    BY <1>2, <1>4, <1>5, <1>6 DEF IInv

(* The rules are done: the event is covered, and with it the progress.     *)
LEMMA FinishStep == ASSUME IInv, FinishEvent PROVE IInv'
<1>1. /\ eval = "run" /\ cur # 0 /\ next > Len(Match[cur]) /\ acknowledged' = acknowledged + 1
      /\ latest' = cur /\ cur' = 0
      /\ UNCHANGED <<emitted, saved, base, published, eval, source, read, out, delivered, next,
                     saving>>
    BY DEF FinishEvent, Acknowledge, sourceVars
<1>2. Numbers'
    BY <1>1, LastNat DEF IInv, Numbers
<1>3. Covered(cur)
    <2>1. cur \in Events /\ Len(Match[cur]) \in Nat
        BY <1>1, PipelineAssumption DEF IInv, Numbers, Events
    <2>2. QED
        BY <1>1, <2>1 DEF IInv, Numbers, Holding, Covered
<1>4. DoneUpTo(cur)
    BY <1>1, <1>3, LastNat DEF IInv, Numbers, Holding, DoneUpTo
<1>5. Progress' /\ Outside'
    BY <1>1, <1>4 DEF IInv, Progress, DoneUpTo, Covered, Outside
<1>6. Holding'
    BY <1>1, LastNat DEF IInv, Numbers, Holding
<1>7. Receiving'
    <2>1. source = "open" => \A e \in base + 1 .. read : e \notin {cur', out'} => Covered(e)
        BY <1>1, <1>3 DEF IInv, Receiving
    <2>2. source = "open" => delivered' = acknowledged' + (IF cur' # 0 THEN 1 ELSE 0)
                                                        + (IF out' # 0 THEN 1 ELSE 0)
        BY <1>1, <1>2 DEF IInv, Numbers, Receiving
    <2>3. QED
        BY <1>1, <2>1, <2>2 DEF Receiving, Covered
<1>8. QED
    BY <1>2, <1>5, <1>6, <1>7 DEF IInv

LEMMA SaveStep == ASSUME IInv, NEW ok \in BOOLEAN, SaveCheckpoint(ok) PROVE IInv'
<1>1. /\ saved' \in {saved, saving} /\ saving' = 0
      /\ UNCHANGED <<emitted, base, published, eval, watchVars, cur, next, latest>>
    BY DEF SaveCheckpoint
<1>2. Numbers'
    BY <1>1, LastNat DEF IInv, Numbers, watchVars
<1>3. Progress' /\ Outside'
    <2>1. base + 1 .. 0 = {}
        BY LastNat DEF IInv, Numbers
    <2>2. QED
        BY <1>1, <2>1 DEF IInv, Progress, DoneUpTo, Covered, Outside, watchVars
<1>4. Holding' /\ Receiving'
    BY <1>1 DEF IInv, Holding, Receiving, DoneUpTo, Covered, watchVars
<1>5. QED
    BY <1>2, <1>3, <1>4 DEF IInv

(* Steps that move a flag, or forget an event without any progress.        *)
LEMMA FlagStep ==
    ASSUME IInv,
           WatchReady \/ ObserveReady \/ SourceFails \/ SaverTakes \/ LeaveLoop
             \/ WatchFails \/ SaverExits
    PROVE  IInv'
<1>1. UNCHANGED <<emitted, saved, base, published>>
    BY DEF WatchReady, ObserveReady, SourceFails, SaverTakes, LeaveLoop, WatchFails, SaverExits,
         sourceVars
<1>2. CASE WatchReady \/ ObserveReady
    BY <1>1, <1>2 DEF WatchReady, ObserveReady, IInv, Numbers, Progress, DoneUpTo, Covered,
         Outside, Holding, Receiving, loopVars
<1>3. CASE SourceFails
    BY <1>1, <1>3, LastNat DEF SourceFails, IInv, Numbers, Progress, DoneUpTo, Covered, Outside,
         Holding, Receiving, loopVars
<1>4. CASE SaverTakes
    BY <1>1, <1>4 DEF SaverTakes, IInv, Numbers, Progress, DoneUpTo, Covered, Outside, Holding,
         Receiving, watchVars
<1>5. CASE WatchFails \/ SaverExits
    BY <1>1, <1>5 DEF WatchFails, SaverExits, IInv, Numbers, Progress, DoneUpTo, Covered,
         Outside, Holding, Receiving, watchVars, loopVars
<1>6. CASE LeaveLoop
    <2>1. /\ eval' = "ending" /\ cur' = 0 /\ out' = 0 /\ read' = 0 /\ delivered' = 0
          /\ acknowledged' = 0 /\ next' = 1 /\ latest' = latest /\ saving' = saving
        BY <1>6 DEF LeaveLoop
    <2>2. Numbers'
        BY <1>1, <2>1, LastNat DEF IInv, Numbers
    <2>3. QED
        BY <1>1, <2>1, <2>2 DEF IInv, Progress, DoneUpTo, Covered, Outside, Holding, Receiving
<1>7. QED
    BY <1>2, <1>3, <1>4, <1>5, <1>6

(* A crash leaves the source, the checkpoint and what was published.       *)
LEMMA RestartStep == ASSUME IInv, Restarted, UNCHANGED sourceVars PROVE IInv'
<1>1. /\ eval' = "off" /\ cur' = 0 /\ out' = 0 /\ read' = 0 /\ delivered' = 0
      /\ acknowledged' = 0 /\ next' = 1 /\ latest' = 0 /\ saving' = 0
      /\ UNCHANGED <<emitted, saved, base, published>>
    BY DEF Restarted, sourceVars
<1>2. Numbers'
    BY <1>1, LastNat DEF IInv, Numbers
<1>3. Progress'
    <2>1. base + 1 .. 0 = {}
        BY LastNat DEF IInv, Numbers
    <2>2. QED
        BY <1>1, <2>1 DEF IInv, Progress, DoneUpTo, Covered
<1>4. QED
    BY <1>1, <1>2, <1>3 DEF IInv, Outside, Holding, Receiving

LEMMA InitSound == Init => IInv
<1> SUFFICES ASSUME Init PROVE IInv
    OBVIOUS
<1>1. Numbers
    BY LastNat DEF Init, EvalInit, Numbers
<1>2. Progress
    <2>1. base + 1 .. 0 = {}
        BY DEF Init
    <2>2. QED
        BY <2>1 DEF Init, EvalInit, Progress, DoneUpTo
<1>3. QED
    BY <1>1, <1>2 DEF Init, EvalInit, IInv, Outside, Holding, Receiving

LEMMA NextSound == IInv /\ [Next]_vars => IInv'
<1> SUFFICES ASSUME IInv, [Next]_vars PROVE IInv'
    OBVIOUS
<1>1. CASE UNCHANGED vars
    BY <1>1, Aside DEF vars, sourceVars, evalVars, IInv, Numbers
<1>2. CASE Emit
    <2>1. emitted' \in 0 .. Last
        BY <1>2, LastNat DEF Emit, IInv, Numbers
    <2>2. QED
        BY <1>2, <2>1, Aside DEF Emit, evalVars
<1>3. CASE Evaluator
    BY <1>3, WatchStep, WatchEventStep, TakeStep, PublishStep, FinishStep, FlagStep, SaveStep
       DEF Evaluator
<1>4. CASE Delivery
    BY <1>4, Aside DEF Delivery, sourceVars, evalVars, IInv, Numbers
<1>5. CASE Stop \/ CancelEvaluator
    BY <1>5, Aside DEF Stop, CancelEvaluator, sourceVars, IInv, Numbers
<1>6. CASE CancelPool \/ ShutdownCloses
    BY <1>6, Aside DEF CancelPool, ShutdownCloses, sourceVars, evalVars, IInv, Numbers
<1>7. CASE Crash \/ Panic
    BY <1>7, RestartStep DEF Crash, Panic
<1>8. QED
    BY <1>1, <1>2, <1>3, <1>4, <1>5, <1>6, <1>7 DEF Next

LEMMA Invariant == Spec => []IInv
BY InitSound, NextSound, PTL DEF Spec

(* A restart from the checkpoint never skips a task that was not           *)
(* published, for any events, rules and channel sizes.                     *)
THEOREM CheckpointSafe == Spec => []CheckpointPublished
<1>1. IInv => CheckpointPublished
    BY DEF IInv, Progress, DoneUpTo, CheckpointPublished
<1>2. QED
    BY <1>1, Invariant, PTL

LEMMA ReadyStep ==
    ASSUME IInv, Next, ready', ~ready
    PROVE  \A e \in (IF saved > base THEN saved ELSE base) + 1 .. read : Covered(e)
<1>1. ObserveReady
    BY DEF Next, Emit, Evaluator, Watch, WatchFails, WatchEvent, WatchReady, SourceFails,
         TakeEvent, PublishTask, FinishEvent, LeaveLoop, SaverTakes, SaverExits, SaveCheckpoint,
         Delivery, Stop, CancelEvaluator, CancelPool, ShutdownCloses, Crash, Panic, Restarted,
         evalVars, watchVars
<1>2. out = 0 /\ cur = 0
    BY <1>1 DEF ObserveReady, IInv, Numbers, Receiving
<1>3. \A e \in base + 1 .. read : Covered(e)
    BY <1>1, <1>2, LastNat DEF ObserveReady, IInv, Numbers, Receiving
<1>4. QED
    BY <1>3, LastNat DEF IInv, Numbers

(* When the admission status turns ready, the tasks of everything the      *)
(* watcher has received are published.                                     *)
THEOREM ReadySafe == Spec => ReadyCovers
<1>1. IInv /\ [Next]_vars =>
        [ready' /\ ~ready =>
           \A e \in (IF saved > base THEN saved ELSE base) + 1 .. read : Covered(e)]_vars
    BY ReadyStep
<1>2. QED
    BY <1>1, Invariant, PTL DEF Spec, ReadyCovers
=============================================================================
