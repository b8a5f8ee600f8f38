------------------------ MODULE PullerCaptureProofs -------------------------
(***************************************************************************)
(* Proofs about PullerCapture, for every number of source events, every    *)
(* assignment of keys to them, every batch size and every queue size.      *)
(***************************************************************************)
EXTENDS PullerCapture, SequenceTheorems, TLAPS

(* CaptureAssumption, with membership in Events spelt out.                 *)
LEMMA EventsAre ==
    /\ Last \in Nat
    /\ \A e : e \in Events <=> e \in Nat /\ 1 <= e /\ e <= Last
BY CaptureAssumption

LEMMA LenEmpty == Len(<<>>) = 0
BY EmptySeq

-----------------------------------------------------------------------------
(* What the two steps that rebuild the queue do to it, index by index.     *)

(* Write appends its event (writer.go Write).                              *)
LEMMA WriteFacts ==
    ASSUME Data, NEW e \in Events, Write(e)
    PROVE  /\ pending' \in Seq(Events)
           /\ Len(pending') = Len(pending) + 1
           /\ \A i \in 1 .. Len(pending) : pending'[i] = pending[i]
           /\ pending'[Len(pending) + 1] = e
           /\ Len(pending') + Len(flushing') <= QueueSize
<1>1. /\ pending' \in Seq(Events)
      /\ Len(pending') = Len(pending) + 1
      /\ \A i \in 1 .. Len(pending) : pending'[i] = pending[i]
      /\ pending'[Len(pending) + 1] = e
  BY AppendProperties DEF Data, BufferData, Write
<1>2. Len(pending) \in Nat /\ Len(flushing) \in Nat
  BY LenProperties DEF Data, BufferData
<1> QED BY <1>1, <1>2, SizesAssumption DEF Write, HasCapacity

(* flush() splits the queue at a point that leaves the batch non-empty     *)
(* (writer.go runBatcher).                                                 *)
LEMMA TakeBatchFacts ==
    ASSUME Data, TakeBatch
    PROVE  \E n \in 1 .. Len(pending) :
              /\ flushing' \in Seq(Events) /\ pending' \in Seq(Events)
              /\ Len(flushing') = n /\ Len(pending') = Len(pending) - n
              /\ \A i \in 1 .. n : flushing'[i] = pending[i]
              /\ \A i \in 1 .. Len(pending) - n : pending'[i] = pending[n + i]
<1> DEFINE n == IF Len(pending) < BatchSize THEN Len(pending) ELSE BatchSize
<1>1. /\ pending \in Seq(Events) /\ pending # <<>>
      /\ Len(pending) \in Nat \ {0}
      /\ \A i \in 1 .. Len(pending) : pending[i] \in Events
  BY EmptySeq, LenProperties, ElementOfSeq DEF Data, BufferData, TakeBatch
<1>2. n \in 1 .. Len(pending)
  BY <1>1, SizesAssumption
<1>3. flushing' = SubSeq(pending, 1, n) /\ pending' = SubSeq(pending, n + 1, Len(pending))
  BY DEF TakeBatch
<1> HIDE DEF n
<1>4. /\ flushing' \in Seq(Events)
      /\ Len(flushing') = n
      /\ \A i \in 1 .. n : flushing'[i] = pending[i]
  <2>1. \A i \in 1 .. n : pending[i] \in Events
    BY <1>1, <1>2
  <2> QED BY <1>2, <1>3, <2>1, SubSeqProperties
<1>5. /\ pending' \in Seq(Events)
      /\ Len(pending') = Len(pending) - n
      /\ \A i \in 1 .. Len(pending) - n : pending'[i] = pending[n + i]
  <2>1. \A i \in n + 1 .. Len(pending) : pending[i] \in Events
    BY <1>1, <1>2
  <2>2. n + 1 \in Int /\ Len(pending) \in Int
    BY <1>1, <1>2
  <2>3. /\ SubSeq(pending, n + 1, Len(pending)) \in Seq(Events)
        /\ Len(SubSeq(pending, n + 1, Len(pending)))
              = IF n + 1 <= Len(pending) THEN Len(pending) - (n + 1) + 1 ELSE 0
        /\ \A i \in 1 .. Len(pending) - (n + 1) + 1 :
              SubSeq(pending, n + 1, Len(pending))[i] = pending[n + 1 + i - 1]
    BY <2>1, <2>2, SubSeqProperties
  <2> QED BY <1>1, <1>2, <1>3, <2>3
<1> QED BY <1>2, <1>4, <1>5

-----------------------------------------------------------------------------
(* Type correctness.                                                       *)

LEMMA FlagsInvariance == Spec => []Flags
<1>1. Init => Flags
  BY Zenon DEF Init, BufferInit, Flags, BufferFlags
<1>2. Flags /\ [Next]_vars => Flags'
  <2> SUFFICES ASSUME Flags, [Next]_vars
               PROVE  Flags'
    OBVIOUS
  <2> USE DEF Flags, BufferFlags, bufferVars, captureVars
  <2>1. CASE BufferStep
    <3>1. CASE Batcher
      BY <2>1, <3>1, Zenon
         DEF BufferStep, Batcher, TakeBatch, CommitBatch, FailBatch, ClearBatch,
             BatcherExit
    <3>2. CASE Cleaner
      BY <2>1, <3>2, Zenon
         DEF BufferStep, Cleaner, PruneExpired, PruneBefore, PruneClamp,
             PruneCollect, PruneCommit, PruneFail
    <3> QED BY <2>1, <3>1, <3>2 DEF BufferStep
  <2>2. CASE SourceWrite \/ LoadCheckpoint \/ OpenStream \/ EmptyBatch
    BY <2>2, Zenon DEF SourceWrite, LoadCheckpoint, OpenStream, EmptyBatch, Terminal
  <2>3. CASE Receive \/ SaveBoundary
    BY <2>3, Zenon DEF Receive, Write, SaveBoundary, SaveCheckpoint
  <2>4. CASE SourceError \/ CaptureFailed
    BY <2>4, Zenon DEF SourceError, CaptureFailed, Unavailable, Terminal
  <2>5. CASE Stop \/ CaptureExit \/ CloseBuffer
    BY <2>5, Zenon DEF Stop, CaptureExit, CloseBuffer, Close, CloseDB
  <2>6. CASE Crash
    BY <2>6, Zenon DEF Crash, Restart
  <2>7. CASE UNCHANGED vars
    BY <2>7, Zenon DEF vars
  <2> QED BY <2>1, <2>2, <2>3, <2>4, <2>5, <2>6, <2>7 DEF Next
<1> QED BY <1>1, <1>2, PTL DEF Spec

LEMMA DataInvInit == Init => DataInv
<1> SUFFICES ASSUME Init
             PROVE  DataInv
  OBVIOUS
<1>0. Len(<<>>) + Len(<<>>) <= QueueSize
  BY SizesAssumption, LenEmpty
<1>1. BufferData
  BY <1>0, EmptySeq DEF Init, BufferInit, BufferData, Tokens, NoToken, NoKey
<1>2. origin \in 0 .. Last /\ origin <= src /\ (FromBeginning => origin = 0)
  BY CaptureAssumption DEF Init
<1>3. Data
  BY <1>1, <1>2, EventsAre DEF Init, Data, Tokens, NoToken
<1> QED
  BY <1>2, <1>3, EventsAre DEF Init, BufferInit, DataInv, NoToken

(* The token of a committed batch is an event of the source.               *)
LEMMA PersistBatchType ==
    ASSUME DataInv, batcher = "taken", PersistBatch
    PROVE  disk' \subseteq Keys /\ checkpoint' \in Tokens /\ checkpoint' <= Last
<1>1. flushing \in Seq(Events) /\ flushing # <<>>
  BY DEF DataInv, Data, BufferData
<1>2. /\ Len(flushing) \in 1 .. Len(flushing)
      /\ \A i \in 1 .. Len(flushing) : flushing[i] \in Events
  BY <1>1, EmptySeq, LenProperties, ElementOfSeq
<1>3. checkpoint' \in Events
  BY <1>2 DEF PersistBatch
<1>4. \A e \in SeqRange(flushing) : Key[e] \in Keys
  BY <1>2, KeysAssumption DEF SeqRange
<1> QED
  BY <1>3, <1>4, EventsAre
     DEF PersistBatch, DataInv, Data, BufferData, Tokens

LEMMA BatcherData ==
    ASSUME DataInv, Batcher, UNCHANGED captureVars
    PROVE  DataInv'
<1> USE DEF DataInv, Data, BufferData, captureVars
<1>1. CASE TakeBatch
  <2>1. flushing' \in Seq(Events) /\ pending' \in Seq(Events) /\ Len(flushing') # 0
    BY <1>1, TakeBatchFacts
  <2>2. flushing' # <<>>
    BY <2>1, EmptySeq
  <2>3. Len(pending') + Len(flushing') = Len(pending) + Len(flushing)
    <3>1. flushing = <<>>
      BY <1>1 DEF TakeBatch
    <3>2. Len(flushing) = 0 /\ Len(pending) \in Nat
      BY <3>1, LenEmpty, LenProperties
    <3>3. PICK n \in 1 .. Len(pending) :
             Len(flushing') = n /\ Len(pending') = Len(pending) - n
      BY <1>1, TakeBatchFacts
    <3> HIDE DEF DataInv, Data, BufferData
    <3> QED BY <3>2, <3>3
  <2> QED BY <1>1, <2>1, <2>2, <2>3 DEF TakeBatch
<1>2. CASE CommitBatch
  BY <1>2, PersistBatchType DEF CommitBatch
<1>3. CASE FailBatch
  BY <1>3, PersistBatchType DEF FailBatch
<1>4. CASE ClearBatch
  <2>1. Len(pending) + Len(<<>>) <= QueueSize
    BY LenEmpty, LenProperties, SizesAssumption
  <2> QED BY <1>4, <2>1, EmptySeq DEF ClearBatch
<1>5. CASE BatcherExit
  BY <1>5 DEF BatcherExit
<1> QED BY <1>1, <1>2, <1>3, <1>4, <1>5 DEF Batcher

LEMMA CleanerData ==
    ASSUME DataInv, Cleaner, UNCHANGED captureVars
    PROVE  DataInv'
<1> USE DEF DataInv, Data, BufferData, captureVars
<1>1. ASSUME NEW before \in Nat, NEW age \in BOOLEAN, PruneClamp(before, age)
      PROVE  DataInv'
  BY <1>1, KeysAssumption DEF PruneClamp
<1>2. CASE PruneExpired
  <2>1. PICK cutoff \in {Group[k] : k \in Keys} \cup {k + 1 : k \in disk} :
            PruneClamp(cutoff, TRUE)
    BY <1>2 DEF PruneExpired
  <2>2. cutoff \in Nat
    BY <2>1, KeysAssumption
  <2> QED BY <1>1, <2>1, <2>2
<1>3. CASE PruneBefore
  <2>1. \A e \in Queued : e \in Events
    BY ElementOfSeq DEF Queued, SeqRange
  <2>2. \A e \in Queued : Key[e] \in Nat
    BY <2>1, KeysAssumption
  <2>3. PICK k \in disk \cup {Key[e] : e \in Queued} : PruneClamp(k + 1, FALSE)
    BY <1>3 DEF PruneBefore
  <2>4. k + 1 \in Nat
    BY <2>2, <2>3, KeysAssumption
  <2> QED BY <1>1, <2>3, <2>4
<1>4. CASE PruneCollect
  BY <1>4 DEF PruneCollect, NoKey
<1>5. CASE PruneCommit
  BY <1>5, KeysAssumption DEF PruneCommit, NoKey
<1>6. CASE PruneFail
  BY <1>6 DEF PruneFail, NoKey
<1> QED BY <1>2, <1>3, <1>4, <1>5, <1>6 DEF Cleaner

LEMMA DataInvStep == DataInv /\ [Next]_vars => DataInv'
<1> SUFFICES ASSUME DataInv, [Next]_vars
             PROVE  DataInv'
  OBVIOUS
<1>1. CASE BufferStep
  BY <1>1, BatcherData, CleanerData DEF BufferStep
<1>5. CASE Receive
  <2>1. pos + 1 \in Events /\ Data /\ Write(pos + 1)
    BY <1>5, EventsAre DEF DataInv, Data, Receive
  <2>2. pending' \in Seq(Events) /\ Len(pending') + Len(flushing') <= QueueSize
    BY <2>1, WriteFacts
  <2> QED
    BY <1>5, <2>1, <2>2, EventsAre DEF DataInv, Data, BufferData, Receive, Write
<1> USE EventsAre DEF DataInv, Data, BufferData, bufferVars
<1>2. CASE SourceWrite
  BY <1>2 DEF SourceWrite
<1>3. CASE LoadCheckpoint
  BY <1>3 DEF LoadCheckpoint, Terminal
<1>4. CASE OpenStream
  BY <1>4 DEF OpenStream, Tokens, NoToken
<1>6. CASE EmptyBatch
  BY <1>6 DEF EmptyBatch
<1>7. CASE SaveBoundary
  BY <1>7 DEF SaveBoundary, SaveCheckpoint, Tokens
<1>8. CASE SourceError
  BY <1>8 DEF SourceError, Unavailable, Terminal
<1>9. CASE CaptureFailed
  BY <1>9 DEF CaptureFailed, Terminal
<1>10. CASE Stop
  BY <1>10 DEF Stop
<1>11. CASE CaptureExit
  BY <1>11 DEF CaptureExit
<1>12. CASE CloseBuffer
  BY <1>12 DEF CloseBuffer, Close, CloseDB, captureVars
<1>13. CASE Crash
  <2>1. Len(<<>>) + Len(<<>>) <= QueueSize
    BY SizesAssumption, LenEmpty
  <2> QED BY <1>13, <2>1, EmptySeq DEF Crash, Restart, Tokens, NoToken, NoKey
<1>14. CASE UNCHANGED vars
  BY <1>14 DEF vars, captureVars
<1> QED
  BY <1>1, <1>2, <1>3, <1>4, <1>5, <1>6, <1>7, <1>8, <1>9, <1>10, <1>11,
     <1>12, <1>13, <1>14 DEF Next

LEMMA DataInvariance == Spec => []DataInv
BY DataInvInit, DataInvStep, PTL DEF Spec

(* Every variable of the capture loop and of the buffer keeps its type; in *)
(* particular the checkpoint is always a token of the source, which needs  *)
(* that flush() never commits an empty batch (writer.go runBatcher).       *)
THEOREM TypeCorrect == Spec => []TypeOK
<1>1. Flags /\ DataInv => TypeOK
  BY DEF TypeOK, DataInv
<1> QED BY <1>1, FlagsInvariance, DataInvariance, PTL

-----------------------------------------------------------------------------
(* Head invariant.                                                         *)

(* Group prefixes are ordered as their keys are.                           *)
LEMMA GroupMonotone ==
    ASSUME NEW j \in Keys, NEW k \in Keys, j <= k
    PROVE  Group[j] <= Group[k]
BY KeysAssumption

LEMMA HeadFrame ==
    ASSUME HeadInv, UNCHANGED <<disk, floor, cleaner, limit, victims>>
    PROVE  HeadInv'
BY DEF HeadInv

(* A commit only adds keys, and an empty buffer has no floor.              *)
LEMMA HeadCommit ==
    ASSUME DataInv, DataInv', HeadInv, disk \subseteq disk',
           UNCHANGED <<floor, cleaner, limit, victims>>
    PROVE  HeadInv'
<1>1. CASE disk = {}
  <2>1. \A k \in disk' : 0 < Group[k]
    BY KeysAssumption DEF DataInv, Data, BufferData
  <2>2. floor = 0 /\ cleaner = "idle"
    BY <1>1 DEF HeadInv, NoKey
  <2> QED BY <2>1, <2>2 DEF HeadInv, NoKey
<1>2. CASE disk # {}
  BY <1>2 DEF HeadInv
<1> QED BY <1>1, <1>2

LEMMA HeadClamp ==
    ASSUME DataInv, HeadInv, NEW before \in Nat, NEW age \in BOOLEAN,
           PruneClamp(before, age)
    PROVE  HeadInv'
<1>1. PICK newest \in disk :
        limit' = IF Group[newest] < before THEN Group[newest] ELSE before
  BY DEF PruneClamp
<1>2. limit' <= Group[newest]
  BY <1>1, KeysAssumption DEF DataInv, Data, BufferData
<1> QED BY <1>2 DEF HeadInv, PruneClamp

(* The witness of the clamp survives the prune it bounds.                  *)
LEMMA HeadPrune ==
    ASSUME DataInv, HeadInv, PruneCommit
    PROVE  HeadInv'
<1>1. PICK k \in disk : limit <= Group[k]
  BY DEF HeadInv, PruneCommit
<1>2. PICK w \in disk : floor < Group[w]
  BY <1>1 DEF HeadInv
<1>3. PICK last \in victims : floor' = IF last <= floor THEN floor ELSE last
  BY DEF PruneCommit
<1>4. /\ k \in Nat /\ w \in Nat /\ last \in Nat /\ floor \in Nat /\ limit \in Nat
      /\ Group[k] \in Nat /\ Group[w] \in Nat
      /\ Group[k] < k /\ Group[w] < w
      /\ \A v \in victims : v \in Nat /\ v < limit
  BY KeysAssumption DEF DataInv, Data, BufferData, HeadInv
<1>5. k \in disk'
  BY <1>1, <1>4 DEF PruneCommit
<1>6. \E j \in disk' : floor' < Group[j]
  <2>1. CASE last > floor
    BY <2>1, <1>1, <1>3, <1>4, <1>5
  <2>2. CASE last <= floor /\ w \notin victims
    BY <2>2, <1>2, <1>3 DEF PruneCommit
  <2>3. CASE last <= floor /\ w \in victims
    BY <2>3, <1>1, <1>2, <1>3, <1>4, <1>5
  <2> QED BY <2>1, <2>2, <2>3, <1>4
<1> QED BY <1>5, <1>6 DEF HeadInv, PruneCommit

LEMMA HeadCleaner ==
    ASSUME DataInv, HeadInv, Cleaner
    PROVE  HeadInv'
<1> USE DEF DataInv, Data, BufferData
<1>1. CASE PruneExpired
  <2>1. PICK cutoff \in {Group[k] : k \in Keys} \cup {k + 1 : k \in disk} :
            PruneClamp(cutoff, TRUE)
    BY <1>1 DEF PruneExpired
  <2>2. cutoff \in Nat
    BY <2>1, KeysAssumption
  <2> QED BY <2>1, <2>2, HeadClamp
<1>2. CASE PruneBefore
  <2>1. PICK k \in disk \cup {Key[e] : e \in Queued} : PruneClamp(k + 1, FALSE)
    BY <1>2 DEF PruneBefore
  <2>2. \A e \in Queued : e \in Events
    BY ElementOfSeq DEF Queued, SeqRange
  <2>3. disk \subseteq Nat /\ \A e \in Events : Key[e] \in Nat
    BY KeysAssumption
  <2>4. k \in Nat
    BY <2>1, <2>2, <2>3
  <2>5. k + 1 \in Nat
    BY <2>4
  <2> QED BY <2>1, <2>5, HeadClamp
<1>3. CASE PruneCollect
  BY <1>3 DEF PruneCollect, HeadInv
<1>4. CASE PruneCommit
  BY <1>4, HeadPrune
<1>5. CASE PruneFail
  BY <1>5 DEF PruneFail, HeadInv
<1> QED BY <1>1, <1>2, <1>3, <1>4, <1>5 DEF Cleaner

LEMMA HeadStep == DataInv /\ DataInv' /\ HeadInv /\ [Next]_vars => HeadInv'
<1> SUFFICES ASSUME DataInv, DataInv', HeadInv, [Next]_vars
             PROVE  HeadInv'
  OBVIOUS
<1>1. CASE BufferStep
  <2>1. CASE Batcher
    <3>1. CASE CommitBatch \/ FailBatch
      BY <3>1, HeadCommit DEF CommitBatch, FailBatch, PersistBatch
    <3>2. CASE TakeBatch \/ ClearBatch \/ BatcherExit
      BY <3>2, HeadFrame DEF TakeBatch, ClearBatch, BatcherExit
    <3> QED BY <2>1, <3>1, <3>2 DEF Batcher
  <2> QED BY <1>1, <2>1, HeadCleaner DEF BufferStep
<1>2. CASE Crash
  BY <1>2 DEF Crash, Restart, HeadInv
<1>3. CASE Receive \/ SaveBoundary \/ CloseBuffer
  BY <1>3, HeadFrame
     DEF Receive, Write, SaveBoundary, SaveCheckpoint, CloseBuffer, Close, CloseDB
<1>4. CASE \/ SourceWrite \/ LoadCheckpoint \/ OpenStream \/ EmptyBatch
           \/ SourceError \/ CaptureFailed \/ Stop \/ CaptureExit
  BY <1>4, HeadFrame
     DEF SourceWrite, LoadCheckpoint, OpenStream, EmptyBatch, SourceError,
         CaptureFailed, Stop, CaptureExit, bufferVars
<1>5. CASE UNCHANGED vars
  BY <1>5, HeadFrame DEF vars, bufferVars
<1> QED BY <1>1, <1>2, <1>3, <1>4, <1>5 DEF Next

(* Scheduled cleanup leaves the group of the newest stored event above the *)
(* history floor, for every set of keys and whatever the batcher commits   *)
(* between the clamp, the collection and the deletion of a prune           *)
(* (buffer.go pruneBefore, deleteBeforeLocked).                            *)
THEOREM HeadSafe == Spec => []HeadReplayable
<1>1. Init => HeadInv
  BY DEF Init, BufferInit, HeadInv
<1>2. DataInv /\ HeadInv => HeadReplayable
  <2> SUFFICES ASSUME DataInv, HeadInv, NEW k \in disk, \A j \in disk : j <= k
               PROVE  floor < Group[k]
    BY DEF HeadReplayable
  <2>1. PICK w \in disk : floor < Group[w]
    BY DEF HeadInv
  <2>2. k \in Keys /\ w \in Keys /\ w <= k /\ floor \in Nat
    BY DEF DataInv, Data, BufferData
  <2>3. Group[w] <= Group[k] /\ Group[w] \in Nat /\ Group[k] \in Nat
    BY <2>2, GroupMonotone, KeysAssumption
  <2> QED BY <2>1, <2>2, <2>3
<1> QED BY <1>1, <1>2, HeadStep, DataInvariance, PTL DEF Spec

-----------------------------------------------------------------------------
(* Coverage only grows.                                                    *)

(* What is durable stays durable: a prune that deletes a key moves the     *)
(* floor past it in the same batch (buffer.go deleteBeforeLocked).         *)
LEMMA DurableStable ==
    ASSUME DataInv, [Next]_vars, NEW e \in Events, Durable(e)
    PROVE  Durable(e)'
<1>0. Key[e] \in Nat /\ floor \in Nat /\ victims \subseteq Nat
  BY KeysAssumption DEF DataInv, Data, BufferData
<1>1. CASE PruneCommit
  <2>1. PICK last \in victims :
          /\ \A k \in victims : k <= last
          /\ floor' = IF last <= floor THEN floor ELSE last
    BY <1>1 DEF PruneCommit
  <2>2. last <= floor' /\ floor <= floor' /\ floor' \in Nat /\ last \in Nat
    BY <1>0, <2>1
  <2>3. CASE Key[e] \in victims
    BY <1>0, <2>1, <2>2, <2>3 DEF Durable
  <2>4. CASE Key[e] \notin victims
    BY <1>0, <1>1, <2>2, <2>4 DEF Durable, PruneCommit
  <2> QED BY <2>3, <2>4
<1>2. CASE Batcher \/ (Cleaner /\ ~PruneCommit)
  <2>1. disk \subseteq disk' /\ floor' = floor
    BY <1>2
       DEF Batcher, Cleaner, TakeBatch, CommitBatch, FailBatch, PersistBatch,
           ClearBatch, BatcherExit, PruneExpired, PruneBefore, PruneClamp,
           PruneCollect, PruneFail
  <2> QED BY <2>1 DEF Durable
<1>3. CASE ~BufferStep
  <2>1. disk' = disk /\ floor' = floor
    BY <1>3
       DEF Next, vars, bufferVars, SourceWrite, LoadCheckpoint, OpenStream,
           Receive, Write, EmptyBatch, SaveBoundary, SaveCheckpoint,
           SourceError, CaptureFailed, Stop, CaptureExit, CloseBuffer, Close,
           CloseDB, Crash, Restart
  <2> QED BY <2>1 DEF Durable
<1> QED BY <1>1, <1>2, <1>3 DEF BufferStep

(* A stream opened without a token starts no earlier than the last one.    *)
LEMMA OriginGrows ==
    ASSUME DataInv, [Next]_vars
    PROVE  origin <= origin'
<1>1. origin \in Int /\ origin <= src /\ (FromBeginning => origin = 0)
  BY EventsAre DEF DataInv, Data
<1>2. CASE OpenStream
  BY <1>1, <1>2, EventsAre DEF OpenStream
<1>3. CASE ~OpenStream
  <2>1. origin' = origin
    BY <1>3
       DEF Next, vars, captureVars, SourceWrite, LoadCheckpoint, Receive,
           EmptyBatch, SaveBoundary, SourceError, CaptureFailed, Stop,
           CaptureExit, CloseBuffer, BufferStep, Crash, Unavailable, Terminal
  <2> QED BY <1>1, <2>1
<1> QED BY <1>2, <1>3

(* What is covered stays covered.                                          *)
LEMMA CoverStable ==
    ASSUME DataInv, DataInv', [Next]_vars, NEW e, NEW S, CoveredBy(e, S),
           NEW f \in Events, origin' < f, f <= e
    PROVE  Durable(f)' \/ f \in S
<1>1. origin \in Int /\ origin' \in Int /\ f \in Int
  BY EventsAre DEF DataInv, Data
<1>2. origin < f
  BY <1>1, OriginGrows
<1> QED BY <1>2, DurableStable DEF CoveredBy

-----------------------------------------------------------------------------
(* The queue.                                                              *)

(* Only Write, the batcher and a restart touch the queue.                  *)
LEMMA QuietQueue ==
    ASSUME [Next]_vars, ~Batcher, ~Receive, ~Crash
    PROVE  UNCHANGED <<pending, flushing, batcher, failed>> /\ (closed => closed')
<1>1. CASE Cleaner /\ UNCHANGED captureVars
  <2>1. CASE PruneExpired
    BY <2>1 DEF PruneExpired, PruneClamp
  <2>2. CASE PruneBefore
    BY <2>2 DEF PruneBefore, PruneClamp
  <2>3. CASE PruneCollect
    BY <2>3 DEF PruneCollect
  <2>4. CASE PruneCommit
    BY <2>4 DEF PruneCommit
  <2>5. CASE PruneFail
    BY <2>5 DEF PruneFail
  <2> QED BY <1>1, <2>1, <2>2, <2>3, <2>4, <2>5 DEF Cleaner
<1>2. CASE SourceWrite \/ LoadCheckpoint \/ OpenStream \/ EmptyBatch
  BY <1>2 DEF SourceWrite, LoadCheckpoint, OpenStream, EmptyBatch, bufferVars
<1>3. CASE SaveBoundary \/ SourceError \/ CaptureFailed
  BY <1>3
     DEF SaveBoundary, SaveCheckpoint, SourceError, CaptureFailed, bufferVars
<1>4. CASE Stop \/ CaptureExit \/ CloseBuffer
  BY <1>4 DEF Stop, CaptureExit, CloseBuffer, Close, CloseDB, bufferVars
<1>5. CASE UNCHANGED vars
  BY <1>5 DEF vars, bufferVars
<1> QED BY <1>1, <1>2, <1>3, <1>4, <1>5 DEF Next, BufferStep

(* After a commit the whole batch is on disk.                              *)
LEMMA PersistDurable ==
    ASSUME PersistBatch, NEW f \in SeqRange(flushing)
    PROVE  Durable(f)'
BY DEF PersistBatch, Durable

LEMMA BatcherStep == DataInv /\ BatcherInv /\ [Next]_vars => BatcherInv'
<1> SUFFICES ASSUME DataInv, BatcherInv, [Next]_vars
             PROVE  BatcherInv'
  OBVIOUS
<1>1. \A e \in SeqRange(flushing) : e \in Events
  BY ElementOfSeq DEF SeqRange, DataInv, Data, BufferData
<1>2. CASE TakeBatch
  BY <1>2 DEF TakeBatch, BatcherInv
<1>3. CASE CommitBatch
  BY <1>3, PersistDurable DEF CommitBatch, BatcherInv, SeqRange
<1>4. CASE FailBatch
  BY <1>4 DEF FailBatch, BatcherInv
<1>5. CASE ClearBatch
  BY <1>5 DEF ClearBatch, BatcherInv
<1>6. CASE BatcherExit
  BY <1>6 DEF BatcherExit, BatcherInv
<1>7. CASE Receive
  BY <1>1, <1>7, DurableStable DEF Receive, Write, BatcherInv, SeqRange
<1>8. CASE Crash
  BY <1>8 DEF Crash, Restart, BatcherInv
<1>9. CASE ~Batcher /\ ~Receive /\ ~Crash
  BY <1>1, <1>9, QuietQueue, DurableStable DEF BatcherInv, SeqRange
<1> QED BY <1>2, <1>3, <1>4, <1>5, <1>6, <1>7, <1>8, <1>9 DEF Batcher

(* A batch taken from the queue carries with it everything that its        *)
(* successors and its own last token depend on.                            *)
LEMMA QueueTake ==
    ASSUME DataInv, DataInv', BatcherInv, QueueCovered, [Next]_vars, TakeBatch
    PROVE  QueueCovered'
<1>1. PICK n \in 1 .. Len(pending) :
          /\ Len(flushing') = n /\ Len(pending') = Len(pending) - n
          /\ \A i \in 1 .. n : flushing'[i] = pending[i]
          /\ \A i \in 1 .. Len(pending) - n : pending'[i] = pending[n + i]
  BY TakeBatchFacts DEF DataInv
<1>2. Len(pending) \in Nat
  BY LenProperties DEF DataInv, Data, BufferData
<1>3. SeqRange(flushing) = {}
  BY EmptySeq DEF TakeBatch, DataInv, SeqRange
<1>4. ~failed
  BY DEF TakeBatch, BatcherInv
<1>5. \A i \in 0 .. Len(pending) - n :
         Prefix(pending, n + i) \subseteq SeqRange(flushing') \cup Prefix(pending', i)
  <2> TAKE i \in 0 .. Len(pending) - n
  <2> SUFFICES ASSUME NEW j \in 1 .. n + i
               PROVE  pending[j] \in SeqRange(flushing') \cup Prefix(pending', i)
    BY DEF Prefix
  <2>1. CASE j <= n
    BY <2>1, <1>1 DEF SeqRange
  <2>2. CASE j > n
    <3>1. j - n \in 1 .. i /\ j - n \in 1 .. Len(pending) - n
      BY <2>2, <1>1, <1>2
    <3>2. pending'[j - n] = pending[j]
      BY <3>1, <1>1, <1>2
    <3> QED BY <3>1, <3>2 DEF Prefix
  <2> QED BY <2>1, <2>2
<1>6. \A i \in 1 .. Len(pending) : CoveredBy(pending[i], Prefix(pending, i))
  BY <1>3, <1>4 DEF QueueCovered
<1>7. ASSUME NEW i \in 1 .. Len(pending'), NEW f \in Events,
             origin' < f, f <= pending'[i]
      PROVE  Durable(f)' \/ f \in SeqRange(flushing') \cup Prefix(pending', i)
  <2>1. n + i \in 1 .. Len(pending) /\ i \in 0 .. Len(pending) - n
        /\ pending'[i] = pending[n + i]
    BY <1>1, <1>2, <1>7
  <2>2. Durable(f)' \/ f \in Prefix(pending, n + i)
    BY <2>1, <1>6, <1>7, CoverStable
  <2> QED BY <2>1, <2>2, <1>5
<1>8. ASSUME NEW f \in Events, origin' < f, f <= flushing'[Len(flushing')]
      PROVE  Durable(f)' \/ f \in SeqRange(flushing')
  <2>1. flushing'[Len(flushing')] = pending[n]
    BY <1>1
  <2>2. Durable(f)' \/ f \in Prefix(pending, n)
    BY <2>1, <1>6, <1>8, CoverStable
  <2>3. Prefix(pending, n) \subseteq SeqRange(flushing')
    BY <1>1 DEF Prefix, SeqRange
  <2> QED BY <2>2, <2>3
<1> QED BY <1>7, <1>8 DEF QueueCovered, CoveredBy

(* A steady queue stays covered.                                           *)
LEMMA QueueFrame ==
    ASSUME DataInv, DataInv', QueueCovered, [Next]_vars,
           UNCHANGED <<pending, flushing>>, failed => failed',
           batcher' = "taken" => batcher = "taken"
    PROVE  QueueCovered'
<1>1. ASSUME ~failed', NEW i \in 1 .. Len(pending), NEW f \in Events,
             origin' < f, f <= pending[i]
      PROVE  Durable(f)' \/ f \in SeqRange(flushing) \cup Prefix(pending, i)
  BY <1>1, CoverStable DEF QueueCovered
<1>2. ASSUME batcher' = "taken", NEW f \in Events,
             origin' < f, f <= flushing[Len(flushing)]
      PROVE  Durable(f)' \/ f \in SeqRange(flushing)
  BY <1>2, CoverStable DEF QueueCovered
<1> QED BY <1>1, <1>2 DEF QueueCovered, CoveredBy, SeqRange, Prefix

LEMMA QueueClear ==
    ASSUME DataInv, DataInv', BatcherInv, QueueCovered, [Next]_vars, ClearBatch
    PROVE  QueueCovered'
<1>1. batcher' # "taken"
  BY DEF ClearBatch
<1>2. ASSUME ~failed', NEW i \in 1 .. Len(pending), NEW f \in Events,
             origin' < f, f <= pending[i]
      PROVE  Durable(f)' \/ f \in Prefix(pending, i)
  <2>1. ~failed /\ batcher = "committed"
    BY <1>2 DEF ClearBatch, BatcherInv
  <2>2. Durable(f)' \/ f \in SeqRange(flushing) \cup Prefix(pending, i)
    BY <1>2, <2>1, CoverStable DEF QueueCovered
  <2>3. f \in SeqRange(flushing) => Durable(f)'
    BY <2>1, DurableStable DEF BatcherInv
  <2> QED BY <2>2, <2>3
<1>3. pending' = pending
  BY DEF ClearBatch
<1> QED BY <1>1, <1>2, <1>3 DEF QueueCovered, CoveredBy, Prefix

(* The event appended is the next one of a covered stream.                 *)
LEMMA QueueWrite ==
    ASSUME DataInv, DataInv', QueueCovered, StreamCovered, [Next]_vars, Receive
    PROVE  QueueCovered' /\ (\A f \in Events :
                origin' < f /\ f <= pos' => Durable(f)' \/ f \in Queued')
<1>1. pos \in Int /\ pos' = pos + 1 /\ pos + 1 \in Events /\ ~closed /\ Len(pending) \in Nat
  BY EventsAre, LenProperties DEF Receive, Write, DataInv, Data, BufferData
<1>2. /\ Len(pending') = Len(pending) + 1
      /\ \A i \in 1 .. Len(pending) : pending'[i] = pending[i]
      /\ pending'[Len(pending) + 1] = pos + 1
  BY <1>1, WriteFacts DEF Receive, DataInv
<1>3. UNCHANGED <<flushing, batcher, failed>>
  BY DEF Receive, Write
<1>4. Prefix(pending', Len(pending) + 1) = SeqRange(pending) \cup {pos + 1}
  <2>1. ASSUME NEW i \in 1 .. Len(pending) + 1
        PROVE  pending'[i] \in SeqRange(pending) \cup {pos + 1}
    BY <1>1, <1>2 DEF SeqRange
  <2>2. ASSUME NEW i \in 1 .. Len(pending)
        PROVE  pending[i] \in Prefix(pending', Len(pending) + 1)
    BY <1>1, <1>2 DEF Prefix
  <2>3. pos + 1 \in Prefix(pending', Len(pending) + 1)
    BY <1>1, <1>2 DEF Prefix
  <2> QED BY <2>1, <2>2, <2>3 DEF Prefix, SeqRange
<1>5. ASSUME NEW f \in Events, origin' < f, f <= pos + 1
      PROVE  Durable(f)' \/ f \in SeqRange(flushing) \cup SeqRange(pending) \cup {pos + 1}
  <2>1. CASE f = pos + 1
    BY <2>1
  <2>2. CASE f <= pos
    <3>1. CoveredBy(pos, Queued)
      BY <1>1 DEF StreamCovered, Receive
    <3> QED BY <2>2, <3>1, <1>5, CoverStable DEF Queued
  <2> QED BY <1>1, <1>5, <2>1, <2>2, EventsAre
<1>6. ASSUME ~failed, NEW i \in 1 .. Len(pending'), NEW f \in Events,
             origin' < f, f <= pending'[i]
      PROVE  Durable(f)' \/ f \in SeqRange(flushing) \cup Prefix(pending', i)
  <2>1. CASE i = Len(pending) + 1
    BY <2>1, <1>2, <1>4, <1>5, <1>6
  <2>2. CASE i \in 1 .. Len(pending)
    <3>1. CoveredBy(pending[i], SeqRange(flushing) \cup Prefix(pending, i))
      BY <2>2, <1>6 DEF QueueCovered
    <3>2. Prefix(pending', i) = Prefix(pending, i)
      BY <2>2, <1>1, <1>2 DEF Prefix
    <3> QED BY <2>2, <3>1, <3>2, <1>2, <1>6, CoverStable
  <2> QED BY <2>1, <2>2, <1>1, <1>2
<1>7. ASSUME batcher = "taken", NEW f \in Events,
             origin' < f, f <= flushing[Len(flushing)]
      PROVE  Durable(f)' \/ f \in SeqRange(flushing)
  BY <1>7, CoverStable DEF QueueCovered
<1>8. QueueCovered'
  BY <1>3, <1>6, <1>7 DEF QueueCovered, CoveredBy, SeqRange
<1>9. Queued' = SeqRange(flushing) \cup SeqRange(pending) \cup {pos + 1}
  <2>1. SeqRange(pending)' = Prefix(pending', Len(pending) + 1)
    BY <1>2 DEF SeqRange, Prefix
  <2> QED BY <2>1, <1>3, <1>4 DEF Queued, SeqRange
<1> QED BY <1>1, <1>5, <1>8, <1>9

LEMMA QueueStep ==
    ASSUME DataInv, DataInv', CaptureInv, [Next]_vars
    PROVE  QueueCovered'
<1> USE DEF CaptureInv
<1>1. CASE TakeBatch
  BY <1>1, QueueTake
<1>2. CASE CommitBatch \/ FailBatch \/ BatcherExit
  BY <1>2, QueueFrame DEF CommitBatch, FailBatch, BatcherExit
<1>3. CASE ClearBatch
  BY <1>3, QueueClear
<1>4. CASE Receive
  BY <1>4, QueueWrite
<1>5. CASE Crash
  BY <1>5, EmptySeq DEF Crash, Restart, QueueCovered
<1>6. CASE ~Batcher /\ ~Receive /\ ~Crash
  BY <1>6, QuietQueue, QueueFrame
<1> QED BY <1>1, <1>2, <1>3, <1>4, <1>5, <1>6 DEF Batcher

-----------------------------------------------------------------------------
(* The checkpoint and the stream.                                          *)

LEMMA CheckpointStep ==
    ASSUME DataInv, DataInv', CaptureInv, [Next]_vars
    PROVE  CheckpointCovered'
<1> USE DEF CaptureInv
<1>1. CASE batcher = "taken" /\ PersistBatch
  <2>1. CoveredBy(flushing[Len(flushing)], SeqRange(flushing))
    BY <1>1 DEF QueueCovered
  <2>2. checkpoint' = flushing[Len(flushing)]
    BY <1>1 DEF PersistBatch
  <2>3. ASSUME NEW f \in Events, origin' < f, f <= checkpoint'
        PROVE  Durable(f)'
    BY <1>1, <2>1, <2>2, <2>3, CoverStable, PersistDurable
  <2> QED BY <2>3 DEF CheckpointCovered
<1>2. CASE SaveBoundary
  <2>1. CoveredBy(pos, Queued)
    BY <1>2 DEF StreamCovered, SaveBoundary, SaveCheckpoint
  <2>2. Queued = {}
    BY <1>2, EmptySeq DEF SaveBoundary, SaveCheckpoint, Queued, SeqRange
  <2>3. ASSUME NEW f \in Events, origin' < f, f <= pos
        PROVE  Durable(f)'
    BY <2>1, <2>2, <2>3, CoverStable
  <2> QED BY <1>2, <2>3 DEF CheckpointCovered, SaveBoundary, SaveCheckpoint
<1>3. CASE checkpoint' = checkpoint
  <2>1. CoveredBy(checkpoint, {})
    BY DEF CheckpointCovered, CoveredBy
  <2>2. ASSUME NEW f \in Events, origin' < f, f <= checkpoint
        PROVE  Durable(f)'
    BY <2>1, <2>2, CoverStable
  <2> QED BY <1>3, <2>2 DEF CheckpointCovered
<1>4. \/ batcher = "taken" /\ PersistBatch
      \/ SaveBoundary
      \/ checkpoint' = checkpoint
  BY DEF Next, vars, bufferVars, SourceWrite, LoadCheckpoint, OpenStream, Receive,
         Write, EmptyBatch, SourceError, CaptureFailed, Stop, CaptureExit,
         CloseBuffer, Close, CloseDB, BufferStep, Batcher, TakeBatch, CommitBatch,
         FailBatch, ClearBatch, BatcherExit, Cleaner, PruneExpired, PruneBefore,
         PruneClamp, PruneCollect, PruneCommit, PruneFail, Crash, Restart
<1> QED BY <1>1, <1>2, <1>3, <1>4

(* An event leaves the queue only once it is durable, while the buffer is  *)
(* open.                                                                   *)
LEMMA QueuedStable ==
    ASSUME DataInv, DataInv', BatcherInv, [Next]_vars, ~Crash, ~closed',
           NEW f \in Queued
    PROVE  Durable(f)' \/ f \in Queued'
<1>1. CASE TakeBatch
  <2>1. PICK n \in 1 .. Len(pending) :
            /\ Len(flushing') = n /\ Len(pending') = Len(pending) - n
            /\ \A i \in 1 .. n : flushing'[i] = pending[i]
            /\ \A i \in 1 .. Len(pending) - n : pending'[i] = pending[n + i]
    BY <1>1, TakeBatchFacts DEF DataInv
  <2>0. flushing = <<>> /\ pending \in Seq(Events)
    BY <1>1 DEF TakeBatch, DataInv, Data, BufferData
  <2>2. Len(pending) \in Nat /\ SeqRange(flushing) = {}
    <3>1. Len(pending) \in Nat
      BY <2>0, LenProperties
    <3>2. Len(flushing) = 0
      BY <2>0, LenEmpty
    <3> QED BY <3>1, <3>2 DEF SeqRange
  <2>3. PICK j \in 1 .. Len(pending) : f = pending[j]
    BY <2>2 DEF Queued, SeqRange
  <2>4. CASE j <= n
    <3>1. j \in 1 .. n
      BY <2>2, <2>4
    <3>2. flushing'[j] = f /\ j \in 1 .. Len(flushing')
      BY <2>1, <2>3, <3>1
    <3> QED BY <3>2 DEF Queued, SeqRange
  <2>5. CASE j > n
    <3>1. j - n \in 1 .. Len(pending) - n /\ n + (j - n) = j
      BY <2>2, <2>5
    <3>2. pending'[j - n] = f /\ j - n \in 1 .. Len(pending')
      BY <2>1, <2>3, <3>1
    <3> QED BY <3>2 DEF Queued, SeqRange
  <2> QED BY <2>1, <2>3, <2>4, <2>5
<1>2. CASE ClearBatch
  <2>1. batcher = "committed" /\ pending' = pending
    BY <1>2 DEF ClearBatch
  <2>2. CASE f \in SeqRange(flushing)
    <3>1. flushing \in Seq(Events)
      BY DEF DataInv, Data, BufferData
    <3>2. f \in Events
      BY <2>2, <3>1, ElementOfSeq DEF SeqRange
    <3> QED BY <2>1, <2>2, <3>2, DurableStable DEF BatcherInv
  <2>3. CASE f \in SeqRange(pending)
    BY <2>1, <2>3 DEF Queued, SeqRange
  <2> QED BY <2>2, <2>3 DEF Queued
<1>3. CASE Receive
  <2>1. pos + 1 \in Events /\ flushing' = flushing /\ Len(pending) \in Nat
    BY <1>3, EventsAre, LenProperties DEF Receive, Write, DataInv, Data, BufferData
  <2>2. /\ Len(pending') = Len(pending) + 1
        /\ \A i \in 1 .. Len(pending) : pending'[i] = pending[i]
    BY <1>3, <2>1, WriteFacts DEF Receive, DataInv
  <2>3. CASE f \in SeqRange(flushing)
    BY <2>1, <2>3 DEF Queued, SeqRange
  <2>4. CASE f \in SeqRange(pending)
    <3>1. PICK i \in 1 .. Len(pending) : f = pending[i]
      BY <2>4 DEF SeqRange
    <3>2. i \in 1 .. Len(pending') /\ f = pending'[i]
      BY <2>1, <2>2, <3>1
    <3> QED BY <3>2 DEF Queued, SeqRange
  <2> QED BY <2>3, <2>4 DEF Queued
<1>4. CASE ~TakeBatch /\ ~ClearBatch /\ ~Receive
  <2>1. UNCHANGED <<pending, flushing>>
    BY <1>4, QuietQueue DEF Batcher, CommitBatch, FailBatch, BatcherExit
  <2> QED BY <2>1 DEF Queued, SeqRange
<1> QED BY <1>1, <1>2, <1>3, <1>4

(* What the stream has handed over stays covered.                          *)
LEMMA StreamFrame ==
    ASSUME DataInv, DataInv', CaptureInv, [Next]_vars, ~Crash, ~closed, ~closed',
           capture \in {"watching", "boundary"},
           NEW f \in Events, origin' < f, f <= pos
    PROVE  Durable(f)' \/ f \in Queued'
<1>1. CoveredBy(pos, Queued)
  BY DEF CaptureInv, StreamCovered
<1> QED BY <1>1, CoverStable, QueuedStable DEF CaptureInv

LEMMA StreamStep ==
    ASSUME DataInv, DataInv', CaptureInv, [Next]_vars
    PROVE  StreamCovered'
<1>1. CASE OpenStream
  <2>1. ASSUME NEW f \in Events, origin' < f, f <= pos'
        PROVE  Durable(f)'
    <3>1. origin' \in Int /\ f \in Int /\ pos' \in Int
      BY EventsAre DEF DataInv, Data
    <3>2. CASE token = NoToken
      BY <1>1, <2>1, <3>1, <3>2 DEF OpenStream
    <3>3. CASE token # NoToken
      <4>1. CoveredBy(token, {}) /\ pos' = token
        BY <1>1, <3>3 DEF OpenStream, CaptureInv, StreamCovered
      <4> QED BY <2>1, <4>1, CoverStable
    <3> QED BY <3>2, <3>3
  <2>2. capture' = "watching"
    BY <1>1 DEF OpenStream
  <2> QED BY <2>1, <2>2 DEF StreamCovered, CoveredBy
<1>2. CASE LoadCheckpoint
  <2>1. CoveredBy(checkpoint, {})
    BY DEF CaptureInv, CheckpointCovered, CoveredBy
  <2>2. ASSUME NEW f \in Events, origin' < f, f <= checkpoint
        PROVE  Durable(f)'
    BY <2>1, <2>2, CoverStable
  <2>3. capture' \in {"loaded", "stopped"} /\ (capture' = "loaded" => token' = checkpoint)
    BY <1>2 DEF LoadCheckpoint, Terminal
  <2> QED BY <2>2, <2>3 DEF StreamCovered, CoveredBy
<1>3. CASE Receive
  <2>1. capture' = "watching"
    BY <1>3 DEF Receive
  <2>2. \A f \in Events : origin' < f /\ f <= pos' => Durable(f)' \/ f \in Queued'
    BY <1>3, QueueWrite DEF CaptureInv
  <2> QED BY <2>1, <2>2 DEF StreamCovered, CoveredBy
<1>4. CASE Crash
  BY <1>4 DEF Crash, StreamCovered
<1>5. CASE ~OpenStream /\ ~LoadCheckpoint /\ ~Receive /\ ~Crash
  <2>1. /\ capture' \in {"watching", "boundary"} =>
              capture \in {"watching", "boundary"} /\ pos' = pos
        /\ capture' = "loaded" => capture = "loaded" /\ token' = token
    BY <1>5
       DEF Next, vars, captureVars, SourceWrite, EmptyBatch, SaveBoundary,
           SourceError, CaptureFailed, Stop, CaptureExit, CloseBuffer, BufferStep,
           Unavailable, Terminal
  <2>2. closed => closed'
    BY <1>5, QuietQueue
       DEF Batcher, TakeBatch, CommitBatch, FailBatch, ClearBatch, BatcherExit
  <2>3. ASSUME capture' \in {"watching", "boundary"}, ~closed', NEW f \in Events,
               origin' < f, f <= pos'
        PROVE  Durable(f)' \/ f \in Queued'
    BY <1>5, <2>1, <2>2, <2>3, StreamFrame
  <2>4. ASSUME capture' = "loaded", NEW f \in Events, origin' < f, f <= token'
        PROVE  Durable(f)'
    <3>1. CoveredBy(token, {}) /\ token' = token
      BY <2>1, <2>4 DEF CaptureInv, StreamCovered
    <3> QED BY <2>4, <3>1, CoverStable
  <2> QED BY <2>3, <2>4 DEF StreamCovered, CoveredBy
<1> QED BY <1>1, <1>2, <1>3, <1>4, <1>5

LEMMA CaughtUpStep ==
    ASSUME DataInv, DataInv', CaptureInv, [Next]_vars
    PROVE  CaughtUp'
<1>1. src \in Int /\ src' \in Int /\ pos \in Int /\ captured \subseteq 1 .. src
  BY EventsAre DEF DataInv, Data, CaptureInv, CaughtUp
<1> USE DEF CaughtUp
<1>2. CASE SourceWrite
  BY <1>1, <1>2 DEF SourceWrite, CaptureInv
<1>3. CASE Receive
  <2>1. /\ pos' = pos + 1 /\ pos < src /\ src' = src
        /\ captured' = captured \cup {pos + 1}
        /\ capture' = "watching" /\ capture = "watching"
        /\ active' = active /\ ready' = ready
    BY <1>3 DEF Receive
  <2>2. captured' \subseteq 1 .. src'
    BY <1>1, <2>1, EventsAre DEF DataInv, Data
  <2>3. active => ready /\ \A e \in captured : e <= pos
    BY DEF CaptureInv
  <2>4. active' => \A e \in captured' : e <= pos'
    BY <1>1, <2>1, <2>3
  <2> QED BY <2>1, <2>2, <2>3, <2>4
<1>4. CASE EmptyBatch
  BY <1>1, <1>4 DEF EmptyBatch, CaptureInv
<1>5. CASE SaveBoundary
  BY <1>1, <1>5 DEF SaveBoundary, CaptureInv
<1>6. CASE OpenStream \/ LoadCheckpoint
  <2>1. ~active
    BY <1>6 DEF OpenStream, LoadCheckpoint, CaptureInv
  <2>2. ~active' /\ capture' # "boundary"
    BY <1>6, <2>1 DEF OpenStream, LoadCheckpoint, Terminal
  <2>3. captured' = captured /\ src' = src
    BY <1>6 DEF OpenStream, LoadCheckpoint, Terminal
  <2> QED BY <1>1, <2>2, <2>3
<1>7. CASE SourceError \/ CaptureFailed \/ CaptureExit \/ Crash
  BY <1>1, <1>7
     DEF SourceError, CaptureFailed, CaptureExit, Crash, Unavailable, Terminal, CaptureInv
<1>8. CASE Stop
  BY <1>1, <1>8 DEF Stop, CaptureInv
<1>9. CASE CloseBuffer \/ BufferStep \/ UNCHANGED vars
  <2>1. UNCHANGED captureVars
    BY <1>9 DEF CloseBuffer, BufferStep, vars
  <2> QED BY <2>1 DEF captureVars, CaptureInv
<1> QED BY <1>2, <1>3, <1>4, <1>5, <1>6, <1>7, <1>8, <1>9 DEF Next

-----------------------------------------------------------------------------
LEMMA CaptureInvInit == Init => CaptureInv
<1> SUFFICES ASSUME Init
             PROVE  CaptureInv
  OBVIOUS
<1>1. BatcherInv /\ QueueCovered /\ StreamCovered
  BY EmptySeq DEF Init, BufferInit, BatcherInv, QueueCovered, StreamCovered
<1>2. CheckpointCovered
  BY EventsAre DEF Init, BufferInit, CheckpointCovered, NoToken
<1>3. CaughtUp
  BY DEF Init, CaughtUp
<1> QED BY <1>1, <1>2, <1>3 DEF CaptureInv

LEMMA CaptureInvariance == Spec => []CaptureInv
<1>1. DataInv /\ DataInv' /\ CaptureInv /\ [Next]_vars => CaptureInv'
  <2> SUFFICES ASSUME DataInv, DataInv', CaptureInv, [Next]_vars
               PROVE  CaptureInv'
    OBVIOUS
  <2>1. BatcherInv'
    BY BatcherStep DEF CaptureInv
  <2> QED
    BY <2>1, QueueStep, CheckpointStep, StreamStep, CaughtUpStep DEF CaptureInv
<1> QED BY <1>1, CaptureInvInit, DataInvariance, PTL DEF Spec

(* The saved resume token never lies beyond an event that is neither       *)
(* stored nor pruned, for any number of events, any batch and queue size,  *)
(* any order of keys and any schedule of flushes, prunes, reconnects,      *)
(* failures and crashes (writer.go flush, buffer.go SaveCheckpoint).       *)
THEOREM CheckpointSafe == Spec => []CheckpointCovered
<1>1. CaptureInv => CheckpointCovered
  BY DEF CaptureInv
<1> QED BY <1>1, CaptureInvariance, PTL

(* Whenever the backend reports capture as active, everything broadcast    *)
(* since the origin, by this incarnation or by an earlier one, is in the   *)
(* buffer or pruned (boundary.go setCaptureState, Readiness).              *)
THEOREM ActiveSafe == Spec => []ActiveMeansRecaptured
<1>1. DataInv /\ CaptureInv => ActiveMeansRecaptured
  <2> SUFFICES ASSUME DataInv, CaptureInv, active, ~closed,
                      NEW e \in captured, origin < e
               PROVE  Retained(e)
    BY DEF ActiveMeansRecaptured
  <2>1. CoveredBy(pos, Queued) /\ e <= pos /\ e \in Events
    BY DEF CaptureInv, CaughtUp, StreamCovered, DataInv, Data
  <2> QED BY <2>1 DEF CoveredBy, Retained
<1> QED BY <1>1, DataInvariance, CaptureInvariance, PTL
=============================================================================
