------------------------- MODULE ReplicaDownstream -------------------------
(***************************************************************************)
(* Following the source (downstream.ts) through RxDB's downstream, which   *)
(* the package's patch makes wait for each page: a round reads pages until *)
(* one is complete; a page is delivered in parts; a part is written to the *)
(* fork, then to the assumed states, then its checkpoint is saved, and     *)
(* only then may the manifest move on.  A generation is staged until the   *)
(* source has caught up.                                                   *)
(***************************************************************************)
EXTENDS ReplicaUpstream

VARIABLE down

NoPage == [evs |-> <<>>, left |-> <<>>, cur |-> NoCursor, next |-> NoCursor, gen |-> 0,
           page |-> 0, caught |-> FALSE]
NoPart == [cp |-> NoCheckpoint, docs |-> {}, data |-> [d \in Docs |-> NoRow],
           mem |-> [d \in Docs |-> NoMember], fork |-> [d \in Docs |-> NoData],
           ass |-> [d \in Docs |-> NoRow], meta |-> {}]
Resting == [st |-> "idle", reset |-> FALSE, ready |-> FALSE, pend |-> NoPage, part |-> NoPart]

\* allowed: no unresolved work but that of the running phase.
allowed == (man.marker.on => ownsPhase) /\ man.intent.doc = 0 /\ man.issues = {}

(***************************************************************************)
(* load.                                                                   *)
(***************************************************************************)
LoadCursor == IF down.reset \/ downcp = NoCheckpoint THEN NoCursor ELSE downcp.cur

Load ==
  /\ down.st = "want" /\ allowed
  /\ Ask(LoadCursor)
  /\ down' = [down EXCEPT !.st = "asked"]
  /\ UNCHANGED <<durable, up, reqs, storage, used, edit, repeated, skipped>>

\* An identity that nothing refers to.
Generations ==
  {man.active, man.staged, downcp.gen, ctl.gen}
    \cup UNION {{s.gen: s \in member[d].slots}: d \in Docs}
NewGeneration == CHOOSE g \in 1..(Cardinality(Generations) + 1):
                   g \notin Generations /\ \A h \in 1..(g - 1): h \in Generations

EventDocs(evs) ==
  LET first(i) == \A j \in 1..(i - 1): evs[j].doc # evs[i].doc
      at == SetToSortSeq({i \in 1..Len(evs): first(i)}, LAMBDA a, b: a < b)
  IN [k \in 1..Len(at) |-> evs[at[k]].doc]

\* The page is staged before any of it is delivered.
TakePage ==
  /\ down.st = "asked" /\ pull.st = "done"
  /\ LET gen == IF LoadCursor = NoCursor THEN NewGeneration ELSE downcp.gen IN
     /\ man' = [man EXCEPT !.staged = IF gen = man.active THEN 0 ELSE gen, !.partial = TRUE]
     /\ down' = [down EXCEPT !.st = "deliver", !.reset = FALSE,
          !.pend = [evs |-> pull.evs, left |-> EventDocs(pull.evs), cur |-> LoadCursor,
                    next |-> pull.cur, gen |-> gen, page |-> 1 - downcp.page,
                    caught |-> pull.caught]]
  /\ pull' = NoPull
  /\ UNCHANGED <<fork, assumed, member, downcp, ctl, up, reqs, storage, used, edit, repeated, skipped>>

(***************************************************************************)
(* project: the data row and the membership row that a document's events   *)
(* amount to.                                                              *)
(***************************************************************************)
Of(d) == SelectSeq(down.pend.evs, LAMBDA e: e.doc = d)
Touched(d) == \/ fork[d].val # "none" \/ member[d].known
              \/ \E i \in 1..Len(Of(d)): Of(d)[i].type = "upsert"

Desired(d) ==
  LET said == SelectSeq(Of(d), LAMBDA e: e.type # "leave")
      upserts == SelectSeq(Of(d), LAMBDA e: e.type = "upsert")
      ver == IF upserts # <<>> THEN upserts[Len(upserts)].ver
             ELSE IF member[d].known THEN member[d].ver ELSE fork[d].ver
  IN [val |-> IF said = <<>> THEN "none" ELSE said[Len(said)].val, ver |-> ver]

\* Only the active generation and the page's own keep a slot.
Membership(d, gen) ==
  [known |-> TRUE, ver |-> Desired(d).ver,
   slots |-> {s \in member[d].slots: s.gen = man.active /\ s.gen # gen}
               \cup {[gen |-> gen, in |-> Of(d)[Len(Of(d))].type = "upsert"]}]

\* readSource: the next documents that fit, and the checkpoint of the part.  RxDB then
\* reads the stored rows that it compares with them.
ReadSource ==
  /\ down.st = "deliver"
  /\ LET p == down.pend IN
     \E k \in 0..Len(p.left):
       /\ k = 0 => p.left = <<>>
       /\ LET docs == {d \in {p.left[i]: i \in 1..k}: Touched(d)}
              final == k = Len(p.left)
          IN down' = [down EXCEPT !.st = "fork",
               !.pend.left = SubSeq(p.left, k + 1, Len(p.left)),
               !.part = [cp |-> [cur |-> IF final THEN p.next ELSE p.cur, gen |-> p.gen,
                                 page |-> p.page, final |-> final,
                                 complete |-> final /\ p.caught],
                         docs |-> docs,
                         data |-> [d \in Docs |-> IF d \in docs THEN Desired(d) ELSE NoRow],
                         mem |-> [d \in Docs |-> IF d \in docs THEN Membership(d, p.gen) ELSE NoMember],
                         fork |-> [d \in Docs |-> IF d \in docs THEN fork[d] ELSE NoData],
                         ass |-> [d \in Docs |-> IF d \in docs THEN assumed[d] ELSE NoRow],
                         meta |-> {}]]
  /\ UNCHANGED <<durable, up, server, storage, used, edit, repeated, skipped>>

(***************************************************************************)
(* Persisting a part.  A pending local row is left alone; an equal one     *)
(* only has its assumed state corrected; a row that changed meanwhile is   *)
(* skipped.  The edit token and the pin of a row are kept.                 *)
(***************************************************************************)
Content(row) == [row EXCEPT !.lwt = "old"]

MutantPersistFork(d) ==
  LET row == down.part.data[d]
      read == down.part.fork[d]
      was == down.part.ass[d]
      local == /\ read.val # "none" /\ ~read.origin
               /\ was = NoRow \/ Business(was) # Business(read)
      given == row.val # "none" /\ ~local
      equal == read.val # "none" /\ Business(read) = Business(row)
      write == given /\ ~equal
      meta == \/ write
              \/ given /\ equal /\ (was = NoRow \/ Business(was) # Business(row))
  IN
  /\ down.st = "fork" /\ d \in down.part.docs /\ d = Least(down.part.docs)
  /\ fork' = [fork EXCEPT ![d] =
       IF write THEN [val |-> row.val, ver |-> row.ver, tok |-> @.tok, pin |-> @.pin,
                      lwt |-> "new", origin |-> TRUE]
       ELSE @]
  /\ member' = [member EXCEPT ![d] = down.part.mem[d]]
  /\ skipped' = IF row.val = "none" \/ write \/ (given /\ equal) THEN skipped \ {d} ELSE skipped \cup {d}
  /\ down' = [down EXCEPT !.part.docs = @ \ {d}, !.part.meta = IF meta THEN @ \cup {d} ELSE @]
  /\ UNCHANGED <<assumed, man, downcp, ctl, up, server, storage, used, edit, repeated>>

PersistFork(d) ==
  LET row == down.part.data[d]
      read == down.part.fork[d]
      was == down.part.ass[d]
      local == /\ read.val # "none" /\ ~read.origin
               /\ was = NoRow \/ Business(was) # Business(read)
      given == row.val # "none" /\ ~local
      equal == read.val # "none" /\ Business(read) = Business(row)
      write == given /\ ~equal /\ Content(fork[d]) = Content(read)
      meta == \/ write
              \/ given /\ equal /\ (was = NoRow \/ Business(was) # Business(row))
  IN
  /\ down.st = "fork" /\ d \in down.part.docs /\ d = Least(down.part.docs)
  /\ fork' = [fork EXCEPT ![d] =
       IF write THEN [val |-> row.val, ver |-> row.ver, tok |-> @.tok, pin |-> @.pin,
                      lwt |-> "new", origin |-> TRUE]
       ELSE @]
  /\ member' = [member EXCEPT ![d] = down.part.mem[d]]
  /\ skipped' = IF row.val = "none" \/ write \/ (given /\ equal) THEN skipped \ {d} ELSE skipped \cup {d}
  /\ down' = [down EXCEPT !.part.docs = @ \ {d}, !.part.meta = IF meta THEN @ \cup {d} ELSE @]
  /\ UNCHANGED <<assumed, man, downcp, ctl, up, server, storage, used, edit, repeated>>

PersistControl ==
  /\ down.st = "fork" /\ down.part.docs = {}
  /\ ctl' = down.part.cp
  /\ down' = [down EXCEPT !.st = "meta"]
  /\ UNCHANGED <<fork, assumed, member, man, downcp, up, server, storage, used, edit, repeated, skipped>>

PersistMeta ==
  /\ down.st = "meta" /\ \A d \in down.part.meta: assumed[d] = down.part.ass[d]
  /\ assumed' = [d \in Docs |-> IF d \in down.part.meta THEN down.part.data[d] ELSE assumed[d]]
  /\ down' = [down EXCEPT !.st = "checkpoint"]
  /\ UNCHANGED <<fork, member, man, downcp, ctl, up, server, storage, used, edit, repeated, skipped>>

PersistCheckpoint ==
  /\ down.st = "checkpoint"
  /\ downcp' = down.part.cp
  /\ down' = [down EXCEPT !.st = "commit", !.part = [NoPart EXCEPT !.cp = down.part.cp]]
  /\ UNCHANGED <<fork, assumed, member, man, ctl, up, server, storage, used, edit, repeated, skipped>>

(***************************************************************************)
(* finish: a final part ends the partial delivery, a complete one makes    *)
(* its generation the active one and lets go of the pins of earlier rounds.*)
(***************************************************************************)
Finished(cp) ==
  CASE cp.complete -> [man EXCEPT !.active = cp.gen, !.staged = 0, !.ready = TRUE, !.partial = FALSE]
    [] cp.final /\ ~cp.complete -> [man EXCEPT !.partial = FALSE]
    [] OTHER -> man

OnCheckpoint ==
  /\ down.st = "commit" /\ allowed
  /\ LET cp == down.part.cp IN
     /\ man' = Finished(cp)
     /\ down' = [down EXCEPT !.st = CASE cp.complete -> "clear"
                                      [] cp.final /\ ~cp.complete -> "want"
                                      [] OTHER -> "deliver",
                             !.pend = IF cp.final THEN NoPage ELSE @, !.part = NoPart]
  /\ UNCHANGED <<fork, assumed, member, downcp, ctl, up, server, storage, used, edit, repeated, skipped>>

ClearRound ==
  /\ down.st = "clear"
  /\ fork' = IF allowed THEN ClearPins ELSE fork
  /\ down' = [Resting EXCEPT !.ready = TRUE]
  /\ UNCHANGED <<assumed, member, man, downcp, ctl, up, server, storage, used, edit, repeated, skipped>>

\* A refresh, a hint or the poll starts another round once both directions rest.
BeginRound ==
  /\ down.st = "idle" /\ up.st = "idle" /\ used.rounds < MaxRounds
  /\ fork' = EndRound(fork)
  /\ down' = [down EXCEPT !.st = "want"]
  /\ Spend("rounds")
  /\ UNCHANGED <<assumed, member, man, downcp, ctl, up, server, storage, edit, repeated, skipped>>

\* Errors that end the session: a write refused, unresolved work, a failed request.
DownstreamFails ==
  \/ down.st = "meta" /\ \E d \in down.part.meta: assumed[d] # down.part.ass[d]
  \/ down.st \in {"want", "commit"} /\ ~allowed

DownstreamStep ==
  \/ Load \/ TakePage \/ ReadSource \/ (\E d \in Docs: PersistFork(d)) \/ PersistControl
  \/ PersistMeta \/ PersistCheckpoint \/ OnCheckpoint \/ ClearRound \/ BeginRound
=============================================================================
