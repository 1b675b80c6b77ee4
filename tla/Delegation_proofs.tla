-------------------------- MODULE Delegation_proofs --------------------------
(***************************************************************************)
(* Proofs about module Delegation, for every team, configuration and bound.*)
(* The helpers a handler is built from get a lemma each, stated over the   *)
(* board b and the loops ls they are called with; the step lemmas have one *)
(* case per action and cite them.  The last part follows one delegation    *)
(* from hand to hand.                                                      *)
(***************************************************************************)
EXTENDS Delegation, FiniteSetTheorems, TLAPS

-----------------------------------------------------------------------------
(* Data *)

\* The board and the loop map as a handler passes them on
WorkTyped(b, ls) ==
  /\ b \in Seq(Row)
  /\ DOMAIN ls \subseteq DOMAIN b
  /\ ls \in [DOMAIN ls -> Loop]

\* A fresh row is a well-formed open one.
LEMMA NewRowTyped ==
  ASSUME NEW r \in Roles, NEW loop \in Nat
  PROVE  /\ NewRow(r, loop) \in Row
         /\ NewRow(r, loop).to = r
         /\ NewRow(r, loop).loop = loop
         /\ ~NewRow(r, loop).done
         /\ ~NewRow(r, loop).timedOut
BY DEF NewRow, Row

\* Appending a row keeps the rows there are and adds the next task id.
LEMMA AppendRow ==
  ASSUME NEW b \in Seq(Row), NEW row \in Row
  PROVE  /\ Append(b, row) \in Seq(Row)
         /\ DOMAIN b = 1 .. Len(b)
         /\ DOMAIN Append(b, row) = DOMAIN b \cup {Len(b) + 1}
         /\ Len(b) + 1 \notin DOMAIN b
         /\ Len(b) + 1 \in TaskId
         /\ \A n \in DOMAIN b : Append(b, row)[n] = b[n]
         /\ Append(b, row)[Len(b) + 1] = row
BY DEF TaskId

\* A map from task ids to loops stays one when a loop is entered or removed.
LEMMA PutLoop ==
  ASSUME NEW ls, ls \in [DOMAIN ls -> Loop], NEW k, NEW loop \in Loop
  PROVE  /\ DOMAIN Put(ls, k, loop) = DOMAIN ls \cup {k}
         /\ Put(ls, k, loop) \in [DOMAIN Put(ls, k, loop) -> Loop]
         /\ Put(ls, k, loop)[k] = loop
         /\ \A x \in DOMAIN ls \ {k} : Put(ls, k, loop)[x] = ls[x]
BY DEF Put

LEMMA DropLoop ==
  ASSUME NEW ls, ls \in [DOMAIN ls -> Loop], NEW k
  PROVE  /\ DOMAIN Drop(ls, k) = DOMAIN ls \ {k}
         /\ Drop(ls, k) \in [DOMAIN Drop(ls, k) -> Loop]
         /\ \A x \in DOMAIN ls \ {k} : Drop(ls, k)[x] = ls[x]
BY DEF Drop

\* The board after a row's record is updated in place
LEMMA UpdateRow ==
  ASSUME NEW b \in Seq(Row), NEW id \in DOMAIN b, NEW row \in Row
  PROVE  /\ [b EXCEPT ![id] = row] \in Seq(Row)
         /\ DOMAIN [b EXCEPT ![id] = row] = DOMAIN b
         /\ [b EXCEPT ![id] = row][id] = row
         /\ \A n \in DOMAIN b \ {id} : [b EXCEPT ![id] = row][n] = b[n]
OBVIOUS

LEMMA ResolveRow ==
  ASSUME NEW b \in Seq(Row), NEW id \in DOMAIN b
  PROVE  /\ Resolve(b, id) \in Seq(Row)
         /\ DOMAIN Resolve(b, id) = DOMAIN b
         /\ \A n \in DOMAIN b \ {id} : Resolve(b, id)[n] = b[n]
         /\ Resolve(b, id)[id] = [b[id] EXCEPT !.done = TRUE, !.snap = FALSE]
<1> DEFINE row == [b[id] EXCEPT !.done = TRUE, !.snap = FALSE]
<1>1. b[id] \in Row
  OBVIOUS
<1>2. row \in Row
  BY <1>1 DEF Row
<1>3. QED
  BY <1>2, UpdateRow DEF Resolve

LEMMA GateTyped ==
  ASSUME NEW kind \in {"fallback", "ownership", "merge"}, NEW r \in Roles, NEW id \in TaskId
  PROVE  [kind |-> kind, to |-> r, id |-> id] \in Gate
BY DEF Gate

-----------------------------------------------------------------------------
(* Loops and boards *)

AllOnTask(ls, b, running) == \A id \in DOMAIN ls : OnTask(ls[id], id, b, running)

\* What a loop's task is stays so when the board only grows.
LEMMA OnTaskExtends ==
  ASSUME NEW b, NEW c, DOMAIN b \subseteq DOMAIN c, \A n \in DOMAIN b : c[n] = b[n],
         NEW id \in DOMAIN b, NEW loop, NEW running, OnTask(loop, id, b, running)
  PROVE  OnTask(loop, id, c, running)
BY DEF OnTask

\* A delivery without a loop: one more row
LEMMA DeliverRow ==
  ASSUME NEW b, NEW ls, WorkTyped(b, ls), NEW running, AllOnTask(ls, b, running),
         NEW row \in Row
  PROVE  /\ WorkTyped(Append(b, row), ls)
         /\ DOMAIN b \subseteq DOMAIN Append(b, row)
         /\ AllOnTask(ls, Append(b, row), running)
<1>1. WorkTyped(Append(b, row), ls) /\ DOMAIN b \subseteq DOMAIN Append(b, row)
  BY AppendRow DEF WorkTyped
<1>2. ASSUME NEW id \in DOMAIN ls PROVE OnTask(ls[id], id, Append(b, row), running)
  <2>1. id \in DOMAIN b /\ OnTask(ls[id], id, b, running)
    BY DEF AllOnTask, WorkTyped
  <2>2. \A n \in DOMAIN b : Append(b, row)[n] = b[n]
    BY AppendRow DEF WorkTyped
  <2>3. QED
    BY <1>1, <2>1, <2>2, OnTaskExtends
<1>3. QED
  BY <1>1, <1>2 DEF AllOnTask

\* A delivery for a loop: one more row, and the loop waits for it
LEMMA DeliverLoop ==
  ASSUME NEW b, NEW ls, WorkTyped(b, ls), NEW running, AllOnTask(ls, b, running),
         NEW row \in Row, NEW loop \in Loop,
         OnTask(loop, Len(b) + 1, Append(b, row), running)
  PROVE  /\ WorkTyped(Append(b, row), Put(ls, Len(b) + 1, loop))
         /\ DOMAIN b \subseteq DOMAIN Append(b, row)
         /\ AllOnTask(Put(ls, Len(b) + 1, loop), Append(b, row), running)
<1> DEFINE c == Append(b, row)
           k == Len(b) + 1
           ms == Put(ls, k, loop)
<1>1. WorkTyped(c, ls) /\ DOMAIN b \subseteq DOMAIN c /\ AllOnTask(ls, c, running)
  BY DeliverRow
<1>2. k \in DOMAIN c
  BY AppendRow DEF WorkTyped
<1>3. OnTask(loop, k, c, running)
  OBVIOUS
<1>4. WorkTyped(c, ms) /\ AllOnTask(ms, c, running)
  <2> HIDE DEF c, k
  <2>1. /\ DOMAIN ms = DOMAIN ls \cup {k}
        /\ ms \in [DOMAIN ms -> Loop]
        /\ ms[k] = loop
        /\ \A x \in DOMAIN ls \ {k} : ms[x] = ls[x]
    <3>1. ls \in [DOMAIN ls -> Loop]
      BY DEF WorkTyped
    <3>2. QED
      BY <3>1 DEF Put
  <2> HIDE DEF ms
  <2>2. WorkTyped(c, ms)
    BY <1>1, <1>2, <2>1 DEF WorkTyped
  <2>3. AllOnTask(ms, c, running)
    BY <1>1, <1>3, <2>1 DEF AllOnTask
  <2>4. QED
    BY <2>2, <2>3
<1>5. QED
  BY <1>1, <1>4

-----------------------------------------------------------------------------
(* The handlers' shared parts *)

\* The loop a handler holds, out of the map
InHand(loop, b) ==
  /\ loop \in Loop
  /\ loop.orig \in DOMAIN b
  /\ b[loop.orig].to = loop.builder

\* What a handler leaves behind that was called with board b
Handled(b, running) ==
  /\ WorkTyped(board', loops')
  /\ DOMAIN b \subseteq DOMAIN board'
  /\ AllOnTask(loops', board', running)
  /\ gates' \in Seq(Gate)
  /\ pane' \in [Roles -> PaneState]
  /\ settled' \in SUBSET Settled

LEMMA RespawnTyped ==
  ASSUME TypeOK, NEW r \in Roles, Respawn(r)
  PROVE  pane' \in [Roles -> PaneState]
BY DEF TypeOK, Respawn, PaneState

LEMMA InjectTyped ==
  ASSUME TypeOK, NEW r \in Roles, Inject(r)
  PROVE  pane' \in [Roles -> PaneState]
BY RespawnTyped DEF Inject, TypeOK

LEMMA FallbackGateHandled ==
  ASSUME TypeOK, NEW b, NEW ls, NEW running, WorkTyped(b, ls), AllOnTask(ls, b, running),
         NEW loop, InHand(loop, b), FallbackGate(loop, b, ls)
  PROVE  Handled(b, running)
<1>1. [kind |-> "fallback", to |-> loop.builder, id |-> loop.orig] \in Gate
  BY GateTyped DEF InHand, Loop
<1>2. gates' \in Seq(Gate)
  BY <1>1 DEF TypeOK, FallbackGate
<1>3. QED
  BY <1>2 DEF FallbackGate, Handled, TypeOK

LEMMA DeliverJudgeRoundHandled ==
  ASSUME TypeOK, NEW b, NEW ls, NEW running, WorkTyped(b, ls), AllOnTask(ls, b, running),
         NEW loop, InHand(loop, b), DeliverJudgeRound(loop, b, ls)
  PROVE  Handled(b, running)
<1> DEFINE judge == Judge[loop.builder]
           row == NewRow(judge, loop.orig)
           next == [loop EXCEPT !.phase = "judge"]
<1>1. CASE judge # NoRole /\ Up(judge)
  <2>1. judge \in Roles /\ loop.orig \in Nat
    BY <1>1, RolesAssumption DEF InHand, Loop, TaskId
  <2>2. row \in Row /\ row.to = judge /\ row.loop = loop.orig /\ ~row.done /\ ~row.timedOut
    BY <2>1, NewRowTyped
  <2>3. next \in Loop /\ next.orig = loop.orig /\ next.builder = loop.builder /\ next.phase = "judge"
    BY DEF InHand, Loop
  <2>4. OnTask(next, Len(b) + 1, Append(b, row), running)
    <3>1. Append(b, row)[Len(b) + 1] = row
      BY <2>2, AppendRow DEF WorkTyped
    <3>2. /\ loop.orig \in DOMAIN Append(b, row)
          /\ Append(b, row)[loop.orig].to = loop.builder
      BY <2>2, AppendRow DEF WorkTyped, InHand
    <3>3. QED
      BY <2>2, <2>3, <3>1, <3>2 DEF OnTask
  <2>5. /\ WorkTyped(Append(b, row), Put(ls, Len(b) + 1, next))
        /\ DOMAIN b \subseteq DOMAIN Append(b, row)
        /\ AllOnTask(Put(ls, Len(b) + 1, next), Append(b, row), running)
    BY <2>2, <2>3, <2>4, DeliverLoop
  <2>6. /\ board' = Append(b, row)
        /\ loops' = Put(ls, Len(b) + 1, next)
        /\ UNCHANGED <<gates, pane, settled>>
    BY <1>1 DEF DeliverJudgeRound
  <2>7. QED
    BY <2>5, <2>6 DEF Handled, TypeOK
<1>2. CASE ~(judge # NoRole /\ Up(judge))
  BY <1>2, FallbackGateHandled DEF DeliverJudgeRound
<1>3. QED
  BY <1>1, <1>2

LEMMA DeliverRetryRoundHandled ==
  ASSUME TypeOK, NEW b, NEW ls, NEW running, WorkTyped(b, ls), AllOnTask(ls, b, running),
         NEW loop, InHand(loop, b), DeliverRetryRound(loop, b, ls)
  PROVE  Handled(b, running)
<1> DEFINE row == NewRow(loop.builder, loop.orig)
           next == [loop EXCEPT !.phase = "build", !.round = @ + 1]
<1>1. CASE Up(loop.builder)
  <2>1. loop.builder \in Roles /\ loop.orig \in Nat /\ loop.round + 1 \in TaskId
    BY DEF InHand, Loop, TaskId
  <2>2. row \in Row /\ row.to = loop.builder /\ row.loop = loop.orig /\ ~row.done
    BY <2>1, NewRowTyped
  <2>3. next \in Loop /\ next.orig = loop.orig /\ next.builder = loop.builder /\ next.phase = "build"
    BY <2>1 DEF InHand, Loop
  <2>4. OnTask(next, Len(b) + 1, Append(b, row), running)
    <3>1. Append(b, row)[Len(b) + 1] = row
      BY <2>2, AppendRow DEF WorkTyped
    <3>2. /\ loop.orig \in DOMAIN Append(b, row)
          /\ Append(b, row)[loop.orig].to = loop.builder
      BY <2>2, AppendRow DEF WorkTyped, InHand
    <3>3. QED
      BY <2>2, <2>3, <3>1, <3>2 DEF OnTask
  <2>5. /\ WorkTyped(Append(b, row), Put(ls, Len(b) + 1, next))
        /\ DOMAIN b \subseteq DOMAIN Append(b, row)
        /\ AllOnTask(Put(ls, Len(b) + 1, next), Append(b, row), running)
    BY <2>2, <2>3, <2>4, DeliverLoop
  <2>6. /\ board' = Append(b, row)
        /\ loops' = Put(ls, Len(b) + 1, next)
        /\ Inject(loop.builder)
        /\ UNCHANGED <<gates, settled>>
    BY <1>1 DEF DeliverRetryRound
  <2>7. pane' \in [Roles -> PaneState]
    BY <2>1, <2>6, InjectTyped
  <2>8. QED
    BY <2>5, <2>6, <2>7 DEF Handled, TypeOK
<1>2. CASE ~Up(loop.builder)
  BY <1>2, FallbackGateHandled DEF DeliverRetryRound
<1>3. QED
  BY <1>1, <1>2

LEMMA RetryOrGateHandled ==
  ASSUME TypeOK, NEW b, NEW ls, NEW running, WorkTyped(b, ls), AllOnTask(ls, b, running),
         NEW loop, InHand(loop, b), RetryOrGate(loop, b, ls)
  PROVE  Handled(b, running)
BY FallbackGateHandled, DeliverRetryRoundHandled DEF RetryOrGate

-----------------------------------------------------------------------------
(* Passing, committing, merging *)

\* The role branches hold commits of tasks of the board
LEMMA QueueMergeTyped ==
  ASSUME NEW r \in Roles, NEW id \in TaskId, NEW gs \in Seq(Gate), NEW D,
         NEW ah \in [Roles -> SUBSET D], landed \in SUBSET D, unplanned \in SUBSET TaskId,
         QueueMerge(r, id, gs, ah)
  PROVE  gates' \in Seq(Gate) /\ ahead' \in [Roles -> SUBSET D] /\ landed' \in SUBSET D /\ unplanned' \in SUBSET TaskId
<1>1. MergeGate(r, id) \in Gate
  BY GateTyped DEF MergeGate
<1>2. CASE gates' = gs /\ Refuse(ah)
  BY <1>2 DEF Refuse
<1>3. CASE gates' = Append(gs, MergeGate(r, id)) /\ Refuse(ah)
  BY <1>1, <1>3 DEF Refuse
<1>4. CASE gates' = gs /\ Land(r, ah)
  BY <1>4 DEF Land
<1>5. CASE gates' = gs /\ Unplanned(id, ah)
  BY <1>5 DEF Unplanned
<1>6. QED
  BY <1>2, <1>3, <1>4, <1>5 DEF QueueMerge

LEMMA SettleTyped ==
  ASSUME TypeOK, NEW id \in TaskId, NEW by \in Nat,
         NEW how \in {"report", "passed", "accepted", "rejected", "merge-ruled"},
         Settle(how, id, by)
  PROVE  settled' \in SUBSET Settled
<1>1. [how |-> how, id |-> id, by |-> by, told |-> Up(Start)] \in Settled
  BY DEF Settled, Up
<1>2. QED
  BY <1>1 DEF TypeOK, Settle

\* What a handler with a loop in hand leaves behind, its role branches included
HandledAll(b, running) ==
  /\ Handled(b, running)
  /\ ahead' \in [Roles -> SUBSET DOMAIN b]
  /\ landed' \in SUBSET DOMAIN b /\ unplanned' \in SUBSET TaskId

LEMMA RefuseTyped ==
  ASSUME TypeOK, NEW b, DOMAIN b = DOMAIN board,
         NEW ah \in [Roles -> SUBSET DOMAIN b], Refuse(ah)
  PROVE  ahead' \in [Roles -> SUBSET DOMAIN b] /\ landed' \in SUBSET DOMAIN b /\ unplanned' \in SUBSET TaskId
BY DEF TypeOK, Refuse

LEMMA PassHandled ==
  ASSUME TypeOK, NEW b, NEW ls, NEW running, WorkTyped(b, ls), AllOnTask(ls, b, running),
         DOMAIN b = DOMAIN board, NEW ah \in [Roles -> SUBSET DOMAIN b],
         NEW loop, InHand(loop, b), NEW by \in Nat, Pass(loop, by, b, ls, ah)
  PROVE  HandledAll(b, running)
<1>1. loop.builder \in Roles /\ loop.orig \in TaskId
  BY DEF InHand, Loop
<1>2. settled' \in SUBSET Settled
  BY <1>1, SettleTyped DEF Pass
<1>3. gates \in Seq(Gate) /\ landed \in SUBSET DOMAIN b /\ unplanned \in SUBSET TaskId
  BY DEF TypeOK
<1>4. gates' \in Seq(Gate) /\ ahead' \in [Roles -> SUBSET DOMAIN b] /\ landed' \in SUBSET DOMAIN b /\ unplanned' \in SUBSET TaskId
  BY <1>1, <1>3, QueueMergeTyped DEF Pass
<1>5. QED
  BY <1>2, <1>4 DEF Pass, HandledAll, Handled, TypeOK

LEMMA ScoreVerdictHandled ==
  ASSUME TypeOK, NEW b, NEW ls, NEW running, WorkTyped(b, ls), AllOnTask(ls, b, running),
         DOMAIN b = DOMAIN board, NEW ah \in [Roles -> SUBSET DOMAIN b],
         NEW loop, InHand(loop, b), NEW id \in Nat, ScoreVerdict(loop, id, b, ls, ah)
  PROVE  HandledAll(b, running)
<1>1. CASE FallbackGate(loop, b, ls) /\ Refuse(ah)
  BY <1>1, FallbackGateHandled, RefuseTyped DEF HandledAll
<1>2. CASE Pass(loop, id, b, ls, ah)
  BY <1>2, PassHandled
<1>3. CASE RetryOrGate(loop, b, ls) /\ Refuse(ah)
  BY <1>3, RetryOrGateHandled, RefuseTyped DEF HandledAll
<1>4. QED
  BY <1>1, <1>2, <1>3 DEF ScoreVerdict

-----------------------------------------------------------------------------
(* Reports *)

\* What is known of the arguments a report is handled with: b is the board with
\* the report counted, id a row of it, ah the branches after the commit
Reported(id, b, ah) ==
  /\ id \in DOMAIN b
  /\ DOMAIN b = DOMAIN board
  /\ WorkTyped(b, loops)
  /\ AllOnTask(loops, b, checks)
  /\ ah \in [Roles -> SUBSET DOMAIN b]

\* A loop taken out of the map leaves the others on their tasks, though its own
\* row is closed.
LEMMA TakeLoop ==
  ASSUME NEW b, NEW ls, WorkTyped(b, ls), NEW running, AllOnTask(ls, b, running),
         NEW id \in DOMAIN b, NEW c, c \in Seq(Row), DOMAIN c = DOMAIN b,
         \A n \in DOMAIN b \ {id} : c[n] = b[n],
         c[id].to = b[id].to, c[id].loop = b[id].loop
  PROVE  /\ WorkTyped(c, Drop(ls, id))
         /\ AllOnTask(Drop(ls, id), c, running)
         /\ AllOnTask(Drop(ls, id), c, running \ {id})
         /\ \A new : AllOnTask(Drop(ls, id), c, running \cup new)
         /\ id \in DOMAIN ls => InHand(ls[id], c)
<1>1. /\ DOMAIN Drop(ls, id) = DOMAIN ls \ {id}
      /\ Drop(ls, id) \in [DOMAIN Drop(ls, id) -> Loop]
      /\ \A x \in DOMAIN ls \ {id} : Drop(ls, id)[x] = ls[x]
  BY DropLoop DEF WorkTyped
<1>2. WorkTyped(c, Drop(ls, id))
  BY <1>1 DEF WorkTyped
<1>3. \A n \in DOMAIN b : c[n].to = b[n].to /\ c[n].loop = b[n].loop
  OBVIOUS
<1>4. ASSUME NEW x \in DOMAIN ls \ {id}
      PROVE  OnTask(ls[x], x, c, running) /\ OnTask(ls[x], x, c, running \ {id})
             /\ \A new : OnTask(ls[x], x, c, running \cup new)
  <2>1. OnTask(ls[x], x, b, running) /\ x \in DOMAIN b /\ c[x] = b[x]
    BY DEF AllOnTask, WorkTyped
  <2>2. QED
    BY <1>3, <2>1 DEF OnTask
<1>5. id \in DOMAIN ls => InHand(ls[id], c)
  <2>1. SUFFICES ASSUME id \in DOMAIN ls PROVE InHand(ls[id], c)
    OBVIOUS
  <2>2. ls[id] \in Loop /\ OnTask(ls[id], id, b, running)
    BY <2>1 DEF AllOnTask, WorkTyped
  <2>3. QED
    BY <1>3, <2>2 DEF OnTask, InHand
<1>6. QED
  BY <1>1, <1>2, <1>4, <1>5 DEF AllOnTask

\* A row of no loop may change in everything but who it was delivered to and what
\* for.
LEMMA TouchRow ==
  ASSUME NEW b, NEW ls, WorkTyped(b, ls), NEW running, AllOnTask(ls, b, running),
         NEW id \in DOMAIN b \ DOMAIN ls, NEW c, c \in Seq(Row), DOMAIN c = DOMAIN b,
         \A n \in DOMAIN b \ {id} : c[n] = b[n],
         c[id].to = b[id].to, c[id].loop = b[id].loop
  PROVE  WorkTyped(c, ls) /\ AllOnTask(ls, c, running)
<1>1. \A n \in DOMAIN b : c[n].to = b[n].to /\ c[n].loop = b[n].loop
  OBVIOUS
<1>2. ASSUME NEW x \in DOMAIN ls PROVE OnTask(ls[x], x, c, running)
  <2>1. OnTask(ls[x], x, b, running) /\ x \in DOMAIN b /\ c[x] = b[x]
    BY DEF AllOnTask, WorkTyped
  <2>2. QED
    BY <1>1, <2>1 DEF OnTask
<1>3. QED
  BY <1>2 DEF AllOnTask, WorkTyped

LEMMA JudgedDoneHandled ==
  ASSUME TypeOK, NEW id \in DOMAIN loops, NEW b, NEW ah, Reported(id, b, ah),
         JudgedDone(id, b, ah)
  PROVE  HandledAll(b, checks') /\ checks' \subseteq DOMAIN b
<1> DEFINE loop == loops[id]
           rest == Drop(loops, id)
           done == Resolve(b, id)
<1>1. /\ done \in Seq(Row)
      /\ DOMAIN done = DOMAIN b
      /\ \A n \in DOMAIN b \ {id} : done[n] = b[n]
      /\ done[id] = [b[id] EXCEPT !.done = TRUE, !.snap = FALSE]
  BY ResolveRow DEF Reported, WorkTyped
<1>2. b[id] \in Row
  BY DEF Reported, WorkTyped
<1>3. done[id].to = b[id].to /\ done[id].loop = b[id].loop /\ done[id].done
  BY <1>1, <1>2 DEF Row
<1>4. /\ WorkTyped(done, rest)
      /\ AllOnTask(rest, done, checks)
      /\ \A new : AllOnTask(rest, done, checks \cup new)
      /\ InHand(loop, done)
  BY <1>1, <1>3, TakeLoop DEF Reported
<1>5. DOMAIN done = DOMAIN board /\ ah \in [Roles -> SUBSET DOMAIN done]
  BY <1>1 DEF Reported
<1>6. checks \subseteq DOMAIN b /\ id \in DOMAIN b
  BY DEF TypeOK, Reported
<1>7. CASE FallbackGate(loop, done, rest) /\ Refuse(ah) /\ UNCHANGED checks
  BY <1>1, <1>4, <1>5, <1>6, <1>7, FallbackGateHandled, RefuseTyped DEF HandledAll, Handled
<1>8. CASE loop.phase = "build" /\ BuildDone(loop, id, done, rest) /\ Refuse(ah)
  <2>1. ahead' \in [Roles -> SUBSET DOMAIN done] /\ landed' \in SUBSET DOMAIN done /\ unplanned' \in SUBSET TaskId
    BY <1>5, <1>8, RefuseTyped
  <2>2. CASE loop.builder \in Checked
    <3> DEFINE next == [loop EXCEPT !.phase = "check"]
    <3>1. /\ board' = done
          /\ loops' = Put(rest, id, next)
          /\ checks' = checks \cup {id}
          /\ UNCHANGED <<gates, pane, settled>>
      BY <1>8, <2>2 DEF BuildDone
    <3>2. next \in Loop /\ next.orig = loop.orig /\ next.builder = loop.builder /\ next.phase = "check"
      BY <1>4 DEF InHand, Loop
    <3> DEFINE ms == Put(rest, id, next)
    <3>3. /\ DOMAIN ms = DOMAIN rest \cup {id}
          /\ ms \in [DOMAIN ms -> Loop]
          /\ ms[id] = next
          /\ \A x \in DOMAIN rest \ {id} : ms[x] = rest[x]
      <4>1. rest \in [DOMAIN rest -> Loop]
        BY <1>4 DEF WorkTyped
      <4>2. next \in Loop
        BY <3>2
      <4> HIDE DEF rest, next
      <4>3. QED
        BY <4>1, <4>2 DEF Put
    <3>4. WorkTyped(board', loops')
      <4>1. board' = done /\ loops' = ms
        BY <3>1
      <4>2. DOMAIN ms \subseteq DOMAIN done
        BY <1>1, <1>4, <1>6, <3>3 DEF WorkTyped
      <4> HIDE DEF ms
      <4>3. QED
        BY <1>4, <3>3, <4>1, <4>2 DEF WorkTyped
    <3>5. OnTask(next, id, done, checks')
      <4>1. OnTask(loop, id, b, checks)
        BY DEF Reported, AllOnTask
      <4>2. QED
        BY <1>1, <1>3, <1>4, <1>8, <2>2, <3>1, <3>2, <4>1 DEF OnTask, InHand
    <3>6. AllOnTask(loops', board', checks')
      BY <1>4, <3>1, <3>3, <3>5 DEF AllOnTask
    <3>7. QED
      BY <1>1, <1>6, <2>1, <3>1, <3>4, <3>6 DEF HandledAll, Handled, TypeOK
  <2>3. CASE loop.builder \notin Checked
    <3>1. DeliverJudgeRound(loop, done, rest) /\ checks' = checks
      BY <1>8, <2>3 DEF BuildDone
    <3>2. Handled(done, checks)
      BY <1>4, <3>1, DeliverJudgeRoundHandled
    <3>3. QED
      BY <1>1, <1>6, <2>1, <3>1, <3>2 DEF HandledAll, Handled
  <2>4. QED
    BY <2>2, <2>3
<1>9. CASE ScoreVerdict(loop, id, done, rest, ah) /\ UNCHANGED checks
  <2>1. id \in Nat
    BY DEF Reported, WorkTyped
  <2>2. HandledAll(done, checks)
    BY <1>4, <1>5, <1>9, <2>1, ScoreVerdictHandled
  <2>3. QED
    BY <1>1, <1>6, <1>9, <2>2 DEF HandledAll, Handled
<1>10. QED
  BY <1>7, <1>8, <1>9 DEF JudgedDone

LEMMA PlainDoneHandled ==
  ASSUME TypeOK, NEW id, id \notin DOMAIN loops, NEW b, NEW ah, Reported(id, b, ah),
         PlainDone(id, b, ah)
  PROVE  HandledAll(b, checks') /\ checks' \subseteq DOMAIN b
<1> DEFINE r == b[id].to
           done == Resolve(b, id)
<1>1. b[id] \in Row /\ r \in Roles /\ id \in TaskId
  <2>1. b[id] \in Row /\ id \in TaskId
    BY DEF Reported, WorkTyped, TaskId
  <2>2. QED
    BY <2>1 DEF Row
<1>2. /\ done \in Seq(Row)
      /\ DOMAIN done = DOMAIN b
      /\ \A n \in DOMAIN b \ {id} : done[n] = b[n]
      /\ done[id] = [b[id] EXCEPT !.done = TRUE, !.snap = FALSE]
  BY ResolveRow DEF Reported, WorkTyped
<1>3. done[id].to = r /\ done[id].loop = b[id].loop
  BY <1>1, <1>2 DEF Row
<1>4. WorkTyped(done, loops) /\ AllOnTask(loops, done, checks)
  BY <1>2, <1>3, TouchRow DEF Reported
<1>5. board' = done /\ UNCHANGED <<loops, checks, pane>>
  BY DEF PlainDone
<1>6. /\ gates' \in Seq(Gate)
      /\ settled' \in SUBSET Settled
      /\ ahead' \in [Roles -> SUBSET DOMAIN b]
      /\ landed' \in SUBSET DOMAIN b /\ unplanned' \in SUBSET TaskId
  <2>1. gates \in Seq(Gate) /\ landed \in SUBSET DOMAIN b /\ unplanned \in SUBSET TaskId /\ ah \in [Roles -> SUBSET DOMAIN b]
    BY DEF TypeOK, Reported
  <2>2. CASE /\ gates' = Append(gates, [kind |-> "ownership", to |-> r, id |-> id])
             /\ Refuse(ah)
             /\ UNCHANGED settled
    <3>1. [kind |-> "ownership", to |-> r, id |-> id] \in Gate
      BY <1>1, GateTyped
    <3>2. QED
      BY <2>1, <2>2, <3>1 DEF Refuse, TypeOK
  <2>3. CASE Settle("report", id, id) /\ QueueMerge(r, id, gates, ah)
    <3>1. settled' \in SUBSET Settled
      BY <1>1, <2>3, SettleTyped DEF TaskId
    <3>2. QED
      BY <1>1, <2>1, <2>3, <3>1, QueueMergeTyped
  <2>4. QED
    BY <2>2, <2>3 DEF PlainDone
<1>7. QED
  BY <1>2, <1>4, <1>5, <1>6 DEF HandledAll, Handled, TypeOK, Reported

-----------------------------------------------------------------------------
(* One lemma per action *)

IInv == TypeOK /\ LoopOnItsTask

LEMMA Conclude ==
  ASSUME NEW b, DOMAIN b = DOMAIN board, HandledAll(b, checks'),
         checks' \subseteq DOMAIN b, blocked' \in BOOLEAN, asked' \in 0 .. MaxAsked
  PROVE  IInv'
<1>1. DOMAIN b \subseteq DOMAIN board'
  BY DEF HandledAll, Handled
<1>2. ahead' \in [Roles -> SUBSET DOMAIN board']
  BY <1>1 DEF HandledAll
<1>3. TypeOK'
  BY <1>1, <1>2 DEF HandledAll, Handled, WorkTyped, TypeOK
<1>4. LoopOnItsTask'
  BY DEF HandledAll, Handled, AllOnTask, LoopOnItsTask
<1>5. QED
  BY <1>3, <1>4 DEF IInv

\* The work as a handler finds it
LEMMA WorkAtHand ==
  ASSUME IInv
  PROVE  WorkTyped(board, loops) /\ AllOnTask(loops, board, checks)
BY DEF IInv, TypeOK, LoopOnItsTask, WorkTyped, AllOnTask

\* A first delivery, from the orchestrator's command or the user's approval
LEMMA HandOverHandled ==
  ASSUME IInv, NEW r \in Roles, HandOver(r), gates' \in Seq(Gate), UNCHANGED settled
  PROVE  Handled(board, checks)
<1> DEFINE id == Len(board) + 1
           loop == [orig |-> id, builder |-> r, round |-> 1, phase |-> "build"]
           row == NewRow(r, IF Judged(r) THEN id ELSE 0)
<1>1. WorkTyped(board, loops) /\ AllOnTask(loops, board, checks)
  BY WorkAtHand
<1>2. id \in TaskId /\ id \in Nat
  BY <1>1 DEF WorkTyped, TaskId
<1>3. row \in Row /\ row.to = r /\ row.loop = (IF Judged(r) THEN id ELSE 0) /\ ~row.done
  BY <1>2, NewRowTyped
<1>4. pane' \in [Roles -> PaneState]
  BY InjectTyped DEF HandOver, IInv
<1>5. WorkTyped(board', loops') /\ DOMAIN board \subseteq DOMAIN board' /\ AllOnTask(loops', board', checks)
  <2>1. CASE Judged(r)
    <3>1. loop \in Loop /\ loop.orig = id /\ loop.builder = r /\ loop.phase = "build"
      BY <1>2 DEF Loop, TaskId
    <3>2. OnTask(loop, id, Append(board, row), checks)
      <4>1. Append(board, row)[id] = row /\ id \in DOMAIN Append(board, row)
        BY <1>1, <1>3, AppendRow DEF WorkTyped
      <4>2. QED
        BY <2>1, <1>3, <3>1, <4>1 DEF OnTask
    <3>3. board' = Append(board, row) /\ loops' = Put(loops, id, loop)
      BY <2>1 DEF HandOver
    <3> HIDE DEF row, loop
    <3>4. QED
      BY <1>1, <1>3, <3>1, <3>2, <3>3, DeliverLoop
  <2>2. CASE ~Judged(r)
    <3>1. board' = Append(board, row) /\ loops' = loops
      BY <2>2 DEF HandOver
    <3> HIDE DEF row
    <3>2. QED
      BY <1>1, <1>3, <3>1, DeliverRow
  <2>3. QED
    BY <2>1, <2>2
<1>6. QED
  BY <1>4, <1>5 DEF Handled, IInv, TypeOK

LEMMA DelegateKeeps ==
  ASSUME IInv, NEW r \in Targets, Delegate(r)
  PROVE  IInv'
<1>1. r \in Roles /\ TypeOK
  BY RolesAssumption DEF IInv
<1>2. asked' \in 0 .. MaxAsked /\ blocked' \in BOOLEAN /\ checks' = checks
  BY <1>1, BoundsAssumption DEF Delegate, TypeOK
<1>3. HandledAll(board, checks)
  <2>1. CASE r \in Approve
    <3>1. [kind |-> "entry", to |-> r, id |-> 0] \in Gate
      BY <1>1 DEF Gate
    <3>2. gates' \in Seq(Gate)
      <4>1. gates' = Append(gates, [kind |-> "entry", to |-> r, id |-> 0])
        BY <2>1 DEF Delegate
      <4>2. gates \in Seq(Gate)
        BY <1>1 DEF TypeOK
      <4>3. QED
        BY <3>1, <4>1, <4>2
    <3>3. UNCHANGED <<board, loops, pane, ahead, landed, unplanned, settled>>
      BY <2>1 DEF Delegate
    <3>4. QED
      BY <1>1, <3>2, <3>3, WorkAtHand DEF HandledAll, Handled, TypeOK
  <2>2. CASE r \notin Approve
    <3>1. HandOver(r) /\ UNCHANGED <<gates, ahead, landed, unplanned, settled>>
      BY <2>2 DEF Delegate
    <3>2. Handled(board, checks)
      BY <1>1, <3>1, HandOverHandled DEF TypeOK
    <3>3. QED
      BY <1>1, <3>1, <3>2 DEF HandledAll, TypeOK
  <2>3. QED
    BY <2>1, <2>2
<1>4. QED
  BY <1>1, <1>2, <1>3, Conclude DEF TypeOK

LEMMA ReportCounted ==
  ASSUME NEW r \in Row
  PROVE  LET row == [r EXCEPT !.reports = @ + 1]
         IN /\ row \in Row
            /\ row.to = r.to /\ row.loop = r.loop
            /\ row.done = r.done /\ row.timedOut = r.timedOut
            /\ row.snap = r.snap
<1>1. r.reports + 1 \in Nat
  BY DEF Row
<1>2. QED
  BY <1>1 DEF Row

LEMMA WorkDoneKeeps ==
  ASSUME IInv, NEW id \in DOMAIN board, WorkDone(id)
  PROVE  IInv'
<1> DEFINE row == [board[id] EXCEPT !.reports = @ + 1]
           b == [board EXCEPT ![id] = row]
<1>1. board \in Seq(Row) /\ board[id] \in Row /\ TypeOK
  BY DEF IInv, TypeOK
<1>2. /\ row \in Row
      /\ row.to = board[id].to /\ row.loop = board[id].loop
      /\ row.done = board[id].done /\ row.timedOut = board[id].timedOut
  BY <1>1, ReportCounted
<1>3. /\ b \in Seq(Row) /\ DOMAIN b = DOMAIN board /\ b[id] = row
      /\ \A n \in DOMAIN board \ {id} : b[n] = board[n]
  <2> HIDE DEF row
  <2>1. QED
    BY <1>1, <1>2, UpdateRow
<1>4. WorkTyped(b, loops) /\ AllOnTask(loops, b, checks)
  <2> HIDE DEF b, row
  <2>1. WorkTyped(b, loops)
    BY <1>3, WorkAtHand DEF WorkTyped
  <2>2. \A n \in DOMAIN board : /\ b[n].to = board[n].to /\ b[n].loop = board[n].loop
                                /\ b[n].done = board[n].done /\ b[n].timedOut = board[n].timedOut
    BY <1>2, <1>3
  <2>3. ASSUME NEW x \in DOMAIN loops PROVE OnTask(loops[x], x, b, checks)
    <3>1. OnTask(loops[x], x, board, checks) /\ x \in DOMAIN board
      BY WorkAtHand DEF AllOnTask, WorkTyped
    <3>2. QED
      BY <1>3, <2>2, <3>1 DEF OnTask
  <2>4. QED
    BY <2>1, <2>3 DEF AllOnTask
<1>5. b = [board EXCEPT ![id].reports = @ + 1]
  OBVIOUS
<1>6. UNCHANGED <<blocked, asked>>
  BY DEF WorkDone
<1>7. board[id].to \in Roles
  BY <1>1 DEF Row
<1> HIDE DEF b, row
<1>8. HandledAll(b, checks') /\ checks' \subseteq DOMAIN b
  <2>1. CASE board' = b /\ UNCHANGED <<loops, gates, checks, pane, ahead, landed, unplanned, settled>>
    BY <1>1, <1>3, <1>4, <2>1 DEF HandledAll, Handled, TypeOK
  <2>2. CASE \E ah \in {ahead} \cup {[ahead EXCEPT ![board[id].to] = @ \cup {id}]} :
               \/ id \in DOMAIN loops /\ JudgedDone(id, b, ah)
               \/ id \notin DOMAIN loops /\ PlainDone(id, b, ah)
               \/ board' = b /\ Refuse(ah) /\ UNCHANGED <<loops, gates, checks, pane, settled>>
    <3>1. PICK ah \in {ahead} \cup {[ahead EXCEPT ![board[id].to] = @ \cup {id}]} :
               \/ id \in DOMAIN loops /\ JudgedDone(id, b, ah)
               \/ id \notin DOMAIN loops /\ PlainDone(id, b, ah)
               \/ board' = b /\ Refuse(ah) /\ UNCHANGED <<loops, gates, checks, pane, settled>>
      BY <2>2
    <3>2. ah \in [Roles -> SUBSET DOMAIN b]
      BY <1>1, <1>3, <1>7 DEF TypeOK
    <3>3. Reported(id, b, ah)
      BY <1>3, <1>4, <3>2 DEF Reported
    <3>4. CASE id \in DOMAIN loops /\ JudgedDone(id, b, ah)
      BY <1>1, <3>3, <3>4, JudgedDoneHandled
    <3>5. CASE id \notin DOMAIN loops /\ PlainDone(id, b, ah)
      BY <1>1, <3>3, <3>5, PlainDoneHandled
    <3>6. CASE board' = b /\ Refuse(ah) /\ UNCHANGED <<loops, gates, checks, pane, settled>>
      BY <1>1, <1>3, <1>4, <3>2, <3>6, RefuseTyped DEF HandledAll, Handled, TypeOK
    <3>7. QED
      BY <3>1, <3>4, <3>5, <3>6
  <2>3. QED
    BY <1>5, <2>1, <2>2 DEF WorkDone
<1>9. QED
  BY <1>1, <1>3, <1>6, <1>8, Conclude DEF TypeOK

LEMMA FinishCheckKeeps ==
  ASSUME IInv, NEW id \in checks, FinishCheck(id)
  PROVE  IInv'
<1> DEFINE loop == loops[id]
           rest == Drop(loops, id)
           b == board
<1>1. TypeOK /\ id \in DOMAIN b /\ board \in Seq(Row)
  BY DEF IInv, TypeOK
<1>2. checks' = checks \ {id} /\ UNCHANGED <<blocked, asked>>
  BY DEF FinishCheck
<1>3. ahead \in [Roles -> SUBSET DOMAIN b]
  BY <1>1 DEF TypeOK
<1>4. HandledAll(b, checks')
  <2>1. CASE id \in DOMAIN loops /\ loop.phase = "check"
    <3>1. WorkTyped(b, rest) /\ AllOnTask(rest, b, checks') /\ InHand(loop, b)
      BY <1>1, <1>2, <2>1, WorkAtHand, TakeLoop
    <3>2. \/ FallbackGate(loop, b, rest) /\ Refuse(ahead)
          \/ DeliverJudgeRound(loop, b, rest) /\ Refuse(ahead)
          \/ Pass(loop, id, b, rest, ahead)
          \/ RetryOrGate(loop, b, rest) /\ Refuse(ahead)
      BY <2>1 DEF FinishCheck
    <3>3. id \in Nat
      BY <1>1
    <3> HIDE DEF loop, rest
    <3>4. CASE FallbackGate(loop, b, rest) /\ Refuse(ahead)
      BY <1>1, <1>3, <3>1, <3>4, FallbackGateHandled, RefuseTyped DEF HandledAll
    <3>5. CASE DeliverJudgeRound(loop, b, rest) /\ Refuse(ahead)
      BY <1>1, <1>3, <3>1, <3>5, DeliverJudgeRoundHandled, RefuseTyped DEF HandledAll
    <3>6. CASE Pass(loop, id, b, rest, ahead)
      BY <1>1, <1>3, <3>1, <3>3, <3>6, PassHandled
    <3>7. CASE RetryOrGate(loop, b, rest) /\ Refuse(ahead)
      BY <1>1, <1>3, <3>1, <3>7, RetryOrGateHandled, RefuseTyped DEF HandledAll
    <3>8. QED
      BY <3>2, <3>4, <3>5, <3>6, <3>7
  <2>2. CASE ~(id \in DOMAIN loops /\ loop.phase = "check")
    <3>1. UNCHANGED <<board, loops, gates, pane, ahead, landed, unplanned, settled>>
      BY <2>2 DEF FinishCheck
    <3>2. ASSUME NEW x \in DOMAIN loops PROVE OnTask(loops[x], x, board, checks')
      <4>1. OnTask(loops[x], x, board, checks)
        BY DEF IInv, LoopOnItsTask
      <4>2. QED
        BY <1>2, <2>2, <4>1 DEF OnTask
    <3>3. QED
      BY <1>1, <3>1, <3>2, WorkAtHand DEF HandledAll, Handled, TypeOK, AllOnTask
  <2>3. QED
    BY <2>1, <2>2
<1>5. QED
  BY <1>1, <1>2, <1>4, Conclude DEF TypeOK

\* A step that leaves boards, loops, checks and branches alone keeps the invariant
\* when the other parts stay well-formed.
LEMMA QuietKeeps ==
  ASSUME IInv, UNCHANGED <<board, loops, checks, ahead, landed, unplanned, asked>>,
         gates' \in Seq(Gate), pane' \in [Roles -> PaneState], blocked' \in BOOLEAN,
         settled' \in SUBSET Settled
  PROVE  IInv'
BY DEF IInv, TypeOK, LoopOnItsTask

LEMMA PopGate ==
  ASSUME TypeOK, gates # <<>>
  PROVE  Head(gates) \in Gate /\ Tail(gates) \in Seq(Gate)
BY DEF TypeOK

LEMMA ApproveGateKeeps ==
  ASSUME IInv, ApproveGate
  PROVE  IInv'
<1> DEFINE g == Head(gates)
           rest == Tail(gates)
<1>1. TypeOK /\ g \in Gate /\ rest \in Seq(Gate)
  BY PopGate DEF IInv, ApproveGate
<1>2. g.to \in Roles /\ (g.kind # "entry" => g.id \in TaskId)
  BY <1>1 DEF Gate
<1>3. UNCHANGED <<checks, blocked, asked>>
  BY DEF ApproveGate
<1>4. HandledAll(board, checks)
  <2>1. CASE /\ HandOver(g.to)
             /\ gates' = rest
             /\ UNCHANGED <<ahead, landed, unplanned, settled>>
    BY <1>1, <1>2, <2>1, HandOverHandled DEF HandledAll, TypeOK
  <2>2. CASE gates' = rest /\ UNCHANGED <<board, loops, pane, ahead, landed, unplanned, settled>>
    BY <1>1, <2>2, WorkAtHand DEF HandledAll, Handled, TypeOK
  <2>3. CASE /\ g.kind \in {"fallback", "ownership"}
             /\ Settle("accepted", g.id, 0)
             /\ QueueMerge(g.to, g.id, rest, ahead)
             /\ UNCHANGED <<board, loops, pane>>
    <3>1. settled' \in SUBSET Settled
      BY <1>1, <1>2, <2>3, SettleTyped
    <3>2. ahead \in [Roles -> SUBSET DOMAIN board] /\ landed \in SUBSET DOMAIN board /\ unplanned \in SUBSET TaskId
      BY <1>1 DEF TypeOK
    <3> HIDE DEF g, rest
    <3>3. gates' \in Seq(Gate) /\ ahead' \in [Roles -> SUBSET DOMAIN board] /\ landed' \in SUBSET DOMAIN board /\ unplanned' \in SUBSET TaskId
      BY <1>1, <1>2, <2>3, <3>2, QueueMergeTyped
    <3>4. QED
      BY <1>1, <2>3, <3>1, <3>3, WorkAtHand DEF HandledAll, Handled, TypeOK
  <2>4. CASE /\ g.kind = "merge"
             /\ Settle("merge-ruled", g.id, 0)
             /\ gates' = rest
             /\ Land(g.to, ahead) \/ Refuse(ahead)
             /\ UNCHANGED <<board, loops, pane>>
    <3>1. settled' \in SUBSET Settled
      BY <1>1, <1>2, <2>4, SettleTyped
    <3>2. ahead' \in [Roles -> SUBSET DOMAIN board] /\ landed' \in SUBSET DOMAIN board /\ unplanned' \in SUBSET TaskId
      BY <1>1, <1>2, <2>4 DEF Land, Refuse, TypeOK
    <3>3. QED
      BY <1>1, <2>4, <3>1, <3>2, WorkAtHand DEF HandledAll, Handled, TypeOK
  <2>5. QED
    BY <2>1, <2>2, <2>3, <2>4 DEF ApproveGate
<1>5. QED
  BY <1>1, <1>3, <1>4, Conclude DEF TypeOK

LEMMA RejectGateKeeps ==
  ASSUME IInv, RejectGate
  PROVE  IInv'
<1> DEFINE g == Head(gates)
<1>1. TypeOK /\ g \in Gate /\ Tail(gates) \in Seq(Gate)
  BY PopGate DEF IInv, RejectGate
<1>2. g.kind # "entry" => g.id \in TaskId
  BY <1>1 DEF Gate
<1>3. settled' \in SUBSET Settled
  <2>1. CASE g.kind = "entry"
    BY <1>1, <2>1 DEF RejectGate, TypeOK
  <2>2. CASE g.kind = "merge"
    <3>1. Settle("merge-ruled", g.id, 0)
      BY <2>2 DEF RejectGate
    <3>2. QED
      BY <1>1, <1>2, <2>2, <3>1, SettleTyped
  <2>3. CASE g.kind \notin {"entry", "merge"}
    <3>1. Settle("rejected", g.id, 0)
      BY <2>3 DEF RejectGate
    <3>2. QED
      BY <1>1, <1>2, <2>3, <3>1, SettleTyped
  <2>4. QED
    BY <2>1, <2>2, <2>3
<1>4. /\ gates' = Tail(gates)
      /\ UNCHANGED <<board, loops, checks, pane, blocked, ahead, landed, unplanned, asked>>
  BY DEF RejectGate
<1>5. QED
  BY <1>1, <1>3, <1>4, QuietKeeps DEF TypeOK

LEMMA TimeoutKeeps ==
  ASSUME IInv, NEW id \in DOMAIN board, Timeout(id)
  PROVE  IInv'
<1> DEFINE row == [board[id] EXCEPT !.timedOut = TRUE]
           b == [board EXCEPT ![id] = row]
           rest == Drop(loops, id)
<1>1. board \in Seq(Row) /\ board[id] \in Row /\ TypeOK
  BY DEF IInv, TypeOK
<1>2. /\ row \in Row
      /\ row.to = board[id].to /\ row.loop = board[id].loop /\ row.done = board[id].done
  BY <1>1 DEF Row
<1>3. /\ b \in Seq(Row) /\ DOMAIN b = DOMAIN board /\ b[id] = row
      /\ \A n \in DOMAIN board \ {id} : b[n] = board[n]
  <2> HIDE DEF row
  <2>1. QED
    BY <1>1, <1>2, UpdateRow
<1>4. b = [board EXCEPT ![id].timedOut = TRUE]
  OBVIOUS
<1>5. UNCHANGED <<checks, blocked, ahead, landed, unplanned, asked>>
  BY DEF Timeout
<1>6. Handled(b, checks)
  <2>1. CASE id \in DOMAIN loops /\ loops[id].phase = "judge"
    <3>1. FallbackGate(loops[id], b, rest)
      BY <1>4, <2>1 DEF Timeout
    <3> HIDE DEF b, row
    <3>2. WorkTyped(b, rest) /\ AllOnTask(rest, b, checks) /\ InHand(loops[id], b)
      BY <1>2, <1>3, <2>1, WorkAtHand, TakeLoop
    <3>3. QED
      BY <1>1, <3>1, <3>2, FallbackGateHandled
  <2>2. CASE ~(id \in DOMAIN loops /\ loops[id].phase = "judge")
    <3>1. board' = b /\ UNCHANGED <<loops, gates, pane, settled>>
      BY <1>4, <2>2 DEF Timeout
    <3> HIDE DEF b, row
    <3>2. \A n \in DOMAIN board : b[n].to = board[n].to /\ b[n].loop = board[n].loop /\ b[n].done = board[n].done
      BY <1>2, <1>3
    <3>3. ASSUME NEW x \in DOMAIN loops PROVE OnTask(loops[x], x, b, checks)
      <4>1. OnTask(loops[x], x, board, checks) /\ x \in DOMAIN board
        BY WorkAtHand DEF AllOnTask, WorkTyped
      <4>2. x = id => loops[x].phase # "judge"
        BY <2>2
      <4>3. x # id => b[x] = board[x]
        BY <1>3, <4>1
      <4>4. QED
        BY <1>3, <3>2, <4>1, <4>2, <4>3 DEF OnTask
    <3>4. WorkTyped(b, loops)
      BY <1>3, WorkAtHand DEF WorkTyped
    <3>5. QED
      BY <1>1, <1>3, <3>1, <3>3, <3>4 DEF Handled, TypeOK, AllOnTask
  <2>3. QED
    BY <2>1, <2>2
<1> HIDE DEF b
<1>7. HandledAll(b, checks)
  BY <1>1, <1>3, <1>5, <1>6 DEF HandledAll, TypeOK
<1>8. QED
  BY <1>1, <1>3, <1>5, <1>7, Conclude DEF TypeOK

\* The gates of the loops a role's exit fails are gates, however many there are.
LEMMA FailLoopsForTyped ==
  ASSUME IInv, NEW r, FailLoopsFor(r)
  PROVE  /\ gates' \in Seq(Gate)
         /\ WorkTyped(board, loops')
         /\ AllOnTask(loops', board, checks)
<1> DEFINE S == WaitingOn(r)
           n == Cardinality(S)
<1>1. board \in Seq(Row) /\ DOMAIN loops \subseteq DOMAIN board /\ gates \in Seq(Gate)
      /\ loops \in [DOMAIN loops -> Loop]
  BY DEF IInv, TypeOK
<1>2. S \subseteq DOMAIN loops
  BY DEF WaitingOn
<1>3. n \in Nat
  <2>1. IsFiniteSet(1 .. Len(board))
    <3>1. Len(board) \in Int /\ 1 \in Int
      BY <1>1
    <3>2. QED
      BY <3>1, FS_Interval
  <2>2. S \subseteq 1 .. Len(board)
    BY <1>1, <1>2
  <2>3. IsFiniteSet(S)
    BY <2>1, <2>2, FS_Subset
  <2>4. QED
    BY <2>3, FS_CardinalityType
<1> HIDE DEF S
<1>4. PICK order \in Orders(S) :
        /\ gates' = gates \o [i \in DOMAIN order |->
                     [kind |-> "fallback", to |-> loops[order[i]].builder, id |-> loops[order[i]].orig]]
        /\ loops' = [id \in DOMAIN loops \ S |-> loops[id]]
  BY DEF FailLoopsFor, S
<1>5. order \in [1 .. n -> S]
  BY DEF Orders
<1> DEFINE more == [i \in 1 .. n |->
                     [kind |-> "fallback", to |-> loops[order[i]].builder, id |-> loops[order[i]].orig]]
<1>6. more \in Seq(Gate)
  <2>1. ASSUME NEW i \in 1 .. n
        PROVE  [kind |-> "fallback", to |-> loops[order[i]].builder, id |-> loops[order[i]].orig] \in Gate
    <3>1. loops[order[i]] \in Loop
      BY <1>1, <1>2, <1>5
    <3>2. loops[order[i]].builder \in Roles /\ loops[order[i]].orig \in TaskId
      BY <3>1 DEF Loop
    <3>3. QED
      BY <3>2, GateTyped
  <2> HIDE DEF n
  <2>2. QED
    BY <1>3, <2>1
<1>7. gates' = gates \o more
  BY <1>4, <1>5
<1>8. gates' \in Seq(Gate)
  <2> HIDE DEF more
  <2>1. QED
    BY <1>1, <1>6, <1>7
<1>9. DOMAIN loops' = DOMAIN loops \ S /\ \A id \in DOMAIN loops' : loops'[id] = loops[id]
  BY <1>4
<1>10. WorkTyped(board, loops')
  BY <1>1, <1>4 DEF WorkTyped
<1>11. AllOnTask(loops', board, checks)
  BY <1>9, WorkAtHand DEF AllOnTask
<1>12. QED
  BY <1>8, <1>10, <1>11

LEMMA PaneClosedKeeps ==
  ASSUME IInv, NEW r \in Roles, PaneClosed(r)
  PROVE  IInv'
<1>1. TypeOK
  BY DEF IInv
<1>2. UNCHANGED <<board, checks, blocked, ahead, landed, unplanned, asked, settled>>
  BY DEF PaneClosed
<1>3. pane' \in [Roles -> PaneState]
  BY <1>1 DEF PaneClosed, TypeOK, PaneState
<1>4. CASE UNCHANGED <<loops, gates>>
  BY <1>1, <1>2, <1>3, <1>4, QuietKeeps DEF TypeOK
<1>5. CASE FailLoopsFor(r)
  <2>1. gates' \in Seq(Gate) /\ WorkTyped(board, loops') /\ AllOnTask(loops', board, checks)
    BY <1>5, FailLoopsForTyped
  <2>2. HandledAll(board, checks)
    BY <1>1, <1>2, <1>3, <2>1 DEF HandledAll, Handled, TypeOK
  <2>3. QED
    BY <1>1, <1>2, <2>2, Conclude DEF TypeOK
<1>6. QED
  BY <1>4, <1>5 DEF PaneClosed

\* Processes die and are restarted, the gateway comes and goes: no work moves.
LEMMA OthersKeep ==
  ASSUME IInv, (\E r \in Roles : Die(r) \/ Restart(r)) \/ GatewayFlip \/ UNCHANGED vars
  PROVE  IInv'
<1>1. TypeOK
  BY DEF IInv
<1>2. ASSUME NEW r \in Roles, Die(r) PROVE IInv'
  BY <1>1, <1>2, QuietKeeps DEF Die, TypeOK, PaneState
<1>3. ASSUME NEW r \in Roles, Restart(r) PROVE IInv'
  BY <1>1, <1>3, RespawnTyped, QuietKeeps DEF Restart, TypeOK
<1>4. CASE GatewayFlip
  BY <1>1, <1>4, QuietKeeps DEF GatewayFlip, TypeOK
<1>5. CASE UNCHANGED vars
  BY <1>1, <1>5, QuietKeeps DEF vars, TypeOK
<1>6. QED
  BY <1>2, <1>3, <1>4, <1>5

-----------------------------------------------------------------------------
(* What a step delivers *)

\* The delivery of a further round of o: to its builder, or to the judge, whom
\* work of a checked builder reaches only with the result of its check
RoundRow(n) ==
  LET o == board'[n].loop
  IN /\ o \in DOMAIN board
     /\ \/ board'[n].to = board'[o].to
        \/ board'[o].to \notin Checked
        \/ \E id \in checks \ checks' : board[id].loop = o

\* The first delivery of a task: on the orchestrator's word or the user's
FirstRow(n) ==
  /\ board'[n].loop \in {0, n}
  /\ board'[n].to \in Approve =>
       /\ gates # <<>>
       /\ Head(gates) = [kind |-> "entry", to |-> board'[n].to, id |-> 0]
       /\ gates' = Tail(gates)

\* A step that keeps the ids of the board delivers nothing.
LEMMA NoDelivery ==
  ASSUME DOMAIN board' = DOMAIN board
  PROVE  Delivered = {}
BY DEF Delivered

\* What a handler appends to a board with the same ids is what it delivers.
LEMMA OneDelivery ==
  ASSUME NEW b \in Seq(Row), DOMAIN b = DOMAIN board, NEW row \in Row,
         board' = Append(b, row)
  PROVE  /\ Delivered = {Len(b) + 1}
         /\ board'[Len(b) + 1] = row
         /\ \A n \in DOMAIN board : board'[n] = b[n]
BY AppendRow DEF Delivered

\* A judge's round: to the judge, whatever the builder has a check for
LEMMA DeliverJudgeRoundDelivers ==
  ASSUME NEW b \in Seq(Row), DOMAIN b = DOMAIN board, NEW ls, NEW loop, InHand(loop, b),
         DeliverJudgeRound(loop, b, ls)
  PROVE  \A n \in Delivered : board'[n].loop = loop.orig /\ board'[loop.orig].to = loop.builder
<1> DEFINE judge == Judge[loop.builder]
           row == NewRow(judge, loop.orig)
<1>1. CASE judge # NoRole /\ Up(judge)
  <2>1. judge \in Roles /\ loop.orig \in Nat
    BY <1>1, RolesAssumption DEF InHand, Loop, TaskId
  <2>2. row \in Row /\ row.loop = loop.orig
    BY <2>1, NewRowTyped
  <2>3. board' = Append(b, row)
    BY <1>1 DEF DeliverJudgeRound
  <2> HIDE DEF row
  <2>4. QED
    BY <2>2, <2>3, OneDelivery DEF InHand
<1>2. CASE ~(judge # NoRole /\ Up(judge))
  <2>1. board' = b
    BY <1>2 DEF DeliverJudgeRound, FallbackGate
  <2>2. QED
    BY <2>1, NoDelivery
<1>3. QED
  BY <1>1, <1>2

LEMMA RetryOrGateDelivers ==
  ASSUME NEW b \in Seq(Row), DOMAIN b = DOMAIN board, NEW ls, NEW loop, InHand(loop, b),
         RetryOrGate(loop, b, ls)
  PROVE  \A n \in Delivered : RoundRow(n)
<1> DEFINE row == NewRow(loop.builder, loop.orig)
<1>1. CASE board' = b
  BY <1>1, NoDelivery
<1>2. CASE board' = Append(b, row)
  <2>1. loop.builder \in Roles /\ loop.orig \in Nat
    BY DEF InHand, Loop, TaskId
  <2>2. row \in Row /\ row.loop = loop.orig /\ row.to = loop.builder
    BY <2>1, NewRowTyped
  <2> HIDE DEF row
  <2>3. QED
    BY <1>2, <2>2, OneDelivery DEF InHand, RoundRow
<1>3. QED
  BY <1>1, <1>2 DEF RetryOrGate, DeliverRetryRound, FallbackGate

LEMMA WorkDoneDelivers ==
  ASSUME IInv, NEW id \in DOMAIN board, WorkDone(id)
  PROVE  \A n \in Delivered : RoundRow(n)
<1> DEFINE row == [board[id] EXCEPT !.reports = @ + 1]
           b == [board EXCEPT ![id] = row]
           loop == loops[id]
           done == Resolve(b, id)
           rest == Drop(loops, id)
<1>1. board \in Seq(Row) /\ board[id] \in Row
  BY DEF IInv, TypeOK
<1>2. row \in Row /\ row.to = board[id].to
  BY <1>1, ReportCounted
<1>3. b = [board EXCEPT ![id].reports = @ + 1]
  OBVIOUS
<1>4. /\ b \in Seq(Row) /\ DOMAIN b = DOMAIN board /\ b[id] = row
      /\ \A n \in DOMAIN board \ {id} : b[n] = board[n]
  <2> HIDE DEF row
  <2>1. QED
    BY <1>1, <1>2, UpdateRow
<1> HIDE DEF b, row
<1>5. /\ done \in Seq(Row)
      /\ DOMAIN done = DOMAIN b
      /\ \A n \in DOMAIN b \ {id} : done[n] = b[n]
      /\ done[id] = [b[id] EXCEPT !.done = TRUE, !.snap = FALSE]
  BY <1>4, ResolveRow
<1>6. \A n \in DOMAIN board : done[n].to = board[n].to
  BY <1>2, <1>4, <1>5 DEF Row
<1> HIDE DEF done
<1>7. id \in DOMAIN loops => InHand(loop, done)
  <2>1. SUFFICES ASSUME id \in DOMAIN loops PROVE InHand(loop, done)
    OBVIOUS
  <2>2. OnTask(loop, id, board, checks) /\ loop \in Loop
    BY <2>1, WorkAtHand DEF AllOnTask, WorkTyped
  <2>3. QED
    BY <1>4, <1>5, <1>6, <2>2 DEF OnTask, InHand
<1>8. CASE board' = b \/ board' = done
  BY <1>4, <1>5, <1>8, NoDelivery
<1>9. CASE id \in DOMAIN loops /\ RetryOrGate(loop, done, rest)
  BY <1>4, <1>5, <1>7, <1>9, RetryOrGateDelivers
<1>10. CASE /\ id \in DOMAIN loops
            /\ loop.builder \notin Checked
            /\ DeliverJudgeRound(loop, done, rest)
  <2>1. \A n \in Delivered : board'[n].loop = loop.orig /\ board'[loop.orig].to = loop.builder
    BY <1>4, <1>5, <1>7, <1>10, DeliverJudgeRoundDelivers
  <2>2. loop.orig \in DOMAIN board
    BY <1>4, <1>5, <1>7, <1>10 DEF InHand
  <2>3. QED
    BY <1>10, <2>1, <2>2 DEF RoundRow
<1>11. ASSUME NEW ah, id \in DOMAIN loops, JudgedDone(id, b, ah)
       PROVE  \A n \in Delivered : RoundRow(n)
  <2>1. \/ FallbackGate(loop, done, rest)
        \/ BuildDone(loop, id, done, rest)
        \/ ScoreVerdict(loop, id, done, rest, ah)
    BY <1>11 DEF JudgedDone, done
  <2>2. CASE FallbackGate(loop, done, rest)
    BY <1>8, <2>2 DEF FallbackGate
  <2>3. CASE BuildDone(loop, id, done, rest)
    BY <1>8, <1>10, <1>11, <2>3 DEF BuildDone
  <2>4. CASE ScoreVerdict(loop, id, done, rest, ah)
    BY <1>8, <1>9, <1>11, <2>4 DEF ScoreVerdict, FallbackGate, Pass
  <2>5. QED
    BY <2>1, <2>2, <2>3, <2>4
<1>12. ASSUME NEW ah, PlainDone(id, b, ah)
       PROVE  \A n \in Delivered : RoundRow(n)
  BY <1>8, <1>12 DEF PlainDone, done
<1>13. \/ board' = b
       \/ \E ah : \/ id \in DOMAIN loops /\ JudgedDone(id, b, ah)
                  \/ PlainDone(id, b, ah)
  BY <1>3 DEF WorkDone
<1>14. QED
  BY <1>8, <1>11, <1>12, <1>13

LEMMA FinishCheckDelivers ==
  ASSUME IInv, NEW id \in checks, FinishCheck(id)
  PROVE  \A n \in Delivered : RoundRow(n)
<1> DEFINE loop == loops[id]
           rest == Drop(loops, id)
<1>1. board \in Seq(Row) /\ id \in checks \ checks'
  BY DEF IInv, TypeOK, FinishCheck
<1>2. CASE id \in DOMAIN loops /\ loop.phase = "check"
  <2>1. OnTask(loop, id, board, checks) /\ loop \in Loop
    BY <1>2, WorkAtHand DEF AllOnTask, WorkTyped
  <2>2. InHand(loop, board) /\ board[id].loop = loop.orig
    BY <2>1 DEF OnTask, InHand
  <2>3. CASE board' = board
    BY <2>3, NoDelivery
  <2>4. CASE DeliverJudgeRound(loop, board, rest)
    <3>1. \A n \in Delivered : board'[n].loop = loop.orig
      BY <1>1, <2>2, <2>4, DeliverJudgeRoundDelivers
    <3>2. QED
      BY <1>1, <2>2, <3>1 DEF RoundRow, InHand
  <2>5. CASE RetryOrGate(loop, board, rest)
    BY <1>1, <2>2, <2>5, RetryOrGateDelivers
  <2>6. QED
    BY <1>2, <2>3, <2>4, <2>5 DEF FinishCheck, FallbackGate, Pass
<1>3. CASE ~(id \in DOMAIN loops /\ loop.phase = "check")
  <2>1. board' = board
    BY <1>3 DEF FinishCheck
  <2>2. QED
    BY <2>1, NoDelivery
<1>4. QED
  BY <1>2, <1>3

LEMMA HandOverDelivers ==
  ASSUME IInv, NEW r \in Roles, HandOver(r)
  PROVE  \A n \in Delivered : board'[n].loop \in {0, n} /\ board'[n].to = r
<1> DEFINE id == Len(board) + 1
           row == NewRow(r, IF Judged(r) THEN id ELSE 0)
<1>1. board \in Seq(Row) /\ id \in Nat
  BY DEF IInv, TypeOK
<1>2. row \in Row /\ row.to = r /\ row.loop \in {0, id}
  BY <1>1, NewRowTyped
<1>3. board' = Append(board, row)
  BY DEF HandOver
<1> HIDE DEF row
<1>4. QED
  BY <1>1, <1>2, <1>3, OneDelivery

\* Whatever a step delivers is the first row of a task or a round of a loop.
LEMMA StepDelivers ==
  ASSUME IInv, [Next]_vars
  PROVE  \A n \in Delivered : RoundRow(n) \/ FirstRow(n)
<1>1. ASSUME NEW r \in Targets, Delegate(r) PROVE \A n \in Delivered : FirstRow(n)
  <2>1. r \in Roles
    BY RolesAssumption
  <2>2. CASE r \in Approve
    <3>1. board' = board
      BY <1>1, <2>2 DEF Delegate
    <3>2. QED
      BY <3>1, NoDelivery
  <2>3. CASE r \notin Approve
    <3>1. HandOver(r)
      BY <1>1, <2>3 DEF Delegate
    <3>2. QED
      BY <2>1, <2>3, <3>1, HandOverDelivers DEF FirstRow
  <2>4. QED
    BY <2>2, <2>3
<1>2. ASSUME NEW id \in DOMAIN board, WorkDone(id) PROVE \A n \in Delivered : RoundRow(n)
  BY <1>2, WorkDoneDelivers
<1>3. ASSUME NEW id \in checks, FinishCheck(id) PROVE \A n \in Delivered : RoundRow(n)
  BY <1>3, FinishCheckDelivers
<1>4. ASSUME NEW id \in DOMAIN board, Timeout(id) PROVE Delivered = {}
  <2>1. DOMAIN board' = DOMAIN board
    BY <1>4 DEF Timeout, FallbackGate
  <2>2. QED
    BY <2>1, NoDelivery
<1>5. CASE ApproveGate
  <2> DEFINE g == Head(gates)
  <2>1. CASE g.kind = "entry" /\ HandOver(g.to) /\ gates' = Tail(gates)
    <3>1. g \in Gate /\ gates # <<>>
      BY <1>5, PopGate DEF IInv, ApproveGate
    <3>2. g.to \in Roles /\ g = [kind |-> "entry", to |-> g.to, id |-> 0]
      BY <2>1, <3>1 DEF Gate
    <3>3. QED
      BY <2>1, <3>1, <3>2, HandOverDelivers DEF FirstRow
  <2>2. CASE board' = board
    BY <2>2, NoDelivery
  <2>3. QED
    BY <1>5, <2>1, <2>2 DEF ApproveGate
<1>6. CASE board' = board
  BY <1>6, NoDelivery
<1>7. QED
  BY <1>1, <1>2, <1>3, <1>4, <1>5, <1>6
     DEF Next, Die, PaneClosed, Restart, RejectGate, GatewayFlip, vars

-----------------------------------------------------------------------------
(* Judges that exit *)

\* Every loop in the judge phase has a judge whose pane has not exited.
LiveJudges(ls, p) ==
  \A id \in DOMAIN ls : ls[id].phase = "judge" =>
    LET judge == Judge[ls[id].builder] IN judge \in Roles /\ p[judge] # "exited"

\* No role's exit is taken note of.
NoExit == \A r \in Roles : pane'[r] = "exited" => pane[r] = "exited"

\* A respawn that fails leaves a role exited only if it had exited before: the
\* old process's close message is still to come.
LEMMA InjectNoExit ==
  ASSUME TypeOK, NEW r \in Roles, Inject(r) \/ Respawn(r)
  PROVE  NoExit
BY DEF TypeOK, Inject, Respawn, NoExit

LEMMA LiveJudgesStay ==
  ASSUME NEW ls, LiveJudges(ls, pane), NoExit
  PROVE  LiveJudges(ls, pane')
BY DEF LiveJudges, NoExit

LEMMA LiveJudgesPut ==
  ASSUME NEW ls, ls \in [DOMAIN ls -> Loop], NEW p, LiveJudges(ls, p), NEW k, NEW loop \in Loop,
         loop.phase = "judge" => Judge[loop.builder] \in Roles /\ p[Judge[loop.builder]] # "exited"
  PROVE  LiveJudges(Put(ls, k, loop), p)
<1> DEFINE ms == Put(ls, k, loop)
<1>1. /\ DOMAIN ms = DOMAIN ls \cup {k}
      /\ ms[k] = loop
      /\ \A x \in DOMAIN ls \ {k} : ms[x] = ls[x]
  BY DEF Put
<1> HIDE DEF ms
<1>2. LiveJudges(ms, p)
  BY <1>1 DEF LiveJudges
<1>3. QED
  BY <1>2 DEF ms

LEMMA LiveJudgesDrop ==
  ASSUME NEW ls, ls \in [DOMAIN ls -> Loop], NEW p, LiveJudges(ls, p), NEW k
  PROVE  LiveJudges(Drop(ls, k), p)
<1> DEFINE ms == Drop(ls, k)
<1>1. DOMAIN ms = DOMAIN ls \ {k} /\ \A x \in DOMAIN ms : ms[x] = ls[x]
  BY DEF Drop
<1> HIDE DEF ms
<1>2. LiveJudges(ms, p)
  BY <1>1 DEF LiveJudges
<1>3. QED
  BY <1>2 DEF ms

LEMMA DeliverJudgeRoundLive ==
  ASSUME TypeOK, NEW b, NEW ls, ls \in [DOMAIN ls -> Loop], LiveJudges(ls, pane),
         NEW loop \in Loop, DeliverJudgeRound(loop, b, ls)
  PROVE  LiveJudges(loops', pane')
<1> DEFINE judge == Judge[loop.builder]
           next == [loop EXCEPT !.phase = "judge"]
<1>1. CASE judge # NoRole /\ Up(judge)
  <2>1. judge \in Roles /\ pane[judge] # "exited"
    BY <1>1, RolesAssumption DEF Loop, Up
  <2>2. next \in Loop /\ next.builder = loop.builder
    BY DEF Loop
  <2>3. loops' = Put(ls, Len(b) + 1, next) /\ pane' = pane
    BY <1>1 DEF DeliverJudgeRound
  <2> HIDE DEF next
  <2>4. QED
    BY <2>1, <2>2, <2>3, LiveJudgesPut
<1>2. CASE ~(judge # NoRole /\ Up(judge))
  BY <1>2 DEF DeliverJudgeRound, FallbackGate
<1>3. QED
  BY <1>1, <1>2

LEMMA RetryOrGateLive ==
  ASSUME TypeOK, NEW b, NEW ls, ls \in [DOMAIN ls -> Loop], LiveJudges(ls, pane),
         NEW loop \in Loop, RetryOrGate(loop, b, ls)
  PROVE  LiveJudges(loops', pane')
<1> DEFINE next == [loop EXCEPT !.phase = "build", !.round = @ + 1]
<1>1. CASE loops' = ls /\ pane' = pane
  BY <1>1
<1>2. CASE loops' = Put(ls, Len(b) + 1, next) /\ Inject(loop.builder)
  <2>1. loop.builder \in Roles /\ loop.round + 1 \in TaskId
    BY DEF Loop, TaskId
  <2>2. next \in Loop /\ next.phase = "build"
    BY <2>1 DEF Loop
  <2>3. NoExit
    BY <1>2, <2>1, InjectNoExit
  <2> HIDE DEF next
  <2>4. LiveJudges(loops', pane)
    BY <1>2, <2>2, LiveJudgesPut
  <2>5. QED
    BY <2>3, <2>4, LiveJudgesStay
<1>3. QED
  BY <1>1, <1>2 DEF RetryOrGate, DeliverRetryRound, FallbackGate

LEMMA HandOverLive ==
  ASSUME TypeOK, LiveJudges(loops, pane), NEW r \in Roles, HandOver(r)
  PROVE  LiveJudges(loops', pane')
<1> DEFINE id == Len(board) + 1
           loop == [orig |-> id, builder |-> r, round |-> 1, phase |-> "build"]
<1>1. loop \in Loop /\ loop.phase = "build"
  <2>1. id \in TaskId
    BY DEF TypeOK, TaskId
  <2>2. QED
    BY <2>1 DEF Loop, TaskId
<1>2. loops' = Put(loops, id, loop) \/ loops' = loops
  BY DEF HandOver
<1>3. loops \in [DOMAIN loops -> Loop]
  BY DEF TypeOK
<1> HIDE DEF loop
<1>4. LiveJudges(loops', pane)
  BY <1>1, <1>2, <1>3, LiveJudgesPut
<1>5. NoExit
  BY InjectNoExit DEF HandOver
<1>6. QED
  BY <1>4, <1>5, LiveJudgesStay

LEMMA WorkDoneLive ==
  ASSUME TypeOK, LiveJudges(loops, pane), NEW id \in DOMAIN board, WorkDone(id)
  PROVE  LiveJudges(loops', pane')
<1> DEFINE loop == loops[id]
           rest == Drop(loops, id)
<1>1. loops \in [DOMAIN loops -> Loop]
  BY DEF TypeOK
<1>2. rest \in [DOMAIN rest -> Loop] /\ LiveJudges(rest, pane)
  BY <1>1, DropLoop, LiveJudgesDrop
<1> HIDE DEF rest
<1>3. CASE loops' \in {loops, rest} /\ pane' = pane
  BY <1>2, <1>3
<1>4. ASSUME NEW b, NEW ah, id \in DOMAIN loops, JudgedDone(id, b, ah)
      PROVE  LiveJudges(loops', pane')
  <2> DEFINE done == Resolve(b, id)
  <2>1. loop \in Loop
    BY <1>1, <1>4
  <2>2. CASE FallbackGate(loop, done, rest)
    BY <1>3, <2>2 DEF FallbackGate
  <2>3. CASE BuildDone(loop, id, done, rest)
    <3> DEFINE next == [loop EXCEPT !.phase = "check"]
    <3>1. CASE loops' = Put(rest, id, next) /\ pane' = pane
      <4>1. next \in Loop /\ next.phase = "check"
        BY <2>1 DEF Loop
      <4> HIDE DEF next, loop
      <4>2. QED
        BY <1>2, <3>1, <4>1, LiveJudgesPut
    <3>2. CASE DeliverJudgeRound(loop, done, rest)
      BY <1>2, <2>1, <3>2, DeliverJudgeRoundLive
    <3>3. QED
      BY <2>3, <3>1, <3>2 DEF BuildDone
  <2>4. CASE ScoreVerdict(loop, id, done, rest, ah)
    <3>1. CASE RetryOrGate(loop, done, rest)
      BY <1>2, <2>1, <3>1, RetryOrGateLive
    <3>2. QED
      BY <1>3, <2>4, <3>1 DEF ScoreVerdict, FallbackGate, Pass
  <2>5. QED
    BY <1>4, <2>2, <2>3, <2>4 DEF JudgedDone, rest
<1>5. \/ loops' = loops /\ pane' = pane
      \/ \E b, ah : id \in DOMAIN loops /\ JudgedDone(id, b, ah)
  BY DEF WorkDone, PlainDone
<1>6. QED
  BY <1>3, <1>4, <1>5

LEMMA FinishCheckLive ==
  ASSUME TypeOK, LiveJudges(loops, pane), NEW id \in checks, FinishCheck(id)
  PROVE  LiveJudges(loops', pane')
<1> DEFINE loop == loops[id]
           rest == Drop(loops, id)
<1>1. loops \in [DOMAIN loops -> Loop]
  BY DEF TypeOK
<1>2. rest \in [DOMAIN rest -> Loop] /\ LiveJudges(rest, pane)
  BY <1>1, DropLoop, LiveJudgesDrop
<1> HIDE DEF rest
<1>3. CASE loops' \in {loops, rest} /\ pane' = pane
  BY <1>2, <1>3
<1>4. CASE id \in DOMAIN loops /\ DeliverJudgeRound(loop, board, rest)
  BY <1>1, <1>2, <1>4, DeliverJudgeRoundLive
<1>5. CASE id \in DOMAIN loops /\ RetryOrGate(loop, board, rest)
  BY <1>1, <1>2, <1>5, RetryOrGateLive
<1>6. QED
  BY <1>3, <1>4, <1>5 DEF FinishCheck, FallbackGate, Pass, rest

\* A judge that nobody respawns takes its loops with it.
LEMMA PaneClosedLive ==
  ASSUME \A r \in Roles : Judge[r] # NoRole => Judge[r] \notin Supervised,
         TypeOK, LiveJudges(loops, pane), NEW r \in Roles, PaneClosed(r)
  PROVE  LiveJudges(loops', pane')
<1>1. \A q \in Roles \ {r} : pane'[q] = pane[q]
  BY DEF PaneClosed, TypeOK
<1>2. CASE r \in Supervised /\ loops' = loops
  <2>1. ASSUME NEW id \in DOMAIN loops, loops[id].phase = "judge"
        PROVE  Judge[loops[id].builder] \in Roles \ {r}
    <3>1. loops[id].builder \in Roles
      BY DEF TypeOK, Loop
    <3>2. Judge[loops[id].builder] \in Roles
      BY <2>1 DEF LiveJudges
    <3>3. QED
      BY <1>2, <3>1, <3>2, RolesAssumption
  <2>2. QED
    BY <1>1, <1>2, <2>1 DEF LiveJudges
<1>3. CASE FailLoopsFor(r)
  <2>1. loops' = [id \in DOMAIN loops \ WaitingOn(r) |-> loops[id]]
    BY <1>3 DEF FailLoopsFor
  <2>2. ASSUME NEW id \in DOMAIN loops', loops'[id].phase = "judge"
        PROVE  Judge[loops'[id].builder] \in Roles /\ pane'[Judge[loops'[id].builder]] # "exited"
    <3>1. id \in DOMAIN loops /\ loops'[id] = loops[id] /\ id \notin WaitingOn(r)
      BY <2>1
    <3>2. Judge[loops[id].builder] # r
      BY <2>2, <3>1 DEF WaitingOn
    <3>3. Judge[loops[id].builder] \in Roles /\ pane[Judge[loops[id].builder]] # "exited"
      BY <2>2, <3>1 DEF LiveJudges
    <3>4. QED
      BY <1>1, <3>1, <3>2, <3>3
  <2>3. QED
    BY <2>2 DEF LiveJudges
<1>4. QED
  BY <1>2, <1>3 DEF PaneClosed

LEMMA NextLive ==
  ASSUME \A r \in Roles : Judge[r] # NoRole => Judge[r] \notin Supervised,
         TypeOK, LiveJudges(loops, pane), [Next]_vars
  PROVE  LiveJudges(loops', pane')
<1>1. ASSUME NEW r \in Targets, Delegate(r) PROVE LiveJudges(loops', pane')
  <2>1. r \in Roles
    BY RolesAssumption
  <2>2. QED
    BY <1>1, <2>1, HandOverLive DEF Delegate
<1>2. ASSUME NEW id \in DOMAIN board, WorkDone(id) PROVE LiveJudges(loops', pane')
  BY <1>2, WorkDoneLive
<1>3. ASSUME NEW id \in DOMAIN board, Timeout(id) PROVE LiveJudges(loops', pane')
  <2>1. loops' \in {loops, Drop(loops, id)} /\ pane' = pane
    BY <1>3 DEF Timeout, FallbackGate
  <2>2. loops \in [DOMAIN loops -> Loop]
    BY DEF TypeOK
  <2>3. QED
    BY <2>1, <2>2, LiveJudgesDrop
<1>4. ASSUME NEW id \in checks, FinishCheck(id) PROVE LiveJudges(loops', pane')
  BY <1>4, FinishCheckLive
<1>5. ASSUME NEW r \in Roles, PaneClosed(r) PROVE LiveJudges(loops', pane')
  BY <1>5, PaneClosedLive
<1>6. CASE ApproveGate
  <2>1. Head(gates) \in Gate
    BY <1>6, PopGate DEF ApproveGate
  <2>2. Head(gates).to \in Roles
    BY <2>1 DEF Gate
  <2>3. HandOver(Head(gates).to) \/ UNCHANGED <<loops, pane>>
    BY <1>6 DEF ApproveGate
  <2>4. QED
    BY <2>2, <2>3, HandOverLive
<1>7. ASSUME NEW r \in Roles, Die(r) PROVE LiveJudges(loops', pane')
  <2>1. NoExit /\ loops' = loops
    BY <1>7 DEF Die, TypeOK, NoExit
  <2>2. QED
    BY <2>1, LiveJudgesStay
<1>8. ASSUME NEW r \in Roles, Restart(r) PROVE LiveJudges(loops', pane')
  <2>1. NoExit /\ loops' = loops
    BY <1>8, InjectNoExit DEF Restart
  <2>2. QED
    BY <2>1, LiveJudgesStay
<1>9. CASE RejectGate \/ GatewayFlip \/ UNCHANGED vars
  BY <1>9 DEF RejectGate, GatewayFlip, vars
<1>10. QED
  BY <1>1, <1>2, <1>3, <1>4, <1>5, <1>6, <1>7, <1>8, <1>9 DEF Next

-----------------------------------------------------------------------------
(* Theorems *)

LEMMA InitIInv == Init => IInv
<1> SUFFICES ASSUME Init PROVE IInv
  OBVIOUS
<1>1. board \in Seq(Row) /\ gates \in Seq(Gate) /\ DOMAIN loops = {} /\ DOMAIN board = {}
  BY DEF Init
<1>2. loops \in [DOMAIN loops -> Loop]
  BY DEF Init
<1>3. TypeOK
  <2>1. checks = {} /\ landed = {} /\ unplanned = {} /\ settled = {} /\ blocked = FALSE
    BY DEF Init
  <2>2. pane \in [Roles -> PaneState]
    BY DEF Init, PaneState
  <2>3. ahead \in [Roles -> SUBSET DOMAIN board]
    BY DEF Init
  <2>4. asked \in 0 .. MaxAsked
    BY BoundsAssumption DEF Init
  <2>5. DOMAIN loops \subseteq DOMAIN board
    BY <1>1
  <2>6. QED
    BY <1>1, <1>2, <2>1, <2>2, <2>3, <2>4, <2>5 DEF TypeOK
<1>4. QED
  BY <1>1, <1>3 DEF IInv, LoopOnItsTask

LEMMA NextIInv == IInv /\ [Next]_vars => IInv'
<1> SUFFICES ASSUME IInv, [Next]_vars PROVE IInv'
  OBVIOUS
<1>1. ASSUME NEW r \in Targets, Delegate(r) PROVE IInv'
  BY <1>1, DelegateKeeps
<1>2. ASSUME NEW id \in DOMAIN board, WorkDone(id) PROVE IInv'
  BY <1>2, WorkDoneKeeps
<1>3. ASSUME NEW id \in DOMAIN board, Timeout(id) PROVE IInv'
  BY <1>3, TimeoutKeeps
<1>4. ASSUME NEW id \in checks, FinishCheck(id) PROVE IInv'
  BY <1>4, FinishCheckKeeps
<1>5. ASSUME NEW r \in Roles, PaneClosed(r) PROVE IInv'
  BY <1>5, PaneClosedKeeps
<1>6. CASE ApproveGate
  BY <1>6, ApproveGateKeeps
<1>7. CASE RejectGate
  BY <1>7, RejectGateKeeps
<1>8. CASE (\E r \in Roles : Die(r) \/ Restart(r)) \/ GatewayFlip \/ UNCHANGED vars
  BY <1>8, OthersKeep
<1>9. QED
  BY <1>1, <1>2, <1>3, <1>4, <1>5, <1>6, <1>7, <1>8 DEF Next

\* Every reachable state is well-formed, and every loop in the map waits for the
\* report, result or verdict of a row delivered for it to the role whose turn it
\* is: whatever the team, its gates and the order of messages.
THEOREM Invariance == Spec => []IInv
BY InitIInv, NextIInv, PTL DEF Spec

\* The board, the loop map, the queue and the history are well-formed in every
\* reachable state; every loop and every running check is about a row of the
\* board, and so is every commit on a role's branch.
THEOREM TypeCorrect == Spec => []TypeOK
<1>1. IInv => TypeOK
  BY DEF IInv
<1>2. QED
  BY <1>1, Invariance, PTL

\* The loop map and the board agree (LoopOnItsTask) in every reachable state.
THEOREM LoopsOnTheirTasks == Spec => []LoopOnItsTask
<1>1. IInv => LoopOnItsTask
  BY DEF IInv
<1>2. QED
  BY <1>1, Invariance, PTL

\* A task of the orchestrator's reaches a role with approve = true only with the
\* user's approval of the gate it waits in (deliverDelegate from approveGate).
THEOREM OnlyApprovedEnter == Spec => EntryApproved
<1>1. IInv /\ [Next]_vars =>
        [\A n \in Delivered : board'[n].to \in Approve /\ board'[n].loop \in {0, n} =>
           /\ gates # <<>>
           /\ Head(gates) = [kind |-> "entry", to |-> board'[n].to, id |-> 0]
           /\ gates' = Tail(gates)]_vars
  <2>1. SUFFICES ASSUME IInv, [Next]_vars, NEW n \in Delivered,
                        board'[n].loop \in {0, n}
                 PROVE  FirstRow(n)
    BY DEF FirstRow
  <2>2. DOMAIN board = 1 .. Len(board) /\ n \notin DOMAIN board
    BY DEF IInv, TypeOK, Delivered
  <2>3. ~RoundRow(n)
    BY <2>1, <2>2 DEF RoundRow
  <2>4. QED
    BY <2>1, <2>3, StepDelivers
<1>2. QED
  BY <1>1, Invariance, PTL DEF Spec, EntryApproved

\* The judge of a role with a check gets its task only from a result of that
\* work's check (finishCheck before deliverJudgeRound).
THEOREM JudgedWorkIsChecked == Spec => CheckedFirst
<1>1. IInv /\ [Next]_vars =>
        [\A n \in Delivered :
           LET o == board'[n].loop
           IN o \notin {0, n} /\ board'[o].to \in Checked /\ board'[n].to # board'[o].to =>
                \E id \in checks \ checks' : board[id].loop = o]_vars
  BY StepDelivers DEF RoundRow, FirstRow
<1>2. QED
  BY <1>1, Invariance, PTL DEF Spec, CheckedFirst

\* When no judge is restarted on failure, no loop waits for the verdict of a
\* judge that has exited (failLoopsFor).  A supervised judge whose respawn fails
\* is exited with its loops still waiting: the hypothesis is needed.
THEOREM ExitedJudgesGate ==
  ASSUME \A r \in Roles : Judge[r] # NoRole => Judge[r] \notin Supervised
  PROVE  Spec => []ExitedJudgeGates
<1>1. Init => LiveJudges(loops, pane)
  BY DEF Init, LiveJudges
<1>2. TypeOK /\ LiveJudges(loops, pane) /\ [Next]_vars => LiveJudges(loops, pane)'
  BY NextLive
<1>3. LiveJudges(loops, pane) => ExitedJudgeGates
  BY DEF LiveJudges, ExitedJudgeGates
<1>4. QED
  BY <1>1, <1>2, <1>3, TypeCorrect, PTL DEF Spec

-----------------------------------------------------------------------------
(***************************************************************************)
(* No judged delegation is ever lost or in two places, none takes more     *)
(* rounds than it may, and, for agents that report an id once, plain       *)
(* tasks, verdicts and merges are accounted for too.                       *)
(*                                                                         *)
(* A handler takes a loop out of the map or a gate out of the queue, holds *)
(* it in its hand, and puts it down elsewhere.  So the lemmas come in two  *)
(* kinds: from Accounted to Held (take) and from Held to Accounted (put).  *)
(***************************************************************************)

(* Where a judged delegation o can be: in the map ls, in the queue gs, or  *)
(* among the outcomes in the history st                                    *)

Flying(ls, o) == {id \in DOMAIN ls : ls[id].orig = o}
Waiting(gs, o) == {i \in DOMAIN gs : gs[i].kind = "fallback" /\ gs[i].id = o}
Ruled(st, o) == {e \in st : e.id = o /\ e.how \in {"passed", "accepted", "rejected"}}

One(S) == \E x \in S : S = {x}

Once(ls, gs, st, o) ==
  \/ One(Flying(ls, o)) /\ Waiting(gs, o) = {} /\ Ruled(st, o) = {}
  \/ Flying(ls, o) = {} /\ One(Waiting(gs, o)) /\ Ruled(st, o) = {}
  \/ Flying(ls, o) = {} /\ Waiting(gs, o) = {} /\ One(Ruled(st, o))

Nowhere(ls, gs, st, o) == Flying(ls, o) = {} /\ Waiting(gs, o) = {} /\ Ruled(st, o) = {}

\* Every id names a row.  A row that still holds its ownership snapshot is open,
\* and the first row of a loop holds it only while the loop waits for that row:
\* so no ownership gate, and no ruling on one, is ever about a loop's first row.
LoopsPlaced(b, ls) == \A id \in DOMAIN ls : b[ls[id].orig].loop = ls[id].orig

RowsPlaced(b, ls) ==
  \A n \in DOMAIN b : /\ b[n].done => ~b[n].snap
                      /\ b[n].loop = n /\ b[n].snap => n \in DOMAIN ls

GatePlaced(b, g) ==
  /\ g.kind # "entry" => g.id \in DOMAIN b
  /\ g.kind = "ownership" => b[g.id].loop # g.id

Placed(b, ls, gs, st) ==
  /\ LoopsPlaced(b, ls)
  /\ RowsPlaced(b, ls)
  /\ \A i \in DOMAIN gs : GatePlaced(b, gs[i])
  /\ \A e \in st : e.id \in DOMAIN b

Accounted(b, ls, gs, st) ==
  /\ Placed(b, ls, gs, st)
  /\ \A o \in DOMAIN b : b[o].loop = o => Once(ls, gs, st, o)

\* A handler has o in its hand
Held(b, ls, gs, st, o) ==
  /\ Placed(b, ls, gs, st)
  /\ o \in DOMAIN b
  /\ b[o].loop = o
  /\ Nowhere(ls, gs, st, o)
  /\ \A p \in DOMAIN b \ {o} : b[p].loop = p => Once(ls, gs, st, p)

AInv == Accounted(board, loops, gates, settled)

-----------------------------------------------------------------------------
(* The queue as a set of places *)

\* Appending a gate adds its place to those of its own loop and to no other's.
LEMMA WaitingAppend ==
  ASSUME NEW gs \in Seq(Gate), NEW g \in Gate, NEW o
  PROVE  /\ Waiting(Append(gs, g), o) =
              IF g.kind = "fallback" /\ g.id = o THEN Waiting(gs, o) \cup {Len(gs) + 1}
                                                 ELSE Waiting(gs, o)
<1> DEFINE hs == Append(gs, g)
           n == Len(gs) + 1
<1>1. /\ DOMAIN gs = 1 .. Len(gs) /\ DOMAIN hs = DOMAIN gs \cup {n} /\ n \notin DOMAIN gs
      /\ hs[n] = g /\ \A i \in DOMAIN gs : hs[i] = gs[i]
  OBVIOUS
<1> HIDE DEF hs, n
<1>2. QED
  BY <1>1 DEF Waiting, hs, n

\* Removing the oldest gate shifts the other places down by one.
LEMMA WaitingTail ==
  ASSUME NEW gs \in Seq(Gate), gs # <<>>, NEW o
  PROVE  /\ Tail(gs) \in Seq(Gate)
         /\ Head(gs) = gs[1] /\ 1 \in DOMAIN gs
         /\ \A i \in DOMAIN Tail(gs) : i + 1 \in DOMAIN gs /\ Tail(gs)[i] = gs[i + 1]
         /\ Waiting(Tail(gs), o) = {i \in Nat \ {0} : i + 1 \in Waiting(gs, o)}
<1>1. /\ Tail(gs) \in Seq(Gate) /\ Len(gs) \in Nat \ {0} /\ Head(gs) = gs[1]
      /\ DOMAIN gs = 1 .. Len(gs) /\ DOMAIN Tail(gs) = 1 .. Len(gs) - 1
      /\ \A i \in 1 .. Len(gs) - 1 : Tail(gs)[i] = gs[i + 1]
  OBVIOUS
<1>2. \A i \in DOMAIN Tail(gs) : i + 1 \in DOMAIN gs /\ Tail(gs)[i] = gs[i + 1]
  BY <1>1
<1>3. \A i \in Nat \ {0} : i + 1 \in DOMAIN gs <=> i \in DOMAIN Tail(gs)
  BY <1>1
<1>4. DOMAIN Tail(gs) \subseteq Nat \ {0}
  BY <1>1
<1>5. Waiting(Tail(gs), o) = {i \in Nat \ {0} : i + 1 \in Waiting(gs, o)}
  BY <1>2, <1>3, <1>4 DEF Waiting
<1>6. QED
  BY <1>1, <1>2, <1>5

\* A set of places stays empty or a singleton when it is shifted, unless the
\* place that goes is the one in it.
LEMMA Shift ==
  ASSUME NEW S, S \subseteq Nat \ {0}
  PROVE  LET T == {i \in Nat \ {0} : i + 1 \in S}
         IN /\ S = {} => T = {}
            /\ 1 \notin S /\ One(S) => One(T)
            /\ 1 \in S /\ One(S) => T = {}
<1> DEFINE T == {i \in Nat \ {0} : i + 1 \in S}
<1>1. S = {} => T = {}
  OBVIOUS
<1>2. ASSUME 1 \notin S, One(S) PROVE One(T)
  <2>1. PICK x \in S : S = {x}
    BY <1>2 DEF One
  <2>2. x \in Nat \ {0, 1}
    BY <1>2
  <2>3. x - 1 \in Nat \ {0} /\ (x - 1) + 1 = x
    BY <2>2
  <2>4. T = {x - 1}
    <3>1. ASSUME NEW i \in T PROVE i = x - 1
      <4>1. i + 1 = x /\ i \in Nat
        BY <2>1
      <4>2. QED
        BY <2>2, <4>1
    <3>2. x - 1 \in T
      BY <2>3
    <3>3. QED
      BY <3>1, <3>2
  <2>5. QED
    BY <2>4 DEF One
<1>3. ASSUME 1 \in S, One(S) PROVE T = {}
  <2>1. S = {1}
    BY <1>3 DEF One
  <2>2. ASSUME NEW i \in T PROVE FALSE
    <3>1. i + 1 = 1 /\ i \in Nat \ {0}
      BY <2>1
    <3>2. QED
      BY <3>1
  <2>3. QED
    BY <2>2
<1>4. QED
  BY <1>1, <1>2, <1>3

-----------------------------------------------------------------------------
(* Putting a delegation down *)

\* A held delegation is accounted for once it waits in a fallback gate.
LEMMA PutGate ==
  ASSUME NEW b, NEW ls, NEW gs \in Seq(Gate), NEW st, NEW o, Held(b, ls, gs, st, o),
         NEW g \in Gate, g.kind = "fallback", g.id = o
  PROVE  Accounted(b, ls, Append(gs, g), st)
<1> DEFINE hs == Append(gs, g)
<1>1. \A i \in DOMAIN hs : hs[i] = g \/ (i \in DOMAIN gs /\ hs[i] = gs[i])
  OBVIOUS
<1>2. \A p : Waiting(hs, p) = IF p = o THEN Waiting(gs, p) \cup {Len(gs) + 1} ELSE Waiting(gs, p)
  BY WaitingAppend
<1> HIDE DEF hs
<1>3. Placed(b, ls, hs, st)
  BY <1>1 DEF Held, Placed, GatePlaced
<1>4. Once(ls, hs, st, o)
  BY <1>2 DEF Held, Nowhere, Once, One
<1>5. ASSUME NEW p \in DOMAIN b \ {o}, b[p].loop = p PROVE Once(ls, hs, st, p)
  BY <1>2, <1>5 DEF Held, Once
<1>6. Accounted(b, ls, hs, st)
  BY <1>3, <1>4, <1>5 DEF Accounted
<1>7. QED
  BY <1>6 DEF hs

\* A held delegation is accounted for once it has an outcome.
LEMMA PutOutcome ==
  ASSUME NEW b, NEW ls, NEW gs, NEW st, NEW o, Held(b, ls, gs, st, o),
         NEW e, e.id = o, e.how \in {"passed", "accepted", "rejected"}
  PROVE  Accounted(b, ls, gs, st \cup {e})
<1>1. \A p : Ruled(st \cup {e}, p) = IF p = o THEN Ruled(st, p) \cup {e} ELSE Ruled(st, p)
  BY DEF Ruled
<1>2. Placed(b, ls, gs, st \cup {e})
  BY DEF Held, Placed
<1>3. Once(ls, gs, st \cup {e}, o)
  BY <1>1 DEF Held, Nowhere, Once, One
<1>4. ASSUME NEW p \in DOMAIN b \ {o}, b[p].loop = p PROVE Once(ls, gs, st \cup {e}, p)
  BY <1>1, <1>4 DEF Held, Once
<1>5. QED
  BY <1>2, <1>3, <1>4 DEF Accounted

\* A loop that enters the map under a new id flies there, and the others stay.
LEMMA FlyingPut ==
  ASSUME NEW ls, NEW k, k \notin DOMAIN ls, NEW loop
  PROVE  \A p : Flying(Put(ls, k, loop), p) =
                  IF p = loop.orig THEN Flying(ls, p) \cup {k} ELSE Flying(ls, p)
<1> DEFINE ms == Put(ls, k, loop)
<1>1. DOMAIN ms = DOMAIN ls \cup {k} /\ ms[k] = loop /\ \A x \in DOMAIN ls : ms[x] = ls[x]
  BY DEF Put
<1> HIDE DEF ms
<1>2. QED
  BY <1>1 DEF Flying, ms

\* What is placed stays so when the board grows by a row: of a loop that is put
\* into the map with it, or of none.
LEMMA PlacedGrows ==
  ASSUME NEW b \in Seq(Row), NEW ls, DOMAIN ls \subseteq DOMAIN b, NEW gs, NEW st,
         \A id \in DOMAIN ls : ls[id].orig \in DOMAIN b,
         Placed(b, ls, gs, st), NEW row \in Row, ~row.done, NEW loop,
         row.loop # 0 => row.loop = loop.orig /\ loop.orig \in DOMAIN Append(b, row)
                         /\ Append(b, row)[loop.orig].loop = loop.orig,
         NEW ms, ms = IF row.loop = 0 THEN ls ELSE Put(ls, Len(b) + 1, loop)
  PROVE  Placed(Append(b, row), ms, gs, st)
<1> DEFINE c == Append(b, row)
           k == Len(b) + 1
<1>1. /\ DOMAIN c = DOMAIN b \cup {k} /\ k \notin DOMAIN b /\ k # 0
      /\ \A n \in DOMAIN b : c[n] = b[n]
      /\ c[k] = row
  BY AppendRow DEF TaskId
<1>2. /\ DOMAIN ls \subseteq DOMAIN ms /\ DOMAIN ms \subseteq DOMAIN ls \cup {k}
      /\ \A x \in DOMAIN ls : ms[x] = ls[x]
      /\ row.loop # 0 => k \in DOMAIN ms
      /\ k \in DOMAIN ms => row.loop # 0 /\ ms[k] = loop
  BY <1>1 DEF Put
<1> HIDE DEF c, k
<1>3. LoopsPlaced(c, ms)
  <2>1. ASSUME NEW id \in DOMAIN ms PROVE c[ms[id].orig].loop = ms[id].orig
    <3>1. CASE id \in DOMAIN ls
      BY <1>1, <1>2, <3>1 DEF Placed, LoopsPlaced
    <3>2. CASE id = k
      <4>1. row.loop # 0 /\ ms[k] = loop
        BY <1>2, <3>2
      <4>2. QED
        BY <3>2, <4>1 DEF c
    <3>3. QED
      BY <1>2, <3>1, <3>2
  <2>2. QED
    BY <2>1 DEF LoopsPlaced
<1>4. RowsPlaced(c, ms)
  BY <1>1, <1>2 DEF Placed, RowsPlaced
<1>5. \A i \in DOMAIN gs : GatePlaced(c, gs[i])
  BY <1>1 DEF Placed, GatePlaced
<1>6. \A e \in st : e.id \in DOMAIN c
  BY <1>1 DEF Placed
<1>7. QED
  BY <1>3, <1>4, <1>5, <1>6 DEF Placed, c

\* What the lemmas below ask of the board and the map; IInv has it.
Sound(b, ls) ==
  /\ b \in Seq(Row)
  /\ DOMAIN ls \subseteq DOMAIN b
  /\ \A id \in DOMAIN ls : ls[id].orig \in DOMAIN b /\ b[id].loop = ls[id].orig

\* A held delegation is accounted for once its loop waits for a new row of its own.
LEMMA PutRound ==
  ASSUME NEW b, NEW ls, Sound(b, ls), NEW gs, NEW st, NEW o, Held(b, ls, gs, st, o),
         NEW row \in Row, ~row.done, row.loop = o, o # 0,
         NEW loop, loop.orig = o
  PROVE  Accounted(Append(b, row), Put(ls, Len(b) + 1, loop), gs, st)
<1> DEFINE c == Append(b, row)
           k == Len(b) + 1
           ms == Put(ls, k, loop)
<1>1. /\ DOMAIN c = DOMAIN b \cup {k} /\ k \notin DOMAIN b
      /\ \A n \in DOMAIN b : c[n] = b[n]
      /\ c[k] = row
  BY AppendRow DEF Sound
<1>2. \A p : Flying(ms, p) = IF p = o THEN Flying(ls, p) \cup {k} ELSE Flying(ls, p)
  <2>1. k \notin DOMAIN ls
    BY <1>1 DEF Sound
  <2> HIDE DEF k
  <2>2. QED
    BY <2>1, FlyingPut
<1>3. o \in DOMAIN b /\ b[o].loop = o /\ o # k
  BY <1>1 DEF Held
<1>4. Placed(c, ms, gs, st)
  BY <1>1, <1>3, PlacedGrows DEF Sound, Held
<1> HIDE DEF c, k, ms
<1>5. Once(ms, gs, st, o)
  BY <1>2 DEF Held, Nowhere, Once, One
<1>6. ASSUME NEW p \in DOMAIN c, c[p].loop = p, p # o PROVE Once(ms, gs, st, p)
  <2>1. p \in DOMAIN b /\ b[p].loop = p
    BY <1>1, <1>3, <1>6
  <2>2. QED
    BY <1>2, <1>6, <2>1 DEF Held, Once
<1>7. Accounted(c, ms, gs, st)
  BY <1>4, <1>5, <1>6 DEF Accounted
<1>8. QED
  BY <1>7 DEF c, k, ms

\* A first delivery: with a judge or a check its loop starts, and nothing else is
\* known of the new id; without, there is no loop to account for.
LEMMA PutFirst ==
  ASSUME NEW b, NEW ls, Sound(b, ls), NEW gs, NEW st, Accounted(b, ls, gs, st),
         NEW row \in Row, ~row.done, row.loop \in {0, Len(b) + 1},
         NEW loop, loop.orig = Len(b) + 1,
         NEW ms, ms = IF row.loop = 0 THEN ls ELSE Put(ls, Len(b) + 1, loop)
  PROVE  Accounted(Append(b, row), ms, gs, st)
<1> DEFINE c == Append(b, row)
           k == Len(b) + 1
<1>1. /\ DOMAIN c = DOMAIN b \cup {k} /\ k \notin DOMAIN b /\ k # 0
      /\ \A n \in DOMAIN b : c[n] = b[n]
      /\ c[k] = row
  BY AppendRow DEF Sound, TaskId
<1>2. Placed(c, ms, gs, st)
  BY <1>1, PlacedGrows DEF Sound, Accounted
<1>3. \A p : Flying(ms, p) = IF p = k /\ row.loop # 0 THEN Flying(ls, p) \cup {k} ELSE Flying(ls, p)
  <2>1. k \notin DOMAIN ls /\ loop.orig = k /\ (ms = IF row.loop = 0 THEN ls ELSE Put(ls, k, loop))
    BY <1>1 DEF Sound
  <2> HIDE DEF k
  <2>2. CASE row.loop = 0
    BY <2>1, <2>2
  <2>3. CASE row.loop # 0
    <3>1. \A p : Flying(Put(ls, k, loop), p) = IF p = loop.orig THEN Flying(ls, p) \cup {k}
                                                             ELSE Flying(ls, p)
      BY <2>1, FlyingPut
    <3>2. ms = Put(ls, k, loop)
      BY <2>1, <2>3
    <3>3. QED
      BY <2>1, <2>3, <3>1, <3>2
  <2>4. QED
    BY <2>2, <2>3
<1> HIDE DEF c, k
<1>4. Nowhere(ls, gs, st, k)
  <2>1. Flying(ls, k) = {}
    BY <1>1 DEF Sound, Flying
  <2>2. Waiting(gs, k) = {}
    BY <1>1 DEF Accounted, Placed, GatePlaced, Waiting
  <2>3. Ruled(st, k) = {}
    BY <1>1 DEF Accounted, Placed, Ruled
  <2>4. QED
    BY <2>1, <2>2, <2>3 DEF Nowhere
<1>5. c[k].loop = k => Once(ms, gs, st, k)
  BY <1>1, <1>3, <1>4 DEF Nowhere, Once, One
<1>6. ASSUME NEW p \in DOMAIN b, c[p].loop = p PROVE Once(ms, gs, st, p)
  BY <1>1, <1>3, <1>6 DEF Accounted, Once
<1>7. Accounted(c, ms, gs, st)
  BY <1>1, <1>2, <1>5, <1>6 DEF Accounted
<1>8. QED
  BY <1>7 DEF c

\* A gate of another kind moves no loop.
LEMMA PutOtherGate ==
  ASSUME NEW b, NEW ls, NEW gs \in Seq(Gate), NEW st, Accounted(b, ls, gs, st),
         NEW g \in Gate, g.kind # "fallback", GatePlaced(b, g)
  PROVE  Accounted(b, ls, Append(gs, g), st)
<1> DEFINE hs == Append(gs, g)
<1>1. \A i \in DOMAIN hs : hs[i] = g \/ (i \in DOMAIN gs /\ hs[i] = gs[i])
  OBVIOUS
<1>2. \A p : Waiting(hs, p) = Waiting(gs, p)
  BY WaitingAppend
<1> HIDE DEF hs
<1>3. Accounted(b, ls, hs, st)
  BY <1>1, <1>2 DEF Accounted, Placed, Once
<1>4. QED
  BY <1>3 DEF hs

\* A fact about a task that is no loop's first row, or of another kind, moves no
\* loop.
LEMMA PutOtherFact ==
  ASSUME NEW b, NEW ls, NEW gs, NEW st, Accounted(b, ls, gs, st),
         NEW e, e.id \in DOMAIN b,
         e.how \in {"passed", "accepted", "rejected"} => b[e.id].loop # e.id
  PROVE  Accounted(b, ls, gs, st \cup {e})
<1>1. \A p \in DOMAIN b : b[p].loop = p => Ruled(st \cup {e}, p) = Ruled(st, p)
  BY DEF Ruled
<1>2. Placed(b, ls, gs, st \cup {e})
  BY DEF Accounted, Placed
<1>3. QED
  BY <1>1, <1>2 DEF Accounted, Once

-----------------------------------------------------------------------------
(* Taking a delegation up *)

\* A row that is closed, timed out or reported on again stays where it is: what
\* it was delivered for does not change, and its snapshot only goes.
LEMMA TouchPlaced ==
  ASSUME NEW b, NEW c, DOMAIN c = DOMAIN b,
         \A n \in DOMAIN b : /\ c[n].loop = b[n].loop
                             /\ c[n].snap => b[n].snap
                             /\ c[n].done => ~c[n].snap,
         NEW ls, NEW gs, NEW st, Accounted(b, ls, gs, st), Sound(b, ls)
  PROVE  Accounted(c, ls, gs, st)
<1>1. LoopsPlaced(c, ls)
  BY DEF Accounted, Placed, LoopsPlaced, Sound
<1>2. RowsPlaced(c, ls)
  BY DEF Accounted, Placed, RowsPlaced
<1>3. \A i \in DOMAIN gs : GatePlaced(c, gs[i])
  BY DEF Accounted, Placed, GatePlaced
<1>4. QED
  BY <1>1, <1>2, <1>3 DEF Accounted, Placed

\* A handler that removes the loop it serves from the map has its delegation in
\* hand, provided the row it waited for does not hold its snapshot any more or is
\* not the loop's first.
LEMMA TakeFlight ==
  ASSUME NEW b, NEW ls, Sound(b, ls), NEW gs, NEW st, Accounted(b, ls, gs, st),
         NEW id \in DOMAIN ls, b[id].snap => b[id].loop # id
  PROVE  Held(b, Drop(ls, id), gs, st, ls[id].orig)
<1> DEFINE ms == Drop(ls, id)
           o == ls[id].orig
<1>1. DOMAIN ms = DOMAIN ls \ {id} /\ \A x \in DOMAIN ms : ms[x] = ls[x]
  BY DEF Drop
<1>2. o \in DOMAIN b /\ b[o].loop = o
  BY DEF Sound, Accounted, Placed, LoopsPlaced
<1> HIDE DEF ms
<1>3. \A p : Flying(ms, p) = Flying(ls, p) \ {id}
  BY <1>1 DEF Flying
<1>4. id \in Flying(ls, o) /\ \A p : p # o => id \notin Flying(ls, p)
  BY DEF Flying
<1>5. Nowhere(ms, gs, st, o)
  <2>1. Once(ls, gs, st, o)
    BY <1>2 DEF Accounted
  <2>2. QED
    BY <1>3, <1>4, <2>1 DEF Once, One, Nowhere
<1>6. ASSUME NEW p \in DOMAIN b \ {o}, b[p].loop = p PROVE Once(ms, gs, st, p)
  <2>1. Flying(ms, p) = Flying(ls, p)
    BY <1>3, <1>4
  <2>2. QED
    BY <1>6, <2>1 DEF Accounted, Once
<1>7. Placed(b, ms, gs, st)
  <2>1. LoopsPlaced(b, ms)
    BY <1>1 DEF Accounted, Placed, LoopsPlaced
  <2>2. RowsPlaced(b, ms)
    BY <1>1 DEF Accounted, Placed, RowsPlaced
  <2>3. QED
    BY <2>1, <2>2 DEF Accounted, Placed
<1>8. QED
  BY <1>2, <1>5, <1>6, <1>7 DEF Held, ms

\* The user's answer to the oldest gate puts its delegation down again at once:
\* the gate is gone, the outcome is there.
LEMMA RuleFallback ==
  ASSUME NEW b, NEW ls, NEW gs \in Seq(Gate), gs # <<>>, NEW st, Accounted(b, ls, gs, st),
         Head(gs).kind = "fallback",
         NEW e, e.id = Head(gs).id, e.how \in {"accepted", "rejected"}
  PROVE  Accounted(b, ls, Tail(gs), st \cup {e})
<1> DEFINE hs == Tail(gs)
           o == Head(gs).id
<1>1. /\ Head(gs) = gs[1] /\ 1 \in DOMAIN gs
      /\ \A i \in DOMAIN hs : i + 1 \in DOMAIN gs /\ hs[i] = gs[i + 1]
  BY WaitingTail
<1>2. \A p : Waiting(hs, p) = {i \in Nat \ {0} : i + 1 \in Waiting(gs, p)}
  BY WaitingTail
<1>3. \A p : Waiting(gs, p) \subseteq Nat \ {0}
  BY DEF Waiting
<1>4. \A p : 1 \in Waiting(gs, p) <=> p = o
  BY <1>1 DEF Waiting
<1> HIDE DEF hs, o
<1>5. Placed(b, ls, hs, st)
  BY <1>1 DEF Accounted, Placed
<1>6. ASSUME NEW p \in DOMAIN b, b[p].loop = p, p # o PROVE Once(ls, hs, st, p)
  <2>1. /\ Waiting(gs, p) = {} => Waiting(hs, p) = {}
        /\ One(Waiting(gs, p)) => One(Waiting(hs, p))
    BY <1>2, <1>3, <1>4, <1>6, Shift
  <2>2. QED
    BY <1>6, <2>1 DEF Accounted, Once
<1>7. CASE b[o].loop = o
  <2>1. o \in DOMAIN b
    BY <1>1 DEF Accounted, Placed, GatePlaced, o
  <2>2. Nowhere(ls, hs, st, o)
    <3>1. Once(ls, gs, st, o) /\ Waiting(gs, o) # {}
      BY <1>4, <1>7, <2>1 DEF Accounted
    <3>2. One(Waiting(gs, o)) /\ Flying(ls, o) = {} /\ Ruled(st, o) = {}
      BY <3>1 DEF Once
    <3>3. Waiting(hs, o) = {}
      BY <1>2, <1>3, <1>4, <3>2, Shift
    <3>4. QED
      BY <3>2, <3>3 DEF Nowhere
  <2>3. Held(b, ls, hs, st, o)
    BY <1>5, <1>6, <1>7, <2>1, <2>2 DEF Held
  <2>4. QED
    BY <2>3, PutOutcome DEF hs, o
<1>8. CASE b[o].loop # o
  <2>1. Accounted(b, ls, hs, st)
    BY <1>5, <1>6, <1>8 DEF Accounted
  <2>2. o \in DOMAIN b
    BY <1>1 DEF Accounted, Placed, GatePlaced, o
  <2>3. QED
    BY <1>8, <2>1, <2>2, PutOtherFact DEF hs, o
<1>9. QED
  BY <1>7, <1>8

\* Removing any other gate moves no loop.
LEMMA RuleOther ==
  ASSUME NEW b, NEW ls, NEW gs \in Seq(Gate), gs # <<>>, NEW st, Accounted(b, ls, gs, st),
         Head(gs).kind # "fallback"
  PROVE  Accounted(b, ls, Tail(gs), st)
<1> DEFINE hs == Tail(gs)
<1>1. /\ Head(gs) = gs[1] /\ 1 \in DOMAIN gs
      /\ \A i \in DOMAIN hs : i + 1 \in DOMAIN gs /\ hs[i] = gs[i + 1]
  BY WaitingTail
<1>2. \A p : Waiting(hs, p) = {i \in Nat \ {0} : i + 1 \in Waiting(gs, p)}
  BY WaitingTail
<1>3. \A p : Waiting(gs, p) \subseteq Nat \ {0} /\ 1 \notin Waiting(gs, p)
  BY <1>1 DEF Waiting
<1> HIDE DEF hs
<1>4. Placed(b, ls, hs, st)
  BY <1>1 DEF Accounted, Placed
<1>5. ASSUME NEW p \in DOMAIN b, b[p].loop = p PROVE Once(ls, hs, st, p)
  <2>1. /\ Waiting(gs, p) = {} => Waiting(hs, p) = {}
        /\ One(Waiting(gs, p)) => One(Waiting(hs, p))
    BY <1>2, <1>3, Shift
  <2>2. QED
    BY <1>5, <2>1 DEF Accounted, Once
<1>6. QED
  BY <1>4, <1>5 DEF Accounted, hs

-----------------------------------------------------------------------------
(* The exit of a judge *)

\* An order of S lists each of its elements once.
LEMMA OrderOnce ==
  ASSUME NEW S, IsFiniteSet(S), NEW order \in Orders(S)
  PROVE  /\ DOMAIN order = 1 .. Cardinality(S) /\ Cardinality(S) \in Nat
         /\ \A i \in DOMAIN order : order[i] \in S
         /\ \A x \in S : \E i \in DOMAIN order : order[i] = x
         /\ \A i, j \in DOMAIN order : order[i] = order[j] => i = j
<1> DEFINE n == Cardinality(S)
<1>1. n \in Nat
  BY FS_CardinalityType
<1>2. order \in [1 .. n -> S] /\ \A x \in S : \E i \in DOMAIN order : order[i] = x
  BY DEF Orders
<1>3. IsFiniteSet(1 .. n) /\ Cardinality(1 .. n) = n
  BY <1>1, FS_Interval
<1> HIDE DEF n
<1>4. order \in Surjection(1 .. n, S)
  BY <1>2 DEF Surjection
<1>5. order \in Injection(1 .. n, S)
  BY <1>3, <1>4, FS_SurjSameCardinalityImpliesInj DEF n
<1>6. \A i, j \in 1 .. n : order[i] = order[j] => i = j
  BY <1>5 DEF Injection, IsInjective
<1>7. QED
  BY <1>1, <1>2, <1>6 DEF n

LEMMA GateSeq ==
  ASSUME NEW n \in Nat, NEW f \in [1 .. n -> Gate]
  PROVE  f \in Seq(Gate)
OBVIOUS

\* Gates appended together come behind the ones there are, in their order.
LEMMA Concatenation ==
  ASSUME NEW gs \in Seq(Gate), NEW more \in Seq(Gate)
  PROVE  /\ DOMAIN (gs \o more) = DOMAIN gs \cup {Len(gs) + i : i \in DOMAIN more}
         /\ \A i \in DOMAIN gs : (gs \o more)[i] = gs[i]
         /\ \A i \in DOMAIN more : (gs \o more)[Len(gs) + i] = more[i]
<1> DEFINE hs == gs \o more
           n == Len(gs)
           m == Len(more)
<1>1. /\ n \in Nat /\ m \in Nat
      /\ DOMAIN gs = 1 .. n /\ DOMAIN more = 1 .. m /\ DOMAIN hs = 1 .. n + m
      /\ \A k \in 1 .. n + m : hs[k] = IF k <= n THEN gs[k] ELSE more[k - n]
  OBVIOUS
<1> HIDE DEF hs, n, m
<1>2. ASSUME NEW k \in 1 .. n + m, k \notin 1 .. n PROVE \E i \in 1 .. m : k = n + i
  <2>1. k - n \in 1 .. m /\ k = n + (k - n)
    BY <1>1, <1>2
  <2>2. QED
    BY <2>1
<1>3. \A i \in 1 .. m : n + i \in 1 .. n + m /\ hs[n + i] = more[i]
  <2>1. ASSUME NEW i \in 1 .. m
        PROVE  n + i \in 1 .. n + m /\ ~(n + i <= n) /\ (n + i) - n = i
    BY <1>1
  <2>2. QED
    BY <1>1, <2>1
<1>4. \A i \in 1 .. n : i \in 1 .. n + m /\ hs[i] = gs[i]
  BY <1>1
<1>5. 1 .. n + m = (1 .. n) \cup {n + i : i \in 1 .. m}
  BY <1>2, <1>3, <1>4
<1>6. QED
  BY <1>1, <1>3, <1>4, <1>5 DEF hs, n, m

\* The loops that waited for the judge leave the map, and each has its gate.
LEMMA FailFlights ==
  ASSUME NEW b, NEW ls, Sound(b, ls), NEW gs \in Seq(Gate), NEW st, Accounted(b, ls, gs, st),
         NEW S, S \subseteq DOMAIN ls, IsFiniteSet(S), \A id \in S : b[id].loop # id,
         NEW order \in Orders(S),
         NEW more, more \in Seq(Gate), DOMAIN more = DOMAIN order,
         \A i \in DOMAIN order : more[i].kind = "fallback" /\ more[i].id = ls[order[i]].orig,
         NEW ms, DOMAIN ms = DOMAIN ls \ S, \A id \in DOMAIN ms : ms[id] = ls[id]
  PROVE  Accounted(b, ms, gs \o more, st)
<1> DEFINE hs == gs \o more
           Old(p) == Waiting(gs, p)
           New(p) == {Len(gs) + i : i \in {j \in DOMAIN order : ls[order[j]].orig = p}}
<1>1. /\ \A i \in DOMAIN order : order[i] \in S
      /\ \A x \in S : \E i \in DOMAIN order : order[i] = x
      /\ \A i, j \in DOMAIN order : order[i] = order[j] => i = j
      /\ \A i \in DOMAIN order : i \in Nat \ {0}
  BY OrderOnce
<1>2. /\ DOMAIN hs = DOMAIN gs \cup {Len(gs) + i : i \in DOMAIN more}
      /\ \A i \in DOMAIN gs : hs[i] = gs[i]
      /\ \A i \in DOMAIN more : hs[Len(gs) + i] = more[i]
  BY Concatenation
<1> HIDE DEF hs
<1>3. \A p : Waiting(hs, p) = Old(p) \cup New(p)
  BY <1>2 DEF Waiting
<1>4. \A p : Flying(ms, p) = Flying(ls, p) \ S
  BY DEF Flying
<1>5. \A i \in DOMAIN order : \A p : ls[order[i]].orig = p => order[i] \in Flying(ls, p) \cap S
  BY <1>1 DEF Flying
<1>6. ASSUME NEW p \in DOMAIN b, b[p].loop = p PROVE Once(ms, hs, st, p)
  <2>1. Once(ls, gs, st, p)
    BY <1>6 DEF Accounted
  <2>2. CASE Flying(ls, p) \cap S = {}
    <3>1. New(p) = {}
      BY <1>5, <2>2
    <3>2. Flying(ms, p) = Flying(ls, p)
      BY <1>4, <2>2
    <3>3. Waiting(hs, p) = Waiting(gs, p)
      BY <1>3, <3>1
    <3>4. QED
      BY <2>1, <3>2, <3>3 DEF Once
  <2>3. CASE Flying(ls, p) \cap S # {}
    <3>1. /\ One(Flying(ls, p)) /\ Old(p) = {} /\ Ruled(st, p) = {}
      BY <2>1, <2>3 DEF Once
    <3>2. PICK x : Flying(ls, p) = {x} /\ x \in S
      BY <2>3, <3>1 DEF One
    <3>3. PICK i \in DOMAIN order : order[i] = x
      BY <1>1, <3>2
    <3>4. ls[x].orig = p
      BY <3>2 DEF Flying
    <3>5. \A j \in DOMAIN order : ls[order[j]].orig = p <=> j = i
      BY <1>1, <1>5, <3>2, <3>3, <3>4
    <3>6. New(p) = {Len(gs) + i}
      BY <3>5
    <3>7. Flying(ms, p) = {}
      BY <1>4, <3>2
    <3>8. QED
      BY <1>3, <3>1, <3>6, <3>7 DEF Once, One
  <2>4. QED
    BY <2>2, <2>3
<1>7. Placed(b, ms, hs, st)
  <2>1. LoopsPlaced(b, ms)
    BY DEF Accounted, Placed, LoopsPlaced
  <2>2. RowsPlaced(b, ms)
    BY DEF Accounted, Placed, RowsPlaced
  <2>3. \A i \in DOMAIN hs : GatePlaced(b, hs[i])
    <3>1. ASSUME NEW i \in DOMAIN more PROVE GatePlaced(b, more[i])
      BY <1>1 DEF GatePlaced, Sound
    <3>2. QED
      BY <1>2, <3>1 DEF Accounted, Placed
  <2>4. QED
    BY <2>1, <2>2, <2>3 DEF Accounted, Placed
<1>8. QED
  BY <1>6, <1>7 DEF Accounted, hs

-----------------------------------------------------------------------------
(* The handlers' shared parts *)

\* A handler with the loop in its hand and board b and map ls as it has them
Holding(loop, b, ls) ==
  /\ loop \in Loop
  /\ Sound(b, ls)
  /\ gates \in Seq(Gate)
  /\ Held(b, ls, gates, settled, loop.orig)

LEMMA SoundAtHand ==
  ASSUME IInv
  PROVE  Sound(board, loops) /\ gates \in Seq(Gate) /\ TypeOK
BY DEF IInv, TypeOK, LoopOnItsTask, OnTask, Sound

LEMMA SoundDrop ==
  ASSUME NEW b, NEW ls, Sound(b, ls), NEW id
  PROVE  Sound(b, Drop(ls, id))
<1>1. DOMAIN Drop(ls, id) \subseteq DOMAIN ls /\ \A x \in DOMAIN Drop(ls, id) : Drop(ls, id)[x] = ls[x]
  BY DEF Drop
<1>2. QED
  BY <1>1 DEF Sound

\* Gating a held loop accounts for it.
LEMMA FallbackGateAccounts ==
  ASSUME NEW loop, NEW b, NEW ls, Holding(loop, b, ls), FallbackGate(loop, b, ls)
  PROVE  AInv'
<1> DEFINE g == [kind |-> "fallback", to |-> loop.builder, id |-> loop.orig]
<1>1. g \in Gate
  BY GateTyped DEF Holding, Loop
<1>2. g.kind = "fallback" /\ g.id = loop.orig
  OBVIOUS
<1>3. board' = b /\ loops' = ls /\ gates' = Append(gates, g) /\ settled' = settled
  BY DEF FallbackGate
<1> HIDE DEF g
<1>4. QED
  BY <1>1, <1>2, <1>3, PutGate DEF Holding, AInv

\* A round for the judge, or a gate, accounts for it.
LEMMA DeliverJudgeRoundAccounts ==
  ASSUME NEW loop, NEW b, NEW ls, Holding(loop, b, ls), DeliverJudgeRound(loop, b, ls)
  PROVE  AInv'
<1> DEFINE judge == Judge[loop.builder]
           row == NewRow(judge, loop.orig)
           next == [loop EXCEPT !.phase = "judge"]
<1>1. CASE judge # NoRole /\ Up(judge)
  <2>1. judge \in Roles /\ loop.orig \in Nat \ {0}
    BY <1>1, RolesAssumption DEF Holding, Loop, TaskId
  <2>2. row \in Row /\ row.loop = loop.orig /\ ~row.done
    BY <2>1, NewRowTyped
  <2>3. next.orig = loop.orig
    BY DEF Holding, Loop
  <2>4. board' = Append(b, row) /\ loops' = Put(ls, Len(b) + 1, next)
        /\ gates' = gates /\ settled' = settled
    BY <1>1 DEF DeliverJudgeRound
  <2> HIDE DEF row, next
  <2>5. QED
    BY <2>1, <2>2, <2>3, <2>4, PutRound DEF Holding, AInv
<1>2. CASE ~(judge # NoRole /\ Up(judge))
  BY <1>2, FallbackGateAccounts DEF DeliverJudgeRound
<1>3. QED
  BY <1>1, <1>2

\* A retry for the builder, or a gate, accounts for it.
LEMMA RetryOrGateAccounts ==
  ASSUME NEW loop, NEW b, NEW ls, Holding(loop, b, ls), RetryOrGate(loop, b, ls)
  PROVE  AInv'
<1> DEFINE row == NewRow(loop.builder, loop.orig)
           next == [loop EXCEPT !.phase = "build", !.round = @ + 1]
<1>1. CASE FallbackGate(loop, b, ls)
  BY <1>1, FallbackGateAccounts
<1>2. CASE /\ board' = Append(b, row) /\ loops' = Put(ls, Len(b) + 1, next)
           /\ gates' = gates /\ settled' = settled
  <2>1. loop.builder \in Roles /\ loop.orig \in Nat \ {0}
    BY DEF Holding, Loop, TaskId
  <2>2. row \in Row /\ row.loop = loop.orig /\ ~row.done
    BY <2>1, NewRowTyped
  <2>3. next.orig = loop.orig
    BY DEF Holding, Loop
  <2> HIDE DEF row, next
  <2>4. QED
    BY <1>2, <2>1, <2>2, <2>3, PutRound DEF Holding, AInv
<1>3. QED
  BY <1>1, <1>2 DEF RetryOrGate, DeliverRetryRound

\* The role's merge mode adds at most a merge gate.
LEMMA QueueMergeAccounts ==
  ASSUME NEW gs \in Seq(Gate), Accounted(board', loops', gs, settled'),
         NEW r \in Roles, NEW id \in TaskId, id \in DOMAIN board', NEW ah,
         QueueMerge(r, id, gs, ah)
  PROVE  AInv'
<1>1. CASE gates' = gs
  BY <1>1 DEF AInv
<1>2. CASE gates' = Append(gs, MergeGate(r, id))
  <2> DEFINE g == MergeGate(r, id)
  <2>1. g \in Gate /\ g.kind = "merge" /\ g.id = id
    BY GateTyped DEF MergeGate
  <2>2. GatePlaced(board', g)
    BY <2>1 DEF GatePlaced
  <2> HIDE DEF g
  <2>3. QED
    BY <1>2, <2>1, <2>2, PutOtherGate DEF AInv, g
<1>3. QED
  BY <1>1, <1>2 DEF QueueMerge

\* Passing a held loop accounts for it.
LEMMA PassAccounts ==
  ASSUME NEW loop, NEW by, NEW b, NEW ls, NEW ah, Holding(loop, b, ls),
         Pass(loop, by, b, ls, ah)
  PROVE  AInv'
<1> DEFINE e == [how |-> "passed", id |-> loop.orig, by |-> by, told |-> Up(Start)]
<1>1. board' = b /\ loops' = ls /\ settled' = settled \cup {e}
  BY DEF Pass, Settle
<1>2. e.id = loop.orig /\ e.how = "passed"
  OBVIOUS
<1> HIDE DEF e
<1>3. Accounted(board', loops', gates, settled')
  BY <1>1, <1>2, PutOutcome DEF Holding
<1>4. loop.builder \in Roles /\ loop.orig \in TaskId /\ loop.orig \in DOMAIN board'
  BY <1>1 DEF Holding, Loop, Held
<1>5. QueueMerge(loop.builder, loop.orig, gates, ah)
  BY DEF Pass
<1>6. QED
  BY <1>3, <1>4, <1>5, QueueMergeAccounts DEF Holding

LEMMA ScoreVerdictAccounts ==
  ASSUME NEW loop, NEW id, NEW b, NEW ls, NEW ah, Holding(loop, b, ls),
         ScoreVerdict(loop, id, b, ls, ah)
  PROVE  AInv'
BY FallbackGateAccounts, PassAccounts, RetryOrGateAccounts DEF ScoreVerdict

\* A loop that is put back under the id it was taken from is where it was.
LEMMA PutBack ==
  ASSUME NEW b, NEW ls, NEW gs, NEW st, Accounted(b, ls, gs, st), NEW id \in DOMAIN ls,
         NEW loop, loop.orig = ls[id].orig
  PROVE  Accounted(b, Put(Drop(ls, id), id, loop), gs, st)
<1> DEFINE ms == Put(Drop(ls, id), id, loop)
<1>1. DOMAIN ms = DOMAIN ls /\ \A x \in DOMAIN ls : ms[x].orig = ls[x].orig
  BY DEF Put, Drop
<1> HIDE DEF ms
<1>2. \A p : Flying(ms, p) = Flying(ls, p)
  BY <1>1 DEF Flying
<1>3. LoopsPlaced(b, ms) /\ RowsPlaced(b, ms)
  BY <1>1 DEF Accounted, Placed, LoopsPlaced, RowsPlaced
<1>4. QED
  BY <1>2, <1>3 DEF Accounted, Placed, Once, ms

\* A task is delivered for the first time.
LEMMA HandOverAccounts ==
  ASSUME IInv, NEW r \in Roles, HandOver(r), Accounted(board, loops, gates', settled')
  PROVE  AInv'
<1> DEFINE id == Len(board) + 1
           loop == [orig |-> id, builder |-> r, round |-> 1, phase |-> "build"]
           row == NewRow(r, IF Judged(r) THEN id ELSE 0)
<1>1. Sound(board, loops)
  BY SoundAtHand
<1>2. id \in Nat \ {0}
  BY <1>1, AppendRow DEF Sound
<1>3. row \in Row /\ row.loop = (IF Judged(r) THEN id ELSE 0) /\ ~row.done
  BY <1>2, NewRowTyped
<1>4. loop.orig = id
  OBVIOUS
<1>5. board' = Append(board, row)
  BY DEF HandOver
<1>6. loops' = IF row.loop = 0 THEN loops ELSE Put(loops, id, loop)
  BY <1>2, <1>3 DEF HandOver
<1> HIDE DEF row, loop
<1>7. QED
  BY <1>1, <1>3, <1>4, <1>5, <1>6, PutFirst DEF AInv

-----------------------------------------------------------------------------
(* The actions *)

LEMMA DelegateAccounts ==
  ASSUME IInv, AInv, NEW r \in Targets, Delegate(r)
  PROVE  AInv'
<1>1. r \in Roles /\ gates \in Seq(Gate) /\ UNCHANGED settled
  BY RolesAssumption, SoundAtHand DEF Delegate
<1>2. CASE r \in Approve
  <2> DEFINE g == [kind |-> "entry", to |-> r, id |-> 0]
  <2>1. g \in Gate /\ g.kind = "entry"
    BY <1>1 DEF Gate
  <2>2. gates' = Append(gates, g) /\ UNCHANGED <<board, loops>>
    BY <1>2 DEF Delegate
  <2>3. GatePlaced(board, g)
    BY DEF GatePlaced
  <2> HIDE DEF g
  <2>4. QED
    BY <1>1, <2>1, <2>2, <2>3, PutOtherGate DEF AInv
<1>3. CASE r \notin Approve
  <2>1. HandOver(r) /\ gates' = gates
    BY <1>3 DEF Delegate
  <2>2. QED
    BY <1>1, <2>1, HandOverAccounts DEF AInv
<1>4. QED
  BY <1>2, <1>3

\* The board with a report counted, and with its row closed
LEMMA ReportAccounts ==
  ASSUME IInv, AInv, NEW id \in DOMAIN board,
         NEW b, b = [board EXCEPT ![id].reports = @ + 1]
  PROVE  /\ Accounted(b, loops, gates, settled)
         /\ Accounted(Resolve(b, id), loops, gates, settled)
         /\ Sound(Resolve(b, id), loops)
         /\ DOMAIN Resolve(b, id) = DOMAIN board
         /\ ~Resolve(b, id)[id].snap
         /\ Resolve(b, id)[id].loop = board[id].loop
         /\ Resolve(b, id)[id].to = board[id].to
         /\ b[id].to = board[id].to
         /\ b[id].snap = board[id].snap
<1> DEFINE row == [board[id] EXCEPT !.reports = @ + 1]
           c == Resolve(b, id)
<1>1. board \in Seq(Row) /\ board[id] \in Row /\ Sound(board, loops)
  BY SoundAtHand DEF Sound
<1>2. /\ row \in Row /\ row.loop = board[id].loop /\ row.done = board[id].done
      /\ row.snap = board[id].snap /\ row.to = board[id].to
  BY <1>1, ReportCounted
<1>3. b = [board EXCEPT ![id] = row]
  OBVIOUS
<1> HIDE DEF row
<1>4. /\ b \in Seq(Row) /\ DOMAIN b = DOMAIN board /\ b[id] = row
      /\ \A n \in DOMAIN board \ {id} : b[n] = board[n]
  <2> DEFINE B == [board EXCEPT ![id] = row]
  <2>1. /\ B \in Seq(Row) /\ DOMAIN B = DOMAIN board /\ B[id] = row
        /\ \A n \in DOMAIN board \ {id} : B[n] = board[n]
    BY <1>1, <1>2, UpdateRow
  <2>2. b = B
    BY <1>3
  <2> HIDE DEF B
  <2>3. QED
    BY <2>1, <2>2
<1>5. /\ c \in Seq(Row) /\ DOMAIN c = DOMAIN board
      /\ \A n \in DOMAIN board \ {id} : c[n] = board[n]
      /\ c[id] = [row EXCEPT !.done = TRUE, !.snap = FALSE]
  <2>1. b \in Seq(Row) /\ id \in DOMAIN b
    BY <1>4
  <2>2. QED
    BY <1>4, <2>1, ResolveRow
<1>6. ~c[id].snap /\ c[id].loop = board[id].loop /\ c[id].to = board[id].to
  BY <1>2, <1>5 DEF Row
<1> HIDE DEF c
<1>7. \A n \in DOMAIN board : /\ b[n].loop = board[n].loop /\ b[n].snap = board[n].snap
                              /\ b[n].done = board[n].done
  BY <1>2, <1>4
<1>8. \A n \in DOMAIN board : board[n].done => ~board[n].snap
  BY DEF AInv, Accounted, Placed, RowsPlaced
<1>9. Accounted(b, loops, gates, settled)
  BY <1>1, <1>4, <1>7, <1>8, TouchPlaced DEF AInv
<1>10. Accounted(c, loops, gates, settled)
  <2>1. \A n \in DOMAIN board : /\ c[n].loop = board[n].loop
                                /\ c[n].snap => board[n].snap
                                /\ c[n].done => ~c[n].snap
    BY <1>5, <1>6, <1>8
  <2>2. QED
    BY <1>1, <1>5, <2>1, TouchPlaced DEF AInv
<1>11. Sound(c, loops)
  BY <1>1, <1>5, <1>6 DEF Sound
<1>12. QED
  BY <1>2, <1>4, <1>5, <1>6, <1>9, <1>10, <1>11 DEF c

\* A report on a task some loop waits for
LEMMA JudgedDoneAccounts ==
  ASSUME IInv, AInv, NEW id \in DOMAIN loops,
         NEW b, b = [board EXCEPT ![id].reports = @ + 1], NEW ah, JudgedDone(id, b, ah)
  PROVE  AInv'
<1> DEFINE loop == loops[id]
           rest == Drop(loops, id)
           done == Resolve(b, id)
<1>1. id \in DOMAIN board /\ gates \in Seq(Gate) /\ loop \in Loop
  BY SoundAtHand DEF Sound, TypeOK
<1>2. /\ Accounted(done, loops, gates, settled)
      /\ Sound(done, loops) /\ ~done[id].snap
  BY <1>1, ReportAccounts
<1> HIDE DEF done
<1>3. Holding(loop, done, rest)
  BY <1>1, <1>2, SoundDrop, TakeFlight DEF Holding
<1>4. CASE FallbackGate(loop, done, rest)
  BY <1>3, <1>4, FallbackGateAccounts
<1>5. CASE BuildDone(loop, id, done, rest)
  <2>1. CASE loop.builder \in Checked
    <3> DEFINE next == [loop EXCEPT !.phase = "check"]
    <3>1. /\ board' = done /\ loops' = Put(rest, id, next)
          /\ gates' = gates /\ settled' = settled
      BY <1>5, <2>1 DEF BuildDone
    <3>2. next.orig = loop.orig
      BY <1>1 DEF Loop
    <3> HIDE DEF next
    <3>3. QED
      BY <1>2, <3>1, <3>2, PutBack DEF AInv
  <2>2. CASE loop.builder \notin Checked
    BY <1>3, <1>5, <2>2, DeliverJudgeRoundAccounts DEF BuildDone
  <2>3. QED
    BY <2>1, <2>2
<1>6. CASE ScoreVerdict(loop, id, done, rest, ah)
  BY <1>3, <1>6, ScoreVerdictAccounts
<1>7. QED
  BY <1>4, <1>5, <1>6 DEF JudgedDone, done

\* A report on any other task: an ownership gate is only ever about a row that
\* still held its snapshot, so never about a loop's first one.
LEMMA PlainDoneAccounts ==
  ASSUME IInv, AInv, NEW id \in DOMAIN board, id \notin DOMAIN loops,
         NEW b, b = [board EXCEPT ![id].reports = @ + 1], NEW ah, PlainDone(id, b, ah)
  PROVE  AInv'
<1> DEFINE done == Resolve(b, id)
           r == b[id].to
           g == [kind |-> "ownership", to |-> r, id |-> id]
           e == [how |-> "report", id |-> id, by |-> id, told |-> Up(Start)]
<1>1. gates \in Seq(Gate) /\ r \in Roles /\ id \in TaskId
  <2>1. board \in Seq(Row) /\ gates \in Seq(Gate)
    BY SoundAtHand DEF Sound
  <2>2. board[id].to \in Roles /\ id \in TaskId
    <3>1. board[id] \in Row /\ id \in Nat \ {0}
      BY <2>1
    <3>2. QED
      BY <3>1 DEF Row, TaskId
  <2>3. b[id].to = board[id].to
    BY ReportAccounts
  <2>4. QED
    BY <2>1, <2>2, <2>3
<1>2. /\ Accounted(done, loops, gates, settled)
      /\ DOMAIN done = DOMAIN board
      /\ done[id].loop = board[id].loop /\ b[id].snap = board[id].snap
  BY ReportAccounts
<1>3. board' = done /\ loops' = loops
  BY DEF PlainDone
<1>4. CASE MayViolate(done, id, r, b[id].snap) /\ gates' = Append(gates, g) /\ settled' = settled
  <2>1. board[id].snap
    BY <1>2, <1>4 DEF MayViolate
  <2>2. board[id].loop # id
    BY <2>1 DEF AInv, Accounted, Placed, RowsPlaced
  <2>3. g \in Gate /\ g.kind = "ownership" /\ g.id = id
    BY <1>1, GateTyped
  <2>4. GatePlaced(done, g)
    BY <1>2, <2>2, <2>3 DEF GatePlaced
  <2> HIDE DEF g, done
  <2>5. QED
    BY <1>1, <1>2, <1>3, <1>4, <2>3, <2>4, PutOtherGate DEF AInv
<1>5. CASE Settle("report", id, id) /\ QueueMerge(r, id, gates, ah)
  <2>1. settled' = settled \cup {e}
    BY <1>5 DEF Settle
  <2>2. e.id = id /\ e.how = "report"
    OBVIOUS
  <2> HIDE DEF e, done
  <2>3. Accounted(board', loops', gates, settled')
    BY <1>2, <1>3, <2>1, <2>2, PutOtherFact
  <2>4. QED
    BY <1>1, <1>2, <1>3, <1>5, <2>3, QueueMergeAccounts
<1>6. QED
  BY <1>4, <1>5 DEF PlainDone

LEMMA WorkDoneAccounts ==
  ASSUME IInv, AInv, NEW id \in DOMAIN board, WorkDone(id)
  PROVE  AInv'
<1> DEFINE b == [board EXCEPT ![id].reports = @ + 1]
<1>1. Accounted(b, loops, gates, settled)
  BY ReportAccounts
<1>2. CASE board' = b /\ UNCHANGED <<loops, gates, settled>>
  BY <1>1, <1>2 DEF AInv
<1>3. CASE \E ah : id \in DOMAIN loops /\ JudgedDone(id, b, ah)
  BY <1>3, JudgedDoneAccounts
<1>4. CASE \E ah : id \notin DOMAIN loops /\ PlainDone(id, b, ah)
  BY <1>4, PlainDoneAccounts
<1> HIDE DEF b
<1>5. QED
  BY <1>2, <1>3, <1>4 DEF WorkDone, b

\* What a loop waits for in the judge's phase is not its first row; in the check
\* phase the row is closed.  So neither holds a snapshot that RowsPlaced ties to
\* the map.
LEMMA WaitedFor ==
  ASSUME IInv, NEW id \in DOMAIN loops
  PROVE  /\ loops[id].phase = "judge" => board[id].loop # id
         /\ loops[id].phase = "check" => board[id].done
<1>1. OnTask(loops[id], id, board, checks) /\ loops[id] \in Loop
  BY DEF IInv, TypeOK, LoopOnItsTask
<1>2. ASSUME loops[id].phase = "judge", board[id].loop = id PROVE FALSE
  <2>1. loops[id].orig = id
    BY <1>1, <1>2 DEF OnTask
  <2>2. Judge[loops[id].builder] = loops[id].builder
    BY <1>1, <1>2, <2>1 DEF OnTask
  <2>3. loops[id].builder \in Roles
    BY <1>1 DEF Loop
  <2>4. QED
    BY <2>2, <2>3, RolesAssumption
<1>3. QED
  BY <1>1, <1>2 DEF OnTask

LEMMA FinishCheckAccounts ==
  ASSUME IInv, AInv, NEW id \in checks, FinishCheck(id)
  PROVE  AInv'
<1> DEFINE loop == loops[id]
           rest == Drop(loops, id)
<1>1. CASE id \in DOMAIN loops /\ loops[id].phase = "check"
  <2>1. Sound(board, loops) /\ gates \in Seq(Gate) /\ loop \in Loop /\ id \in DOMAIN board
    BY <1>1, SoundAtHand DEF Sound, TypeOK
  <2>2. ~board[id].snap
    BY <1>1, <2>1, WaitedFor DEF AInv, Accounted, Placed, RowsPlaced
  <2>3. Holding(loop, board, rest)
    BY <1>1, <2>1, <2>2, SoundDrop, TakeFlight DEF Holding, AInv
  <2>4. QED
    BY <1>1, <2>3, FallbackGateAccounts, DeliverJudgeRoundAccounts, PassAccounts,
       RetryOrGateAccounts DEF FinishCheck
<1>2. CASE ~(id \in DOMAIN loops /\ loops[id].phase = "check")
  BY <1>2 DEF FinishCheck, AInv
<1>3. QED
  BY <1>1, <1>2

LEMMA TimeoutAccounts ==
  ASSUME IInv, AInv, NEW id \in DOMAIN board, Timeout(id)
  PROVE  AInv'
<1> DEFINE b == [board EXCEPT ![id].timedOut = TRUE]
           row == [board[id] EXCEPT !.timedOut = TRUE]
<1>1. Sound(board, loops) /\ gates \in Seq(Gate) /\ board \in Seq(Row) /\ board[id] \in Row
  BY SoundAtHand DEF Sound
<1>2. /\ row \in Row /\ row.loop = board[id].loop /\ row.done = board[id].done
      /\ row.snap = board[id].snap
  BY <1>1 DEF Row
<1>3. b = [board EXCEPT ![id] = row]
  OBVIOUS
<1> HIDE DEF row, b
<1>4. /\ b \in Seq(Row) /\ DOMAIN b = DOMAIN board
      /\ \A n \in DOMAIN board : /\ b[n].loop = board[n].loop /\ b[n].snap = board[n].snap
                                 /\ b[n].done = board[n].done
  BY <1>1, <1>2, <1>3, UpdateRow
<1>5. \A n \in DOMAIN board : board[n].done => ~board[n].snap
  BY DEF AInv, Accounted, Placed, RowsPlaced
<1>6. Accounted(b, loops, gates, settled)
  BY <1>1, <1>4, <1>5, TouchPlaced DEF AInv
<1>7. Sound(b, loops)
  BY <1>1, <1>4 DEF Sound
<1>8. CASE id \in DOMAIN loops /\ loops[id].phase = "judge"
  <2>1. b[id].loop # id /\ loops[id] \in Loop
    BY <1>4, <1>8, WaitedFor, SoundAtHand DEF TypeOK
  <2>2. Holding(loops[id], b, Drop(loops, id))
    BY <1>1, <1>6, <1>7, <1>8, <2>1, SoundDrop, TakeFlight DEF Holding
  <2>3. FallbackGate(loops[id], b, Drop(loops, id))
    BY <1>8 DEF Timeout, b
  <2>4. QED
    BY <2>2, <2>3, FallbackGateAccounts
<1>9. CASE ~(id \in DOMAIN loops /\ loops[id].phase = "judge")
  BY <1>6, <1>9 DEF Timeout, AInv, b
<1>10. QED
  BY <1>8, <1>9

LEMMA PaneClosedAccounts ==
  ASSUME IInv, AInv, NEW r \in Roles, PaneClosed(r)
  PROVE  AInv'
<1>1. board' = board /\ settled' = settled
  BY DEF PaneClosed
<1>2. CASE UNCHANGED <<loops, gates>>
  BY <1>1, <1>2 DEF AInv
<1>3. CASE FailLoopsFor(r)
  <2> DEFINE S == WaitingOn(r)
             gate(id) == [kind |-> "fallback", to |-> loops[id].builder, id |-> loops[id].orig]
  <2>1. Sound(board, loops) /\ gates \in Seq(Gate) /\ board \in Seq(Row)
    BY SoundAtHand DEF Sound
  <2>2. S \subseteq DOMAIN loops /\ \A id \in S : board[id].loop # id
    BY WaitedFor DEF WaitingOn
  <2>3. IsFiniteSet(S)
    <3>1. IsFiniteSet(1 .. Len(board)) /\ DOMAIN board = 1 .. Len(board)
      BY <2>1, FS_Interval
    <3>2. S \subseteq 1 .. Len(board)
      BY <2>1, <2>2, <3>1 DEF Sound
    <3>3. QED
      BY <3>1, <3>2, FS_Subset
  <2>4. \A id \in S : gate(id) \in Gate
    <3>1. ASSUME NEW id \in S PROVE gate(id) \in Gate
      <4>1. loops[id].builder \in Roles /\ loops[id].orig \in TaskId
        BY <2>2, SoundAtHand DEF TypeOK, Loop
      <4>2. QED
        BY <4>1, GateTyped
    <3>2. QED
      BY <3>1
  <2> HIDE DEF S
  <2>5. PICK order \in Orders(S) :
          /\ gates' = gates \o [i \in DOMAIN order |-> gate(order[i])]
          /\ loops' = [id \in DOMAIN loops \ S |-> loops[id]]
    BY <1>3 DEF FailLoopsFor, S
  <2> DEFINE more == [i \in DOMAIN order |-> gate(order[i])]
  <2>6. /\ DOMAIN order = 1 .. Cardinality(S) /\ Cardinality(S) \in Nat
        /\ \A i \in DOMAIN order : order[i] \in S
    BY <2>3, OrderOnce
  <2>7. /\ \A i \in DOMAIN order : more[i].kind = "fallback" /\ more[i].id = loops[order[i]].orig
        /\ DOMAIN more = DOMAIN order
    OBVIOUS
  <2>8. more \in Seq(Gate)
    <3>1. more \in [1 .. Cardinality(S) -> Gate]
      BY <2>4, <2>6
    <3>2. QED
      BY <2>6, <3>1, GateSeq
  <2>9. DOMAIN loops' = DOMAIN loops \ S /\ \A id \in DOMAIN loops' : loops'[id] = loops[id]
    BY <2>5
  <2>10. gates' = gates \o more
    BY <2>5
  <2> HIDE DEF more
  <2>11. QED
    BY <1>1, <2>1, <2>2, <2>3, <2>7, <2>8, <2>9, <2>10, FailFlights DEF AInv
<1>4. QED
  BY <1>2, <1>3 DEF PaneClosed

LEMMA ApproveGateAccounts ==
  ASSUME IInv, AInv, ApproveGate
  PROVE  AInv'
<1> DEFINE g == Head(gates)
           rest == Tail(gates)
           e(how) == [how |-> how, id |-> g.id, by |-> 0, told |-> Up(Start)]
<1>1. gates \in Seq(Gate) /\ gates # <<>>
  BY SoundAtHand DEF ApproveGate
<1>2. /\ rest \in Seq(Gate) /\ g \in Gate /\ GatePlaced(board, g)
  BY <1>1, WaitingTail DEF AInv, Accounted, Placed
<1>3. g.to \in Roles
  BY <1>2 DEF Gate
<1>4. \A how : e(how).id = g.id /\ e(how).how = how
  OBVIOUS
<1>5. g.kind # "fallback" => Accounted(board, loops, rest, settled)
  BY <1>1, RuleOther DEF AInv
<1>6. CASE g.kind = "entry" /\ HandOver(g.to) /\ gates' = rest /\ UNCHANGED settled
  BY <1>3, <1>5, <1>6, HandOverAccounts
<1>7. CASE g.kind = "entry" /\ gates' = rest /\ UNCHANGED <<board, loops, settled>>
  BY <1>5, <1>7 DEF AInv
<1>8. CASE /\ g.kind \in {"fallback", "ownership"} /\ Settle("accepted", g.id, 0)
           /\ QueueMerge(g.to, g.id, rest, ahead) /\ UNCHANGED <<board, loops>>
  <2>1. settled' = settled \cup {e("accepted")}
    BY <1>8 DEF Settle
  <2>2. g.id \in TaskId /\ g.id \in DOMAIN board
    BY <1>2, <1>8 DEF GatePlaced, Gate
  <2> HIDE DEF e
  <2>3. Accounted(board', loops', rest, settled')
    <3>1. CASE g.kind = "fallback"
      BY <1>1, <1>4, <1>8, <2>1, <3>1, RuleFallback DEF AInv
    <3>2. CASE g.kind = "ownership"
      BY <1>2, <1>4, <1>5, <1>8, <2>1, <2>2, <3>2, PutOtherFact DEF GatePlaced
    <3>3. QED
      BY <1>8, <3>1, <3>2
  <2>4. QED
    BY <1>2, <1>3, <1>8, <2>2, <2>3, QueueMergeAccounts
<1>9. CASE /\ g.kind = "merge" /\ Settle("merge-ruled", g.id, 0)
           /\ gates' = rest /\ UNCHANGED <<board, loops>>
  <2>1. settled' = settled \cup {e("merge-ruled")}
    BY <1>9 DEF Settle
  <2> HIDE DEF e
  <2>2. QED
    BY <1>2, <1>4, <1>5, <1>9, <2>1, PutOtherFact DEF AInv, GatePlaced
<1>10. QED
  BY <1>6, <1>7, <1>8, <1>9 DEF ApproveGate

LEMMA RejectGateAccounts ==
  ASSUME IInv, AInv, RejectGate
  PROVE  AInv'
<1> DEFINE g == Head(gates)
           rest == Tail(gates)
           e(how) == [how |-> how, id |-> g.id, by |-> 0, told |-> Up(Start)]
<1>1. gates \in Seq(Gate) /\ gates # <<>>
  BY SoundAtHand DEF RejectGate
<1>2. g \in Gate /\ GatePlaced(board, g)
  BY <1>1, WaitingTail DEF AInv, Accounted, Placed
<1>3. \A how : e(how).id = g.id /\ e(how).how = how
  OBVIOUS
<1>4. g.kind # "fallback" => Accounted(board, loops, rest, settled)
  BY <1>1, RuleOther DEF AInv
<1>5. gates' = rest /\ UNCHANGED <<board, loops>>
  BY DEF RejectGate
<1>6. CASE g.kind = "entry"
  BY <1>4, <1>5, <1>6 DEF RejectGate, AInv
<1>7. CASE g.kind = "merge"
  <2>1. settled' = settled \cup {e("merge-ruled")}
    BY <1>7 DEF RejectGate, Settle
  <2> HIDE DEF e
  <2>2. QED
    BY <1>2, <1>3, <1>4, <1>5, <1>7, <2>1, PutOtherFact DEF AInv, GatePlaced
<1>8. CASE g.kind \notin {"entry", "merge"}
  <2>1. settled' = settled \cup {e("rejected")}
    BY <1>8 DEF RejectGate, Settle
  <2> HIDE DEF e
  <2>2. CASE g.kind = "fallback"
    BY <1>1, <1>3, <1>5, <2>1, <2>2, RuleFallback DEF AInv
  <2>3. CASE g.kind = "ownership"
    BY <1>2, <1>3, <1>4, <1>5, <2>1, <2>3, PutOtherFact DEF AInv, GatePlaced
  <2>4. g.kind \in {"entry", "fallback", "ownership", "merge"}
    BY <1>2 DEF Gate
  <2>5. QED
    BY <1>8, <2>2, <2>3, <2>4
<1>9. QED
  BY <1>6, <1>7, <1>8

LEMMA InitAccounts == Init => AInv
<1>1. SUFFICES ASSUME Init PROVE AInv
  OBVIOUS
<1>2. DOMAIN board = {} /\ DOMAIN loops = {} /\ DOMAIN gates = {} /\ settled = {}
  BY <1>1 DEF Init
<1>3. QED
  BY <1>2 DEF AInv, Accounted, Placed, LoopsPlaced, RowsPlaced

LEMMA NextAccounts == IInv /\ AInv /\ [Next]_vars => AInv'
<1>1. SUFFICES ASSUME IInv, AInv, [Next]_vars PROVE AInv'
  OBVIOUS
<1>2. ASSUME NEW r \in Targets, Delegate(r) PROVE AInv'
  BY <1>1, <1>2, DelegateAccounts
<1>3. ASSUME NEW id \in DOMAIN board, WorkDone(id) PROVE AInv'
  BY <1>1, <1>3, WorkDoneAccounts
<1>4. ASSUME NEW id \in DOMAIN board, Timeout(id) PROVE AInv'
  BY <1>1, <1>4, TimeoutAccounts
<1>5. ASSUME NEW id \in checks, FinishCheck(id) PROVE AInv'
  BY <1>1, <1>5, FinishCheckAccounts
<1>6. ASSUME NEW r \in Roles, PaneClosed(r) PROVE AInv'
  BY <1>1, <1>6, PaneClosedAccounts
<1>7. CASE ApproveGate
  BY <1>1, <1>7, ApproveGateAccounts
<1>8. CASE RejectGate
  BY <1>1, <1>8, RejectGateAccounts
<1>9. CASE (\E r \in Roles : Die(r) \/ Restart(r)) \/ GatewayFlip \/ UNCHANGED vars
  <2>1. UNCHANGED <<board, loops, gates, settled>>
    BY <1>9 DEF Die, Restart, GatewayFlip, vars
  <2>2. QED
    BY <1>1, <2>1 DEF AInv
<1>10. QED
  BY <1>1, <1>2, <1>3, <1>4, <1>5, <1>6, <1>7, <1>8, <1>9 DEF Next

-----------------------------------------------------------------------------
(* The theorem *)

\* Accounted for in the terms of NoLoopLost: the three sets have one element
\* among them.
LEMMA OneInAll ==
  ASSUME AInv
  PROVE  NoLoopLost
<1>1. SUFFICES ASSUME NEW o \in DOMAIN board, board[o].loop = o
               PROVE  Cardinality(InFlight(o)) + Cardinality(AtFallback(o))
                        + Cardinality(Outcomes(o)) = 1
  BY DEF NoLoopLost
<1>2. /\ InFlight(o) = Flying(loops, o) /\ AtFallback(o) = Waiting(gates, o)
      /\ Outcomes(o) = Ruled(settled, o)
  BY DEF InFlight, AtFallback, Outcomes, Flying, Waiting, Ruled
<1>3. Once(loops, gates, settled, o)
  BY <1>1 DEF AInv, Accounted
<1>4. Cardinality({}) = 0 /\ \A S : One(S) => Cardinality(S) = 1
  BY FS_EmptySet, FS_Singleton DEF One
<1>5. QED
  BY <1>2, <1>3, <1>4 DEF Once

\* No judged delegation is lost or in two places, in any reachable state: it is in
\* flight under one id, waits in one fallback gate, or has one outcome, whatever
\* reports, check results, timeouts, exits and rulings race.
THEOREM EveryLoopAccounted == Spec => []NoLoopLost
<1>1. Spec => []AInv
  BY Invariance, InitAccounts, NextAccounts, PTL DEF Spec
<1>2. QED
  BY <1>1, OneInAll, PTL

-----------------------------------------------------------------------------
(* Rounds *)

\* The rounds of delegation o that reached its builder, and what a loop knows of
\* them
Rounds(b, o) == {n \in DOMAIN b : b[n].loop = o /\ b[n].to = b[o].to}

Counts(loop, b) ==
  /\ loop.round \in Nat
  /\ Cardinality(Rounds(b, loop.orig)) <= loop.round
  /\ loop.round <= Cap[loop.builder]

\* Every loop in the map has counted its rounds, and no delegation has had more
\* than it may, those that have left the map included.
Linked(b) == \A n \in DOMAIN b : b[n].loop \in DOMAIN b \cup {0}

Within(b, ls) ==
  /\ Linked(b)
  /\ \A o \in DOMAIN b : b[o].loop = o => Cardinality(Rounds(b, o)) <= Cap[b[o].to]
  /\ \A id \in DOMAIN ls : Counts(ls[id], b)

CInv == Within(board, loops)

\* A row that changes otherwise is the same row to the count, and so is a loop.
Alike(b, c) == DOMAIN c = DOMAIN b /\ \A n \in DOMAIN b : c[n].to = b[n].to /\ c[n].loop = b[n].loop

From(ms, ls) ==
  \A id \in DOMAIN ms : \E j \in DOMAIN ls : /\ ms[id].orig = ls[j].orig
                                             /\ ms[id].round = ls[j].round
                                             /\ ms[id].builder = ls[j].builder

LEMMA RoundsFinite ==
  ASSUME NEW b \in Seq(Row), NEW o
  PROVE  IsFiniteSet(Rounds(b, o)) /\ Cardinality(Rounds(b, o)) \in Nat
<1>1. DOMAIN b = 1 .. Len(b) /\ Len(b) \in Nat
  OBVIOUS
<1>2. IsFiniteSet(1 .. Len(b))
  BY <1>1, FS_Interval
<1>3. Rounds(b, o) \subseteq 1 .. Len(b)
  BY <1>1 DEF Rounds
<1>4. IsFiniteSet(Rounds(b, o))
  BY <1>2, <1>3, FS_Subset
<1>5. QED
  BY <1>4, FS_CardinalityType

\* A new row counts for its own delegation, when it is the builder's.
LEMMA RoundsAppend ==
  ASSUME NEW b \in Seq(Row), NEW row \in Row, NEW o \in DOMAIN b
  PROVE  Rounds(Append(b, row), o) =
           IF row.loop = o /\ row.to = b[o].to THEN Rounds(b, o) \cup {Len(b) + 1} ELSE Rounds(b, o)
<1> DEFINE c == Append(b, row)
           k == Len(b) + 1
<1>1. /\ DOMAIN c = DOMAIN b \cup {k} /\ k \notin DOMAIN b
      /\ \A n \in DOMAIN b : c[n] = b[n]
      /\ c[k] = row
  BY AppendRow
<1> HIDE DEF c, k
<1>2. QED
  BY <1>1 DEF Rounds, c, k

\* What is within its cap stays so when rows change otherwise and loops leave.
LEMMA AlikeWithin ==
  ASSUME NEW b, NEW ls, Sound(b, ls), Within(b, ls), NEW c, Alike(b, c), NEW ms, From(ms, ls)
  PROVE  Within(c, ms)
<1>1. \A o \in DOMAIN b : Rounds(c, o) = Rounds(b, o)
  BY DEF Alike, Rounds
<1>2. Linked(c)
  BY DEF Within, Linked, Alike
<1>3. ASSUME NEW o \in DOMAIN c, c[o].loop = o PROVE Cardinality(Rounds(c, o)) <= Cap[c[o].to]
  BY <1>1, <1>3 DEF Within, Alike
<1>4. ASSUME NEW id \in DOMAIN ms PROVE Counts(ms[id], c)
  <2>1. PICK j \in DOMAIN ls : /\ ms[id].orig = ls[j].orig /\ ms[id].round = ls[j].round
                               /\ ms[id].builder = ls[j].builder
    BY DEF From
  <2>2. Counts(ls[j], b) /\ ls[j].orig \in DOMAIN b
    BY DEF Within, Sound
  <2>3. QED
    BY <1>1, <2>1, <2>2 DEF Counts
<1>5. QED
  BY <1>2, <1>3, <1>4 DEF Within

\* A round of a delegation no other loop stands for is within the cap when the
\* loop that goes on with it has counted it.
LEMMA RoundWithin ==
  ASSUME NEW b, NEW ls, Sound(b, ls), Within(b, ls), NEW row \in Row,
         NEW loop, loop.orig \in DOMAIN b, row.loop = loop.orig, loop.builder = b[loop.orig].to,
         Flying(ls, loop.orig) = {}, Counts(loop, Append(b, row))
  PROVE  Within(Append(b, row), Put(ls, Len(b) + 1, loop))
<1> DEFINE c == Append(b, row)
           k == Len(b) + 1
           ms == Put(ls, k, loop)
           o == loop.orig
<1>1. /\ DOMAIN c = DOMAIN b \cup {k} /\ k \notin DOMAIN b
      /\ \A n \in DOMAIN b : c[n] = b[n]
      /\ c[k] = row
  BY AppendRow DEF Sound
<1>2. \A p \in DOMAIN b : p # o => Rounds(c, p) = Rounds(b, p)
  BY RoundsAppend DEF Sound
<1>3. DOMAIN ms = DOMAIN ls \cup {k} /\ ms[k] = loop /\ k \notin DOMAIN ls
      /\ \A id \in DOMAIN ls : ms[id] = ls[id]
  BY <1>1 DEF Put, Sound
<1>4. Counts(loop, c)
  OBVIOUS
<1> HIDE DEF c, k, ms
<1>5. Linked(c)
  BY <1>1 DEF Within, Linked
<1>6. ASSUME NEW p \in DOMAIN c, c[p].loop = p PROVE Cardinality(Rounds(c, p)) <= Cap[c[p].to]
  <2>1. p \in DOMAIN b /\ b[p].loop = p /\ c[p] = b[p]
    BY <1>1, <1>6
  <2>2. CASE p = o
    <3>1. Cardinality(Rounds(c, o)) <= loop.round /\ loop.round <= Cap[b[o].to]
      BY <1>4 DEF Counts
    <3>2. IsFiniteSet(Rounds(c, o)) /\ Cardinality(Rounds(c, o)) \in Nat
      BY AppendRow, RoundsFinite DEF Sound, c
    <3>3. loop.round \in Int /\ Cap[b[o].to] \in Nat
      <4>1. b[o] \in Row
        BY DEF Sound
      <4>2. QED
        BY <1>4, <4>1, RolesAssumption DEF Row, Counts
    <3>4. QED
      BY <2>1, <2>2, <3>1, <3>2, <3>3
  <2>3. CASE p # o
    BY <1>2, <2>1, <2>3 DEF Within
  <2>4. QED
    BY <2>2, <2>3
<1>7. ASSUME NEW id \in DOMAIN ms PROVE Counts(ms[id], c)
  <2>1. CASE id = k
    BY <1>3, <1>4, <2>1
  <2>2. CASE id \in DOMAIN ls
    <3>1. ls[id].orig \in DOMAIN b /\ ls[id].orig # o
      BY <2>2 DEF Sound, Flying
    <3>2. Counts(ls[id], b)
      BY <2>2 DEF Within
    <3>3. QED
      BY <1>2, <1>3, <2>2, <3>1, <3>2 DEF Counts
  <2>3. QED
    BY <1>3, <2>1, <2>2
<1>8. Within(c, ms)
  BY <1>5, <1>6, <1>7 DEF Within
<1>9. QED
  BY <1>8 DEF c, k, ms

\* A first delivery is the first round.
LEMMA FirstWithin ==
  ASSUME NEW b, NEW ls, Sound(b, ls), Within(b, ls),
         NEW row \in Row, row.loop \in {0, Len(b) + 1},
         NEW loop, loop.orig = Len(b) + 1, loop.round = 1, loop.builder = row.to,
         NEW ms, ms = IF row.loop = 0 THEN ls ELSE Put(ls, Len(b) + 1, loop)
  PROVE  Within(Append(b, row), ms)
<1> DEFINE c == Append(b, row)
           k == Len(b) + 1
<1>1. /\ DOMAIN c = DOMAIN b \cup {k} /\ k \notin DOMAIN b /\ k # 0
      /\ \A n \in DOMAIN b : c[n] = b[n]
      /\ c[k] = row
  BY AppendRow DEF Sound, TaskId
<1>2. \A p \in DOMAIN b : Rounds(c, p) = Rounds(b, p)
  <2>1. \A p \in DOMAIN b : row.loop # p
    BY <1>1, AppendRow DEF Sound, TaskId
  <2>2. QED
    BY <2>1, RoundsAppend DEF Sound
<1>3. /\ \A id \in DOMAIN ls : id \in DOMAIN ms /\ ms[id] = ls[id]
      /\ \A id \in DOMAIN ms \ DOMAIN ls : id = k /\ ms[id] = loop /\ row.loop = k
  <2>1. DOMAIN ls \subseteq DOMAIN b
    BY DEF Sound
  <2>2. k \notin DOMAIN ls
    BY <1>1, <2>1
  <2> HIDE DEF c, k
  <2>3. CASE row.loop = 0
    BY <2>3
  <2>4. CASE row.loop # 0
    <3>1. row.loop = k /\ ms = Put(ls, k, loop)
      BY <2>4 DEF k
    <3>2. /\ DOMAIN ms = DOMAIN ls \cup {k} /\ ms[k] = loop
          /\ \A id \in DOMAIN ls : ms[id] = ls[id]
      BY <2>2, <3>1 DEF Put
    <3>3. QED
      BY <3>1, <3>2
  <2>5. QED
    BY <2>3, <2>4
<1> HIDE DEF c
<1>4. Linked(c)
  BY <1>1 DEF Within, Linked
<1>5. row.loop = k => Cardinality(Rounds(c, k)) = 1
  <2>1. row.loop = k => Rounds(c, k) = {k}
    BY <1>1 DEF Within, Linked, Rounds
  <2>2. QED
    BY <2>1, FS_Singleton
<1>6. Cap[row.to] \in Nat /\ 1 <= Cap[row.to]
  <2>1. row.to \in Roles
    BY DEF Row
  <2>2. Cap[row.to] \in Nat \ {0}
    BY <2>1, RolesAssumption
  <2>3. QED
    BY <2>2
<1> HIDE DEF k
<1>7. ASSUME NEW p \in DOMAIN c, c[p].loop = p PROVE Cardinality(Rounds(c, p)) <= Cap[c[p].to]
  <2>1. CASE p = k
    BY <1>1, <1>5, <1>6, <1>7, <2>1
  <2>2. CASE p \in DOMAIN b
    BY <1>1, <1>2, <1>7, <2>2 DEF Within
  <2>3. QED
    BY <1>1, <2>1, <2>2
<1>8. ASSUME NEW id \in DOMAIN ms PROVE Counts(ms[id], c)
  <2>1. CASE id \in DOMAIN ls
    <3>1. Counts(ls[id], b) /\ ls[id].orig \in DOMAIN b /\ ms[id] = ls[id]
      BY <1>3, <2>1 DEF Within, Sound
    <3>2. QED
      BY <1>2, <3>1 DEF Counts
  <2>2. CASE id \notin DOMAIN ls
    <3>1. ms[id] = loop /\ row.loop = k
      BY <1>3, <2>2
    <3>2. loop.orig = k
      BY DEF k
    <3>3. QED
      BY <1>5, <1>6, <3>1, <3>2 DEF Counts
  <2>3. QED
    BY <2>1, <2>2
<1>9. QED
  BY <1>4, <1>7, <1>8 DEF Within, c

\* A handler has a loop in hand that has counted its rounds.
Counted(loop, b, ls) ==
  /\ Holding(loop, b, ls)
  /\ Within(b, ls)
  /\ Counts(loop, b)
  /\ loop.builder = b[loop.orig].to

LEMMA FallbackGateCaps ==
  ASSUME NEW loop, NEW b, NEW ls, Counted(loop, b, ls), FallbackGate(loop, b, ls)
  PROVE  CInv'
BY DEF Counted, FallbackGate, CInv

\* The judge's round is none of the builder's.
LEMMA DeliverJudgeRoundCaps ==
  ASSUME NEW loop, NEW b, NEW ls, Counted(loop, b, ls), DeliverJudgeRound(loop, b, ls)
  PROVE  CInv'
<1> DEFINE judge == Judge[loop.builder]
           row == NewRow(judge, loop.orig)
           next == [loop EXCEPT !.phase = "judge"]
           o == loop.orig
<1>1. /\ Sound(b, ls) /\ Within(b, ls) /\ Flying(ls, o) = {} /\ o \in DOMAIN b
      /\ loop \in Loop /\ Counts(loop, b) /\ loop.builder = b[o].to
  BY DEF Counted, Holding, Held, Nowhere
<1>2. CASE judge # NoRole /\ Up(judge)
  <2>1. judge \in Roles /\ judge # loop.builder /\ o \in Nat
    BY <1>1, <1>2, RolesAssumption DEF Loop, TaskId
  <2>2. row \in Row /\ row.loop = o /\ row.to = judge
    BY <2>1, NewRowTyped
  <2>3. next.orig = o /\ next.round = loop.round /\ next.builder = loop.builder
    BY <1>1 DEF Loop
  <2>4. board' = Append(b, row) /\ loops' = Put(ls, Len(b) + 1, next)
    BY <1>2 DEF DeliverJudgeRound
  <2> HIDE DEF row, next, judge, o
  <2>5. Rounds(Append(b, row), o) = Rounds(b, o)
    BY <1>1, <2>1, <2>2, RoundsAppend DEF Sound
  <2>6. Counts(loop, b) /\ loop.orig = o
    BY <1>1 DEF o
  <2>7. Counts(next, Append(b, row))
    BY <2>3, <2>5, <2>6 DEF Counts
  <2>8. QED
    BY <1>1, <2>2, <2>3, <2>4, <2>7, RoundWithin DEF CInv
<1>3. CASE ~(judge # NoRole /\ Up(judge))
  BY <1>3, FallbackGateCaps DEF DeliverJudgeRound
<1>4. QED
  BY <1>2, <1>3

\* A retry is one round more, and the loop counts it.
LEMMA RetryOrGateCaps ==
  ASSUME NEW loop, NEW b, NEW ls, Counted(loop, b, ls), RetryOrGate(loop, b, ls)
  PROVE  CInv'
<1> DEFINE row == NewRow(loop.builder, loop.orig)
           next == [loop EXCEPT !.phase = "build", !.round = @ + 1]
           o == loop.orig
           k == Len(b) + 1
<1>1. /\ Sound(b, ls) /\ Within(b, ls) /\ Flying(ls, o) = {} /\ o \in DOMAIN b
      /\ loop \in Loop /\ Counts(loop, b) /\ loop.builder = b[o].to /\ b \in Seq(Row)
  BY DEF Counted, Holding, Held, Nowhere, Sound
<1>2. CASE FallbackGate(loop, b, ls)
  BY <1>2, FallbackGateCaps
<1>3. CASE /\ ~(loop.round >= Cap[loop.builder])
           /\ board' = Append(b, row) /\ loops' = Put(ls, k, next)
  <2>1. loop.builder \in Roles /\ o \in Nat /\ loop.round \in Nat
    BY <1>1 DEF Loop, TaskId
  <2>2. row \in Row /\ row.loop = o /\ row.to = loop.builder
    BY <2>1, NewRowTyped
  <2>3. next.orig = o /\ next.round = loop.round + 1 /\ next.builder = loop.builder
    BY <1>1 DEF Loop
  <2>4. Cap[loop.builder] \in Nat
    BY <2>1, RolesAssumption
  <2>5. board' = Append(b, row) /\ loops' = Put(ls, k, next) /\ loop.round + 1 <= Cap[loop.builder]
    BY <1>3, <2>1, <2>4
  <2> HIDE DEF row, next
  <2>6. Rounds(Append(b, row), o) = Rounds(b, o) \cup {k}
    BY <1>1, <2>2, RoundsAppend
  <2>7. k \notin Rounds(b, o)
    BY <1>1, AppendRow, <2>2 DEF Rounds
  <2> HIDE DEF k
  <2>8. Cardinality(Rounds(Append(b, row), o)) = Cardinality(Rounds(b, o)) + 1
        /\ Cardinality(Rounds(b, o)) \in Nat
    BY <1>1, <2>6, <2>7, RoundsFinite, FS_AddElement
  <2>9. Cardinality(Rounds(b, o)) <= loop.round
    BY <1>1 DEF Counts
  <2> HIDE DEF o
  <2>10. Counts(next, Append(b, row))
    BY <2>1, <2>3, <2>5, <2>8, <2>9 DEF Counts
  <2>11. Within(Append(b, row), Put(ls, Len(b) + 1, next))
    BY <1>1, <2>2, <2>3, <2>10, RoundWithin
  <2>12. QED
    BY <2>5, <2>11 DEF CInv, k
<1>4. QED
  BY <1>2, <1>3 DEF RetryOrGate, DeliverRetryRound

LEMMA PassCaps ==
  ASSUME NEW loop, NEW by, NEW b, NEW ls, NEW ah, Counted(loop, b, ls), Pass(loop, by, b, ls, ah)
  PROVE  CInv'
BY DEF Counted, Pass, CInv

LEMMA ScoreVerdictCaps ==
  ASSUME NEW loop, NEW id, NEW b, NEW ls, NEW ah, Counted(loop, b, ls),
         ScoreVerdict(loop, id, b, ls, ah)
  PROVE  CInv'
BY FallbackGateCaps, PassCaps, RetryOrGateCaps DEF ScoreVerdict

LEMMA FromDrop == ASSUME NEW ls, NEW id PROVE From(Drop(ls, id), ls)
BY DEF From, Drop

LEMMA FromItself == ASSUME NEW ls PROVE From(ls, ls)
BY DEF From

\* To take up a loop with all its counts
LEMMA TakeCounts ==
  ASSUME IInv, CInv, NEW id \in DOMAIN loops, NEW b, Alike(board, b),
         Holding(loops[id], b, Drop(loops, id))
  PROVE  Counted(loops[id], b, Drop(loops, id))
<1>1. Sound(board, loops)
  BY SoundAtHand
<1>2. Within(b, Drop(loops, id))
  BY <1>1, FromDrop, AlikeWithin DEF CInv
<1>3. loops[id].orig \in DOMAIN board /\ board[loops[id].orig].to = loops[id].builder
  BY DEF IInv, LoopOnItsTask, OnTask
<1>4. loops[id].builder = b[loops[id].orig].to
  BY <1>3 DEF Alike
<1>5. Rounds(b, loops[id].orig) = Rounds(board, loops[id].orig)
  BY <1>3 DEF Alike, Rounds
<1>6. Counts(loops[id], b)
  BY <1>5 DEF CInv, Within, Counts
<1>7. QED
  BY <1>2, <1>4, <1>6 DEF Counted

LEMMA UpdateAlike ==
  ASSUME NEW b \in Seq(Row), NEW id \in DOMAIN b,
         NEW row \in Row, row.to = b[id].to, row.loop = b[id].loop
  PROVE  [b EXCEPT ![id] = row] \in Seq(Row) /\ Alike(b, [b EXCEPT ![id] = row])
<1> DEFINE B == [b EXCEPT ![id] = row]
<1>1. /\ B \in Seq(Row) /\ DOMAIN B = DOMAIN b /\ B[id] = row
      /\ \A n \in DOMAIN b \ {id} : B[n] = b[n]
  BY UpdateRow
<1> HIDE DEF B
<1>2. Alike(b, B)
  BY <1>1 DEF Alike
<1>3. QED
  BY <1>1, <1>2 DEF B

LEMMA ResolveAlike ==
  ASSUME NEW b \in Seq(Row), NEW id \in DOMAIN b
  PROVE  Alike(b, Resolve(b, id))
<1> DEFINE row == [b[id] EXCEPT !.done = TRUE, !.snap = FALSE]
<1>0. b[id] \in Row
  OBVIOUS
<1>1. row \in Row /\ row.to = b[id].to /\ row.loop = b[id].loop
  BY <1>0 DEF Row
<1>2. Resolve(b, id) = [b EXCEPT ![id] = row]
  BY DEF Resolve
<1> HIDE DEF row
<1>3. QED
  BY <1>1, <1>2, UpdateAlike

LEMMA ReportAlike ==
  ASSUME IInv, NEW id \in DOMAIN board, NEW b, b = [board EXCEPT ![id].reports = @ + 1]
  PROVE  Alike(board, b) /\ Alike(board, Resolve(b, id))
<1> DEFINE row == [board[id] EXCEPT !.reports = @ + 1]
<1>1. board \in Seq(Row) /\ board[id] \in Row
  BY SoundAtHand DEF Sound
<1>2. row \in Row /\ row.to = board[id].to /\ row.loop = board[id].loop
  BY <1>1, ReportCounted
<1> DEFINE B == [board EXCEPT ![id] = row]
<1>3. b = B
  OBVIOUS
<1> HIDE DEF row
<1>4. B \in Seq(Row) /\ Alike(board, B)
  BY <1>1, <1>2, UpdateAlike
<1> HIDE DEF B
<1>5. id \in DOMAIN B
  BY <1>4 DEF Alike
<1>6. Alike(B, Resolve(B, id))
  BY <1>4, <1>5, ResolveAlike
<1>7. Alike(board, B) /\ Alike(board, Resolve(B, id))
  BY <1>4, <1>6 DEF Alike
<1>8. QED
  BY <1>3, <1>7

LEMMA AlikeCaps ==
  ASSUME IInv, CInv, Alike(board, board'), From(loops', loops)
  PROVE  CInv'
<1>1. Sound(board, loops)
  BY SoundAtHand
<1>2. QED
  BY <1>1, AlikeWithin DEF CInv

LEMMA JudgedDoneCaps ==
  ASSUME IInv, AInv, CInv, NEW id \in DOMAIN loops,
         NEW b, b = [board EXCEPT ![id].reports = @ + 1], NEW ah, JudgedDone(id, b, ah)
  PROVE  CInv'
<1> DEFINE loop == loops[id]
           rest == Drop(loops, id)
           done == Resolve(b, id)
<1>1. id \in DOMAIN board /\ gates \in Seq(Gate) /\ loop \in Loop
  BY SoundAtHand DEF Sound, TypeOK
<1>2. /\ Accounted(done, loops, gates, settled)
      /\ Sound(done, loops) /\ ~done[id].snap
  BY <1>1, ReportAccounts
<1>3. Alike(board, done)
  BY <1>1, ReportAlike
<1> HIDE DEF done
<1>4. Holding(loop, done, rest)
  BY <1>1, <1>2, SoundDrop, TakeFlight DEF Holding
<1>5. Counted(loop, done, rest)
  BY <1>3, <1>4, TakeCounts
<1>6. CASE BuildDone(loop, id, done, rest)
  <2>1. CASE loop.builder \in Checked
    <3> DEFINE next == [loop EXCEPT !.phase = "check"]
    <3>1. board' = done /\ loops' = Put(rest, id, next)
      BY <1>6, <2>1 DEF BuildDone
    <3>2. next.orig = loop.orig /\ next.round = loop.round /\ next.builder = loop.builder
      BY <1>1 DEF Loop
    <3> HIDE DEF next
    <3>3. From(loops', loops)
      BY <3>1, <3>2 DEF From, Put, Drop
    <3>4. QED
      BY <1>3, <3>1, <3>3, AlikeCaps
  <2>2. CASE loop.builder \notin Checked
    BY <1>5, <1>6, <2>2, DeliverJudgeRoundCaps DEF BuildDone
  <2>3. QED
    BY <2>1, <2>2
<1>7. QED
  BY <1>5, <1>6, FallbackGateCaps, ScoreVerdictCaps DEF JudgedDone, done

LEMMA WorkDoneCaps ==
  ASSUME IInv, AInv, CInv, NEW id \in DOMAIN board, WorkDone(id)
  PROVE  CInv'
<1> DEFINE b == [board EXCEPT ![id].reports = @ + 1]
<1>1. Alike(board, b) /\ Alike(board, Resolve(b, id))
  BY ReportAlike
<1>2. CASE loops' = loops /\ (board' = b \/ board' = Resolve(b, id))
  BY <1>1, <1>2, FromItself, AlikeCaps
<1>3. CASE \E ah : id \in DOMAIN loops /\ JudgedDone(id, b, ah)
  BY <1>3, JudgedDoneCaps
<1> HIDE DEF b
<1>4. QED
  BY <1>2, <1>3 DEF WorkDone, PlainDone, b

LEMMA FinishCheckCaps ==
  ASSUME IInv, AInv, CInv, NEW id \in checks, FinishCheck(id)
  PROVE  CInv'
<1> DEFINE loop == loops[id]
           rest == Drop(loops, id)
<1>1. CASE id \in DOMAIN loops /\ loops[id].phase = "check"
  <2>1. Sound(board, loops) /\ gates \in Seq(Gate) /\ loop \in Loop /\ id \in DOMAIN board
    BY <1>1, SoundAtHand DEF Sound, TypeOK
  <2>2. ~board[id].snap
    BY <1>1, <2>1, WaitedFor DEF AInv, Accounted, Placed, RowsPlaced
  <2>3. Holding(loop, board, rest)
    BY <1>1, <2>1, <2>2, SoundDrop, TakeFlight DEF Holding, AInv
  <2>4. Counted(loop, board, rest)
    BY <1>1, <2>3, TakeCounts DEF Alike
  <2>5. QED
    BY <1>1, <2>4, FallbackGateCaps, DeliverJudgeRoundCaps, PassCaps, RetryOrGateCaps
       DEF FinishCheck
<1>2. CASE ~(id \in DOMAIN loops /\ loops[id].phase = "check")
  BY <1>2 DEF FinishCheck, CInv
<1>3. QED
  BY <1>1, <1>2

\* A timeout, an exit and a ruling end loops and start none.
LEMMA TimeoutCaps ==
  ASSUME IInv, CInv, NEW id \in DOMAIN board, Timeout(id)
  PROVE  CInv'
<1> DEFINE row == [board[id] EXCEPT !.timedOut = TRUE]
           b == [board EXCEPT ![id] = row]
<1>1. board \in Seq(Row) /\ board[id] \in Row
  BY SoundAtHand DEF Sound
<1>2. row \in Row /\ row.to = board[id].to /\ row.loop = board[id].loop
  BY <1>1 DEF Row
<1>3. board' = b
  BY DEF Timeout, FallbackGate
<1> HIDE DEF row
<1>4. Alike(board, b)
  BY <1>1, <1>2, UpdateRow DEF Alike
<1>5. From(loops', loops)
  BY FromDrop, FromItself DEF Timeout, FallbackGate
<1>6. QED
  BY <1>3, <1>4, <1>5, AlikeCaps

LEMMA HandOverCaps ==
  ASSUME IInv, CInv, NEW r \in Roles, HandOver(r)
  PROVE  CInv'
<1> DEFINE id == Len(board) + 1
           loop == [orig |-> id, builder |-> r, round |-> 1, phase |-> "build"]
           row == NewRow(r, IF Judged(r) THEN id ELSE 0)
<1>1. Sound(board, loops)
  BY SoundAtHand
<1>2. id \in Nat \ {0}
  BY <1>1, AppendRow DEF Sound
<1>3. row \in Row /\ row.loop = (IF Judged(r) THEN id ELSE 0) /\ row.to = r
  BY <1>2, NewRowTyped
<1>4. loop.orig = id /\ loop.round = 1 /\ loop.builder = r
  OBVIOUS
<1>5. board' = Append(board, row)
  BY DEF HandOver
<1>6. loops' = IF row.loop = 0 THEN loops ELSE Put(loops, id, loop)
  BY <1>2, <1>3 DEF HandOver
<1> HIDE DEF row, loop
<1>7. QED
  BY <1>1, <1>3, <1>4, <1>5, <1>6, FirstWithin DEF CInv

LEMMA PaneClosedCaps ==
  ASSUME IInv, CInv, NEW r \in Roles, PaneClosed(r)
  PROVE  CInv'
<1>1. board' = board
  BY DEF PaneClosed
<1>2. From(loops', loops)
  <2>1. CASE loops' = loops
    BY <2>1, FromItself
  <2>2. CASE FailLoopsFor(r)
    BY <2>2 DEF FailLoopsFor, From
  <2>3. QED
    BY <2>1, <2>2 DEF PaneClosed
<1>3. Alike(board, board')
  BY <1>1 DEF Alike
<1>4. QED
  BY <1>2, <1>3, AlikeCaps

LEMMA NextCaps == IInv /\ AInv /\ CInv /\ [Next]_vars => CInv'
<1>1. SUFFICES ASSUME IInv, AInv, CInv, [Next]_vars PROVE CInv'
  OBVIOUS
<1>2. CASE UNCHANGED <<board, loops>>
  BY <1>1, <1>2 DEF CInv
<1>3. ASSUME NEW r \in Targets, Delegate(r) PROVE CInv'
  BY <1>1, <1>2, <1>3, HandOverCaps, RolesAssumption DEF Delegate
<1>4. ASSUME NEW id \in DOMAIN board, WorkDone(id) PROVE CInv'
  BY <1>1, <1>4, WorkDoneCaps
<1>5. ASSUME NEW id \in DOMAIN board, Timeout(id) PROVE CInv'
  BY <1>1, <1>5, TimeoutCaps
<1>6. ASSUME NEW id \in checks, FinishCheck(id) PROVE CInv'
  BY <1>1, <1>6, FinishCheckCaps
<1>7. ASSUME NEW r \in Roles, PaneClosed(r) PROVE CInv'
  BY <1>1, <1>7, PaneClosedCaps
<1>8. CASE ApproveGate
  <2>1. gates \in Seq(Gate) /\ gates # <<>>
    BY <1>1, <1>8, SoundAtHand DEF ApproveGate
  <2>2. Head(gates).to \in Roles
    <3>1. Head(gates) \in Gate
      BY <2>1
    <3>2. QED
      BY <3>1 DEF Gate
  <2>3. UNCHANGED <<board, loops>> \/ HandOver(Head(gates).to)
    BY <1>8 DEF ApproveGate
  <2>4. QED
    BY <1>1, <1>2, <2>2, <2>3, HandOverCaps
<1>9. CASE RejectGate \/ (\E r \in Roles : Die(r) \/ Restart(r)) \/ GatewayFlip \/ UNCHANGED vars
  BY <1>2, <1>9 DEF RejectGate, Die, Restart, GatewayFlip, vars
<1>10. QED
  BY <1>1, <1>3, <1>4, <1>5, <1>6, <1>7, <1>8, <1>9 DEF Next

\* judge_rounds is a cap: failed checks and failed verdicts together never take a
\* delegation to its builder more often, whatever reports, results, timeouts and
\* exits race (RetryOrGate counts what the board shows).
THEOREM RoundsAreCapped == Spec => []RoundsCapped
<1>1. Spec => []AInv
  BY Invariance, InitAccounts, NextAccounts, PTL DEF Spec
<1>2. Init => CInv
  <2>1. SUFFICES ASSUME Init PROVE CInv
    OBVIOUS
  <2>2. DOMAIN board = {} /\ DOMAIN loops = {}
    BY <2>1 DEF Init
  <2>3. QED
    BY <2>2 DEF CInv, Within, Linked
<1>3. Spec => []CInv
  BY Invariance, <1>1, <1>2, NextCaps, PTL DEF Spec
<1>4. CInv => RoundsCapped
  BY DEF CInv, Within, Rounds, RoundsCapped
<1>5. QED
  BY <1>3, <1>4, PTL

-----------------------------------------------------------------------------
(* Reports and where they go.  The deck believes every report of an id: a  *)
(* row may be reported again, also when its round is over.  What the first *)
(* report of a row settles, and what only one sent again can, is told here.*)

\* n is a round of its loop's builder
RoundOf(b, n) == b[n].loop # 0 /\ b[n].to = b[b[n].loop].to

\* A round of a loop's builder that has not been reported is still in the map.
Owes(b, n) == RoundOf(b, n) /\ b[n].reports = 0

Repeated(row) == row.reports \notin {0, 1}

\* A row is closed by its report.
RowsTold(b, ls) ==
  \A n \in DOMAIN b : /\ b[n].done => b[n].reports # 0
                      /\ b[n].loop # 0 => b[n].loop \in DOMAIN b
                      /\ Owes(b, n) => n \in DOMAIN ls

\* A gate is about a task of the role it names: a fallback gate about a loop, an
\* ownership gate about a task that has been reported.
GateTold(b, g) ==
  g.kind # "entry" =>
    /\ g.id \in DOMAIN b
    /\ g.to = b[g.id].to
    /\ g.kind = "fallback" => b[g.id].loop = g.id
    /\ g.kind = "ownership" => b[g.id].reports # 0

\* The report that passed task id is the verdict of its judge, or one its checked
\* builder sent again.
PassTold(b, id, by) ==
  /\ by \in DOMAIN b
  /\ b[by].loop = id
  /\ \/ b[by].to = Judge[b[id].to] /\ b[by].done /\ ~b[by].timedOut
     \/ b[by].to = b[id].to /\ b[id].to \in Checked /\ Repeated(b[by])

\* What the history says is so on the board.
FactTold(b, e) ==
  /\ e.id \in DOMAIN b
  /\ e.how = "report" => ~RoundOf(b, e.id) \/ Repeated(b[e.id])
  /\ e.how = "passed" /\ Judge[b[e.id].to] # NoRole => PassTold(b, e.id, e.by)
  /\ Accepted(e) /\ b[e.id].loop # e.id => b[e.id].reports # 0

Told(b, ls, gs, st) ==
  /\ RowsTold(b, ls)
  /\ \A i \in DOMAIN gs : GateTold(b, gs[i])
  /\ \A e \in st : FactTold(b, e)

RInv == Told(board, loops, gates, settled)

\* Rows age: they are delivered, reported, closed, and overdue only while open.
RowAged(q, r) ==
  /\ r.to = q.to /\ r.loop = q.loop
  /\ q.reports # 0 => r.reports # 0
  /\ Repeated(q) => Repeated(r)
  /\ q.done => r.done /\ r.timedOut = q.timedOut

Aged(b, c) ==
  /\ DOMAIN b \subseteq DOMAIN c
  /\ \A n \in DOMAIN b : RowAged(b[n], c[n])

\* What is told of a gate or a fact stays so as the board ages.
LEMMA AgedGate ==
  ASSUME NEW b, NEW c, Aged(b, c), NEW g, GateTold(b, g)
  PROVE  GateTold(c, g)
BY DEF Aged, RowAged, GateTold

LEMMA AgedFact ==
  ASSUME NEW b, NEW c, Aged(b, c), NEW ls, RowsTold(b, ls), NEW e, FactTold(b, e)
  PROVE  FactTold(c, e)
<1>1. e.id \in DOMAIN b /\ RowAged(b[e.id], c[e.id])
  BY DEF Aged, FactTold
<1>2. b[e.id].loop # 0 => RowAged(b[b[e.id].loop], c[b[e.id].loop])
  BY <1>1 DEF RowsTold, Aged
<1>3. e.how = "report" => ~RoundOf(c, e.id) \/ Repeated(c[e.id])
  BY <1>1, <1>2 DEF FactTold, RowAged, RoundOf
<1>4. ASSUME e.how = "passed", Judge[c[e.id].to] # NoRole PROVE PassTold(c, e.id, e.by)
  <2>1. c[e.id].to = b[e.id].to
    BY <1>1 DEF RowAged
  <2>2. PassTold(b, e.id, e.by)
    BY <1>4, <2>1 DEF FactTold
  <2>3. RowAged(b[e.by], c[e.by]) /\ e.by \in DOMAIN c
    BY <2>2 DEF Aged, PassTold
  <2>4. QED
    BY <2>1, <2>2, <2>3 DEF RowAged, PassTold
<1>5. Accepted(e) /\ c[e.id].loop # e.id => c[e.id].reports # 0
  BY <1>1 DEF FactTold, RowAged
<1>6. e.id \in DOMAIN c
  BY <1>1 DEF Aged
<1>7. QED
  BY <1>3, <1>4, <1>5, <1>6 DEF FactTold

-----------------------------------------------------------------------------
(* What a step does to the work.  A handler ages rows of the board and     *)
(* takes loops out of the map, leaving board c, map ms and branches ah;    *)
(* then it does one thing with what it holds.                              *)

\* The rows whose report just came, the first or one sent again
JustReported(c) == {n \in DOMAIN board : board[n].reports = 0 \/ Repeated(c[n])}

Prepared(c, ms, ah) ==
  /\ c \in Seq(Row)
  /\ DOMAIN c = DOMAIN board
  /\ Aged(board, c)
  /\ RowsTold(c, ms)
  /\ \A r \in Roles : ah[r] \subseteq ahead[r] \cup JustReported(c)

\* No plain task is closed.
PlainSame(c) == \A n \in DOMAIN board : board[n].loop = 0 => c[n].done = board[n].done

\* Nothing more
Still(c, ms, ah) ==
  board' = c /\ loops' = ms /\ gates' = gates /\ settled' = settled /\ Refuse(ah) /\ PlainSame(c)

\* A delivery, from the oldest gate if the user approved it
Grown(c, ms, ah) ==
  /\ \E row \in Row :
       /\ board' = Append(c, row)
       /\ ~row.done /\ row.reports = 0
       /\ row.loop = 0 \/ (row.loop \in DOMAIN board' /\ Len(c) + 1 \in DOMAIN loops')
  /\ DOMAIN ms \subseteq DOMAIN loops'
  /\ \/ gates' = gates
     \/ gates # <<>> /\ Head(gates).kind = "entry" /\ gates' = Tail(gates)
  /\ settled' = settled
  /\ Refuse(ah)
  /\ PlainSame(c)

\* Entry or fallback gates queued
Gated(c, ms, ah) ==
  /\ \E more \in Seq(Gate) :
       /\ gates' = gates \o more
       /\ \A i \in DOMAIN more : more[i].kind \in {"entry", "fallback"} /\ GateTold(c, more[i])
  /\ board' = c /\ loops' = ms /\ settled' = settled
  /\ Refuse(ah)
  /\ PlainSame(c)

\* A loop passes.
Passed(c, ms, ah) ==
  /\ \E e : /\ e.how = "passed" /\ FactTold(c, e) /\ c[e.id].loop # 0
            /\ settled' = settled \cup {e}
            /\ QueueMerge(c[e.id].to, e.id, gates, ah)
  /\ board' = c /\ loops' = ms
  /\ PlainSame(c)

\* The report of a task no loop waits for: it closes the row, unless an earlier one
\* has, and is told, or held at an ownership gate.
ClosesOnly(c, id) ==
  /\ id \in DOMAIN board
  /\ c[id].done /\ (board[id].done => Repeated(c[id]))
  /\ \A n \in DOMAIN board \ {id} : c[n].done = board[n].done

ReportTold(c, ms, ah) ==
  /\ \E e : /\ e.how = "report" /\ FactTold(c, e) /\ ClosesOnly(c, e.id)
            /\ settled' = settled \cup {e}
            /\ QueueMerge(c[e.id].to, e.id, gates, ah)
  /\ board' = c /\ loops' = ms

ReportHeld(c, ms, ah) ==
  /\ \E g \in Gate : /\ g.kind = "ownership" /\ GateTold(c, g) /\ ClosesOnly(c, g.id)
                     /\ gates' = Append(gates, g)
  /\ board' = c /\ loops' = ms /\ settled' = settled
  /\ Refuse(ah)

\* The user answers the oldest gate, of whatever kind.
Answer == gates # <<>> /\ board' = board /\ loops' = loops

EntryDropped ==
  /\ Answer
  /\ Head(gates).kind = "entry"
  /\ gates' = Tail(gates) /\ settled' = settled /\ Refuse(ahead)

WorkAccepted ==
  /\ Answer
  /\ Head(gates).kind \in {"fallback", "ownership"}
  /\ settled' = settled \cup {[how |-> "accepted", id |-> Head(gates).id, by |-> 0, told |-> Up(Start)]}
  /\ QueueMerge(Head(gates).to, Head(gates).id, Tail(gates), ahead)

WorkRejected ==
  /\ Answer
  /\ Head(gates).kind \in {"fallback", "ownership"}
  /\ settled' = settled \cup {[how |-> "rejected", id |-> Head(gates).id, by |-> 0, told |-> Up(Start)]}
  /\ gates' = Tail(gates) /\ Refuse(ahead)

MergeRuled ==
  /\ Answer
  /\ Head(gates).kind = "merge"
  /\ settled' = settled \cup {[how |-> "merge-ruled", id |-> Head(gates).id, by |-> 0, told |-> Up(Start)]}
  /\ gates' = Tail(gates)
  /\ Land(Head(gates).to, ahead) \/ Refuse(ahead)

Handles(c, ms, ah) ==
  /\ Prepared(c, ms, ah)
  /\ \/ Still(c, ms, ah) \/ Grown(c, ms, ah) \/ Gated(c, ms, ah)
     \/ Passed(c, ms, ah) \/ ReportTold(c, ms, ah) \/ ReportHeld(c, ms, ah)

StepKind ==
  \/ \E c, ms, ah : Handles(c, ms, ah)
  \/ EntryDropped \/ WorkAccepted \/ WorkRejected \/ MergeRuled

LEMMA GatedOne ==
  ASSUME gates \in Seq(Gate), NEW c, NEW ms, NEW ah, NEW g \in Gate,
         g.kind \in {"entry", "fallback"}, GateTold(c, g), gates' = Append(gates, g),
         board' = c, loops' = ms, settled' = settled, Refuse(ah), PlainSame(c)
  PROVE  Gated(c, ms, ah)
<1> DEFINE more == <<g>>
<1>1. more \in Seq(Gate) /\ gates' = gates \o more /\ DOMAIN more = {1} /\ more[1] = g
  OBVIOUS
<1> HIDE DEF more
<1>2. QED
  BY <1>1 DEF Gated

\* A row that is delivered anew owes its report.
LEMMA GrownOne ==
  ASSUME NEW c \in Seq(Row), NEW ms, NEW ah, NEW r \in Roles, NEW o \in Nat,
         board' = Append(c, NewRow(r, o)), o = 0 \/ o \in DOMAIN c \cup {Len(c) + 1},
         NEW loop, loops' = IF o = 0 THEN ms ELSE Put(ms, Len(c) + 1, loop),
         \/ gates' = gates
         \/ gates # <<>> /\ Head(gates).kind = "entry" /\ gates' = Tail(gates),
         settled' = settled, Refuse(ah), PlainSame(c)
  PROVE  Grown(c, ms, ah)
<1> DEFINE row == NewRow(r, o)
<1>1. row \in Row /\ ~row.done /\ row.reports = 0 /\ row.loop = o
  BY NewRowTyped DEF NewRow
<1>2. DOMAIN board' = DOMAIN c \cup {Len(c) + 1}
  BY <1>1, AppendRow
<1>3. /\ DOMAIN ms \subseteq DOMAIN loops'
      /\ o = 0 \/ Len(c) + 1 \in DOMAIN loops'
  BY DEF Put
<1>4. row \in Row /\ board' = Append(c, row) /\ ~row.done /\ row.reports = 0
      /\ (row.loop = 0 \/ (row.loop \in DOMAIN board' /\ Len(c) + 1 \in DOMAIN loops'))
  BY <1>1, <1>2, <1>3
<1> HIDE DEF row
<1>5. QED
  BY <1>3, <1>4 DEF Grown

\* A handler that sends its loop on delivers a round or queues a gate.
LEMMA MovesOn ==
  ASSUME gates \in Seq(Gate), NEW c \in Seq(Row), NEW ms, NEW ah, Refuse(ah), PlainSame(c),
         NEW loop, InHand(loop, c), c[loop.orig].loop = loop.orig,
         \/ FallbackGate(loop, c, ms)
         \/ DeliverJudgeRound(loop, c, ms)
         \/ RetryOrGate(loop, c, ms)
  PROVE  Grown(c, ms, ah) \/ Gated(c, ms, ah)
<1>1. /\ loop.builder \in Roles /\ loop.orig \in Nat \ {0} /\ loop.orig \in DOMAIN c
      /\ c[loop.orig].to = loop.builder
  BY DEF InHand, Loop, TaskId
<1>2. CASE FallbackGate(loop, c, ms)
  <2> DEFINE g == [kind |-> "fallback", to |-> loop.builder, id |-> loop.orig]
  <2>1. g \in Gate /\ g.kind = "fallback" /\ g.to = loop.builder /\ g.id = loop.orig
    BY <1>1, GateTyped DEF TaskId
  <2>2. /\ gates' = Append(gates, g) /\ board' = c /\ loops' = ms /\ settled' = settled
    BY <1>2 DEF FallbackGate
  <2> HIDE DEF g
  <2>3. GateTold(c, g)
    BY <1>1, <2>1 DEF GateTold
  <2>4. QED
    BY <2>1, <2>2, <2>3, GatedOne
<1>3. CASE DeliverJudgeRound(loop, c, ms) /\ ~FallbackGate(loop, c, ms)
  <2> DEFINE judge == Judge[loop.builder]
             next == [loop EXCEPT !.phase = "judge"]
  <2>1. /\ judge # NoRole
        /\ board' = Append(c, NewRow(judge, loop.orig))
        /\ loops' = Put(ms, Len(c) + 1, next)
        /\ gates' = gates /\ settled' = settled
    BY <1>3 DEF DeliverJudgeRound
  <2>2. judge \in Roles
    BY <1>1, <2>1, RolesAssumption
  <2> HIDE DEF next, judge
  <2>3. QED
    BY <1>1, <2>1, <2>2, GrownOne
<1>4. CASE RetryOrGate(loop, c, ms) /\ ~FallbackGate(loop, c, ms)
  <2> DEFINE next == [loop EXCEPT !.phase = "build", !.round = @ + 1]
  <2>1. /\ board' = Append(c, NewRow(loop.builder, loop.orig))
        /\ loops' = Put(ms, Len(c) + 1, next)
        /\ gates' = gates /\ settled' = settled
    BY <1>4 DEF RetryOrGate, DeliverRetryRound
  <2> HIDE DEF next
  <2>2. QED
    BY <1>1, <2>1, GrownOne
<1>5. QED
  BY <1>2, <1>3, <1>4

LEMMA Unprepared ==
  ASSUME IInv, RInv
  PROVE  Prepared(board, loops, ahead) /\ PlainSame(board)
<1>1. Aged(board, board)
  BY DEF Aged, RowAged
<1>2. QED
  BY <1>1 DEF Prepared, PlainSame, RInv, Told, IInv, TypeOK

\* The board with one more report of id
OneMore(id) == [board EXCEPT ![id].reports = @ + 1]

\* The rows of a board that has had one row reported, or reported and closed
LEMMA ReportAges ==
  ASSUME IInv, RInv, NEW id \in DOMAIN board,
         NEW b, b = OneMore(id),
         NEW c, c \in {b, Resolve(b, id)}
  PROVE  /\ c \in Seq(Row) /\ DOMAIN c = DOMAIN board /\ Aged(board, c)
         /\ \A n \in DOMAIN board \ {id} : c[n] = board[n]
         /\ c[id].reports # 0 /\ (board[id].reports # 0 => Repeated(c[id]))
         /\ board[id].done => board[id].reports # 0
         /\ c[id].to = board[id].to /\ c[id].loop = board[id].loop
         /\ c[id].timedOut = board[id].timedOut
         /\ c = Resolve(b, id) => c[id].done
         /\ c = b => c[id].done = board[id].done
<1> DEFINE row == [board[id] EXCEPT !.reports = @ + 1]
           fin == [b[id] EXCEPT !.done = TRUE, !.snap = FALSE]
<1>1. board \in Seq(Row) /\ board[id] \in Row
  BY DEF IInv, TypeOK
<1>2. /\ board[id].done => board[id].reports # 0
      /\ board[id].done \in BOOLEAN
  BY <1>1 DEF RInv, Told, RowsTold, Row
<1>3. row \in Row /\ row.to = board[id].to /\ row.loop = board[id].loop
      /\ row.done = board[id].done /\ row.timedOut = board[id].timedOut
      /\ row.reports # 0 /\ (board[id].reports # 0 => Repeated(row))
  <2>1. /\ board[id].reports + 1 \in Nat /\ board[id].reports + 1 # 0
        /\ board[id].reports # 0 => board[id].reports + 1 \notin {0, 1}
    BY <1>1 DEF Row
  <2>2. row.reports = board[id].reports + 1
    BY <1>1 DEF Row
  <2>3. QED
    BY <1>1, <2>1, <2>2 DEF Row, Repeated
<1>4. b = [board EXCEPT ![id] = row]
  BY DEF OneMore
<1> HIDE DEF row
<1>5. b \in Seq(Row) /\ DOMAIN b = DOMAIN board /\ b[id] = row
      /\ \A n \in DOMAIN board \ {id} : b[n] = board[n]
  BY <1>1, <1>3, <1>4, UpdateRow
<1>6. fin.to = row.to /\ fin.loop = row.loop /\ fin.done /\ fin.timedOut = row.timedOut
      /\ fin.reports = row.reports
  BY <1>3, <1>5 DEF Row
<1>7. Resolve(b, id) \in Seq(Row) /\ DOMAIN Resolve(b, id) = DOMAIN board
      /\ Resolve(b, id)[id] = fin
      /\ \A n \in DOMAIN board \ {id} : Resolve(b, id)[n] = board[n]
  <2>1. fin \in Row /\ Resolve(b, id) = [b EXCEPT ![id] = fin]
    BY <1>3, <1>5 DEF Row, Resolve
  <2> HIDE DEF fin
  <2>2. QED
    BY <1>5, <2>1, UpdateRow
<1> HIDE DEF fin
<1>8. /\ c \in Seq(Row) /\ DOMAIN c = DOMAIN board /\ c[id] \in {row, fin}
      /\ \A n \in DOMAIN board \ {id} : c[n] = board[n]
      /\ c = Resolve(b, id) => c[id] = fin
      /\ c = b => c[id] = row
  BY <1>5, <1>7
<1>9. /\ c[id].to = board[id].to /\ c[id].loop = board[id].loop
      /\ c[id].timedOut = board[id].timedOut
      /\ c[id].reports # 0 /\ (board[id].reports # 0 => Repeated(c[id]))
      /\ board[id].done => c[id].done
  BY <1>3, <1>6, <1>8 DEF Repeated
<1>10. Aged(board, c)
  <2>1. RowAged(board[id], c[id])
    BY <1>9 DEF RowAged, Repeated
  <2>2. \A n \in DOMAIN board \ {id} : RowAged(board[n], c[n])
    BY <1>8 DEF RowAged
  <2>3. QED
    BY <1>8, <2>1, <2>2 DEF Aged
<1>11. (c = Resolve(b, id) => c[id].done) /\ (c = b => c[id].done = board[id].done)
  BY <1>3, <1>6, <1>8
<1>12. QED
  BY <1>2, <1>8, <1>9, <1>10, <1>11

\* Rows that age on a map that has lost only loops nothing is owed to
LEMMA AgedRows ==
  ASSUME NEW b, NEW c, Aged(b, c), DOMAIN c = DOMAIN b,
         \A n \in DOMAIN b : c[n].done => b[n].done \/ c[n].reports # 0,
         NEW ls, RowsTold(b, ls), NEW ms, \A n \in DOMAIN ls \ DOMAIN ms : ~Owes(c, n)
  PROVE  RowsTold(c, ms)
<1>1. ASSUME NEW n \in DOMAIN b
      PROVE  /\ c[n].done => c[n].reports # 0
             /\ c[n].loop # 0 => c[n].loop \in DOMAIN c
             /\ Owes(c, n) => n \in DOMAIN ms
  <2>1. RowAged(b[n], c[n]) /\ (b[n].loop # 0 => b[n].loop \in DOMAIN b)
    BY DEF Aged, RowsTold
  <2>2. b[n].loop # 0 => RowAged(b[b[n].loop], c[b[n].loop])
    BY <2>1 DEF Aged
  <2>3. Owes(c, n) => Owes(b, n)
    BY <2>1, <2>2 DEF Owes, RoundOf, RowAged
  <2>4. Owes(c, n) => n \in DOMAIN ms
    BY <2>3 DEF RowsTold
  <2>5. c[n].done => c[n].reports # 0
    BY <2>1 DEF RowsTold, RowAged
  <2>6. QED
    BY <2>1, <2>4, <2>5 DEF RowAged
<1>2. QED
  BY <1>1 DEF RowsTold

LEMMA JudgedDoneKind ==
  ASSUME IInv, AInv, RInv, NEW id \in DOMAIN loops,
         NEW b, b = OneMore(id), NEW ah,
         \A r \in Roles : ah[r] \subseteq ahead[r] \cup {id},
         JudgedDone(id, b, ah)
  PROVE  \E c, ms : Handles(c, ms, ah)
<1> DEFINE loop == loops[id]
           rest == Drop(loops, id)
           done == Resolve(b, id)
<1>1. /\ loop \in Loop /\ id \in DOMAIN board /\ OnTask(loop, id, board, checks)
      /\ gates \in Seq(Gate)
  BY DEF IInv, TypeOK, LoopOnItsTask
<1>2. /\ done \in Seq(Row) /\ DOMAIN done = DOMAIN board /\ Aged(board, done)
      /\ \A n \in DOMAIN board \ {id} : done[n] = board[n]
      /\ done[id].reports # 0 /\ done[id].done
      /\ board[id].reports # 0 => Repeated(done[id])
      /\ board[id].done => board[id].reports # 0
      /\ done[id].to = board[id].to /\ done[id].loop = board[id].loop
      /\ done[id].timedOut = board[id].timedOut
  <2>1. done = Resolve(b, id) /\ done \in {b, Resolve(b, id)}
    OBVIOUS
  <2> HIDE DEF done
  <2>2. QED
    BY <1>1, <2>1, ReportAges
<1>3. /\ loop.orig \in DOMAIN board /\ loop.orig # 0
      /\ board[id].loop = loop.orig /\ board[loop.orig].to = loop.builder
      /\ loop.builder \in Roles
  BY <1>1, <1>2 DEF OnTask, Loop, TaskId
<1>4. board[loop.orig].loop = loop.orig
  BY <1>1 DEF AInv, Accounted, Placed, LoopsPlaced
<1> HIDE DEF done
<1>5. done[loop.orig].to = loop.builder /\ done[loop.orig].loop = loop.orig
  BY <1>2, <1>3, <1>4
<1>6. InHand(loop, done)
  BY <1>1, <1>2, <1>3, <1>5 DEF InHand
<1>7. PlainSame(done)
  BY <1>2, <1>3 DEF PlainSame
<1>8. \A ms : DOMAIN rest \subseteq DOMAIN ms => RowsTold(done, ms)
  <2>1. SUFFICES ASSUME NEW ms, DOMAIN rest \subseteq DOMAIN ms PROVE RowsTold(done, ms)
    OBVIOUS
  <2>2. DOMAIN rest = DOMAIN loops \ {id}
    BY DEF Drop
  <2>3. ~Owes(done, id)
    BY <1>2 DEF Owes
  <2>4. \A n \in DOMAIN board : done[n].done => board[n].done \/ done[n].reports # 0
    BY <1>2
  <2>5. RowsTold(board, loops)
    BY DEF RInv, Told
  <2>6. \A n \in DOMAIN loops \ DOMAIN ms : ~Owes(done, n)
    BY <2>1, <2>2, <2>3
  <2>7. QED
    BY <1>2, <2>4, <2>5, <2>6, AgedRows
<1>9. \A ms : DOMAIN rest \subseteq DOMAIN ms => Prepared(done, ms, ah)
  <2>1. id \in JustReported(done)
    BY <1>1, <1>2 DEF JustReported
  <2>2. \A r \in Roles : ah[r] \subseteq ahead[r] \cup JustReported(done)
    BY <2>1
  <2>3. QED
    BY <1>2, <1>8, <2>2 DEF Prepared
<1>10. ASSUME Refuse(ah), \/ FallbackGate(loop, done, rest)
                          \/ DeliverJudgeRound(loop, done, rest)
                          \/ RetryOrGate(loop, done, rest)
       PROVE  \E c, ms : Handles(c, ms, ah)
  <2>1. Grown(done, rest, ah) \/ Gated(done, rest, ah)
    BY <1>1, <1>2, <1>5, <1>6, <1>7, <1>10, MovesOn
  <2>2. QED
    BY <1>9, <2>1 DEF Handles
<1>11. ASSUME loop.phase # "build", Pass(loop, id, done, rest, ah)
       PROVE  \E c, ms : Handles(c, ms, ah)
  <2> DEFINE e == [how |-> "passed", id |-> loop.orig, by |-> id, told |-> Up(Start)]
  <2>1. e.how = "passed" /\ e.id = loop.orig /\ e.by = id /\ settled' = settled \cup {e}
    BY <1>11 DEF Pass, Settle
  <2>2. /\ QueueMerge(loop.builder, loop.orig, gates, ah)
        /\ board' = done /\ loops' = rest
    BY <1>11 DEF Pass
  <2> HIDE DEF e
  <2>3. \/ done[id].to = Judge[loop.builder] /\ done[id].done /\ ~done[id].timedOut
        \/ done[id].to = loop.builder /\ loop.builder \in Checked /\ Repeated(done[id])
    <3>1. CASE loop.phase = "judge"
      BY <1>1, <1>2, <3>1 DEF OnTask
    <3>2. CASE loop.phase = "check"
      <4>1. board[id].done /\ board[id].to = loop.builder /\ loop.builder \in Checked
        BY <1>1, <3>2 DEF OnTask
      <4>2. QED
        BY <1>2, <4>1
    <3>3. QED
      BY <1>1, <1>11, <3>1, <3>2 DEF Loop
  <2>4. PassTold(done, e.id, e.by)
    BY <1>1, <1>2, <1>3, <1>5, <2>1, <2>3 DEF PassTold
  <2>5. FactTold(done, e)
    BY <1>2, <1>3, <1>5, <2>1, <2>4 DEF FactTold
  <2>6. Passed(done, rest, ah)
    BY <1>3, <1>5, <1>7, <2>1, <2>2, <2>5 DEF Passed
  <2>7. QED
    BY <1>9, <2>6 DEF Handles
<1>12. CASE FallbackGate(loop, done, rest) /\ Refuse(ah)
  BY <1>10, <1>12
<1>13. CASE BuildDone(loop, id, done, rest) /\ Refuse(ah)
  <2>1. CASE DeliverJudgeRound(loop, done, rest)
    BY <1>10, <1>13, <2>1
  <2>2. CASE /\ board' = done /\ loops' = Put(rest, id, [loop EXCEPT !.phase = "check"])
             /\ UNCHANGED <<gates, settled>>
    <3>1. DOMAIN rest \subseteq DOMAIN loops'
      BY <2>2 DEF Put
    <3>2. Still(done, loops', ah)
      BY <1>7, <1>13, <2>2 DEF Still
    <3>3. QED
      BY <1>9, <3>1, <3>2 DEF Handles
  <2>3. QED
    BY <1>13, <2>1, <2>2 DEF BuildDone
<1>14. CASE loop.phase # "build" /\ ScoreVerdict(loop, id, done, rest, ah)
  BY <1>10, <1>11, <1>14 DEF ScoreVerdict
<1>15. QED
  BY <1>12, <1>13, <1>14 DEF JudgedDone, done

LEMMA PlainDoneKind ==
  ASSUME IInv, RInv, NEW id \in DOMAIN board \ DOMAIN loops,
         NEW b, b = OneMore(id), NEW ah,
         \A r \in Roles : ah[r] \subseteq ahead[r] \cup {id},
         PlainDone(id, b, ah)
  PROVE  \E c, ms : Handles(c, ms, ah)
<1> DEFINE r == b[id].to
           done == Resolve(b, id)
<1>1. /\ done \in Seq(Row) /\ DOMAIN done = DOMAIN board /\ Aged(board, done)
      /\ \A n \in DOMAIN board \ {id} : done[n] = board[n]
      /\ done[id].reports # 0 /\ done[id].done
      /\ board[id].reports # 0 => Repeated(done[id])
      /\ board[id].done => board[id].reports # 0
      /\ done[id].to = board[id].to /\ done[id].loop = board[id].loop
  <2>1. done = Resolve(b, id) /\ done \in {b, Resolve(b, id)}
    OBVIOUS
  <2> HIDE DEF done
  <2>2. QED
    BY <2>1, ReportAges
<1>2. b[id].to = board[id].to
  <2>1. b \in {b, Resolve(b, id)}
    OBVIOUS
  <2> HIDE DEF done
  <2>2. QED
    BY <2>1, ReportAges
<1>3. board[id].to \in Roles /\ id \in TaskId
  <2>1. board[id] \in Row /\ id \in TaskId
    BY DEF IInv, TypeOK, TaskId
  <2>2. QED
    BY <2>1 DEF Row
<1>4. board' = done /\ loops' = loops
  BY DEF PlainDone
<1> HIDE DEF done
<1>5. RowsTold(board, loops)
  BY DEF RInv, Told
<1>6. Prepared(done, loops, ah)
  <2>1. \A n \in DOMAIN board : done[n].done => board[n].done \/ done[n].reports # 0
    BY <1>1
  <2>2. RowsTold(done, loops)
    BY <1>1, <1>5, <2>1, AgedRows
  <2>3. \A q \in Roles : ah[q] \subseteq ahead[q] \cup JustReported(done)
    <3>1. id \in JustReported(done)
      BY <1>1 DEF JustReported
    <3>2. QED
      BY <3>1
  <2>4. QED
    BY <1>1, <2>2, <2>3 DEF Prepared
<1>7. ClosesOnly(done, id)
  BY <1>1 DEF ClosesOnly
<1>8. CASE /\ gates' = Append(gates, [kind |-> "ownership", to |-> r, id |-> id])
           /\ Refuse(ah)
           /\ UNCHANGED settled
  <2> DEFINE g == [kind |-> "ownership", to |-> r, id |-> id]
  <2>1. g \in Gate /\ g.kind = "ownership" /\ g.to = r /\ g.id = id
    BY <1>2, <1>3, GateTyped
  <2> HIDE DEF g
  <2>2. GateTold(done, g)
    BY <1>1, <1>2, <2>1 DEF GateTold
  <2>3. ReportHeld(done, loops, ah)
    BY <1>4, <1>7, <1>8, <2>1, <2>2 DEF ReportHeld, g
  <2>4. QED
    BY <1>6, <2>3 DEF Handles
<1>9. CASE Settle("report", id, id) /\ QueueMerge(r, id, gates, ah)
  <2> DEFINE e == [how |-> "report", id |-> id, by |-> id, told |-> Up(Start)]
  <2>1. e.how = "report" /\ e.id = id /\ settled' = settled \cup {e}
    BY <1>9 DEF Settle
  <2> HIDE DEF e
  <2>2. ~RoundOf(board, id) \/ board[id].reports # 0
    BY <1>1, <1>5 DEF RowsTold, Owes
  <2>3. ~RoundOf(done, id) \/ Repeated(done[id])
    <3>1. board[id].loop # 0 => board[id].loop \in DOMAIN board
      BY <1>5 DEF RowsTold
    <3>2. board[id].loop # 0 => done[board[id].loop].to = board[board[id].loop].to
      BY <1>1, <3>1
    <3>3. QED
      BY <1>1, <2>2, <3>2 DEF RoundOf
  <2>4. FactTold(done, e)
    BY <1>1, <2>1, <2>3 DEF FactTold
  <2>5. QueueMerge(done[e.id].to, e.id, gates, ah)
    BY <1>1, <1>2, <1>9, <2>1
  <2>6. ReportTold(done, loops, ah)
    BY <1>4, <1>7, <2>1, <2>4, <2>5 DEF ReportTold
  <2>7. QED
    BY <1>6, <2>6 DEF Handles
<1>10. QED
  BY <1>8, <1>9 DEF PlainDone

LEMMA WorkDoneKind ==
  ASSUME IInv, AInv, RInv, NEW id \in DOMAIN board, WorkDone(id)
  PROVE  StepKind
<1> DEFINE b == OneMore(id)
           new == [ahead EXCEPT ![board[id].to] = @ \cup {id}]
<1>1. /\ b \in Seq(Row) /\ DOMAIN b = DOMAIN board /\ Aged(board, b)
      /\ \A n \in DOMAIN board \ {id} : b[n] = board[n]
      /\ b[id].done = board[id].done /\ b[id].reports # 0
      /\ board[id].reports # 0 => Repeated(b[id])
  BY ReportAges
<1>2. id \in JustReported(b)
  BY <1>1 DEF JustReported
<1>3. \A ah \in {ahead, new} : \A r \in Roles : ah[r] \subseteq ahead[r] \cup {id}
  BY DEF IInv, TypeOK
<1>4. PlainSame(b)
  BY <1>1 DEF PlainSame
<1>5. RowsTold(b, loops)
  <2>1. \A n \in DOMAIN board : b[n].done => board[n].done \/ b[n].reports # 0
    BY <1>1
  <2>2. QED
    BY <1>1, <2>1, AgedRows DEF RInv, Told
<1>6. ASSUME NEW ah \in {ahead, new}, board' = b, Refuse(ah), UNCHANGED <<loops, gates, settled>>
      PROVE  Handles(b, loops, ah)
  <2>1. Prepared(b, loops, ah)
    <3>1. \A r \in Roles : ah[r] \subseteq ahead[r] \cup JustReported(b)
      BY <1>2, <1>3, <1>6
    <3>2. QED
      BY <1>1, <1>5, <3>1 DEF Prepared
  <2>2. Still(b, loops, ah)
    BY <1>4, <1>6 DEF Still
  <2>3. QED
    BY <2>1, <2>2 DEF Handles
<1>7. CASE board' = b /\ UNCHANGED <<loops, gates, ahead, landed, unplanned, settled>>
  BY <1>6, <1>7 DEF StepKind, Refuse
<1>8. ASSUME NEW ah \in {ahead, new}, id \in DOMAIN loops, JudgedDone(id, b, ah)
      PROVE  StepKind
  BY <1>3, <1>8, JudgedDoneKind DEF StepKind
<1>9. ASSUME NEW ah \in {ahead, new}, id \notin DOMAIN loops, PlainDone(id, b, ah)
      PROVE  StepKind
  BY <1>3, <1>9, PlainDoneKind DEF StepKind
<1>10. ASSUME NEW ah \in {ahead, new}, board' = b, Refuse(ah), UNCHANGED <<loops, gates, settled>>
       PROVE  StepKind
  BY <1>6, <1>10 DEF StepKind
<1>11. QED
  <2>1. \/ board' = b /\ UNCHANGED <<loops, gates, ahead, landed, unplanned, settled>>
        \/ \E ah \in {ahead, new} :
             \/ id \in DOMAIN loops /\ JudgedDone(id, b, ah)
             \/ id \notin DOMAIN loops /\ PlainDone(id, b, ah)
             \/ board' = b /\ Refuse(ah) /\ UNCHANGED <<loops, gates, settled>>
    <3>1. {ahead} \cup {new} = {ahead, new}
      OBVIOUS
    <3>2. QED
      BY <3>1 DEF WorkDone, OneMore
  <2> HIDE DEF b, new
  <2>2. QED
    BY <1>7, <1>8, <1>9, <1>10, <2>1

\* Nothing is owed to a loop whose check runs or whose judge is at work.
LEMMA NotOwed ==
  ASSUME IInv, RInv, NEW id \in DOMAIN loops, loops[id].phase # "build"
  PROVE  ~Owes(board, id)
<1>1. /\ OnTask(loops[id], id, board, checks) /\ loops[id] \in Loop /\ id \in DOMAIN board
  BY DEF IInv, TypeOK, LoopOnItsTask
<1>2. CASE loops[id].phase = "check"
  BY <1>1, <1>2 DEF OnTask, RInv, Told, RowsTold, Owes
<1>3. CASE loops[id].phase = "judge"
  <2>1. loops[id].builder \in Roles /\ Judge[loops[id].builder] # loops[id].builder
    BY <1>1, RolesAssumption DEF Loop
  <2>2. board[id].to = Judge[loops[id].builder] /\ board[board[id].loop].to = loops[id].builder
    BY <1>1, <1>3 DEF OnTask
  <2>3. QED
    BY <2>1, <2>2 DEF Owes, RoundOf
<1>4. QED
  BY <1>1, <1>2, <1>3 DEF Loop

\* What a loop in the map knows of its delegation
LEMMA LoopKnown ==
  ASSUME IInv, AInv, NEW id \in DOMAIN loops
  PROVE  /\ InHand(loops[id], board)
         /\ loops[id].orig # 0 /\ loops[id].builder \in Roles
         /\ board[loops[id].orig].loop = loops[id].orig
         /\ board[id].loop = loops[id].orig
<1>1. OnTask(loops[id], id, board, checks) /\ loops[id] \in Loop
  BY DEF IInv, TypeOK, LoopOnItsTask
<1>2. QED
  BY <1>1 DEF OnTask, InHand, Loop, TaskId, AInv, Accounted, Placed, LoopsPlaced

LEMMA FinishCheckKind ==
  ASSUME IInv, AInv, RInv, NEW id \in checks, FinishCheck(id)
  PROVE  StepKind
<1> DEFINE loop == loops[id]
           rest == Drop(loops, id)
<1>1. Prepared(board, loops, ahead) /\ PlainSame(board) /\ gates \in Seq(Gate) /\ board \in Seq(Row)
  BY Unprepared DEF IInv, TypeOK
<1>2. CASE id \in DOMAIN loops /\ loop.phase = "check"
  <2>1. Prepared(board, rest, ahead)
    <3>1. DOMAIN rest = DOMAIN loops \ {id} /\ ~Owes(board, id)
      BY <1>2, NotOwed DEF Drop
    <3>2. RowsTold(board, rest)
      BY <1>1, <3>1 DEF Prepared, RowsTold
    <3>3. QED
      BY <1>1, <3>2 DEF Prepared
  <2>2. /\ InHand(loop, board) /\ loop.orig # 0 /\ board[loop.orig].loop = loop.orig
        /\ loop.orig \in DOMAIN board /\ board[loop.orig].to = loop.builder
    BY <1>2, LoopKnown DEF InHand
  <2> HIDE DEF rest, loop
  <2>3. CASE Refuse(ahead) /\ (\/ FallbackGate(loop, board, rest)
                               \/ DeliverJudgeRound(loop, board, rest)
                               \/ RetryOrGate(loop, board, rest))
    <3>1. Grown(board, rest, ahead) \/ Gated(board, rest, ahead)
      BY <1>1, <2>2, <2>3, MovesOn
    <3>2. QED
      BY <2>1, <3>1 DEF Handles, StepKind
  <2>4. CASE Judge[loop.builder] = NoRole /\ Pass(loop, id, board, rest, ahead)
    <3> DEFINE e == [how |-> "passed", id |-> loop.orig, by |-> id, told |-> Up(Start)]
    <3>1. e.how = "passed" /\ e.id = loop.orig /\ settled' = settled \cup {e}
      BY <2>4 DEF Pass, Settle
    <3>2. /\ QueueMerge(loop.builder, loop.orig, gates, ahead)
          /\ board' = board /\ loops' = rest
      BY <2>4 DEF Pass
    <3> HIDE DEF e
    <3>3. FactTold(board, e)
      BY <2>2, <2>4, <3>1 DEF FactTold
    <3>4. Passed(board, rest, ahead)
      BY <1>1, <2>2, <3>1, <3>2, <3>3 DEF Passed
    <3>5. QED
      BY <2>1, <3>4 DEF Handles, StepKind
  <2>5. QED
    BY <1>2, <2>3, <2>4 DEF FinishCheck, loop, rest
<1>3. CASE ~(id \in DOMAIN loops /\ loop.phase = "check")
  <2>1. Still(board, loops, ahead)
    BY <1>1, <1>3 DEF FinishCheck, Still, Refuse
  <2>2. QED
    BY <1>1, <2>1 DEF Handles, StepKind
<1>4. QED
  BY <1>2, <1>3

LEMMA TimeoutKind ==
  ASSUME IInv, AInv, RInv, NEW id \in DOMAIN board, Timeout(id)
  PROVE  StepKind
<1> DEFINE row == [board[id] EXCEPT !.timedOut = TRUE]
           b == [board EXCEPT ![id] = row]
           rest == Drop(loops, id)
<1>1. /\ board \in Seq(Row) /\ board[id] \in Row /\ ~board[id].done /\ gates \in Seq(Gate)
      /\ PlainSame(board) /\ RowsTold(board, loops)
  BY Unprepared DEF IInv, TypeOK, Timeout, RInv, Told
<1>2. /\ row \in Row /\ row.to = board[id].to /\ row.loop = board[id].loop
      /\ row.done = board[id].done /\ row.reports = board[id].reports
  BY <1>1 DEF Row
<1>3. b = [board EXCEPT ![id].timedOut = TRUE]
  OBVIOUS
<1> HIDE DEF row
<1>4. /\ b \in Seq(Row) /\ DOMAIN b = DOMAIN board /\ b[id] = row
      /\ \A n \in DOMAIN board \ {id} : b[n] = board[n]
  BY <1>1, <1>2, UpdateRow
<1>5. /\ UNCHANGED <<ahead, landed, unplanned>>
      /\ IF id \in DOMAIN loops /\ loops[id].phase = "judge"
         THEN FallbackGate(loops[id], b, rest)
         ELSE board' = b /\ UNCHANGED <<loops, gates, settled>>
  BY <1>3 DEF Timeout
<1> HIDE DEF b
<1>6. \A n \in DOMAIN board : /\ b[n].to = board[n].to /\ b[n].loop = board[n].loop
                              /\ b[n].done = board[n].done /\ b[n].reports = board[n].reports
  BY <1>2, <1>4
<1>7. Aged(board, b)
  <2>1. \A n \in DOMAIN board : RowAged(board[n], b[n])
    BY <1>1, <1>4, <1>6 DEF RowAged, Repeated
  <2>2. QED
    BY <1>4, <2>1 DEF Aged
<1>8. PlainSame(b)
  BY <1>6 DEF PlainSame
<1>9. ASSUME NEW ms, \A n \in DOMAIN loops \ DOMAIN ms : ~Owes(b, n)
      PROVE  Prepared(b, ms, ahead)
  <2>1. RowsTold(b, ms)
    BY <1>1, <1>4, <1>6, <1>7, <1>9, AgedRows
  <2>2. QED
    BY <1>4, <1>7, <2>1 DEF Prepared
<1>10. CASE id \in DOMAIN loops /\ loops[id].phase = "judge"
  <2>1. ~Owes(board, id) /\ DOMAIN rest = DOMAIN loops \ {id}
    BY <1>10, NotOwed DEF Drop
  <2>2. /\ InHand(loops[id], board) /\ board[loops[id].orig].loop = loops[id].orig
        /\ board[id].loop = loops[id].orig /\ loops[id].orig \in DOMAIN board
    BY <1>10, LoopKnown DEF InHand
  <2>3. ~Owes(b, id)
    BY <1>6, <2>1, <2>2 DEF Owes, RoundOf
  <2>4. InHand(loops[id], b) /\ b[loops[id].orig].loop = loops[id].orig
    BY <1>4, <1>6, <2>2 DEF InHand
  <2> HIDE DEF rest
  <2>5. Prepared(b, rest, ahead)
    BY <1>9, <2>1, <2>3
  <2>6. Grown(b, rest, ahead) \/ Gated(b, rest, ahead)
    BY <1>1, <1>4, <1>5, <1>8, <1>10, <2>4, MovesOn DEF Refuse
  <2>7. QED
    BY <2>5, <2>6 DEF Handles, StepKind
<1>11. CASE ~(id \in DOMAIN loops /\ loops[id].phase = "judge")
  <2>1. Still(b, loops, ahead)
    BY <1>5, <1>8, <1>11 DEF Still, Refuse
  <2>2. Prepared(b, loops, ahead)
    BY <1>9
  <2>3. QED
    BY <2>1, <2>2 DEF Handles, StepKind
<1>12. QED
  BY <1>10, <1>11

LEMMA PaneClosedKind ==
  ASSUME IInv, AInv, RInv, NEW r \in Roles, PaneClosed(r)
  PROVE  StepKind
<1>1. board' = board /\ settled' = settled /\ Refuse(ahead)
  BY DEF PaneClosed, Refuse
<1>2. Prepared(board, loops, ahead) /\ PlainSame(board)
  BY Unprepared
<1>3. CASE UNCHANGED <<loops, gates>>
  <2>1. Still(board, loops, ahead)
    BY <1>1, <1>2, <1>3 DEF Still
  <2>2. QED
    BY <1>2, <2>1 DEF Handles, StepKind
<1>4. CASE FailLoopsFor(r)
  <2> DEFINE S == WaitingOn(r)
             gate(id) == [kind |-> "fallback", to |-> loops[id].builder, id |-> loops[id].orig]
  <2>1. Sound(board, loops) /\ gates \in Seq(Gate) /\ board \in Seq(Row)
    BY SoundAtHand DEF Sound
  <2>2. S \subseteq DOMAIN loops /\ \A id \in S : ~Owes(board, id)
    BY NotOwed DEF WaitingOn
  <2>3. IsFiniteSet(S)
    <3>1. IsFiniteSet(1 .. Len(board)) /\ DOMAIN board = 1 .. Len(board)
      BY <2>1, FS_Interval
    <3>2. S \subseteq 1 .. Len(board)
      BY <2>1, <2>2, <3>1 DEF Sound
    <3>3. QED
      BY <3>1, <3>2, FS_Subset
  <2>4. \A id \in S : gate(id) \in Gate /\ gate(id).kind = "fallback" /\ GateTold(board, gate(id))
    <3>1. ASSUME NEW id \in S
          PROVE  gate(id) \in Gate /\ gate(id).kind = "fallback" /\ GateTold(board, gate(id))
      <4>1. /\ loops[id].builder \in Roles /\ loops[id].orig \in TaskId
            /\ InHand(loops[id], board) /\ board[loops[id].orig].loop = loops[id].orig
        BY <2>2, LoopKnown DEF InHand, Loop
      <4>2. gate(id) \in Gate
        BY <4>1, GateTyped
      <4>3. QED
        BY <4>1, <4>2 DEF GateTold, InHand
    <3>2. QED
      BY <3>1
  <2> HIDE DEF S, gate
  <2>5. PICK order \in Orders(S) :
          /\ gates' = gates \o [i \in DOMAIN order |-> gate(order[i])]
          /\ loops' = [id \in DOMAIN loops \ S |-> loops[id]]
    BY <1>4 DEF FailLoopsFor, S, gate
  <2> DEFINE more == [i \in DOMAIN order |-> gate(order[i])]
  <2>6. /\ DOMAIN order = 1 .. Cardinality(S) /\ Cardinality(S) \in Nat
        /\ \A i \in DOMAIN order : order[i] \in S
    BY <2>3, OrderOnce
  <2>7. more \in Seq(Gate)
    <3>1. more \in [1 .. Cardinality(S) -> Gate]
      BY <2>4, <2>6
    <3>2. QED
      BY <2>6, <3>1, GateSeq
  <2>8. \A i \in DOMAIN more : more[i].kind = "fallback" /\ GateTold(board, more[i])
    BY <2>4, <2>6
  <2>9. gates' = gates \o more /\ DOMAIN loops' = DOMAIN loops \ S
    BY <2>5
  <2> HIDE DEF more
  <2>10. Gated(board, loops', ahead)
    BY <1>1, <1>2, <2>7, <2>8, <2>9 DEF Gated
  <2>11. Prepared(board, loops', ahead)
    BY <1>2, <2>2, <2>9 DEF Prepared, RowsTold
  <2>12. QED
    BY <2>10, <2>11 DEF Handles, StepKind
<1>5. QED
  BY <1>3, <1>4 DEF PaneClosed

LEMMA HandOverKind ==
  ASSUME IInv, RInv, NEW r \in Roles, HandOver(r), UNCHANGED <<ahead, landed, unplanned, settled>>,
         \/ gates' = gates
         \/ gates # <<>> /\ Head(gates).kind = "entry" /\ gates' = Tail(gates)
  PROVE  StepKind
<1> DEFINE id == Len(board) + 1
           o == IF Judged(r) THEN id ELSE 0
           loop == [orig |-> id, builder |-> r, round |-> 1, phase |-> "build"]
<1>1. board \in Seq(Row) /\ id \in Nat /\ id # 0
  BY DEF IInv, TypeOK
<1>2. board' = Append(board, NewRow(r, o)) /\ loops' = IF o = 0 THEN loops ELSE Put(loops, id, loop)
  BY <1>1 DEF HandOver
<1>3. o \in Nat /\ (o = 0 \/ o \in DOMAIN board \cup {Len(board) + 1})
  BY <1>1
<1>4. Prepared(board, loops, ahead) /\ PlainSame(board) /\ Refuse(ahead)
  BY Unprepared DEF Refuse
<1> HIDE DEF loop, o
<1>5. Grown(board, loops, ahead)
  BY <1>1, <1>2, <1>3, <1>4, GrownOne
<1>6. QED
  BY <1>4, <1>5 DEF Handles, StepKind

LEMMA DelegateKind ==
  ASSUME IInv, RInv, NEW r \in Targets, Delegate(r)
  PROVE  StepKind
<1>1. r \in Roles /\ gates \in Seq(Gate)
  BY RolesAssumption DEF IInv, TypeOK
<1>2. CASE r \in Approve
  <2> DEFINE g == [kind |-> "entry", to |-> r, id |-> 0]
  <2>1. /\ gates' = Append(gates, g)
        /\ UNCHANGED <<board, loops, ahead, landed, unplanned, settled>>
    BY <1>2 DEF Delegate
  <2>2. g \in Gate /\ g.kind = "entry"
    BY <1>1 DEF Gate
  <2> HIDE DEF g
  <2>3. GateTold(board, g)
    BY <2>2 DEF GateTold
  <2>4. Prepared(board, loops, ahead) /\ PlainSame(board) /\ Refuse(ahead)
    BY <2>1, Unprepared DEF Refuse
  <2>5. Gated(board, loops, ahead)
    BY <1>1, <2>1, <2>2, <2>3, <2>4, GatedOne
  <2>6. QED
    BY <2>4, <2>5 DEF Handles, StepKind
<1>3. CASE r \notin Approve
  BY <1>1, <1>3, HandOverKind DEF Delegate
<1>4. QED
  BY <1>2, <1>3

LEMMA AnswerKind ==
  ASSUME IInv, RInv, ApproveGate \/ RejectGate
  PROVE  StepKind
<1> DEFINE g == Head(gates)
<1>1. g \in Gate /\ gates # <<>>
  BY PopGate DEF IInv, ApproveGate, RejectGate
<1>2. g.to \in Roles /\ g.kind \in {"entry", "fallback", "ownership", "merge"}
  BY <1>1 DEF Gate
<1>3. CASE ApproveGate
  <2>1. CASE g.kind = "entry" /\ HandOver(g.to) /\ gates' = Tail(gates) /\ UNCHANGED <<ahead, landed, unplanned, settled>>
    BY <1>1, <1>2, <2>1, HandOverKind
  <2>2. CASE g.kind = "entry" /\ gates' = Tail(gates) /\ UNCHANGED <<board, loops, ahead, landed, unplanned, settled>>
    BY <1>1, <2>2 DEF EntryDropped, Answer, Refuse, StepKind
  <2>3. CASE /\ g.kind \in {"fallback", "ownership"}
             /\ Settle("accepted", g.id, 0)
             /\ QueueMerge(g.to, g.id, Tail(gates), ahead)
             /\ UNCHANGED <<board, loops>>
    BY <1>1, <2>3 DEF WorkAccepted, Answer, Settle, StepKind
  <2>4. CASE /\ g.kind = "merge"
             /\ Settle("merge-ruled", g.id, 0)
             /\ gates' = Tail(gates)
             /\ Land(g.to, ahead) \/ Refuse(ahead)
             /\ UNCHANGED <<board, loops>>
    BY <1>1, <2>4 DEF MergeRuled, Answer, Settle, StepKind
  <2>5. QED
    BY <1>3, <2>1, <2>2, <2>3, <2>4 DEF ApproveGate
<1>4. CASE RejectGate
  <2>1. gates' = Tail(gates) /\ UNCHANGED <<board, loops, ahead, landed, unplanned>> /\ Refuse(ahead)
    BY <1>4 DEF RejectGate, Refuse
  <2>2. CASE g.kind = "entry"
    <3>1. settled' = settled
      BY <1>4, <2>2 DEF RejectGate
    <3>2. QED
      BY <1>1, <2>1, <2>2, <3>1 DEF EntryDropped, Answer, StepKind
  <2>3. CASE g.kind = "merge"
    <3>1. settled' = settled \cup {[how |-> "merge-ruled", id |-> g.id, by |-> 0, told |-> Up(Start)]}
      BY <1>4, <2>3 DEF RejectGate, Settle
    <3>2. QED
      BY <1>1, <2>1, <2>3, <3>1 DEF MergeRuled, Answer, StepKind
  <2>4. CASE g.kind \in {"fallback", "ownership"}
    <3>1. settled' = settled \cup {[how |-> "rejected", id |-> g.id, by |-> 0, told |-> Up(Start)]}
      BY <1>4, <2>4 DEF RejectGate, Settle
    <3>2. QED
      BY <1>1, <2>1, <2>4, <3>1 DEF WorkRejected, Answer, StepKind
  <2>5. QED
    BY <1>2, <2>2, <2>3, <2>4
<1>5. QED
  BY <1>3, <1>4

LEMMA EveryStepKind ==
  ASSUME IInv, AInv, RInv, [Next]_vars
  PROVE  StepKind
<1>1. ASSUME NEW r \in Targets, Delegate(r) PROVE StepKind
  BY <1>1, DelegateKind
<1>2. ASSUME NEW id \in DOMAIN board, WorkDone(id) PROVE StepKind
  BY <1>2, WorkDoneKind
<1>3. ASSUME NEW id \in DOMAIN board, Timeout(id) PROVE StepKind
  BY <1>3, TimeoutKind
<1>4. ASSUME NEW id \in checks, FinishCheck(id) PROVE StepKind
  BY <1>4, FinishCheckKind
<1>5. ASSUME NEW r \in Roles, PaneClosed(r) PROVE StepKind
  BY <1>5, PaneClosedKind
<1>6. CASE ApproveGate \/ RejectGate
  BY <1>6, AnswerKind
<1>7. CASE (\E r \in Roles : Die(r) \/ Restart(r)) \/ GatewayFlip \/ UNCHANGED vars
  <2>1. UNCHANGED <<board, loops, gates, ahead, landed, unplanned, settled>>
    BY <1>7 DEF Die, Restart, GatewayFlip, vars
  <2>2. Prepared(board, loops, ahead) /\ Still(board, loops, ahead)
    BY <2>1, Unprepared DEF Still, Refuse
  <2>3. QED
    BY <2>2 DEF Handles, StepKind
<1>8. QED
  BY <1>1, <1>2, <1>3, <1>4, <1>5, <1>6, <1>7 DEF Next

-----------------------------------------------------------------------------
(* Gates and facts stay told. *)

\* Every gate of gs is an old one or told on board b.
GatesTold(b, gs) ==
  \A i \in DOMAIN gs : (\E j \in DOMAIN gates : gs[i] = gates[j]) \/ GateTold(b, gs[i])

LEMMA Retold ==
  ASSUME RInv, Aged(board, board'), RowsTold(board', loops'), GatesTold(board', gates'),
         \A e \in settled' : e \in settled \/ FactTold(board', e)
  PROVE  RInv'
<1>1. RowsTold(board, loops) /\ (\A j \in DOMAIN gates : GateTold(board, gates[j]))
      /\ (\A e \in settled : FactTold(board, e))
  BY DEF RInv, Told
<1>2. \A j \in DOMAIN gates : GateTold(board', gates[j])
  BY <1>1, AgedGate
<1>3. \A i \in DOMAIN gates' : GateTold(board', gates'[i])
  BY <1>2 DEF GatesTold
<1>4. \A e \in settled : FactTold(board', e)
  BY <1>1, AgedFact
<1>5. \A e \in settled' : FactTold(board', e)
  BY <1>4
<1>6. QED
  BY <1>3, <1>5 DEF RInv, Told

\* The gates there are, without the oldest
LEMMA GatesRest ==
  ASSUME gates \in Seq(Gate), gates # <<>>
  PROVE  /\ Tail(gates) \in Seq(Gate)
         /\ Head(gates) = gates[1] /\ 1 \in DOMAIN gates
         /\ \A b : GatesTold(b, Tail(gates))
BY WaitingTail DEF GatesTold

LEMMA GatesSame == \A b : GatesTold(b, gates)
BY DEF GatesTold

LEMMA GatesAppend ==
  ASSUME NEW gs \in Seq(Gate), NEW b, GatesTold(b, gs), NEW g \in Gate, GateTold(b, g)
  PROVE  GatesTold(b, Append(gs, g))
<1> DEFINE hs == Append(gs, g)
<1>1. \A i \in DOMAIN hs : hs[i] = g \/ (i \in DOMAIN gs /\ hs[i] = gs[i])
  OBVIOUS
<1> HIDE DEF hs
<1>2. GatesTold(b, hs)
  BY <1>1 DEF GatesTold
<1>3. QED
  BY <1>2 DEF hs

\* The role's merge mode queues at most the merge gate of its task.
LEMMA GatesMerge ==
  ASSUME NEW gs \in Seq(Gate), NEW b \in Seq(Row), GatesTold(b, gs),
         NEW id \in DOMAIN b, NEW ah, QueueMerge(b[id].to, id, gs, ah)
  PROVE  GatesTold(b, gates')
<1> DEFINE g == MergeGate(b[id].to, id)
<1>1. g \in Gate /\ g.kind = "merge" /\ g.to = b[id].to /\ g.id = id
  <2>1. b[id] \in Row /\ id \in TaskId
    BY DEF TaskId
  <2>2. b[id].to \in Roles
    BY <2>1 DEF Row
  <2>3. QED
    BY <2>1, <2>2, GateTyped DEF MergeGate
<1>2. gates' = gs \/ gates' = Append(gs, g)
  BY DEF QueueMerge
<1> HIDE DEF g
<1>3. GateTold(b, g)
  BY <1>1 DEF GateTold
<1>4. QED
  BY <1>1, <1>2, <1>3, GatesAppend

LEMMA HandlesKeepTold ==
  ASSUME IInv, RInv, NEW c, NEW ms, NEW ah, Handles(c, ms, ah)
  PROVE  RInv'
<1>1. /\ c \in Seq(Row) /\ DOMAIN c = DOMAIN board /\ Aged(board, c) /\ RowsTold(c, ms)
      /\ gates \in Seq(Gate)
  BY DEF Handles, Prepared, IInv, TypeOK
<1>2. CASE Still(c, ms, ah)
  BY <1>1, <1>2, GatesSame, Retold DEF Still
<1>3. CASE Grown(c, ms, ah)
  <2>1. PICK row \in Row :
          /\ board' = Append(c, row)
          /\ ~row.done /\ row.reports = 0
          /\ row.loop = 0 \/ (row.loop \in DOMAIN board' /\ Len(c) + 1 \in DOMAIN loops')
    BY <1>3 DEF Grown
  <2>2. /\ DOMAIN board' = DOMAIN c \cup {Len(c) + 1}
        /\ \A n \in DOMAIN c : board'[n] = c[n]
        /\ board'[Len(c) + 1] = row
    BY <1>1, <2>1, AppendRow
  <2>3. Aged(board, board')
    BY <1>1, <2>2 DEF Aged
  <2>4. DOMAIN ms \subseteq DOMAIN loops' /\ settled' = settled
    BY <1>3 DEF Grown
  <2>5. RowsTold(board', loops')
    <3>1. ASSUME NEW n \in DOMAIN c
          PROVE  /\ board'[n].done => board'[n].reports # 0
                 /\ board'[n].loop # 0 => board'[n].loop \in DOMAIN board'
                 /\ Owes(board', n) => n \in DOMAIN loops'
      <4>1. board'[n] = c[n] /\ (c[n].loop # 0 => c[n].loop \in DOMAIN c)
        BY <1>1, <2>2 DEF RowsTold
      <4>2. Owes(board', n) => Owes(c, n)
        BY <2>2, <4>1 DEF Owes, RoundOf
      <4>3. QED
        BY <1>1, <2>2, <2>4, <4>1, <4>2 DEF RowsTold
    <3>2. /\ ~board'[Len(c) + 1].done
          /\ board'[Len(c) + 1].loop # 0 => /\ board'[Len(c) + 1].loop \in DOMAIN board'
                                            /\ Len(c) + 1 \in DOMAIN loops'
      BY <2>1, <2>2
    <3>3. QED
      BY <2>2, <3>1, <3>2 DEF RowsTold, Owes, RoundOf
  <2>6. GatesTold(board', gates')
    BY <1>1, <1>3, GatesSame, GatesRest DEF Grown
  <2>7. QED
    BY <2>3, <2>4, <2>5, <2>6, Retold
<1>4. CASE Gated(c, ms, ah)
  <2>1. PICK more \in Seq(Gate) :
          /\ gates' = gates \o more
          /\ \A i \in DOMAIN more : GateTold(c, more[i])
    BY <1>4 DEF Gated
  <2>2. GatesTold(c, gates')
    <3>1. /\ DOMAIN gates' = DOMAIN gates \cup {Len(gates) + i : i \in DOMAIN more}
          /\ \A i \in DOMAIN gates : gates'[i] = gates[i]
          /\ \A i \in DOMAIN more : gates'[Len(gates) + i] = more[i]
      BY <1>1, <2>1, Concatenation
    <3>2. QED
      BY <2>1, <3>1 DEF GatesTold
  <2>3. QED
    BY <1>1, <1>4, <2>2, Retold DEF Gated
<1>5. CASE Passed(c, ms, ah) \/ ReportTold(c, ms, ah)
  <2>1. PICK e : FactTold(c, e) /\ settled' = settled \cup {e} /\ QueueMerge(c[e.id].to, e.id, gates, ah)
    BY <1>5 DEF Passed, ReportTold
  <2>2. e.id \in DOMAIN c
    BY <2>1 DEF FactTold
  <2>3. GatesTold(c, gates')
    BY <1>1, <2>1, <2>2, GatesSame, GatesMerge
  <2>4. QED
    BY <1>1, <1>5, <2>1, <2>3, Retold DEF Passed, ReportTold
<1>6. CASE ReportHeld(c, ms, ah)
  <2>1. PICK g \in Gate : GateTold(c, g) /\ gates' = Append(gates, g)
    BY <1>6 DEF ReportHeld
  <2>2. GatesTold(c, gates')
    BY <1>1, <2>1, GatesSame, GatesAppend
  <2>3. QED
    BY <1>1, <1>6, <2>2, Retold DEF ReportHeld
<1>7. QED
  BY <1>2, <1>3, <1>4, <1>5, <1>6 DEF Handles

LEMMA AnswersKeepTold ==
  ASSUME IInv, RInv, EntryDropped \/ WorkAccepted \/ WorkRejected \/ MergeRuled
  PROVE  RInv'
<1> DEFINE g == Head(gates)
<1>1. /\ gates # <<>> /\ board' = board /\ loops' = loops
      /\ gates \in Seq(Gate) /\ board \in Seq(Row)
  BY DEF EntryDropped, WorkAccepted, WorkRejected, MergeRuled, Answer, IInv, TypeOK
<1>2. /\ Tail(gates) \in Seq(Gate) /\ GatesTold(board, Tail(gates)) /\ GateTold(board, g)
      /\ RowsTold(board, loops) /\ Aged(board, board)
  BY <1>1, GatesRest DEF RInv, Told, Aged, RowAged
<1>3. CASE EntryDropped
  BY <1>1, <1>2, <1>3, Retold DEF EntryDropped
<1>4. CASE WorkAccepted
  <2> DEFINE e == [how |-> "accepted", id |-> g.id, by |-> 0, told |-> Up(Start)]
  <2>1. e.how = "accepted" /\ e.id = g.id /\ settled' = settled \cup {e}
    BY <1>4 DEF WorkAccepted
  <2> HIDE DEF e
  <2>2. g.kind \in {"fallback", "ownership"} /\ QueueMerge(g.to, g.id, Tail(gates), ahead)
    BY <1>4 DEF WorkAccepted
  <2>3. FactTold(board, e) /\ g.id \in DOMAIN board /\ g.to = board[g.id].to
    BY <1>2, <2>1, <2>2 DEF GateTold, FactTold
  <2> HIDE DEF g
  <2>4. GatesTold(board, gates')
    BY <1>1, <1>2, <2>2, <2>3, GatesMerge
  <2>5. QED
    BY <1>1, <1>2, <2>1, <2>3, <2>4, Retold
<1>5. CASE WorkRejected \/ MergeRuled
  <2>1. PICK e : /\ e.how \in {"rejected", "merge-ruled"} /\ e.id = g.id
                 /\ settled' = settled \cup {e}
    <3>1. CASE WorkRejected
      <4>1. PICK e : e = [how |-> "rejected", id |-> g.id, by |-> 0, told |-> Up(Start)]
        OBVIOUS
      <4>2. QED
        BY <3>1, <4>1 DEF WorkRejected
    <3>2. CASE MergeRuled
      <4>1. PICK e : e = [how |-> "merge-ruled", id |-> g.id, by |-> 0, told |-> Up(Start)]
        OBVIOUS
      <4>2. QED
        BY <3>2, <4>1 DEF MergeRuled
    <3>3. QED
      BY <1>5, <3>1, <3>2
  <2>2. g.kind # "entry" /\ gates' = Tail(gates)
    BY <1>5 DEF WorkRejected, MergeRuled
  <2>3. FactTold(board, e)
    BY <1>2, <2>1, <2>2 DEF GateTold, FactTold, Accepted
  <2>4. QED
    BY <1>1, <1>2, <2>1, <2>2, <2>3, Retold
<1>6. QED
  BY <1>3, <1>4, <1>5

LEMMA NextTold == IInv /\ AInv /\ RInv /\ [Next]_vars => RInv'
BY EveryStepKind, HandlesKeepTold, AnswersKeepTold DEF StepKind

LEMMA InitTold == Init => RInv
<1>1. SUFFICES ASSUME Init PROVE RInv
  OBVIOUS
<1>2. DOMAIN board = {} /\ DOMAIN gates = {} /\ settled = {}
  BY <1>1 DEF Init
<1>3. QED
  BY <1>2 DEF RInv, Told, RowsTold

\* A row reported neither never nor once was reported more than once.
LEMMA RepeatedMore ==
  ASSUME IInv, NEW n \in DOMAIN board, Repeated(board[n])
  PROVE  board[n].reports > 1
<1>1. board[n] \in Row
  BY DEF IInv, TypeOK
<1>2. board[n].reports \in Nat
  BY <1>1 DEF Row
<1>3. QED
  BY <1>2 DEF Repeated

\* The history agrees with the board.
LEMMA ToldInvariance == Spec => [](IInv /\ AInv /\ RInv)
<1>1. IInv /\ AInv /\ RInv /\ [Next]_vars => (IInv /\ AInv /\ RInv)'
  BY NextIInv, NextAccounts, NextTold
<1>2. QED
  BY <1>1, InitIInv, InitAccounts, InitTold, PTL DEF Spec

\* Work of a role with a judge passes on the report of the judge's own task for
\* that work, in time, and never without one; the one other way is a report that a
\* builder whose check runs sends again, which handleJudgedDone scores as the verdict.
THEOREM TheJudgeDecides == Spec => []JudgeDecides
<1>1. IInv /\ RInv => JudgeDecides
  <2>1. SUFFICES ASSUME IInv, RInv, NEW e \in settled, e.how = "passed", Judge[board[e.id].to] # NoRole
                 PROVE  /\ e.by \in DOMAIN board
                        /\ board[e.by].loop = e.id
                        /\ \/ board[e.by].to = Judge[board[e.id].to] /\ ~board[e.by].timedOut
                           \/ BuilderRound(e.by) /\ board[e.id].to \in Checked /\ board[e.by].reports > 1
    BY DEF JudgeDecides
  <2>2. PassTold(board, e.id, e.by) /\ e.id \in DOMAIN board
    BY <2>1 DEF RInv, Told, FactTold
  <2>3. e.by \in DOMAIN board /\ board[e.by].loop = e.id
    BY <2>2 DEF PassTold
  <2>4. CASE board[e.by].to = board[e.id].to /\ board[e.id].to \in Checked /\ Repeated(board[e.by])
    <3>1. board[e.by].reports > 1
      BY <2>1, <2>3, <2>4, RepeatedMore
    <3>2. BuilderRound(e.by)
      <4>1. e.id # 0
        BY <2>1, <2>2 DEF IInv, TypeOK
      <4>2. QED
        BY <2>3, <2>4, <4>1 DEF BuilderRound
    <3>3. QED
      BY <2>3, <2>4, <3>1, <3>2
  <2>5. QED
    BY <2>2, <2>3, <2>4 DEF PassTold
<1>2. QED
  BY <1>1, ToldInvariance, PTL

\* A builder's report is held back for the check or the judge in every round
\* (dispatch "work-done"): one that reaches the orchestrator repeats an earlier one.
THEOREM BuilderReportsAreHeld == Spec => []BuilderReportHeld
<1>1. IInv /\ RInv => BuilderReportHeld
  <2>1. SUFFICES ASSUME IInv, RInv, NEW e \in settled, e.how = "report", BuilderRound(e.id)
                 PROVE  board[e.id].reports > 1
    BY DEF BuilderReportHeld
  <2>2. e.id \in DOMAIN board /\ Repeated(board[e.id])
    BY <2>1 DEF RInv, Told, FactTold, BuilderRound, RoundOf
  <2>3. QED
    BY <2>1, <2>2, RepeatedMore
<1>2. QED
  BY <1>1, ToldInvariance, PTL

-----------------------------------------------------------------------------
(* Plain tasks: where the report of a task without a loop can be *)

Owned(gs, n) == {i \in DOMAIN gs : gs[i].kind = "ownership" /\ gs[i].id = n}
Answered(st, n) == {e \in st : e.id = n /\ e.how \in {"report", "accepted", "rejected"}}

\* An open task is nowhere; a closed one is held at one ownership gate or has had
\* one answer, and further ones only if it was reported again.
PlainAt(row, gs, st, n) ==
  \/ row.done /\ One(Owned(gs, n)) /\ Answered(st, n) = {}
  \/ row.done /\ Owned(gs, n) = {} /\ One(Answered(st, n))
  \/ row.done /\ Repeated(row) /\ (Owned(gs, n) # {} \/ Answered(st, n) # {})
  \/ ~row.done /\ Owned(gs, n) = {} /\ Answered(st, n) = {}

PInv == \A n \in DOMAIN board : board[n].loop = 0 => PlainAt(board[n], gates, settled, n)

\* An aging row stays where it is as long as nothing closes it.
LEMMA PlainAtAges ==
  ASSUME NEW q, NEW r, RowAged(q, r), r.done = q.done, NEW gs, NEW st, NEW n, PlainAt(q, gs, st, n)
  PROVE  PlainAt(r, gs, st, n)
BY DEF PlainAt, RowAged

LEMMA OwnedAppend ==
  ASSUME NEW gs \in Seq(Gate), NEW g \in Gate, NEW n
  PROVE  Owned(Append(gs, g), n) =
           IF g.kind = "ownership" /\ g.id = n THEN Owned(gs, n) \cup {Len(gs) + 1} ELSE Owned(gs, n)
<1> DEFINE hs == Append(gs, g)
           k == Len(gs) + 1
<1>1. /\ DOMAIN hs = DOMAIN gs \cup {k} /\ k \notin DOMAIN gs
      /\ hs[k] = g /\ \A i \in DOMAIN gs : hs[i] = gs[i]
  OBVIOUS
<1> HIDE DEF hs, k
<1>2. QED
  BY <1>1 DEF Owned, hs, k

\* The oldest gate gone: a task held there is no longer, the others are.
LEMMA OwnedTail ==
  ASSUME gates \in Seq(Gate), gates # <<>>, NEW n
  PROVE  LET mine == Head(gates).kind = "ownership" /\ Head(gates).id = n
         IN /\ Owned(gates, n) = {} => Owned(Tail(gates), n) = {}
            /\ ~mine /\ One(Owned(gates, n)) => One(Owned(Tail(gates), n))
            /\ ~mine /\ Owned(gates, n) # {} => Owned(Tail(gates), n) # {}
            /\ mine => Owned(gates, n) # {}
            /\ mine /\ One(Owned(gates, n)) => Owned(Tail(gates), n) = {}
<1> DEFINE S == Owned(gates, n)
           T == {i \in Nat \ {0} : i + 1 \in S}
<1>1. /\ DOMAIN gates \subseteq Nat \ {0} /\ Head(gates) = gates[1] /\ 1 \in DOMAIN gates
      /\ \A i \in DOMAIN Tail(gates) : i + 1 \in DOMAIN gates /\ Tail(gates)[i] = gates[i + 1]
      /\ \A i \in Nat \ {0} : i + 1 \in DOMAIN gates => i \in DOMAIN Tail(gates)
      /\ DOMAIN Tail(gates) \subseteq Nat \ {0}
  OBVIOUS
<1>2. Owned(Tail(gates), n) = T
  BY <1>1 DEF Owned
<1>3. S \subseteq Nat \ {0}
  BY <1>1 DEF Owned
<1>4. 1 \in S <=> Head(gates).kind = "ownership" /\ Head(gates).id = n
  BY <1>1 DEF Owned
<1>5. /\ S = {} => T = {}
      /\ 1 \notin S /\ One(S) => One(T)
      /\ 1 \in S /\ One(S) => T = {}
  <2> HIDE DEF S
  <2>1. QED
    BY <1>3, Shift
<1>6. ASSUME 1 \notin S, S # {} PROVE T # {}
  <2>1. PICK i \in S : i # 1
    BY <1>6
  <2>2. i \in Nat \ {0} /\ i - 1 \in Nat \ {0} /\ (i - 1) + 1 = i
    BY <1>3, <2>1
  <2> HIDE DEF S
  <2>3. i - 1 \in T
    BY <2>1, <2>2
  <2>4. QED
    BY <2>3
<1> HIDE DEF S, T
<1>7. QED
  BY <1>2, <1>4, <1>5, <1>6 DEF S

LEMMA OwnedMerge ==
  ASSUME NEW gs \in Seq(Gate), NEW r \in Roles, NEW id \in TaskId, NEW ah,
         QueueMerge(r, id, gs, ah), NEW n
  PROVE  Owned(gates', n) = Owned(gs, n)
<1> DEFINE g == MergeGate(r, id)
<1>1. g \in Gate /\ g.kind = "merge"
  BY GateTyped DEF MergeGate
<1>2. gates' = gs \/ gates' = Append(gs, g)
  BY DEF QueueMerge
<1> HIDE DEF g
<1>3. QED
  BY <1>1, <1>2, OwnedAppend

LEMMA OwnedBehind ==
  ASSUME gates \in Seq(Gate), NEW more \in Seq(Gate), NEW n,
         \A i \in DOMAIN more : more[i].kind # "ownership"
  PROVE  Owned(gates \o more, n) = Owned(gates, n)
<1> DEFINE hs == gates \o more
<1>1. /\ DOMAIN hs = DOMAIN gates \cup {Len(gates) + i : i \in DOMAIN more}
      /\ \A i \in DOMAIN gates : hs[i] = gates[i]
      /\ \A i \in DOMAIN more : hs[Len(gates) + i] = more[i]
  BY Concatenation
<1> HIDE DEF hs
<1>2. Owned(hs, n) = Owned(gates, n)
  BY <1>1 DEF Owned
<1>3. QED
  BY <1>2 DEF hs

\* A fact of another task, or of another kind, answers nothing.
LEMMA AnsweredOther ==
  ASSUME NEW st, NEW e, NEW n, e.id # n \/ e.how \notin {"report", "accepted", "rejected"}
  PROVE  Answered(st \cup {e}, n) = Answered(st, n)
BY DEF Answered

LEMMA AnsweredOne ==
  ASSUME NEW st, NEW e, e.how \in {"report", "accepted", "rejected"}, Answered(st, e.id) = {}
  PROVE  One(Answered(st \cup {e}, e.id))
<1>1. Answered(st \cup {e}, e.id) = {e}
  BY DEF Answered
<1>2. QED
  BY <1>1 DEF One

\* A task row of board b names a role and has an id.
LEMMA RowNames ==
  ASSUME NEW b \in Seq(Row), NEW id \in DOMAIN b
  PROVE  b[id].to \in Roles /\ id \in TaskId
<1>1. b[id] \in Row /\ id \in TaskId
  BY DEF TaskId
<1>2. QED
  BY <1>1 DEF Row

LEMMA HandlesKeepPlain ==
  ASSUME IInv, RInv, PInv, NEW c, NEW ms, NEW ah, Handles(c, ms, ah)
  PROVE  PInv'
<1>1. /\ c \in Seq(Row) /\ DOMAIN c = DOMAIN board /\ gates \in Seq(Gate)
      /\ \A n \in DOMAIN board : RowAged(board[n], c[n]) /\ c[n].loop = board[n].loop
  BY DEF Handles, Prepared, Aged, RowAged, IInv, TypeOK
<1>2. \A n \in DOMAIN board : board[n].loop = 0 => PlainAt(board[n], gates, settled, n)
  BY DEF PInv
<1> DEFINE Stays(gs, st) == \A n \in DOMAIN board : board[n].loop = 0 => PlainAt(c[n], gs, st, n)
<1>3. PlainSame(c) => Stays(gates, settled)
  BY <1>1, <1>2, PlainAtAges DEF PlainSame
<1>4. CASE Grown(c, ms, ah)
  <2>1. PICK row \in Row : board' = Append(c, row) /\ ~row.done
    BY <1>4 DEF Grown
  <2>2. /\ DOMAIN board' = DOMAIN c \cup {Len(c) + 1}
        /\ \A n \in DOMAIN c : board'[n] = c[n]
        /\ board'[Len(c) + 1] = row
        /\ Len(c) + 1 \notin DOMAIN c
    BY <1>1, <2>1, AppendRow
  <2>3. settled' = settled /\ Stays(gates, settled)
    BY <1>3, <1>4 DEF Grown
  <2>4. \A n : /\ Owned(gates, n) = {} => Owned(gates', n) = {}
               /\ One(Owned(gates, n)) => One(Owned(gates', n))
               /\ Owned(gates, n) # {} => Owned(gates', n) # {}
    <3>1. CASE gates' = gates
      BY <3>1
    <3>2. CASE gates # <<>> /\ Head(gates).kind = "entry" /\ gates' = Tail(gates)
      BY <1>1, <3>2, OwnedTail
    <3>3. QED
      BY <1>4, <3>1, <3>2 DEF Grown
  <2>5. ASSUME NEW n \in DOMAIN c, board'[n].loop = 0
        PROVE  PlainAt(board'[n], gates', settled', n)
    <3>1. board'[n] = c[n] /\ board[n].loop = 0
      BY <1>1, <2>2, <2>5
    <3>2. PlainAt(c[n], gates, settled, n)
      BY <1>1, <2>3, <3>1
    <3>3. QED
      BY <2>3, <2>4, <3>1, <3>2 DEF PlainAt
  <2>6. PlainAt(board'[Len(c) + 1], gates', settled', Len(c) + 1)
    <3> DEFINE k == Len(c) + 1
    <3>1. Owned(gates, k) = {}
      BY <1>1, <2>2 DEF Owned, RInv, Told, GateTold
    <3>2. Answered(settled, k) = {}
      BY <1>1, <2>2 DEF Answered, RInv, Told, FactTold
    <3> HIDE DEF k
    <3>3. QED
      BY <2>1, <2>2, <2>3, <2>4, <3>1, <3>2 DEF PlainAt, k
  <2>7. QED
    BY <2>2, <2>5, <2>6 DEF PInv
<1>5. CASE Gated(c, ms, ah)
  <2>1. PICK more \in Seq(Gate) :
          /\ gates' = gates \o more
          /\ \A i \in DOMAIN more : more[i].kind \in {"entry", "fallback"}
    BY <1>5 DEF Gated
  <2>2. \A n : Owned(gates', n) = Owned(gates, n)
    BY <1>1, <2>1, OwnedBehind
  <2>3. board' = c /\ settled' = settled /\ Stays(gates, settled)
    BY <1>3, <1>5 DEF Gated
  <2>4. QED
    BY <1>1, <2>2, <2>3 DEF PInv, PlainAt
<1>6. CASE Passed(c, ms, ah)
  <2>1. PICK e : /\ e.how = "passed" /\ e.id \in DOMAIN c /\ settled' = settled \cup {e}
                 /\ QueueMerge(c[e.id].to, e.id, gates, ah)
    BY <1>6 DEF Passed, FactTold
  <2>2. \A n : Owned(gates', n) = Owned(gates, n)
    BY <1>1, <2>1, RowNames, OwnedMerge
  <2>3. \A n : Answered(settled', n) = Answered(settled, n)
    BY <2>1, AnsweredOther
  <2>4. board' = c /\ Stays(gates, settled)
    BY <1>3, <1>6 DEF Passed
  <2>5. QED
    BY <1>1, <2>2, <2>3, <2>4 DEF PInv, PlainAt
<1>7. CASE ReportTold(c, ms, ah)
  <2>1. PICK e : /\ e.how = "report" /\ e.id \in DOMAIN c /\ ClosesOnly(c, e.id)
                 /\ settled' = settled \cup {e}
                 /\ QueueMerge(c[e.id].to, e.id, gates, ah)
    BY <1>7 DEF ReportTold, FactTold
  <2>2. \A n : Owned(gates', n) = Owned(gates, n)
    BY <1>1, <2>1, RowNames, OwnedMerge
  <2>3. ASSUME NEW n \in DOMAIN board, board[n].loop = 0
        PROVE  PlainAt(c[n], gates', settled', n)
    <3>1. CASE n = e.id
      <4>1. /\ c[n].done
            /\ \/ Owned(gates, n) = {} /\ Answered(settled, n) = {}
               \/ Repeated(c[n])
        BY <1>2, <2>1, <2>3, <3>1 DEF PlainAt, ClosesOnly
      <4>2. Answered(settled, n) = {} => One(Answered(settled', n))
        BY <2>1, <3>1, AnsweredOne
      <4>3. Answered(settled', n) # {}
        BY <2>1, <3>1 DEF Answered
      <4>4. QED
        BY <2>2, <4>1, <4>2, <4>3 DEF PlainAt
    <3>2. CASE n # e.id
      <4>1. Answered(settled', n) = Answered(settled, n)
        BY <2>1, <3>2, AnsweredOther
      <4>2. PlainAt(c[n], gates, settled, n)
        BY <1>1, <1>2, <2>1, <2>3, <3>2, PlainAtAges DEF ClosesOnly
      <4>3. QED
        BY <2>2, <4>1, <4>2 DEF PlainAt
    <3>3. QED
      BY <3>1, <3>2
  <2>4. board' = c
    BY <1>7 DEF ReportTold
  <2>5. QED
    BY <1>1, <2>3, <2>4 DEF PInv
<1>8. CASE ReportHeld(c, ms, ah)
  <2>1. PICK g \in Gate : /\ g.kind = "ownership" /\ ClosesOnly(c, g.id)
                          /\ gates' = Append(gates, g)
    BY <1>8 DEF ReportHeld
  <2>2. board' = c /\ settled' = settled
    BY <1>8 DEF ReportHeld
  <2>3. ASSUME NEW n \in DOMAIN board, board[n].loop = 0
        PROVE  PlainAt(c[n], gates', settled', n)
    <3>1. CASE n = g.id
      <4>1. /\ c[n].done
            /\ \/ Owned(gates, n) = {} /\ Answered(settled, n) = {}
               \/ Repeated(c[n])
        BY <1>2, <2>1, <2>3, <3>1 DEF PlainAt, ClosesOnly
      <4>2. Owned(gates', n) = Owned(gates, n) \cup {Len(gates) + 1}
        BY <1>1, <2>1, <3>1, OwnedAppend
      <4>3. Owned(gates', n) # {} /\ (Owned(gates, n) = {} => One(Owned(gates', n)))
        BY <4>2 DEF One
      <4>4. QED
        BY <2>2, <4>1, <4>3 DEF PlainAt
    <3>2. CASE n # g.id
      <4>1. Owned(gates', n) = Owned(gates, n)
        BY <1>1, <2>1, <3>2, OwnedAppend
      <4>2. PlainAt(c[n], gates, settled, n)
        BY <1>1, <1>2, <2>1, <2>3, <3>2, PlainAtAges DEF ClosesOnly
      <4>3. QED
        BY <2>2, <4>1, <4>2 DEF PlainAt
    <3>3. QED
      BY <3>1, <3>2
  <2>4. QED
    BY <1>1, <2>2, <2>3 DEF PInv
<1>9. CASE Still(c, ms, ah)
  BY <1>1, <1>3, <1>9 DEF Still, PInv
<1>10. QED
  BY <1>9, <1>4, <1>5, <1>6, <1>7, <1>8 DEF Handles

LEMMA AnswersKeepPlain ==
  ASSUME IInv, RInv, PInv, EntryDropped \/ WorkAccepted \/ WorkRejected \/ MergeRuled
  PROVE  PInv'
<1> DEFINE g == Head(gates)
<1>1. /\ gates # <<>> /\ board' = board /\ gates \in Seq(Gate) /\ board \in Seq(Row)
  BY DEF EntryDropped, WorkAccepted, WorkRejected, MergeRuled, Answer, IInv, TypeOK
<1>2. /\ Tail(gates) \in Seq(Gate) /\ GateTold(board, g)
  BY <1>1, GatesRest DEF RInv, Told
<1>3. g \in Gate
  BY <1>1, PopGate DEF IInv
<1>4. SUFFICES ASSUME NEW n \in DOMAIN board, board[n].loop = 0
               PROVE  PlainAt(board[n], gates', settled', n)
  BY <1>1 DEF PInv
<1>5. PlainAt(board[n], gates, settled, n)
  BY <1>4 DEF PInv
<1> DEFINE mine == g.kind = "ownership" /\ g.id = n
<1>6. /\ Owned(gates, n) = {} => Owned(Tail(gates), n) = {}
      /\ ~mine /\ One(Owned(gates, n)) => One(Owned(Tail(gates), n))
      /\ ~mine /\ Owned(gates, n) # {} => Owned(Tail(gates), n) # {}
      /\ mine => Owned(gates, n) # {}
      /\ mine /\ One(Owned(gates, n)) => Owned(Tail(gates), n) = {}
  BY <1>1, OwnedTail
<1>7. Owned(gates', n) = Owned(Tail(gates), n)
  <2>1. CASE gates' = Tail(gates)
    BY <2>1
  <2>2. CASE g.kind \in {"fallback", "ownership"} /\ QueueMerge(g.to, g.id, Tail(gates), ahead)
    <3>1. g.to \in Roles /\ g.id \in TaskId
      BY <1>3, <2>2 DEF Gate
    <3>2. QED
      BY <1>2, <2>2, <3>1, OwnedMerge
  <2>3. QED
    BY <2>1, <2>2 DEF EntryDropped, WorkAccepted, WorkRejected, MergeRuled
<1>8. CASE EntryDropped \/ MergeRuled
  <2>1. ~mine /\ Answered(settled', n) = Answered(settled, n)
    <3>1. CASE EntryDropped
      BY <3>1 DEF EntryDropped
    <3>2. CASE MergeRuled
      BY <3>2, AnsweredOther DEF MergeRuled
    <3>3. QED
      BY <1>8, <3>1, <3>2
  <2> HIDE DEF mine
  <2>2. QED
    BY <1>5, <1>6, <1>7, <2>1 DEF PlainAt
<1>9. CASE WorkAccepted \/ WorkRejected
  <2>1. PICK e : /\ e.how \in {"accepted", "rejected"} /\ e.id = g.id
                 /\ settled' = settled \cup {e}
    <3>1. CASE WorkAccepted
      <4>1. PICK e : e = [how |-> "accepted", id |-> g.id, by |-> 0, told |-> Up(Start)]
        OBVIOUS
      <4>2. QED
        BY <3>1, <4>1 DEF WorkAccepted
    <3>2. CASE WorkRejected
      <4>1. PICK e : e = [how |-> "rejected", id |-> g.id, by |-> 0, told |-> Up(Start)]
        OBVIOUS
      <4>2. QED
        BY <3>2, <4>1 DEF WorkRejected
    <3>3. QED
      BY <1>9, <3>1, <3>2
  <2>2. g.kind \in {"fallback", "ownership"}
    BY <1>9 DEF WorkAccepted, WorkRejected
  <2>3. CASE mine
    <3>1. /\ board[n].done
          /\ \/ One(Owned(gates, n)) /\ Answered(settled, n) = {}
             \/ Repeated(board[n])
      BY <1>5, <1>6, <2>3 DEF PlainAt
    <3>2. Answered(settled', n) # {}
      BY <2>1, <2>3 DEF Answered
    <3>3. /\ Answered(settled, n) = {} => One(Answered(settled', n))
          /\ One(Owned(gates, n)) => Owned(gates', n) = {}
      BY <1>6, <1>7, <2>1, <2>3, AnsweredOne
    <3>4. QED
      BY <3>1, <3>2, <3>3 DEF PlainAt
  <2>4. CASE ~mine
    <3>1. g.id # n
      <4>1. CASE g.kind = "fallback"
        <5>1. board[g.id].loop = g.id /\ g.id \in TaskId
          BY <1>2, <1>3, <4>1 DEF GateTold, Gate
        <5>2. QED
          BY <1>4, <5>1 DEF TaskId
      <4>2. CASE g.kind = "ownership"
        BY <2>4, <4>2
      <4>3. QED
        BY <2>2, <4>1, <4>2
    <3>2. Answered(settled', n) = Answered(settled, n)
      BY <2>1, <3>1, AnsweredOther
    <3> HIDE DEF mine
    <3>3. QED
      BY <1>5, <1>6, <1>7, <2>4, <3>2 DEF PlainAt
  <2>5. QED
    BY <2>3, <2>4
<1>10. QED
  BY <1>8, <1>9

\* A reported plain task is accounted for: its report was forwarded to the
\* orchestrator, is held at an ownership gate, or was ruled on there by the user; one
\* reported once, once (dispatch "work-done", approveGate, rejectGate).
THEOREM PlainTasksAccounted == Spec => []PlainAccounted
<1>1. Init => PInv
  BY DEF Init, PInv
<1>2. IInv /\ AInv /\ RInv /\ PInv /\ [Next]_vars => PInv'
  BY EveryStepKind, HandlesKeepPlain, AnswersKeepPlain DEF StepKind
<1>3. PInv => PlainAccounted
  <2>1. SUFFICES ASSUME PInv, NEW n \in DOMAIN board, board[n].loop = 0, board[n].done
                 PROVE  /\ Owned(gates, n) # {} \/ Answered(settled, n) # {}
                        /\ board[n].reports = 1 =>
                             Cardinality(Owned(gates, n)) + Cardinality(Answered(settled, n)) = 1
    BY DEF PlainAccounted, Owned, Answered, HeldAt, Answers
  <2>2. Cardinality({}) = 0 /\ \A S : One(S) => Cardinality(S) = 1 /\ S # {}
    BY FS_EmptySet, FS_Singleton DEF One
  <2>3. board[n].reports = 1 => ~Repeated(board[n])
    BY DEF Repeated
  <2>4. QED
    BY <2>1, <2>2, <2>3 DEF PInv, PlainAt
<1>4. QED
  BY <1>1, <1>2, <1>3, ToldInvariance, PTL DEF Spec

-----------------------------------------------------------------------------
(* Accepted work and its merge gate.  A branch git would not let the deck  *)
(* look at is only logged (unplanned).                                     *)

Work(b, o) == {n \in DOMAIN b : n = o \/ (b[o].loop = o /\ b[n].loop = o /\ b[n].to = b[o].to)}

\* The rows of the task that were reported once: one reported again may have
\* committed after its work was accepted.
WorkOnce(b, o) == {n \in Work(b, o) : b[n].reports = 1}

MergeAt(b, gs, st, ah, un, e) ==
  LET r == b[e.id].to
  IN Accepted(e) /\ ~(e.how = "report" /\ RoundOf(b, e.id))
     /\ r \in Worktrees /\ MergeMode[r] # "manual" /\ WorkOnce(b, e.id) \cap ah[r] # {}
     => \/ \E i \in DOMAIN gs : gs[i] = MergeGate(r, e.id)
        \/ \E x \in st : x.how = "merge-ruled" /\ x.id = e.id
        \/ e.id \in un

MInv == \A e \in settled : MergeAt(board, gates, settled, ahead, unplanned, e)

\* All the work of an accepted task has been reported: a round of its builder
\* still owed would be in flight, but the task has had its outcome.
LEMMA AcceptedIsReported ==
  ASSUME IInv, AInv, RInv, NEW e \in settled, Accepted(e),
         ~(e.how = "report" /\ RoundOf(board, e.id)), NEW n \in Work(board, e.id)
  PROVE  board[n].reports # 0
<1>1. FactTold(board, e) /\ RowsTold(board, loops)
  BY DEF RInv, Told
<1>2. e.id \in DOMAIN board /\ n \in DOMAIN board
  BY <1>1 DEF FactTold, Work
<1>3. CASE board[e.id].loop # e.id
  <2>1. n = e.id
    BY <1>3 DEF Work
  <2>2. QED
    BY <1>1, <1>3, <2>1 DEF FactTold
<1>4. CASE board[e.id].loop = e.id
  <2>1. e.id # 0
    BY <1>2 DEF IInv, TypeOK
  <2>2. e.how \in {"passed", "accepted"}
    BY <1>4, <2>1 DEF RoundOf, Accepted
  <2>3. Flying(loops, e.id) = {}
    <3>1. Once(loops, gates, settled, e.id)
      BY <1>2, <1>4 DEF AInv, Accounted
    <3>2. e \in Ruled(settled, e.id)
      BY <2>2 DEF Ruled
    <3>3. QED
      BY <3>1, <3>2 DEF Once
  <2>4. board[n].loop = e.id /\ board[n].to = board[e.id].to
    BY <1>4 DEF Work
  <2>5. n \notin DOMAIN loops
    BY <2>3, <2>4 DEF Flying, IInv, LoopOnItsTask, OnTask
  <2>6. QED
    BY <1>1, <1>2, <2>1, <2>4, <2>5 DEF RowsTold, Owes, RoundOf
<1>5. QED
  BY <1>3, <1>4

\* What the branches gain is work reported for the first time, or again; a merge
\* gate goes only when it is ruled on: so a task accepted before stays accounted for.
LEMMA StaysMerged ==
  ASSUME IInv, AInv, RInv, NEW e \in settled,
         MergeAt(board, gates, settled, ahead, unplanned, e),
         Aged(board, board'), settled \subseteq settled', unplanned \subseteq unplanned',
         \A r \in Roles : ahead'[r] \subseteq ahead[r] \cup JustReported(board'),
         \A i \in DOMAIN gates : gates[i].kind = "merge" =>
           \/ \E j \in DOMAIN gates' : gates'[j] = gates[i]
           \/ \E x \in settled' : x.how = "merge-ruled" /\ x.id = gates[i].id
  PROVE  MergeAt(board', gates', settled', ahead', unplanned', e)
<1> DEFINE r == board[e.id].to
<1>1. e.id \in DOMAIN board /\ RowsTold(board, loops)
  BY DEF RInv, Told, FactTold
<1>2. r \in Roles
  BY <1>1, RowNames DEF IInv, TypeOK
<1>3. board'[e.id].to = r /\ RowAged(board[e.id], board'[e.id])
  BY <1>1 DEF Aged, RowAged
<1>4. SUFFICES ASSUME Accepted(e), ~(e.how = "report" /\ RoundOf(board', e.id)),
                      r \in Worktrees, MergeMode[r] # "manual",
                      NEW n \in WorkOnce(board', e.id), n \in ahead'[r]
               PROVE  \/ \E i \in DOMAIN gates' : gates'[i] = MergeGate(r, e.id)
                      \/ \E x \in settled' : x.how = "merge-ruled" /\ x.id = e.id
                      \/ e.id \in unplanned'
  BY <1>3 DEF MergeAt
<1>5. n \in DOMAIN board
  <2>1. ahead[r] \subseteq DOMAIN board
    BY <1>2 DEF IInv, TypeOK
  <2>2. QED
    BY <1>2, <1>4, <2>1 DEF JustReported
<1>6. n \in Work(board, e.id) /\ board'[n].reports = 1 /\ RowAged(board[n], board'[n])
  BY <1>1, <1>4, <1>5 DEF WorkOnce, Work, Aged, RowAged
<1>7. ~(e.how = "report" /\ RoundOf(board, e.id))
  <2>1. board[e.id].loop # 0 => RowAged(board[board[e.id].loop], board'[board[e.id].loop])
    BY <1>1 DEF RowsTold, Aged
  <2>2. QED
    BY <1>3, <1>4, <2>1 DEF RoundOf, RowAged
<1>8. board[n].reports # 0
  BY <1>4, <1>6, <1>7, AcceptedIsReported
<1>9. board[n].reports = 1 /\ ~Repeated(board'[n])
  BY <1>6, <1>8 DEF RowAged, Repeated
<1>10. n \in ahead[r]
  BY <1>2, <1>4, <1>8, <1>9 DEF JustReported
<1>11. \/ \E i \in DOMAIN gates : gates[i] = MergeGate(r, e.id)
       \/ \E x \in settled : x.how = "merge-ruled" /\ x.id = e.id
       \/ e.id \in unplanned
  <2>1. n \in WorkOnce(board, e.id)
    BY <1>6, <1>9 DEF WorkOnce
  <2>2. QED
    BY <1>4, <1>7, <1>10, <2>1 DEF MergeAt
<1>12. CASE \E i \in DOMAIN gates : gates[i] = MergeGate(r, e.id)
  <2>1. PICK i \in DOMAIN gates : gates[i] = MergeGate(r, e.id)
    BY <1>12
  <2>2. gates[i].kind = "merge" /\ gates[i].id = e.id
    BY <2>1 DEF MergeGate
  <2>3. QED
    BY <2>1, <2>2
<1>13. CASE (\E x \in settled : x.how = "merge-ruled" /\ x.id = e.id) \/ e.id \in unplanned
  BY <1>13
<1>14. QED
  BY <1>11, <1>12, <1>13

\* The role's merge mode lands the branch of a task it has just been given, or
\* gates it, or finds nothing on it, or cannot look at it.
LEMMA NewlyMerged ==
  ASSUME DOMAIN ahead' = Roles, NEW b \in Seq(Row), NEW e, e.id \in DOMAIN b,
         NEW gs \in Seq(Gate), NEW ah, QueueMerge(b[e.id].to, e.id, gs, ah)
  PROVE  MergeAt(b, gates', settled', ahead', unplanned', e)
<1> DEFINE r == b[e.id].to
           g == MergeGate(r, e.id)
<1>1. r \in Roles /\ e.id \in TaskId
  BY RowNames
<1>2. g \in Gate
  BY <1>1, GateTyped DEF MergeGate
<1> HIDE DEF r, g
<1>3. CASE Land(r, ah)
  <2>1. ahead'[r] = {}
    BY <1>1, <1>3 DEF Land
  <2>2. QED
    BY <2>1 DEF MergeAt, r
<1>4. CASE gates' = Append(gs, g)
  <2>1. gates'[Len(gs) + 1] = g /\ Len(gs) + 1 \in DOMAIN gates'
    BY <1>2, <1>4
  <2>2. QED
    BY <2>1 DEF MergeAt, r, g
<1>5. CASE Refuse(ah) /\ ~(r \in Worktrees /\ MergeMode[r] # "manual" /\ ah[r] # {})
  BY <1>5 DEF Refuse, MergeAt, r
<1>6. CASE Unplanned(e.id, ah)
  BY <1>6 DEF Unplanned, MergeAt
<1>7. QED
  BY <1>3, <1>4, <1>5, <1>6 DEF QueueMerge, r, g

\* Whichever way the merge mode goes, no branch gains a commit by it, and a task that
\* could not be planned stays one.
LEMMA BranchesShrink ==
  ASSUME DOMAIN ahead' = Roles, NEW ah,
         \/ Refuse(ah)
         \/ \E q : Land(q, ah)
         \/ \E q, id, gs : QueueMerge(q, id, gs, ah)
  PROVE  (\A r \in Roles : ahead'[r] \subseteq ah[r]) /\ unplanned \subseteq unplanned'
<1>1. Refuse(ah) \/ (\E q : Land(q, ah)) \/ \E id : Unplanned(id, ah)
  BY DEF QueueMerge
<1>2. CASE Refuse(ah)
  BY <1>2 DEF Refuse
<1>3. ASSUME NEW q, Land(q, ah)
      PROVE  (\A r \in Roles : ahead'[r] \subseteq ah[r]) /\ unplanned \subseteq unplanned'
  BY <1>3 DEF Land
<1>4. ASSUME NEW id, Unplanned(id, ah)
      PROVE  (\A r \in Roles : ahead'[r] \subseteq ah[r]) /\ unplanned \subseteq unplanned'
  BY <1>4 DEF Unplanned
<1>5. QED
  BY <1>1, <1>2, <1>3, <1>4

\* A queue that only grows keeps its merge gates.
LEMMA MergeGatesKept ==
  ASSUME NEW gs \in Seq(Gate), NEW hs \in Seq(Gate), NEW i \in DOMAIN gs
  PROVE  \E j \in DOMAIN (gs \o hs) : (gs \o hs)[j] = gs[i]
BY Concatenation

LEMMA AppendKept ==
  ASSUME NEW gs \in Seq(Gate), NEW g \in Gate, NEW i \in DOMAIN gs
  PROVE  \E j \in DOMAIN Append(gs, g) : Append(gs, g)[j] = gs[i]
<1>1. i \in DOMAIN Append(gs, g) /\ Append(gs, g)[i] = gs[i]
  OBVIOUS
<1>2. QED
  BY <1>1

LEMMA TailKept ==
  ASSUME gates \in Seq(Gate), gates # <<>>, NEW i \in DOMAIN gates
  PROVE  gates[i] = Head(gates) \/ \E j \in DOMAIN Tail(gates) : Tail(gates)[j] = gates[i]
<1>1. CASE i = 1
  BY <1>1
<1>2. CASE i # 1
  <2>1. i - 1 \in DOMAIN Tail(gates) /\ Tail(gates)[i - 1] = gates[i]
    BY <1>2
  <2>2. QED
    BY <2>1
<1>3. QED
  BY <1>1, <1>2

LEMMA QueueKept ==
  ASSUME NEW gs \in Seq(Gate), NEW r \in Roles, NEW id \in TaskId, NEW ah,
         QueueMerge(r, id, gs, ah), NEW i \in DOMAIN gs
  PROVE  \E j \in DOMAIN gates' : gates'[j] = gs[i]
<1> DEFINE g == MergeGate(r, id)
<1>1. g \in Gate
  BY GateTyped DEF MergeGate
<1>2. gates' = gs \/ gates' = Append(gs, g)
  BY DEF QueueMerge
<1> HIDE DEF g
<1>3. QED
  BY <1>1, <1>2, AppendKept

LEMMA HandlesKeepMerged ==
  ASSUME IInv, AInv, RInv, MInv, IInv', NEW c, NEW ms, NEW ah, Handles(c, ms, ah)
  PROVE  MInv'
<1>1. /\ c \in Seq(Row) /\ DOMAIN c = DOMAIN board /\ Aged(board, c) /\ gates \in Seq(Gate)
      /\ \A r \in Roles : ah[r] \subseteq ahead[r] \cup JustReported(c)
  BY DEF Handles, Prepared, IInv, TypeOK
<1>2. DOMAIN ahead' = Roles
  BY DEF IInv, TypeOK
<1>3. Refuse(ah) \/ \E r, id, gs : QueueMerge(r, id, gs, ah)
  BY DEF Handles, Still, Grown, Gated, Passed, ReportTold, ReportHeld
<1>4. /\ \A r \in Roles : ahead'[r] \subseteq ahead[r] \cup JustReported(c)
      /\ unplanned \subseteq unplanned'
  <2>1. (\A r \in Roles : ahead'[r] \subseteq ah[r]) /\ unplanned \subseteq unplanned'
    BY <1>2, <1>3, BranchesShrink
  <2>2. QED
    BY <1>1, <2>1
<1>5. CASE Passed(c, ms, ah) \/ ReportTold(c, ms, ah)
  <2>1. PICK f : FactTold(c, f) /\ settled' = settled \cup {f} /\ QueueMerge(c[f.id].to, f.id, gates, ah)
    BY <1>5 DEF Passed, ReportTold
  <2>2. board' = c /\ f.id \in DOMAIN c
    BY <1>5, <2>1 DEF Passed, ReportTold, FactTold
  <2>3. MergeAt(c, gates', settled', ahead', unplanned', f)
    BY <1>1, <1>2, <2>1, <2>2, NewlyMerged
  <2>4. \A i \in DOMAIN gates : \E j \in DOMAIN gates' : gates'[j] = gates[i]
    BY <1>1, <2>1, <2>2, RowNames, QueueKept
  <2>5. ASSUME NEW e \in settled PROVE MergeAt(board', gates', settled', ahead', unplanned', e)
    BY <1>1, <1>4, <2>1, <2>2, <2>4, StaysMerged DEF MInv
  <2>6. QED
    BY <2>1, <2>2, <2>3, <2>5 DEF MInv
<1>6. CASE Still(c, ms, ah) \/ Grown(c, ms, ah) \/ Gated(c, ms, ah) \/ ReportHeld(c, ms, ah)
  <2>1. settled' = settled
    BY <1>6 DEF Still, Grown, Gated, ReportHeld
  <2>2. Aged(board, board') /\ JustReported(board') = JustReported(c)
    <3>1. CASE Grown(c, ms, ah)
      <4>1. PICK row \in Row : board' = Append(c, row)
        BY <3>1 DEF Grown
      <4>2. DOMAIN board' = DOMAIN c \cup {Len(c) + 1} /\ \A n \in DOMAIN c : board'[n] = c[n]
        BY <1>1, <4>1, AppendRow
      <4>3. QED
        BY <1>1, <4>2 DEF Aged, JustReported
    <3>2. CASE board' = c
      BY <1>1, <3>2
    <3>3. QED
      BY <1>6, <3>1, <3>2 DEF Still, Gated, ReportHeld
  <2>3. \A i \in DOMAIN gates : gates[i].kind = "merge" => \E j \in DOMAIN gates' : gates'[j] = gates[i]
    <3>1. CASE gates' = gates
      BY <3>1
    <3>2. CASE gates # <<>> /\ Head(gates).kind = "entry" /\ gates' = Tail(gates)
      BY <1>1, <3>2, TailKept
    <3>3. CASE \E more \in Seq(Gate) : gates' = gates \o more
      BY <1>1, <3>3, MergeGatesKept
    <3>4. CASE \E g \in Gate : gates' = Append(gates, g)
      BY <1>1, <3>4, AppendKept
    <3>5. QED
      BY <1>6, <3>1, <3>2, <3>3, <3>4 DEF Still, Grown, Gated, ReportHeld
  <2>4. ASSUME NEW e \in settled PROVE MergeAt(board', gates', settled', ahead', unplanned', e)
    BY <1>4, <2>1, <2>2, <2>3, StaysMerged DEF MInv
  <2>5. QED
    BY <2>1, <2>4 DEF MInv
<1>7. QED
  BY <1>5, <1>6 DEF Handles

LEMMA AnswersKeepMerged ==
  ASSUME IInv, AInv, RInv, MInv, IInv',
         EntryDropped \/ WorkAccepted \/ WorkRejected \/ MergeRuled
  PROVE  MInv'
<1> DEFINE g == Head(gates)
<1>1. /\ gates # <<>> /\ board' = board /\ gates \in Seq(Gate) /\ board \in Seq(Row)
  BY DEF EntryDropped, WorkAccepted, WorkRejected, MergeRuled, Answer, IInv, TypeOK
<1>2. /\ Tail(gates) \in Seq(Gate) /\ GateTold(board, g) /\ Aged(board, board')
  BY <1>1, GatesRest DEF RInv, Told, Aged, RowAged
<1>3. g \in Gate
  BY <1>1, PopGate DEF IInv
<1>4. DOMAIN ahead' = Roles
  BY DEF IInv, TypeOK
<1>5. \/ Refuse(ahead) \/ (\E q : Land(q, ahead))
      \/ \E q, id, gs : QueueMerge(q, id, gs, ahead)
  BY DEF EntryDropped, WorkAccepted, WorkRejected, MergeRuled
<1>6. /\ \A r \in Roles : ahead'[r] \subseteq ahead[r] \cup JustReported(board')
      /\ unplanned \subseteq unplanned'
  BY <1>4, <1>5, BranchesShrink
<1>7. CASE WorkAccepted
  <2> DEFINE f == [how |-> "accepted", id |-> g.id, by |-> 0, told |-> Up(Start)]
  <2>1. f.how = "accepted" /\ f.id = g.id /\ settled' = settled \cup {f}
    BY <1>7 DEF WorkAccepted
  <2> HIDE DEF f
  <2>2. g.kind \in {"fallback", "ownership"} /\ QueueMerge(g.to, g.id, Tail(gates), ahead)
    BY <1>7 DEF WorkAccepted
  <2>3. /\ g.to \in Roles /\ g.id \in TaskId /\ g.id \in DOMAIN board
        /\ g.to = board[g.id].to
    BY <1>2, <1>3, <2>2 DEF Gate, GateTold
  <2>4. MergeAt(board, gates', settled', ahead', unplanned', f)
    BY <1>1, <1>2, <1>4, <2>1, <2>2, <2>3, NewlyMerged
  <2>5. ASSUME NEW i \in DOMAIN gates, gates[i].kind = "merge"
        PROVE  \E j \in DOMAIN gates' : gates'[j] = gates[i]
    <3>1. PICK k \in DOMAIN Tail(gates) : Tail(gates)[k] = gates[i]
      BY <1>1, <2>2, <2>5, TailKept
    <3> DEFINE gs == Tail(gates)
    <3>2. gs \in Seq(Gate) /\ QueueMerge(g.to, g.id, gs, ahead) /\ k \in DOMAIN gs /\ gs[k] = gates[i]
      BY <1>2, <2>2, <3>1
    <3> HIDE DEF gs, g
    <3>3. QED
      BY <2>3, <3>2, QueueKept
  <2>6. ASSUME NEW e \in settled PROVE MergeAt(board', gates', settled', ahead', unplanned', e)
    BY <1>2, <1>6, <2>1, <2>5, StaysMerged DEF MInv
  <2>7. QED
    BY <1>1, <2>1, <2>4, <2>6 DEF MInv
<1>8. CASE EntryDropped \/ WorkRejected \/ MergeRuled
  <2>1. gates' = Tail(gates) /\ settled \subseteq settled'
    BY <1>8 DEF EntryDropped, WorkRejected, MergeRuled
  <2>2. g.kind = "merge" => \E x \in settled' : x.how = "merge-ruled" /\ x.id = g.id
    <3>1. CASE MergeRuled
      <4>1. PICK x : x = [how |-> "merge-ruled", id |-> g.id, by |-> 0, told |-> Up(Start)]
        OBVIOUS
      <4>2. x \in settled' /\ x.how = "merge-ruled" /\ x.id = g.id
        BY <3>1, <4>1 DEF MergeRuled
      <4>3. QED
        BY <4>2
    <3>2. QED
      BY <1>8, <3>1 DEF EntryDropped, WorkRejected
  <2>3. ASSUME NEW i \in DOMAIN gates, gates[i].kind = "merge"
        PROVE  \/ \E j \in DOMAIN gates' : gates'[j] = gates[i]
               \/ \E x \in settled' : x.how = "merge-ruled" /\ x.id = gates[i].id
    BY <1>1, <2>1, <2>2, <2>3, TailKept
  <2>4. ASSUME NEW e \in settled PROVE MergeAt(board', gates', settled', ahead', unplanned', e)
    BY <1>2, <1>6, <2>1, <2>3, StaysMerged DEF MInv
  <2>5. ASSUME NEW e \in settled' \ settled PROVE MergeAt(board', gates', settled', ahead', unplanned', e)
    <3>1. e.how \in {"rejected", "merge-ruled"}
      BY <1>8, <2>5 DEF EntryDropped, WorkRejected, MergeRuled
    <3>2. QED
      BY <3>1 DEF MergeAt, Accepted
  <2>6. QED
    BY <2>4, <2>5 DEF MInv
<1>9. QED
  BY <1>7, <1>8

\* Accepted work of a worktree role with a merge mode is not silently left on its
\* branch: what of it is not merged has a merge gate pending for the task, or the
\* user has ruled on that gate, or git would not let the deck plan the merge
\* (queueMerge, performMerge).  Not said of a row that is reported again.
THEOREM AcceptedWorkMerges == Spec => []MergeAccounted
<1>1. Init => MInv
  BY DEF Init, MInv
<1>2. IInv /\ AInv /\ RInv /\ MInv /\ [Next]_vars => MInv'
  <2>1. SUFFICES ASSUME IInv, AInv, RInv, MInv, [Next]_vars PROVE MInv'
    OBVIOUS
  <2>2. IInv'
    BY <2>1, NextIInv
  <2>3. StepKind
    BY <2>1, EveryStepKind
  <2>4. QED
    BY <2>1, <2>2, <2>3, HandlesKeepMerged, AnswersKeepMerged DEF StepKind
<1>3. MInv => MergeAccounted
  <2>1. SUFFICES ASSUME MInv, NEW e \in settled,
                        Accepted(e), ~(e.how = "report" /\ BuilderRound(e.id)),
                        board[e.id].to \in Worktrees, MergeMode[board[e.id].to] # "manual",
                        {n \in WorkOf(e.id) : board[n].reports = 1} \cap ahead[board[e.id].to] # {}
                 PROVE  \/ \E i \in DOMAIN gates : gates[i] = MergeGate(board[e.id].to, e.id)
                        \/ \E x \in settled : x.how = "merge-ruled" /\ x.id = e.id
                        \/ e.id \in unplanned
    BY DEF MergeAccounted
  <2>2. WorkOnce(board, e.id) = {n \in WorkOf(e.id) : board[n].reports = 1}
    BY DEF WorkOnce, Work, WorkOf
  <2>3. RoundOf(board, e.id) <=> BuilderRound(e.id)
    BY DEF RoundOf, BuilderRound
  <2>4. QED
    BY <2>1, <2>2, <2>3 DEF MInv, MergeAt
<1>4. QED
  BY <1>1, <1>2, <1>3, ToldInvariance, PTL DEF Spec

=============================================================================
