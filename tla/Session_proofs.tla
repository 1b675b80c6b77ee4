---------------------------- MODULE Session_proofs ----------------------------
(***************************************************************************)
(* What the snapshot promises, for every team, configuration and number of *)
(* crashes: between two messages it is up to date; the task ids of a       *)
(* session stay unique; roster indices stay valid; no request vanishes and *)
(* tasks in flight restore as in flight.  Session implements Ledger.       *)
(***************************************************************************)
EXTENDS Session, WellFoundedInduction, TLAPS

\* A record with the fields of a session's state, whatever they hold
IsMemory(m) ==
  m = [life |-> m.life, path |-> m.path, seq |-> m.seq, slots |-> m.slots,
       board |-> m.board, gates |-> m.gates, handoff |-> m.handoff]

Shape ==
  /\ IsMemory(mem) /\ IsMemory(disk)
  /\ lives \in Nat
  /\ mem.life \in 0..lives /\ disk.life \in 0..lives
  /\ mem.seq \in Nat /\ disk.seq \in Nat
  /\ todo \in Plans
  /\ mem.life = 0 => todo = <<>>

\* What memory and snapshot have in common, when both are of one session, and
\* what there is to lose when they are not
InStep ==
  IF disk.life = mem.life
  THEN disk.board = mem.board /\ disk.gates = mem.gates /\ disk.seq = mem.seq
  ELSE mem.board = <<>> /\ mem.gates = <<>> /\ mem.seq = 0

\* Only a handler whose next effect is the save is ahead of the snapshot
AheadOnlyToSave == Up /\ ~Does("save") => InStep

LEMMA OneIsNotTwo ==
  ASSUME NEW a, NEW b, NEW c
  PROVE  <<a>> # <<b, c>>
<1>1. Len(<<a>>) = 1 /\ Len(<<b, c>>) = 2
  OBVIOUS
<1> QED
  BY <1>1

\* What is left of a plan when its next effect is done
LEMMA PlanGoesOn ==
  ASSUME todo \in Plans, todo # <<>>, todo' = Tail(todo)
  PROVE  /\ todo' \in Plans
         /\ ~Does("save")'
         /\ todo' = <<"tell">> => todo = <<"save", "tell">>
         /\ todo' # <<"save", "tell">>
<1>1. ASSUME todo' = <<>>
      PROVE  /\ todo' \in Plans /\ ~Does("save")'
             /\ todo' # <<"tell">> /\ todo' # <<"save", "tell">>
  BY <1>1 DEF Plans, Does
<1>2. ASSUME NEW e \in {"tell", "hear", "carry", "stop", "reload"}, todo' = <<e>>,
             e = "tell" => todo = <<"save", "tell">>
      PROVE  /\ todo' \in Plans /\ ~Does("save")'
             /\ todo' = <<"tell">> => todo = <<"save", "tell">>
             /\ todo' # <<"save", "tell">>
  <2>1. todo' \in Plans
    BY <1>2 DEF Plans
  <2>2. ~Does("save")'
    BY <1>2 DEF Does
  <2>3. todo' = <<"tell">> => e = "tell"
    BY <1>2
  <2>4. todo' # <<"save", "tell">>
    BY <1>2, OneIsNotTwo
  <2> QED
    BY <1>2, <2>1, <2>2, <2>3, <2>4
<1>3. CASE \E e \in {"save", "tell", "hear", "carry", "stop", "reload"} : todo = <<e>>
  <2>1. todo' = <<>>
    BY <1>3
  <2> QED
    BY <1>1, <2>1
<1>4. CASE \E e \in {"tell", "hear", "carry", "stop"} : todo = <<"save", e>>
  <2>1. PICK e \in {"tell", "hear", "carry", "stop"} : todo = <<"save", e>>
    BY <1>4
  <2>2. todo' = <<e>>
    BY <2>1
  <2>3. e = "tell" => todo = <<"save", "tell">>
    BY <2>1
  <2> QED
    BY <1>2, <2>2, <2>3
<1>5. CASE todo = <<"append", "reload">>
  <2>1. todo' = <<"reload">>
    BY <1>5
  <2> QED
    BY <1>2, <2>1
<1>6. CASE todo = <<"resolve", "hear">>
  <2>1. todo' = <<"hear">>
    BY <1>6
  <2> QED
    BY <1>2, <2>1
<1>7. CASE todo = <<"save", "resolve", "hear">>
  <2>1. todo' = <<"resolve", "hear">>
    BY <1>7
  <2>2. todo'[1] = "resolve" /\ Head(todo') = "resolve"
    BY <2>1
  <2>3. todo' # <<"tell">>
    BY <2>1, OneIsNotTwo
  <2>4. todo' # <<"save", "tell">>
    <3>1. <<"save", "tell">>[1] = "save"
      OBVIOUS
    <3> QED
      BY <2>2, <3>1
  <2>5. ~Does("save")'
    BY <2>2 DEF Does
  <2>6. todo' \in Plans
    BY <2>1 DEF Plans
  <2> QED
    BY <2>3, <2>4, <2>5, <2>6
<1>8. \/ \E e \in {"save", "tell", "hear", "carry", "stop", "reload"} : todo = <<e>>
      \/ \E e \in {"tell", "hear", "carry", "stop"} : todo = <<"save", e>>
      \/ todo \in {<<"append", "reload">>, <<"resolve", "hear">>, <<"save", "resolve", "hear">>}
  BY DEF Plans
<1> QED
  BY <1>3, <1>4, <1>5, <1>6, <1>7, <1>8

-----------------------------------------------------------------------------
(* What a step can be, as far as the snapshot and the ids go *)

\* The plans in which a task's id is still to be told
TellPlans == {<<"save", "tell">>, <<"tell">>}

SavePlans == {<<"save">>, <<"save", "hear">>, <<"save", "carry">>, <<"save", "stop">>,
              <<"save", "resolve", "hear">>}

SameCore(m) ==
  /\ IsMemory(mem')
  /\ mem'.life = m.life /\ mem'.seq = m.seq /\ mem'.board = m.board /\ mem'.gates = m.gates

\* The snapshot is taken
Saves ==
  /\ Does("save") /\ Goes
  /\ disk' = mem /\ mem' = mem /\ lives' = lives /\ told' = told

\* A task's id is told
Tells ==
  /\ todo = <<"tell">> /\ todo' = <<>>
  /\ disk' = disk /\ mem' = mem /\ lives' = lives
  /\ told' = told \union {[life |-> mem.life, id |-> job.id, n |-> job.n]}

\* Nothing the snapshot keeps is changed
Stays ==
  /\ Up /\ disk' = disk /\ mem' = mem /\ lives' = lives /\ told' = told
  /\ ~Does("save") /\ todo' \in Plans \ TellPlans

\* The deck's memory is changed, to be saved next
Changes ==
  /\ Up /\ disk' = disk /\ lives' = lives /\ told' = told
  /\ IsMemory(mem') /\ mem'.life = mem.life /\ mem'.seq = mem.seq
  /\ todo' \in SavePlans

\* A task's id is taken, to be saved next
Issues ==
  /\ Up /\ disk' = disk /\ lives' = lives /\ told' = told
  /\ IsMemory(mem') /\ mem'.life = mem.life /\ mem'.seq = mem.seq + 1
  /\ todo' = <<"save", "tell">> /\ job'.id = mem'.seq

\* Memory is lost
Forgets ==
  /\ mem' = Blank /\ todo' = <<>>
  /\ disk' = disk /\ lives' = lives /\ told' = told

\* A deck starts, afresh or from the snapshot
Starts ==
  /\ ~Up /\ disk' = disk /\ todo' = todo /\ told' = told
  /\ \/ lives' = lives + 1 /\ SameCore([Blank EXCEPT !.life = lives + 1])
     \/ lives' = lives /\ disk.life > 0 /\ SameCore(disk)

\* The world moves
Elsewhere ==
  UNCHANGED <<mem, disk, todo, job, lives, told>>

Kind ==
  Saves \/ Tells \/ Stays \/ Changes \/ Issues \/ Forgets \/ Starts \/ Elsewhere

LEMMA Shortest ==
  ASSUME todo \in Plans, NEW e, Does(e), e \in {"tell", "stop", "hear", "carry", "reload"}
  PROVE  todo = <<e>>
BY DEF Plans, Does

LEMMA NotTellPlans ==
  /\ <<>> \in Plans \ TellPlans
  /\ \A e \in {"save", "hear", "carry", "stop", "reload"} : <<e>> \in Plans \ TellPlans
  /\ <<"append", "reload">> \in Plans \ TellPlans
BY OneIsNotTwo DEF Plans, TellPlans

LEMMA IssueIssues ==
  ASSUME Shape, Up, NEW r, NEW n, Issue(r, n), UNCHANGED <<disk, lives, told>>
  PROVE  Issues
<1>1. IsMemory(mem') /\ mem'.life = mem.life /\ mem'.seq = mem.seq + 1
  BY DEF Issue, Shape, IsMemory
<1> QED
  BY <1>1 DEF Issue, Issues

LEMMA HoldChanges ==
  ASSUME Shape, Up, NEW request, Hold(request), UNCHANGED <<disk, lives, told>>
  PROVE  Changes
<1>1. IsMemory(mem') /\ mem'.life = mem.life /\ mem'.seq = mem.seq
  BY DEF Hold, Shape, IsMemory
<1> QED
  BY <1>1 DEF Hold, Changes, SavePlans

LEMMA Handlers ==
  ASSUME Shape, Handler
  PROVE  Kind /\ todo' \in Plans
<1> USE DEF Kind
<1>0. \A e : Does(e) => todo # <<>> /\ Up
  BY DEF Does, Shape, Up
<1>1. CASE Save
  <2>1. Saves
    BY <1>1 DEF Save, Saves, history
  <2> QED
    BY <2>1, PlanGoesOn DEF Saves, Goes, Does, Shape
<1>2. CASE Tell
  <2>1. todo = <<"tell">>
    BY <1>2, Shortest DEF Tell, Shape
  <2>2. todo' = <<>>
    BY <1>2, <2>1 DEF Tell, Goes
  <2> QED
    BY <1>2, <2>1, <2>2, NotTellPlans DEF Tell, Tells
<1>3. CASE Hear
  <2>0. todo = <<"hear">>
    BY <1>3, Shortest DEF Hear, Shape
  <2>1. todo' = <<>>
    BY <1>3, <2>0 DEF Hear, Goes
  <2>2. Stays
    BY <1>0, <1>3, <2>1, NotTellPlans DEF Hear, Stays, Does
  <2> QED
    BY <2>2 DEF Stays
<1>4. CASE AppendBlock
  <2>1. todo' \in Plans /\ todo' # <<"tell">> /\ todo' # <<"save", "tell">>
    BY <1>0, <1>4, PlanGoesOn DEF AppendBlock, Goes, Does, Shape
  <2>2. Stays
    BY <1>0, <1>4, <2>1 DEF AppendBlock, Stays, Does, TellPlans, history
  <2> QED
    BY <2>1, <2>2
<1>5. CASE Resolve
  <2>1. CASE mem' = mem /\ Goes
    <3>1. todo' \in Plans /\ todo' # <<"tell">> /\ todo' # <<"save", "tell">>
      BY <1>0, <1>5, <2>1, PlanGoesOn DEF Resolve, Goes, Does, Shape
    <3>2. Stays
      BY <1>0, <1>5, <2>1, <3>1 DEF Resolve, Stays, Does, TellPlans, history
    <3> QED
      BY <3>1, <3>2
  <2>2. CASE todo' = <<"save", "hear">> /\ \E board : mem' = [mem EXCEPT !.board = board]
    <3>1. IsMemory(mem') /\ mem'.life = mem.life /\ mem'.seq = mem.seq
      BY <2>2 DEF Shape, IsMemory
    <3>2. Changes
      BY <1>0, <1>5, <2>2, <3>1 DEF Resolve, Changes, SavePlans, history
    <3> QED
      BY <2>2, <3>2 DEF Plans
  <2> QED
    BY <1>5, <2>1, <2>2 DEF Resolve
<1>6. CASE Reload
  <2>1. \E slots, gates : mem' = [mem EXCEPT !.slots = slots, !.gates = gates]
    BY <1>6 DEF Reload
  <2>2. IsMemory(mem') /\ mem'.life = mem.life /\ mem'.seq = mem.seq
    BY <2>1 DEF Shape, IsMemory
  <2>3. todo' \in {<<"save">>, <<"save", "hear">>}
    BY <1>6 DEF Reload
  <2>4. Changes
    BY <1>0, <1>6, <2>2, <2>3 DEF Reload, Changes, SavePlans
  <2> QED
    BY <2>3, <2>4 DEF Plans
<1>7. CASE CarryOut
  <2>1. CASE Issue(job.to, job.n)
    <3>1. Issues
      BY <1>0, <1>7, <2>1, IssueIssues DEF CarryOut
    <3> QED
      BY <3>1 DEF Issues, Plans
  <2>2. CASE mem' = mem /\ Goes
    <3>0. todo = <<"carry">>
      BY <1>7, Shortest DEF CarryOut, Shape
    <3>1. todo' = <<>>
      BY <2>2, <3>0 DEF Goes
    <3>2. Stays
      BY <1>0, <1>7, <2>2, <3>1, NotTellPlans DEF CarryOut, Stays, Does
    <3> QED
      BY <3>2 DEF Stays
  <2>3. CASE mem' = mem /\ todo' = <<"append", "reload">>
    <3>1. Stays
      BY <1>0, <1>7, <2>3, NotTellPlans DEF CarryOut, Stays, Does
    <3> QED
      BY <3>1 DEF Stays
  <2> QED
    BY <1>7, <2>1, <2>2, <2>3 DEF CarryOut
<1>8. CASE Stop
  <2>0. todo = <<"stop">>
    BY <1>8, Shortest DEF Stop, Shape
  <2>1. todo' = <<>>
    BY <1>8, <2>0 DEF Stop, Goes
  <2> QED
    BY <1>8, <2>1, NotTellPlans DEF Stop, Forgets, history
<1> QED
  BY <1>1, <1>2, <1>3, <1>4, <1>5, <1>6, <1>7, <1>8 DEF Handler

LEMMA Messages ==
  ASSUME Shape, Message
  PROVE  Kind /\ todo' \in Plans
<1> USE DEF Kind
<1>1. ASSUME Idle, Changes
      PROVE  Kind /\ todo' \in Plans
  BY <1>1 DEF Changes, SavePlans, Plans
<1>2. ASSUME NEW r \in Names, Delegate(r)
      PROVE  Kind /\ todo' \in Plans
  <2>1. CASE Issue(r, Ticket)
    <3>1. Issues
      BY <1>2, <2>1, IssueIssues DEF Delegate, Idle
    <3> QED
      BY <3>1 DEF Issues, Plans
  <2>2. CASE Hold(Request("delegate", r, Ticket))
    <3>1. Changes
      BY <1>2, <2>2, HoldChanges DEF Delegate, Idle
    <3> QED
      BY <1>1, <1>2, <3>1 DEF Delegate
  <2> QED
    BY <1>2, <2>1, <2>2 DEF Delegate
<1>3. ASSUME NEW r \in Names, Propose(r)
      PROVE  Kind /\ todo' \in Plans
  <2>1. CASE mem' = mem /\ todo' = <<"append", "reload">>
    BY <1>3, <2>1, NotTellPlans DEF Propose, Idle, Stays, Does
  <2>2. CASE Hold(Request("roster", r, Ticket))
    <3>1. Changes
      BY <1>3, <2>2, HoldChanges DEF Propose, Idle
    <3> QED
      BY <1>1, <1>3, <3>1 DEF Propose
  <2> QED
    BY <1>3, <2>1, <2>2 DEF Propose
<1>4. ASSUME NEW t \in told, WorkDone(t)
      PROVE  Kind /\ todo' \in Plans
  <2>1. IsMemory(mem') /\ mem'.life = mem.life /\ mem'.seq = mem.seq
    BY <1>4 DEF WorkDone, Shape, IsMemory
  <2>2. Changes
    BY <1>4, <2>1 DEF WorkDone, Idle, Changes, SavePlans, history
  <2> QED
    BY <1>1, <1>4, <2>2 DEF WorkDone
<1>5. ASSUME NEW then \in {"carry", "hear"}, Rule(then)
      PROVE  Kind /\ todo' \in Plans
  <2>1. IsMemory(mem') /\ mem'.life = mem.life /\ mem'.seq = mem.seq
    BY <1>5 DEF Rule, Shape, IsMemory
  <2>2. Changes
    BY <1>5, <2>1 DEF Rule, Idle, Changes, SavePlans, history
  <2> QED
    BY <1>1, <1>5, <2>2 DEF Rule
<1>6. CASE AskReload
  BY <1>6, NotTellPlans DEF AskReload, Idle, Stays, Does, history
<1>7. ASSUME NEW p \in Paths, Handoff(p)
      PROVE  Kind /\ todo' \in Plans
  <2>1. IsMemory(mem') /\ mem'.life = mem.life /\ mem'.seq = mem.seq
    BY <1>7 DEF Handoff, Shape, IsMemory
  <2>2. Changes
    BY <1>7, <2>1 DEF Handoff, Idle, Changes, SavePlans, history
  <2> QED
    BY <1>1, <1>7, <2>2 DEF Handoff
<1>8. CASE Quit
  <2>1. Changes
    BY <1>8 DEF Quit, Shape, Idle, Changes, SavePlans, history
  <2> QED
    BY <1>1, <1>8, <2>1 DEF Quit
<1> QED
  BY <1>2, <1>3, <1>4, <1>5, <1>6, <1>7, <1>8 DEF Message, ApproveGate, RejectGate

LEMMA Worlds ==
  ASSUME Shape, World
  PROVE  Kind /\ todo' \in Plans
<1> USE DEF Kind
<1>1. CASE Crash
  BY <1>1, NotTellPlans DEF Crash, Forgets
<1>2. ASSUME NEW p \in Paths, Start(p)
      PROVE  Starts
  <2>1. \E slots : mem' = [Blank EXCEPT !.life = lives + 1, !.path = p, !.slots = slots]
    BY <1>2 DEF Start
  <2>2. SameCore([Blank EXCEPT !.life = lives + 1])
    BY <2>1 DEF SameCore, Blank, IsMemory
  <2> QED
    BY <1>2, <2>2 DEF Start, Starts
<1>3. ASSUME NEW p \in Paths, Resume(p)
      PROVE  Starts
  <2>1. \E slots : mem' = [disk EXCEPT !.handoff = FALSE, !.slots = slots]
    BY <1>3 DEF Resume
  <2>2. SameCore(disk)
    BY <2>1 DEF SameCore, Shape, IsMemory
  <2> QED
    BY <1>3, <2>2 DEF Resume, Starts, history
<1>4. ASSUME NEW e \in Edited, Edit(e[1], e[2])
      PROVE  Elsewhere
  BY <1>4 DEF Edit, Elsewhere, history
<1>5. Starts \/ Elsewhere => todo' \in Plans
  BY DEF Starts, Elsewhere, Shape
<1> QED
  BY <1>1, <1>2, <1>3, <1>4, <1>5 DEF World

LEMMA Steps ==
  ASSUME Shape, [Next]_vars
  PROVE  Kind /\ todo' \in Plans
<1>1. CASE UNCHANGED vars
  BY <1>1 DEF vars, history, Kind, Elsewhere, Shape
<1> QED
  BY <1>1, Handlers, Messages, Worlds DEF Next

-----------------------------------------------------------------------------
(* The snapshot is up to date between messages *)

LEMMA ShapeStep ==
  ASSUME Shape, [Next]_vars
  PROVE  Shape'
<1>1. Kind /\ todo' \in Plans
  BY Steps
<1>2. CASE Saves \/ Tells \/ Stays \/ Elsewhere
  BY <1>1, <1>2 DEF Saves, Tells, Stays, Elsewhere, Shape, IsMemory, Up, Does, Goes
<1>3. CASE Changes \/ Issues
  BY <1>1, <1>3 DEF Changes, Issues, Shape, IsMemory, Up
<1>4. CASE Forgets
  BY <1>1, <1>4 DEF Forgets, Blank, Shape, IsMemory
<1>5. CASE Starts
  BY <1>1, <1>5 DEF Starts, SameCore, Blank, Shape, IsMemory, Up
<1> QED
  BY <1>1, <1>2, <1>3, <1>4, <1>5 DEF Kind

SyncInv == Shape /\ AheadOnlyToSave

LEMMA SyncInit == Init => SyncInv
BY DEF Init, SyncInv, Shape, IsMemory, AheadOnlyToSave, Blank, Plans, Up

LEMMA SyncStep == SyncInv /\ [Next]_vars => SyncInv'
<1> SUFFICES ASSUME SyncInv, [Next]_vars
             PROVE  AheadOnlyToSave'
  BY ShapeStep DEF SyncInv
<1> USE DEF AheadOnlyToSave
<1>1. Kind
  BY Steps DEF SyncInv
<1>2. CASE Saves
  BY <1>2 DEF Saves, InStep
<1>3. CASE Tells
  <2>1. ~Does("save") /\ Up
    BY <1>3 DEF Tells, Does, SyncInv, Shape, Up
  <2> QED
    BY <1>3, <2>1 DEF Tells, SyncInv, InStep
<1>4. CASE Stays
  BY <1>4 DEF Stays, SyncInv, InStep
<1>5. CASE Changes
  <2>1. Does("save")'
    BY <1>5 DEF Changes, SavePlans, Does
  <2> QED
    BY <2>1
<1>6. CASE Issues
  <2>1. Does("save")'
    BY <1>6 DEF Issues, Does
  <2> QED
    BY <2>1
<1>7. CASE Forgets
  BY <1>7 DEF Forgets, Blank, Up
<1>8. CASE Starts
  BY <1>8 DEF Starts, SameCore, Blank, InStep, SyncInv, Shape, Up
<1>9. CASE Elsewhere
  BY <1>9 DEF Elsewhere, Does, Up, InStep, SyncInv
<1> QED
  BY <1>1, <1>2, <1>3, <1>4, <1>5, <1>6, <1>7, <1>8, <1>9 DEF Kind

LEMMA SyncAlways == Spec => []SyncInv
BY SyncInit, SyncStep, PTL DEF Spec

\* Between two messages no row, gate or id would be lost to a crash: the
\* snapshot agrees with memory, or nothing was recorded yet (saveSnapshot).
THEOREM SnapshotUpToDate == Spec => []Synced
<1>1. SyncInv => Synced
  BY DEF SyncInv, AheadOnlyToSave, InStep, Synced, Idle, Does
<1> QED
  BY <1>1, SyncAlways, PTL

-----------------------------------------------------------------------------
(* The ids of a session stay unique *)

\* A told id is of a session already started, and no larger than the snapshot's
\* taskSeq if the snapshot is of that session; a session in memory some of whose
\* ids were told is the snapshot's, and its taskSeq has not fallen behind
IdsKnown ==
  /\ \A t \in told : t.life \in 1..lives /\ t.id \in Nat
  /\ \A t \in told : t.life = disk.life => t.id <= disk.seq
  /\ \A t \in told : t.life = mem.life => disk.life = mem.life
  /\ Up /\ disk.life = mem.life => disk.seq <= mem.seq

\* An id about to be told is larger than every one told before it in its session,
\* and the snapshot knows of it once it is saved
IdFresh ==
  todo \in TellPlans =>
    /\ job.id = mem.seq
    /\ \A t \in told : t.life = mem.life => t.id < mem.seq
    /\ todo = <<"tell">> => disk.life = mem.life

IdsInv == SyncInv /\ IdsKnown /\ IdFresh /\ IdsUnique

LEMMA IdsInit == Init => IdsInv
<1>1. Init => IdFresh
  BY OneIsNotTwo DEF Init, IdFresh, TellPlans
<1> QED
  BY <1>1, SyncInit DEF Init, IdsInv, IdsKnown, IdsUnique, Blank

LEMMA SavePlansTellNothing == SavePlans \cap TellPlans = {}
<1>1. \A e, f : <<e, f>>[2] = f
  OBVIOUS
<1>2. Len(<<"save", "resolve", "hear">>) = 3 /\ Len(<<"tell">>) = 1 /\ Len(<<"save", "tell">>) = 2
  OBVIOUS
<1> QED
  BY <1>1, <1>2, OneIsNotTwo DEF SavePlans, TellPlans

LEMMA IdsStep == IdsInv /\ [Next]_vars => IdsInv'
<1> SUFFICES ASSUME IdsInv, [Next]_vars
             PROVE  IdsKnown' /\ IdFresh' /\ IdsUnique'
  BY SyncStep DEF IdsInv
<1>0. Kind /\ Shape /\ Shape'
  BY Steps, ShapeStep DEF IdsInv, SyncInv
<1>1. CASE Saves
  <2>1. IdsKnown'
    BY <1>0, <1>1 DEF Saves, IdsInv, IdsKnown, Shape, Up
  <2>2. IdFresh'
    <3>1. todo' # <<"save", "tell">> /\ (todo' = <<"tell">> => todo = <<"save", "tell">>)
      BY <1>0, <1>1, PlanGoesOn DEF Saves, Goes, Does, Shape
    <3>2. todo = <<"save", "tell">> => job' = job
      BY <1>1 DEF Saves, Goes
    <3> QED
      BY <1>1, <3>1, <3>2 DEF Saves, IdsInv, IdFresh, TellPlans
  <2> QED
    BY <1>1, <2>1, <2>2 DEF Saves, IdsInv, IdsUnique
<1>2. CASE Tells
  <2>1. /\ mem.life \in 1..lives /\ disk.life = mem.life /\ disk.seq = mem.seq /\ job.id = mem.seq
        /\ \A t \in told : t.life = mem.life => t.id < mem.seq
    <3>1. Up /\ ~Does("save")
      BY <1>0, <1>2 DEF Tells, Does, Shape, Up
    <3>2. InStep
      BY <3>1 DEF IdsInv, SyncInv, AheadOnlyToSave
    <3> QED
      BY <1>0, <1>2, <3>1, <3>2 DEF Tells, IdsInv, IdFresh, IdsKnown, TellPlans, InStep, Shape, Up
  <2>2. IdsKnown'
    BY <1>0, <1>2, <2>1 DEF Tells, IdsInv, IdsKnown, Shape, Up
  <2>3. IdFresh'
    BY <1>2, NotTellPlans DEF Tells, IdFresh
  <2>4. IdsUnique'
    BY <1>0, <1>2, <2>1 DEF Tells, IdsInv, IdsKnown, IdsUnique, Shape
  <2> QED
    BY <2>2, <2>3, <2>4
<1>3. CASE Stays
  BY <1>3 DEF Stays, Up, IdsInv, IdsKnown, IdFresh, IdsUnique
<1>4. CASE Changes
  BY <1>4, SavePlansTellNothing DEF Changes, Up, IdsInv, IdsKnown, IdFresh, IdsUnique
<1>5. CASE Issues
  <2>1. IdsKnown'
    BY <1>0, <1>5 DEF Issues, IdsInv, IdsKnown, Shape, Up
  <2>2. IdFresh'
    <3>1. todo' # <<"tell">>
      BY <1>5, OneIsNotTwo DEF Issues
    <3>2. \A t \in told : t.life = mem.life => t.id < mem.seq + 1
      BY <1>0, <1>5 DEF Issues, IdsInv, IdsKnown, Shape, Up
    <3> QED
      BY <1>5, <3>1, <3>2 DEF Issues, IdFresh
  <2> QED
    BY <1>5, <2>1, <2>2 DEF Issues, IdsInv, IdsUnique
<1>6. CASE Forgets
  <2>1. IdsKnown'
    BY <1>0, <1>6 DEF Forgets, Blank, IdsInv, IdsKnown, Shape, Up
  <2> QED
    BY <1>6, <2>1, NotTellPlans DEF Forgets, IdsInv, IdFresh, IdsUnique
<1>7. CASE Starts
  <2>1. IdsKnown'
    BY <1>0, <1>7 DEF Starts, SameCore, Blank, IdsInv, IdsKnown, Shape, Up
  <2>2. todo' = <<>>
    BY <1>0, <1>7 DEF Starts, Shape, Up
  <2> QED
    BY <1>7, <2>1, <2>2, NotTellPlans DEF Starts, IdsInv, IdFresh, IdsUnique
<1>8. CASE Elsewhere
  BY <1>8 DEF Elsewhere, Up, IdsInv, IdsKnown, IdFresh, IdsUnique
<1> QED
  BY <1>0, <1>1, <1>2, <1>3, <1>4, <1>5, <1>6, <1>7, <1>8 DEF Kind

\* No two tasks that workers were given carry one id of one session, however
\* often the deck dies and is resumed in between (deliverDelegate, applyResume).
THEOREM IdsStayUnique == Spec => []IdsUnique
<1>1. IdsInv => IdsUnique
  BY DEF IdsInv
<1> QED
  BY <1>1, IdsInit, IdsStep, PTL DEF Spec

-----------------------------------------------------------------------------
(* Folds, element by element *)

\* The numbers, one by one
LEMMA Upwards ==
  ASSUME NEW S, 0 \in S, \A k \in Nat : k \in S => k + 1 \in S
  PROVE  Nat \subseteq S
<1> DEFINE T == Nat \ S
           R == OpToRel(<, Nat)
<1> SUFFICES ASSUME T # {} PROVE FALSE
  BY Zenon
<1>1. IsWellFoundedOn(R, Nat)
  BY NatLessThanWellFounded
<1>2. PICK x \in T : \A y \in T : ~(<<y, x>> \in R)
  BY <1>1, WFMin
<1>3. \A y \in T : ~(y < x)
  BY <1>2 DEF OpToRel
<1>4. x \in Nat /\ x # 0 /\ x \notin S
  OBVIOUS
<1>5. x - 1 \in Nat /\ x - 1 < x /\ (x - 1) + 1 = x
  BY <1>4
<1>6. x - 1 \in S
  BY <1>3, <1>5
<1> QED
  BY <1>4, <1>5, <1>6

LEMMA LargestOf ==
  ASSUME NEW n \in Nat, NEW S \in SUBSET (1..n), S # {}
  PROVE  \E k \in S : \A j \in S : j <= k
<1> DEFINE T == {n - j : j \in S}
           R == OpToRel(<, Nat)
<1>1. IsWellFoundedOn(R, Nat)
  BY NatLessThanWellFounded
<1>2. T \subseteq Nat /\ T # {}
  <2>1. \A j \in S : j \in Nat /\ j <= n
    OBVIOUS
  <2>2. \A j \in S : n - j \in Nat
    BY <2>1
  <2> QED
    BY <2>2
<1>3. PICK x \in T : \A y \in T : ~(<<y, x>> \in R)
  BY <1>1, <1>2, WFMin
<1>4. \A y \in T : ~(y < x)
  BY <1>2, <1>3 DEF OpToRel
<1>5. PICK k \in S : x = n - k
  BY Zenon
<1>6. ASSUME NEW j \in S PROVE j <= k
  <2>1. n - j \in T
    OBVIOUS
  <2>2. ~(n - j < n - k)
    BY <1>4, <1>5, <2>1
  <2>3. j \in Nat /\ k \in Nat
    OBVIOUS
  <2> QED
    BY <2>2, <2>3
<1> QED
  BY <1>6

\* The newest of some rows is one of them.
LEMMA NewestOf ==
  ASSUME NEW n \in Nat, NEW S \in SUBSET (1..n), S # {}
  PROVE  (CHOOSE k \in S : \A j \in S : j <= k) \in S
BY LargestOf

LEMMA MaxOf ==
  ASSUME NEW n \in Nat, NEW S \in SUBSET (1..n), S # {}
  PROVE  Max(S) \in S /\ \A j \in S : j <= Max(S)
<1>1. \E k \in S : \A j \in S : k >= j
  BY LargestOf
<1>2. Max(S) \in S /\ \A j \in S : Max(S) >= j
  BY <1>1, Zenon DEF Max
<1> QED
  BY <1>2

\* What a fold computes: its value over the first of the elements, given what one
\* more element makes of a value (MapThenFoldSet)
Computes(g, n, base, step) ==
  g = [s \in SUBSET (1 .. n) |-> IF s = {} THEN base ELSE step[<<g[s \ {Max(s)}], Max(s)>>]]

LEMMA FoldExists ==
  ASSUME NEW n \in Nat, NEW A, NEW base \in A, NEW step \in [A \X (1 .. n) -> A]
  PROVE  \E g \in [SUBSET (1 .. n) -> A] : Computes(g, n, base, step)
<1> DEFINE Runs(k) == \E g \in [SUBSET (1 .. k) -> A] : Computes(g, k, base, step)
           S == {k \in Nat : k <= n => Runs(k)}
<1> HIDE DEF Runs
<1>1. 0 \in S
  <2> SUFFICES Runs(0)
    OBVIOUS
  <2> DEFINE g == [s \in SUBSET (1 .. 0) |-> base]
  <2>1. \A s \in SUBSET (1 .. 0) : s = {}
    OBVIOUS
  <2>2. g = [s \in SUBSET (1 .. 0) |-> IF s = {} THEN base ELSE step[<<g[s \ {Max(s)}], Max(s)>>]]
    BY <2>1
  <2>3. g \in [SUBSET (1 .. 0) -> A] /\ Computes(g, 0, base, step)
    BY <2>2 DEF Computes
  <2> QED
    BY <2>3 DEF Runs
<1>2. ASSUME NEW k \in Nat, k \in S PROVE k + 1 \in S
  <2> SUFFICES ASSUME k + 1 <= n
               PROVE  Runs(k + 1)
    OBVIOUS
  <2>0. Runs(k)
    BY <1>2
  <2>1. PICK f \in [SUBSET (1 .. k) -> A] : Computes(f, k, base, step)
    BY <2>0 DEF Runs
  <2> DEFINE g == [s \in SUBSET (1 .. k + 1) |->
                     IF k + 1 \in s THEN step[<<f[s \ {k + 1}], k + 1>>] ELSE f[s]]
  <2>2. ASSUME NEW s \in SUBSET (1 .. k + 1)
        PROVE  /\ g[s] \in A
               /\ g[s] = IF s = {} THEN base ELSE step[<<g[s \ {Max(s)}], Max(s)>>]
    <3>1. CASE k + 1 \in s
      <4>1. Max(s) = k + 1
        <5>1. s # {} /\ k + 1 \in Nat
          BY <3>1
        <5>2. Max(s) \in s /\ \A j \in s : j <= Max(s)
          BY <5>1, MaxOf
        <5>3. Max(s) \in 1 .. k + 1 /\ k + 1 <= Max(s)
          BY <3>1, <5>2
        <5> QED
          BY <5>3
      <4>2. s \ {k + 1} \in SUBSET (1 .. k)
        <5> SUFFICES ASSUME NEW x \in s, x # k + 1 PROVE x \in 1 .. k
          OBVIOUS
        <5> QED
          OBVIOUS
      <4>3. g[s] = step[<<f[s \ {k + 1}], k + 1>>]
        BY <3>1
      <4>4. g[s \ {k + 1}] = f[s \ {k + 1}]
        BY <4>2
      <4>5. <<f[s \ {k + 1}], k + 1>> \in A \X (1 .. n)
        BY <4>2
      <4>6. s # {}
        BY <3>1
      <4>7. g[s] \in A
        BY <4>3, <4>5
      <4>8. g[s] = step[<<g[s \ {Max(s)}], Max(s)>>]
        BY <4>1, <4>3, <4>4
      <4> HIDE DEF g
      <4> QED
        BY <4>6, <4>7, <4>8
    <3>2. CASE k + 1 \notin s
      <4>1. s \in SUBSET (1 .. k)
        <5> SUFFICES ASSUME NEW x \in s PROVE x \in 1 .. k
          OBVIOUS
        <5> QED
          BY <3>2
      <4>2. g[s] = f[s] /\ f[s] \in A
        BY <3>2, <4>1
      <4>3. f[s] = IF s = {} THEN base ELSE step[<<f[s \ {Max(s)}], Max(s)>>]
        BY <2>1, <4>1 DEF Computes
      <4>4. s # {} => Max(s) # k + 1
        <5>1. s # {} => Max(s) \in s
          BY <4>1, MaxOf
        <5> QED
          BY <3>2, <5>1
      <4>5. s \ {Max(s)} \in SUBSET (1 .. k) /\ k + 1 \notin s \ {Max(s)}
        BY <3>2, <4>1
      <4>6. g[s \ {Max(s)}] = f[s \ {Max(s)}]
        BY <4>5
      <4> QED
        BY <4>2, <4>3, <4>6
    <3> QED
      BY <3>1, <3>2
  <2>3. g \in [SUBSET (1 .. k + 1) -> A]
    BY <2>2
  <2>4. g = [s \in SUBSET (1 .. k + 1) |-> IF s = {} THEN base ELSE step[<<g[s \ {Max(s)}], Max(s)>>]]
    BY <2>2
  <2>5. Computes(g, k + 1, base, step)
    BY <2>4, Zenon DEF Computes
  <2> HIDE DEF g
  <2> QED
    BY <2>3, <2>5 DEF Runs
<1>3. n \in S
  <2> HIDE DEF S
  <2> QED
    BY <1>1, <1>2, Upwards
<1>4. Runs(n)
  BY <1>3
<1> QED
  BY <1>4 DEF Runs

\* The sets a fold goes over
LEMMA Segments ==
  ASSUME NEW n \in Nat, NEW k \in 1 .. n
  PROVE  /\ 1 .. k \in SUBSET (1 .. n) /\ 1 .. k # {}
         /\ Max(1 .. k) = k /\ (1 .. k) \ {k} = 1 .. k - 1
<1>1. 1 .. k \in SUBSET (1 .. k) /\ 1 .. k # {} /\ 1 .. k \in SUBSET (1 .. n) /\ k \in Nat
  OBVIOUS
<1>2. Max(1 .. k) \in 1 .. k /\ \A j \in 1 .. k : j <= Max(1 .. k)
  BY <1>1, MaxOf
<1>3. Max(1 .. k) = k
  BY <1>2
<1>4. (1 .. k) \ {k} = 1 .. k - 1
  OBVIOUS
<1> QED
  BY <1>1, <1>3, <1>4

\* What holds at first and through every step holds at the end
LEMMA StepByStep ==
  ASSUME NEW n \in Nat, NEW S, 0 \in S, \A k \in 1 .. n : k - 1 \in S => k \in S
  PROVE  \A k \in 0 .. n : k \in S
<1> DEFINE T == {k \in Nat : k <= n => k \in S}
<1>1. 0 \in T
  OBVIOUS
<1>2. ASSUME NEW k \in Nat, k \in T PROVE k + 1 \in T
  <2> SUFFICES ASSUME k + 1 <= n PROVE k + 1 \in S
    OBVIOUS
  <2>1. k \in S
    BY <1>2
  <2>2. k + 1 \in 1 .. n /\ (k + 1) - 1 = k
    OBVIOUS
  <2> QED
    BY <2>1, <2>2
<1> HIDE DEF T
<1>3. Nat \subseteq T
  BY <1>1, <1>2, Upwards
<1> QED
  BY <1>3 DEF T

-----------------------------------------------------------------------------
(* The folds of Session *)

\* One block of the file is spawned if it has no live slot
Spawned(acc, name) == IF name \in LiveIn(acc) THEN acc ELSE Append(acc, Slot(name))

LEMMA ConvergedFold ==
  ASSUME NEW slots, NEW names, NEW n \in Nat, DOMAIN names = 1 .. n, NEW A,
         Retired(slots, names) \in A,
         \A acc \in A, i \in 1 .. n : Spawned(acc, names[i]) \in A
  PROVE  \E h : /\ h[0] = Retired(slots, names)
                /\ \A k \in 1 .. n : h[k] = Spawned(h[k - 1], names[k])
                /\ h[n] = Converged(slots, names)
<1> DEFINE base == Retired(slots, names)
           step == [x \in A \X (1 .. n) |-> Spawned(x[1], names[x[2]])]
           Runs(g) == g = [s \in SUBSET (1 .. n) |->
                             IF s = {} THEN base
                             ELSE LET x == Max(s) IN Spawned(g[s \ {x}], names[x])]
           f == CHOOSE g : Runs(g)
           h == [k \in 0 .. n |-> f[1 .. k]]
<1>1. Converged(slots, names) = f[1 .. n]
  BY Zenon DEF Converged, FoldLeft, MapThenFoldSet, Spawned
<1>2. step \in [A \X (1 .. n) -> A]
  OBVIOUS
<1>3. base \in A
  OBVIOUS
<1> HIDE DEF base
<1>4. PICK g \in [SUBSET (1 .. n) -> A] : Computes(g, n, base, step)
  <2> HIDE DEF step
  <2> QED
    BY <1>2, <1>3, FoldExists
<1>5. Runs(g)
  <2>1. ASSUME NEW s \in SUBSET (1 .. n), s # {}
        PROVE  step[<<g[s \ {Max(s)}], Max(s)>>] = Spawned(g[s \ {Max(s)}], names[Max(s)])
    <3>1. Max(s) \in 1 .. n /\ g[s \ {Max(s)}] \in A
      BY <2>1, MaxOf
    <3> QED
      BY <3>1
  <2> HIDE DEF step
  <2>2. g = [s \in SUBSET (1 .. n) |-> IF s = {} THEN base ELSE step[<<g[s \ {Max(s)}], Max(s)>>]]
    BY <1>4 DEF Computes
  <2> QED
    BY <2>1, <2>2
<1>6. Runs(f)
  BY <1>5, Zenon
<1> HIDE DEF f, step
<1>7. \A s \in SUBSET (1 .. n) :
        f[s] = IF s = {} THEN base ELSE Spawned(f[s \ {Max(s)}], names[Max(s)])
  BY <1>6
<1>8. h[0] = base
  BY <1>7
<1>9. ASSUME NEW k \in 1 .. n PROVE h[k] = Spawned(h[k - 1], names[k])
  <2>1. f[1 .. k] = Spawned(f[1 .. k - 1], names[k])
    BY <1>7, Segments
  <2>2. k - 1 \in 0 .. n /\ k \in 0 .. n
    OBVIOUS
  <2> QED
    BY <2>1, <2>2
<1>10. h[n] = Converged(slots, names)
  BY <1>1
<1> HIDE DEF h
<1>11. h[0] = Retired(slots, names)
  BY <1>8 DEF base
<1> QED
  BY <1>9, <1>10, <1>11
\* One more element, if it is in S
Taken(acc, x, S) == IF x \in S THEN Append(acc, x) ELSE acc

LEMMA AmongFold ==
  ASSUME NEW X, NEW seq \in Seq(X), NEW S
  PROVE  \E h : /\ h[0] = <<>>
                /\ \A k \in 1 .. Len(seq) : h[k] = Taken(h[k - 1], seq[k], S)
                /\ h[Len(seq)] = Among(seq, S)
<1> DEFINE A == Seq(X)
           n == Len(seq)
           step == [x \in A \X (1 .. n) |-> Taken(x[1], seq[x[2]], S)]
           Runs(g) == g = [s \in SUBSET (1 .. n) |->
                             IF s = {} THEN <<>>
                             ELSE LET x == Max(s) IN Taken(g[s \ {x}], seq[x], S)]
           f == CHOOSE g : Runs(g)
           h == [k \in 0 .. n |-> f[1 .. k]]
<1>0. n \in Nat /\ DOMAIN seq = 1 .. n
  OBVIOUS
<1>1. Among(seq, S) = f[1 .. n]
  BY <1>0, Zenon DEF Among, FoldLeft, MapThenFoldSet, Taken
<1>2. step \in [A \X (1 .. n) -> A]
  <2> SUFFICES ASSUME NEW acc \in A, NEW i \in 1 .. n PROVE Taken(acc, seq[i], S) \in A
    OBVIOUS
  <2>1. seq[i] \in X
    OBVIOUS
  <2> QED
    BY <2>1 DEF Taken
<1>3. <<>> \in A
  OBVIOUS
<1> HIDE DEF n
<1>4. PICK g \in [SUBSET (1 .. n) -> A] : Computes(g, n, <<>>, step)
  <2> HIDE DEF step, A
  <2> QED
    BY <1>0, <1>2, <1>3, FoldExists
<1>5. Runs(g)
  <2>1. ASSUME NEW s \in SUBSET (1 .. n), s # {}
        PROVE  step[<<g[s \ {Max(s)}], Max(s)>>] = Taken(g[s \ {Max(s)}], seq[Max(s)], S)
    <3>1. Max(s) \in 1 .. n /\ g[s \ {Max(s)}] \in A
      BY <1>0, <2>1, MaxOf
    <3> QED
      BY <3>1
  <2> HIDE DEF step
  <2>2. g = [s \in SUBSET (1 .. n) |-> IF s = {} THEN <<>> ELSE step[<<g[s \ {Max(s)}], Max(s)>>]]
    BY <1>4 DEF Computes
  <2> QED
    BY <2>1, <2>2
<1>6. Runs(f)
  BY <1>5, Zenon
<1> HIDE DEF f, step
<1>7. \A s \in SUBSET (1 .. n) :
        f[s] = IF s = {} THEN <<>> ELSE Taken(f[s \ {Max(s)}], seq[Max(s)], S)
  BY <1>6
<1>8. h[0] = <<>>
  <2>1. 0 \in 0 .. n /\ 1 .. 0 = {}
    BY <1>0
  <2>2. f[{}] = <<>>
    BY <1>7
  <2> QED
    BY <2>1, <2>2
<1>9. ASSUME NEW k \in 1 .. n PROVE h[k] = Taken(h[k - 1], seq[k], S)
  <2>1. f[1 .. k] = Taken(f[1 .. k - 1], seq[k], S)
    BY <1>0, <1>7, Segments
  <2>2. k - 1 \in 0 .. n /\ k \in 0 .. n
    BY <1>0
  <2> QED
    BY <2>1, <2>2
<1>10. h[n] = Among(seq, S)
  BY <1>0, <1>1
<1> HIDE DEF h
<1> QED
  BY <1>8, <1>9, <1>10 DEF n

\* Among keeps what is in S, and nothing else.
LEMMA AmongIs ==
  ASSUME NEW X, NEW seq \in Seq(X), NEW S
  PROVE  /\ Among(seq, S) \in Seq(X)
         /\ \A i \in DOMAIN seq : seq[i] \in S => \E j \in DOMAIN Among(seq, S) : Among(seq, S)[j] = seq[i]
         /\ \A j \in DOMAIN Among(seq, S) : \E i \in DOMAIN seq : seq[i] = Among(seq, S)[j] /\ seq[i] \in S
<1> DEFINE n == Len(seq)
           Fine(k, acc) ==
             /\ acc \in Seq(X)
             /\ \A i \in 1 .. k : seq[i] \in S => \E j \in DOMAIN acc : acc[j] = seq[i]
             /\ \A j \in DOMAIN acc : \E i \in 1 .. k : seq[i] = acc[j] /\ seq[i] \in S
<1>0. n \in Nat /\ DOMAIN seq = 1 .. n /\ \A k \in 1 .. n : seq[k] \in X
  OBVIOUS
<1>1. PICK h : /\ h[0] = <<>>
               /\ \A k \in 1 .. n : h[k] = Taken(h[k - 1], seq[k], S)
               /\ h[n] = Among(seq, S)
  BY AmongFold
<1> HIDE DEF n
<1> DEFINE K == {k \in 0 .. n : Fine(k, h[k])}
<1>2. 0 \in K
  <2>1. 0 \in 0 .. n /\ 1 .. 0 = {} /\ <<>> \in Seq(X) /\ DOMAIN <<>> = {}
    BY <1>0
  <2>2. Fine(0, <<>>)
    BY <2>1
  <2> HIDE DEF Fine
  <2> QED
    BY <1>1, <2>1, <2>2
<1>3. ASSUME NEW k \in 1 .. n, k - 1 \in K PROVE k \in K
  <2> DEFINE acc == h[k - 1]
  <2>1. Fine(k - 1, acc) /\ h[k] = Taken(acc, seq[k], S) /\ k \in 0 .. n
    BY <1>0, <1>1, <1>3
  <2> HIDE DEF acc
  <2>2. CASE seq[k] \in S
    <3>1. h[k] = Append(acc, seq[k]) /\ acc \in Seq(X) /\ seq[k] \in X
      BY <1>0, <2>1, <2>2 DEF Taken
    <3>2. /\ h[k] \in Seq(X) /\ Len(acc) \in Nat
          /\ DOMAIN acc = 1 .. Len(acc) /\ DOMAIN h[k] = 1 .. Len(acc) + 1
          /\ h[k][Len(acc) + 1] = seq[k]
          /\ \A j \in 1 .. Len(acc) : h[k][j] = acc[j]
      BY <3>1
    <3>3. ASSUME NEW i \in 1 .. k, seq[i] \in S PROVE \E j \in DOMAIN h[k] : h[k][j] = seq[i]
      <4>1. CASE i = k
        BY <3>2, <4>1
      <4>2. CASE i # k
        <5>1. i \in 1 .. k - 1
          BY <1>0, <4>2
        <5>2. PICK j \in DOMAIN acc : acc[j] = seq[i]
          BY <2>1, <3>3, <5>1
        <5> QED
          BY <3>2, <5>2
      <4> QED
        BY <4>1, <4>2
    <3>4. ASSUME NEW j \in DOMAIN h[k] PROVE \E i \in 1 .. k : seq[i] = h[k][j] /\ seq[i] \in S
      <4>1. CASE j = Len(acc) + 1
        BY <1>0, <2>2, <3>2, <4>1
      <4>2. CASE j # Len(acc) + 1
        <5>1. j \in DOMAIN acc /\ h[k][j] = acc[j]
          BY <3>2, <4>2
        <5>2. PICK i \in 1 .. k - 1 : seq[i] = acc[j] /\ seq[i] \in S
          BY <2>1, <5>1
        <5>3. i \in 1 .. k
          BY <1>0
        <5> QED
          BY <5>1, <5>2, <5>3
      <4> QED
        BY <4>1, <4>2
    <3> QED
      BY <2>1, <3>2, <3>3, <3>4
  <2>3. CASE seq[k] \notin S
    <3>1. h[k] = acc
      BY <2>1, <2>3 DEF Taken
    <3>2. \A i \in 1 .. k : seq[i] \in S => i \in 1 .. k - 1
      BY <1>0, <2>3
    <3>3. 1 .. k - 1 \subseteq 1 .. k
      BY <1>0
    <3> QED
      BY <2>1, <3>1, <3>2, <3>3
  <2> QED
    BY <2>2, <2>3
<1>4. n \in K
  <2> HIDE DEF K
  <2>1. \A k \in 0 .. n : k \in K
    BY <1>0, <1>2, <1>3, StepByStep
  <2> QED
    BY <1>0, <2>1
<1> QED
  BY <1>0, <1>1, <1>4

-----------------------------------------------------------------------------
(* The ledger *)

View(m) == [life |-> m.life, seq |-> m.seq, board |-> m.board, gates |-> m.gates,
            team |-> LiveIn(m.slots)]

\* What the session in memory goes on from, on disk
Base == IF disk.life = mem.life THEN View(disk) ELSE Promise!Afresh(mem.life)

NewestIs(board, row) == board # <<>> /\ board[Len(board)] = row

\* The plans of a report that is recorded
ReportPlans == {<<"save", "resolve", "hear">>, <<"resolve", "hear">>}

Tickets == [life : Nat, fate : {"open", "settled", "unheard", "cut"}]

Boards ==
  /\ mem.board \in Seq(Rows) /\ disk.board \in Seq(Rows)
  /\ asked \in Seq(Tickets)
  /\ Up => disk.life <= mem.life

\* A handler that is about to save has made one operation
OneOperation == Does("save") => Promise!Operation(Base, View(mem))

\* What the handlers that record a row rely on is still the newest row
NewestKept ==
  /\ todo \in TellPlans => NewestIs(mem.board, Row("delegate", mem.seq))
  /\ todo \in ReportPlans => NewestIs(mem.board, Row("work-done", job.id))

LedgerInv == IdsInv /\ Boards /\ OneOperation /\ NewestKept

-----------------------------------------------------------------------------
(* Rows *)

LEMMA RecordedIsSeq ==
  ASSUME NEW board \in Seq(Rows), NEW row \in Rows
  PROVE  /\ Recorded(board, row) \in Seq(Rows)
         /\ NewestIs(Recorded(board, row), row)
         /\ Recorded(board, row) = Promise!With(board, row)
  <1> DEFINE all == Append(board, row)
             from == IF Len(all) > BoardCap THEN Len(all) - BoardCap + 1 ELSE 1
  <1>1. all \in Seq(Rows) /\ Len(all) \in Nat /\ Len(all) >= 1 /\ all[Len(all)] = row
    OBVIOUS
  <1>2. BoardCap \in Nat /\ BoardCap >= 1 BY SessionAssumption
  <1> HIDE DEF all
  <1>3. from \in 1..Len(all) BY <1>1, <1>2
  <1> HIDE DEF from
  <1>4. SubSeq(all, from, Len(all)) \in Seq(Rows)
        /\ Len(SubSeq(all, from, Len(all))) = Len(all) - from + 1
        /\ \A i \in 1..(Len(all) - from + 1) : SubSeq(all, from, Len(all))[i] = all[from + i - 1]
    BY <1>1, <1>3
  <1>5. Recorded(board, row) = SubSeq(all, from, Len(all)) BY DEF Recorded, all, from
  <1>6. Len(all) - from + 1 \in 1..(Len(all) - from + 1) /\ from + (Len(all) - from + 1) - 1 = Len(all)
    BY <1>1, <1>3
  <1>7. NewestIs(Recorded(board, row), row) BY <1>1, <1>4, <1>5, <1>6 DEF NewestIs
  <1>8. Recorded(board, row) = Promise!With(board, row) BY DEF Recorded, Promise!With
  <1> QED BY <1>4, <1>5, <1>7, <1>8

LEMMA BoardIsSeq ==
  ASSUME NEW n \in Nat, NEW board \in [1..n -> Rows]
  PROVE  board \in Seq(Rows)
  OBVIOUS

-----------------------------------------------------------------------------
(* Plans *)

LEMMA PlainPlans ==
  /\ <<>> \notin ReportPlans
  /\ \A e : <<e>> \notin ReportPlans
  /\ \A e, f : e # "resolve" => <<e, f>> \notin ReportPlans
  /\ <<"save", "resolve", "hear">> \in ReportPlans
  <1>1. /\ Len(<<>>) = 0 /\ Len(<<"save", "resolve", "hear">>) = 3 /\ Len(<<"resolve", "hear">>) = 2
        /\ \A e : Len(<<e>>) = 1
        /\ \A e, f : Len(<<e, f>>) = 2 /\ <<e, f>>[1] = e
    OBVIOUS
  <1> QED BY <1>1 DEF ReportPlans

LEMMA LongPlans ==
  /\ \A e : <<"save", "resolve", "hear">> # <<e>>
  /\ \A e, f : <<"save", "resolve", "hear">> # <<e, f>>
  /\ <<"save", "resolve", "hear">> \notin TellPlans
  /\ \A e : e # "tell" => <<"save", e>> \notin TellPlans
  <1>1. /\ Len(<<"save", "resolve", "hear">>) = 3
        /\ \A e : Len(<<e>>) = 1
        /\ \A e, f : Len(<<e, f>>) = 2 /\ <<e, f>>[2] = f
    OBVIOUS
  <1> QED BY <1>1 DEF TellPlans

\* A report plan comes after a report plan, with the handler's job.
LEMMA ReportGoesOn ==
  ASSUME todo \in Plans, Does("save"), Goes, todo' \in ReportPlans
  PROVE  todo \in ReportPlans /\ job' = job
  <1>1. \/ todo = <<"save">> \/ \E e \in {"tell", "hear", "carry", "stop"} : todo = <<"save", e>>
        \/ todo = <<"save", "resolve", "hear">>
    BY DEF Plans, Does
  <1>2. CASE todo = <<"save">>
    <2>1. todo' = <<>> BY <1>2 DEF Goes
    <2> QED BY <2>1, PlainPlans
  <1>3. ASSUME NEW e, todo = <<"save", e>> PROVE FALSE
    <2>1. todo' = <<e>> BY <1>3 DEF Goes
    <2> QED BY <2>1, PlainPlans
  <1>4. CASE todo = <<"save", "resolve", "hear">>
    <2>1. Len(todo) # 1 BY <1>4
    <2> QED BY <1>4, <2>1, PlainPlans DEF Goes
  <1> QED BY <1>1, <1>2, <1>3, <1>4

-----------------------------------------------------------------------------
(* What a step does to the session in memory is one operation *)

\* Nothing of the team is asked of the session an operation goes on from.
LEMMA OperationSees ==
  ASSUME NEW r, NEW s, NEW t, Promise!Operation(s, t),
         r.life = s.life, r.seq = s.seq, r.board = s.board, r.gates = s.gates
  PROVE  Promise!Operation(r, t)
  BY DEF Promise!Operation, Promise!Gives, Promise!Reports, Promise!Closes, Promise!Holds,
         Promise!Rules, Promise!Drops, Promise!Keeps, Promise!SameTasks

LEMMA OnBase ==
  ASSUME SyncInv, Up, ~Does("save"), NEW t, Promise!Operation(View(mem), t)
  PROVE  Promise!Operation(Base, t)
  <1>1. InStep BY DEF SyncInv, AheadOnlyToSave
  <1>2. /\ Base.life = mem.life /\ Base.seq = mem.seq
        /\ Base.board = mem.board /\ Base.gates = mem.gates
    BY <1>1 DEF InStep, Base, View, Promise!Afresh
  <1>3. /\ View(mem).life = mem.life /\ View(mem).seq = mem.seq
        /\ View(mem).board = mem.board /\ View(mem).gates = mem.gates
    BY DEF View
  <1> QED BY <1>2, <1>3, OperationSees

Fits ==
  /\ Up /\ ~Does("save") /\ disk' = disk /\ mem'.life = mem.life
  /\ told' = told \/ ~Does("save")'
  /\ mem'.board \in Seq(Rows)
  /\ Promise!Operation(View(mem), View(mem'))
  /\ todo' \in TellPlans => NewestIs(mem'.board, Row("delegate", mem'.seq))
  /\ todo' \in ReportPlans => NewestIs(mem'.board, Row("work-done", job'.id))

LEMMA KeepsIsOperation ==
  ASSUME NEW m, NEW n, n.life = m.life, n.seq = m.seq, n.board = m.board, n.gates = m.gates
  PROVE  Promise!Operation(View(m), View(n))
  BY DEF Promise!Operation, Promise!Keeps, Promise!SameTasks, View

\* A step that leaves the rows, the gates and the counter alone
LEMMA StillFits ==
  ASSUME Boards, Up, ~Does("save"), disk' = disk, told' = told,
         mem'.life = mem.life, mem'.seq = mem.seq, mem'.board = mem.board, mem'.gates = mem.gates,
         todo' \notin TellPlans, todo' \notin ReportPlans
  PROVE  Fits
  BY KeepsIsOperation DEF Fits, Boards

LEMMA IssueFits ==
  ASSUME Shape, Boards, Up, ~Does("save"), NEW r, NEW n, Issue(r, n), UNCHANGED <<disk, told>>
  PROVE  Fits
  <1>1. /\ mem'.life = mem.life /\ mem'.seq = mem.seq + 1 /\ mem'.gates = mem.gates
        /\ mem'.board = Recorded(mem.board, Row("delegate", mem.seq + 1))
    BY DEF Issue, Shape, IsMemory
  <1>2. Row("delegate", mem.seq + 1) \in Rows BY DEF Shape, Row, Rows
  <1>3. /\ mem'.board \in Seq(Rows) /\ NewestIs(mem'.board, Row("delegate", mem'.seq))
        /\ mem'.board = Promise!With(mem.board, Row("delegate", mem.seq + 1))
    BY <1>1, <1>2, RecordedIsSeq DEF Boards
  <1>4. Row("delegate", mem.seq + 1) = Promise!Task(mem.seq + 1) BY DEF Row, Promise!Task
  <1>5. Promise!Gives(View(mem), View(mem')) BY <1>1, <1>3, <1>4 DEF Promise!Gives, View
  <1>6. Promise!Operation(View(mem), View(mem'))
    BY <1>1, <1>5 DEF Promise!Operation, View
  <1>7. todo' \notin ReportPlans BY PlainPlans DEF Issue
  <1> QED BY <1>1, <1>3, <1>6, <1>7 DEF Fits

LEMMA HoldFits ==
  ASSUME Shape, Boards, Up, ~Does("save"), NEW request \in Held, Hold(request), UNCHANGED <<disk, told>>
  PROVE  Fits
  <1>1. /\ mem'.life = mem.life /\ mem'.seq = mem.seq /\ mem'.board = mem.board
        /\ mem'.gates = Append(mem.gates, request)
    BY DEF Hold, Shape, IsMemory
  <1>2. Promise!Holds(View(mem), View(mem')) BY <1>1 DEF Promise!Holds, Promise!SameTasks, View
  <1>3. Promise!Operation(View(mem), View(mem')) BY <1>1, <1>2 DEF Promise!Operation, View
  <1>4. todo' \notin ReportPlans /\ todo' \notin TellPlans
    BY PlainPlans, NotTellPlans DEF Hold
  <1> QED BY <1>1, <1>3, <1>4 DEF Fits, Boards

LEMMA TicketInRange ==
  ASSUME Boards, Ask, NEW r \in Names, NEW kind \in {"delegate", "roster"}
  PROVE  Request(kind, r, Ticket) \in Held
  <1>1. Len(asked) \in Nat BY DEF Boards
  <1>2. Ticket \in 1..MaxAsked BY <1>1, SessionAssumption DEF Ask, Ticket
  <1> QED BY <1>2 DEF Request, Held

LEMMA DelegateFits ==
  ASSUME Shape, Boards, NEW r \in Names, Delegate(r)
  PROVE  Fits
  <1>1. Up /\ ~Does("save") /\ UNCHANGED <<disk, told>> BY DEF Delegate, Idle, Does
  <1>2. CASE Issue(r, Ticket) BY <1>1, <1>2, IssueFits
  <1>3. CASE Hold(Request("delegate", r, Ticket))
    BY <1>1, <1>3, TicketInRange, HoldFits DEF Delegate
  <1> QED BY <1>2, <1>3 DEF Delegate

LEMMA ProposeFits ==
  ASSUME Shape, Boards, NEW r \in Names, Propose(r)
  PROVE  Fits
  <1>1. Up /\ ~Does("save") /\ UNCHANGED <<disk, told>> BY DEF Propose, Idle, Does
  <1>2. CASE mem' = mem /\ todo' = <<"append", "reload">>
    BY <1>1, <1>2, PlainPlans, NotTellPlans, StillFits
  <1>3. CASE Hold(Request("roster", r, Ticket))
    BY <1>1, <1>3, TicketInRange, HoldFits DEF Propose
  <1> QED BY <1>2, <1>3 DEF Propose

LEMMA WorkDoneFits ==
  ASSUME Shape, Boards, IdsKnown, NEW t \in told, WorkDone(t)
  PROVE  Fits
  <1>1. Up /\ ~Does("save") /\ UNCHANGED <<disk, told>> BY DEF WorkDone, Idle, Does, history
  <1>2. /\ mem'.life = mem.life /\ mem'.seq = mem.seq /\ mem'.gates = mem.gates
        /\ mem'.board = Recorded(mem.board, Row("work-done", t.id)) /\ job'.id = t.id
    BY DEF WorkDone, Shape, IsMemory
  <1>3. Row("work-done", t.id) \in Rows BY DEF IdsKnown, Row, Rows
  <1>4. /\ mem'.board \in Seq(Rows) /\ NewestIs(mem'.board, Row("work-done", job'.id))
        /\ mem'.board = Promise!With(mem.board, Row("work-done", t.id))
    BY <1>2, <1>3, RecordedIsSeq DEF Boards
  <1>5. Row("work-done", t.id) = Promise!Report(t.id) BY DEF Row, Promise!Report
  <1>6. Promise!Reports(View(mem), View(mem'))
    BY <1>2, <1>4, <1>5 DEF Promise!Reports, View, WorkDone
  <1>7. Promise!Operation(View(mem), View(mem')) BY <1>2, <1>6 DEF Promise!Operation, View
  <1>8. todo' \notin TellPlans BY LongPlans DEF WorkDone
  <1> QED BY <1>1, <1>2, <1>4, <1>7, <1>8 DEF Fits

LEMMA RuleFits ==
  ASSUME Shape, Boards, NEW then \in {"carry", "hear"}, Rule(then)
  PROVE  Fits
  <1>1. Up /\ ~Does("save") /\ UNCHANGED <<disk, told>> BY DEF Rule, Idle, Does, history
  <1>2. /\ mem'.life = mem.life /\ mem'.seq = mem.seq /\ mem'.board = mem.board
        /\ mem.gates # <<>> /\ mem'.gates = Tail(mem.gates)
    BY DEF Rule, Shape, IsMemory
  <1>3. Promise!Rules(View(mem), View(mem')) BY <1>2 DEF Promise!Rules, Promise!SameTasks, View
  <1>4. Promise!Operation(View(mem), View(mem')) BY <1>2, <1>3 DEF Promise!Operation, View
  <1>5. todo' \notin ReportPlans /\ todo' \notin TellPlans
    BY PlainPlans, LongPlans DEF Rule
  <1> QED BY <1>1, <1>2, <1>4, <1>5 DEF Fits, Boards

LEMMA MessageFits ==
  ASSUME Shape, Boards, IdsKnown, Message
  PROVE  Fits
  <1>1. CASE AskReload
    BY <1>1, PlainPlans, NotTellPlans, StillFits DEF AskReload, Idle, Does, history
  <1>2. ASSUME NEW p \in Paths, Handoff(p) PROVE Fits
    <2>1. /\ mem'.life = mem.life /\ mem'.seq = mem.seq /\ mem'.board = mem.board /\ mem'.gates = mem.gates
      BY <1>2 DEF Handoff, Shape, IsMemory
    <2> QED BY <1>2, <2>1, PlainPlans, LongPlans, StillFits DEF Handoff, Idle, Does, history
  <1>3. CASE Quit
    BY <1>3, PlainPlans, LongPlans, StillFits DEF Quit, Idle, Does, history
  <1> QED
    BY <1>1, <1>2, <1>3, DelegateFits, ProposeFits, WorkDoneFits, RuleFits
    DEF Message, ApproveGate, RejectGate

-----------------------------------------------------------------------------
(* Handlers *)

LEMMA AfterLast ==
  ASSUME todo \in Plans, NEW e \in {"tell", "hear", "carry"}, Does(e), Goes
  PROVE  todo' = <<>>
  <1>1. todo = <<e>> BY Shortest
  <1> QED BY <1>1 DEF Goes

LEMMA TellFits ==
  ASSUME Shape, Boards, Tell
  PROVE  Fits
  <1>1. todo' = <<>> BY AfterLast DEF Tell, Shape
  <1>2. Up /\ ~Does("save") /\ ~Does("save")' /\ mem' = mem /\ disk' = disk
    BY <1>1 DEF Tell, Does, Shape, Up
  <1> QED BY <1>1, <1>2, PlainPlans, NotTellPlans, KeepsIsOperation DEF Fits, Boards

LEMMA ResolveFits ==
  ASSUME Shape, Boards, NewestKept, Resolve
  PROVE  Fits
  <1>1. Up /\ ~Does("save") /\ UNCHANGED <<disk, told>> BY DEF Resolve, Does, Shape, Up, history
  <1>2. todo = <<"resolve", "hear">> BY DEF Resolve, Does, Plans, Shape
  <1> DEFINE open == {i \in DOMAIN mem.board : mem.board[i].open /\ mem.board[i].id = job.id}
             k == CHOOSE k \in open : \A j \in open : j <= k
  <1>3. CASE open = {}
    <2>1. mem' = mem /\ Goes BY <1>3 DEF Resolve
    <2>2. todo' = <<"hear">> BY <1>2, <2>1 DEF Goes
    <2> QED BY <1>1, <2>1, <2>2, PlainPlans, NotTellPlans, StillFits
  <1>4. CASE open # {}
    <2>1. mem' = [mem EXCEPT !.board = [i \in DOMAIN mem.board |->
                     [mem.board[i] EXCEPT !.open = mem.board[i].open /\ i # k]]]
          /\ todo' = <<"save", "hear">>
      BY <1>4 DEF Resolve
    <2>2. mem.board \in Seq(Rows) BY DEF Boards
    <2>3. open \subseteq 1..Len(mem.board) /\ Len(mem.board) \in Nat BY <2>2
    <2> HIDE DEF open
    <2>4. k \in open BY <1>4, <2>3, NewestOf
    <2> HIDE DEF k
    <2>5. k \in DOMAIN mem.board /\ mem.board[k].open /\ mem.board[k].id = job.id
      BY <2>4 DEF open
    <2>6. mem'.board = [i \in DOMAIN mem.board |->
                          [mem.board[i] EXCEPT !.open = mem.board[i].open /\ i # k]]
          /\ mem'.life = mem.life /\ mem'.seq = mem.seq /\ mem'.gates = mem.gates
      BY <2>1 DEF Shape, IsMemory
    <2>7. ASSUME NEW i \in DOMAIN mem.board
          PROVE  mem'.board[i] \in Rows /\ mem'.board[i] = [mem.board EXCEPT ![k].open = FALSE][i]
      <3>1. mem.board[i] \in Rows BY <2>2
      <3>2. mem'.board[i] = [mem.board[i] EXCEPT !.open = mem.board[i].open /\ i # k] BY <2>6
      <3>3. CASE i = k
        <4>1. (mem.board[i].open /\ i # k) = FALSE BY <3>3
        <4>2. [mem.board EXCEPT ![k].open = FALSE][i] = [mem.board[i] EXCEPT !.open = FALSE]
          BY <3>3
        <4>3. [mem.board[i] EXCEPT !.open = FALSE] \in Rows BY <3>1 DEF Rows
        <4> QED BY <3>2, <4>1, <4>2, <4>3
      <3>4. CASE i # k
        <4>1. (mem.board[i].open /\ i # k) = mem.board[i].open
          <5>1. mem.board[i].open \in BOOLEAN BY <3>1 DEF Rows
          <5> QED BY <3>4, <5>1
        <4>2. [mem.board[i] EXCEPT !.open = mem.board[i].open] = mem.board[i] BY <3>1 DEF Rows
        <4>3. [mem.board EXCEPT ![k].open = FALSE][i] = mem.board[i] BY <3>4
        <4> QED BY <3>1, <3>2, <4>1, <4>2, <4>3
      <3> QED BY <3>3, <3>4
    <2>8. mem'.board = [mem.board EXCEPT ![k].open = FALSE] BY <2>6, <2>7
    <2>9. [mem.board[k] EXCEPT !.open = FALSE] \in Rows
      <3>1. mem.board[k] \in Rows BY <2>2, <2>5
      <3> QED BY <3>1 DEF Rows
    <2>10. mem'.board \in Seq(Rows)
      <3>1. mem.board \in [1..Len(mem.board) -> Rows] BY <2>2
      <3>2. mem'.board \in [1..Len(mem.board) -> Rows] BY <2>8, <2>9, <3>1
      <3> QED BY <2>3, <3>2, BoardIsSeq
    <2>11. NewestIs(mem.board, Row("work-done", job.id)) BY <1>2 DEF NewestKept, ReportPlans
    <2>12. Promise!Newest(mem.board) = Promise!Report(mem.board[k].id)
      BY <2>5, <2>11 DEF NewestIs, Promise!Newest, Promise!Report, Row
    <2>13. Promise!Closes(View(mem), View(mem'))
      BY <2>5, <2>6, <2>8, <2>12 DEF Promise!Closes, View
    <2>14. Promise!Operation(View(mem), View(mem')) BY <2>6, <2>13 DEF Promise!Operation, View
    <2>15. todo' \notin ReportPlans /\ todo' \notin TellPlans BY <2>1, PlainPlans, LongPlans
    <2> QED BY <1>1, <2>6, <2>10, <2>14, <2>15 DEF Fits
  <1> QED BY <1>3, <1>4

LEMMA ReloadFits ==
  ASSUME Shape, Boards, Reload
  PROVE  Fits
  <1>1. Up /\ ~Does("save") /\ UNCHANGED <<disk, told>> BY DEF Reload, Does, Shape, Up
  <1> DEFINE slots == Converged(mem.slots, file[mem.path])
             kept == Among(mem.gates, {g \in Range(mem.gates) : g.to \in LiveIn(slots)})
  <1>2. mem' = [mem EXCEPT !.slots = slots, !.gates = kept] BY Zenon DEF Reload
  <1> HIDE DEF slots, kept
  <1>3. /\ mem'.life = mem.life /\ mem'.seq = mem.seq /\ mem'.board = mem.board /\ mem'.slots = slots
        /\ mem'.gates = kept
    BY <1>2 DEF Shape, IsMemory
  <1>4. View(mem').team = LiveIn(slots) /\ View(mem').gates = mem'.gates /\ View(mem).gates = mem.gates
    BY <1>3 DEF View
  <1>5. Promise!SameTasks(View(mem), View(mem')) /\ View(mem').life = View(mem).life
    BY <1>3 DEF Promise!SameTasks, View
  <1>6. Promise!Drops(View(mem), View(mem'))
    <2>1. \A seq, S : Among(seq, S) = Promise!Among(seq, S)
      BY Zenon DEF Among, FoldLeft, MapThenFoldSet, Max, Promise!Among, Promise!FoldLeft,
                   Promise!MapThenFoldSet, Promise!Max
    <2>2. View(mem').gates = Promise!Among(View(mem).gates,
                               {g \in Range(View(mem).gates) : g.to \in View(mem').team})
      BY <1>3, <1>4, <2>1 DEF kept
    <2> QED BY <1>5, <2>2, Zenon DEF Promise!Drops, Range, Promise!Range
  <1>7. Promise!Operation(View(mem), View(mem')) BY <1>5, <1>6 DEF Promise!Operation
  <1>8. todo' \notin ReportPlans /\ todo' \notin TellPlans
    <2>1. todo' = <<"save">> \/ todo' = <<"save", "hear">> BY DEF Reload
    <2> QED BY <2>1, PlainPlans, LongPlans, NotTellPlans
  <1> QED BY <1>1, <1>3, <1>7, <1>8 DEF Fits, Boards

LEMMA CarryOutFits ==
  ASSUME Shape, Boards, CarryOut
  PROVE  Fits
  <1>1. Up /\ ~Does("save") /\ UNCHANGED <<disk, told>> BY DEF CarryOut, Does, Shape, Up
  <1>2. CASE Issue(job.to, job.n) BY <1>1, <1>2, IssueFits
  <1>3. CASE mem' = mem /\ Goes
    <2>1. todo' = <<>> BY <1>3, AfterLast DEF CarryOut, Shape
    <2> QED BY <1>1, <1>3, <2>1, PlainPlans, NotTellPlans, StillFits
  <1>4. CASE mem' = mem /\ todo' = <<"append", "reload">>
    BY <1>1, <1>4, PlainPlans, NotTellPlans, StillFits
  <1> QED BY <1>2, <1>3, <1>4 DEF CarryOut

LEMMA HandlerFits ==
  ASSUME Shape, Boards, NewestKept, Handler, ~Save, ~Stop
  PROVE  Fits
  <1>1. CASE Hear
    <2>1. todo' = <<>> BY <1>1, AfterLast DEF Hear, Shape
    <2> QED BY <1>1, <2>1, PlainPlans, NotTellPlans, StillFits DEF Hear, Does, Shape, Up
  <1>2. CASE AppendBlock
    <2>1. todo = <<"append", "reload">> BY <1>2 DEF AppendBlock, Does, Plans, Shape
    <2>2. todo' = <<"reload">> BY <1>2, <2>1 DEF AppendBlock, Goes
    <2> QED BY <1>2, <2>1, <2>2, PlainPlans, NotTellPlans, StillFits
            DEF AppendBlock, Does, Shape, Up, history
  <1> QED BY <1>1, <1>2, TellFits, ResolveFits, ReloadFits, CarryOutFits DEF Handler

-----------------------------------------------------------------------------
(* The invariant *)

LEMMA BecomesTyped ==
  ASSUME asked \in Seq(Tickets), NEW tickets,
         NEW fate \in {"open", "settled", "unheard", "cut"}, Becomes(tickets, fate)
  PROVE  asked' \in Seq(Tickets)
  <1>1. ASSUME NEW n \in DOMAIN asked
        PROVE  asked[n] \in Tickets /\ [asked[n] EXCEPT !.fate = fate] \in Tickets
    <2>1. asked[n] \in Tickets OBVIOUS
    <2> QED BY <2>1 DEF Tickets
  <1>2. DOMAIN asked = 1..Len(asked) /\ Len(asked) \in Nat OBVIOUS
  <1>3. asked' \in [1..Len(asked) -> Tickets] BY <1>1, <1>2 DEF Becomes
  <1> QED BY <1>2, <1>3

LEMMA AskTyped ==
  ASSUME Shape, asked \in Seq(Tickets), Ask
  PROVE  asked' \in Seq(Tickets)
  <1>1. [life |-> mem.life, fate |-> "open"] \in Tickets BY DEF Shape, Tickets
  <1> QED BY <1>1 DEF Ask

LEMMA AskedStep ==
  ASSUME Shape, asked \in Seq(Tickets), [Next]_vars
  PROVE  asked' \in Seq(Tickets)
  <1>1. CASE UNCHANGED asked BY <1>1
  <1>2. CASE Hear \/ Reload \/ Crash BY <1>2, BecomesTyped DEF Hear, Reload, Crash
  <1>3. CASE CarryOut BY <1>3, BecomesTyped DEF CarryOut
  <1>4. ASSUME NEW r \in Names, Delegate(r) \/ Propose(r) PROVE asked' \in Seq(Tickets)
    BY <1>4, AskTyped DEF Delegate, Propose
  <1>5. CASE Save \/ Tell \/ AppendBlock \/ Resolve \/ Stop
    BY <1>1, <1>5 DEF Save, Tell, AppendBlock, Resolve, Stop, history
  <1>6. ASSUME NEW t \in told, WorkDone(t) PROVE UNCHANGED asked
    BY <1>6 DEF WorkDone, history
  <1>7. CASE ApproveGate \/ RejectGate \/ AskReload \/ Quit \/ \E p \in Paths : Handoff(p)
    BY <1>1, <1>7 DEF ApproveGate, RejectGate, Rule, AskReload, Quit, Handoff, history
  <1>8. ASSUME NEW p \in Paths, Start(p) \/ Resume(p) PROVE UNCHANGED asked
    BY <1>8 DEF Start, Resume, history
  <1>9. ASSUME NEW e \in Edited, Edit(e[1], e[2]) PROVE UNCHANGED asked
    BY <1>9 DEF Edit, history
  <1>10. CASE UNCHANGED vars BY <1>1, <1>10 DEF vars, history
  <1> QED BY <1>1, <1>2, <1>3, <1>4, <1>5, <1>6, <1>7, <1>8, <1>9, <1>10
          DEF Next, Handler, Message, World

\* The ways a step touches what the ledger is about
Loses == mem' = Blank /\ todo' = <<>> /\ disk' = disk /\ told' = told

Begins ==
  /\ ~Up /\ disk' = disk /\ told' = told /\ todo' = todo
  /\ disk.life <= mem'.life /\ (mem'.board = <<>> \/ mem'.board = disk.board)

Idles == mem' = mem /\ disk' = disk /\ told' = told /\ todo' = todo /\ job' = job

LEMMA WorldSteps ==
  ASSUME Shape, World \/ Stop \/ UNCHANGED vars
  PROVE  Loses \/ Begins \/ Idles
  <1>1. CASE Stop
    <2>1. todo = <<"stop">> BY <1>1, Shortest DEF Stop, Shape
    <2>2. todo' = <<>> BY <1>1, <2>1 DEF Stop, Goes
    <2> QED BY <1>1, <2>2 DEF Stop, Loses, history
  <1>2. CASE Crash BY <1>2 DEF Crash, Loses
  <1>3. ASSUME NEW p \in Paths, Start(p) PROVE Begins
    <2>1. mem'.life = lives + 1 /\ mem'.board = <<>> BY <1>3 DEF Start, Blank
    <2>2. disk.life <= lives + 1 BY DEF Shape
    <2> QED BY <1>3, <2>1, <2>2 DEF Start, Begins
  <1>4. ASSUME NEW p \in Paths, Resume(p) PROVE Begins
    <2>1. mem'.life = disk.life /\ mem'.board = disk.board BY <1>4 DEF Resume, Shape, IsMemory
    <2>2. disk.life <= disk.life BY DEF Shape
    <2> QED BY <1>4, <2>1, <2>2 DEF Resume, Begins, history
  <1>5. ASSUME NEW e \in Edited, Edit(e[1], e[2]) PROVE Idles
    BY <1>5 DEF Edit, Idles, history
  <1>6. CASE UNCHANGED vars BY <1>6 DEF vars, history, Idles
  <1> QED BY <1>1, <1>2, <1>3, <1>4, <1>5, <1>6 DEF World

LEMMA LedgerSteps ==
  ASSUME LedgerInv, [Next]_vars
  PROVE  Save \/ Fits \/ Loses \/ Begins \/ Idles
  <1>1. Shape BY DEF LedgerInv, IdsInv, SyncInv
  <1>2. CASE Handler BY <1>1, <1>2, HandlerFits, WorldSteps DEF LedgerInv
  <1>3. CASE Message BY <1>1, <1>3, MessageFits DEF LedgerInv, IdsInv
  <1>4. CASE World \/ UNCHANGED vars BY <1>1, <1>4, WorldSteps
  <1> QED BY <1>2, <1>3, <1>4 DEF Next

LEMMA LedgerInit == Init => LedgerInv
  <1> SUFFICES ASSUME Init PROVE LedgerInv OBVIOUS
  <1>1. IdsInv BY IdsInit
  <1>2. Boards BY DEF Init, Boards, Blank
  <1>3. todo = <<>> BY DEF Init
  <1>4. OneOperation BY <1>3 DEF OneOperation, Does
  <1>5. NewestKept BY <1>3, PlainPlans, NotTellPlans DEF NewestKept
  <1> QED BY <1>1, <1>2, <1>4, <1>5 DEF LedgerInv

LEMMA LedgerStep ==
  ASSUME LedgerInv, [Next]_vars
  PROVE  LedgerInv'
  <1>1. IdsInv' BY IdsStep DEF LedgerInv
  <1>2. Shape /\ SyncInv /\ Boards BY DEF LedgerInv, IdsInv, SyncInv
  <1>3. asked' \in Seq(Tickets) BY <1>2, AskedStep DEF Boards
  <1>4. CASE Save
    <2>1. Does("save") /\ Goes /\ mem' = mem /\ disk' = mem /\ told' = told
      BY <1>4 DEF Save, history
    <2>2. ~Does("save")' /\ (todo' \in TellPlans => todo \in TellPlans)
      BY <1>2, <2>1, PlanGoesOn DEF Shape, Does, Goes, TellPlans
    <2>3. Boards' BY <1>2, <1>3, <2>1 DEF Boards, Shape, Up
    <2>4. OneOperation' BY <2>2 DEF OneOperation
    <2>5. NewestKept'
      BY <1>2, <2>1, <2>2, ReportGoesOn DEF LedgerInv, NewestKept, Shape
    <2> QED BY <1>1, <2>3, <2>4, <2>5 DEF LedgerInv
  <1>5. CASE Fits
    <2>1. Boards' BY <1>2, <1>3, <1>5 DEF Fits, Boards, Up
    <2>2. OneOperation'
      <3> SUFFICES ASSUME Does("save")' PROVE Promise!Operation(Base, View(mem))'
        BY DEF OneOperation
      <3>1. Promise!Operation(Base, View(mem')) /\ told' = told
        BY <1>2, <1>5, OnBase DEF Fits
      <3>2. Base'.life = Base.life /\ Base'.seq = Base.seq
            /\ Base'.board = Base.board /\ Base'.gates = Base.gates
        BY <1>5 DEF Fits, Base, View, Promise!Afresh
      <3>3. Promise!Operation(Base', View(mem')) BY <3>1, <3>2, OperationSees
      <3> QED BY <3>1, <3>3 DEF Promise!Operation, Promise!Reports
    <2>3. NewestKept' BY <1>5 DEF Fits, NewestKept
    <2> QED BY <1>1, <2>1, <2>2, <2>3 DEF LedgerInv
  <1>6. CASE Loses
    <2>1. Boards' BY <1>2, <1>3, <1>6 DEF Loses, Boards, Blank, Up
    <2>2. OneOperation' BY <1>6 DEF Loses, OneOperation, Does
    <2>3. NewestKept' BY <1>6, PlainPlans, NotTellPlans DEF Loses, NewestKept
    <2> QED BY <1>1, <2>1, <2>2, <2>3 DEF LedgerInv
  <1>7. CASE Begins
    <2>1. todo' = <<>> BY <1>2, <1>7 DEF Begins, Shape, Up
    <2>2. Boards'
      <3>1. mem'.board \in Seq(Rows)
        <4>1. CASE mem'.board = <<>> BY <4>1
        <4>2. CASE mem'.board = disk.board BY <1>2, <4>2 DEF Boards
        <4> QED BY <1>7, <4>1, <4>2 DEF Begins
      <3> QED BY <1>2, <1>3, <1>7, <3>1 DEF Begins, Boards
    <2>3. OneOperation' BY <2>1 DEF OneOperation, Does
    <2>4. NewestKept' BY <2>1, PlainPlans, NotTellPlans DEF NewestKept
    <2> QED BY <1>1, <2>2, <2>3, <2>4 DEF LedgerInv
  <1>8. CASE Idles
    <2>1. Boards' BY <1>2, <1>3, <1>8 DEF Idles, Boards, Up
    <2>2. Base' = Base /\ View(mem') = View(mem)
      BY <1>8 DEF Idles, Base, View, LiveIn, Promise!Afresh
    <2>3. OneOperation'
      BY <1>8, <2>2
      DEF Idles, OneOperation, LedgerInv, Does, Promise!Operation, Promise!Reports
    <2>4. NewestKept' BY <1>8 DEF Idles, NewestKept, LedgerInv
    <2> QED BY <1>1, <2>1, <2>3, <2>4 DEF LedgerInv
  <1> QED BY <1>4, <1>5, <1>6, <1>7, <1>8, LedgerSteps

-----------------------------------------------------------------------------
(* The refinement *)

LEMMA InitRefines == Init => Promise!Init
  <1> SUFFICES ASSUME Init PROVE Promise!Init OBVIOUS
  <1>1. LiveIn(disk.slots) = {} BY DEF Init, Blank, LiveIn
  <1> QED BY <1>1 DEF Init, Blank, Promise!Init, Promise!Afresh, OnDisk

LEMMA SaveRefines ==
  ASSUME LedgerInv, Save
  PROVE  Promise!Save
  <1>1. /\ Promise!Operation(Base, View(mem)) /\ Up
        /\ disk' = mem /\ told' = told
    BY DEF LedgerInv, OneOperation, Save, history, IdsInv, SyncInv, Shape, Does, Up
  <1>2. OnDisk' = View(mem) /\ OnDisk = View(disk) BY <1>1 DEF OnDisk, View, LiveIn
  <1>3. disk.life \in Nat /\ mem.life \in Nat /\ disk.life <= mem.life
    BY <1>1 DEF LedgerInv, Boards, IdsInv, SyncInv, Shape
  <1>4. CASE disk.life = mem.life
    BY <1>1, <1>2, <1>4 DEF Base, Promise!Save
  <1>5. CASE disk.life # mem.life
    <2>1. OnDisk'.life = mem.life /\ OnDisk.life = disk.life /\ mem.life > disk.life
      BY <1>2, <1>3, <1>5 DEF View
    <2>2. Base = Promise!Afresh(OnDisk'.life) BY <1>5, <2>1 DEF Base
    <2> QED BY <1>1, <1>2, <2>1, <2>2 DEF Promise!Save
  <1> QED BY <1>4, <1>5

LEMMA TellRefines ==
  ASSUME LedgerInv, Tell
  PROVE  Promise!Tell
  <1>1. Shape /\ IdFresh /\ NewestKept /\ SyncInv BY DEF LedgerInv, IdsInv, SyncInv
  <1>2. todo = <<"tell">> BY <1>1, Shortest DEF Tell, Shape
  <1>3. /\ job.id = mem.seq /\ disk.life = mem.life
        /\ \A t \in told : t.life = mem.life => t.id < mem.seq
        /\ NewestIs(mem.board, Row("delegate", mem.seq))
    BY <1>1, <1>2 DEF IdFresh, NewestKept, TellPlans
  <1>4. disk.board = mem.board /\ disk.seq = mem.seq
    BY <1>1, <1>2, <1>3 DEF SyncInv, AheadOnlyToSave, Does, InStep, Shape, Up
  <1> DEFINE t == [life |-> mem.life, id |-> job.id, n |-> job.n]
  <1>5. told' = told \union {t} /\ disk' = disk BY DEF Tell
  <1>6. t.life = OnDisk.life /\ t.id = OnDisk.seq /\ OnDisk.board = mem.board
    BY <1>3, <1>4 DEF OnDisk
  <1>7. \A u \in told : u.life = t.life => u.id < t.id BY <1>3
  <1>8. t \notin told
    <2>1. t.id \in Nat BY <1>1, <1>3 DEF Shape
    <2> QED BY <1>7, <2>1
  <1> HIDE DEF t
  <1>9. OnDisk.board # <<>> /\ Promise!Newest(OnDisk.board) = Promise!Task(t.id)
    BY <1>3, <1>4, <1>6 DEF NewestIs, Promise!Newest, Promise!Task, Row, OnDisk
  <1>10. OnDisk' = OnDisk BY <1>5 DEF OnDisk, LiveIn
  <1>11. t \in told' \ told BY <1>5, <1>8
  <1> QED BY <1>5, <1>6, <1>7, <1>9, <1>10, <1>11 DEF Promise!Tell

LEMMA StepRefines ==
  ASSUME LedgerInv, [Next]_vars
  PROVE  [Promise!Next]_(Promise!vars)
  <1>1. CASE Save BY <1>1, SaveRefines DEF Promise!Next
  <1>2. CASE Tell BY <1>2, TellRefines DEF Promise!Next
  <1>3. CASE ~Save /\ ~Tell
    <2>1. disk' = disk
      BY <1>3, LedgerSteps DEF Fits, Loses, Begins, Idles
    <2>2. told' = told
      BY <1>3 DEF Next, Handler, Hear, AppendBlock, Resolve, Reload, CarryOut, Stop,
                  Message, Delegate, Propose, WorkDone, ApproveGate, RejectGate, Rule, AskReload,
                  Handoff, Quit, World, Crash, Start, Resume, Edit, vars, history
    <2>3. OnDisk' = OnDisk BY <2>1 DEF OnDisk, LiveIn
    <2> QED BY <2>2, <2>3 DEF Promise!vars
  <1> QED BY <1>1, <1>2, <1>3

\* Session implements the ledger: whatever is being handled when the deck dies,
\* what is on disk is the session after some whole number of operations, and no
\* worker was given a task that is not (saveSnapshot, deliverDelegate).
THEOREM SnapshotIsALedger == Spec => WriteAhead
  BY LedgerInit, LedgerStep, InitRefines, StepRefines, PTL DEF Spec, WriteAhead, Promise!Spec

-----------------------------------------------------------------------------
(* Types *)

\* What the snapshot and the memory have in common
Sound(m) ==
  /\ m.slots \in Seq(Slots)
  /\ m.gates \in Seq(Held)
  /\ Len(m.board) <= BoardCap
  /\ m.handoff \in BOOLEAN
  /\ m.path \in Paths \cup {NoPath}
  /\ m.life > 0 => m.path \in Paths

\* A handler that is about a role knows which, and one that writes a role's block
\* is about a proposal
JobSound ==
  /\ job \in Requests
  /\ job.kind \in {"delegate", "roster"} => job.to \in Names
  /\ todo = <<"append", "reload">> => job.kind = "roster"

Typed ==
  /\ Sound(mem) /\ Sound(disk)
  /\ file \in [Paths -> Seq(Names)]
  /\ JobSound
  /\ told \subseteq [life : Nat, id : Nat, n : Nat]

TypedInv == LedgerInv /\ Typed

LEMMA HeldNamed == \A g \in Held : g \in Requests /\ g.kind \in {"delegate", "roster"} /\ g.to \in Names
BY SessionAssumption DEF Held, Requests, Kinds

LEMMA NoJobSound == NoJob \in Requests /\ NoJob.kind \notin {"delegate", "roster"}
BY DEF NoJob, Requests, Kinds

LEMMA Blanks == IsMemory(Blank) /\ Sound(Blank)
BY SessionAssumption DEF Blank, IsMemory, Sound

LEMMA RecordedIsCapped ==
  ASSUME NEW board \in Seq(Rows), NEW row \in Rows
  PROVE  Len(Recorded(board, row)) <= BoardCap
<1> DEFINE all == Append(board, row)
           from == IF Len(all) > BoardCap THEN Len(all) - BoardCap + 1 ELSE 1
<1>1. all \in Seq(Rows) /\ Len(all) \in Nat /\ Len(all) >= 1
  OBVIOUS
<1>2. BoardCap \in Nat /\ BoardCap >= 1
  BY SessionAssumption
<1>3. Recorded(board, row) = SubSeq(all, from, Len(all))
  BY DEF Recorded
<1> HIDE DEF all
<1>4. from \in 1 .. Len(all) /\ Len(all) - from + 1 <= BoardCap
  BY <1>1, <1>2
<1> HIDE DEF from
<1>5. Len(SubSeq(all, from, Len(all))) = Len(all) - from + 1
  BY <1>1, <1>4
<1> QED
  BY <1>3, <1>4, <1>5

\* Effects left over never begin with a block to write.
LEMMA NoBlockLeft ==
  ASSUME todo \in Plans, todo # <<>>, todo' = Tail(todo)
  PROVE  todo' # <<"append", "reload">>
<1>1. \A e : e # "append" => <<e>> # <<"append", "reload">>
  BY OneIsNotTwo
<1>2. CASE \E e \in {"save", "tell", "hear", "carry", "stop", "reload"} : todo = <<e>>
  <2>1. todo' = <<>> /\ <<"append", "reload">> # <<>>
    BY <1>2
  <2> QED
    BY <2>1
<1>3. CASE \E e \in {"tell", "hear", "carry", "stop"} : todo = <<"save", e>>
  <2>1. PICK e \in {"tell", "hear", "carry", "stop"} : todo = <<"save", e>>
    BY <1>3
  <2>2. todo' = <<e>>
    BY <2>1
  <2> QED
    BY <2>2, OneIsNotTwo
<1>4. CASE todo = <<"append", "reload">>
  <2>1. todo' = <<"reload">>
    BY <1>4
  <2> QED
    BY <2>1, OneIsNotTwo
<1>5. CASE todo = <<"resolve", "hear">>
  <2>1. todo' = <<"hear">>
    BY <1>5
  <2> QED
    BY <2>1, OneIsNotTwo
<1>6. CASE todo = <<"save", "resolve", "hear">>
  <2>1. todo'[1] = "resolve" /\ <<"append", "reload">>[1] = "append"
    BY <1>6
  <2> QED
    BY <2>1
<1> QED
  BY <1>2, <1>3, <1>4, <1>5, <1>6 DEF Plans

LEMMA BlockPlans ==
  /\ <<>> # <<"append", "reload">>
  /\ \A e : <<e>> # <<"append", "reload">>
  /\ \A e, f : e # "append" => <<e, f>> # <<"append", "reload">>
  /\ \A e, f, g : <<e, f, g>> # <<"append", "reload">>
<1>1. /\ Len(<<>>) = 0 /\ Len(<<"append", "reload">>) = 2 /\ <<"append", "reload">>[1] = "append"
      /\ \A e : Len(<<e>>) = 1
      /\ \A e, f : <<e, f>>[1] = e
      /\ \A e, f, g : Len(<<e, f, g>>) = 3
  OBVIOUS
<1> QED
  BY <1>1

-----------------------------------------------------------------------------
(* Slots *)

\* Slots b go on from slots a: none moved, changed its name or came back
Extends(a, b) ==
  \A i \in DOMAIN a : i \in DOMAIN b /\ b[i].name = a[i].name /\ (a[i].gone => b[i].gone)

LEMMA ExtendsOn ==
  ASSUME NEW a, NEW b, NEW c, Extends(a, b), Extends(b, c)
  PROVE  Extends(a, c)
BY DEF Extends

LEMMA RetiredExtends ==
  ASSUME NEW slots \in Seq(Slots), NEW names
  PROVE  Retired(slots, names) \in Seq(Slots) /\ Extends(slots, Retired(slots, names))
<1>1. DOMAIN slots = 1 .. Len(slots) /\ Len(slots) \in Nat /\ \A i \in 1 .. Len(slots) : slots[i] \in Slots
  OBVIOUS
<1>2. ASSUME NEW i \in 1 .. Len(slots)
      PROVE  /\ Retired(slots, names)[i] \in Slots
             /\ Retired(slots, names)[i].name = slots[i].name
             /\ slots[i].gone => Retired(slots, names)[i].gone
  <2> DEFINE gone == slots[i].gone \/ slots[i].name \notin Range(names)
  <2>1. Retired(slots, names)[i] = [slots[i] EXCEPT !.gone = gone]
    BY <1>1 DEF Retired
  <2>2. slots[i] \in Slots /\ gone \in BOOLEAN
    BY <1>1
  <2>3. slots[i].gone => gone
    OBVIOUS
  <2> HIDE DEF gone
  <2> QED
    BY <2>1, <2>2, <2>3 DEF Slots
<1>3. DOMAIN Retired(slots, names) = 1 .. Len(slots)
  BY <1>1 DEF Retired
<1>4. Retired(slots, names) \in [1 .. Len(slots) -> Slots]
  BY <1>1, <1>2 DEF Retired
<1> QED
  BY <1>1, <1>2, <1>3, <1>4 DEF Extends

LEMMA AppendExtends ==
  ASSUME NEW slots \in Seq(Slots), NEW name \in Names
  PROVE  Append(slots, Slot(name)) \in Seq(Slots) /\ Extends(slots, Append(slots, Slot(name)))
<1>1. Slot(name) \in Slots
  BY DEF Slot, Slots
<1> QED
  BY <1>1 DEF Extends

LEMMA ConvergedExtends ==
  ASSUME NEW slots \in Seq(Slots), NEW names \in Seq(Names)
  PROVE  Converged(slots, names) \in Seq(Slots) /\ Extends(slots, Converged(slots, names))
<1> DEFINE A == {acc \in Seq(Slots) : Extends(slots, acc)}
           n == Len(names)
<1>0. n \in Nat /\ DOMAIN names = 1 .. n /\ \A i \in 1 .. n : names[i] \in Names
  OBVIOUS
<1>1. Retired(slots, names) \in A
  BY RetiredExtends
<1>2. \A acc \in A, i \in 1 .. n : Spawned(acc, names[i]) \in A
  <2> SUFFICES ASSUME NEW acc \in Seq(Slots), Extends(slots, acc), NEW i \in 1 .. n
               PROVE  Spawned(acc, names[i]) \in A
    OBVIOUS
  <2>1. CASE names[i] \in LiveIn(acc)
    BY <2>1 DEF Spawned
  <2>2. CASE names[i] \notin LiveIn(acc)
    <3>1. Append(acc, Slot(names[i])) \in Seq(Slots) /\ Extends(acc, Append(acc, Slot(names[i])))
      BY <1>0, AppendExtends
    <3> QED
      BY <2>2, <3>1, ExtendsOn DEF Spawned
  <2> QED
    BY <2>1, <2>2
<1> HIDE DEF A, n
<1>3. PICK h : /\ h[0] = Retired(slots, names)
               /\ \A k \in 1 .. n : h[k] = Spawned(h[k - 1], names[k])
               /\ h[n] = Converged(slots, names)
  BY <1>0, <1>1, <1>2, ConvergedFold
<1> DEFINE K == {k \in 0 .. n : h[k] \in A}
<1>4. 0 \in K
  BY <1>0, <1>1, <1>3
<1>5. \A k \in 1 .. n : k - 1 \in K => k \in K
  BY <1>0, <1>2, <1>3
<1> HIDE DEF K
<1>6. \A k \in 0 .. n : k \in K
  BY <1>0, <1>4, <1>5, StepByStep
<1>7. h[n] \in A
  BY <1>0, <1>6 DEF K
<1> QED
  BY <1>3, <1>7 DEF A

LEMMA SpawnedExtends ==
  ASSUME NEW slots \in Seq(Slots), NEW names \in Seq(Names), NEW S
  PROVE  LET new == Among(names, S)
             all == Retired(slots, names) \o [i \in DOMAIN new |-> Slot(new[i])]
         IN  all \in Seq(Slots) /\ Extends(slots, all)
<1> DEFINE new == Among(names, S)
           more == [i \in DOMAIN new |-> Slot(new[i])]
           kept == Retired(slots, names)
<1>1. new \in Seq(Names)
  BY AmongIs
<1> HIDE DEF new
<1>2. DOMAIN new = 1 .. Len(new) /\ Len(new) \in Nat /\ \A i \in 1 .. Len(new) : new[i] \in Names
  BY <1>1
<1>3. more \in [1 .. Len(new) -> Slots]
  BY <1>2 DEF Slot, Slots
<1> HIDE DEF more
<1>4. more \in Seq(Slots)
  BY <1>2, <1>3
<1>5. kept \in Seq(Slots) /\ Extends(slots, kept)
  BY RetiredExtends
<1> HIDE DEF kept
<1>6. kept \o more \in Seq(Slots) /\ Extends(kept, kept \o more)
  BY <1>4, <1>5 DEF Extends
<1>7. Extends(slots, kept \o more)
  BY <1>5, <1>6, ExtendsOn
<1> QED
  BY <1>6, <1>7 DEF more, kept, new

-----------------------------------------------------------------------------
(* Every step is typed *)

\* The part of memory no handler but the roster's and the handoff's changes
SameTeam == mem'.slots = mem.slots /\ mem'.path = mem.path /\ mem'.handoff = mem.handoff

LEMMA SoundlyRecorded ==
  ASSUME TypedInv, NEW row \in Rows, SameTeam, mem'.life = mem.life, mem'.gates = mem.gates,
         mem'.board = Recorded(mem.board, row)
  PROVE  Sound(mem')
<1>1. Len(mem'.board) <= BoardCap
  BY RecordedIsCapped DEF TypedInv, LedgerInv, Boards
<1> QED
  BY <1>1 DEF SameTeam, TypedInv, Typed, Sound

LEMMA IssueTyped ==
  ASSUME TypedInv, NEW r \in Names, NEW n \in Nat, Issue(r, n)
  PROVE  Sound(mem') /\ JobSound'
<1>1. Shape
  BY DEF TypedInv, LedgerInv, IdsInv, SyncInv
<1>2. /\ mem'.life = mem.life /\ mem'.gates = mem.gates /\ SameTeam
      /\ mem'.board = Recorded(mem.board, Row("delegate", mem.seq + 1))
  BY <1>1 DEF Issue, Shape, IsMemory, SameTeam
<1>3. Row("delegate", mem.seq + 1) \in Rows /\ mem.seq + 1 \in Nat
  BY <1>1 DEF Shape, Row, Rows
<1>4. job' \in Requests /\ job'.to \in Names
  BY <1>3 DEF Issue, Requests, Kinds
<1>5. todo' # <<"append", "reload">>
  BY BlockPlans DEF Issue
<1> QED
  BY <1>2, <1>3, <1>4, <1>5, SoundlyRecorded DEF JobSound

LEMMA HoldTyped ==
  ASSUME TypedInv, NEW request \in Held, Hold(request)
  PROVE  Sound(mem') /\ JobSound'
<1>1. /\ mem'.life = mem.life /\ mem'.gates = Append(mem.gates, request) /\ SameTeam
      /\ mem'.board = mem.board
  BY DEF Hold, TypedInv, LedgerInv, IdsInv, SyncInv, Shape, IsMemory, SameTeam
<1>2. Sound(mem')
  BY <1>1 DEF SameTeam, TypedInv, Typed, Sound
<1>3. JobSound'
  BY HeldNamed, BlockPlans DEF Hold, JobSound
<1> QED
  BY <1>2, <1>3

\* A handler that goes on is about what it was about, or over.
LEMMA GoesTyped ==
  ASSUME TypedInv, todo # <<>>, Goes
  PROVE  JobSound'
<1>1. todo' # <<"append", "reload">>
  BY NoBlockLeft DEF Goes, TypedInv, LedgerInv, IdsInv, SyncInv, Shape
<1> QED
  BY <1>1, NoJobSound DEF Goes, TypedInv, Typed, JobSound

LEMMA StayTyped ==
  ASSUME TypedInv, mem' = mem
  PROVE  Sound(mem')
BY DEF TypedInv, Typed, Sound

LEMMA TicketsNat ==
  ASSUME TypedInv
  PROVE  /\ Ticket \in Nat /\ job.n \in Nat
         /\ job.id \in Nat
BY DEF TypedInv, LedgerInv, Boards, Ticket, Typed, JobSound, Requests

LEMMA ReloadTyped ==
  ASSUME TypedInv, Reload
  PROVE  Sound(mem') /\ JobSound' /\ Extends(mem.slots, mem'.slots)
<1> DEFINE slots == Converged(mem.slots, file[mem.path])
           gates == Among(mem.gates, {g \in Range(mem.gates) : g.to \in LiveIn(slots)})
<1>1. Shape /\ Up
  BY DEF Reload, Does, TypedInv, LedgerInv, IdsInv, SyncInv, Shape, Up
<1>2. mem.path \in Paths /\ mem.slots \in Seq(Slots) /\ mem.gates \in Seq(Held)
  BY <1>1 DEF TypedInv, Typed, Sound, Shape, Up
<1>3. file[mem.path] \in Seq(Names)
  BY <1>2 DEF TypedInv, Typed
<1>4. slots \in Seq(Slots) /\ Extends(mem.slots, slots)
  BY <1>2, <1>3, ConvergedExtends
<1>5. mem' = [mem EXCEPT !.slots = slots, !.gates = gates]
  BY Zenon DEF Reload
<1>6. gates \in Seq(Held)
  BY <1>2, AmongIs
<1> HIDE DEF slots, gates
<1>7. /\ mem'.slots = slots /\ mem'.gates = gates /\ mem'.life = mem.life /\ mem'.board = mem.board
      /\ mem'.path = mem.path /\ mem'.handoff = mem.handoff
  BY <1>1, <1>5 DEF Shape, IsMemory
<1>8. Sound(mem')
  BY <1>4, <1>6, <1>7 DEF TypedInv, Typed, Sound
<1>9. todo' # <<"append", "reload">> /\ job' = job
  <2>1. todo' = <<"save">> \/ todo' = <<"save", "hear">>
    BY DEF Reload
  <2> QED
    BY <2>1, BlockPlans DEF Reload
<1> QED
  BY <1>4, <1>7, <1>8, <1>9 DEF TypedInv, Typed, JobSound

LEMMA StartTyped ==
  ASSUME TypedInv, NEW p \in Paths, Start(p)
  PROVE  Sound(mem') /\ mem'.life > disk.life
<1> DEFINE slots == [i \in DOMAIN file[p] |-> Slot(file[p][i])]
<1>1. file[p] \in Seq(Names)
  BY DEF TypedInv, Typed
<1>2. DOMAIN file[p] = 1 .. Len(file[p]) /\ Len(file[p]) \in Nat
      /\ \A i \in 1 .. Len(file[p]) : file[p][i] \in Names
  BY <1>1
<1>3. slots \in [1 .. Len(file[p]) -> Slots]
  BY <1>2 DEF Slot, Slots
<1>4. mem' = [Blank EXCEPT !.life = lives + 1, !.path = p, !.slots = slots]
  BY DEF Start
<1> HIDE DEF slots
<1>5. slots \in Seq(Slots)
  BY <1>2, <1>3
<1>6. /\ mem'.slots = slots /\ mem'.gates = <<>> /\ mem'.board = <<>> /\ mem'.handoff = FALSE
      /\ mem'.path = p /\ mem'.life = lives + 1
  BY <1>4 DEF Blank
<1>7. disk.life \in 0 .. lives /\ lives \in Nat
  BY DEF TypedInv, LedgerInv, IdsInv, SyncInv, Shape
<1>8. mem'.life > disk.life
  BY <1>6, <1>7
<1>9. Len(mem'.board) <= BoardCap
  BY <1>6, SessionAssumption
<1>10. mem'.gates \in Seq(Held)
  BY <1>6
<1> QED
  BY <1>5, <1>6, <1>8, <1>9, <1>10 DEF Sound

LEMMA ResumeTyped ==
  ASSUME TypedInv, NEW p \in Paths, Resume(p)
  PROVE  Sound(mem') /\ mem'.life = disk.life /\ Extends(disk.slots, mem'.slots)
<1> DEFINE new == Among(file[p], Names \ Range(NamesOf(disk.slots)))
           slots == Retired(disk.slots, file[p]) \o [i \in DOMAIN new |-> Slot(new[i])]
<1>1. file[p] \in Seq(Names) /\ disk.slots \in Seq(Slots)
  BY DEF TypedInv, Typed, Sound
<1>2. slots \in Seq(Slots) /\ Extends(disk.slots, slots)
  BY <1>1, SpawnedExtends
<1>3. mem' = [disk EXCEPT !.handoff = FALSE, !.slots = slots]
  BY Zenon DEF Resume
<1> HIDE DEF slots, new
<1>4. /\ mem'.slots = slots /\ mem'.gates = disk.gates /\ mem'.board = disk.board
      /\ mem'.handoff = FALSE /\ mem'.path = disk.path /\ mem'.life = disk.life
  BY <1>3 DEF TypedInv, LedgerInv, IdsInv, SyncInv, Shape, IsMemory
<1> QED
  BY <1>2, <1>4 DEF TypedInv, Typed, Sound

LEMMA FileStep ==
  ASSUME TypedInv, [Next]_vars
  PROVE  file' \in [Paths -> Seq(Names)]
<1>1. file \in [Paths -> Seq(Names)] /\ JobSound /\ Shape
  BY DEF TypedInv, Typed, LedgerInv, IdsInv, SyncInv
<1>2. CASE AppendBlock
  <2>1. todo = <<"append", "reload">> /\ Up
    BY <1>1, <1>2 DEF AppendBlock, Does, Plans, Shape, Up
  <2>2. job.to \in Names /\ mem.path \in Paths
    BY <1>1, <2>1 DEF JobSound, TypedInv, Typed, Sound, Up, Shape
  <2>3. Append(file[mem.path], job.to) \in Seq(Names)
    BY <1>1, <2>2
  <2> QED
    BY <1>1, <1>2, <2>3 DEF AppendBlock
<1>3. ASSUME NEW e \in Edited, Edit(e[1], e[2])
      PROVE  file' \in [Paths -> Seq(Names)]
  <2> DEFINE p == e[1]
             r == e[2]
             new == IF r \in Range(file[p]) THEN Among(file[p], Names \ {r}) ELSE Append(file[p], r)
  <2>1. p \in Paths /\ r \in Names
    BY SessionAssumption
  <2>2. file' = [file EXCEPT ![p] = new]
    BY <1>3, Zenon DEF Edit
  <2>3. file[p] \in Seq(Names)
    BY <1>1, <2>1
  <2>4. new \in Seq(Names)
    BY <2>1, <2>3, AmongIs
  <2> HIDE DEF new, p, r
  <2> QED
    BY <1>1, <2>2, <2>4
<1>4. CASE ~AppendBlock /\ ~(\E e \in Edited : Edit(e[1], e[2]))
  <2>1. file' = file
    BY <1>4 DEF Next, Handler, Save, Tell, Hear, Resolve, Reload, CarryOut, Stop,
                Message, Delegate, Propose, WorkDone, ApproveGate, RejectGate, Rule, AskReload,
                Handoff, Quit, World, Crash, Start, Resume, vars, history
  <2> QED
    BY <1>1, <2>1
<1> QED
  BY <1>2, <1>3, <1>4

LEMMA Same == \A a : Extends(a, a)
BY DEF Extends

LEMMA TypedHandler ==
  ASSUME TypedInv, Handler
  PROVE  Sound(mem') /\ JobSound' /\ (mem' = Blank \/ Extends(mem.slots, mem'.slots))
         /\ told' \subseteq [life : Nat, id : Nat, n : Nat]
<1> USE Same
<1>1. Shape /\ told \subseteq [life : Nat, id : Nat, n : Nat] /\ Sound(mem)
  BY DEF TypedInv, Typed, LedgerInv, IdsInv, SyncInv
<1>2. CASE Save \/ Hear \/ AppendBlock
  <2>1. mem' = mem /\ told' = told /\ Goes /\ todo # <<>>
    BY <1>2 DEF Save, Hear, AppendBlock, Does, history
  <2> QED
    BY <1>1, <2>1, GoesTyped, StayTyped
<1>3. CASE Tell
  <2>1. mem' = mem /\ Goes /\ todo # <<>>
    BY <1>3 DEF Tell, Does
  <2>2. [life |-> mem.life, id |-> job.id, n |-> job.n] \in [life : Nat, id : Nat, n : Nat]
    BY <1>1, TicketsNat DEF Shape
  <2> QED
    BY <1>1, <1>3, <2>1, <2>2, GoesTyped, StayTyped DEF Tell
<1>4. CASE Resolve
  <2>1. told' = told /\ todo # <<>>
    BY <1>4 DEF Resolve, Does, history
  <2>2. CASE mem' = mem /\ Goes
    BY <1>1, <2>1, <2>2, GoesTyped, StayTyped
  <2>3. CASE /\ \E S : mem' = [mem EXCEPT !.board = [i \in DOMAIN mem.board |->
                                 [mem.board[i] EXCEPT !.open = mem.board[i].open /\ i # S]]]
             /\ todo' = <<"save", "hear">> /\ job' = job
    <3>1. PICK S : mem' = [mem EXCEPT !.board = [i \in DOMAIN mem.board |->
                                 [mem.board[i] EXCEPT !.open = mem.board[i].open /\ i # S]]]
      BY <2>3
    <3>2. SameTeam /\ mem'.life = mem.life /\ mem'.gates = mem.gates
          /\ mem'.board = [i \in DOMAIN mem.board |->
                                 [mem.board[i] EXCEPT !.open = mem.board[i].open /\ i # S]]
      BY <1>1, <3>1 DEF Shape, IsMemory, SameTeam
    <3>3. Len(mem'.board) = Len(mem.board)
      <4>1. mem.board \in Seq(Rows) /\ DOMAIN mem.board = 1 .. Len(mem.board) /\ Len(mem.board) \in Nat
        BY DEF TypedInv, LedgerInv, Boards
      <4>2. mem'.board \in [1 .. Len(mem.board) -> Range(mem'.board)]
        BY <3>2, <4>1 DEF Range
      <4> QED
        BY <4>1, <4>2
    <3>4. Sound(mem')
      BY <1>1, <3>2, <3>3 DEF Sound, SameTeam
    <3>5. JobSound'
      BY <2>3, BlockPlans DEF TypedInv, Typed, JobSound
    <3> QED
      BY <1>1, <2>1, <3>2, <3>4, <3>5 DEF SameTeam
  <2> DEFINE open == {i \in DOMAIN mem.board : mem.board[i].open /\ mem.board[i].id = job.id}
             k == CHOOSE k \in open : \A j \in open : j <= k
  <2>4. CASE open = {}
    BY <1>4, <2>2, <2>4 DEF Resolve
  <2>5. CASE open # {}
    <3>1. mem' = [mem EXCEPT !.board = [i \in DOMAIN mem.board |->
                     [mem.board[i] EXCEPT !.open = mem.board[i].open /\ i # k]]]
          /\ todo' = <<"save", "hear">> /\ job' = job
      BY <1>4, <2>5 DEF Resolve
    <3> QED
      BY <2>3, <3>1, Zenon
  <2> QED
    BY <2>4, <2>5
<1>5. CASE Reload
  BY <1>1, <1>5, ReloadTyped DEF Reload
<1>6. CASE CarryOut
  <2>1. told' = told /\ todo # <<>>
    BY <1>6 DEF CarryOut, Does
  <2>2. CASE job.kind = "delegate" /\ Issue(job.to, job.n)
    <3>1. job.to \in Names /\ job.n \in Nat
      BY <2>2, TicketsNat DEF TypedInv, Typed, JobSound
    <3>2. mem'.slots = mem.slots
      BY <1>1, <2>2 DEF Issue, Shape, IsMemory
    <3> QED
      BY <1>1, <2>1, <2>2, <3>1, <3>2, IssueTyped
  <2>3. CASE mem' = mem /\ Goes
    BY <1>1, <2>1, <2>3, GoesTyped, StayTyped
  <2>4. CASE job.kind = "roster" /\ mem' = mem /\ job' = job
    <3>1. JobSound'
      BY <2>4 DEF TypedInv, Typed, JobSound
    <3> QED
      BY <1>1, <2>1, <2>4, <3>1, StayTyped
  <2> QED
    BY <1>6, <2>2, <2>3, <2>4 DEF CarryOut
<1>7. CASE Stop
  <2>1. mem' = Blank /\ told' = told /\ Goes /\ todo # <<>>
    BY <1>7 DEF Stop, Does, history
  <2> QED
    BY <1>1, <2>1, GoesTyped, Blanks
<1> QED
  BY <1>2, <1>3, <1>4, <1>5, <1>6, <1>7 DEF Handler

LEMMA TypedMessage ==
  ASSUME TypedInv, Message
  PROVE  Sound(mem') /\ JobSound' /\ mem'.slots = mem.slots /\ told' = told
<1>1. Shape /\ Sound(mem) /\ Boards
  BY DEF TypedInv, Typed, LedgerInv, IdsInv, SyncInv
<1>2. ASSUME NEW r \in Names, Delegate(r)
      PROVE  Sound(mem') /\ JobSound' /\ mem'.slots = mem.slots /\ told' = told
  <2>1. told' = told
    BY <1>2 DEF Delegate
  <2>2. CASE Issue(r, Ticket)
    <3>1. mem'.slots = mem.slots
      BY <1>1, <2>2 DEF Issue, Shape, IsMemory
    <3> QED
      BY <2>1, <2>2, <3>1, IssueTyped, TicketsNat
  <2>3. CASE Hold(Request("delegate", r, Ticket))
    <3>1. mem'.slots = mem.slots
      BY <1>1, <2>3 DEF Hold, Shape, IsMemory
    <3>2. Request("delegate", r, Ticket) \in Held
      BY <1>1, <1>2, TicketInRange DEF Delegate
    <3> QED
      BY <2>1, <2>3, <3>1, <3>2, HoldTyped
  <2> QED
    BY <1>2, <2>2, <2>3 DEF Delegate
<1>3. ASSUME NEW r \in Names, Propose(r)
      PROVE  Sound(mem') /\ JobSound' /\ mem'.slots = mem.slots /\ told' = told
  <2>1. told' = told /\ Request("roster", r, Ticket) \in Held
    BY <1>1, <1>3, TicketInRange DEF Propose
  <2>2. CASE mem' = mem /\ job' = Request("roster", r, Ticket)
    <3>1. JobSound'
      BY <2>1, <2>2, HeldNamed DEF JobSound, Request
    <3> QED
      BY <2>1, <2>2, <3>1, StayTyped
  <2>3. CASE Hold(Request("roster", r, Ticket))
    <3>1. mem'.slots = mem.slots
      BY <1>1, <2>3 DEF Hold, Shape, IsMemory
    <3> QED
      BY <2>1, <2>3, <3>1, HoldTyped
  <2> QED
    BY <1>3, <2>2, <2>3 DEF Propose
<1>4. ASSUME NEW t \in told, WorkDone(t)
      PROVE  Sound(mem') /\ JobSound' /\ mem'.slots = mem.slots /\ told' = told
  <2>1. told' = told /\ t \in [life : Nat, id : Nat, n : Nat]
    BY <1>4 DEF WorkDone, history, TypedInv, Typed
  <2>2. /\ mem'.life = mem.life /\ mem'.gates = mem.gates /\ SameTeam
        /\ mem'.board = Recorded(mem.board, Row("work-done", t.id))
    BY <1>1, <1>4 DEF WorkDone, Shape, IsMemory, SameTeam
  <2>3. Row("work-done", t.id) \in Rows
    BY <2>1 DEF Row, Rows
  <2>4. job' \in Requests /\ job'.kind = "report"
    BY <1>4, <2>1 DEF WorkDone, Requests, Kinds
  <2>5. todo' # <<"append", "reload">>
    BY <1>4, BlockPlans DEF WorkDone
  <2> QED
    BY <2>1, <2>2, <2>3, <2>4, <2>5, SoundlyRecorded DEF JobSound, SameTeam
<1>5. ASSUME NEW then \in {"carry", "hear"}, Rule(then)
      PROVE  Sound(mem') /\ JobSound' /\ mem'.slots = mem.slots /\ told' = told
  <2>1. /\ mem'.life = mem.life /\ mem'.gates = Tail(mem.gates) /\ SameTeam /\ mem'.board = mem.board
        /\ job' = Head(mem.gates) /\ told' = told /\ mem.gates # <<>>
    BY <1>1, <1>5 DEF Rule, Shape, IsMemory, SameTeam, history
  <2>2. Tail(mem.gates) \in Seq(Held) /\ Head(mem.gates) \in Held
    BY <1>1, <2>1 DEF Sound
  <2>3. Sound(mem')
    BY <1>1, <2>1, <2>2 DEF Sound, SameTeam
  <2>4. todo' # <<"append", "reload">>
    BY <1>5, BlockPlans DEF Rule
  <2> QED
    BY <2>1, <2>2, <2>3, <2>4, HeldNamed DEF JobSound, SameTeam
<1>6. CASE AskReload \/ Quit
  <2>1. mem' = mem /\ told' = told /\ job' = NoJob
    BY <1>6 DEF AskReload, Quit, history
  <2>2. todo' # <<"append", "reload">>
    BY <1>6, BlockPlans DEF AskReload, Quit
  <2> QED
    BY <2>1, <2>2, NoJobSound, StayTyped DEF JobSound
<1>7. ASSUME NEW p \in Paths, Handoff(p)
      PROVE  Sound(mem') /\ JobSound' /\ mem'.slots = mem.slots /\ told' = told
  <2>1. /\ mem'.life = mem.life /\ mem'.gates = mem.gates /\ mem'.board = mem.board
        /\ mem'.slots = mem.slots /\ mem'.path = p /\ mem'.handoff = TRUE
        /\ told' = told /\ job' = NoJob
    BY <1>1, <1>7 DEF Handoff, Shape, IsMemory, history
  <2>2. todo' # <<"append", "reload">>
    BY <1>7, BlockPlans DEF Handoff
  <2>3. Sound(mem')
    BY <1>1, <2>1 DEF Sound
  <2> QED
    BY <2>1, <2>2, <2>3, NoJobSound DEF JobSound
<1> QED
  BY <1>2, <1>3, <1>4, <1>5, <1>6, <1>7 DEF Message, ApproveGate, RejectGate

\* While a session is the one on disk, its slots go on from those on disk.
SlotInv ==
  /\ disk.life = 0 => disk.slots = <<>>
  /\ mem.life = disk.life => Extends(disk.slots, mem.slots)

LEMMA TypedWorld ==
  ASSUME TypedInv, World \/ UNCHANGED vars
  PROVE  /\ Sound(mem') /\ JobSound' /\ told' = told /\ disk' = disk
         /\ \/ mem' = Blank \/ mem' = mem \/ mem'.life > disk.life
            \/ mem'.life = disk.life /\ Extends(disk.slots, mem'.slots)
<1>1. JobSound /\ Sound(mem)
  BY DEF TypedInv, Typed
<1>2. CASE Crash
  <2>1. JobSound'
    BY <1>2, NoJobSound, BlockPlans DEF Crash, JobSound
  <2> QED
    BY <1>2, <2>1, Blanks DEF Crash
<1>3. ASSUME NEW p \in Paths, Start(p)
      PROVE  Sound(mem') /\ mem'.life > disk.life /\ JobSound' /\ told' = told /\ disk' = disk
  <2>1. JobSound'
    BY <1>1, <1>3 DEF Start, JobSound
  <2> QED
    BY <1>3, <2>1, StartTyped DEF Start
<1>4. ASSUME NEW p \in Paths, Resume(p)
      PROVE  /\ Sound(mem') /\ mem'.life = disk.life /\ Extends(disk.slots, mem'.slots)
             /\ JobSound' /\ told' = told /\ disk' = disk
  <2>1. JobSound'
    BY <1>1, <1>4 DEF Resume, JobSound
  <2> QED
    BY <1>4, <2>1, ResumeTyped DEF Resume, history
<1>5. ASSUME mem' = mem, todo' = todo, job' = job
      PROVE  Sound(mem') /\ JobSound'
  BY <1>1, <1>5 DEF Sound, JobSound
<1>6. ASSUME NEW e \in Edited, Edit(e[1], e[2])
      PROVE  mem' = mem /\ todo' = todo /\ job' = job /\ told' = told /\ disk' = disk
  BY <1>6 DEF Edit, history
<1>7. CASE UNCHANGED vars
  BY <1>5, <1>7 DEF vars, history
<1> QED
  BY <1>2, <1>3, <1>4, <1>5, <1>6, <1>7 DEF World

LEMMA DiskStep ==
  ASSUME [Next]_vars
  PROVE  (Save /\ disk' = mem) \/ (~Save /\ disk' = disk)
BY DEF Next, Handler, Save, Tell, Hear, AppendBlock, Resolve, Reload, CarryOut, Stop,
       Message, Delegate, Propose, WorkDone, ApproveGate, RejectGate, Rule, AskReload,
       Handoff, Quit, World, Crash, Start, Resume, Edit, vars, history

LEMMA TypedStep ==
  ASSUME TypedInv, [Next]_vars
  PROVE  TypedInv'
<1>1. LedgerInv'
  BY LedgerStep DEF TypedInv
<1>2. file' \in [Paths -> Seq(Names)]
  BY FileStep
<1>3. Sound(mem') /\ JobSound' /\ told' \subseteq [life : Nat, id : Nat, n : Nat]
  <2>1. told \subseteq [life : Nat, id : Nat, n : Nat]
    BY DEF TypedInv, Typed
  <2> QED
    BY <2>1, TypedHandler, TypedMessage, TypedWorld DEF Next
<1>4. Sound(disk')
  <2>1. Sound(mem) /\ Sound(disk)
    BY DEF TypedInv, Typed
  <2> QED
    BY <2>1, DiskStep
<1> QED
  BY <1>1, <1>2, <1>3, <1>4 DEF TypedInv, Typed, Sound

LEMMA TypedInit == Init => TypedInv
<1> SUFFICES ASSUME Init PROVE TypedInv
  OBVIOUS
<1>1. LedgerInv
  BY LedgerInit
<1>2. JobSound
  BY NoJobSound, BlockPlans DEF Init, JobSound
<1> QED
  BY <1>1, <1>2, Blanks, SessionAssumption DEF Init, TypedInv, Typed

LEMMA TypedAlways == Spec => []TypedInv
BY TypedInit, TypedStep, PTL DEF Spec

\* Every reachable state of the session and of its snapshot is well-formed, and
\* the board is capped (recordTask), whatever crashes and resumes lie between.
THEOREM SessionTyped == Spec => []TypeOK
<1>1. TypedInv => TypeOK
  <2> SUFFICES ASSUME TypedInv PROVE TypeOK
    OBVIOUS
  <2>1. Shape /\ Boards /\ Typed
    BY DEF TypedInv, LedgerInv, IdsInv, SyncInv
  <2>2. Seq(Held) \subseteq Seq(Requests)
    BY HeldNamed
  <2>3. ASSUME NEW m, IsMemory(m), Sound(m), m.life \in Nat, m.seq \in Nat, m.board \in Seq(Rows)
        PROVE  m \in Memories
    BY <2>2, <2>3 DEF IsMemory, Sound, Memories
  <2>4. mem \in Memories /\ disk \in Memories
    BY <2>1, <2>3 DEF Shape, Boards, Typed
  <2>5. asked \in Seq([life : Nat, fate : {"open", "settled", "unheard", "cut"}])
    BY <2>1 DEF Boards, Tickets
  <2>6. Len(mem.board) <= BoardCap /\ job \in Requests /\ file \in [Paths -> Seq(Names)]
        /\ told \subseteq [life : Nat, id : Nat, n : Nat]
    BY <2>1 DEF Typed, Sound, JobSound
  <2> QED
    BY <2>1, <2>4, <2>5, <2>6 DEF TypeOK, Shape
<1> QED
  BY <1>1, TypedAlways, PTL

-----------------------------------------------------------------------------
(* Slots are stable *)

LEMMA SlotInit == Init => SlotInv
BY DEF Init, Blank, SlotInv, Extends

LEMMA SlotStep ==
  ASSUME TypedInv, SlotInv, [Next]_vars
  PROVE  SlotInv'
<1>1. Shape /\ disk.life \in Nat /\ mem.life \in Nat
  BY DEF TypedInv, LedgerInv, IdsInv, SyncInv, Shape
<1>2. Save => disk' = mem /\ mem' = mem /\ mem.life > 0
  BY <1>1 DEF Save, Does, Shape
<1>3. CASE Save
  BY <1>1, <1>2, <1>3, Same DEF SlotInv
<1>4. CASE ~Save
  <2>1. disk' = disk
    BY <1>4, DiskStep
  <2>2. ASSUME mem' = Blank PROVE mem'.life = disk.life => Extends(disk.slots, mem'.slots)
    BY <2>2 DEF Blank, Extends, SlotInv
  <2>3. ASSUME mem'.life = mem.life, Extends(mem.slots, mem'.slots)
        PROVE  mem'.life = disk.life => Extends(disk.slots, mem'.slots)
    BY <2>3, ExtendsOn DEF SlotInv
  <2>4. mem' # Blank /\ (Handler \/ Message) => mem'.life = mem.life
    <3>1. LedgerInv
      BY DEF TypedInv
    <3>2. Handler \/ Message => Fits \/ Stop
      BY <1>4, <3>1, HandlerFits, MessageFits DEF LedgerInv, IdsInv, SyncInv
    <3>3. Stop => mem' = Blank
      BY DEF Stop
    <3> QED
      BY <3>2, <3>3 DEF Fits
  <2>5. ASSUME mem'.life = disk.life PROVE Extends(disk.slots, mem'.slots)
    <3>1. CASE Handler
      <4>1. mem' = Blank \/ Extends(mem.slots, mem'.slots)
        BY <3>1, TypedHandler
      <4> QED
        BY <2>2, <2>3, <2>4, <2>5, <3>1, <4>1
    <3>2. CASE Message
      <4>1. mem'.slots = mem.slots
        BY <3>2, TypedMessage
      <4> QED
        BY <2>2, <2>3, <2>4, <2>5, <3>2, <4>1, Same
    <3>3. CASE World \/ UNCHANGED vars
      <4>1. \/ mem' = Blank \/ mem' = mem \/ mem'.life > disk.life
            \/ mem'.life = disk.life /\ Extends(disk.slots, mem'.slots)
        BY <3>3, TypedWorld
      <4>2. ~(mem'.life > disk.life)
        BY <1>1, <2>5
      <4> QED
        BY <2>2, <2>3, <2>5, <4>1, <4>2, Same
    <3> QED
      BY <3>1, <3>2, <3>3 DEF Next
  <2> QED
    BY <2>1, <2>5 DEF SlotInv
<1> QED
  BY <1>3, <1>4

\* While one session lasts, from each snapshot to the next, every slot keeps its
\* index and its name, and a tombstone stays one: whatever is reloaded, proposed,
\* handed off, crashed and resumed in between (SnapRole, spawnResume, reload).
THEOREM IndicesStayValid == Spec => SlotsStable
<1> DEFINE Stable == disk'.life = disk.life =>
                       \A i \in DOMAIN disk.slots :
                         /\ i \in DOMAIN disk'.slots
                         /\ disk'.slots[i].name = disk.slots[i].name
                         /\ disk.slots[i].gone => disk'.slots[i].gone
<1>1. SlotInv /\ [Next]_vars => [Stable]_vars
  BY DiskStep DEF SlotInv, Extends
<1>2. SlotInv /\ TypedInv /\ [Next]_vars => SlotInv'
  BY SlotStep
<1> QED
  BY <1>1, <1>2, SlotInit, TypedAlways, PTL DEF Spec, SlotsStable

-----------------------------------------------------------------------------
(* No request vanishes *)

\* What the running handler ends with
Final(plan) == IF plan = <<>> THEN "none" ELSE plan[Len(plan)]

HeldIn(gates) == {gates[i].n : i \in DOMAIN gates}
Given(n) == \E t \in told : t.n = n
Pending(n, life) == n \in DOMAIN asked /\ asked[n].life = life /\ asked[n].fate = "open"

\* A request of the session in memory waits, was given, or is in hand; one of the
\* session on disk would be, if memory were lost but for what is in hand.
MemAccounted ==
  Up => \A n \in DOMAIN asked :
          Pending(n, mem.life) => n \in HeldIn(mem.gates) \/ Given(n) \/ job.n = n

DiskAccounted ==
  disk.life > 0 =>
    \A n \in DOMAIN asked :
      Pending(n, disk.life) =>
        n \in HeldIn(disk.gates) \/ Given(n) \/ (mem.life = disk.life /\ job.n = n)

\* A handler that ends with its save leaves its request somewhere, and one that
\* ends the session has none.
JobPlaced ==
  /\ Final(todo) = "save" =>
       (Pending(job.n, mem.life) => job.n \in HeldIn(mem.gates) \/ Given(job.n))
  /\ Final(todo) \in {"none", "stop"} => job.n = 0

LivesKnown == \A n \in DOMAIN asked : asked[n].life \in 1 .. lives

AccountInv == MemAccounted /\ DiskAccounted /\ JobPlaced /\ LivesKnown

LEMMA Finals ==
  /\ Final(<<>>) = "none"
  /\ \A e : Final(<<e>>) = e
  /\ \A e, f : Final(<<e, f>>) = f
  /\ \A e, f, g : Final(<<e, f, g>>) = g
BY DEF Final

LEMMA GoesOn ==
  ASSUME todo \in Plans, todo # <<>>, Goes
  PROVE  \/ todo' = <<>> /\ job' = NoJob /\ todo = <<Final(todo)>>
         \/ todo' # <<>> /\ Final(todo') = Final(todo) /\ job' = job
<1>1. ASSUME NEW e, todo = <<e>>
      PROVE  todo' = <<>> /\ job' = NoJob /\ todo = <<Final(todo)>>
  BY <1>1, Finals DEF Goes
<1>2. ASSUME NEW e, NEW f, todo = <<e, f>>
      PROVE  todo' # <<>> /\ Final(todo') = Final(todo) /\ job' = job
  <2>1. todo' = <<f>> /\ Len(todo) # 1
    BY <1>2 DEF Goes
  <2>2. <<f>> # <<>>
    OBVIOUS
  <2> QED
    BY <1>2, <2>1, <2>2, Finals DEF Goes
<1>3. CASE todo = <<"save", "resolve", "hear">>
  <2>1. todo' = <<"resolve", "hear">> /\ Len(todo) # 1
    BY <1>3 DEF Goes
  <2>2. <<"resolve", "hear">> # <<>>
    OBVIOUS
  <2> QED
    BY <1>3, <2>1, <2>2, Finals DEF Goes
<1>4. \/ \E e \in {"save", "tell", "hear", "carry", "stop", "reload"} : todo = <<e>>
      \/ \E e \in {"tell", "hear", "carry", "stop"} : todo = <<"save", e>>
      \/ todo = <<"append", "reload">> \/ todo = <<"resolve", "hear">>
      \/ todo = <<"save", "resolve", "hear">>
  BY DEF Plans
<1> QED
  BY <1>1, <1>2, <1>3, <1>4

\* The last of its effects ends a handler.
LEMMA LastEffect ==
  ASSUME todo \in Plans, NEW e \in {"tell", "stop", "hear", "carry", "reload"}, Does(e)
  PROVE  Final(todo) = e /\ todo = <<e>> /\ (Goes => todo' = <<>> /\ job' = NoJob)
<1>1. todo = <<e>>
  BY Shortest
<1> QED
  BY <1>1, Finals DEF Goes

\* What becomes of requests settles them, and no other.
LEMMA BecomesSettles ==
  ASSUME NEW tickets, NEW fate \in {"settled", "unheard", "cut"}, Becomes(tickets, fate), Boards
  PROVE  /\ DOMAIN asked' = DOMAIN asked
         /\ \A n \in DOMAIN asked : /\ asked'[n].life = asked[n].life
                                    /\ n \notin tickets => asked'[n] = asked[n]
                                    /\ n \in tickets => asked'[n].fate = fate
         /\ \A n, life : Pending(n, life)' => Pending(n, life) /\ n \notin tickets
<1>1. DOMAIN asked' = DOMAIN asked
  BY DEF Becomes
<1>2. ASSUME NEW n \in DOMAIN asked
      PROVE  /\ asked'[n].life = asked[n].life
             /\ n \notin tickets => asked'[n] = asked[n]
             /\ n \in tickets => asked'[n].fate = fate
  <2>1. asked[n] \in Tickets
    BY DEF Boards
  <2>2. asked'[n] = IF n \in tickets THEN [asked[n] EXCEPT !.fate = fate] ELSE asked[n]
    BY DEF Becomes
  <2> QED
    BY <2>1, <2>2 DEF Tickets
<1> QED
  BY <1>1, <1>2 DEF Pending

LEMMA AskAsks ==
  ASSUME Boards, Ask
  PROVE  /\ DOMAIN asked' = DOMAIN asked \cup {Ticket} /\ Ticket \notin DOMAIN asked
         /\ Ticket \in Nat \ {0}
         /\ \A n \in DOMAIN asked : asked'[n] = asked[n]
         /\ asked'[Ticket] = [life |-> mem.life, fate |-> "open"]
BY DEF Boards, Ask, Ticket

LEMMA Numbers == Boards => \A n \in DOMAIN asked : n \in Nat \ {0}
BY DEF Boards

\* Where a held request is after one more is held, or the oldest ruled on
LEMMA HeldAppend ==
  ASSUME NEW gates \in Seq(Held), NEW g \in Held
  PROVE  HeldIn(Append(gates, g)) = HeldIn(gates) \cup {g.n}
<1> DEFINE new == Append(gates, g)
<1>1. /\ DOMAIN gates = 1 .. Len(gates) /\ DOMAIN new = 1 .. Len(gates) + 1 /\ Len(gates) \in Nat
      /\ new[Len(gates) + 1] = g /\ \A i \in 1 .. Len(gates) : new[i] = gates[i]
  OBVIOUS
<1> HIDE DEF new
<1>2. ASSUME NEW n \in HeldIn(new) PROVE n \in HeldIn(gates) \cup {g.n}
  <2>1. PICK i \in DOMAIN new : n = new[i].n
    BY DEF HeldIn
  <2> QED
    BY <1>1, <2>1 DEF HeldIn
<1>3. ASSUME NEW n \in HeldIn(gates) PROVE n \in HeldIn(new)
  <2>1. PICK i \in DOMAIN gates : n = gates[i].n
    BY DEF HeldIn
  <2>2. i \in DOMAIN new /\ new[i] = gates[i]
    BY <1>1, <2>1
  <2> QED
    BY <2>1, <2>2 DEF HeldIn
<1>4. g.n \in HeldIn(new)
  <2>1. Len(gates) + 1 \in DOMAIN new
    BY <1>1
  <2> QED
    BY <1>1, <2>1 DEF HeldIn
<1>5. HeldIn(new) = HeldIn(gates) \cup {g.n}
  BY <1>2, <1>3, <1>4
<1> QED
  BY <1>5 DEF new

LEMMA HeldTail ==
  ASSUME NEW gates \in Seq(Held), gates # <<>>
  PROVE  HeldIn(gates) = HeldIn(Tail(gates)) \cup {Head(gates).n}
<1> DEFINE rest == Tail(gates)
<1>1. /\ DOMAIN gates = 1 .. Len(gates) /\ Len(gates) \in Nat /\ Len(gates) >= 1
      /\ DOMAIN rest = 1 .. Len(gates) - 1 /\ Head(gates) = gates[1]
      /\ \A i \in 1 .. Len(gates) - 1 : rest[i] = gates[i + 1]
  OBVIOUS
<1> HIDE DEF rest
<1>2. ASSUME NEW n \in HeldIn(gates) PROVE n \in HeldIn(rest) \cup {gates[1].n}
  <2>1. PICK i \in DOMAIN gates : n = gates[i].n
    BY DEF HeldIn
  <2>2. CASE i = 1
    BY <2>1, <2>2
  <2>3. CASE i # 1
    <3>1. i - 1 \in DOMAIN rest /\ rest[i - 1] = gates[i]
      BY <1>1, <2>1, <2>3
    <3> QED
      BY <2>1, <3>1 DEF HeldIn
  <2> QED
    BY <2>2, <2>3
<1>3. ASSUME NEW n \in HeldIn(rest) PROVE n \in HeldIn(gates)
  <2>1. PICK i \in DOMAIN rest : n = rest[i].n
    BY DEF HeldIn
  <2>2. i + 1 \in DOMAIN gates /\ rest[i] = gates[i + 1]
    BY <1>1, <2>1
  <2> QED
    BY <2>1, <2>2 DEF HeldIn
<1>4. gates[1].n \in HeldIn(gates)
  BY <1>1 DEF HeldIn
<1>5. HeldIn(gates) = HeldIn(rest) \cup {gates[1].n}
  BY <1>2, <1>3, <1>4
<1> QED
  BY <1>1, <1>5 DEF rest

TicketInv == TypedInv /\ AccountInv

LEMMA TicketFacts ==
  ASSUME TicketInv
  PROVE  /\ Shape /\ Boards /\ todo \in Plans /\ mem.life \in Nat /\ disk.life \in Nat
         /\ mem.gates \in Seq(Held) /\ disk.gates \in Seq(Held) /\ mem.slots \in Seq(Slots)
         /\ disk.life <= lives /\ mem.life <= lives /\ lives \in Nat
         /\ todo # <<>> => Up
         /\ todo = <<>> => job.n = 0
<1>1. Shape /\ Boards /\ Sound(mem) /\ Sound(disk) /\ JobPlaced
  BY DEF TicketInv, AccountInv, TypedInv, Typed, LedgerInv, IdsInv, SyncInv
<1>2. todo = <<>> => job.n = 0
  BY <1>1, Finals DEF JobPlaced
<1> QED
  BY <1>1, <1>2 DEF Shape, Sound, Up

LEMMA SaveAccounts ==
  ASSUME TicketInv, Save
  PROVE  AccountInv'
<1>0. /\ Does("save") /\ Goes /\ disk' = mem /\ mem' = mem
      /\ asked' = asked /\ told' = told /\ lives' = lives /\ Up
  BY TicketFacts DEF Save, history, Does
<1>1. \/ todo' = <<>> /\ job' = NoJob /\ Final(todo) = "save"
      \/ todo' # <<>> /\ Final(todo') = Final(todo) /\ job' = job
  <2>1. \/ todo' = <<>> /\ job' = NoJob /\ todo = <<Final(todo)>>
        \/ todo' # <<>> /\ Final(todo') = Final(todo) /\ job' = job
    BY <1>0, GoesOn, TicketFacts DEF Does
  <2>2. todo = <<Final(todo)>> => Final(todo) = "save"
    BY <1>0 DEF Does
  <2> QED
    BY <2>1, <2>2
<1>2. MemAccounted /\ JobPlaced /\ LivesKnown
  BY DEF TicketInv, AccountInv
<1>3. ASSUME NEW n \in DOMAIN asked, Pending(n, mem.life)
      PROVE  n \in HeldIn(mem.gates) \/ Given(n) \/ job'.n = n
  BY <1>0, <1>1, <1>2, <1>3 DEF MemAccounted, JobPlaced
<1>4. MemAccounted' /\ DiskAccounted'
  BY <1>0, <1>3 DEF MemAccounted, DiskAccounted, HeldIn, Given, Pending
<1>5. JobPlaced'
  <2>1. Final(todo') \notin {"none", "stop"} \/ job'.n = 0
    BY <1>1, <1>2 DEF JobPlaced, NoJob
  <2>2. Final(todo') = "save" => FALSE
    <3>1. ~Does("save")'
      BY <1>0, PlanGoesOn, TicketFacts DEF Goes, Does
    <3>2. todo' \in Plans
      BY <1>0, PlanGoesOn, TicketFacts DEF Goes, Does
    <3>3. Final(todo') = "save" => todo' = <<"save">>
      BY <3>2, Finals DEF Plans
    <3> QED
      BY <3>1, <3>3 DEF Does
  <2> QED
    BY <2>1, <2>2 DEF JobPlaced
<1> QED
  BY <1>0, <1>2, <1>4, <1>5 DEF AccountInv, LivesKnown

\* Nothing is asked, and the snapshot stays
Unasked ==
  /\ disk' = disk /\ lives' = lives /\ Up /\ mem'.life = mem.life
  /\ DOMAIN asked' = DOMAIN asked /\ told \subseteq told'
  /\ \A n \in DOMAIN asked : asked'[n].life = asked[n].life
  /\ \A n, life : Pending(n, life)' => Pending(n, life)

\* The request in hand stays there, was settled or is given
HandGoesOn ==
  \A n \in DOMAIN asked : job.n = n /\ Pending(n, mem.life)' => job'.n = n \/ Given(n)'

LEMMA UnaskedAccounts ==
  ASSUME TicketInv, Unasked, HandGoesOn, JobPlaced',
         \A n \in HeldIn(mem.gates) : Pending(n, mem.life)' => n \in HeldIn(mem'.gates) \/ job'.n = n
  PROVE  AccountInv'
<1>1. MemAccounted /\ DiskAccounted /\ LivesKnown
  BY DEF TicketInv, AccountInv
<1>2. \A n : Given(n) => Given(n)'
  BY DEF Unasked, Given
<1>3. MemAccounted'
  <2> SUFFICES ASSUME NEW n \in DOMAIN asked, Pending(n, mem.life)'
               PROVE  n \in HeldIn(mem'.gates) \/ Given(n)' \/ job'.n = n
    BY DEF MemAccounted, Unasked, HeldIn, Pending
  <2>1. n \in HeldIn(mem.gates) \/ Given(n) \/ job.n = n
    BY <1>1 DEF MemAccounted, Unasked
  <2> QED
    BY <1>2, <2>1 DEF HandGoesOn
<1>4. DiskAccounted'
  <2> SUFFICES ASSUME disk.life > 0, NEW n \in DOMAIN asked, Pending(n, disk.life)'
               PROVE  n \in HeldIn(disk.gates) \/ Given(n)' \/ (mem.life = disk.life /\ job'.n = n)
    BY DEF DiskAccounted, Unasked, HeldIn, Pending
  <2>1. n \in HeldIn(disk.gates) \/ Given(n) \/ (mem.life = disk.life /\ job.n = n)
    BY <1>1 DEF DiskAccounted, Unasked
  <2>2. CASE mem.life = disk.life /\ job.n = n
    <3>1. Pending(n, mem.life)'
      BY <2>2 DEF Unasked, Pending
    <3> QED
      BY <2>2, <3>1 DEF HandGoesOn
  <2> QED
    BY <1>2, <2>1, <2>2
<1>5. LivesKnown'
  BY <1>1 DEF LivesKnown, Unasked
<1> QED
  BY <1>3, <1>4, <1>5 DEF AccountInv

\* A request is asked, and is then at a gate or in hand
Asks ==
  /\ disk' = disk /\ lives' = lives /\ Up /\ todo = <<>> /\ mem'.life = mem.life
  /\ Ask /\ told' = told
  /\ HeldIn(mem.gates) \subseteq HeldIn(mem'.gates)
  /\ job'.n = Ticket

LEMMA AsksAccounts ==
  ASSUME TicketInv, Asks, Final(todo') \notin {"none", "stop"},
         Final(todo') = "save" => Ticket \in HeldIn(mem'.gates)
  PROVE  AccountInv'
<1>1. MemAccounted /\ DiskAccounted /\ LivesKnown /\ Boards
  BY TicketFacts DEF TicketInv, AccountInv
<1>2. /\ DOMAIN asked' = DOMAIN asked \cup {Ticket} /\ Ticket \notin DOMAIN asked
      /\ \A n \in DOMAIN asked : asked'[n] = asked[n]
      /\ asked'[Ticket].life = mem.life
  BY <1>1, AskAsks DEF Asks
<1>3. \A n \in DOMAIN asked : job.n # n
  BY <1>1, Numbers, TicketFacts DEF Asks
<1>4. \A n : Given(n) => Given(n)'
  BY DEF Given, Asks
<1>5. MemAccounted'
  <2> SUFFICES ASSUME NEW n \in DOMAIN asked', Pending(n, mem.life)'
               PROVE  n \in HeldIn(mem'.gates) \/ Given(n)' \/ job'.n = n
    BY DEF MemAccounted, Asks, HeldIn, Pending
  <2>1. CASE n = Ticket
    BY <2>1 DEF Asks
  <2>2. CASE n # Ticket
    <3>1. n \in DOMAIN asked /\ Pending(n, mem.life) /\ job.n # n
      BY <1>2, <1>3, <2>2 DEF Asks, Pending
    <3>2. n \in HeldIn(mem.gates) \/ Given(n)
      BY <1>1, <3>1 DEF MemAccounted, Asks
    <3> QED
      BY <1>4, <3>2 DEF Asks
  <2> QED
    BY <2>1, <2>2
<1>6. DiskAccounted'
  <2> SUFFICES ASSUME disk.life > 0, NEW n \in DOMAIN asked', Pending(n, disk.life)'
               PROVE  n \in HeldIn(disk.gates) \/ Given(n)' \/ (mem.life = disk.life /\ job'.n = n)
    BY DEF DiskAccounted, Asks, HeldIn, Pending
  <2>1. CASE n = Ticket
    BY <1>2, <2>1 DEF Asks, Pending
  <2>2. CASE n # Ticket
    <3>1. n \in DOMAIN asked /\ Pending(n, disk.life) /\ job.n # n
      BY <1>2, <1>3, <2>2 DEF Asks, Pending
    <3>2. n \in HeldIn(disk.gates) \/ Given(n)
      BY <1>1, <3>1 DEF DiskAccounted
    <3> QED
      BY <1>4, <3>2
  <2> QED
    BY <2>1, <2>2
<1>7. LivesKnown'
  <2>1. mem.life \in 1 .. lives
    BY TicketFacts DEF Asks, Up
  <2> QED
    BY <1>1, <1>2, <2>1 DEF LivesKnown, Asks
<1>8. JobPlaced'
  BY DEF JobPlaced, Asks, HeldIn
<1> QED
  BY <1>5, <1>6, <1>7, <1>8 DEF AccountInv

LEMMA HandlerAccounts ==
  ASSUME TicketInv, Handler, ~Save, ~Stop
  PROVE  AccountInv'
<1>0. /\ Shape /\ Boards /\ todo \in Plans /\ todo # <<>> /\ Up /\ JobPlaced
      /\ mem.gates \in Seq(Held) /\ mem.slots \in Seq(Slots)
  BY TicketFacts
     DEF Handler, Tell, Hear, AppendBlock, Resolve, Reload, CarryOut, Does, TicketInv, AccountInv
<1>1. NoJob.n = 0 /\ \A n \in DOMAIN asked : n # 0
  BY <1>0, Numbers DEF NoJob
<1>2. ASSUME todo' = <<>>, job' = NoJob
      PROVE  JobPlaced'
  BY <1>1, <1>2, Finals DEF JobPlaced
<1>3. ASSUME Final(todo') \notin {"save", "none", "stop"}
      PROVE  JobPlaced'
  BY <1>3 DEF JobPlaced
<1>4. CASE Tell
  <2>1. todo' = <<>> /\ job' = NoJob
    BY <1>0, <1>4, LastEffect DEF Tell
  <2>2. [life |-> mem.life, id |-> job.id, n |-> job.n] \in told'
    BY <1>4 DEF Tell
  <2>3. \E t \in told' : t.n = job.n
    BY <2>2
  <2>4. Unasked /\ HandGoesOn
    BY <1>0, <1>4, <2>3 DEF Tell, Unasked, Pending, Given, HandGoesOn
  <2> QED
    BY <1>2, <1>4, <2>1, <2>4, UnaskedAccounts DEF Tell
<1>5. CASE Hear
  <2>1. todo' = <<>> /\ job' = NoJob /\ Becomes({job.n}, "settled")
    BY <1>0, <1>5, LastEffect DEF Hear
  <2>2. /\ DOMAIN asked' = DOMAIN asked
        /\ \A n \in DOMAIN asked : asked'[n].life = asked[n].life
        /\ \A n, life : Pending(n, life)' => Pending(n, life) /\ n # job.n
    BY <1>0, <2>1, BecomesSettles
  <2>3. Unasked /\ HandGoesOn
    BY <1>0, <1>5, <2>2 DEF Hear, Unasked, HandGoesOn
  <2> QED
    BY <1>2, <1>5, <2>1, <2>3, UnaskedAccounts DEF Hear
<1>6. CASE AppendBlock
  <2>1. todo = <<"append", "reload">>
    BY <1>0, <1>6 DEF AppendBlock, Does, Plans
  <2>2. todo' = <<"reload">> /\ job' = job
    BY <1>6, <2>1 DEF AppendBlock, Goes
  <2>3. Unasked /\ HandGoesOn
    BY <1>0, <1>6, <2>2 DEF AppendBlock, Unasked, HandGoesOn, Pending, history
  <2>4. JobPlaced'
    BY <1>3, <2>2, Finals
  <2> QED
    BY <1>6, <2>3, <2>4, UnaskedAccounts DEF AppendBlock
<1>7. CASE Resolve
  <2>0. todo = <<"resolve", "hear">>
    BY <1>0, <1>7 DEF Resolve, Does, Plans
  <2> DEFINE open == {i \in DOMAIN mem.board : mem.board[i].open /\ mem.board[i].id = job.id}
             k == CHOOSE k \in open : \A j \in open : j <= k
  <2>1. /\ mem'.gates = mem.gates /\ mem'.life = mem.life /\ job' = job
        /\ todo' = <<"hear">> \/ todo' = <<"save", "hear">>
    <3>1. CASE open = {}
      <4>1. mem' = mem /\ Goes
        BY <1>7, <3>1 DEF Resolve
      <4>2. todo' = <<"hear">> /\ Len(todo) # 1
        BY <2>0, <4>1 DEF Goes
      <4> QED
        BY <4>1, <4>2 DEF Goes
    <3>2. CASE open # {}
      <4>1. mem' = [mem EXCEPT !.board = [i \in DOMAIN mem.board |->
                       [mem.board[i] EXCEPT !.open = mem.board[i].open /\ i # k]]]
            /\ todo' = <<"save", "hear">> /\ job' = job
        BY <1>7, <3>2 DEF Resolve
      <4> HIDE DEF open, k
      <4> QED
        BY <1>0, <4>1 DEF Shape, IsMemory
    <3> QED
      BY <3>1, <3>2
  <2>2. Unasked /\ HandGoesOn
    BY <1>0, <1>7, <2>1 DEF Resolve, Unasked, HandGoesOn, Pending, history
  <2>3. JobPlaced'
    BY <1>3, <2>1, Finals
  <2> QED
    BY <2>1, <2>2, <2>3, UnaskedAccounts
<1>8. CASE Reload
  <2> DEFINE slots == Converged(mem.slots, file[mem.path])
             fit == {g \in Range(mem.gates) : g.to \in LiveIn(slots)}
             dropped == {i \in DOMAIN mem.gates : mem.gates[i].to \notin LiveIn(slots)}
             added == job.to \in LiveIn(slots) \ Live
             lost == {mem.gates[i].n : i \in dropped} \union (IF added THEN {} ELSE {job.n})
  <2>1. /\ mem' = [mem EXCEPT !.slots = slots, !.gates = Among(mem.gates, fit)]
        /\ todo' = IF added THEN <<"save", "hear">> ELSE <<"save">>
        /\ Becomes(lost, "unheard")
    BY <1>8, Zenon DEF Reload
  <2>2. \A i \in DOMAIN mem.gates : mem.gates[i] \in fit \/ mem.gates[i].n \in lost
    BY DEF Range
  <2>3. ~added => job.n \in lost /\ todo' = <<"save">>
    BY <2>1
  <2>4. added => todo' = <<"save", "hear">>
    BY <2>1
  <2> HIDE DEF slots, fit, dropped, added, lost
  <2>5. /\ DOMAIN asked' = DOMAIN asked
        /\ \A n \in DOMAIN asked : asked'[n].life = asked[n].life
        /\ \A n, life : Pending(n, life)' => Pending(n, life) /\ n \notin lost
    BY <1>0, <2>1, BecomesSettles
  <2>6. mem'.life = mem.life /\ mem'.gates = Among(mem.gates, fit)
    BY <1>0, <2>1 DEF Shape, IsMemory
  <2>7. \A n \in HeldIn(mem.gates) : n \in lost \/ n \in HeldIn(mem'.gates)
    <3> SUFFICES ASSUME NEW i \in DOMAIN mem.gates, mem.gates[i] \in fit
                 PROVE  mem.gates[i].n \in HeldIn(mem'.gates)
      BY <2>2 DEF HeldIn
    <3>1. \E j \in DOMAIN mem'.gates : mem'.gates[j] = mem.gates[i]
      BY <1>0, <2>6, AmongIs
    <3> QED
      BY <3>1 DEF HeldIn
  <2>8. Unasked /\ HandGoesOn
    BY <1>0, <1>8, <2>5, <2>6 DEF Reload, Unasked, HandGoesOn
  <2>9. JobPlaced'
    <3>1. CASE added
      BY <1>3, <2>4, <3>1, Finals
    <3>2. CASE ~added
      <4>1. ~Pending(job.n, mem.life)' /\ job' = job /\ Final(todo') = "save"
        BY <1>8, <2>3, <2>5, <3>2, Finals DEF Reload
      <4> QED
        BY <4>1 DEF JobPlaced, Pending
    <3> QED
      BY <3>1, <3>2
  <2> QED
    BY <2>5, <2>7, <2>8, <2>9, UnaskedAccounts
<1>9. CASE CarryOut
  <2>1. CASE job.kind = "delegate" /\ Issue(job.to, job.n) /\ UNCHANGED asked
    <3>1. mem'.gates = mem.gates /\ mem'.life = mem.life /\ job'.n = job.n /\ todo' = <<"save", "tell">>
      BY <1>0, <2>1 DEF Issue, Shape, IsMemory
    <3>2. Unasked /\ HandGoesOn
      BY <1>0, <1>9, <2>1, <3>1 DEF CarryOut, Unasked, HandGoesOn, Pending
    <3>3. JobPlaced'
      BY <1>3, <3>1, Finals
    <3> QED
      BY <3>1, <3>2, <3>3, UnaskedAccounts
  <2>2. CASE Becomes({job.n}, "unheard") /\ Goes /\ mem' = mem
    <3>1. todo' = <<>> /\ job' = NoJob
      BY <1>0, <1>9, <2>2, LastEffect DEF CarryOut
    <3>2. /\ DOMAIN asked' = DOMAIN asked
          /\ \A n \in DOMAIN asked : asked'[n].life = asked[n].life
          /\ \A n, life : Pending(n, life)' => Pending(n, life) /\ n # job.n
      BY <1>0, <2>2, BecomesSettles
    <3>3. Unasked /\ HandGoesOn
      BY <1>0, <1>9, <2>2, <3>2 DEF CarryOut, Unasked, HandGoesOn
    <3> QED
      BY <1>2, <2>2, <3>1, <3>3, UnaskedAccounts
  <2>3. CASE todo' = <<"append", "reload">> /\ UNCHANGED <<mem, job, asked>>
    <3>1. Unasked /\ HandGoesOn
      BY <1>0, <1>9, <2>3 DEF CarryOut, Unasked, HandGoesOn, Pending
    <3>2. JobPlaced'
      BY <1>3, <2>3, Finals
    <3> QED
      BY <2>3, <3>1, <3>2, UnaskedAccounts
  <2> QED
    BY <1>9, <2>1, <2>2, <2>3 DEF CarryOut
<1> QED
  BY <1>4, <1>5, <1>6, <1>7, <1>8, <1>9 DEF Handler

LEMMA MessageAccounts ==
  ASSUME TicketInv, Message
  PROVE  AccountInv'
<1>0. /\ Shape /\ Boards /\ mem.gates \in Seq(Held)
      /\ Idle => todo = <<>> /\ Up /\ \A n \in DOMAIN asked : job.n # n
  BY TicketFacts, Numbers DEF Idle
<1>1. ASSUME NEW r, NEW n, Issue(r, n)
      PROVE  /\ mem'.gates = mem.gates /\ mem'.life = mem.life /\ job'.n = n
             /\ Final(todo') = "tell"
  BY <1>0, <1>1, Finals DEF Issue, Shape, IsMemory
<1>2. ASSUME NEW request \in Held, Hold(request)
      PROVE  /\ HeldIn(mem'.gates) = HeldIn(mem.gates) \cup {request.n} /\ mem'.life = mem.life
             /\ job'.n = request.n /\ Final(todo') = "save"
  <2>1. mem'.gates = Append(mem.gates, request) /\ mem'.life = mem.life /\ job' = request
    BY <1>0, <1>2 DEF Hold, Shape, IsMemory
  <2> QED
    BY <1>0, <1>2, <2>1, HeldAppend, Finals DEF Hold
<1>3. ASSUME NEW r \in Names, Delegate(r)
      PROVE  AccountInv'
  <2>1. Idle /\ Ask /\ UNCHANGED <<disk, lives, told>>
    BY <1>3 DEF Delegate
  <2>2. CASE Issue(r, Ticket)
    <3>1. Asks
      BY <1>0, <1>1, <2>1, <2>2 DEF Asks
    <3> QED
      BY <1>1, <2>2, <3>1, AsksAccounts
  <2>3. CASE Hold(Request("delegate", r, Ticket))
    <3>1. Request("delegate", r, Ticket) \in Held /\ Request("delegate", r, Ticket).n = Ticket
      BY <1>0, <2>1, TicketInRange DEF Request
    <3>2. Asks
      BY <1>0, <1>2, <2>1, <2>3, <3>1 DEF Asks
    <3> QED
      BY <1>2, <2>3, <3>1, <3>2, AsksAccounts
  <2> QED
    BY <1>3, <2>2, <2>3 DEF Delegate
<1>4. ASSUME NEW r \in Names, Propose(r)
      PROVE  AccountInv'
  <2>1. Idle /\ Ask /\ UNCHANGED <<disk, lives, told>>
    BY <1>4 DEF Propose
  <2>2. Request("roster", r, Ticket) \in Held /\ Request("roster", r, Ticket).n = Ticket
    BY <1>0, <2>1, TicketInRange DEF Request
  <2>3. CASE mem' = mem /\ job' = Request("roster", r, Ticket) /\ todo' = <<"append", "reload">>
    <3>1. Asks
      BY <1>0, <2>1, <2>2, <2>3 DEF Asks
    <3>2. Final(todo') = "reload"
      BY <2>3, Finals
    <3> QED
      BY <3>1, <3>2, AsksAccounts
  <2>4. CASE Hold(Request("roster", r, Ticket))
    <3>1. Asks
      BY <1>0, <1>2, <2>1, <2>2, <2>4 DEF Asks
    <3> QED
      BY <1>2, <2>2, <2>4, <3>1, AsksAccounts
  <2> QED
    BY <1>4, <2>3, <2>4 DEF Propose
<1>5. ASSUME Idle, disk' = disk, UNCHANGED history, mem'.life = mem.life, Final(todo') # "save",
             Final(todo') \in {"none", "stop"} => job'.n = 0,
             \A n \in HeldIn(mem.gates) : n \in HeldIn(mem'.gates) \/ job'.n = n
      PROVE  AccountInv'
  <2>1. Unasked /\ HandGoesOn
    BY <1>0, <1>5 DEF Unasked, HandGoesOn, Pending, history
  <2>2. JobPlaced'
    BY <1>5 DEF JobPlaced
  <2> QED
    BY <1>5, <2>1, <2>2, UnaskedAccounts
<1>6. ASSUME NEW t \in told, WorkDone(t)
      PROVE  AccountInv'
  <2>1. mem'.gates = mem.gates /\ mem'.life = mem.life
    BY <1>0, <1>6 DEF WorkDone, Shape, IsMemory
  <2>2. Final(todo') = "hear"
    BY <1>6, Finals DEF WorkDone
  <2> QED
    BY <1>5, <1>6, <2>1, <2>2 DEF WorkDone
<1>7. ASSUME NEW then \in {"carry", "hear"}, Rule(then)
      PROVE  AccountInv'
  <2>1. mem'.gates = Tail(mem.gates) /\ mem'.life = mem.life /\ job' = Head(mem.gates) /\ mem.gates # <<>>
    BY <1>0, <1>7 DEF Rule, Shape, IsMemory
  <2>2. Final(todo') = then
    BY <1>7, Finals DEF Rule
  <2>3. HeldIn(mem.gates) = HeldIn(mem'.gates) \cup {job'.n}
    BY <1>0, <2>1, HeldTail
  <2> QED
    BY <1>5, <1>7, <2>1, <2>2, <2>3 DEF Rule
<1>8. ASSUME Idle, disk' = disk, UNCHANGED history, mem'.life = mem.life, mem'.gates = mem.gates,
             job' = NoJob, Final(todo') # "save"
      PROVE  AccountInv'
  BY <1>5, <1>8 DEF NoJob
<1>9. CASE AskReload
  BY <1>8, <1>9, Finals DEF AskReload
<1>10. CASE Quit
  BY <1>8, <1>10, Finals DEF Quit
<1>11. ASSUME NEW p \in Paths, Handoff(p)
       PROVE  AccountInv'
  <2>1. mem'.gates = mem.gates /\ mem'.life = mem.life
    BY <1>0, <1>11 DEF Handoff, Shape, IsMemory
  <2> QED
    BY <1>8, <1>11, <2>1, Finals DEF Handoff
<1> QED
  BY <1>3, <1>4, <1>6, <1>7, <1>9, <1>10, <1>11 DEF Message, ApproveGate, RejectGate

LEMMA WorldAccounts ==
  ASSUME TicketInv, World \/ Stop \/ UNCHANGED vars
  PROVE  AccountInv'
<1>0. /\ Shape /\ Boards /\ todo \in Plans /\ disk.life <= lives /\ disk.life \in Nat /\ lives \in Nat
      /\ MemAccounted /\ DiskAccounted /\ JobPlaced /\ LivesKnown
      /\ (todo = <<>> => job.n = 0) /\ (todo # <<>> => Up)
  BY TicketFacts DEF TicketInv, AccountInv
<1>1. NoJob.n = 0 /\ \A n \in DOMAIN asked : n # 0
  BY <1>0, Numbers DEF NoJob
<1>2. ASSUME mem' = Blank, todo' = <<>>, job' = NoJob, disk' = disk, lives' = lives, told' = told,
             DOMAIN asked' = DOMAIN asked, \A n \in DOMAIN asked : asked'[n].life = asked[n].life,
             \A n, life : Pending(n, life)' => Pending(n, life) /\ (n = job.n => job.n = 0)
      PROVE  AccountInv'
  <2>1. JobPlaced'
    BY <1>1, <1>2, Finals DEF JobPlaced
  <2>2. MemAccounted'
    BY <1>2 DEF MemAccounted, Up, Blank
  <2>3. DiskAccounted'
    <3> SUFFICES ASSUME disk.life > 0, NEW n \in DOMAIN asked, Pending(n, disk.life)'
                 PROVE  n \in HeldIn(disk.gates) \/ Given(n)
      BY <1>2 DEF DiskAccounted, HeldIn, Given
    <3>1. Pending(n, disk.life) /\ (n = job.n => job.n = 0)
      BY <1>2 DEF Pending
    <3> QED
      BY <1>0, <1>1, <3>1 DEF DiskAccounted
  <2> QED
    BY <1>0, <1>2, <2>1, <2>2, <2>3 DEF AccountInv, LivesKnown
<1>3. CASE Stop
  <2>1. todo' = <<>> /\ job' = NoJob /\ Final(todo) = "stop"
    BY <1>0, <1>3, LastEffect DEF Stop
  <2>2. job.n = 0
    BY <1>0, <2>1 DEF JobPlaced
  <2> QED
    BY <1>2, <1>3, <2>1, <2>2 DEF Stop, history, Pending
<1>4. CASE Crash
  <2>1. /\ DOMAIN asked' = DOMAIN asked
        /\ \A n \in DOMAIN asked : asked'[n].life = asked[n].life
        /\ \A n, life : Pending(n, life)' => Pending(n, life) /\ n # job.n
    BY <1>0, <1>4, BecomesSettles DEF Crash
  <2> QED
    BY <1>2, <1>4, <2>1 DEF Crash
<1>5. ASSUME NEW p \in Paths, Start(p)
      PROVE  AccountInv'
  <2>0. /\ ~Up /\ lives' = lives + 1 /\ disk' = disk /\ todo' = todo /\ job' = job
        /\ asked' = asked /\ told' = told
    BY <1>5 DEF Start
  <2>1. mem'.life = lives + 1
    BY <1>5 DEF Start, Blank
  <2>2. todo = <<>> /\ job.n = 0
    BY <1>0, <2>0
  <2>3. MemAccounted'
    BY <1>0, <2>0, <2>1 DEF MemAccounted, Pending, LivesKnown
  <2>4. DiskAccounted'
    BY <1>0, <1>1, <2>0, <2>2 DEF DiskAccounted, HeldIn, Given, Pending
  <2>5. JobPlaced'
    BY <2>0, <2>2, Finals DEF JobPlaced
  <2>6. LivesKnown'
    BY <1>0, <2>0 DEF LivesKnown
  <2> QED
    BY <2>3, <2>4, <2>5, <2>6 DEF AccountInv
<1>6. ASSUME NEW p \in Paths, Resume(p)
      PROVE  AccountInv'
  <2>0. /\ ~Up /\ lives' = lives /\ disk' = disk /\ todo' = todo /\ job' = job
        /\ asked' = asked /\ told' = told /\ disk.life > 0
    BY <1>6 DEF Resume, history
  <2>1. mem'.life = disk.life /\ mem'.gates = disk.gates
    BY <1>0, <1>6 DEF Resume, Shape, IsMemory
  <2>2. todo = <<>> /\ job.n = 0
    BY <1>0, <2>0
  <2>3. MemAccounted' /\ DiskAccounted'
    BY <1>0, <1>1, <2>0, <2>1, <2>2 DEF MemAccounted, DiskAccounted, HeldIn, Given, Pending
  <2>4. JobPlaced' /\ LivesKnown'
    BY <1>0, <2>0, <2>2, Finals DEF JobPlaced, LivesKnown
  <2> QED
    BY <2>3, <2>4 DEF AccountInv
<1>7. ASSUME UNCHANGED <<mem, disk, todo, job, history>>
      PROVE  AccountInv'
  BY <1>0, <1>7 DEF AccountInv, MemAccounted, DiskAccounted, JobPlaced, LivesKnown,
                   HeldIn, Given, Pending, Up, Final, history
<1> QED
  BY <1>3, <1>4, <1>5, <1>6, <1>7 DEF World, Edit, vars

LEMMA TicketInit == Init => TicketInv
<1> SUFFICES ASSUME Init PROVE AccountInv
  BY TypedInit DEF TicketInv
<1> QED
  BY Finals DEF Init, Blank, NoJob, AccountInv, MemAccounted, DiskAccounted, JobPlaced, LivesKnown, Up

LEMMA TicketStep == TicketInv /\ [Next]_vars => TicketInv'
<1> SUFFICES ASSUME TicketInv, [Next]_vars PROVE AccountInv'
  BY TypedStep DEF TicketInv
<1> QED
  BY SaveAccounts, HandlerAccounts, MessageAccounts, WorldAccounts DEF Next

LEMMA TicketAlways == Spec => []TicketInv
BY TicketInit, TicketStep, PTL DEF Spec

\* No request vanishes, whatever is ruled, reloaded, crashed and resumed: between
\* two messages each one made in this session waits at a gate, was typed into its
\* worker's pane, had its outcome told, or is one the deck died over or gave up
\* with a line in its log (dispatch, approveGate, reload, applyResume).
THEOREM RequestsAccounted == Spec => []Accounted
<1>1. TicketInv => Accounted
  <2> SUFFICES ASSUME TicketInv, Idle, NEW n \in DOMAIN asked, Pending(n, mem.life)
               PROVE  n \in HeldIn(mem.gates) \/ Given(n)
    <3>1. \A n \in DOMAIN asked : asked[n].life = mem.life /\ asked[n].fate = "open" => Pending(n, mem.life)
      BY DEF Pending
    <3> QED
      BY <3>1 DEF Accounted, HeldIn, Given
  <2>1. job.n = 0 /\ n # 0 /\ Up
    BY TicketFacts, Numbers DEF Idle
  <2> QED
    BY <2>1 DEF TicketInv, AccountInv, MemAccounted
<1> QED
  BY <1>1, TicketAlways, PTL

-----------------------------------------------------------------------------
(* In-flight tasks restore as in flight *)

Distinct(gates) == \A i, j \in DOMAIN gates : gates[i].n = gates[j].n => i = j

\* A ticket is at one gate, and what waits at a gate or is about to be carried out
\* was not given to a worker.
TicketsSound ==
  /\ Distinct(mem.gates) /\ Distinct(disk.gates)
  /\ \A n \in HeldIn(mem.gates) \cup HeldIn(disk.gates) : n \in DOMAIN asked /\ ~Given(n)
  /\ \A t \in told : t.n \in DOMAIN asked
  /\ Final(todo) \in {"tell", "carry"} =>
       job.n \in DOMAIN asked /\ ~Given(job.n) /\ job.n \notin HeldIn(mem.gates)
  /\ Final(todo) = "reload" => ~Given(job.n)

\* Open rows are delegations, whose ids grow along the board up to the counter.
BoardShaped(board, seq) ==
  /\ \A i \in DOMAIN board : board[i].open => board[i].kind = "delegate"
  /\ \A i \in DOMAIN board : board[i].kind = "delegate" => board[i].id <= seq
  /\ \A i, j \in DOMAIN board :
       i < j /\ board[i].kind = "delegate" /\ board[j].kind = "delegate" => board[i].id < board[j].id

BoardsShaped == BoardShaped(mem.board, mem.seq) /\ BoardShaped(disk.board, disk.seq)

\* A report is of a task that was given.
ReportKnown ==
  todo \in ReportPlans => \E t \in told : t.life = mem.life /\ t.id = job.id /\ t.n = job.n

\* Task t is in flight in this session: its outcome was not told, nor did the deck die over it
Flown(t, fates, life) == t.life = life /\ fates[t.n].fate \notin {"settled", "cut"}

\* It is open on the board, or newer rows pushed it out with all older ones
OnBoard(board, t) ==
  \/ \E i \in DOMAIN board : board[i] = Row("delegate", t.id)
  \/ /\ Len(board) = BoardCap
     /\ \A i \in DOMAIN board : board[i].kind = "delegate" => board[i].id > t.id

\* Its outcome is about to be told
Reported(plan, n, t) == Final(plan) = "hear" /\ n = t.n

MemFlown ==
  Up => \A t \in told :
          Flown(t, asked, mem.life) => OnBoard(mem.board, t) \/ Reported(todo, job.n, t)

DiskFlown ==
  \A t \in told :
    Flown(t, asked, disk.life) =>
      OnBoard(disk.board, t) \/ (mem.life = disk.life /\ Reported(todo, job.n, t))

RecordInv == TicketsSound /\ BoardsShaped /\ ReportKnown
FlightInv == TicketInv /\ RecordInv /\ MemFlown /\ DiskFlown

LEMMA FlightFacts ==
  ASSUME FlightInv
  PROVE  /\ Shape /\ Boards /\ todo \in Plans /\ mem.life \in Nat /\ disk.life \in Nat
         /\ mem.gates \in Seq(Held) /\ disk.gates \in Seq(Held)
         /\ mem.board \in Seq(Rows) /\ disk.board \in Seq(Rows)
         /\ Len(mem.board) <= BoardCap /\ Len(disk.board) <= BoardCap
         /\ mem.seq \in Nat /\ disk.seq \in Nat
         /\ todo # <<>> => Up
         /\ IdsInv /\ SyncInv /\ JobPlaced
         /\ \A t \in told : t.id \in Nat /\ t.n \in DOMAIN asked /\ t.n # 0
<1>1. TicketInv /\ TypedInv /\ LedgerInv /\ IdsInv /\ SyncInv /\ Typed
  BY DEF FlightInv, TicketInv, TypedInv, LedgerInv, IdsInv
<1>2. \A t \in told : t.id \in Nat /\ t.n \in DOMAIN asked /\ t.n # 0
  BY <1>1, TicketFacts, Numbers DEF Typed, FlightInv, RecordInv, TicketsSound
<1> QED
  BY <1>1, <1>2, TicketFacts DEF Typed, Sound, Boards, Shape, TicketInv, AccountInv

\* What Among keeps of distinct tickets is distinct.
LEMMA AmongDistinct ==
  ASSUME NEW gates \in Seq(Held), Distinct(gates), NEW S
  PROVE  Distinct(Among(gates, S))
<1> DEFINE n == Len(gates)
           Fine(k, acc) ==
             /\ acc \in Seq(Held) /\ Distinct(acc)
             /\ \A j \in DOMAIN acc : \E i \in 1 .. k : gates[i] = acc[j]
<1>0. n \in Nat /\ DOMAIN gates = 1 .. n /\ \A k \in 1 .. n : gates[k] \in Held
  OBVIOUS
<1>1. PICK h : /\ h[0] = <<>>
               /\ \A k \in 1 .. n : h[k] = Taken(h[k - 1], gates[k], S)
               /\ h[n] = Among(gates, S)
  BY AmongFold
<1> HIDE DEF n
<1> DEFINE K == {k \in 0 .. n : Fine(k, h[k])}
<1>2. 0 \in K
  <2>1. 0 \in 0 .. n /\ <<>> \in Seq(Held) /\ DOMAIN <<>> = {} /\ Distinct(<<>>)
    BY <1>0 DEF Distinct
  <2>2. Fine(0, <<>>)
    BY <2>1
  <2> HIDE DEF Fine
  <2> QED
    BY <1>1, <2>1, <2>2
<1>3. ASSUME NEW k \in 1 .. n, k - 1 \in K PROVE k \in K
  <2> DEFINE acc == h[k - 1]
  <2>1. Fine(k - 1, acc) /\ h[k] = Taken(acc, gates[k], S) /\ k \in 0 .. n /\ k \in Nat
    BY <1>0, <1>1, <1>3
  <2> HIDE DEF acc
  <2>2. \A i \in 1 .. k - 1 : i \in 1 .. k /\ i \in 1 .. n /\ i # k
    BY <1>0, <2>1
  <2>3. CASE gates[k] \in S
    <3>1. h[k] = Append(acc, gates[k]) /\ acc \in Seq(Held) /\ gates[k] \in Held
      BY <1>0, <2>1, <2>3 DEF Taken
    <3>2. /\ h[k] \in Seq(Held) /\ Len(acc) \in Nat
          /\ DOMAIN acc = 1 .. Len(acc) /\ DOMAIN h[k] = 1 .. Len(acc) + 1
          /\ h[k][Len(acc) + 1] = gates[k]
          /\ \A j \in 1 .. Len(acc) : h[k][j] = acc[j]
      BY <3>1
    <3>3. \A j \in DOMAIN acc : acc[j].n # gates[k].n
      <4> SUFFICES ASSUME NEW j \in DOMAIN acc, acc[j].n = gates[k].n PROVE FALSE
        OBVIOUS
      <4>1. PICK i \in 1 .. k - 1 : gates[i] = acc[j]
        BY <2>1
      <4> QED
        BY <1>0, <2>2, <4>1 DEF Distinct
    <3>4. Distinct(h[k])
      <4> SUFFICES ASSUME NEW i \in DOMAIN h[k], NEW j \in DOMAIN h[k], h[k][i].n = h[k][j].n
                   PROVE  i = j
        BY DEF Distinct
      <4>1. CASE i \in 1 .. Len(acc) /\ j \in 1 .. Len(acc)
        BY <2>1, <3>2, <4>1 DEF Distinct
      <4>2. CASE i = Len(acc) + 1 \/ j = Len(acc) + 1
        BY <3>2, <3>3, <4>2
      <4> QED
        BY <3>2, <4>1, <4>2
    <3>5. ASSUME NEW j \in DOMAIN h[k] PROVE \E i \in 1 .. k : gates[i] = h[k][j]
      <4>1. CASE j = Len(acc) + 1
        BY <2>1, <3>2, <4>1
      <4>2. CASE j # Len(acc) + 1
        <5>1. j \in DOMAIN acc /\ h[k][j] = acc[j]
          BY <3>2, <4>2
        <5>2. PICK i \in 1 .. k - 1 : gates[i] = acc[j]
          BY <2>1, <5>1
        <5> QED
          BY <2>2, <5>1, <5>2
      <4> QED
        BY <4>1, <4>2
    <3> QED
      BY <2>1, <3>2, <3>4, <3>5
  <2>4. CASE gates[k] \notin S
    <3>1. h[k] = acc
      BY <2>1, <2>4 DEF Taken
    <3> QED
      BY <2>1, <2>2, <3>1
  <2> QED
    BY <2>3, <2>4
<1>4. n \in K
  <2> HIDE DEF K
  <2>1. \A k \in 0 .. n : k \in K
    BY <1>0, <1>2, <1>3, StepByStep
  <2> QED
    BY <1>0, <2>1
<1> QED
  BY <1>1, <1>4

LEMMA AppendDistinct ==
  ASSUME NEW gates \in Seq(Held), Distinct(gates), NEW g \in Held, g.n \notin HeldIn(gates)
  PROVE  Distinct(Append(gates, g))
<1> DEFINE new == Append(gates, g)
<1>1. /\ DOMAIN gates = 1 .. Len(gates) /\ DOMAIN new = 1 .. Len(gates) + 1 /\ Len(gates) \in Nat
      /\ new[Len(gates) + 1] = g /\ \A i \in 1 .. Len(gates) : new[i] = gates[i]
  OBVIOUS
<1>2. \A i \in DOMAIN gates : gates[i].n # g.n
  BY DEF HeldIn
<1> HIDE DEF new
<1>3. ASSUME NEW i \in DOMAIN new, NEW j \in DOMAIN new, new[i].n = new[j].n
      PROVE  i = j
  <2>1. CASE i \in 1 .. Len(gates) /\ j \in 1 .. Len(gates)
    BY <1>1, <1>3, <2>1 DEF Distinct
  <2>2. CASE i = Len(gates) + 1 \/ j = Len(gates) + 1
    BY <1>1, <1>2, <1>3, <2>2
  <2> QED
    BY <1>1, <2>1, <2>2
<1> QED
  BY <1>3 DEF Distinct, new

LEMMA TailDistinct ==
  ASSUME NEW gates \in Seq(Held), Distinct(gates), gates # <<>>
  PROVE  /\ Distinct(Tail(gates)) /\ Head(gates).n \notin HeldIn(Tail(gates))
         /\ HeldIn(Tail(gates)) \subseteq HeldIn(gates) /\ Head(gates).n \in HeldIn(gates)
<1> DEFINE rest == Tail(gates)
<1>1. /\ DOMAIN gates = 1 .. Len(gates) /\ Len(gates) \in Nat /\ Len(gates) >= 1
      /\ DOMAIN rest = 1 .. Len(gates) - 1 /\ Head(gates) = gates[1]
      /\ \A i \in 1 .. Len(gates) - 1 : rest[i] = gates[i + 1]
  OBVIOUS
<1> HIDE DEF rest
<1>2. \A i \in DOMAIN rest : i + 1 \in DOMAIN gates /\ rest[i] = gates[i + 1] /\ i + 1 # 1 /\ i \in Nat
  BY <1>1
<1>3. 1 \in DOMAIN gates
  BY <1>1
<1>4. Distinct(rest)
  <2> SUFFICES ASSUME NEW i \in DOMAIN rest, NEW j \in DOMAIN rest, rest[i].n = rest[j].n
               PROVE  i = j
    BY DEF Distinct
  <2>1. i + 1 = j + 1
    BY <1>2 DEF Distinct
  <2> QED
    BY <1>2, <2>1
<1>5. gates[1].n \notin HeldIn(rest)
  <2> SUFFICES ASSUME NEW i \in DOMAIN rest, rest[i].n = gates[1].n PROVE FALSE
    BY DEF HeldIn
  <2> QED
    BY <1>2, <1>3 DEF Distinct
<1> QED
  BY <1>1, <1>4, <1>5, HeldTail DEF rest

-----------------------------------------------------------------------------
(* The board *)

LEMMA RecordedRows ==
  ASSUME NEW board \in Seq(Rows), Len(board) <= BoardCap, NEW row \in Rows
  PROVE  \E shift \in {0, 1} :
           /\ shift = 1 => Len(board) = BoardCap
           /\ DOMAIN board = 1 .. Len(board) /\ Len(board) \in Nat
           /\ DOMAIN Recorded(board, row) = 1 .. Len(board) + 1 - shift
           /\ Len(Recorded(board, row)) = Len(board) + 1 - shift
           /\ \A i \in 1 .. Len(board) - shift : Recorded(board, row)[i] = board[i + shift]
           /\ Recorded(board, row)[Len(board) + 1 - shift] = row
<1> DEFINE all == Append(board, row)
           shift == IF Len(board) + 1 > BoardCap THEN 1 ELSE 0
           new == SubSeq(all, 1 + shift, Len(board) + 1)
<1>1. /\ all \in Seq(Rows) /\ Len(all) = Len(board) + 1 /\ Len(board) \in Nat
      /\ DOMAIN board = 1 .. Len(board) /\ all[Len(board) + 1] = row
      /\ \A i \in 1 .. Len(board) : all[i] = board[i]
  OBVIOUS
<1>2. BoardCap \in Nat /\ BoardCap >= 1
  BY SessionAssumption
<1>3. Len(board) + 1 > BoardCap => Len(board) = BoardCap
  <2>1. Len(board) \in Nat
    OBVIOUS
  <2> QED
    BY <1>2, <2>1
<1>4. Recorded(board, row) = new
  <2>1. CASE Len(board) + 1 > BoardCap
    <3>1. Len(board) + 1 - BoardCap + 1 = 1 + shift
      BY <1>1, <1>2, <1>3, <2>1
    <3>2. Recorded(board, row) =
            SubSeq(all, IF Len(all) > BoardCap THEN Len(all) - BoardCap + 1 ELSE 1, Len(all))
      BY DEF Recorded
    <3> HIDE DEF shift, all
    <3>3. Len(all) = Len(board) + 1 /\ Len(board) \in Nat
      BY <1>1
    <3>4. Len(all) > BoardCap /\ Len(all) - BoardCap + 1 = 1 + shift
      BY <1>2, <2>1, <3>1, <3>3
    <3> QED
      BY <3>2, <3>3, <3>4, Zenon
  <2>2. CASE ~(Len(board) + 1 > BoardCap)
    <3>1. 1 = 1 + shift
      BY <2>2
    <3> HIDE DEF shift
    <3> QED
      BY <1>1, <2>2, <3>1 DEF Recorded
  <2> QED
    BY <2>1, <2>2
<1>5. shift \in {0, 1} /\ (shift = 1 => Len(board) = BoardCap)
  BY <1>3
<1>6. shift = 1 => Len(board) >= 1
  BY <1>2, <1>5
<1> HIDE DEF all, shift
<1>7. 1 + shift \in 1 .. Len(all) /\ Len(all) - (1 + shift) + 1 = Len(board) + 1 - shift
  BY <1>1, <1>5, <1>6
<1>8. /\ Len(new) = Len(board) + 1 - shift /\ DOMAIN new = 1 .. Len(board) + 1 - shift
      /\ \A i \in 1 .. Len(board) + 1 - shift : new[i] = all[1 + shift + i - 1]
  BY <1>1, <1>5, <1>7
<1>9. \A i \in 1 .. Len(board) - shift : new[i] = board[i + shift]
  <2> SUFFICES ASSUME NEW i \in 1 .. Len(board) - shift PROVE new[i] = board[i + shift]
    OBVIOUS
  <2>1. /\ i \in 1 .. Len(board) + 1 - shift /\ 1 + shift + i - 1 = i + shift
        /\ i + shift \in 1 .. Len(board)
    BY <1>1, <1>5
  <2> HIDE DEF new
  <2> QED
    BY <1>1, <1>8, <2>1
<1>10. new[Len(board) + 1 - shift] = row
  <2>1. /\ Len(board) + 1 - shift \in 1 .. Len(board) + 1 - shift
        /\ 1 + shift + (Len(board) + 1 - shift) - 1 = Len(board) + 1
    BY <1>1, <1>5, <1>6
  <2> HIDE DEF new
  <2> QED
    BY <1>1, <1>8, <2>1
<1> HIDE DEF new
<1> QED
  BY <1>1, <1>4, <1>5, <1>8, <1>9, <1>10

\* A new row leaves the board in order, whose counter is not behind it.
LEMMA RecordedShaped ==
  ASSUME NEW board \in Seq(Rows), Len(board) <= BoardCap, NEW row \in Rows,
         NEW seq \in Nat, NEW next \in Nat, seq <= next, BoardShaped(board, seq),
         row.open => row.kind = "delegate",
         row.kind = "delegate" => row.id > seq /\ row.id <= next
  PROVE  BoardShaped(Recorded(board, row), next)
<1> DEFINE new == Recorded(board, row)
<1>1. PICK shift \in {0, 1} :
           /\ shift = 1 => Len(board) = BoardCap
           /\ DOMAIN board = 1 .. Len(board) /\ Len(board) \in Nat
           /\ DOMAIN new = 1 .. Len(board) + 1 - shift
           /\ Len(new) = Len(board) + 1 - shift
           /\ \A i \in 1 .. Len(board) - shift : new[i] = board[i + shift]
           /\ new[Len(board) + 1 - shift] = row
  BY RecordedRows
<1> HIDE DEF new
<1>2. \A i \in DOMAIN new :
        \/ i = Len(board) + 1 - shift /\ new[i] = row
        \/ i < Len(board) + 1 - shift /\ i + shift \in DOMAIN board /\ new[i] = board[i + shift]
  BY <1>1
<1>3. \A i \in DOMAIN board : board[i].id \in Nat
  <2>1. \A i \in DOMAIN board : board[i] \in Rows
    OBVIOUS
  <2> QED
    BY <2>1 DEF Rows
<1>4. ASSUME NEW i \in DOMAIN new
      PROVE  /\ new[i].open => new[i].kind = "delegate"
             /\ new[i].kind = "delegate" => new[i].id <= next
  <2>1. CASE new[i] = row
    BY <2>1
  <2>2. CASE i + shift \in DOMAIN board /\ new[i] = board[i + shift]
    <3>1. board[i + shift].open => board[i + shift].kind = "delegate"
      BY <2>2 DEF BoardShaped
    <3>2. board[i + shift].kind = "delegate" => board[i + shift].id <= seq
      BY <2>2 DEF BoardShaped
    <3>3. board[i + shift].id \in Nat
      BY <1>3, <2>2
    <3>4. board[i + shift].kind = "delegate" => board[i + shift].id <= next
      BY <3>2, <3>3
    <3> QED
      BY <2>2, <3>1, <3>4
  <2> QED
    BY <1>2, <2>1, <2>2
<1>5. ASSUME NEW i \in DOMAIN new, NEW j \in DOMAIN new, i < j,
             new[i].kind = "delegate", new[j].kind = "delegate"
      PROVE  new[i].id < new[j].id
  <2>1. i \in Nat /\ j \in Nat /\ i # Len(board) + 1 - shift
    BY <1>1, <1>5
  <2>2. i + shift \in DOMAIN board /\ new[i] = board[i + shift]
    BY <1>2, <2>1
  <2>3. CASE new[j] = row
    <3>1. board[i + shift].id <= seq /\ board[i + shift].id \in Nat
      BY <1>3, <1>5, <2>2 DEF BoardShaped
    <3>2. row.id > seq /\ row.id \in Nat
      BY <1>5, <2>3 DEF Rows
    <3> QED
      BY <2>2, <2>3, <3>1, <3>2
  <2>4. CASE j + shift \in DOMAIN board /\ new[j] = board[j + shift]
    <3>1. i + shift < j + shift
      BY <1>5, <2>1
    <3> QED
      BY <1>5, <2>2, <2>4, <3>1 DEF BoardShaped
  <2> QED
    BY <1>2, <2>3, <2>4
<1> QED
  BY <1>4, <1>5 DEF BoardShaped, new

\* A task stays on the board, or is pushed out with all older ones.
LEMMA RecordedKeeps ==
  ASSUME NEW board \in Seq(Rows), Len(board) <= BoardCap, NEW row \in Rows, NEW seq \in Nat,
         BoardShaped(board, seq), NEW t, t.id \in Nat, OnBoard(board, t),
         row.kind = "delegate" => row.id > t.id
  PROVE  OnBoard(Recorded(board, row), t)
<1> DEFINE new == Recorded(board, row)
<1>1. PICK shift \in {0, 1} :
           /\ shift = 1 => Len(board) = BoardCap
           /\ DOMAIN board = 1 .. Len(board) /\ Len(board) \in Nat
           /\ DOMAIN new = 1 .. Len(board) + 1 - shift
           /\ Len(new) = Len(board) + 1 - shift
           /\ \A i \in 1 .. Len(board) - shift : new[i] = board[i + shift]
           /\ new[Len(board) + 1 - shift] = row
  BY RecordedRows
<1> HIDE DEF new
<1>2. \A i \in DOMAIN new :
        new[i] = row \/ (i \in Nat /\ i + shift \in DOMAIN board /\ new[i] = board[i + shift])
  BY <1>1
<1>3. \A i \in DOMAIN board : board[i].id \in Nat /\ i \in Nat
  <2>1. \A i \in DOMAIN board : board[i] \in Rows
    OBVIOUS
  <2> QED
    BY <1>1, <2>1 DEF Rows
<1>4. CASE shift = 0
  <2>1. \A i \in DOMAIN board : i \in DOMAIN new /\ new[i] = board[i]
    BY <1>1, <1>4
  <2>2. ASSUME NEW i \in DOMAIN board, board[i] = Row("delegate", t.id)
        PROVE  OnBoard(new, t)
    BY <2>1, <2>2 DEF OnBoard
  <2>3. Len(board) # BoardCap \/ OnBoard(new, t)
    <3> SUFFICES ASSUME Len(board) = BoardCap PROVE FALSE
      OBVIOUS
    <3>1. Len(new) = BoardCap + 1 /\ BoardCap \in Nat
      BY <1>1, <1>4, SessionAssumption
    <3>2. Len(new) <= BoardCap
      BY RecordedIsCapped DEF new
    <3> QED
      BY <3>1, <3>2
  <2> QED
    BY <2>2, <2>3 DEF OnBoard, new
<1>5. CASE shift = 1
  <2>0. Len(new) = BoardCap
    BY <1>1, <1>5
  <2>1. ASSUME \A i \in DOMAIN board : i > 1 /\ board[i].kind = "delegate" => board[i].id > t.id
        PROVE  OnBoard(new, t)
    <3>1. ASSUME NEW i \in DOMAIN new, new[i].kind = "delegate" PROVE new[i].id > t.id
      <4>1. CASE new[i] = row
        BY <3>1, <4>1
      <4>2. CASE i \in Nat /\ i + shift \in DOMAIN board /\ new[i] = board[i + shift]
        <5>1. i + shift > 1
          BY <1>1, <1>5, <4>2
        <5> QED
          BY <2>1, <3>1, <4>2, <5>1
      <4> QED
        BY <1>2, <4>1, <4>2
    <3> QED
      BY <2>0, <3>1 DEF OnBoard
  <2>2. ASSUME NEW i \in DOMAIN board, board[i] = Row("delegate", t.id)
        PROVE  OnBoard(new, t)
    <3>1. CASE i = 1
      <4>1. \A j \in DOMAIN board : j > 1 /\ board[j].kind = "delegate" => board[j].id > t.id
        BY <2>2, <3>1 DEF BoardShaped, Row
      <4> QED
        BY <2>1, <4>1
    <3>2. CASE i # 1
      <4>1. i - 1 \in 1 .. Len(board) - shift /\ i - 1 + shift = i /\ i - 1 \in DOMAIN new
        BY <1>1, <1>5, <3>2
      <4>2. new[i - 1] = board[i]
        BY <1>1, <4>1
      <4> QED
        BY <2>2, <4>1, <4>2 DEF OnBoard
    <3> QED
      BY <3>1, <3>2
  <2>3. CASE \A i \in DOMAIN board : board[i].kind = "delegate" => board[i].id > t.id
    <3>1. \A i \in DOMAIN board : i > 1 /\ board[i].kind = "delegate" => board[i].id > t.id
      BY <2>3, Zenon
    <3> QED
      BY <2>1, <3>1, Zenon DEF new
  <2> QED
    BY <2>2, <2>3 DEF OnBoard, new
<1> QED
  BY <1>1, <1>4, <1>5

-----------------------------------------------------------------------------
(* Every step keeps the tasks in flight *)

Flight == RecordInv /\ MemFlown /\ DiskFlown

\* No outcome of a task in flight becomes untold
SameFates ==
  /\ DOMAIN asked \subseteq DOMAIN asked'
  /\ \A t \in told : \A life : Flown(t, asked', life) => Flown(t, asked, life)

\* A report in hand stays there until it is told
ReportKept ==
  \A t \in told : \A life :
    Reported(todo, job.n, t) /\ Flown(t, asked', life) => Reported(todo', job'.n, t)

\* The tickets the next state has at its gates and in hand
TicketsKept ==
  /\ Distinct(mem'.gates)
  /\ \A n \in HeldIn(mem'.gates) : n \in DOMAIN asked' /\ ~Given(n)
  /\ Final(todo') \in {"tell", "carry"} =>
       job'.n \in DOMAIN asked' /\ ~Given(job'.n) /\ job'.n \notin HeldIn(mem'.gates)
  /\ Final(todo') = "reload" => ~Given(job'.n)

\* What the next state's board has of the tasks
BoardKept ==
  /\ BoardShaped(mem'.board, mem'.seq)
  /\ \A t \in told :
       t.life = mem.life /\ OnBoard(mem.board, t) => OnBoard(mem'.board, t) \/ Reported(todo', job'.n, t)

LEMMA FlightKept ==
  ASSUME FlightInv, Up, disk' = disk, told' = told, mem'.life = mem.life,
         SameFates, ReportKept, TicketsKept, BoardKept,
         todo' \in ReportPlans =>
           \E t \in told : t.life = mem.life /\ t.id = job'.id /\ t.n = job'.n
  PROVE  Flight'
<1>1. RecordInv /\ MemFlown /\ DiskFlown
  BY DEF FlightInv
<1>2. \A n : Given(n)' <=> Given(n)
  BY DEF Given
<1>3. TicketsSound'
  <2>1. Distinct(disk'.gates) /\ Distinct(mem'.gates)
    BY <1>1 DEF RecordInv, TicketsSound, TicketsKept
  <2>2. HeldIn(disk.gates)' = HeldIn(disk.gates)
    BY DEF HeldIn
  <2>3. \A n \in HeldIn(mem.gates)' \cup HeldIn(disk.gates)' : n \in DOMAIN asked' /\ ~Given(n)'
    <3>1. \A n \in HeldIn(disk.gates) : n \in DOMAIN asked' /\ ~Given(n)
      BY <1>1 DEF RecordInv, TicketsSound, SameFates
    <3> QED
      BY <1>2, <2>2, <3>1 DEF TicketsKept
  <2>4. \A t \in told' : t.n \in DOMAIN asked'
    BY <1>1 DEF RecordInv, TicketsSound, SameFates
  <2>5. /\ Final(todo') \in {"tell", "carry"} =>
             job'.n \in DOMAIN asked' /\ ~Given(job.n)' /\ job'.n \notin HeldIn(mem.gates)'
        /\ Final(todo') = "reload" => ~Given(job.n)'
    BY DEF TicketsKept, Given
  <2> QED
    BY <2>1, <2>3, <2>4, <2>5 DEF TicketsSound
<1>4. BoardsShaped'
  BY <1>1 DEF RecordInv, BoardsShaped, BoardKept
<1>5. ReportKnown'
  BY DEF ReportKnown
<1>6. MemFlown'
  <2> SUFFICES ASSUME NEW t \in told, Flown(t, asked', mem.life)
               PROVE  OnBoard(mem'.board, t) \/ Reported(todo', job'.n, t)
    BY DEF MemFlown
  <2>1. Flown(t, asked, mem.life) /\ t.life = mem.life
    BY DEF SameFates, Flown
  <2>2. OnBoard(mem.board, t) \/ Reported(todo, job.n, t)
    BY <1>1, <2>1 DEF MemFlown
  <2> QED
    BY <2>1, <2>2 DEF BoardKept, ReportKept
<1>7. DiskFlown'
  <2> SUFFICES ASSUME NEW t \in told, Flown(t, asked', disk.life)
               PROVE  OnBoard(disk.board, t) \/ (mem.life = disk.life /\ Reported(todo', job'.n, t))
    BY DEF DiskFlown
  <2>1. Flown(t, asked, disk.life)
    BY DEF SameFates
  <2>2. OnBoard(disk.board, t) \/ (mem.life = disk.life /\ Reported(todo, job.n, t))
    BY <1>1, <2>1 DEF DiskFlown
  <2> QED
    BY <2>2 DEF ReportKept
<1> QED
  BY <1>3, <1>4, <1>5, <1>6, <1>7 DEF Flight, RecordInv

\* The fates of the requests a step says nothing of
LEMMA FatesStay ==
  ASSUME FlightInv, asked' = asked
  PROVE  SameFates
BY DEF SameFates

LEMMA FatesGrow ==
  ASSUME FlightInv, Ask
  PROVE  SameFates /\ Ticket \in DOMAIN asked' /\ ~Given(Ticket)
         /\ Ticket \notin HeldIn(mem.gates) /\ DOMAIN asked \subseteq DOMAIN asked'
<1>1. /\ DOMAIN asked' = DOMAIN asked \cup {Ticket} /\ Ticket \notin DOMAIN asked
      /\ \A n \in DOMAIN asked : asked'[n] = asked[n]
  BY FlightFacts, AskAsks
<1>2. \A t \in told : t.n \in DOMAIN asked
  BY FlightFacts
<1>3. \A n \in HeldIn(mem.gates) : n \in DOMAIN asked
  BY DEF FlightInv, RecordInv, TicketsSound
<1> QED
  BY <1>1, <1>2, <1>3 DEF SameFates, Flown, Given

LEMMA FatesBecome ==
  ASSUME FlightInv, NEW tickets, NEW fate \in {"settled", "unheard", "cut"}, Becomes(tickets, fate),
         fate = "unheard" => \A n \in tickets : ~Given(n)
  PROVE  /\ SameFates /\ DOMAIN asked' = DOMAIN asked
         /\ fate # "unheard" =>
              \A t \in told : \A life : t.n \in tickets => ~Flown(t, asked', life)
<1>1. /\ DOMAIN asked' = DOMAIN asked
      /\ \A n \in DOMAIN asked : /\ n \notin tickets => asked'[n] = asked[n]
                                 /\ n \in tickets => asked'[n].fate = fate
  BY FlightFacts, BecomesSettles
<1>2. ASSUME NEW t \in told, t.n \in tickets
      PROVE  fate # "unheard" /\ \A life : ~Flown(t, asked', life)
  <2>1. fate # "unheard"
    BY <1>2 DEF Given
  <2>2. asked'[t.n].fate = fate
    BY <1>1, <1>2, FlightFacts
  <2> QED
    BY <2>1, <2>2 DEF Flown
<1>3. ASSUME NEW t \in told, t.n \notin tickets, NEW life, Flown(t, asked', life)
      PROVE  Flown(t, asked, life)
  BY <1>1, <1>3, FlightFacts DEF Flown
<1> QED
  BY <1>1, <1>2, <1>3 DEF SameFates

\* A handler that goes on keeps its job and its end; one that is over told its report.
LEMMA GoesKeeps ==
  ASSUME FlightInv, todo # <<>>, Goes, mem'.gates = mem.gates, DOMAIN asked \subseteq DOMAIN asked'
  PROVE  /\ TicketsKept
         /\ todo' # <<>> => ReportKept
         /\ Final(todo) # "hear" => ReportKept
<1>1. \/ todo' = <<>> /\ job' = NoJob /\ todo = <<Final(todo)>>
      \/ todo' # <<>> /\ Final(todo') = Final(todo) /\ job' = job
  BY FlightFacts, GoesOn
<1>2. RecordInv
  BY DEF FlightInv
<1>3. Final(todo') # "none" => Final(todo') = Final(todo) /\ job' = job
  BY <1>1, Finals
<1>4. TicketsKept
  BY <1>2, <1>3 DEF RecordInv, TicketsSound, TicketsKept
<1>5. todo' # <<>> => ReportKept
  BY <1>1 DEF ReportKept, Reported
<1>6. Final(todo) # "hear" => ReportKept
  BY DEF ReportKept, Reported
<1> QED
  BY <1>4, <1>5, <1>6

LEMMA SaveFlies ==
  ASSUME FlightInv, Save
  PROVE  Flight'
<1>0. /\ Does("save") /\ Goes /\ disk' = mem /\ mem' = mem
      /\ asked' = asked /\ told' = told /\ Up /\ todo # <<>> /\ todo \in Plans
  BY FlightFacts DEF Save, history, Does
<1>1. \/ todo' = <<>> /\ job' = NoJob /\ Final(todo) = "save"
      \/ todo' # <<>> /\ Final(todo') = Final(todo) /\ job' = job
  <2>1. \/ todo' = <<>> /\ job' = NoJob /\ todo = <<Final(todo)>>
        \/ todo' # <<>> /\ Final(todo') = Final(todo) /\ job' = job
    BY <1>0, GoesOn
  <2>2. todo = <<Final(todo)>> => Final(todo) = "save"
    BY <1>0 DEF Does
  <2> QED
    BY <2>1, <2>2
<1>2. RecordInv /\ MemFlown
  BY DEF FlightInv
<1>3. TicketsKept /\ ReportKept
  <2>1. ReportKept
    BY <1>1 DEF ReportKept, Reported
  <2> QED
    BY <1>0, <2>1, GoesKeeps
<1>4. TicketsSound'
  <2>1. \A n : Given(n)' <=> Given(n)
    BY <1>0 DEF Given
  <2>2. Distinct(mem.gates)' /\ Distinct(disk.gates)'
    BY <1>0, <1>2 DEF RecordInv, TicketsSound
  <2>3. HeldIn(mem.gates)' = HeldIn(mem.gates) /\ HeldIn(disk.gates)' = HeldIn(mem.gates)
    BY <1>0 DEF HeldIn
  <2>4. \A n \in HeldIn(mem.gates)' \cup HeldIn(disk.gates)' : n \in DOMAIN asked' /\ ~Given(n)'
    BY <1>0, <1>2, <2>1, <2>3 DEF RecordInv, TicketsSound
  <2>5. \A t \in told' : t.n \in DOMAIN asked'
    BY <1>0, <1>2 DEF RecordInv, TicketsSound
  <2>6. /\ Final(todo') \in {"tell", "carry"} =>
             job'.n \in DOMAIN asked' /\ ~Given(job.n)' /\ job'.n \notin HeldIn(mem.gates)'
        /\ Final(todo') = "reload" => ~Given(job.n)'
    BY <1>0, <1>3, <2>3 DEF TicketsKept, Given
  <2> QED
    BY <2>2, <2>4, <2>5, <2>6 DEF TicketsSound
<1>5. BoardsShaped'
  BY <1>0, <1>2 DEF RecordInv, BoardsShaped
<1>6. ReportKnown'
  BY <1>0, <1>2, ReportGoesOn DEF RecordInv, ReportKnown
<1>7. ASSUME NEW t \in told, Flown(t, asked, mem.life)
      PROVE  OnBoard(mem.board, t) \/ Reported(todo', job'.n, t)
  BY <1>0, <1>2, <1>3, <1>7 DEF MemFlown, ReportKept
<1>8. MemFlown' /\ DiskFlown'
  BY <1>0, <1>7 DEF MemFlown, DiskFlown
<1> QED
  BY <1>4, <1>5, <1>6, <1>8 DEF Flight, RecordInv

LEMMA TellFlies ==
  ASSUME FlightInv, Tell
  PROVE  Flight'
<1> DEFINE new == [life |-> mem.life, id |-> job.id, n |-> job.n]
<1>0. /\ todo = <<"tell">> /\ Final(todo) = "tell" /\ todo' = <<>> /\ job' = NoJob
      /\ mem' = mem /\ disk' = disk /\ asked' = asked /\ told' = told \cup {new} /\ Up
  BY FlightFacts, LastEffect DEF Tell, Does
<1>1. /\ job.id = mem.seq /\ disk.life = mem.life /\ disk.board = mem.board /\ disk.gates = mem.gates
      /\ NewestIs(mem.board, Row("delegate", mem.seq))
  <2>1. todo \in TellPlans /\ ~Does("save")
    BY <1>0 DEF TellPlans, Does
  <2>2. job.id = mem.seq /\ disk.life = mem.life
    BY <1>0, <2>1, FlightFacts DEF IdsInv, IdFresh
  <2>3. InStep
    BY <1>0, <2>1, FlightFacts DEF SyncInv, AheadOnlyToSave
  <2>4. NewestKept
    BY DEF FlightInv, TicketInv, TypedInv, LedgerInv
  <2> QED
    BY <2>1, <2>2, <2>3, <2>4 DEF InStep, NewestKept
<1>2. RecordInv /\ MemFlown /\ DiskFlown
  BY DEF FlightInv
<1>3. job.n \in DOMAIN asked /\ job.n \notin HeldIn(mem.gates)
  BY <1>0, <1>2 DEF RecordInv, TicketsSound
<1>4. OnBoard(mem.board, new)
  <2>1. mem.board # <<>> /\ mem.board[Len(mem.board)] = Row("delegate", new.id)
    BY <1>1 DEF NewestIs
  <2>2. Len(mem.board) \in DOMAIN mem.board
    BY <2>1, FlightFacts
  <2> QED
    BY <2>1, <2>2 DEF OnBoard
<1>5. TicketsSound'
  <2>1. \A n : n # job.n => (Given(n)' <=> Given(n))
    BY <1>0 DEF Given
  <2>2. Distinct(mem.gates)' /\ Distinct(disk.gates)'
    BY <1>0, <1>2 DEF RecordInv, TicketsSound
  <2>3. HeldIn(mem.gates)' = HeldIn(mem.gates) /\ HeldIn(disk.gates)' = HeldIn(mem.gates)
    BY <1>0, <1>1 DEF HeldIn
  <2>4. \A n \in HeldIn(mem.gates)' \cup HeldIn(disk.gates)' : n \in DOMAIN asked' /\ ~Given(n)'
    BY <1>0, <1>2, <1>3, <2>1, <2>3 DEF RecordInv, TicketsSound
  <2>5. \A t \in told' : t.n \in DOMAIN asked'
    BY <1>0, <1>2, <1>3 DEF RecordInv, TicketsSound
  <2>6. Final(todo') = "none"
    BY <1>0, Finals
  <2> QED
    BY <2>2, <2>4, <2>5, <2>6 DEF TicketsSound
<1>6. BoardsShaped'
  BY <1>0, <1>2 DEF RecordInv, BoardsShaped
<1>7. ReportKnown'
  BY <1>0, PlainPlans DEF ReportKnown
<1>8. \A t \in told : ~Reported(todo, job.n, t)
  BY <1>0 DEF Reported
<1>9. \A t \in told' : Flown(t, asked', mem.life) => OnBoard(mem.board, t)
  BY <1>0, <1>2, <1>4, <1>8 DEF MemFlown
<1>10. \A t \in told' : Flown(t, asked', disk.life) => OnBoard(disk.board, t)
  BY <1>0, <1>1, <1>2, <1>4, <1>8 DEF DiskFlown
<1>11. MemFlown' /\ DiskFlown'
  BY <1>0, <1>9, <1>10 DEF MemFlown, DiskFlown
<1> QED
  BY <1>5, <1>6, <1>7, <1>11 DEF Flight, RecordInv

\* A step that leaves the board alone
LEMMA SameBoard ==
  ASSUME FlightInv, mem'.board = mem.board, mem'.seq = mem.seq
  PROVE  BoardKept
BY DEF BoardKept, FlightInv, RecordInv, BoardsShaped

\* The newest open row under the reported id is the reported task's.
LEMMA ResolveFlies ==
  ASSUME FlightInv, Resolve
  PROVE  Flight'
<1>0. /\ todo = <<"resolve", "hear">> /\ Up /\ Final(todo) = "hear" /\ todo # <<>>
      /\ disk' = disk /\ asked' = asked /\ told' = told
  BY FlightFacts, Finals DEF Resolve, Does, Plans, history
<1>1. Shape /\ mem.board \in Seq(Rows) /\ RecordInv /\ IdsUnique
  BY FlightFacts DEF FlightInv, IdsInv
<1>2. PICK r \in told : r.life = mem.life /\ r.id = job.id /\ r.n = job.n
  BY <1>0, <1>1 DEF RecordInv, ReportKnown, ReportPlans
<1> DEFINE open == {i \in DOMAIN mem.board : mem.board[i].open /\ mem.board[i].id = job.id}
           k == CHOOSE k \in open : \A j \in open : j <= k
<1>3. CASE open = {}
  <2>1. mem' = mem /\ Goes
    BY <1>3 DEF Resolve
  <2>2. todo' = <<"hear">>
    BY <1>0, <2>1 DEF Goes
  <2>3. todo' # <<>> /\ todo' \notin ReportPlans
    BY <2>2, PlainPlans
  <2>4. TicketsKept /\ ReportKept /\ BoardKept /\ SameFates
    BY <1>0, <2>1, <2>3, GoesKeeps, SameBoard, FatesStay
  <2> QED
    BY <1>0, <2>1, <2>3, <2>4, FlightKept
<1>4. CASE open # {}
  <2>1. mem' = [mem EXCEPT !.board = [i \in DOMAIN mem.board |->
                   [mem.board[i] EXCEPT !.open = mem.board[i].open /\ i # k]]]
        /\ todo' = <<"save", "hear">> /\ job' = job
    BY <1>4 DEF Resolve
  <2>2. DOMAIN mem.board = 1 .. Len(mem.board) /\ Len(mem.board) \in Nat
        /\ \A i \in DOMAIN mem.board : mem.board[i] \in Rows
    BY <1>1
  <2> HIDE DEF open
  <2>3. k \in open
    <3>1. open \subseteq 1 .. Len(mem.board)
      BY <2>2 DEF open
    <3> QED
      BY <1>4, <2>2, <3>1, NewestOf
  <2> HIDE DEF k
  <2>4. mem'.board = [i \in DOMAIN mem.board |->
                        [mem.board[i] EXCEPT !.open = mem.board[i].open /\ i # k]]
        /\ mem'.life = mem.life /\ mem'.seq = mem.seq /\ mem'.gates = mem.gates
    BY <1>1, <2>1 DEF Shape, IsMemory
  <2>5. DOMAIN mem'.board = DOMAIN mem.board /\ Len(mem'.board) = Len(mem.board)
    BY <2>2, <2>4
  <2>6. ASSUME NEW i \in DOMAIN mem.board
        PROVE  /\ mem'.board[i].kind = mem.board[i].kind /\ mem'.board[i].id = mem.board[i].id
               /\ mem'.board[i].open => mem.board[i].open
               /\ i # k => mem'.board[i] = mem.board[i]
    <3>1. mem'.board[i] = [mem.board[i] EXCEPT !.open = mem.board[i].open /\ i # k]
      BY <2>4
    <3>2. mem.board[i] \in Rows
      BY <2>2
    <3>3. i # k => (mem.board[i].open /\ i # k) = mem.board[i].open
      <4>1. mem.board[i].open \in BOOLEAN
        BY <3>2 DEF Rows
      <4> QED
        BY <4>1
    <3>4. [mem.board[i] EXCEPT !.open = mem.board[i].open] = mem.board[i]
      BY <3>2 DEF Rows
    <3>5. i # k => mem'.board[i] = mem.board[i]
      BY <3>1, <3>3, <3>4
    <3> QED
      BY <3>1, <3>2, <3>5 DEF Rows
  <2>7. BoardShaped(mem.board, mem.seq)
    BY <1>1 DEF RecordInv, BoardsShaped
  <2>8. BoardShaped(mem'.board, mem'.seq)
    <3>1. \A i \in DOMAIN mem.board :
            /\ mem'.board[i].open => mem'.board[i].kind = "delegate"
            /\ mem'.board[i].kind = "delegate" => mem'.board[i].id <= mem.seq
      BY <2>6, <2>7 DEF BoardShaped
    <3>2. \A i, j \in DOMAIN mem.board :
            i < j /\ mem'.board[i].kind = "delegate" /\ mem'.board[j].kind = "delegate"
              => mem'.board[i].id < mem'.board[j].id
      BY <2>6, <2>7 DEF BoardShaped
    <3> QED
      BY <2>4, <2>5, <3>1, <3>2 DEF BoardShaped
  <2>9. \A n : Reported(todo', n, r) <=> n = r.n
    BY <2>1, Finals DEF Reported
  <2>10. ASSUME NEW t \in told, t.life = mem.life, OnBoard(mem.board, t)
         PROVE  OnBoard(mem'.board, t) \/ Reported(todo', job'.n, t)
    <3>1. ASSUME NEW i \in DOMAIN mem.board, mem.board[i] = Row("delegate", t.id), i = k
          PROVE  Reported(todo', job'.n, t)
      <4>1. t.id = job.id
        BY <2>3, <3>1 DEF open, Row
      <4>2. t = r
        BY <1>1, <1>2, <2>10, <4>1 DEF IdsUnique
      <4> QED
        BY <1>2, <2>1, <2>9, <4>2
    <3>2. ASSUME NEW i \in DOMAIN mem.board, mem.board[i] = Row("delegate", t.id), i # k
          PROVE  OnBoard(mem'.board, t)
      BY <2>5, <2>6, <3>2 DEF OnBoard
    <3>3. ASSUME Len(mem.board) = BoardCap,
                 \A i \in DOMAIN mem.board : mem.board[i].kind = "delegate" => mem.board[i].id > t.id
          PROVE  OnBoard(mem'.board, t)
      BY <2>5, <2>6, <3>3 DEF OnBoard
    <3> QED
      BY <2>10, <3>1, <3>2, <3>3 DEF OnBoard
  <2>11. TicketsKept /\ ReportKept
    <3>1. Final(todo') = "hear"
      BY <2>1, Finals
    <3>2. ReportKept
      BY <1>0, <2>1, <3>1 DEF ReportKept, Reported
    <3> QED
      BY <1>0, <1>1, <2>4, <3>1, <3>2 DEF TicketsKept, RecordInv, TicketsSound
  <2>12. todo' \notin ReportPlans
    BY <2>1, PlainPlans
  <2> QED
    BY <1>0, <2>4, <2>8, <2>10, <2>11, <2>12, FatesStay, FlightKept DEF BoardKept
<1> QED
  BY <1>3, <1>4

LEMMA IssueFlies ==
  ASSUME FlightInv, Up, NEW r, NEW n, Issue(r, n), disk' = disk, told' = told,
         SameFates, todo = <<>> \/ Final(todo) # "hear",
         n \in DOMAIN asked', ~Given(n), n \notin HeldIn(mem.gates)
  PROVE  Flight'
<1>0. /\ Shape /\ mem.seq \in Nat /\ mem.board \in Seq(Rows) /\ Len(mem.board) <= BoardCap
      /\ RecordInv /\ IdsKnown /\ disk.seq \in Nat
  BY FlightFacts DEF FlightInv, IdsInv
<1>1. /\ mem'.life = mem.life /\ mem'.gates = mem.gates /\ mem'.seq = mem.seq + 1
      /\ mem'.board = Recorded(mem.board, Row("delegate", mem.seq + 1))
      /\ job'.n = n /\ todo' = <<"save", "tell">>
  BY <1>0 DEF Issue, Shape, IsMemory
<1>2. Final(todo') = "tell" /\ todo' \notin ReportPlans
  BY <1>1, Finals, PlainPlans
<1> DEFINE row == Row("delegate", mem.seq + 1)
<1>3. /\ row \in Rows /\ row.kind = "delegate" /\ row.id = mem.seq + 1
      /\ mem.seq + 1 \in Nat /\ mem.seq <= mem.seq + 1 /\ mem.seq + 1 > mem.seq
  BY <1>0 DEF Row, Rows
<1>4. BoardShaped(mem.board, mem.seq)
  BY <1>0 DEF RecordInv, BoardsShaped
<1> HIDE DEF row
<1>5. BoardShaped(mem'.board, mem'.seq)
  <2>1. BoardShaped(Recorded(mem.board, row), mem.seq + 1)
    BY <1>0, <1>3, <1>4, RecordedShaped
  <2> QED
    BY <1>1, <2>1 DEF row
<1>6. ASSUME NEW t \in told, t.life = mem.life, OnBoard(mem.board, t)
      PROVE  OnBoard(mem'.board, t)
  <2>1. t.id <= disk.seq /\ disk.seq <= mem.seq /\ t.id \in Nat
    BY <1>0, <1>6 DEF IdsKnown
  <2>2. row.id > t.id
    BY <1>0, <1>3, <2>1
  <2>3. OnBoard(Recorded(mem.board, row), t)
    BY <1>0, <1>3, <1>4, <1>6, <2>1, <2>2, RecordedKeeps
  <2> QED
    BY <1>1, <2>3 DEF row
<1>7. BoardKept
  BY <1>5, <1>6 DEF BoardKept
<1>8. TicketsKept
  <2>1. \A m \in HeldIn(mem.gates) : m \in DOMAIN asked' /\ ~Given(m)
    BY <1>0 DEF RecordInv, TicketsSound, SameFates
  <2> QED
    BY <1>0, <1>1, <1>2, <2>1 DEF TicketsKept, RecordInv, TicketsSound
<1>9. ReportKept
  BY Finals DEF ReportKept, Reported
<1> QED
  BY <1>1, <1>2, <1>7, <1>8, <1>9, FlightKept

\* Any other step of which no report is in hand, and which leaves the board alone
LEMMA PlainFlies ==
  ASSUME FlightInv, Up, disk' = disk, told' = told, SameFates, TicketsKept,
         mem'.life = mem.life, mem'.board = mem.board, mem'.seq = mem.seq,
         Final(todo) # "hear", todo' \notin ReportPlans
  PROVE  Flight'
<1>1. ReportKept
  BY DEF ReportKept, Reported
<1> QED
  BY <1>1, SameBoard, FlightKept

LEMMA ReloadFlies ==
  ASSUME FlightInv, Reload
  PROVE  Flight'
<1> DEFINE slots == Converged(mem.slots, file[mem.path])
           fit == {g \in Range(mem.gates) : g.to \in LiveIn(slots)}
           dropped == {i \in DOMAIN mem.gates : mem.gates[i].to \notin LiveIn(slots)}
           added == job.to \in LiveIn(slots) \ Live
           lost == {mem.gates[i].n : i \in dropped} \union (IF added THEN {} ELSE {job.n})
<1>0. /\ Final(todo) = "reload" /\ Up /\ disk' = disk /\ told' = told /\ Shape /\ RecordInv
      /\ mem.gates \in Seq(Held)
  BY FlightFacts, LastEffect DEF Reload, Does, FlightInv
<1>1. /\ mem' = [mem EXCEPT !.slots = slots, !.gates = Among(mem.gates, fit)]
      /\ todo' = IF added THEN <<"save", "hear">> ELSE <<"save">>
      /\ Becomes(lost, "unheard")
  BY Zenon DEF Reload
<1>2. todo' = <<"save", "hear">> \/ todo' = <<"save">>
  BY <1>1
<1>3. lost \subseteq HeldIn(mem.gates) \cup {job.n}
  BY DEF HeldIn
<1>4. \A n \in lost : ~Given(n)
  BY <1>0, <1>3 DEF RecordInv, TicketsSound
<1> HIDE DEF slots, fit, dropped, added, lost
<1>5. SameFates /\ DOMAIN asked' = DOMAIN asked
  BY <1>1, <1>4, FatesBecome
<1>6. /\ mem'.life = mem.life /\ mem'.board = mem.board /\ mem'.seq = mem.seq
      /\ mem'.gates = Among(mem.gates, fit)
  BY <1>0, <1>1 DEF Shape, IsMemory
<1>7. Distinct(mem'.gates)
  BY <1>0, <1>6, AmongDistinct DEF RecordInv, TicketsSound
<1>8. HeldIn(mem'.gates) \subseteq HeldIn(mem.gates)
  <2> SUFFICES ASSUME NEW j \in DOMAIN mem'.gates PROVE mem'.gates[j].n \in HeldIn(mem.gates)
    BY DEF HeldIn
  <2>1. \E i \in DOMAIN mem.gates : mem.gates[i] = mem'.gates[j]
    BY <1>0, <1>6, AmongIs
  <2> QED
    BY <2>1 DEF HeldIn
<1>9. Final(todo') \notin {"tell", "carry", "reload"} /\ todo' \notin ReportPlans
  BY <1>2, Finals, PlainPlans
<1>10. TicketsKept
  BY <1>0, <1>5, <1>7, <1>8, <1>9 DEF TicketsKept, RecordInv, TicketsSound
<1> QED
  BY <1>0, <1>5, <1>6, <1>9, <1>10, PlainFlies

LEMMA HandlerFlies ==
  ASSUME FlightInv, Handler, ~Stop
  PROVE  Flight'
<1>0. /\ Shape /\ todo \in Plans /\ todo # <<>> /\ Up /\ RecordInv
  BY FlightFacts
     DEF Handler, Save, Tell, Hear, AppendBlock, Resolve, Reload, CarryOut, Does, FlightInv
<1>1. CASE Hear
  <2>1. /\ Final(todo) = "hear" /\ todo' = <<>> /\ job' = NoJob /\ Goes /\ Becomes({job.n}, "settled")
        /\ mem' = mem /\ disk' = disk /\ told' = told
    BY <1>0, <1>1, LastEffect DEF Hear
  <2>2. /\ SameFates /\ DOMAIN asked' = DOMAIN asked
        /\ \A t \in told : \A life : t.n = job.n => ~Flown(t, asked', life)
    BY <2>1, FatesBecome
  <2>3. ReportKept
    BY <2>2 DEF ReportKept, Reported
  <2>4. TicketsKept /\ BoardKept /\ todo' \notin ReportPlans
    BY <1>0, <2>1, <2>2, GoesKeeps, SameBoard, PlainPlans
  <2> QED
    BY <1>0, <2>1, <2>2, <2>3, <2>4, FlightKept
<1>2. CASE AppendBlock
  <2>1. todo = <<"append", "reload">> /\ Goes
    BY <1>0, <1>2 DEF AppendBlock, Does, Plans
  <2>2. todo' = <<"reload">> /\ Final(todo) = "reload"
    BY <2>1, Finals DEF Goes
  <2>3. /\ mem' = mem /\ disk' = disk /\ told' = told /\ asked' = asked
        /\ todo' \notin ReportPlans
    BY <1>2, <2>2, PlainPlans DEF AppendBlock, history
  <2>4. TicketsKept /\ SameFates
    BY <1>0, <2>1, <2>3, GoesKeeps, FatesStay
  <2> QED
    BY <1>0, <2>2, <2>3, <2>4, PlainFlies
<1>3. CASE CarryOut
  <2>0. /\ Final(todo) = "carry" /\ disk' = disk /\ told' = told
        /\ job.n \in DOMAIN asked /\ ~Given(job.n) /\ job.n \notin HeldIn(mem.gates)
    BY <1>0, <1>3, LastEffect DEF CarryOut, RecordInv, TicketsSound
  <2>1. CASE Issue(job.to, job.n) /\ UNCHANGED asked
    BY <1>0, <2>0, <2>1, FatesStay, IssueFlies
  <2>2. CASE Becomes({job.n}, "unheard") /\ Goes /\ mem' = mem
    <3>1. todo' = <<>>
      BY <1>0, <1>3, <2>2, LastEffect DEF CarryOut
    <3>2. SameFates /\ DOMAIN asked' = DOMAIN asked
      BY <2>0, <2>2, FatesBecome
    <3>3. TicketsKept /\ todo' \notin ReportPlans
      BY <1>0, <2>2, <3>1, <3>2, GoesKeeps, PlainPlans
    <3> QED
      BY <1>0, <2>0, <2>2, <3>2, <3>3, PlainFlies
  <2>3. CASE todo' = <<"append", "reload">> /\ UNCHANGED <<mem, job, asked>>
    <3>1. Final(todo') = "reload" /\ todo' \notin ReportPlans
      BY <2>3, Finals, PlainPlans
    <3>2. TicketsKept
      BY <1>0, <2>0, <2>3, <3>1 DEF TicketsKept, RecordInv, TicketsSound
    <3> QED
      BY <1>0, <2>0, <2>3, <3>1, <3>2, FatesStay, PlainFlies
  <2> QED
    BY <1>3, <2>1, <2>2, <2>3 DEF CarryOut
<1> QED
  BY <1>1, <1>2, <1>3, SaveFlies, TellFlies, ResolveFlies, ReloadFlies DEF Handler

LEMMA MessageFlies ==
  ASSUME FlightInv, Message
  PROVE  Flight'
<1>0. /\ Shape /\ Boards /\ RecordInv /\ TicketsSound /\ mem.gates \in Seq(Held)
      /\ Up /\ todo = <<>> /\ Final(todo) = "none"
  BY FlightFacts, Finals
     DEF FlightInv, RecordInv, Message, Delegate, Propose, WorkDone, ApproveGate, RejectGate, Rule,
         AskReload, Handoff, Quit, Idle
<1>1. Ticket \in Nat
  BY <1>0 DEF Boards, Ticket
<1>2. ASSUME NEW kind \in {"delegate", "roster"}, NEW r \in Names,
             Idle, Ask, Hold(Request(kind, r, Ticket)), disk' = disk, told' = told
      PROVE  Flight'
  <2> DEFINE g == Request(kind, r, Ticket)
  <2>1. g \in Held /\ g.n = Ticket
    BY <1>0, <1>2, TicketInRange DEF Request
  <2> HIDE DEF g
  <2>2. /\ mem'.gates = Append(mem.gates, g) /\ mem'.life = mem.life
        /\ mem'.board = mem.board /\ mem'.seq = mem.seq /\ todo' = <<"save">>
    BY <1>0, <1>2 DEF Hold, Shape, IsMemory, g
  <2>3. SameFates /\ Ticket \in DOMAIN asked' /\ ~Given(Ticket) /\ Ticket \notin HeldIn(mem.gates)
        /\ DOMAIN asked \subseteq DOMAIN asked'
    BY <1>2, FatesGrow
  <2>4. Distinct(mem'.gates) /\ HeldIn(mem'.gates) = HeldIn(mem.gates) \cup {Ticket}
    <3>1. Distinct(mem.gates)
      BY <1>0 DEF RecordInv, TicketsSound
    <3> QED
      BY <1>0, <2>1, <2>2, <2>3, <3>1, AppendDistinct, HeldAppend
  <2>5. Final(todo') = "save" /\ todo' \notin ReportPlans
    BY <2>2, Finals, PlainPlans
  <2>6. TicketsKept
    <3>1. \A n \in HeldIn(mem.gates) : n \in DOMAIN asked /\ ~Given(n)
      BY <1>0 DEF TicketsSound
    <3> QED
      BY <2>3, <2>4, <2>5, <3>1 DEF TicketsKept
  <2> QED
    BY <1>0, <1>2, <2>2, <2>3, <2>5, <2>6, PlainFlies
<1>3. ASSUME NEW r \in Names, Delegate(r)
      PROVE  Flight'
  <2>1. Idle /\ Ask /\ disk' = disk /\ told' = told
    BY <1>3 DEF Delegate
  <2>2. CASE Issue(r, Ticket)
    BY <1>0, <2>1, <2>2, FatesGrow, IssueFlies
  <2>3. CASE Hold(Request("delegate", r, Ticket))
    BY <1>2, <2>1, <2>3
  <2> QED
    BY <1>3, <2>2, <2>3 DEF Delegate
<1>4. ASSUME NEW r \in Names, Propose(r)
      PROVE  Flight'
  <2>1. Idle /\ Ask /\ disk' = disk /\ told' = told
    BY <1>4 DEF Propose
  <2>2. CASE mem' = mem /\ job' = Request("roster", r, Ticket) /\ todo' = <<"append", "reload">>
    <3>1. Final(todo') = "reload" /\ todo' \notin ReportPlans /\ job'.n = Ticket
      BY <2>2, Finals, PlainPlans DEF Request
    <3>2. SameFates /\ ~Given(Ticket) /\ DOMAIN asked \subseteq DOMAIN asked'
      BY <2>1, FatesGrow
    <3>3. TicketsKept
      BY <1>0, <2>2, <3>1, <3>2 DEF TicketsKept, RecordInv, TicketsSound
    <3> QED
      BY <1>0, <2>1, <2>2, <3>1, <3>2, <3>3, PlainFlies
  <2>3. CASE Hold(Request("roster", r, Ticket))
    BY <1>2, <2>1, <2>3
  <2> QED
    BY <1>4, <2>2, <2>3 DEF Propose
<1>5. ASSUME NEW t \in told, WorkDone(t)
      PROVE  Flight'
  <2> DEFINE row == Row("work-done", t.id)
  <2>1. /\ Idle /\ t.life = mem.life /\ disk' = disk /\ told' = told /\ asked' = asked
        /\ mem'.life = mem.life /\ mem'.seq = mem.seq /\ mem'.gates = mem.gates
        /\ mem'.board = Recorded(mem.board, row) /\ job'.n = t.n /\ job'.id = t.id
        /\ todo' = <<"save", "resolve", "hear">>
    BY <1>0, <1>5 DEF WorkDone, Shape, IsMemory, history
  <2>2. /\ mem.board \in Seq(Rows) /\ Len(mem.board) <= BoardCap /\ mem.seq \in Nat
        /\ \A u \in told : u.id \in Nat
    BY FlightFacts
  <2>3. row \in Rows /\ row.kind = "work-done" /\ ~row.open
    BY <2>2 DEF Row, Rows
  <2>4. BoardShaped(mem.board, mem.seq) /\ mem.seq <= mem.seq
    BY <1>0, <2>2 DEF RecordInv, BoardsShaped
  <2> HIDE DEF row
  <2>5. BoardKept
    <3>1. BoardShaped(Recorded(mem.board, row), mem.seq)
      BY <2>2, <2>3, <2>4, RecordedShaped
    <3>2. \A u \in told : OnBoard(mem.board, u) => OnBoard(Recorded(mem.board, row), u)
      BY <2>2, <2>3, <2>4, RecordedKeeps
    <3> QED
      BY <2>1, <3>1, <3>2 DEF BoardKept
  <2>6. Final(todo') = "hear"
    BY <2>1, Finals
  <2>7. TicketsKept /\ ReportKept
    BY <1>0, <2>1, <2>6 DEF TicketsKept, ReportKept, Reported, RecordInv, TicketsSound
  <2> QED
    BY <1>0, <2>1, <2>5, <2>7, FatesStay, FlightKept
<1>6. ASSUME NEW then \in {"carry", "hear"}, Rule(then)
      PROVE  Flight'
  <2>1. /\ Idle /\ mem.gates # <<>> /\ mem'.gates = Tail(mem.gates) /\ job' = Head(mem.gates)
        /\ mem'.life = mem.life /\ mem'.board = mem.board /\ mem'.seq = mem.seq
        /\ todo' = <<"save", then>> /\ disk' = disk /\ told' = told /\ asked' = asked
    BY <1>0, <1>6 DEF Rule, Shape, IsMemory, history
  <2>2. /\ Distinct(mem'.gates) /\ job'.n \notin HeldIn(mem'.gates)
        /\ HeldIn(mem'.gates) \subseteq HeldIn(mem.gates) /\ job'.n \in HeldIn(mem.gates)
    BY <1>0, <2>1, TailDistinct DEF RecordInv, TicketsSound
  <2>3. Final(todo') = then /\ todo' \notin ReportPlans
    BY <2>1, Finals, PlainPlans
  <2>4. TicketsKept
    <3>1. \A n \in HeldIn(mem.gates) : n \in DOMAIN asked /\ ~Given(n)
      BY <1>0 DEF TicketsSound
    <3> QED
      BY <2>1, <2>2, <2>3, <3>1 DEF TicketsKept
  <2> QED
    BY <1>0, <2>1, <2>3, <2>4, FatesStay, PlainFlies
<1>7. ASSUME Idle, disk' = disk, told' = told, asked' = asked, mem'.life = mem.life,
             mem'.gates = mem.gates, mem'.board = mem.board, mem'.seq = mem.seq,
             job' = NoJob, Final(todo') \in {"reload", "stop"}, todo' \notin ReportPlans
      PROVE  Flight'
  <2>1. ~Given(job'.n)
    BY <1>7, FlightFacts DEF NoJob, Given
  <2>2. TicketsKept
    BY <1>0, <1>7, <2>1 DEF TicketsKept, RecordInv, TicketsSound
  <2> QED
    BY <1>0, <1>7, <2>2, FatesStay, PlainFlies
<1>8. CASE AskReload
  <2>1. Final(todo') = "reload" /\ todo' \notin ReportPlans
    BY <1>8, Finals, PlainPlans DEF AskReload
  <2> QED
    BY <1>7, <1>8, <2>1 DEF AskReload, history
<1>9. ASSUME NEW p \in Paths, Handoff(p)
      PROVE  Flight'
  <2>1. /\ mem'.gates = mem.gates /\ mem'.life = mem.life
        /\ mem'.board = mem.board /\ mem'.seq = mem.seq
    BY <1>0, <1>9 DEF Handoff, Shape, IsMemory
  <2>2. Final(todo') = "stop" /\ todo' \notin ReportPlans
    BY <1>9, Finals, PlainPlans DEF Handoff
  <2> QED
    BY <1>7, <1>9, <2>1, <2>2 DEF Handoff, history
<1>10. CASE Quit
  <2>1. Final(todo') = "stop" /\ todo' \notin ReportPlans
    BY <1>10, Finals, PlainPlans DEF Quit
  <2> QED
    BY <1>7, <1>10, <2>1 DEF Quit, history
<1> QED
  BY <1>3, <1>4, <1>5, <1>6, <1>8, <1>9, <1>10 DEF Message, ApproveGate, RejectGate

LEMMA WorldFlies ==
  ASSUME FlightInv, World \/ Stop \/ UNCHANGED vars
  PROVE  Flight'
<1>0. /\ Shape /\ Boards /\ todo \in Plans /\ (todo # <<>> => Up) /\ RecordInv /\ MemFlown /\ DiskFlown
      /\ IdsKnown /\ mem.life \in Nat /\ disk.life \in Nat
  BY FlightFacts DEF FlightInv, IdsInv
<1>1. /\ Distinct(<<>>) /\ BoardShaped(<<>>, 0) /\ HeldIn(<<>>) = {}
  BY DEF Distinct, BoardShaped, HeldIn
<1>2. \A n : told' = told => (Given(n)' <=> Given(n))
  BY DEF Given
\* The deck's memory is lost, and no report is in hand that the fates do not settle.
<1>3. ASSUME mem' = Blank, todo' = <<>>, job' = NoJob, disk' = disk, told' = told, SameFates,
             \A t \in told : \A life : Reported(todo, job.n, t) => ~Flown(t, asked', life)
      PROVE  Flight'
  <2>1. mem'.gates = <<>> /\ mem'.board = <<>> /\ mem'.seq = 0 /\ ~Up'
    BY <1>3 DEF Blank, Up
  <2>2. Final(todo') = "none" /\ todo' \notin ReportPlans
    BY <1>3, Finals, PlainPlans
  <2>3. TicketsSound'
    <3>1. HeldIn(mem.gates)' = {} /\ HeldIn(disk.gates)' = HeldIn(disk.gates)
      BY <1>1, <1>3, <2>1 DEF HeldIn
    <3>2. \A n \in HeldIn(disk.gates) : n \in DOMAIN asked' /\ ~Given(n)'
      BY <1>0, <1>2, <1>3 DEF RecordInv, TicketsSound, SameFates
    <3>3. \A t \in told' : t.n \in DOMAIN asked'
      BY <1>0, <1>3 DEF RecordInv, TicketsSound, SameFates
    <3>4. Distinct(mem'.gates) /\ Distinct(disk'.gates)
      BY <1>0, <1>1, <1>3, <2>1 DEF RecordInv, TicketsSound
    <3> QED
      BY <2>2, <3>1, <3>2, <3>3, <3>4 DEF TicketsSound
  <2>4. BoardsShaped'
    BY <1>0, <1>1, <1>3, <2>1 DEF RecordInv, BoardsShaped
  <2>5. ReportKnown' /\ MemFlown'
    BY <2>1, <2>2 DEF ReportKnown, MemFlown
  <2>6. \A t \in told : Flown(t, asked', disk.life) => OnBoard(disk.board, t)
    BY <1>0, <1>3 DEF DiskFlown, SameFates
  <2>7. DiskFlown'
    BY <1>3, <2>6 DEF DiskFlown
  <2> QED
    BY <2>3, <2>4, <2>5, <2>7 DEF Flight, RecordInv
<1>4. CASE Stop
  <2>1. todo' = <<>> /\ job' = NoJob /\ Final(todo) = "stop"
    BY <1>0, <1>4, LastEffect DEF Stop
  <2>2. \A t \in told : ~Reported(todo, job.n, t)
    BY <2>1 DEF Reported
  <2> QED
    BY <1>3, <1>4, <2>1, <2>2, FatesStay DEF Stop, history
<1>5. CASE Crash
  <2>1. Becomes({job.n}, "cut")
    BY <1>5 DEF Crash
  <2>2. SameFates /\ \A t \in told : \A life : t.n = job.n => ~Flown(t, asked', life)
    BY <2>1, FatesBecome
  <2> QED
    BY <1>3, <1>5, <2>2 DEF Crash, Reported
<1>6. ASSUME ~Up, disk' = disk, told' = told, asked' = asked, todo' = todo, job' = job,
             Distinct(mem'.gates), HeldIn(mem'.gates) \subseteq HeldIn(disk.gates),
             BoardShaped(mem'.board, mem'.seq),
             \A t \in told : Flown(t, asked, mem'.life) => OnBoard(mem'.board, t)
      PROVE  Flight'
  <2>1. todo = <<>> /\ Final(todo) = "none" /\ todo \notin ReportPlans
    BY <1>0, <1>6, Finals, PlainPlans
  <2>2. TicketsSound'
    <3>1. HeldIn(disk.gates)' = HeldIn(disk.gates)
      BY <1>6 DEF HeldIn
    <3>2. \A n \in HeldIn(disk.gates) : n \in DOMAIN asked' /\ ~Given(n)'
      BY <1>0, <1>2, <1>6 DEF RecordInv, TicketsSound
    <3>3. HeldIn(mem.gates)' \subseteq HeldIn(disk.gates)
      BY <1>6 DEF HeldIn
    <3>4. Final(todo') = "none"
      BY <1>6, <2>1
    <3> QED
      BY <1>0, <1>6, <3>1, <3>2, <3>3, <3>4 DEF RecordInv, TicketsSound
  <2>3. BoardsShaped' /\ ReportKnown'
    BY <1>0, <1>6, <2>1 DEF RecordInv, BoardsShaped, ReportKnown
  <2>4. MemFlown'
    BY <1>6 DEF MemFlown
  <2>5. \A t \in told : Flown(t, asked, disk.life) => OnBoard(disk.board, t)
    BY <1>0, <2>1 DEF DiskFlown, Reported
  <2>6. DiskFlown'
    BY <1>6, <2>5 DEF DiskFlown
  <2> QED
    BY <2>2, <2>3, <2>4, <2>6 DEF Flight, RecordInv
<1>7. ASSUME NEW p \in Paths, Start(p)
      PROVE  Flight'
  <2>1. /\ ~Up /\ disk' = disk /\ told' = told /\ asked' = asked /\ todo' = todo /\ job' = job
        /\ mem'.gates = <<>> /\ mem'.board = <<>> /\ mem'.seq = 0 /\ mem'.life = lives + 1
    BY <1>7 DEF Start, Blank
  <2>2. \A t \in told : t.life # mem'.life
    BY <1>0, <2>1 DEF IdsKnown, Shape
  <2> QED
    BY <1>1, <1>6, <2>1, <2>2 DEF Flown
<1>8. ASSUME NEW p \in Paths, Resume(p)
      PROVE  Flight'
  <2>1. /\ ~Up /\ disk' = disk /\ told' = told /\ asked' = asked /\ todo' = todo /\ job' = job
        /\ mem'.gates = disk.gates /\ mem'.board = disk.board /\ mem'.seq = disk.seq
        /\ mem'.life = disk.life
    BY <1>0, <1>8 DEF Resume, Shape, IsMemory, history
  <2>2. todo = <<>> /\ \A t \in told : ~Reported(todo, job.n, t)
    BY <1>0, <2>1, Finals DEF Reported
  <2>3. \A t \in told : Flown(t, asked, disk.life) => OnBoard(disk.board, t)
    BY <1>0, <2>2 DEF DiskFlown
  <2> QED
    BY <1>0, <1>6, <2>1, <2>3 DEF RecordInv, TicketsSound, BoardsShaped
<1>9. ASSUME UNCHANGED <<mem, disk, todo, job, history>>
      PROVE  Flight'
  <2>1. RecordInv'
    BY <1>0, <1>9 DEF RecordInv, TicketsSound, BoardsShaped, ReportKnown, HeldIn, Given, history
  <2>2. MemFlown' /\ DiskFlown'
    BY <1>0, <1>9 DEF MemFlown, DiskFlown, Up, history
  <2> QED
    BY <2>1, <2>2 DEF Flight
<1> QED
  BY <1>4, <1>5, <1>7, <1>8, <1>9 DEF World, Edit, vars

LEMMA FlightInit == Init => FlightInv
<1> SUFFICES ASSUME Init PROVE FlightInv
  OBVIOUS
<1>1. /\ mem = Blank /\ disk = Blank /\ todo = <<>> /\ told = {} /\ asked = <<>>
      /\ mem.gates = <<>> /\ mem.board = <<>> /\ disk.gates = <<>> /\ disk.board = <<>>
  BY DEF Init, Blank
<1>2. TicketsSound
  BY <1>1, Finals DEF TicketsSound, Distinct, HeldIn, Given
<1>3. BoardsShaped /\ ReportKnown
  BY <1>1, PlainPlans DEF BoardsShaped, BoardShaped, ReportKnown
<1> QED
  BY <1>1, <1>2, <1>3, TicketInit DEF FlightInv, RecordInv, MemFlown, DiskFlown

LEMMA FlightStep == FlightInv /\ [Next]_vars => FlightInv'
<1> SUFFICES ASSUME FlightInv, [Next]_vars PROVE FlightInv'
  OBVIOUS
<1>1. Flight'
  BY HandlerFlies, MessageFlies, WorldFlies DEF Next
<1>2. TicketInv'
  BY TicketStep DEF FlightInv
<1> QED
  BY <1>1, <1>2 DEF FlightInv, Flight

\* In-flight tasks restore as in flight, whatever is approved, reloaded, handed
\* off, crashed and resumed: between two messages a task a worker was given in this
\* session, whose report the orchestrator was not told, is an open row of the board,
\* unless the deck died over its report or newer rows pushed it and all older ones
\* out (deliverDelegate, recordTask, resolveTask, applyResume).
THEOREM InFlightRestores == Spec => []InFlightRestored
<1>1. FlightInv => InFlightRestored
  <2> SUFFICES ASSUME FlightInv, Idle PROVE InFlightRestored
    BY DEF InFlightRestored
  <2>1. Up /\ \A t \in told : ~Reported(todo, job.n, t)
    BY Finals DEF Idle, Reported
  <2>2. \A t \in told : Flown(t, asked, mem.life) => OnBoard(mem.board, t)
    BY <2>1 DEF FlightInv, MemFlown
  <2> QED
    BY <2>2 DEF InFlightRestored, Flown, OnBoard
<1>2. Spec => []FlightInv
  BY FlightInit, FlightStep, PTL DEF Spec
<1> QED
  BY <1>1, <1>2, PTL

=============================================================================
