------------------------------- MODULE Session --------------------------------
(***************************************************************************)
(* The deck across its own crashes: the roster and the approval queue, the *)
(* snapshot .choragos/session.json, resume and handoff                     *)
(* (internal/deck/resume.go, handoff.go; reload, rosterAdd, approveGate    *)
(* and deliverDelegate in session.go).                                     *)
(*                                                                         *)
(* The deck can die between any two of a handler's effects on the world: a *)
(* write of the snapshot, a line typed into a pane, a block appended to    *)
(* the configuration.  `todo' lists the effects the running handler still  *)
(* has to make, in the order the code makes them; what it does to memory   *)
(* up to the next one is part of a step, for a crash forgets it.  The loop *)
(* thread takes the next message when todo is empty.                       *)
(***************************************************************************)
EXTENDS Integers, Sequences, FiniteSets, SequencesExt

CONSTANTS
  Names,         \* the workers' names; the start role always runs and is left out
  Gated,         \* roles with approve = true
  Proposable,    \* the names the orchestrator proposes roles under
  Edited,        \* <<p, r>>: the user adds role r to file p and removes it from there
  Paths,         \* configuration files
  Team,          \* Team[p]: the role blocks of p at first
  NoPath,        \* no configuration
  NeedsApprove,  \* NeedsApprove[p]: [roster] approve of p
  Patient,       \* the orchestrator makes no proposal while one waits at the gate
  BoardCap,      \* boardCap
  MaxAsked,      \* bound: how many delegations and proposals are asked for
  MaxLives,      \* bound: how many sessions are started afresh
  MaxSlots       \* bound: a roster of this length is not reloaded any more

ASSUME SessionAssumption ==
  /\ Gated \subseteq Names
  /\ Proposable \subseteq Names
  /\ Edited \subseteq Paths \X Names
  /\ Team \in [Paths -> Seq(Names)]
  /\ NoPath \notin Paths
  /\ NeedsApprove \in [Paths -> BOOLEAN]
  /\ Patient \in BOOLEAN
  /\ BoardCap \in Nat \ {0}
  /\ MaxAsked \in Nat
  /\ MaxLives \in Nat
  /\ MaxSlots \in Nat

VARIABLES
  mem,      \* the session's state in memory, Blank while no deck runs
  disk,     \* the snapshot: a mem of some moment, Blank before the first
  file,     \* the role blocks of each configuration file
  todo,     \* the effects the running handler has still to make
  job,      \* what that handler is about
  lives,    \* history: how many sessions were started afresh
  asked,    \* history: each request, at its ticket: the life it was made in, its fate
  told      \* history: the tasks typed into a worker's pane

history == <<lives, asked, told>>
vars == <<mem, disk, file, todo, job, history>>

\* A roster slot; a tombstone keeps its index (entry, SnapRole)
Slot(name) == [name |-> name, gone |-> FALSE]

\* A row of the task board (taskEvent)
Row(kind, id) == [kind |-> kind, id |-> id, open |-> kind = "delegate"]

\* A request and its ticket, in the approval queue or in hand (pendingGate)
Request(kind, to, n) == [kind |-> kind, to |-> to, n |-> n, id |-> 0]

\* Nothing is being handled
NoJob == [kind |-> "none", to |-> NoPath, n |-> 0, id |-> 0]

\* life names the fresh start this session goes back to; taskSeq counts within it
Blank == [life |-> 0, path |-> NoPath, seq |-> 0, slots |-> <<>>, board |-> <<>>,
          gates |-> <<>>, handoff |-> FALSE]

Up == mem.life > 0
Idle == Up /\ todo = <<>>

\* findRole finds a slot that is no tombstone
LiveIn(slots) == {slots[i].name : i \in {j \in DOMAIN slots : ~slots[j].gone}}
Live == LiveIn(mem.slots)

NamesOf(slots) == [i \in DOMAIN slots |-> slots[i].name]

\* What of seq is in S, in its order
Among(seq, S) == FoldLeft(LAMBDA acc, x : IF x \in S THEN Append(acc, x) ELSE acc, <<>>, seq)

\* Mutant: one row too many is kept
RecordedOneMore(board, row) ==
  LET all == Append(board, row)
  IN  SubSeq(all, IF Len(all) > BoardCap THEN Len(all) - BoardCap ELSE 1, Len(all))

\* recordTask keeps the newest boardCap rows
Recorded(board, row) ==
  LET all == Append(board, row)
  IN  SubSeq(all, IF Len(all) > BoardCap THEN Len(all) - BoardCap + 1 ELSE 1, Len(all))

-----------------------------------------------------------------------------
(* The effects of a handler *)

\* The handler's next effect is this one, and the rest follows
Does(effect) == todo # <<>> /\ Head(todo) = effect
Goes == todo' = Tail(todo) /\ job' = IF Len(todo) = 1 THEN NoJob ELSE job

\* What became of the requests with these tickets: "settled" when the outcome was
\* typed into the orchestrator's pane, "unheard" when the deck gave it up with a
\* line in its log only, "cut" when it died in its handler
Becomes(tickets, fate) ==
  asked' = [n \in DOMAIN asked |-> IF n \in tickets THEN [asked[n] EXCEPT !.fate = fate] ELSE asked[n]]

\* Mutant: the worker hears of its task before the board is saved
IssueTellsFirst(r, n) ==
  /\ mem' = [mem EXCEPT !.seq = mem.seq + 1,
                        !.board = Recorded(mem.board, Row("delegate", mem.seq + 1))]
  /\ job' = [kind |-> "delegate", to |-> r, n |-> n, id |-> mem.seq + 1]
  /\ todo' = <<"tell", "save">>

\* deliverDelegate up to its first effect: a fresh id, an open row
Issue(r, n) ==
  /\ mem' = [mem EXCEPT !.seq = mem.seq + 1,
                        !.board = Recorded(mem.board, Row("delegate", mem.seq + 1))]
  /\ job' = [kind |-> "delegate", to |-> r, n |-> n, id |-> mem.seq + 1]
  /\ todo' = <<"save", "tell">>

\* saveSnapshot: temporary file and rename, so it happens or it does not
Save ==
  /\ Does("save")
  /\ disk' = mem
  /\ Goes
  /\ UNCHANGED <<mem, file, history>>

\* injectLine: the worker learns its task and the id to report it under
Tell ==
  /\ Does("tell")
  /\ told' = told \union {[life |-> mem.life, id |-> job.id, n |-> job.n]}
  /\ Goes
  /\ UNCHANGED <<mem, disk, file, lives, asked>>

\* injectLine and injectOrchestrator: the orchestrator learns the outcome
Hear ==
  /\ Does("hear")
  /\ Becomes({job.n}, "settled")
  /\ Goes
  /\ UNCHANGED <<mem, disk, file, lives, told>>

\* appendRoleBlock
AppendBlock ==
  /\ Does("append")
  /\ file' = [file EXCEPT ![mem.path] = Append(file[mem.path], job.to)]
  /\ Goes
  /\ UNCHANGED <<mem, disk, history>>

\* Mutant: the newest open row is closed, whatever its id
ResolveNewest ==
  /\ Does("resolve")
  /\ LET open == {i \in DOMAIN mem.board : mem.board[i].open}
     IN  /\ mem' = [mem EXCEPT !.board =
                      [i \in DOMAIN mem.board |->
                         [mem.board[i] EXCEPT !.open =
                            mem.board[i].open /\ \E j \in open : j > i]]]
         /\ todo' = <<"save", "hear">>
         /\ UNCHANGED job
  /\ UNCHANGED <<disk, file, history>>

\* Mutant: the save after a row is closed is forgotten
ResolveUnsaved ==
  /\ Does("resolve")
  /\ mem' = [mem EXCEPT !.board = [i \in DOMAIN mem.board |->
                [mem.board[i] EXCEPT !.open = mem.board[i].open /\ mem.board[i].id # job.id]]]
  /\ Goes
  /\ UNCHANGED <<disk, file, history>>

\* resolveTask: the newest open row with the reported id is closed, and saved
Resolve ==
  /\ Does("resolve")
  /\ LET open == {i \in DOMAIN mem.board : mem.board[i].open /\ mem.board[i].id = job.id}
     IN  IF open = {}
         THEN mem' = mem /\ Goes
         ELSE /\ mem' = [mem EXCEPT !.board =
                           [i \in DOMAIN mem.board |->
                              [mem.board[i] EXCEPT !.open =
                                 mem.board[i].open /\ i # CHOOSE k \in open : \A j \in open : j <= k]]]
              /\ todo' = <<"save", "hear">>
              /\ UNCHANGED job
  /\ UNCHANGED <<disk, file, history>>

\* Mutant: dropped roles leave the roster
RetiredRemoved(slots, names) == SelectSeq(slots, LAMBDA slot : slot.name \in Range(names))

\* reload's convergence on the file: roles it dropped become tombstones, then
\* each block without a live slot is spawned at the end, in file order
Retired(slots, names) ==
  [i \in DOMAIN slots |-> [slots[i] EXCEPT !.gone = slots[i].gone \/ slots[i].name \notin Range(names)]]

Converged(slots, names) ==
  FoldLeft(LAMBDA acc, name : IF name \in LiveIn(acc) THEN acc ELSE Append(acc, Slot(name)),
           Retired(slots, names), names)

\* reload: gates of roles without a live slot are dropped with a warning; the
\* handler's own proposal is answered by the notice of the team's change, if the
\* change added its role
Reload ==
  /\ Does("reload")
  /\ LET slots == Converged(mem.slots, file[mem.path])
         dropped == {i \in DOMAIN mem.gates : mem.gates[i].to \notin LiveIn(slots)}
         added == job.to \in LiveIn(slots) \ Live
     IN  /\ mem' = [mem EXCEPT !.slots = slots,
                               !.gates = Among(mem.gates, {g \in Range(mem.gates) : g.to \in LiveIn(slots)})]
         /\ todo' = IF added THEN <<"save", "hear">> ELSE <<"save">>
         /\ Becomes({mem.gates[i].n : i \in dropped} \union (IF added THEN {} ELSE {job.n}), "unheard")
  /\ UNCHANGED <<disk, file, job, lives, told>>

\* approveGate past its save, for the gate it took: the delegation is delivered
\* if its role still runs; a proposal is written to the file and the roster follows
CarryOut ==
  /\ Does("carry")
  /\ \/ /\ job.kind = "delegate" /\ job.to \in Live
        /\ Issue(job.to, job.n)
        /\ UNCHANGED asked
     \/ /\ job.kind = "delegate" /\ job.to \notin Live
        /\ Becomes({job.n}, "unheard")
        /\ Goes
        /\ UNCHANGED mem
     \/ /\ job.kind = "roster"
        /\ todo' = <<"append", "reload">>
        /\ UNCHANGED <<mem, job, asked>>
  /\ UNCHANGED <<disk, file, lives, told>>

\* closeAll past its save
Stop ==
  /\ Does("stop")
  /\ mem' = Blank
  /\ Goes
  /\ UNCHANGED <<disk, file, history>>

-----------------------------------------------------------------------------
(* What the loop thread takes up *)

\* A request and the life it belongs to are remembered under the next ticket
Ask == Len(asked) < MaxAsked /\ asked' = Append(asked, [life |-> mem.life, fate |-> "open"])
Ticket == Len(asked) + 1

\* Mutant: a new gate waits for the next save
HoldUnsaved(request) ==
  /\ mem' = [mem EXCEPT !.gates = Append(mem.gates, request)]
  /\ job' = NoJob
  /\ todo' = <<>>

\* A request is held for the user
Hold(request) ==
  /\ mem' = [mem EXCEPT !.gates = Append(mem.gates, request)]
  /\ job' = request
  /\ todo' = <<"save">>

\* dispatch "delegate", for one target
Delegate(r) ==
  /\ Idle /\ r \in Live
  /\ Ask
  /\ IF r \in Gated THEN Hold(Request("delegate", r, Ticket)) ELSE Issue(r, Ticket)
  /\ UNCHANGED <<disk, file, lives, told>>

\* rosterAdd: refused when the name is taken, else held, or applied at once
Propose(r) ==
  /\ Idle /\ r \in Proposable /\ r \notin Live
  /\ Patient => \A i \in DOMAIN mem.gates : mem.gates[i].kind # "roster"
  /\ Ask
  /\ IF NeedsApprove[mem.path]
     THEN Hold(Request("roster", r, Ticket))
     ELSE /\ job' = Request("roster", r, Ticket)
          /\ todo' = <<"append", "reload">>
          /\ UNCHANGED mem
  /\ UNCHANGED <<disk, file, lives, told>>

\* dispatch "work-done" of a task that some worker was given in this life; bound:
\* what was reported to the end is not reported again
WorkDone(t) ==
  /\ Idle /\ t.life = mem.life /\ asked[t.n].fate # "settled"
  /\ mem' = [mem EXCEPT !.board = Recorded(mem.board, Row("work-done", t.id))]
  /\ job' = [kind |-> "report", to |-> NoPath, n |-> t.n, id |-> t.id]
  /\ todo' = <<"save", "resolve", "hear">>
  /\ UNCHANGED <<disk, file, history>>

\* approveGate and rejectGate take the oldest gate off the queue and save first
Rule(then) ==
  /\ Idle /\ mem.gates # <<>>
  /\ mem' = [mem EXCEPT !.gates = Tail(mem.gates)]
  /\ job' = Head(mem.gates)
  /\ todo' = <<"save", then>>
  /\ UNCHANGED <<disk, file, history>>

ApproveGate == Rule("carry")
RejectGate == Rule("hear")

\* The reload verb and key
AskReload ==
  /\ Idle /\ Len(mem.slots) < MaxSlots
  /\ job' = NoJob /\ todo' = <<"reload">>
  /\ UNCHANGED <<mem, disk, file, history>>

\* A handoff to configuration p ends, its document written or the wait over
\* (finishHandoff): the snapshot of the quit is stamped for the next session.
\* While it is pending, p is remembered and a second request refused, and nothing
\* else looks at it, so startHandoff is part of this step.
Handoff(p) ==
  /\ Idle
  /\ mem' = [mem EXCEPT !.path = p, !.handoff = TRUE]
  /\ job' = NoJob /\ todo' = <<"save", "stop">>
  /\ UNCHANGED <<disk, file, history>>

Quit ==
  /\ Idle
  /\ job' = NoJob /\ todo' = <<"save", "stop">>
  /\ UNCHANGED <<mem, disk, file, history>>

-----------------------------------------------------------------------------
(* The world around the deck *)

\* The process dies; whatever was not on disk is gone
Crash ==
  /\ Up
  /\ Becomes({job.n}, "cut")
  /\ mem' = Blank /\ job' = NoJob /\ todo' = <<>>
  /\ UNCHANGED <<disk, file, lives, told>>

\* serve: startPanes runs one pane per role block; the snapshot stays as it is
Start(p) ==
  /\ ~Up /\ lives < MaxLives
  /\ lives' = lives + 1
  /\ mem' = [Blank EXCEPT !.life = lives + 1, !.path = p,
                          !.slots = [i \in DOMAIN file[p] |-> Slot(file[p][i])]]
  /\ UNCHANGED <<disk, file, todo, job, asked, told>>

\* serve --resume: LoadSnapshot refuses another configuration, and one that lost
\* a live role unless a handoff led to it; spawnResume keeps every slot and adds
\* the blocks whose names the snapshot never held; applyResume restores the rest
Resume(p) ==
  /\ ~Up /\ disk.life > 0 /\ disk.path = p
  /\ disk.handoff \/ LiveIn(disk.slots) \subseteq Range(file[p])
  /\ LET new == Among(file[p], Names \ Range(NamesOf(disk.slots)))
     IN  mem' = [disk EXCEPT !.handoff = FALSE,
                             !.slots = Retired(disk.slots, file[p])
                                         \o [i \in DOMAIN new |-> Slot(new[i])]]
  /\ UNCHANGED <<disk, file, todo, job, history>>

\* The user adds a role block to a configuration file, or removes one
Edit(p, r) ==
  /\ file' = [file EXCEPT ![p] = IF r \in Range(file[p])
                                 THEN Among(file[p], Names \ {r})
                                 ELSE Append(file[p], r)]
  /\ UNCHANGED <<mem, disk, todo, job, history>>

-----------------------------------------------------------------------------

Init ==
  /\ mem = Blank /\ disk = Blank
  /\ file = Team
  /\ todo = <<>> /\ job = NoJob
  /\ lives = 0 /\ asked = <<>>
  /\ told = {}

Handler ==
  \/ Save \/ Tell \/ Hear \/ AppendBlock \/ Resolve \/ Reload \/ CarryOut \/ Stop

Message ==
  \/ \E r \in Names : Delegate(r) \/ Propose(r)
  \/ \E t \in told : WorkDone(t)
  \/ ApproveGate \/ RejectGate \/ AskReload
  \/ \E p \in Paths : Handoff(p)
  \/ Quit

World ==
  \/ Crash
  \/ \E p \in Paths : Start(p) \/ Resume(p)
  \/ \E e \in Edited : Edit(e[1], e[2])

Next == Handler \/ Message \/ World

Spec == Init /\ [][Next]_vars

-----------------------------------------------------------------------------
(* Properties *)

Kinds == {"none", "delegate", "roster", "report"}
Requests == [kind : Kinds, to : Names \union {NoPath}, n : Nat, id : Nat]
Slots == [name : Names, gone : BOOLEAN]
Rows == [kind : {"delegate", "work-done"}, id : Nat, open : BOOLEAN]
Memories == [life : Nat, path : Paths \union {NoPath}, seq : Nat, slots : Seq(Slots),
             board : Seq(Rows), gates : Seq(Requests), handoff : BOOLEAN]

\* What can be left of a handler's effects
Plans == {<<>>, <<"save">>, <<"tell">>, <<"hear">>, <<"carry">>, <<"stop">>, <<"reload">>,
          <<"save", "tell">>, <<"save", "hear">>, <<"save", "carry">>, <<"save", "stop">>,
          <<"append", "reload">>, <<"resolve", "hear">>, <<"save", "resolve", "hear">>}

\* Every variable holds what its comment says, and the board is capped.
TypeOK ==
  /\ mem \in Memories /\ disk \in Memories
  /\ Len(mem.board) <= BoardCap
  /\ file \in [Paths -> Seq(Names)]
  /\ todo \in Plans
  /\ job \in Requests
  /\ lives \in Nat
  /\ asked \in Seq([life : Nat, fate : {"open", "settled", "unheard", "cut"}])
  /\ told \subseteq [life : Nat, id : Nat, n : Nat]

\* A task id names one task: whatever crashes and resumes lie between, no two
\* tasks typed into workers' panes carry one id of one session (taskSeq is
\* restored by applyResume, deliverDelegate saves before it types).
IdsUnique ==
  \A t, u \in told : t.life = u.life /\ t.id = u.id => t = u

\* In-flight tasks restore as in flight: a task some worker was given, and whose
\* report the orchestrator was not told, is an open row of the board, whatever
\* crashes and resumes lie between, unless the deck died over its report or
\* newer rows pushed it and all older ones out (recordTask, resolveTask,
\* applyResume).
InFlightRestored ==
  Idle =>
    \A t \in told :
      t.life = mem.life /\ asked[t.n].fate \notin {"settled", "cut"} =>
        \/ \E i \in DOMAIN mem.board : mem.board[i] = Row("delegate", t.id)
        \/ /\ Len(mem.board) = BoardCap
           /\ \A i \in DOMAIN mem.board :
                mem.board[i].kind = "delegate" => mem.board[i].id > t.id

\* No request vanishes: each one made in this session is held at a gate, was
\* typed into its worker's pane, had its outcome told, or is one the deck died
\* over or gave up with a line in its log (dispatch, approveGate, reload,
\* applyResume).
Accounted ==
  Idle =>
    \A n \in DOMAIN asked :
      asked[n].life = mem.life =>
        \/ \E i \in DOMAIN mem.gates : mem.gates[i].n = n
        \/ \E t \in told : t.n = n
        \/ asked[n].fate # "open"

\* A deck that takes the next message could die and be resumed without losing
\* a row, a gate or an id: the snapshot is up to date, or still another
\* session's and there is nothing to lose (saveSnapshot at every change).
Synced ==
  Idle =>
    IF disk.life = mem.life
    THEN disk.board = mem.board /\ disk.gates = mem.gates /\ disk.seq = mem.seq
    ELSE mem.board = <<>> /\ mem.gates = <<>> /\ mem.seq = 0

\* Indices stay valid: while one session lasts, through crashes, reloads,
\* resumes and handoffs, a slot keeps its index and its name and a tombstone
\* stays one, from each snapshot to the next (SnapRole, spawnResume, reload).
SlotsStable ==
  [][disk'.life = disk.life =>
       \A i \in DOMAIN disk.slots :
         /\ i \in DOMAIN disk'.slots
         /\ disk'.slots[i].name = disk.slots[i].name
         /\ disk.slots[i].gone => disk'.slots[i].gone]_vars

\* What can be held for the user, for the bound on requests
Held == [kind : {"delegate", "roster"}, to : Names, n : 1..MaxAsked, id : {0}]

\* What the ledger sees of the snapshot
OnDisk == [life |-> disk.life, seq |-> disk.seq, board |-> disk.board,
           gates |-> disk.gates, team |-> LiveIn(disk.slots)]

Promise == INSTANCE Ledger WITH Requests <- Held, saved <- OnDisk

\* Handlers look atomic to whoever resumes the session: on disk it moves by one
\* whole operation at a time, of this session or the first of a younger one, and
\* a worker hears of a task only when its row is the newest on disk, under an id
\* larger than all it was told (saveSnapshot before every outside effect).
WriteAhead == Promise!Spec

\* docs/protocol.md:82: of a roster proposal, "The orchestrator hears the outcome
\* either way".  The code does not keep this (README, section 3): reload drops the
\* gate of every role without a live slot, and a proposed role has none.
ProposalHeard ==
  [][\A i \in DOMAIN mem.gates :
       mem.gates[i].kind = "roster" => asked'[mem.gates[i].n].fate # "unheard"]_vars

=============================================================================
