------------------------------ MODULE Supervision ------------------------------
(***************************************************************************)
(* How a task reaches a process: the deck's side of every agent's life in  *)
(* internal/deck/session.go (deliverDelegate, bootPanes, respawn,          *)
(* autoRestart, restart) and of a judge's rounds in judge.go.              *)
(*                                                                         *)
(* A task travels as a file, one per role and purpose, which the next task *)
(* overwrites; the process is told by a typed line to read it.  A process  *)
(* can end at any time, and the deck hears of it later, by a close message *)
(* that carries the generation of the pane that closed.                    *)
(***************************************************************************)
EXTENDS Integers, Sequences, FiniteSets

CONSTANTS
  Roles,         \* the workers: every role but the start role
  NoRole,        \* the empty role name: no judge configured
  Judge,         \* Judge[r]: the role that scores r's work, or NoRole
  Fresh,         \* roles respawned before every task
  Supervised,    \* roles with restart = "on-failure"
  RestartCap,    \* RestartCap[r]: r's restart_retries
  SpawnMayFail,  \* TRUE when a process may fail to start
  Patient,       \* the orchestrator waits for a role's work before delegating to it again
  Mortal,        \* bound: roles whose process can end or be restarted
  MaxTasks,      \* bound: how many tasks are delivered
  MaxGen         \* bound: how often a role is respawned

ASSUME SupervisionAssumption ==
  /\ NoRole \notin Roles
  /\ Judge \in [Roles -> Roles \cup {NoRole}]
  /\ \A r \in Roles : Judge[r] # r
  /\ Fresh \subseteq Roles
  /\ Supervised \subseteq Roles
  /\ Mortal \subseteq Roles
  /\ RestartCap \in [Roles -> Nat \ {0}]
  /\ SpawnMayFail \in BOOLEAN
  /\ Patient \in BOOLEAN
  /\ MaxTasks \in Nat
  /\ MaxGen \in Nat

VARIABLES
  rows,     \* the delegate rows, by task id
  file,     \* file[k][r]: the task in r's task file of kind k, 0 before the first
  entry,    \* entry[r]: what the deck keeps about r's pane
  child,    \* child[r]: the process behind the pane
  closing,  \* paneClosedMsgs to come: <<r, gen>>
  lost      \* history: tasks handed to a process that has ended since

vars == <<rows, file, entry, child, closing, lost>>

-----------------------------------------------------------------------------
(* The state's parts *)

bootMaxTries == 2

Kind == {"task", "verdict"}

\* builder is the role whose delegation the row serves: itself for a task, the
\* judged one for a verdict.
Row == [to : Roles, kind : Kind, builder : Roles, done : BOOLEAN]

\* pending stands for pendingInject: the line is the same for every task of a role.
Entry == [exited : BOOLEAN, gen : Nat, restarts : Nat, booted : BOOLEAN,
          bootOK : BOOLEAN, bootTries : 0 .. bootMaxTries, pending : BOOLEAN]

\* lines is what was typed into the process, of which it has read the first
\* read; knows are the tasks it found in its files; quiet says that its screen
\* came to rest after the start; code is its exit code.
Child == [up : BOOLEAN, code : {"zero", "other"}, quiet : BOOLEAN,
          lines : Seq(Kind \cup {"boot"}), read : Nat, knows : SUBSET Nat]

NewChild == [up |-> TRUE, code |-> "other", quiet |-> FALSE, lines |-> <<>>, read |-> 0, knows |-> {}]

Init ==
  /\ rows = <<>>
  /\ file = [k \in Kind |-> [r \in Roles |-> 0]]
  /\ entry = [r \in Roles |-> [exited |-> FALSE, gen |-> 0, restarts |-> 0, booted |-> FALSE,
                               bootOK |-> FALSE, bootTries |-> 0, pending |-> FALSE]]
  /\ child = [r \in Roles |-> NewChild]
  /\ closing = {}
  /\ lost = {}

-----------------------------------------------------------------------------
(* Handlers' shared parts *)

\* The tasks of r that its process knows, or finds in the files f when it acts
\* on the lines it has not read yet
Given(r, f) ==
  LET c == child[r] IN
  c.knows \cup {f[c.lines[i]][r] : i \in {j \in c.read + 1 .. Len(c.lines) : c.lines[j] \in Kind}}

\* injectLine: a line typed into a process that has ended is never read
Typed(c, line) == IF c.up THEN [c EXCEPT !.lines = Append(@, line)] ELSE c

\* findRole, and the role has not exited
Available(r) == r \in Roles /\ ~entry[r].exited

\* startRole
Spawns == IF SpawnMayFail THEN BOOLEAN ELSE {TRUE}

\* Mutant: a respawn forgets the held task
RespawnedForgetful(e, ok) ==
  IF ok THEN [e EXCEPT !.exited = FALSE, !.gen = @ + 1, !.booted = FALSE,
                       !.bootOK = FALSE, !.bootTries = 0, !.pending = FALSE]
        ELSE [e EXCEPT !.exited = TRUE]

Respawned(e, ok) ==
  IF ok THEN [e EXCEPT !.exited = FALSE, !.gen = @ + 1, !.booted = FALSE,
                       !.bootOK = FALSE, !.bootTries = 0]
        ELSE [e EXCEPT !.exited = TRUE]

\* Close and respawn: the old process ends, and its stream then sends the close
\* message of the generation it was started for.
Replace(r, e, f, ok) ==
  /\ entry' = [entry EXCEPT ![r] = Respawned(e, ok)]
  /\ child' = [child EXCEPT ![r] = IF ok THEN NewChild ELSE [@ EXCEPT !.up = FALSE]]
  /\ closing' = IF child[r].up THEN closing \cup {<<r, entry[r].gen>>} ELSE closing
  /\ lost' = lost \cup Given(r, f)

\* Typing a line at once: it can miss a process whose end is not noticed yet.
InjectNow(r, kind, id) ==
  /\ child' = [child EXCEPT ![r] = Typed(@, kind)]
  /\ lost' = IF child[r].up THEN lost ELSE lost \cup {id}
  /\ UNCHANGED <<entry, closing>>

\* The row under the next id and the file that carries it
Record(r, kind, builder, before) ==
  LET id == Len(before) + 1 IN
  /\ rows' = Append(before, [to |-> r, kind |-> kind, builder |-> builder, done |-> FALSE])
  /\ file' = [file EXCEPT ![kind][r] = id]

\* deliverDelegate: a fresh role is respawned and told when it has booted
DeliverDelegate(r, before, ok) ==
  /\ Len(before) < MaxTasks
  /\ Record(r, "task", r, before)
  /\ IF r \in Fresh
     THEN /\ entry[r].gen < MaxGen
          /\ Replace(r, [entry[r] EXCEPT !.restarts = 0, !.pending = TRUE], file, ok)
     ELSE InjectNow(r, "task", Len(before) + 1)

\* deliverJudgeRound: the judge is told at once, fresh or not
DeliverJudgeRound(r, before) ==
  /\ Len(before) < MaxTasks
  /\ Record(Judge[r], "verdict", r, before)
  /\ InjectNow(Judge[r], "verdict", Len(before) + 1)

\* A gate, a check, or an outcome told to the orchestrator: no task is handed out
Conclude(before) ==
  /\ rows' = before
  /\ UNCHANGED <<file, entry, child, closing, lost>>

-----------------------------------------------------------------------------
(* Handlers *)

\* dispatch, "delegate": a patient orchestrator keeps the protocol of its prompt
Delegate(r) ==
  /\ ~entry[r].exited
  /\ Patient => \A id \in DOMAIN rows : rows[id].builder = r => rows[id].done
  /\ \E ok \in Spawns : DeliverDelegate(r, rows, ok)

\* handleJudgedDone: a builder's report starts a judge round, a failing verdict
\* the next attempt, unless the one to be told has exited
WorkDone(r, id) ==
  /\ child[r].up
  /\ id \in child[r].knows
  /\ ~rows[id].done
  /\ LET b == rows[id].builder
         reported == [rows EXCEPT ![id].done = TRUE]
     IN \/ /\ rows[id].kind = "task" /\ Available(Judge[b])
           /\ DeliverJudgeRound(b, reported)
        \/ /\ rows[id].kind = "verdict" /\ Available(b)
           /\ \E ok \in Spawns : DeliverDelegate(b, reported, ok)
        \/ Conclude(reported)

\* Mutant: the held line is kept after it was typed
BootedRepeats(e, c, landed, overdue) ==
  CASE e.exited -> [e |-> e, c |-> c]
    [] ~e.exited /\ e.booted /\ e.bootOK -> [e |-> e, c |-> IF e.pending THEN Typed(c, "task") ELSE c]
    [] ~e.exited /\ ~e.booted -> [e |-> [e EXCEPT !.booted = c.quiet], c |-> IF c.quiet THEN Typed(c, "boot") ELSE c]
    [] ~e.exited /\ e.booted /\ ~e.bootOK -> [e |-> [e EXCEPT !.bootOK = landed \/ overdue], c |-> c]

\* Mutant: a boot line that never shows is waited for
BootedNeverGivesUp(e, c, landed, overdue) ==
  CASE e.exited -> [e |-> e, c |-> c]
    [] ~e.exited /\ e.booted /\ e.bootOK ->
         [e |-> [e EXCEPT !.pending = FALSE], c |-> IF e.pending THEN Typed(c, "task") ELSE c]
    [] ~e.exited /\ ~e.booted -> [e |-> [e EXCEPT !.booted = c.quiet], c |-> IF c.quiet THEN Typed(c, "boot") ELSE c]
    [] ~e.exited /\ e.booted /\ ~e.bootOK -> [e |-> [e EXCEPT !.bootOK = landed], c |-> c]

\* bootPanes for one pane: boot once it is quiet, verify, then type a held task
Booted(e, c, landed, overdue) ==
  CASE e.exited -> [e |-> e, c |-> c]
    [] ~e.exited /\ e.booted /\ e.bootOK ->
         [e |-> [e EXCEPT !.pending = FALSE], c |-> IF e.pending THEN Typed(c, "task") ELSE c]
    [] ~e.exited /\ ~e.booted ->
         IF c.quiet THEN [e |-> [e EXCEPT !.booted = TRUE, !.bootTries = 1], c |-> Typed(c, "boot")]
                    ELSE [e |-> e, c |-> c]
    [] ~e.exited /\ e.booted /\ ~e.bootOK ->
         IF landed \/ (overdue /\ e.bootTries >= bootMaxTries) THEN [e |-> [e EXCEPT !.bootOK = TRUE], c |-> c]
         ELSE IF overdue THEN [e |-> [e EXCEPT !.bootTries = @ + 1], c |-> Typed(c, "boot")]
         ELSE [e |-> e, c |-> c]

\* The tick; landed are the panes that show their boot line, overdue those whose
\* boot line was typed bootVerifyAfter ago.
BootPanes(landed, overdue) ==
  LET after == [r \in Roles |-> Booted(entry[r], child[r], r \in landed, r \in overdue)] IN
  /\ entry' = [r \in Roles |-> after[r].e]
  /\ child' = [r \in Roles |-> after[r].c]
  /\ lost' = lost \cup {file["task"][r] : r \in {s \in Roles : /\ entry[s].pending
                                                              /\ ~after[s].e.pending
                                                              /\ ~child[s].up}}
  /\ UNCHANGED <<rows, file, closing>>

\* Mutant: one restart too many
RestartsPastCap(r) == r \in Supervised /\ child[r].code # "zero" /\ entry[r].restarts <= RestartCap[r]

\* autoRestart: supervised, not a clean exit, and under the cap
Restarts(r) == r \in Supervised /\ child[r].code # "zero" /\ entry[r].restarts < RestartCap[r]

\* Mutant: the close message of a replaced pane counts
PaneClosedAnyGen(r, gen) ==
  /\ <<r, gen>> \in closing
  /\ IF Restarts(r)
     THEN /\ entry' = [entry EXCEPT ![r] = Respawned([@ EXCEPT !.restarts = @ + 1], TRUE)]
          /\ child' = [child EXCEPT ![r] = NewChild]
     ELSE /\ entry' = [entry EXCEPT ![r].exited = TRUE]
          /\ UNCHANGED child
  /\ closing' = closing \ {<<r, gen>>}
  /\ UNCHANGED <<rows, file, lost>>

\* Mutant: a supervised role that is not restarted is not marked
PaneClosedUnmarked(r, gen) ==
  /\ <<r, gen>> \in closing
  /\ entry' = IF gen = entry[r].gen /\ r \notin Supervised THEN [entry EXCEPT ![r].exited = TRUE] ELSE entry
  /\ closing' = closing \ {<<r, gen>>}
  /\ UNCHANGED <<rows, file, child, lost>>

\* paneClosedMsg: only the message of the present generation counts
PaneClosed(r, gen) ==
  /\ <<r, gen>> \in closing
  /\ IF gen = entry[r].gen
     THEN IF Restarts(r)
          THEN \E ok \in Spawns :
                 /\ entry' = [entry EXCEPT ![r] = Respawned([entry[r] EXCEPT !.exited = TRUE, !.restarts = @ + 1], ok)]
                 /\ child' = [child EXCEPT ![r] = IF ok THEN NewChild ELSE [@ EXCEPT !.up = FALSE]]
                 /\ lost' = lost \cup Given(r, file)
          ELSE /\ entry' = [entry EXCEPT ![r].exited = TRUE]
               /\ UNCHANGED <<child, lost>>
     ELSE UNCHANGED <<entry, child, lost>>
  /\ closing' = closing \ {<<r, gen>>}
  /\ UNCHANGED <<rows, file>>

\* restart: the user's, at any time
Restart(r) ==
  /\ r \in Mortal
  /\ entry[r].gen < MaxGen
  /\ \E ok \in Spawns : Replace(r, [entry[r] EXCEPT !.restarts = 0], file, ok)
  /\ UNCHANGED <<rows, file>>

\* The agent: its screen comes to rest, if only because it ended, it acts on the
\* next line typed, or its process ends.
Settle(r) ==
  /\ ~child[r].quiet
  /\ child' = [child EXCEPT ![r].quiet = TRUE]
  /\ UNCHANGED <<rows, file, entry, closing, lost>>

Read(r) ==
  LET c == child[r] IN
  /\ c.up
  /\ c.read < Len(c.lines)
  /\ child' = [child EXCEPT ![r].read = @ + 1,
                 ![r].knows = IF c.lines[c.read + 1] \in Kind
                              THEN @ \cup {file[c.lines[c.read + 1]][r]} ELSE @]
  /\ UNCHANGED <<rows, file, entry, closing, lost>>

Die(r, code) ==
  /\ r \in Mortal
  /\ child[r].up
  /\ entry[r].gen < MaxGen
  /\ child' = [child EXCEPT ![r].up = FALSE, ![r].code = code]
  /\ closing' = closing \cup {<<r, entry[r].gen>>}
  /\ lost' = lost \cup Given(r, file)
  /\ UNCHANGED <<rows, file, entry>>

Next ==
  \/ \E r \in Roles : Delegate(r) \/ Restart(r) \/ Settle(r) \/ Read(r)
  \/ \E r \in Roles, id \in DOMAIN rows : WorkDone(r, id)
  \/ \E landed, overdue \in SUBSET Roles : BootPanes(landed, overdue)
  \/ \E message \in closing : PaneClosed(message[1], message[2])
  \/ \E r \in Roles, code \in {"zero", "other"} : Die(r, code)

Spec == Init /\ [][Next]_vars

-----------------------------------------------------------------------------
(* Properties *)

TypeOK ==
  /\ rows \in Seq(Row)
  /\ file \in [Kind -> [Roles -> 0 .. Len(rows)]]
  /\ entry \in [Roles -> Entry]
  /\ child \in [Roles -> Child]
  /\ closing \subseteq Roles \X Nat
  /\ lost \subseteq 0 .. Len(rows)
  /\ \A r \in Roles : entry[r].restarts <= RestartCap[r] /\ child[r].read <= Len(child[r].lines)

\* A role that the deck counts as exited has no running process: a close message
\* of a replaced pane never marks its successor (gen in watchPane and the
\* paneClosedMsg handler).
ExitedIsDead == \A r \in Roles : entry[r].exited => ~child[r].up

\* A process that ended unnoticed has its close message to come, under the
\* generation the deck holds: no role stays available for ever behind a dead
\* pane (watchPane, respawn).
DeadIsNoticed ==
  \A r \in Roles : ~child[r].up /\ ~entry[r].exited => <<r, entry[r].gen>> \in closing

\* The supervisor only ever replaces a process that has ended: it never kills a
\* running one for the death of its predecessor (autoRestart).
RestartsOnlyTheDead ==
  [][\A r \in Roles : entry'[r].restarts > entry[r].restarts => ~child[r].up]_vars

\* An open task is in the hands of its role's process, or in the file the process
\* is told or will be told to read, or was given to a process that has ended.  For a
\* judge: a builder's judge "makes the deck score every delegation through that role"
\* (docs/teams.md:135), and the orchestrator is told to delegate to several in parallel
\* (prompt.go:73).  For a fresh role: "the task waits for the fresh pane's boot, and
\* nothing is lost because tasks travel as files" (docs/configuration.md:31).
NothingLost ==
  \A id \in DOMAIN rows :
    LET r == rows[id].to IN
    \/ rows[id].done
    \/ id \in lost
    \/ id \in Given(r, file)
    \/ entry[r].pending /\ rows[id].kind = "task" /\ file["task"][r] = id

TasksTyped(c) == {i \in DOMAIN c.lines : c.lines[i] = "task"}

\* A fresh role's process is told of one task only, and only after its boot line:
\* every task starts with clean context (deliverDelegate, bootPanes).
CleanContext ==
  \A r \in Fresh :
    /\ Cardinality(TasksTyped(child[r])) <= 1
    /\ \A i \in TasksTyped(child[r]) : \E j \in 1 .. i - 1 : child[r].lines[j] = "boot"

=============================================================================
