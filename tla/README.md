# Choragos: specifications, model checks and proofs

Choragos runs a team of coding agents in terminal panes. One of them, the
orchestrator, delegates tasks to the others over a local socket; the deck
delivers each task, watches the worker, has its result checked and judged, asks
the user where the configuration says so, and tells the orchestrator what came
of it. This directory holds TLA+ modules of that program, the configurations
that check them with TLC, and proofs checked by TLAPS. `PROJECT.json` maps every
definition to the Go lines it models and lists runs, findings, hazards and
theorems.

To check a run: `tlc -config judged.cfg MCDelegation`. To check the proofs:
`tlapm Delegation_proofs.tla`, and likewise for the other `_proofs` modules.

## 1. Inventory of the system

All deck state belongs to one loop thread: `RunServer`'s select loop when the
deck runs headless (`internal/deck/server.go`), the bubbletea `Update` in the
terminal UI (`deck.go`). Goroutines (sockets, pane readers, check commands,
tickers, health probes) only post messages to it. A handler runs to its end
before the next message is applied, so the concurrency of this program is the
order in which messages arrive, and the time between a handler that starts
something and the message that reports its end.

| Component | State | Operations | Talks to |
|---|---|---|---|
| Delegation core (`session.go`, `judge.go`, `check.go`, `ownership.go`, `worktree.go`) | task counter, board of rows, judge loops by task id, approval queue, owned-file snapshots | `dispatch` delegate / work-done, `handleJudgedDone`, `finishCheck`, `approveGate`, `rejectGate`, `checkTimeouts`, `failLoopsFor`, `queueMerge` | panes (typed lines), git, the user, the socket |
| Roster and reload (`session.go`) | entries with a tombstone flag, the configuration file | `rosterAdd`, `applyRosterAdd`, `reload`, `retire` | delegation core, panes |
| Supervision (`session.go`) | per entry: `exited`, `gen`, `restarts`, `booted`, `pendingInject` | `paneClosedMsg`, `autoRestart`, `respawn`, `bootPanes` | panes, delegation core |
| Limits (`session.go`, `usage.go`) | per row its start, per entry `paused`, `pausedAt`, `overBudget` | `togglePause`, `creditPause`, `checkTimeouts`, `logTokens`, `checkBudgets` | supervision, gateway |
| Terminal UI (`deck.go`, `pager.go`, `memory.go`) | overlays, modes, a selection, the focused role | `handleKey`, `View`, `handleMouse` | every command of the user's |
| Snapshot, resume, handoff (`resume.go`, `handoff.go`) | `session.json`, handoff deadline | `saveSnapshot`, `LoadSnapshot`, `spawnResume`, `applyResume`, `startHandoff`, `checkHandoff` | every handler that changes board or gates |
| Session loop and server (`server.go`) | attached client, per-pane wiring and replay sequence | attach, detach, forward output, apply client events | client |
| Attach client and wire (`client.go`, `wire.go`, `internal/wire`) | a mirrored roster, board and gate list | state frames, remote panes, gate keys | server |
| Pane (`internal/pane`) | ring of output, sequence number, tee, bounded input queue | `Stream`, `RingBytes`, `SetTee`, `Input`, `Close` | agent process |
| Checkpoints, rollback (`internal/checkpoint`, `rollback.go`) | git refs, a private index | `Snapshot`, `Prune`, `Apply` | git |
| Tiling window manager (`internal/wm`) | a tree of splits | split, close, focus, resize, serialize | terminal UI |
| Control socket (`internal/ipc`) | a socket, an instance lock | `Serve`, `Send` | command line, session loop |
| Sphragis gateway (`internal/sphragis`) | a child process, its health | start, probe, restart | `gatewayBlocked` |
| Metrics, report (`metrics.go`, `report.go`) | counters, log offsets | read-only | |
| Configuration, prompts, command line, desktop app | | parsing, text | |

What makes each one hard, and what correctness means for it:

* **Delegation core.** A delegation to a judged role changes its id every round;
  builder reports, check results, verdicts, timeouts, pane exits and the user's
  rulings arrive in any order and more than once. Correct means: no delegation
  is lost or settled twice; nothing passes without its check and its judge; the
  round budget is kept; nothing gated is delivered without an approval; accepted
  work of a worktree role reaches the main tree or a person.
* **Roster and reload.** Entries are addressed by index and by name, loops and
  gates by name only. Correct means: a tombstoned role strands no loop and no
  gate; an approval of one proposal does not touch another.
* **Supervision.** Messages of a replaced process arrive after its replacement.
  Correct means: a close message of an old generation does nothing; a crash loop
  ends at the cap; a task held for a boot prompt reaches a process.
* **Limits.** Pauses, restarts, resumes and late costs meet clocks and latches.
  Correct means: a clock counts the time worked, a timeout comes when it is up
  and only then, a budget fires once.
* **Snapshot, resume, handoff.** The file is behind the state in memory at some
  points. Correct means: no id is issued twice across a crash; what the board
  and the queue promised is still promised afterwards.
* **Server, client, wire.** The client acts on a view that is one message old.
  Correct means: a ruling applies to the gate the user saw; replay and live
  output join without gap or overlap.
* **Pane.** Reader thread and loop thread share ring, sequence and tee. Correct
  means: the ring is the last `ringCap` bytes written; a snapshot with its
  sequence number splits the output exactly; a transcript goes on where it ended;
  a dropped line takes its Enter with it.
* **Checkpoints.** Files change between a question and its answer. Correct means:
  a rollback leaves what the checkpoint holds, and whatever it replaced is in a
  snapshot taken before.
* **Window manager.** Roles come and go under a tree that is kept from one UI to
  the next. Correct means: tiles partition the screen, each can be reached with
  the focus keys, and the focus is the role that keys go to.
* **Terminal UI.** Keys and drawing walk the overlays in different orders, and the
  session changes under both. Correct means: a key decides what the user sees.

The hazards, each at its line, are listed in `PROJECT.json`.

## 2. Modules

| Module | Contents |
|---|---|
| `Delegation` | the delegation core as a state machine, and its properties |
| `MCDelegation` | values for TLC, the fair specification, the liveness property |
| `Delegation_proofs` | type correctness, the loop/board agreement, what a step may deliver, judges that exit; no judged delegation is lost and none takes more rounds than it may; verdicts, reports, plain tasks and merges accounted for; proved |
| `Supervision`, `MCSupervision` | panes, generations, boot, task files: how a task reaches a process; values, fairness, liveness |
| `Supervision_proofs` | generations, exit flags and processes agree; clean contexts; no task lost on its way, proved |
| `Session`, `MCSession` | roster, approval queue, board and id counter across crashes, resumes and handoffs |
| `Session_proofs` | snapshot up to date, ids unique, slots stable, no request lost, tasks restore; `Session` implements `Ledger`; proved |
| `Ledger` | the abstract specification of the snapshot: what it promises to whoever resumes |
| `Limits`, `MCLimits` | timeouts, budgets and pauses with a clock |
| `Limits_proofs` | clocks exact, timeouts just, budgets once, proved |
| `Attach`, `MCAttach` | the detached session, its client, and the channels between them |
| `Attach_proofs` | one client at a time, its mirror is current, all output arrives once and in order, proved |
| `Pane`, `MCPane` | one pane's ring, transcript and input queue |
| `Pane_proofs` | the ring is the tail of the output, no Enter without its line, the transcript goes on where it ended, proved |
| `Checkpoint`, `MCCheckpoint` | snapshots, pruning and rollbacks on a store of trees |
| `Checkpoint_proofs` | a rollback leaves the checkpoint and at most renamed files beside it, and can be undone, proved |
| `Tiling`, `MCTiling` | the layout tree, focus and kept layouts |
| `Keys`, `MCKeys` | the overlays and who gets a key |
| `UI_proofs` | of `Tiling`: one focus, one tile per role, a partition of the screen, no tile stranded, closing keeps the others; of `Keys`: selections are rows, keys decide what is shown; proved |

`Delegation`, `Supervision`, `Session` and `Limits` look at the same handlers from
four sides, each with what the others leave open. `Delegation` takes a delivered
task for received and follows what becomes of it. `Supervision` follows the
delivery and leaves open what a report leads to (`WorkDone` may start a judge
round, a retry, or nothing). `Session` follows neither loops nor processes: it cuts
the handlers that write the snapshot into their effects and lets the deck die
between any two. `Limits` adds the clock. `Attach` takes the handlers as messages
that may change the roster, a pane or a gate, and is about what their ends do; it
composes server, panes' output streams, wire and client. `Pane` is one pane from
inside, `Tiling` and `Keys` are the UI over the panes, with or without a server.

### Delegation

| Variable | Go | Abstraction |
|---|---|---|
| `board` | `session.board`, rows of kind `delegate`, and `taskSeq` | the id is the position; `taskSeq` is the length; `boardCap` is not modelled |
| `loops` | `session.loops` | keyed by the in-flight id, as in the code |
| `gates` | `session.gates` | the kind is a tag; roster-add gates belong to `Session` |
| `checks` | goroutines started by `startCheck`, and their queued `checkMsg` | the set of ids |
| `pane` | `entry.exited`, and whether a `paneClosedMsg` of the current `gen` is still to come | `live`, `dead` (died, not yet noticed), `failed` (respawn failed, old message to come), `exited` |
| `blocked` | `gatewayBlocked()` | flips freely |
| `ahead`, `landed` | a role's branch relative to `HEAD`, what was merged | sets of task ids that made a commit |
| `asked` | none | bounds the orchestrator's commands |
| `settled` | none | history: the outcome of which task, on which row's report, and whether the orchestrator was there to be told |
| `unplanned` | none | history: tasks for whose merge git could not be asked (`planMerge` failed; the code logs it) |

| Action | Code |
|---|---|
| `Delegate` | `dispatch` "delegate", `deliverDelegate`, `maybeStartLoop` |
| `WorkDone` | `dispatch` "work-done", `maybeCommitWorktree`, `handleJudgedDone`, `scoreVerdict`, `ownershipReason`, `queueMerge` |
| `FinishCheck` | `finishCheck` |
| `ApproveGate`, `RejectGate` | `approveGate`, `rejectGate` and the `resolve*` functions |
| `Timeout` | `checkTimeouts` for one row |
| `Die`, `PaneClosed`, `Restart` | the child's end, `paneClosedMsg` with `autoRestart` and `failLoopsFor`, the user's restart |
| `GatewayFlip` | a health probe's result, or the enforcement toggle |

An action is a whole handler. Handlers call each other (`deliverJudgeRound` can
end in `fallbackGate`, `scoreVerdict` in `queueMerge`), so the operators for the
shared parts take the values their caller has already assigned.

Choices the model leaves open, because they come from outside the deck: the
verdict in a report (invalid, passing, failing), the result of a check (could not
run, exit 0, other), whether an owned file was changed, whether a worktree is
dirty, whether git refuses, whether a process can be started. A `delegate`
command to several roles is a run of single ones (each is handled in turn and
none depends on the next); several overdue rows in one tick are successive
timeouts. A `work-done` with an unknown id changes none of the modelled state
and is left out. How often an agent reports an id (`reports` in its row) is bounded,
by id, by `Resend`; the theorems are for any bound.

Not in `Delegation`: time (a timeout may happen to any open row of a role that
has one) and pauses, which belong to `Limits`; the restart count (a supervised
role may or may not be respawned), which belongs to `Supervision`; `boardCap`,
roster changes and persistence, which belong to `Session`.

### Supervision

| Variable | Go | Abstraction |
|---|---|---|
| `rows` | `session.board`, and the id in the task file | the id is the position; `builder` says for whom a judge works |
| `file` | `worker-task-<role>.md`, `judge-task-<role>.md` | the id of the task the file holds |
| `entry` | `entry.exited`, `gen`, `restarts`, `booted`, `bootOK`, `bootTries`, `pendingInject` | the held line is a flag: its text is the same for every task of a role |
| `child` | the process behind `entry.pane` | lines typed, how far it acted on them, the task ids it found in its files |
| `closing` | `paneClosedMsg`s sent or to be sent by `watchPane` | a set of role and generation |
| `lost` | none | history: tasks whose process has ended |

| Action | Code |
|---|---|
| `Delegate`, `WorkDone` | `dispatch`, `handleJudgedDone` down to `deliverDelegate`, `deliverJudgeRound`, `deliverRetryRound` |
| `BootPanes` | one tick of `bootPanes` over all panes; which boot lines show on screen and which waits are over is open |
| `PaneClosed`, `Restart` | `paneClosedMsg` with `autoRestart`; the user's restart |
| `Settle`, `Read`, `Die` | the agent: its screen comes to rest, it acts on the next typed line and reads the file as it is then, it ends |

The ending of a pane and the message of it are separate: in between, the deck
types into a dead process. `Close` of a running pane in `respawn`'s callers leads
to a message of the old generation, which the handler must drop. Not in this
module: pause (`Limits`), reload, a task file that cannot be written (the code then types
the error instead), a line dropped by a full input queue.

### Session

| Variable | Go | Abstraction |
|---|---|---|
| `mem` | `session.panes` (names and tombstones), `board`, `gates`, `taskSeq`, `cfg.Path`, `handoffDone` | the worker slots only; a row is its kind, id and openness |
| `disk` | `.choragos/session.json` | the value `mem` had when it was written |
| `file` | the configuration files | the names of their role blocks, in order, duplicates included |
| `todo`, `job` | the rest of the running handler | its effects still to come, in the order of the code |
| `lives` | none | fresh starts; `mem.life` tells whose ids `taskSeq` counts |
| `asked`, `told` | none | history: each request and what became of it; the ids typed into panes |

| Action | Code |
|---|---|
| `Delegate`, `Propose`, `WorkDone` | `dispatch` up to its first effect (`deliverDelegate`, `rosterAdd`) |
| `ApproveGate`, `RejectGate` | the queue's head is taken off; `CarryOut` is the rest of `approveGate` |
| `Save` | `saveSnapshot` |
| `Tell`, `Hear` | a line typed to the worker; to the orchestrator |
| `AppendBlock`, `Reload` | `appendRoleBlock`, `reload` (of `applyRosterAdd`, or asked for through `AskReload`) |
| `Resolve` | `resolveTask` |
| `Handoff`, `Quit`, `Stop` | `finishHandoff`, `closeAll` |
| `Start`, `Resume` | `startPanes`; `LoadSnapshot`, `spawnResume`, `applyResume` |
| `Crash`, `Edit` | the process dies; the user adds or removes a role block |

A message is handled when `todo` is empty, and its handler then runs to its end
or the deck dies in it, as on the loop thread; only the user's edits come in
between. The snapshot's replacement is one step, because `saveSnapshot` writes
another file and renames it. A `work-done` may name a task whose worker died with
the deck: a person can send it. The model takes writes of the snapshot to
succeed (the code logs a failure and goes on), commands to be in `PATH`, and the
orchestrator to be alive when it is told something; the line held for a fresh role
is `Supervision`'s. Judge loops, ownership
snapshots and the layout are not part of it; the first two are not persisted.

### Ledger and its refinement

`Ledger` has two variables: `saved`, the session on disk, and `told`, the tasks
workers were given. `Save` moves `saved` by one whole operation (a task given, a
report recorded, its task closed, a request held, ruled on, or dropped with its
role), or replaces it by a younger session's first. `Tell` gives a worker the
newest task on disk, once, under an id larger than all told before.

`Session` implements it under
`INSTANCE Ledger WITH Requests <- Held, saved <- OnDisk`, where `OnDisk` is the
view of `session.json`: life, counter, rows, gates and live names. `told` is
`Session`'s own. That a handler is several effects with crashes between them is
invisible in `Ledger`: this is what `saveSnapshot` before every outside effect is
for. `WriteAhead == Promise!Spec` is checked in the run `session` and proved in
`Session_proofs`.

### Limits

| Variable | Go | Abstraction |
|---|---|---|
| `now` | the wall clock | ticks |
| `board` | `taskEvent.at`, `done`, `timedOut` of the delegate rows | the role and the start |
| `entry` | `exited`, `gone`, `paused`, `pausedAt`, `overBudget` | of the newest entry with the role's name, which is the one `findRole` finds; `pausedAt` 0 is no time |
| `limit` | `role.timeout` | ticks |
| `cap`, `cost` | `role.budget`, what the gateway's log adds up to | small numbers |
| `read` | the message of `logTokens` on its way to the loop | the costs it read, which can be old when they arrive |
| `worked`, `strayed`, `raised` | none | history: ticks a row's role was not paused; rows whose pause ended otherwise than by a resume, or whose clock went on between two decks; roles that may run over their budget again |

| Action | Code |
|---|---|
| `TogglePause`, `Credit` | `togglePause`, `creditPause` |
| `CheckTimeouts`, `CheckBudgets` | the ticker's calls |
| `Fetch`, `Spend` | `logTokens`; tokens the gateway counts (external) |
| `Deliver`, `Report` | `deliverDelegate` (with the respawn of a fresh role), `resolveTask` |
| `PaneClosed`, `Restart` | `autoRestart`, `restart`, through `respawn`, which forgets the pause and keeps the latch |
| `Reload`, `Retire`, `Return` | `reload`: a new timeout or budget, a role the file drops, one it has again |
| `Resume`, `GatewayRestart` | `fromWireTasks` and a new deck's entries, some time later; counters that start again |

Time passes only when no timeout is due (`Due`): the ticker runs `checkTimeouts` at
each tick before the next (the code looks every few seconds; what is late by that is
not told apart). A row keeps its start while its role is off the roster and while no
deck runs, so that this time is on its clock when the role or the deck is back. A reload
that changes what a role runs waits for its tasks, so that its new process meets no
running clock; it is a `Restart` here.

### Attach

| Variable | Go | Abstraction |
|---|---|---|
| `size`, `gen` | `srv.panes`, the process in each | a respawn is a new number |
| `out`, `tee`, `ended`, `held` | the ring with its sequence number, `SetTee`, end of output, what `Stream` is about to post | a chunk is its number |
| `msgs` | the loop's channel | bounded by `MsgCap`, who posts to a full one waits |
| `client`, `snap`, `wired` | `srv.client`, `srv.snap`, `srv.wired` | |
| `gates` | `session.gates` | numbers |
| `pc`, `todo` | where the running handler is at its end | `ensureTees`, `resetClientPane` and `syncClient` are steps of their own, because streams run meanwhile |
| `conn`, `sopen`, `reading`, `down`, `up` | the connection at both ends, reader goroutines, the socket's two directions | `WireCap` frames each way |
| `view`, `known`, `shown`, `upd` | the client's panes, roster, gates; the frame its update loop applies | output is applied by the reader at once, other frames by `Update` |
| `base`, `asked`, `sent` | none | history and bounds |

| Action | Code |
|---|---|
| `Output`, `PostChunk`, `StreamEnds` | `Stream`: into the ring and, if teed, to the loop |
| `Gated`, `Delivered`, `ReloadAdds`, `ReloadChanges` | the handlers that change a gate, a pane, the roster |
| `Forward`, `PaneClosed`, `AttachClient`, `ClientGone`, `Answer`, `RestartKey`, `Detached` | `handle`, `attach`, `handleClient` by message |
| `EnsureTees`, `ResetPane`, `SyncClient` | the end of a handler |
| `Tick` | the ticker, with nothing else to do |
| `ReadEvent`, `ReadFails` | the connection's reader goroutine |
| `Dial`, `Welcomed`, `Leaves`, `ReadFrame`, `Apply` | `wire.Dial`, `Replay`, `RunAttach`, `clientReader`, `applyRemoteEvent` |
| `AnswerShown`, `RestartShown`, `Detach` | the client's keys, sent as events |

### Pane

| Variable | Go | Abstraction |
|---|---|---|
| `buf`, `head`, `full` | `ring` | a line stands for its bytes and is known by its number |
| `seq`, `tsSeq`, `flushing` | `seq`, `tsSeq`; a flush that has read the count and not yet the ring | |
| `text` | none | what line *n* says, one of `Texts`; a line is `Blank` or not |
| `cleared` | what the terminal still has in its history | lines before the last clear are gone |
| `tsTail`, `log` | `tsTail`, the transcript file | `Gap` is the marker |
| `inbox`, `enters`, `got` | the input channel, the 200 ms timers, what the agent read | |
| `open`, `gen`, `lines` | the pane, which one it is; a bound | |

`Output`, `Clear`, `FlushTranscript`, `FlushLines`, `Inject`, `Enter`, `Read`,
`Close` and `Respawn` are `Stream`, a screen clear, the two halves of
`flushTranscript`, `injectLine`, its goroutine, `writeLoop`, `Close` and
`startRole`.

### Checkpoint

`work` is the workspace (file to contents), `refs` the checkpoints under
`refs/choragos/checkpoints`, by name: second and label, so that two of one second and label are
one. `ask` is, per asker (the deck's overlay and the command line), the rollback
under way: asked, restored, done. `Deliver`, `Merge` and `NewSession` are
`snapshotTask`, `snapshotMerge` and `initCheckpoints` (which prunes); `PruneCommand`,
`AskDeck`, `AskCommand` and `Close` the commands and the overlay; `Restore` and
`Delete` the two halves of `Apply`; `Write` and `Tick` are the world. git is a store
of trees; that ignored files are outside of it is taken for granted. `Extras` is
`Diff`'s list of files to delete: git's `--diff-filter=A`, without the files git pairs with
a missing one as renamed. Which of them it pairs is left open (`Renamed`), within what
`Similar` contents allow and one to one.

### Tiling

A tree is a function from paths to nodes, a path a sequence of "a" and "b". The
operators of the tree (`SplitTree`, `CloseTree`, `Cycle`, `Divider`, `Narrow`,
`Rect`, `Neighbour`, `Marshal`, `UnmarshalFocus`) are the functions of `wm`; the actions
are what `deck.go` does with it: window keys, resize mode, mouse, ctrl+o, automatic
focus, reloads, closing and opening the UI with the layout kept. Ratios are
twentieths; the code's floats can differ by a cell where a divider falls exactly
between two.

### Keys

`pager`, `ho`, `board`, `help`, `rb` are the overlays, `searching`, `resizeMode`,
`prefixed`, `broadcast` the modes (`resizeMode` is `resizing` of `Tiling` under a name
of its own, so that one module can prove about both). `Screen` is the order of `View`,
`Taker` that of `handleKey`; there is one action for each overlay's keys and for each
mode, `Scroll` and `NextUI` stand for the keys before all overlays, and `Arrives` and
`Synced` for what the session or the server changes between two keys.

## 3. Runs

Every run but the two `v_` ones passes, with all states explored. TLC's counts of
distinct states are given to the nearest thousand.

| Run | Instance | States | Shows |
|---|---|---|---|
| `judged` | a gated, fresh, supervised builder with check and judge, a judge with a timeout that owns a file; fail-closed gateway; 2 delegations, 2 rounds | 2 560 000 | loop/board agreement, no loop lost, round budget, an exit of the judge moves its loops to the user, entry approvals, the judge sees work after a check result only |
| `merges` | three workers: one with check, judge and 2 rounds, a judged worktree role with merge mode gate, a plain one with auto; git may fail; 2 tasks, the first id reported up to twice | 1 311 000 | the judge decides, builder reports held, plain tasks accounted for, accepted commits landed or in front of a person, every review ends |
| `supervised` | a fresh, supervised builder and its judge; 2 tasks, 2 generations, 1 restart, starts may fail | 249 000 | no open task is lost on the way to a process, clean context, exit flags, processes and close messages agree, a held task is typed in the end |
| `session` | two configurations, one role gated, one proposed at runtime; 2 requests, 2 fresh starts, any number of crashes, resumes, handoffs and edits | 4 217 000 | `Session` implements `Ledger`; ids stay unique, in-flight tasks restore, no request vanishes, roster indices never move |
| `attached` | two connections, a role that writes and is respawned, one that joins; a gate, a key | 3 678 000 | output arrives once and in order, the mirror is current, one client |
| `limits` | a budgeted, supervised role that the user and its budget pause, a fresh one; 3 ticks, timeouts of 1 to 3, 2 tasks, 1 reload or restart of deck or gateway, after which a dropped role may come back | 3 243 000 | clocks exact, timeouts just, budgets once |
| `panes` | 6 lines that say one of two things, one of them blank; ring of 4, history of 3 rows, screen of 1, reads of up to 5 lines, queue of 2, anchor of 2, 2 panes | 2 909 000 | the ring is the tail of the output, the transcript goes on, no Enter without its line |
| `rollbacks` | two files, two contents, 2 checkpoints kept, 2 sessions, 2 rollbacks, 2 writes | 4 333 000 | a rollback leaves the checkpoint and at most renamed files, and can be undone |
| `tiles` | up to three roles, a large terminal and one too small for two tiles | 389 000 | tiles partition the screen, none is stranded, the focus is the active role, closing keeps the others |
| `keys` | two gates, two rows | 3 000 | keys decide what is shown, selections are rows |
| `v_shared_judge` | two builders, one judge, nobody crashes | | a judge task overwrites the one before it |
| `v_wrong_gate` | one client, two gates, two keys | | a verdict meets a gate the client has not shown |

The `v_` runs end in a counterexample. Each checks one sentence of the
repository's documents against the code; "findings" in `PROJECT.json` quotes the
sentence and names the line.

**More sentences the code does not keep.** Each is stated as a definition beside the
properties it belongs to and has no run of its own. To see the counterexample, add
the definition to the configuration named, as an INVARIANT or, where it is an
action formula, a PROPERTY.

| Definition | Configuration | Sentence | What happens |
|---|---|---|---|
| `NothingWhileBlocked` (action) | `judged` | "fail closed: no gateway, no orchestration" (`session.go:332`; `README.md:50`) | `approveGate` delivers without asking `gatewayBlocked` |
| `NeverASilentPass` | `merges` | "Never a silent pass" (`docs/design-check-gate.md:10`) | a builder's second report during its check finds the loop and is scored as a verdict (`judge.go:124`); `JudgeDecides` is what is left |
| `PassIsTold` | `merges` with `Mortal = {orch}` | "Score at or above `judge_pass`: the orchestrator is told the task passed" (`docs/protocol.md:149`) | an orchestrator that has exited is told nothing, then or after its restart (`judge.go:251`) |
| `MergedOnlyAccepted` | `merges` | "Merge happens only after the loop accepts" (`docs/design-role-worktrees.md:129`) | the tasks of a role share its branch: the merge of one that was accepted lands the commits of the other, which waits for its judge or at an ownership gate (`worktree.go:200`) |
| `ProposalHeard` (action) | `session` | "The orchestrator hears the outcome either way" (`docs/protocol.md:82`) | a reload drops the gates of roles without a live slot, and a proposed role has none (`session.go:1166`) |
| `EveryPaneTeed` | `attached` (the counterexample is easier to read without SYMMETRY) | "keeps every live pane teed into the loop" (`server.go:358`) | a fresh role respawned by a delegation has no tee until the next sync; a client sees its output then, from the ring |
| `TombstoneUntiled` | `tiles` | "an exited pane whose tile is closed" (`docs/design-session-server.md:59`) | a kept layout, and ctrl+o, tile a tombstone |
| `GateIsModal` | `keys` | "approval outranks the other overlays" (`deck.go:977`) | it is drawn above the board and the help, which still get the keys |
| `UndoNameHolds` | `rollbacks` | "`choragos rollback pre-rollback-T3` undoes it" (`docs/configuration.md:294`) | the same rollback asked for again, and not confirmed, takes the name: it now leads to the state after |
| `CreatedDeleted` | `rollbacks` | "`rollback` restores files (deleting ones the task created)" (`docs/configuration.md:291`) | git's diff pairs a file that was moved with its old name and does not call the new one added (`checkpoint.go:177`): it is there under both names afterwards |
| `PausedNeverCounts` | `limits` | "paused time never counts toward `timeout`" (`docs/keybindings.md:38`; `session.go:742`) | a new process in the pane, a new entry of the role or a new deck forgets the pause and credits nothing; a row's clock also goes on while no deck runs |
| `SkipIsMarked` | `panes` | "so long sessions survive in full", and a `--- transcript gap ---` marker where they do not (`docs/protocol.md:221`) | where lines are alike, the latest match of the anchor is too late a place (`pane.go:300`), and what is before it is lost unmarked |
| `LossIsMarked` | `panes` | the same | what the ring loses before the first flush has no anchor to be missed from, and is lost unmarked |

Others show only in a reading of the model:

* In `Delegation`: a second `work-done` with the id of a task held at an ownership
  gate passes the ownership check, whose snapshot the first one consumed, and is
  forwarded, as is one of a builder's round that is over (`PlainAccounted` and
  `BuilderReportHeld` say what is left: something is told, and only a repeated report is
  told twice or past the judge); a judge's verdict that arrives after its timeout finds
  no loop and is reported to the orchestrator like a worker's report ("the orchestrator
  hears only outcomes", `docs/protocol.md`); a supervised judge whose respawn fails is
  exited while its loops stay in the judge phase until its timeout, if it has one
  (`autoRestart` skips `failLoopsFor` on that path, so `ExitedJudgeGates` is checked
  with an unsupervised judge); when `planMerge`'s query of git fails, accepted work
  stays on its branch and nobody is told (`unplanned` in `MergeAccounted`).
* In `Session`: role names do not stay unique. `rosterAdd` looks for the name among
  the live slots only and `approveGate` does not look again, so a second block of
  one name reaches the file when the same name is proposed twice before the first
  ruling, when the user adds it while a proposal waits, or when the role is a
  tombstone that a resume did not spawn (`spawnResume` counts tombstones as seen,
  although `docs/long-running-sessions.md` has every added role spawn); the next
  plain start runs a pane for each block, and `findRole` finds the first.
* In `Limits`: a resume restores rows without `timedOut` (`client.go:170`), so that a
  timeout fires again, against "fires once per delegation" (`session.go:758`); a
  restart of the gateway takes the counted costs below the cap and re-arms the
  budget, against "Fires once per session" (`docs/configuration.md:38`).
* In `Pane`: two lines injected within 200 ms are submitted as one.

**Bounds.**

* `Delegation`: `MaxAsked` delegations, `Resend[id]` reports of an id, the roles in
  `Mortal`, and the cap of the judge rounds. Two delegations are the fewest that let
  one loop's events meet another's (one judge scoring two builders, one branch with
  commits of two tasks, a queue with two gates in it); two rounds are the fewest
  with a retry, so that an id changes owner builder to judge to builder. Two asked
  delegations of two rounds make eight rows. In `merges` the first id may be reported
  twice, with two of three workers: that is a builder's report repeated in its build, its
  check, its retry round and after its outcome, and a plain task's repeated at its
  ownership gate and after it.
* `Supervision`: two tasks are a task and its judge round or the next task; two
  generations are enough for the message of a pane to arrive after its successor was
  started, and, with one restart, for the budget to be used up and reset by a
  delivery. `Patient` is no bound but an assumption about the orchestrator: its
  prompt tells it to wait for a worker's report before delegating to it again, and
  `NothingLost` does not hold for one that does not.
* `Session`: two requests are a proposal and a delegation to the role it added, or
  two tasks in flight; `BoardCap` is three so that rows are pushed out by two tasks
  and their reports; two fresh starts leave a snapshot of another session behind;
  `MaxSlots` stops reloads asked for by the user once the roster has two slots
  (proposals grow it further).
* `Attach`: two connections are a client and one that comes while it is there, or
  after; two chunks of one process and a second process put a chunk of the old one
  behind the reset; channels of one and two make every writer wait.
* `Limits`: with a timeout of two and three ticks a pause fits before, inside and
  after a task, and a task can be given inside a pause; a timeout can be cut to one tick,
  which the work has then reached or passed, or raised to three; two caps are a raise
  and a cut. One role is paused while the other's clock runs. One change of the
  configuration or restart of the deck or gateway is the fewest with each kind; what two
  do together, and two paused roles, are left to the proofs.
* `Pane`: reads of one to five lines on a ring of four cover a write that ends on
  the boundary, one that goes round it and one longer than the ring; six lines go
  round it. Two texts make every pattern of equal and blank lines an anchor of two can
  be confused by; a history of three rows is shorter than the ring. A queue of two is
  full with one line and its Enter.
* `Checkpoint`: a prune to two loses one of three; two writes fall between question
  and answer, and between the two halves of a rollback.
* `Tiling`: three roles make trees of three tiles, the fewest in which a sibling that
  moves up is itself a split. `Keys`: more gates or rows give no other screen.

**Deadlock** is checked in `judged`, `merges`, `supervised`, `session`, `tiles` and
`keys`: agents may stay silent forever, but some role is in `Mortal` and the user may
restart it, the user may edit a file, keys can be pressed. In the other runs the
bounded counters (ticks, writes, chunks, lines, keys, connections) run out, and the
system then really stops: nobody is left to do anything.

**Symmetry** is used in `attached` (connections) and `rollbacks` (files, contents),
whose properties are invariants and an action property, never liveness. In the
other runs every role has its own part.

**Fairness.** `FairSpec` of `MCDelegation`, used by `merges` for `ReviewEnds`: weak
fairness of `FinishCheck`, because `startCheck` runs the command under
`check_timeout` and its goroutine sends the result whichever way the command ends;
weak fairness of `Timeout`, because the ticker calls `checkTimeouts` for as long as
the deck runs. Both are used in every round: the builder there has a check and a
second round, and its judge a timeout. Nothing is assumed about agents reporting,
processes living, or the user answering; a paused judge, for which the code suspends its timeout, is in
`Limits` and not in this run.

`FairSpec` of `MCSupervision`, used by `supervised` for `HeldTaskTyped`: weak fairness of
a tick in which every wait for a boot line is over and none shows, of the delivery
of close messages, and of an agent's screen coming to rest after its start
(`bootSettle` asks for a quiet screen and has no limit of its own). Nothing is
assumed about agents acting on lines, or boot lines showing.

## 4. Proofs

`Delegation_proofs` proves, for every team, every configuration and every bound:

* `TypeCorrect`: `Spec => []TypeOK`.
* `LoopsOnTheirTasks`: `Spec => []LoopOnItsTask`. A loop is keyed by one row, that
  row was delivered for the loop to the role whose turn it is, it is open exactly
  while that role owes a report, a loop in the check phase has a check running,
  and a loop in the judge phase has not timed out.

Both follow from `Invariance`, `Spec => []IInv` with
`IInv == TypeOK /\ LoopOnItsTask`. Neither part is inductive alone: the loop map
is typed by the board's rows, so a loop that moves to a new row must be known to
sit on an existing one, and that in turn needs the rows' types. The argument goes
by helper: one lemma for each operator that delivers, gates, passes or retries a
loop, one for each action, and `NextIInv` collects them.

The same module proves what a step may deliver:

* `OnlyApprovedEnter`: `Spec => EntryApproved`, and `JudgedWorkIsChecked`:
  `Spec => CheckedFirst`. A step adds one row to the board at most, and `StepDelivers`
  names its three sources: a first delivery, by the orchestrator's command or by the
  approval of a gate; a retry, to the loop's builder; and a judge's task, which for a
  builder with a check comes only from a result that has been consumed. `LoopOnItsTask`
  says that the loop behind a result is the one the row is delivered for.
* `ExitedJudgesGate`: `Spec => []ExitedJudgeGates`, if no judge is supervised. The
  hypothesis cannot go: section 3 tells of a supervised judge whose respawn fails,
  which is counted as exited and leaves its loops waiting. Without it, `failLoopsFor`
  visits every loop in the handler that marks the role exited, and `deliverJudgeRound`
  asks first.

Its second part follows one delegation from hand to hand. It proves, from `Invariance`:

* `EveryLoopAccounted`: `Spec => []NoLoopLost`. Every delegation to a judged role
  is, at every moment, in exactly one of three places, once: the loop map, the
  approval queue, or the history of outcomes told to the orchestrator.

`NoLoopLost` speaks of what is stored between handlers; inside a handler a loop is
for a moment in no place, taken from the map and not yet put back. The proof
follows it there: `Nowhere` is the state of a loop in a handler's hand, the
`Take*` lemmas move a loop from a place to the hand, the `Put*` and `Rule*`
lemmas from the hand to one place, and every action composes one of each.
`AInv` adds what the count alone does not know (`Placed`): an id in a gate names a
row of the board, a row that is done holds no owned-file snapshot, and the first
row of a loop holds one only while the loop is in the map, so that an ownership
gate over a plain report is never about the row that stands for a loop. It also
needs that a judge is not its own builder, which the configuration refuses, and,
for an exit that moves many loops at once, that `failLoopsFor` visits each loop
once.

The same module proves, from `IInv`, `AInv` and `CInv` (`Within`):

* `RoundsAreCapped`: `Spec => []RoundsCapped`. Failed checks and failed verdicts
  together never take a delegation to its builder more often than `judge_rounds`
  allows.

The cap counts rows of the board, the code counts `round` in the loop. `Counts` ties
the two: a loop in the map knows at least as many rounds as its builder has had,
and its round is within the cap. A retry adds one row and one to the round, and asks
for the cap first; that no *second* loop adds rows for the same delegation is
`AInv`, and that the judge's tasks are not counted is again that no judge is its own
builder. A row or a loop that changes in any other way is the same to the count
(`Alike`, `From`), which settles most actions.

Four more theorems are about reports, however often an agent sends them:

* `TheJudgeDecides`: `Spec => []JudgeDecides`, `BuilderReportsAreHeld`:
  `Spec => []BuilderReportHeld`, from `RInv` (`Told`): every gate and every fact of the
  history agrees with the board, a closed row has been reported, and a round of a builder
  that still owes its report is in the map. So a first report that finds no loop is not a
  builder's, and one that finds a loop in the judge phase is the judge's. A report that
  finds a loop in the check phase is of a row that was reported before (`Repeated`), which
  is the one other way to a verdict that `JudgeDecides` names.
* `PlainTasksAccounted`: `Spec => []PlainAccounted`. An open task without a loop is
  nowhere; a closed one is held at an ownership gate or has had an answer, and one place
  in all while it was reported once (`PlainAt`); `GateTold` keeps a fallback gate's id, and
  `FactTold` an outcome's, apart from it. A report sent again only adds places.
* `AcceptedWorkMerges`: `Spec => []MergeAccounted`. A branch could gain a commit of
  accepted work after the merge mode has run. By a first report it does not, because
  `AcceptedIsReported`: all the work of an accepted task has been reported, or a round of
  its builder would be in flight, and `EveryLoopAccounted` says that a loop with an outcome
  is not. A repeated report may (`JustReported`), and `MergeAccounted` is about rows
  reported once. A merge that could not be planned is on record in `unplanned`.

`StepKind` carries all four: every action ages rows and takes loops out of the map
(`Prepared`), and then does one of six things with what it holds, or answers the oldest
gate in one of four ways. The four invariants are preserved over these ten kinds and
never over the actions.

`Supervision_proofs` proves, from the invariant `PInv` (`PanesAgree`):

* `ExitedNeverRuns`: `Spec => []ExitedIsDead`, `DeathsAreNoticed`:
  `Spec => []DeadIsNoticed`, and `NoLiveRestart`: `Spec => RestartsOnlyTheDead`.

The three stand or fall with `MessagesOld`: a close message to come is of an
older generation than the deck holds, or of the present one, whose process has
then ended. A respawn keeps it because the generation grows by one in the same
handler that starts the process; a failed respawn keeps it because the old
process is dead and its message may still count. `RespawnKeeps` is that argument
once, for all four callers of `respawn`. Of a process the proof needs only that
it has a life (`HasLife`), so nothing about files or lines enters.

The same module proves of what the processes are told:

* `FreshStartsClean`: `Spec => []CleanContext`, without a hypothesis. `Clean` adds what
  the deck remembers of a fresh role's process: while a task is held for it, it has
  heard of none, and one that counts as booted has its boot line. It holds because a
  delivery to a fresh role always goes through a new process, and a boot types what
  is held only.
* `NoTaskIsLost`: if `Patient` and `Unshared`, then `Spec => []NothingLost`. Both
  hypotheses are about the setting, and neither can go. An orchestrator that
  delegates to a busy builder overwrites its task file (`Patient`). Two builders
  that share a judge can start rounds over each other, which overwrites the judge's
  (`Unshared`); the finding of `v_shared_judge` is that case. Under the two,
  `LedgerInv` holds: a delegation has one open row at most, the builder's or its
  judge's (`OneOpen`), and a file carries a row of its kind and role (`FileShape`), so
  a file that is overwritten carried a closed row. `NextMoves` reduces every action
  to what it does to each pane (`Kept`, `Replaced`, `Ends`, `Told`, `Boots`), so that the
  preservation proofs go over five cases and not over twelve actions.

`Session_proofs` proves:

* `SnapshotUpToDate`: `Spec => []Synced`: between two messages the snapshot agrees with
  memory on rows, gates and the counter, or nothing was recorded yet. The invariant `AheadOnlyToSave` says when
  memory may be ahead of the snapshot: only while the save is the very next
  effect. Every step is one of eight kinds (`Kind`), and only a step that plans
  the save next changes rows, gates or the counter.
* `IdsStayUnique`: `Spec => []IdsUnique`. Uniqueness alone is not inductive: a resume
  brings an old counter back. `IdsKnown` adds that the snapshot's counter has
  reached every id told in its session, and that a session in memory with told
  ids is the snapshot's; `IdFresh` that an id about to be told is larger than all
  told before. The order of save and line in `deliverDelegate` is what carries
  the step from `IdFresh` to `IdsKnown`.

* `SnapshotIsALedger`: `Spec => WriteAhead`, the refinement of `Ledger` by `Session`.
  The steps of memory are operations on memory (`Fits`); the step that counts for
  the ledger is the save, which may come several effects later. `LedgerInv` bridges
  the two: `OneOperation` says that a handler about to save has made exactly one
  operation since the session on disk, so that the save is that operation; `NewestKept`
  that the row a handler is about to tell, or to close, is still the newest. `Tell`'s
  guard, an id larger than all told, is `IdFresh` again.
* `SessionTyped`: `Spec => []TypeOK`, and from the same invariant (`TypedInv`)
  `IndicesStayValid`: `Spec => SlotsStable`. `SlotInv` is that the roster in memory
  extends the one on disk whenever both are of one session; a reload keeps it because
  `Converged` only marks and appends (`ConvergedExtends`), a resume because it does the
  same to the snapshot's roster.
* `RequestsAccounted`: `Spec => []Accounted`. A request in a handler's hand is in no
  place: `MemAccounted` counts the hand as one (`job`), and `DiskAccounted` says of the
  snapshot what a crash would leave of it. `JobPlaced` is what makes a handler's end safe:
  one whose last effect is a save has put its request somewhere, one that ends the
  session holds none. Only the last effect of a plan matters (`Final`), so that
  fourteen plans are six cases.
* `InFlightRestores`: `Spec => []InFlightRestored`, the longest argument. Of the
  tasks in flight `MemFlown` and `DiskFlown` say that they are open on the board in
  memory, and on the one in the snapshot, unless their report is just being told.
  `RecordInv` is what they need: a ticket is at one gate and not yet given
  (`TicketsSound`, or a dropped gate could give up a task that is running), the ids on
  a board grow along it up to the counter (`BoardShaped`, so the cap pushes old tasks
  out before new ones), and a report in hand is of a task that was given
  (`ReportKnown`), so that with `IdsUnique` the row `resolveTask` closes is that task's
  and no other's.

What reload and resume compute over the blocks of a file and the queue of gates are
folds, and so is what `OutputExact` says of two queues. A fold unfolds, in the prover, to a `CHOOSE` of a function on the subsets of the
sequence's indices; `FoldExists` shows once that such a function exists, and
`ConvergedFold`, `AmongFold`, `ArrivedFold` and `ForwardedFold` turn the folds into sequences of steps, over which
`StepByStep` is the induction, on a set of numbers and not on a formula. `NewestOf`
takes the largest element of a set of indices in the same way.

`Attach_proofs` proves, for any number of connections and every capacity of the
channels:

* `OneClientAtATime`: `Spec => []OneClient`, from `OneInv`: a hello is on its way once per
  connection and never of the client's, so that no second one is attached while the
  first is, and what a drop closes is all that is open.
* `MirrorIsCurrent`: `Spec => []MirrorCurrent`, from `MirrorInv`. It says of the newest
  frame on the wire what the property says of the screen, for a client in any state: what
  that frame carries is the deck's gates and roster, unless a handler is about to sync,
  and if there is no frame the screen has them, unless the client answered and the answer
  is still on its way (`Pressed`).
* `AllOutputArrives`: `Spec => []OutputExact`. The property is about two folds, over the
  frames on the wire and over the loop's channel; `PipeInv` says the same step by step.
  There is a number `p` such that the frames make the first `p` chunks in the pane
  (`Makes`), and the messages bring the rest, one after the other, up to what the stream
  has posted (`Goes`). Each end of either queue has its lemma (`MakesMore`, `MakesRest`,
  `GoesMore`, `GoesRest`), and a step touches one end: `Forward` takes a chunk that counts
  and is number `p + 1`, or one that does not count and changes nothing; a replay or a
  welcome starts over with the whole ring, behind which no chunk in the channel counts.
  What it needs of the rest: a chunk on its way is one of a process that was started, and
  of the running one it is in the ring (`NumbersInv`); the client knows every role it was
  welcomed with before its frames come (`BaseInv`, or the client's reader would drop
  them); a role in the roster has a process, with a tee as soon as the tee is the running
  process's (`WiredInv`); keys, frames and messages name roles of the roster
  (`RosterInv`); and a hello that is answered finds no older frame (`HelloInv`).
  `ArrivedFold` and `ForwardedGoes` lead from the steps back to the folds, and `MakesOnce`
  says that the frames make one thing only.

`Limits_proofs` proves, from the invariant `LInv`:

* `ClocksExact`: `Spec => []ClockExact`. The clock of a running row that has not
  strayed counts what its role worked on it. Each way a pause ends has its lemma:
  `ResumeKeeps` for the credit, row by row, of `creditPause`, `StrayKeeps` for those
  that credit nothing.
  `LaterKeeps` is for the time between two decks, after which every open row has
  strayed.
* `TimeoutsAreJust`: `Spec => TimeoutJust`. For a row that has not strayed a limit is up
  when the work has come to it (`DueIsWorked`, from `ClocksExact`'s invariant). Only
  `CheckTimeouts` times rows out, and only a tick is work, which comes after the timeouts
  that were due. The limit may change at any time, so that neither half needs to know
  where it was before.
* `BudgetsAreOnce`: `Spec => BudgetOnce`, from: a role over its budget, and not
  raised since, stays latched through respawns, restarts and late costs.

`UI_proofs` proves, of `Tiling`, for any number of roles, every area and every tree they
can make:

* The invariant is `UIInv`: `Typed`, the types; `Shown`, the tree is `Good` and its focus a tile
  that shows the active role; and `Kept`, a layout kept for the next UI is `Good` too,
  because that UI makes it its tree without a look at the roster (so `Good` speaks of
  slots, which never go, and not of live roles). `Good` is `Built` (the root is there,
  both children of a fork or neither of a leaf, paths of a bounded length) and `Filled`
  (roles are slots, no role has two tiles, ratios are in range). Without the bound there
  would be no first leaf below a node, and without the one tile per role `FocusRole`
  could move the focus to another role. `SplitKeeps`, `CloseKeeps` and `DropTilesKeeps`
  say that the tree stays `Good`; there is one step lemma for each action.
* `LayoutTyped`, `FocusIsOneThing` (`Spec => []ActiveIsFocused`) and
  `TilesShowTheRoster` (`Spec => []TilesInRoster`) follow from it.
* `TilesArePartition`: `Spec => []TilesPartition`. A rectangle is its parent's, narrowed
  (`NodeRect`, `KidRect`), and the two a fork makes are in it, apart, and cover it
  (`NarrowIs`, `NarrowCovers`). Two tiles part at one fork, so they are apart
  (`PartedApart`, `TilesAreApart`); of the nodes that cover a cell the deepest is a tile
  (`CellsCovered`, where the bound on paths is needed again). `EveryCellHasOneTile` says
  it without the corners that `TilesPartition` looks at to keep TLC's work small, and of
  tiles too small to be drawn as well.
* `FocusReachesAll`: `Spec => []NoTileStranded`. Of a set of tiles that is not all of them
  take the lowest fork with tiles in the set and tiles outside: all tiles of one child
  are in it and all of the other outside. From one side of a divider focus moves to
  the other (`FocusCrosses`): there are two cells beside each other across it, and the
  tile of the one has the tile of the other as a neighbour at distance zero
  (`BorderCells`); whichever neighbour wins is at distance zero too, so it reaches over
  the divider (`ReachesOver`), where every cell belongs to a tile of the other side.
* `CloseKeepsTheOthers`: `Spec => []CloseKeepsOthers`. `CloseMoves` maps the tiles that
  stay to where they come from, one to one and in order (`FromBefore`); the k-th leaf is
  the tile with k - 1 tiles before it (`LeavesAre`, from `Ranks`, which counts in any
  finite order), and `RankMoves` counts the tiles before one that stays, which are one
  fewer behind the closed one. So the roles are the old ones with one taken out
  (`ClosedOrder`, `RemoveAtIs`).

and of `Keys`, for any number of gates and rows: `SelectionIsARow`
(`KeysSpec => []SelectionReadable`: every action ends in a drawing, which clamps) and
`DecisionsAreSeen` (`KeysSpec => DecidesWhatIsShown`). The orders of `View` and `handleKey`
agree wherever something can be decided because of `OneConfirm`: a rollback and a
handoff are never both asked for.

`Pane_proofs` proves, for every capacity:

* `RingIsExact`: `Spec => []RingExact`. The invariant says where each line is: those
  since the last turn lie behind the head, those before it ahead (`BehindHead`,
  `AheadOfHead`). `OneTurn` takes the modulus away.
* `NoEnterAlone`: `Spec => []NoBareEnter`. The line an Enter belongs to is in the
  stream of what was read and what is queued, or the pane it was typed into is gone.

* `TranscriptContinues`: `Spec => []TranscriptGoesOn`. Everything here is a run of
  lines, `Between(a, b)`: what the ring replays, between its first and last row with
  something on it (`HistoryIsRows`, `HistoryIsBetween`), what is written of it, and the
  anchor, which is the run the transcript ended with. A match of the end of the anchor in
  what is replayed is a place whose lines say the same (`FoundBetween`), not the place
  itself. So `afterAnchor` has two outcomes (`AfterAnchorBetween`): go on after a line
  that says what the last one said, or mark a gap. It would repeat lines if it went on
  before the true place. It never does, because the true place is a match as long as it
  is in what is replayed, and of the matches the latest is taken. Either outcome lets the
  transcript go on: with a run after a line that says the same as its last, or after a
  gap with later lines (`LongerGoesOn`). A transcript ahead of what is replayed would
  repeat lines too. It never is (`TailUpTo`), because a flush holds the screen back and
  the last write, which does not, waits for a flush that is under way and leaves the pane
  closed (`TailHolds`, `TailSooner`).

`Checkpoint_proofs` proves, for any workspace and any number of askers and checkpoints:

* `RollbackIsKept`: `Spec => UndoKept`, from `UndoInv`, file by file, about the files
  nobody else wrote: while the question is open, and for the files that are yet to be
  deleted, the workspace and the snapshot taken before agree.
* `RollbackLeavesTheCheckpoint`: `Spec => []RollbackExact`, from `ExactInv`. A step that
  stores anything stores the present workspace and changes no file (`RefsFrom`), so a
  checkpoint replaced within its second is the tree that was asked about or the workspace
  at the question, and only the first is still the checkpoint that was asked for.
  `DeletedExactly` says that the files of one tree over another, without those that count
  as added, are that tree but for renamed files, each as it was.

The assumptions of all theorems are the `ASSUME`s of `Delegation`, `Supervision`,
`Session`, `Attach`, `Limits`, `Tiling`, `Keys`, `Pane` and `Checkpoint`, which TLC
evaluates in every run of these modules.

Only model-checked: `ReviewEnds` and `HeldTaskTyped`, liveness properties under
fairness, which are beyond the prover. Every other property of a passing run is a
theorem.

## 5. Plan

Done, in this order: `Delegation` and the proof of `NoLoopLost`; `Supervision`;
`Session` and the proof that an id is never told twice; `Attach`; `Tiling`; `Keys`;
`Checkpoint`; `Limits`; `Pane`; `Ledger` and the refinement.

Left, where a team would go on:

1. `Outcome`, the abstract promise to the orchestrator (a task is asked, waits, is
   settled once), as an abstract specification of `Delegation`; `NoLoopLost` is its
   core.
2. Loops under a reload (`session.go:1074`), which needs `Delegation`'s loops and
   `Session`'s roster in one module, and respawns on a changed specification, which
   wait for tasks in flight and for gates.

## 6. Not modelled, and why

* The configuration's parsing and validation: its result is the constants of the
  modules. Prompts and the handoff document: text.
* Drawing, colours, mouse positions, search within a pane, the memory browser's
  text, terminal emulation, and the reflow of a transcript when the terminal is
  resized: no property here tells them apart.
* The user's own keys in a pane's input queue, which take room there like lines do.
* Metrics and the report, which only read; the command line (argument checks and one
  socket call each); the desktop app (another client of the wire protocol).
* git, the gateway's process and the agents themselves appear only through what the
  deck observes of them.
* Writes of the snapshot that fail: the code logs the error and goes on.
* Judge loops across a restart: the code does not persist them.
