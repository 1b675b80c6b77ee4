-------------------------------- MODULE Limits --------------------------------
(***************************************************************************)
(* The limits the deck puts on its roles: a timeout on each delegation, a  *)
(* budget on the cost of a session, and the pause of a process, by the     *)
(* user or by a budget, that must not count as time worked                 *)
(* (internal/deck/session.go, usage.go).                                   *)
(*                                                                         *)
(* A pause leaves a delegation's start where it is; to resume moves the    *)
(* start of the role's open delegations forward by what they slept.  What  *)
(* ends a pause otherwise, a new process in the pane, a new entry of the   *)
(* role or a new deck, moves nothing, and no start is moved by the time    *)
(* between two decks.                                                      *)
(***************************************************************************)
EXTENDS Integers, Sequences, FiniteSets

CONSTANTS
  Roles,        \* the roles that are given work
  Timeout,      \* Timeout[r]: ticks a delegation to r may take at first; 0: none
  Timeouts,     \* what a role's timeout can be set to
  Budgeted,     \* roles with a budget
  Pauses,       \* roles with budget_action = "pause"
  Fresh,        \* roles respawned before every task
  Supervised,   \* roles with restart = "on-failure"
  Mortal,       \* bound: roles whose process ends or is restarted
  Halted,       \* bound: roles the user pauses
  Edited,       \* bound: roles that reloads change
  Caps,         \* what a role's budget can be set to
  MaxNow,       \* bound: ticks that pass, with a deck or without one
  MaxTasks,     \* bound: delegations
  MaxCost,      \* bound: what a role's tokens can cost
  MaxChanges    \* bound: reloads and restarts of the gateway or the deck

ASSUME LimitsAssumption ==
  /\ Timeout \in [Roles -> Nat] /\ Timeouts \subseteq Nat
  /\ Budgeted \subseteq Roles /\ Pauses \subseteq Budgeted
  /\ Fresh \subseteq Roles /\ Supervised \subseteq Roles /\ Mortal \subseteq Roles
  /\ Halted \subseteq Roles /\ Edited \subseteq Roles
  /\ Caps \subseteq Nat \ {0}
  /\ {MaxNow, MaxTasks, MaxCost, MaxChanges} \subseteq Nat

VARIABLES
  now,
  board,      \* the delegate rows, in order
  entry,      \* per role: exited, taken off the roster, paused, since when (0: not),
              \* over its budget; of the newest entry that has its name
  limit,      \* limit[r]: the timeout of r
  cap,        \* cap[r]: the budget of r, one of Budgeted
  cost,       \* cost[r]: what the gateway has counted for it
  read,       \* the costs on their way to the loop, by role; empty: none
  changes,    \* bounded by MaxChanges
  worked,     \* history, per row: ticks its role was not paused
  strayed,    \* history: rows whose pause ended otherwise than by a resume, or whose
              \* clock went on without a deck
  raised      \* history: roles that may run over their budget (again): the cap was
              \* raised since they did, or what counts is new

rows == <<board, worked, strayed>>
money == <<cap, cost, read, raised>>
vars == <<now, rows, entry, limit, money, changes>>

NoCosts == [r \in {} |-> 0]
Started == [exited |-> FALSE, gone |-> FALSE, paused |-> FALSE, pausedAt |-> 0, over |-> FALSE]

Init ==
  /\ now = 0 /\ board = <<>> /\ changes = 0
  /\ entry = [r \in Roles |-> Started] /\ limit = Timeout
  /\ cap \in [Budgeted -> Caps] /\ cost = [r \in Budgeted |-> 0] /\ read = NoCosts
  /\ worked = <<>> /\ strayed = {} /\ raised = Budgeted

-----------------------------------------------------------------------------
(* Delegations and their clocks *)

Rows == DOMAIN board
Later(s, t) == IF s > t THEN s ELSE t

\* Rows a pause's credit and the timeouts look at
Running(i) == ~board[i].done /\ ~board[i].timedOut

\* Mutant: all of the pause is credited, to a task given meanwhile as well
MutCredit(r) ==
  board' = [i \in Rows |->
    IF board[i].to # r \/ ~Running(i) THEN board[i]
    ELSE [board[i] EXCEPT !.at = @ + (now - entry[r].pausedAt)]]

\* creditPause: r's running rows start later, by what they slept
Credit(r) ==
  board' = [i \in Rows |->
    IF board[i].to # r \/ ~Running(i) THEN board[i]
    ELSE [board[i] EXCEPT !.at = @ + (now - Later(board[i].at, entry[r].pausedAt))]]

\* togglePause
TogglePause(r) ==
  /\ r \in Halted /\ ~entry[r].exited
  /\ IF entry[r].paused
     THEN entry' = [entry EXCEPT ![r].paused = FALSE, ![r].pausedAt = 0] /\ Credit(r)
     ELSE entry' = [entry EXCEPT ![r].paused = TRUE, ![r].pausedAt = now] /\ UNCHANGED board
  /\ UNCHANGED <<now, worked, strayed, limit, money, changes>>

\* What sleeps when the pauses of the roles R end without a credit
Sleeping(R, b) ==
  {i \in DOMAIN b : /\ b[i].to \in R /\ entry[b[i].to].paused /\ ~b[i].done /\ ~b[i].timedOut
                    /\ now > Later(b[i].at, entry[b[i].to].pausedAt)}

\* Mutant: a new process clears the latch of the budget
MutRespawn(r, b) ==
  /\ entry' = [entry EXCEPT ![r].exited = FALSE, ![r].paused = FALSE, ![r].pausedAt = 0, ![r].over = FALSE]
  /\ strayed' = strayed \cup Sleeping({r}, b)

\* respawn: a new process, which does not start paused, or none
Respawn(r, b) ==
  /\ \/ /\ entry' = [entry EXCEPT ![r].exited = FALSE, ![r].paused = FALSE, ![r].pausedAt = 0]
        /\ strayed' = strayed \cup Sleeping({r}, b)
     \/ entry' = [entry EXCEPT ![r].exited = TRUE] /\ UNCHANGED strayed

\* deliverDelegate; a paused role takes work as well
Deliver(r) ==
  /\ Len(board) < MaxTasks /\ ~entry[r].exited
  /\ board' = Append(board, [to |-> r, at |-> now, done |-> FALSE, timedOut |-> FALSE])
  /\ worked' = Append(worked, 0)
  /\ IF r \in Fresh THEN Respawn(r, board') ELSE UNCHANGED <<entry, strayed>>
  /\ UNCHANGED <<now, limit, money, changes>>

\* resolveTask
Report(i) ==
  /\ ~board[i].done
  /\ board' = [board EXCEPT ![i].done = TRUE]
  /\ UNCHANGED <<now, worked, strayed, entry, limit, money, changes>>

Limited(i) == ~entry[board[i].to].gone /\ limit[board[i].to] > 0

\* Mutant: a pause does not stop the clock that is checked
MutDue(i) ==
  Running(i) /\ Limited(i) /\ now - board[i].at >= limit[board[i].to]

\* A row whose limit is up; a paused role's clock stands, and one of a role that
\* is gone is not looked at
Due(i) ==
  /\ Running(i) /\ Limited(i)
  /\ ~entry[board[i].to].paused
  /\ now - board[i].at >= limit[board[i].to]

\* A second, the ticker's period, passes: what was due at its start was checked.
\* A pause keeps it from the role.
Tick ==
  /\ now < MaxNow /\ \A i \in Rows : ~Due(i)
  /\ now' = now + 1
  /\ worked' = [i \in Rows |-> IF ~Running(i) \/ entry[board[i].to].paused
                               THEN worked[i] ELSE worked[i] + 1]
  /\ UNCHANGED <<board, strayed, entry, limit, money, changes>>

\* checkTimeouts: with timeout_action = "restart" the process is sent a SIGTERM,
\* of which PaneClosed is the effect
CheckTimeouts ==
  /\ \E i \in Rows : Due(i)
  /\ board' = [i \in Rows |-> [board[i] EXCEPT !.timedOut = @ \/ Due(i)]]
  /\ UNCHANGED <<now, worked, strayed, entry, limit, money, changes>>

-----------------------------------------------------------------------------
(* Processes *)

\* A process has ended, on its own or by a signal, also while it was stopped:
\* paneClosedMsg, and autoRestart unless the exit was clean or the cap is reached
PaneClosed(r) ==
  /\ r \in Mortal /\ ~entry[r].exited
  /\ \/ r \in Supervised /\ Respawn(r, board)
     \/ entry' = [entry EXCEPT ![r].exited = TRUE] /\ UNCHANGED strayed
  /\ UNCHANGED <<now, board, worked, limit, money, changes>>

\* The user restarts a role, dead or alive
Restart(r) ==
  /\ r \in Mortal /\ ~entry[r].gone
  /\ Respawn(r, board)
  /\ UNCHANGED <<now, board, worked, limit, money, changes>>

\* The deck stops and, some time later, a new one resumes the snapshot: rows come
\* back with their starts and without their timeouts, roles with fresh processes
\* and no memory of their budgets; a tombstone stays one
Resume ==
  /\ changes < MaxChanges /\ changes' = changes + 1
  /\ \E down \in 0 .. (MaxNow - now) :
       /\ now' = now + down
       /\ strayed' = strayed \cup Sleeping(Roles, board)
                      \cup {i \in Rows : board[i].timedOut \/ (down > 0 /\ Running(i))}
  /\ board' = [i \in Rows |-> [board[i] EXCEPT !.timedOut = FALSE]]
  /\ entry' = [r \in Roles |-> [Started EXCEPT !.gone = entry[r].gone, !.exited = entry[r].gone]]
  /\ read' = NoCosts
  /\ raised' = Budgeted
  /\ UNCHANGED <<worked, limit, cap, cost>>

-----------------------------------------------------------------------------
(* Budgets *)

\* Tokens go through the gateway; what was in flight at a pause is counted too
Spend(r) ==
  /\ cost[r] < MaxCost
  /\ cost' = [cost EXCEPT ![r] = @ + 1]
  /\ UNCHANGED <<now, rows, entry, limit, cap, read, raised, changes>>

\* logTokens, on its goroutine: one at a time, they are 30 s apart
Fetch ==
  /\ read = NoCosts
  /\ read' = [r \in {x \in Budgeted : cost[x] > 0} |-> cost[r]]
  /\ read' # NoCosts
  /\ UNCHANGED <<now, rows, entry, limit, cap, cost, raised, changes>>

Breach(r) == ~entry[r].gone /\ ~entry[r].over /\ r \in DOMAIN read /\ read[r] >= cap[r]
Cleared(r) == ~entry[r].gone /\ entry[r].over /\ r \in DOMAIN read /\ read[r] < cap[r]

\* checkBudgets
CheckBudgets ==
  /\ read # NoCosts
  /\ entry' = [r \in Roles |->
       IF Cleared(r) THEN [entry[r] EXCEPT !.over = FALSE]
       ELSE IF ~Breach(r) THEN entry[r]
       ELSE IF r \in Pauses /\ ~entry[r].paused /\ ~entry[r].exited
            THEN [entry[r] EXCEPT !.over = TRUE, !.paused = TRUE, !.pausedAt = now]
            ELSE [entry[r] EXCEPT !.over = TRUE]]
  /\ raised' = raised \ {r \in DOMAIN read : Breach(r) /\ read[r] <= cost[r]}
  /\ read' = NoCosts
  /\ UNCHANGED <<now, rows, limit, cap, cost, changes>>

\* The gateway's process is a new one and counts from zero
GatewayRestart ==
  /\ changes < MaxChanges /\ changes' = changes + 1
  /\ cost' = [r \in Budgeted |-> 0]
  /\ raised' = Budgeted
  /\ UNCHANGED <<now, rows, entry, limit, cap, read>>

-----------------------------------------------------------------------------
(* Reloads: the role's process is another one only after a Restart of it *)

\* A role's timeout or budget is set, tasks in flight or not, and is in force at once
Reload(r) ==
  /\ changes < MaxChanges /\ changes' = changes + 1
  /\ ~entry[r].gone
  /\ \/ /\ \E t \in Timeouts : limit' = [limit EXCEPT ![r] = t]
        /\ UNCHANGED <<cap, raised>>
     \/ /\ r \in Budgeted
        /\ \E c \in Caps : /\ cap' = [cap EXCEPT ![r] = c]
                           /\ raised' = IF c > cap[r] THEN raised \cup {r} ELSE raised
        /\ UNCHANGED limit
  /\ UNCHANGED <<now, rows, entry, cost, read>>

\* The file drops a role: a tombstone, its tasks in flight or not
Retire(r) ==
  /\ changes < MaxChanges /\ changes' = changes + 1
  /\ ~entry[r].gone
  /\ entry' = [entry EXCEPT ![r].gone = TRUE, ![r].exited = TRUE]
  /\ UNCHANGED <<now, rows, limit, money>>

\* A dropped role is back: a new entry, which has its name and so its rows
Return(r) ==
  /\ entry[r].gone
  /\ strayed' = strayed \cup Sleeping({r}, board)
  /\ entry' = [entry EXCEPT ![r] = Started]
  /\ raised' = raised \cup ({r} \cap Budgeted)
  /\ UNCHANGED <<now, board, worked, limit, cap, cost, read, changes>>

-----------------------------------------------------------------------------

Next ==
  \/ Tick \/ CheckTimeouts \/ Resume \/ Fetch \/ CheckBudgets \/ GatewayRestart
  \/ \E r \in Roles : TogglePause(r) \/ Deliver(r) \/ PaneClosed(r) \/ Restart(r)
  \/ \E r \in Edited : Reload(r) \/ Retire(r) \/ Return(r)
  \/ \E r \in Budgeted : Spend(r)
  \/ \E i \in Rows : Report(i)

Spec == Init /\ [][Next]_vars

-----------------------------------------------------------------------------
(* Properties *)

TypeOK ==
  /\ now \in 0..MaxNow
  /\ \A i \in Rows : board[i].to \in Roles /\ board[i].at \in 0..now
                     /\ {board[i].done, board[i].timedOut} \subseteq BOOLEAN
  /\ DOMAIN worked = Rows /\ strayed \subseteq Rows
  /\ \A r \in Roles : /\ {entry[r].exited, entry[r].gone, entry[r].paused, entry[r].over} \subseteq BOOLEAN
                      /\ entry[r].pausedAt \in 0..now
                      /\ entry[r].gone => entry[r].exited
  /\ limit \in [Roles -> Nat]
  /\ raised \subseteq Budgeted
  /\ cap \in [Budgeted -> Caps] /\ cost \in [Budgeted -> 0..MaxCost]

\* The time the deck holds against a row
Counted(i) ==
  LET e == entry[board[i].to]
  IN (IF e.paused THEN Later(board[i].at, e.pausedAt) ELSE now) - board[i].at

\* A delegation's clock counts the time its role was not paused, no more and no
\* less, however many pauses there were, also when it was given during one: the
\* credit of creditPause, by rows, against the skips of checkTimeouts.
ClockExact == \A i \in Rows : Running(i) /\ i \notin strayed => Counted(i) = worked[i]

\* A timeout fires when its role has had its whole time and no more, whatever a
\* reload makes of that time or of the role meanwhile: none comes while work is
\* owed, and no role works on past a limit that is in force (creditPause,
\* checkTimeouts).
TimeoutJust ==
  [][\A i \in Rows \ strayed :
       LET r == board[i].to IN
       /\ ~board[i].timedOut /\ board'[i].timedOut => worked[i] >= limit[r]
       /\ Limited(i) /\ worked'[i] > worked[i] => worked[i] < limit[r]]_vars

\* "Fires once per session; a reload that raises the cap re-arms it"
\* (docs/configuration.md:38): a role that went over its budget does not do so
\* again, over any restart of its process, unless its cap was raised since, or
\* the role, the deck or the gateway is a new one (checkBudgets, respawn).
BudgetOnce == [][\A r \in Roles : ~entry[r].over /\ entry'[r].over => r \in raised]_vars

\* "so paused time never counts toward timeouts" (session.go:742, and
\* docs/keybindings.md:38), whatever ended the pause.  The code does not keep this:
\* a new process in the pane forgets the pause, and a new deck counts what passed
\* since the last one (README, section 3).
PausedNeverCounts == \A i \in Rows : Running(i) => Counted(i) <= worked[i]

=============================================================================
