------------------------------ MODULE Delegation ------------------------------
(***************************************************************************)
(* The delegation core of the deck: internal/deck/session.go (dispatch,    *)
(* the approval queue, timeouts, supervision), judge.go, check.go,         *)
(* ownership.go and the merge modes of worktree.go.                        *)
(*                                                                         *)
(* One loop thread applies messages (an agent's command, a finished check, *)
(* a closed pane, a tick, a user's key), so each action is one whole       *)
(* handler and the interleaving is that of the messages.  A handler that   *)
(* calls another passes it the values it has already written: b is the     *)
(* board, ls the loops, gs the queue, ah the role branches.                *)
(***************************************************************************)
EXTENDS Integers, Sequences, FiniteSets

CONSTANTS
  Roles,       \* the configured roles, by name
  Start,       \* the start role: the orchestrator's pane
  NoRole,      \* the empty role name: no judge configured
  Targets,     \* the roles the orchestrator delegates to
  Approve,     \* roles with approve = true
  Checked,     \* roles with a check command
  Judge,       \* Judge[r]: the role that scores r's work, or NoRole
  Cap,         \* Cap[r]: r's judge_rounds
  Fresh,       \* roles respawned before every task
  Supervised,  \* roles with restart = "on-failure"
  Timed,       \* roles with a timeout
  Owners,      \* roles that own a coordination file
  Worktrees,   \* roles with their own git worktree
  MergeMode,   \* MergeMode[r] \in {"manual", "gate", "auto"}
  FailClosed,  \* TRUE when the gateway can block the deck
  GitMayFail,  \* TRUE when git commands of the deck can fail
  Mortal,      \* bound: roles whose process can end or be restarted
  MaxAsked,    \* bound: how many delegations the orchestrator asks for
  Resend       \* bound: Resend[id]: how often id is reported as done

ASSUME RolesAssumption ==
  /\ Start \in Roles
  /\ NoRole \notin Roles
  /\ Targets \subseteq Roles
  /\ Owners \subseteq Roles
  /\ Mortal \subseteq Roles
  /\ Judge \in [Roles -> Roles \cup {NoRole}]
  /\ \A r \in Roles : Judge[r] # r
  /\ Cap \in [Roles -> Nat \ {0}]
  /\ MergeMode \in [Roles -> {"manual", "gate", "auto"}]

ASSUME BoundsAssumption ==
  /\ FailClosed \in BOOLEAN
  /\ GitMayFail \in BOOLEAN
  /\ MaxAsked \in Nat
  /\ \A id \in DOMAIN Resend : Resend[id] \in Nat

VARIABLES
  board,    \* the delegate rows, by task id: id n is board[n]
  loops,    \* judge loops, keyed by their in-flight task id
  gates,    \* the approval queue, oldest first
  checks,   \* ids whose check command is running or has its result queued
  pane,     \* pane[r]: what the deck knows of r's process
  blocked,  \* gatewayBlocked(): gateway enforced, fail-closed and down
  ahead,    \* ahead[r]: ids with a commit on r's branch that HEAD lacks
  landed,   \* ids whose commits were merged into the main tree
  unplanned, \* history: tasks whose merge git would not let the deck plan
  asked,    \* delegate commands handled so far (bounded by MaxAsked)
  settled   \* history: how each piece of work was settled, and by which id

vars == <<board, loops, gates, checks, pane, blocked, ahead, landed, unplanned, asked, settled>>

-----------------------------------------------------------------------------
(* The state's parts *)

\* A pane whose process died stays "dead" until its paneClosedMsg is handled:
\* until then the deck still counts the role as available.  A respawn that fails
\* marks the role exited while the old pane's close message is still to come
\* with the current gen: "failed".
PaneState == {"live", "dead", "failed", "exited"}

TaskId == Nat \ {0}

\* loop is the judge loop a row was delivered for (0: none); snap says that
\* ownSnaps holds the owned files' hashes for it; reports counts work-done
\* commands already sent with this id.
Row == [to : Roles, loop : Nat, done : BOOLEAN, timedOut : BOOLEAN,
        snap : BOOLEAN, reports : Nat]

Loop == [orig : TaskId, builder : Roles, round : TaskId,
         phase : {"build", "check", "judge"}]

\* The fields that tell pendingGate's kinds apart are one tag here; id is the
\* loop, the reported task or the task to merge, 0 for a plain entry gate.
Gate == [kind : {"entry"}, to : Roles, id : {0}]
        \cup [kind : {"fallback", "ownership", "merge"}, to : Roles, id : TaskId]

Settled == [how : {"report", "passed", "accepted", "rejected", "merge-ruled"},
            id : TaskId, by : Nat, told : BOOLEAN]

NewRow(r, loop) ==
  [to |-> r, loop |-> loop, done |-> FALSE, timedOut |-> FALSE,
   snap |-> Owners # {}, reports |-> 0]

Put(f, k, v) == [x \in DOMAIN f \cup {k} |-> IF x = k THEN v ELSE f[x]]
Drop(f, k) == [x \in DOMAIN f \ {k} |-> f[x]]

\* !e.exited: the deck hands work to the pane
Up(r) == pane[r] \in {"live", "dead"}

Judged(r) == r \in Checked \/ Judge[r] # NoRole

Init ==
  /\ board = <<>>
  /\ loops = [id \in {} |-> id]
  /\ gates = <<>>
  /\ checks = {}
  /\ pane = [r \in Roles |-> "live"]
  /\ blocked = FALSE
  /\ ahead = [r \in Roles |-> {}]
  /\ landed = {} /\ unplanned = {}
  /\ asked = 0
  /\ settled = {}

-----------------------------------------------------------------------------
(* Handlers' shared parts *)

\* notifyOrchestrator and injectOrchestrator: an orchestrator that has exited is
\* told nothing, and the work is settled all the same
Settle(how, id, by) ==
  settled' = settled \cup {[how |-> how, id |-> id, by |-> by, told |-> Up(Start)]}

\* resolveTask and the consumption of the ownership snapshot
Resolve(b, id) == [b EXCEPT ![id] = [@ EXCEPT !.done = TRUE, !.snap = FALSE]]

\* ownerActive: the owner has another open delegation that did not time out
OwnerActive(b, owner, id) ==
  \E i \in DOMAIN b \ {id} : b[i].to = owner /\ ~b[i].done /\ ~b[i].timedOut

\* checkOwned can report a violation: a snapshot was taken (was), and some other
\* role owns a file and has no task of its own that could explain the change
MayViolate(b, id, from, was) ==
  was /\ \E o \in Owners \ {from} : ~OwnerActive(b, o, id)
\* Mutant: the loop is gated and stays in the map
FallbackGateStaysInFlight(loop, b, ls) ==
  /\ gates' = Append(gates, [kind |-> "fallback", to |-> loop.builder, id |-> loop.orig])
  /\ board' = b
  /\ UNCHANGED <<loops, pane, settled>>

\* fallbackGate: the loop leaves the map and waits for the user
FallbackGate(loop, b, ls) ==
  /\ gates' = Append(gates, [kind |-> "fallback", to |-> loop.builder, id |-> loop.orig])
  /\ board' = b
  /\ loops' = ls
  /\ UNCHANGED <<pane, settled>>

\* respawn: a new process under a new gen, or the start fails under the old one
Respawn(r) ==
  \E p \in {"live", IF pane[r] = "exited" THEN "exited" ELSE "failed"} :
    pane' = [pane EXCEPT ![r] = p]

\* deliverDelegate's hand-over of the task line: a fresh role is respawned first
Inject(r) == IF r \in Fresh THEN Respawn(r) ELSE UNCHANGED pane
\* Mutant: the judge's task never reaches the board
DeliverJudgeRoundUnrecorded(loop, b, ls) ==
  /\ board' = b
  /\ loops' = Put(ls, Len(b) + 1, [loop EXCEPT !.phase = "judge"])
  /\ UNCHANGED <<gates, pane, settled>>

\* Mutant: without a judge at hand the work passes
DeliverJudgeRoundOptional(loop, b, ls) ==
  /\ board' = b
  /\ loops' = ls
  /\ Settle("passed", loop.orig, loop.orig)
  /\ UNCHANGED <<gates, pane>>

\* deliverJudgeRound: the judge gets a task of its own under a new id
DeliverJudgeRound(loop, b, ls) ==
  LET judge == Judge[loop.builder]
  IN IF judge # NoRole /\ Up(judge)
     THEN /\ board' = Append(b, NewRow(judge, loop.orig))
          /\ loops' = Put(ls, Len(b) + 1, [loop EXCEPT !.phase = "judge"])
          /\ UNCHANGED <<gates, pane, settled>>
     ELSE FallbackGate(loop, b, ls)
\* Mutant: the loop keeps its old phase in the next round
DeliverRetryRoundSamePhase(loop, b, ls) ==
  /\ board' = Append(b, NewRow(loop.builder, loop.orig))
  /\ loops' = Put(ls, Len(b) + 1, [loop EXCEPT !.round = @ + 1])
  /\ Inject(loop.builder)
  /\ UNCHANGED <<gates, settled>>

\* Mutant: the retry's id is not put in the map
DeliverRetryRoundForgotten(loop, b, ls) ==
  /\ board' = Append(b, NewRow(loop.builder, loop.orig))
  /\ loops' = ls
  /\ Inject(loop.builder)
  /\ UNCHANGED <<gates, settled>>

\* deliverRetryRound after round++: the builder gets the task again, new id
DeliverRetryRound(loop, b, ls) ==
  IF Up(loop.builder)
  THEN /\ board' = Append(b, NewRow(loop.builder, loop.orig))
       /\ loops' = Put(ls, Len(b) + 1,
                       [loop EXCEPT !.phase = "build", !.round = @ + 1])
       /\ Inject(loop.builder)
       /\ UNCHANGED <<gates, settled>>
  ELSE FallbackGate(loop, b, ls)
\* Mutant: one round too many
RetryOrGatePastCap(loop, b, ls) ==
  IF loop.round > Cap[loop.builder]
  THEN FallbackGate(loop, b, ls)
  ELSE DeliverRetryRound(loop, b, ls)

\* A failed check or verdict: retry while rounds are left, else a human decides
RetryOrGate(loop, b, ls) ==
  IF loop.round >= Cap[loop.builder]
  THEN FallbackGate(loop, b, ls)
  ELSE DeliverRetryRound(loop, b, ls)

\* performMerge merges the branch as it is now, or refuses and changes nothing
Land(r, ah) ==
  /\ landed' = landed \cup ah[r]
  /\ ahead' = [ah EXCEPT ![r] = {}]
  /\ UNCHANGED unplanned

Refuse(ah) == ahead' = ah /\ UNCHANGED <<landed, unplanned>>

\* A branch git cannot compare is logged and left as it is
Unplanned(id, ah) ==
  /\ unplanned' = unplanned \cup {id}
  /\ ahead' = ah /\ UNCHANGED landed

MergeGate(r, id) == [kind |-> "merge", to |-> r, id |-> id]
\* Mutant: an auto merge git refuses is only logged
QueueMergeNoFallback(r, id, gs, ah) ==
  LET planned == r \in Worktrees /\ MergeMode[r] # "manual" /\ ah[r] # {}
  IN \/ (~planned \/ MergeMode[r] = "auto") /\ gates' = gs /\ Refuse(ah)
     \/ planned /\ GitMayFail /\ gates' = gs /\ Unplanned(id, ah)
     \/ planned /\ MergeMode[r] = "gate" /\ gates' = Append(gs, MergeGate(r, id)) /\ Refuse(ah)
     \/ planned /\ MergeMode[r] = "auto" /\ gates' = gs /\ Land(r, ah)

\* queueMerge: planMerge finds something to land, then the role's mode decides.
\* A diff that touches an owned file, and an auto merge git refuses, are gated.
QueueMerge(r, id, gs, ah) ==
  LET planned == r \in Worktrees /\ MergeMode[r] # "manual" /\ ah[r] # {}
  IN \/ ~planned /\ gates' = gs /\ Refuse(ah)
     \/ planned /\ GitMayFail /\ gates' = gs /\ Unplanned(id, ah)
     \/ planned /\ gates' = Append(gs, MergeGate(r, id)) /\ Refuse(ah)
     \/ planned /\ MergeMode[r] = "auto" /\ gates' = gs /\ Land(r, ah)

\* The work passes its last machine gate: the orchestrator is told, the role's
\* merge mode runs
Pass(loop, by, b, ls, ah) ==
  /\ Settle("passed", loop.orig, by)
  /\ QueueMerge(loop.builder, loop.orig, gates, ah)
  /\ board' = b
  /\ loops' = ls
  /\ UNCHANGED pane

\* scoreVerdict: a report is an invalid verdict, a passing or a failing score
ScoreVerdict(loop, id, b, ls, ah) ==
  \/ FallbackGate(loop, b, ls) /\ Refuse(ah)
  \/ Pass(loop, id, b, ls, ah)
  \/ RetryOrGate(loop, b, ls) /\ Refuse(ah)

\* maybeCommitWorktree: a dirty worktree becomes a commit on the role's branch
Commit(id, ah) ==
  \/ ah = ahead
  \/ /\ board[id].to \in Worktrees
     /\ ah = [ahead EXCEPT ![board[id].to] = @ \cup {id}]

\* deliverDelegate and maybeStartLoop, for a first delivery
HandOver(r) ==
  LET id == Len(board) + 1
  IN /\ board' = Append(board, NewRow(r, IF Judged(r) THEN id ELSE 0))
     /\ loops' = IF Judged(r)
                 THEN Put(loops, id, [orig |-> id, builder |-> r, round |-> 1,
                                      phase |-> "build"])
                 ELSE loops
     /\ Inject(r)

-----------------------------------------------------------------------------
(* Commands from agents *)
\* Mutant: approve = true is not looked at
DelegateUngated(r) ==
  /\ asked < MaxAsked /\ ~blocked /\ Up(r)
  /\ asked' = asked + 1
  /\ HandOver(r)
  /\ UNCHANGED <<gates, checks, blocked, ahead, landed, unplanned, settled>>

\* dispatch "delegate" to one role.  A command to several roles is a run of
\* these; one that is refused (gateway down, role exited) changes nothing.
Delegate(r) ==
  /\ asked < MaxAsked
  /\ ~blocked
  /\ Up(r)
  /\ asked' = asked + 1
  /\ IF r \in Approve
     THEN /\ gates' = Append(gates, [kind |-> "entry", to |-> r, id |-> 0])
          /\ UNCHANGED <<board, loops, pane>>
     ELSE HandOver(r) /\ UNCHANGED gates
  /\ UNCHANGED <<checks, blocked, ahead, landed, unplanned, settled>>
\* Mutant: only the first round's work is checked
BuildDoneFirstOnly(loop, id, b, ls) ==
  IF loop.builder \in Checked /\ loop.round = 1
  THEN /\ board' = b
       /\ loops' = Put(ls, id, [loop EXCEPT !.phase = "check"])
       /\ checks' = checks \cup {id}
       /\ UNCHANGED <<gates, pane, settled>>
  ELSE DeliverJudgeRound(loop, b, ls) /\ UNCHANGED checks

\* The builder is done: its check is started (startCheck), or the judge's round
BuildDone(loop, id, b, ls) ==
  IF loop.builder \in Checked
  THEN /\ board' = b
       /\ loops' = Put(ls, id, [loop EXCEPT !.phase = "check"])
       /\ checks' = checks \cup {id}
       /\ UNCHANGED <<gates, pane, settled>>
  ELSE DeliverJudgeRound(loop, b, ls) /\ UNCHANGED checks

\* handleJudgedDone: the report belongs to the loop in flight under this id
JudgedDone(id, b, ah) ==
  LET loop == loops[id]
      rest == Drop(loops, id)
      done == Resolve(b, id)
      from == IF loop.phase = "judge" THEN Judge[loop.builder] ELSE loop.builder
  IN \/ /\ MayViolate(done, id, from, b[id].snap)
        /\ FallbackGate(loop, done, rest)
        /\ Refuse(ah)
        /\ UNCHANGED checks
     \/ loop.phase = "build" /\ BuildDone(loop, id, done, rest) /\ Refuse(ah)
     \/ /\ loop.phase # "build"
        /\ ScoreVerdict(loop, id, done, rest, ah)
        /\ UNCHANGED checks
\* Mutant: the handler does not return after the ownership gate
PlainDoneNoReturn(id, b, ah) ==
  LET done == Resolve(b, id)
      r == b[id].to
      gate == [kind |-> "ownership", to |-> r, id |-> id]
  IN /\ board' = done
     /\ Settle("report", id, id)
     /\ \/ /\ MayViolate(done, id, r, b[id].snap)
           /\ QueueMerge(r, id, Append(gates, gate), ah)
        \/ QueueMerge(r, id, gates, ah)
     /\ UNCHANGED <<loops, checks, pane>>

\* dispatch "work-done" for an id no loop is in flight under: the report goes to
\* the orchestrator, or waits at an ownership gate
PlainDone(id, b, ah) ==
  LET done == Resolve(b, id)
      r == b[id].to
  IN /\ board' = done
     /\ \/ /\ MayViolate(done, id, r, b[id].snap)
           /\ gates' = Append(gates, [kind |-> "ownership", to |-> r, id |-> id])
           /\ Refuse(ah)
           /\ UNCHANGED settled
        \/ /\ Settle("report", id, id)
           /\ QueueMerge(r, id, gates, ah)
     /\ UNCHANGED <<loops, checks, pane>>

\* dispatch "work-done".  The command is acknowledged before it is routed: with
\* the gateway down, or no loop and no orchestrator, the report is lost.
WorkDone(id) ==
  LET b == [board EXCEPT ![id].reports = @ + 1]
  IN /\ board[id].reports < Resend[id]
     /\ \/ /\ blocked
           /\ board' = b
           /\ UNCHANGED <<loops, gates, checks, pane, ahead, landed, unplanned, settled>>
        \/ /\ ~blocked
           /\ \E ah \in {ahead} \cup {[ahead EXCEPT ![board[id].to] = @ \cup {id}]} :
                /\ Commit(id, ah)
                /\ \/ id \in DOMAIN loops /\ JudgedDone(id, b, ah)
                   \/ /\ id \notin DOMAIN loops
                      /\ Up(Start)
                      /\ PlainDone(id, b, ah)
                   \/ /\ id \notin DOMAIN loops
                      /\ ~Up(Start)
                      /\ board' = b
                      /\ Refuse(ah)
                      /\ UNCHANGED <<loops, gates, checks, pane, settled>>
     /\ UNCHANGED <<blocked, asked>>

-----------------------------------------------------------------------------
(* Results, ticks, processes and keys *)

\* finishCheck: the result is dropped unless its loop still waits for it; a
\* check that could not run gates, exit 0 passes, any other exit retries
FinishCheck(id) ==
  /\ id \in checks
  /\ checks' = checks \ {id}
  /\ IF id \in DOMAIN loops /\ loops[id].phase = "check"
     THEN LET loop == loops[id]
              rest == Drop(loops, id)
          IN \/ FallbackGate(loop, board, rest) /\ Refuse(ahead)
             \/ /\ Judge[loop.builder] # NoRole
                /\ DeliverJudgeRound(loop, board, rest)
                /\ Refuse(ahead)
             \/ /\ Judge[loop.builder] = NoRole
                /\ Pass(loop, id, board, rest, ahead)
             \/ RetryOrGate(loop, board, rest) /\ Refuse(ahead)
     ELSE UNCHANGED <<board, loops, gates, pane, ahead, landed, unplanned, settled>>
  /\ UNCHANGED <<blocked, asked>>

\* approveGate resolves the oldest gate
ApproveGate ==
  /\ gates # <<>>
  /\ LET g == Head(gates)
         rest == Tail(gates)
     IN \/ /\ g.kind = "entry" /\ Up(g.to)
           /\ HandOver(g.to)
           /\ gates' = rest
           /\ UNCHANGED <<ahead, landed, unplanned, settled>>
        \/ /\ g.kind = "entry" /\ ~Up(g.to)
           /\ gates' = rest
           /\ UNCHANGED <<board, loops, pane, ahead, landed, unplanned, settled>>
        \/ /\ g.kind \in {"fallback", "ownership"}
           /\ Settle("accepted", g.id, 0)
           /\ QueueMerge(g.to, g.id, rest, ahead)
           /\ UNCHANGED <<board, loops, pane>>
        \/ /\ g.kind = "merge"
           /\ Settle("merge-ruled", g.id, 0)
           /\ gates' = rest
           /\ Land(g.to, ahead) \/ Refuse(ahead)
           /\ UNCHANGED <<board, loops, pane>>
  /\ UNCHANGED <<checks, blocked, asked>>

\* rejectGate drops the oldest gate; only the orchestrator is told
RejectGate ==
  /\ gates # <<>>
  /\ gates' = Tail(gates)
  /\ LET g == Head(gates)
     IN CASE g.kind = "entry" -> UNCHANGED settled
          [] g.kind = "merge" -> Settle("merge-ruled", g.id, 0)
          [] OTHER -> Settle("rejected", g.id, 0)
  /\ UNCHANGED <<board, loops, checks, pane, blocked, ahead, landed, unplanned, asked>>
\* Mutant: a judge's timeout notifies like a worker's
TimeoutNotifies(id) ==
  /\ board[id].to \in Timed
  /\ ~board[id].done
  /\ ~board[id].timedOut
  /\ board' = [board EXCEPT ![id].timedOut = TRUE]
  /\ UNCHANGED <<loops, gates, checks, pane, blocked, ahead, landed, unplanned, asked, settled>>

\* checkTimeouts, for one overdue row: a judge's loop fails closed.  (The
\* SIGTERM of timeout_action = "restart" is one of the ways to Die.)
Timeout(id) ==
  LET b == [board EXCEPT ![id].timedOut = TRUE]
  IN /\ board[id].to \in Timed
     /\ ~board[id].done
     /\ ~board[id].timedOut
     /\ IF id \in DOMAIN loops /\ loops[id].phase = "judge"
        THEN FallbackGate(loops[id], b, Drop(loops, id))
        ELSE board' = b /\ UNCHANGED <<loops, gates, pane, settled>>
     /\ UNCHANGED <<checks, blocked, ahead, landed, unplanned, asked>>

\* The agent's process ends; its paneClosedMsg is still to come
Die(r) ==
  /\ r \in Mortal
  /\ pane[r] = "live"
  /\ pane' = [pane EXCEPT ![r] = "dead"]
  /\ UNCHANGED <<board, loops, gates, checks, blocked, ahead, landed, unplanned, asked, settled>>
\* Mutant: loops of the first round only
WaitingOnFirstRound(r) ==
  {id \in DOMAIN loops : /\ loops[id].phase = "judge"
                         /\ loops[id].round = 1
                         /\ Judge[loops[id].builder] = r}

\* failLoopsFor: every loop waiting for r's verdict goes to the user, in the
\* order the map yields them
WaitingOn(r) == {id \in DOMAIN loops : /\ loops[id].phase = "judge"
                                       /\ Judge[loops[id].builder] = r}

Orders(S) == {f \in [1 .. Cardinality(S) -> S] : \A x \in S : \E i \in DOMAIN f : f[i] = x}

FailLoopsFor(r) ==
  \E order \in Orders(WaitingOn(r)) :
    /\ gates' = gates \o [i \in DOMAIN order |->
                  [kind |-> "fallback", to |-> loops[order[i]].builder,
                   id |-> loops[order[i]].orig]]
    /\ loops' = [id \in DOMAIN loops \ WaitingOn(r) |-> loops[id]]

\* paneClosedMsg and autoRestart.  A supervised role is respawned (the start can
\* fail), or its exit was clean or its retries are used up.
PaneClosed(r) ==
  /\ pane[r] \in {"dead", "failed"}
  /\ \/ /\ r \in Supervised
        /\ \E p \in {"live", "exited"} : pane' = [pane EXCEPT ![r] = p]
        /\ UNCHANGED <<loops, gates>>
     \/ /\ pane' = [pane EXCEPT ![r] = "exited"]
        /\ FailLoopsFor(r)
  /\ UNCHANGED <<board, checks, blocked, ahead, landed, unplanned, asked, settled>>

\* The user restarts a role; the old pane's close message is dropped by gen
Restart(r) ==
  /\ r \in Mortal
  /\ Respawn(r)
  /\ UNCHANGED <<board, loops, gates, checks, blocked, ahead, landed, unplanned, asked, settled>>

\* A health probe or the enforcement toggle changes what gatewayBlocked says
GatewayFlip ==
  /\ FailClosed
  /\ blocked' = ~blocked
  /\ UNCHANGED <<board, loops, gates, checks, pane, ahead, landed, unplanned, asked, settled>>

Next ==
  \/ \E r \in Targets : Delegate(r)
  \/ \E id \in DOMAIN board : WorkDone(id) \/ Timeout(id)
  \/ \E id \in checks : FinishCheck(id)
  \/ \E r \in Roles : Die(r) \/ PaneClosed(r) \/ Restart(r)
  \/ ApproveGate
  \/ RejectGate
  \/ GatewayFlip

Spec == Init /\ [][Next]_vars

-----------------------------------------------------------------------------
(* Properties *)

TypeOK ==
  /\ board \in Seq(Row)
  /\ DOMAIN loops \subseteq DOMAIN board
  /\ loops \in [DOMAIN loops -> Loop]
  /\ gates \in Seq(Gate)
  /\ checks \subseteq DOMAIN board
  /\ pane \in [Roles -> PaneState]
  /\ blocked \in BOOLEAN
  /\ ahead \in [Roles -> SUBSET DOMAIN board]
  /\ landed \subseteq DOMAIN board /\ unplanned \subseteq TaskId
  /\ asked \in 0 .. MaxAsked
  /\ settled \in SUBSET Settled

\* The loop map is keyed by the one task the loop waits for: the row under a
\* loop's key was delivered for that loop, to the role whose turn the phase says
\* it is, and is open exactly while that role still owes a report.  A loop in
\* the check phase has a check whose result is coming, one in the judge phase has
\* not timed out.  (handleJudgedDone, startCheck, deliver*Round, checkTimeouts.)
OnTask(loop, id, b, running) ==
  /\ loop.orig \in DOMAIN b
  /\ b[id].loop = loop.orig
  /\ b[loop.orig].to = loop.builder
  /\ b[id].to = IF loop.phase = "judge" THEN Judge[loop.builder] ELSE loop.builder
  /\ b[id].done <=> loop.phase = "check"
  /\ loop.phase = "check" => id \in running /\ loop.builder \in Checked
  /\ loop.phase = "judge" => ~b[id].timedOut

LoopOnItsTask == \A id \in DOMAIN loops : OnTask(loops[id], id, board, checks)

InFlight(o) == {id \in DOMAIN loops : loops[id].orig = o}
AtFallback(o) == {i \in DOMAIN gates : gates[i].kind = "fallback" /\ gates[i].id = o}
Outcomes(o) == {e \in settled : e.id = o /\ e.how \in {"passed", "accepted", "rejected"}}

\* A judged delegation is never lost and never in two places: it is in flight
\* under exactly one id, or waits in exactly one fallback gate, or has exactly
\* one outcome, whatever reports, results, timeouts and exits race.
NoLoopLost ==
  \A o \in DOMAIN board : board[o].loop = o =>
    Cardinality(InFlight(o)) + Cardinality(AtFallback(o)) + Cardinality(Outcomes(o)) = 1

\* judge_rounds caps check failures and judge failures together: a delegation
\* reaches its builder at most that often.
RoundsCapped ==
  \A o \in DOMAIN board : board[o].loop = o =>
    Cardinality({n \in DOMAIN board : board[n].loop = o /\ board[n].to = board[o].to})
      <= Cap[board[o].to]

\* n is a round of the builder of a loop
BuilderRound(n) == board[n].loop # 0 /\ board[n].to = board[board[n].loop].to

\* Work of a role with a judge passes on the report of the judge's own task for that
\* work, in time, and never without one; or, where a check runs, on a report the
\* builder sends again meanwhile, which handleJudgedDone takes for the verdict.
JudgeDecides ==
  \A e \in settled : e.how = "passed" /\ Judge[board[e.id].to] # NoRole =>
    /\ e.by \in DOMAIN board
    /\ board[e.by].loop = e.id
    /\ \/ board[e.by].to = Judge[board[e.id].to] /\ ~board[e.by].timedOut
       \/ BuilderRound(e.by) /\ board[e.id].to \in Checked /\ board[e.by].reports > 1

\* "Never a silent pass." (docs/design-check-gate.md:10).  The code does not keep
\* this: it is JudgeDecides without the report sent again (README, section 3).
NeverASilentPass ==
  \A e \in settled : e.how = "passed" /\ Judge[board[e.id].to] # NoRole =>
    e.by \in DOMAIN board /\ board[e.by].to = Judge[board[e.id].to]

\* "Score at or above `judge_pass`: the orchestrator is told the task passed"
\* (docs/protocol.md:149).  The code does not keep this: an orchestrator that has
\* exited is told nothing, then or after its restart (README, section 3).
PassIsTold == \A e \in settled : e.how = "passed" => e.told

\* A builder's report is held back for the check or the judge in every round, however
\* its rounds, its check and its judge's answers are interleaved: one that reaches the
\* orchestrator repeats a report that was sent before.
BuilderReportHeld ==
  \A e \in settled : e.how = "report" /\ BuilderRound(e.id) => board[e.id].reports > 1

\* A plain task whose row is closed is accounted for: its report was forwarded to
\* the orchestrator, or it is held at an ownership gate, or the user ruled on that
\* gate.  One that was reported once is accounted for once.
HeldAt(n) == {i \in DOMAIN gates : gates[i].kind = "ownership" /\ gates[i].id = n}
Answers(n) == {e \in settled : e.id = n /\ e.how \in {"report", "accepted", "rejected"}}

PlainAccounted ==
  \A n \in DOMAIN board : board[n].loop = 0 /\ board[n].done =>
    /\ HeldAt(n) # {} \/ Answers(n) # {}
    /\ board[n].reports = 1 => Cardinality(HeldAt(n)) + Cardinality(Answers(n)) = 1

\* The rows a settled task covers: itself, or its builder's rounds
WorkOf(o) == {n \in DOMAIN board : \/ n = o
                                   \/ /\ board[o].loop = o
                                      /\ board[n].loop = o
                                      /\ board[n].to = board[o].to}

Accepted(e) == e.how \in {"report", "passed", "accepted"}

\* Accepted work of a worktree role with a merge mode is not silently left on its
\* branch: a commit of it that is not merged has a merge gate pending for the task,
\* or the user has ruled on that gate, or git would not let the deck look at the
\* branch.  (A row reported again may commit again after its work was accepted; a
\* round reported again while its loop goes on is not accepted work.)
MergeAccounted ==
  \A e \in settled :
    LET r == board[e.id].to
        work == {n \in WorkOf(e.id) : board[n].reports = 1}
    IN Accepted(e) /\ ~(e.how = "report" /\ BuilderRound(e.id))
       /\ r \in Worktrees /\ MergeMode[r] # "manual" /\ work \cap ahead[r] # {}
       => \/ \E i \in DOMAIN gates : gates[i] = MergeGate(r, e.id)
          \/ \E x \in settled : x.how = "merge-ruled" /\ x.id = e.id
          \/ e.id \in unplanned

\* Only accepted work is merged into the main tree.
MergedOnlyAccepted ==
  \A n \in landed : \E e \in settled : Accepted(e) /\ n \in WorkOf(e.id)

\* No loop waits for the verdict of a role that has exited: the exit has moved
\* it to the user.
ExitedJudgeGates ==
  \A id \in DOMAIN loops :
    loops[id].phase = "judge" => pane[Judge[loops[id].builder]] # "exited"

\* The rows a step delivers
Delivered == DOMAIN board' \ DOMAIN board

\* A task of the orchestrator's reaches a role with approve = true only when the
\* user approves the gate it waits in, one task per approval; the loop's retry
\* rounds are covered by the first approval.
EntryApproved ==
  [][\A n \in Delivered : board'[n].to \in Approve /\ board'[n].loop \in {0, n} =>
       /\ gates # <<>>
       /\ Head(gates) = [kind |-> "entry", to |-> board'[n].to, id |-> 0]
       /\ gates' = Tail(gates)]_vars

\* The judge of a role with a check sees no work of a round before a check result of
\* that delegation came in: its task is delivered in the step that consumes one.
CheckedFirst ==
  [][\A n \in Delivered :
       LET o == board'[n].loop
       IN o \notin {0, n} /\ board'[o].to \in Checked /\ board'[n].to # board'[o].to =>
            \E id \in checks \ checks' : board[id].loop = o]_vars

\* While the gateway is enforced and down nothing is delegated ("fail closed: no
\* gateway, no orchestration", session.go:332).  The code does not keep this: an
\* approval delivers without asking the gateway (README, section 3).
NothingWhileBlocked == [][blocked => Delivered = {}]_vars

=============================================================================
