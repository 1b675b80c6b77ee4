------------------------------ MODULE Checkpoint ------------------------------
(***************************************************************************)
(* Workspace checkpoints and rollbacks: internal/checkpoint, the session's *)
(* snapshots, the deck's rollback overlay and the rollback command.        *)
(*                                                                         *)
(* A checkpoint is a git ref named by the second it was taken in and the   *)
(* task it was taken for; its tree is what the workspace held.  Files that *)
(* git ignores and choragos's own are outside of it all.  Agents, and the  *)
(* user, write files at any time: between a question and its answer, and   *)
(* between the restoring and the deleting of a rollback.                   *)
(***************************************************************************)
EXTENDS Integers, FiniteSets, Functions

CONSTANTS
  Files,        \* the files of the workspace
  Contents,     \* what a file can hold
  Absent,       \* the file is not there
  Similar,      \* pairs of contents that git takes for one file under two names
  Keep,         \* checkpoints a prune leaves
  MaxClock,     \* bound: seconds that pass
  MaxTasks,     \* bound: tasks of a session
  MaxSessions,  \* bound: sessions
  MaxWrites,    \* bound: writes by agents and users
  MaxAsked      \* bound: rollbacks asked for

ASSUME CheckpointAssumption ==
  /\ Absent \notin Contents /\ Similar \subseteq Contents \X Contents
  /\ Keep \in Nat \ {0} /\ {MaxClock, MaxTasks, MaxSessions, MaxWrites, MaxAsked} \subseteq Nat

Askers == {"deck", "cli"}
Tree == [Files -> Contents \cup {Absent}]

\* A ref's name; pre counts the pre-rollback- prefixes before the task's id
Label == [pre : 0..MaxAsked, task : 1..MaxTasks, merge : BOOLEAN]
Name == [at : 0..MaxClock, label : Label]

VARIABLES
  work,     \* the workspace
  refs,     \* name -> tree
  clock,    \* seconds
  session, seq, on,   \* number of this session, its tasks, its [checkpoints] enabled
  ask,      \* per asker: what its rollback is about to do
  touched,  \* history, per asker: files others wrote since its own snapshot
  writes, asked       \* history: how many so far

vars == <<work, refs, clock, session, seq, on, ask, touched, writes, asked>>
counts == <<clock, session, seq, on, writes, asked>>

NoAsk == [st |-> "off"]

Init ==
  /\ \E S \in SUBSET Files, c \in Contents : work = [f \in Files |-> IF f \in S THEN c ELSE Absent]
  /\ refs = [n \in {} |-> work]
  /\ clock = 0 /\ session = 1 /\ seq = 0 /\ on \in BOOLEAN
  /\ ask = [a \in Askers |-> NoAsk] /\ touched = [a \in Askers |-> {}]
  /\ writes = 0 /\ asked = 0

-----------------------------------------------------------------------------

Touched(files, by) ==
  [a \in Askers |-> IF a = by \/ ask[a].st = "off" THEN touched[a] ELSE touched[a] \cup files]
Changed(t, u) == {f \in Files : t[f] # u[f]}

\* An agent or the user writes or deletes a file
Write(f, c) ==
  /\ writes < MaxWrites /\ work[f] # c
  /\ work' = [work EXCEPT ![f] = c]
  /\ touched' = Touched({f}, "nobody")
  /\ writes' = writes + 1
  /\ UNCHANGED <<refs, clock, session, seq, on, ask, asked>>

Tick ==
  /\ clock < MaxClock
  /\ clock' = clock + 1
  /\ UNCHANGED <<work, refs, session, seq, on, ask, touched, writes, asked>>

\* Mutant: a ref that is there already is left alone
MutSnapshot(label) ==
  LET n == [at |-> clock, label |-> label]
  IN refs' = [m \in DOMAIN refs \cup {n} |-> IF m \in DOMAIN refs THEN refs[m] ELSE work]

\* Snapshot: the workspace under a name; a ref of that name is replaced
Snapshot(label) ==
  LET n == [at |-> clock, label |-> label]
  IN refs' = [m \in DOMAIN refs \cup {n} |-> IF m = n THEN work ELSE refs[m]]

Named(task, merge) == [pre |-> 0, task |-> task, merge |-> merge]

\* A task is delivered, after a snapshot unless they are off or git fails
Deliver ==
  /\ seq < MaxTasks
  /\ seq' = seq + 1
  /\ \/ on /\ Snapshot(Named(seq + 1, FALSE))
     \/ UNCHANGED refs
  /\ UNCHANGED <<work, clock, session, on, ask, touched, writes, asked>>

\* The branch of a role lands on the workspace, after a snapshot; what it brings
\* is a write of its own
Merge(task) ==
  /\ task <= seq /\ on
  /\ Snapshot(Named(task, TRUE))
  /\ UNCHANGED <<work, counts, ask, touched>>

\* Prune: the oldest refs go, in no particular order within a second
Prune(keep) ==
  \E kept \in SUBSET DOMAIN refs :
    /\ Cardinality(kept) = IF Cardinality(DOMAIN refs) < keep THEN Cardinality(DOMAIN refs) ELSE keep
    /\ \A n \in kept, m \in DOMAIN refs \ kept : m.at <= n.at
    /\ refs' = [n \in kept |-> refs[n]]

\* A session that is not resumed counts its tasks from one again; it prunes first.
\* To end one session and start the next takes a second.
NewSession ==
  /\ session < MaxSessions /\ clock < MaxClock
  /\ session' = session + 1 /\ seq' = 0 /\ clock' = clock + 1
  /\ on' \in BOOLEAN
  /\ IF on' THEN Prune(Keep) ELSE UNCHANGED refs
  /\ ask' = [ask EXCEPT !.deck = NoAsk] /\ touched' = [touched EXCEPT !.deck = {}]
  /\ UNCHANGED <<work, writes, asked>>

PruneCommand ==
  /\ Prune(Keep)
  /\ UNCHANGED <<work, counts, ask, touched>>

-----------------------------------------------------------------------------
(* Rollback *)

Newest(label) ==
  LET found == {n \in DOMAIN refs : n.label = label}
  IN {n \in found : \A m \in found : m.at <= n.at}

Missing(t, u) == {f \in Files : t[f] # Absent /\ u[f] = Absent}

\* Files of u that git pairs with files of t that u lacks: renamed, not added.  Which
\* ones of several, and whether any (diff.renames, diff.renameLimit), is left open.
Renamed(t, u) ==
  {R \in SUBSET Missing(u, t) :
     \E from \in Injection(R, Missing(t, u)) : \A f \in R : <<t[from[f]], u[f]>> \in Similar}

\* Mutant: what is in the checkpoint and not in the workspace is deleted
MutExtras(target, pre) == {Missing(target, pre) \ R : R \in Renamed(target, pre)}

\* Diff: files added since the checkpoint, as git diff --diff-filter=A lists them
Extras(target, pre) == {Missing(pre, target) \ R : R \in Renamed(target, pre)}

\* What is there now is kept under a name of its own, then the user is asked
\* whether to go back to n, unless nothing differs from it
Ask(a, n) ==
  LET label == [n.label EXCEPT !.pre = @ + 1] IN
  /\ ask[a].st = "off" /\ asked < MaxAsked
  /\ asked' = asked + 1
  /\ Snapshot(label)
  /\ \E extra \in Extras(refs[n], work) :
       ask' = IF refs[n] = work THEN ask
              ELSE [ask EXCEPT ![a] = [st |-> "ask", target |-> n, tree |-> refs[n], extra |-> extra,
                                       pre |-> [at |-> clock, label |-> label], before |-> work]]
  /\ UNCHANGED <<work, clock, session, seq, on, touched, writes>>

\* The deck goes by the id of a row on its board, the command by any name
AskDeck(task) == task <= seq /\ \E n \in Newest(Named(task, FALSE)) : Ask("deck", n)
AskCommand(n) == n \in DOMAIN refs /\ Ask("cli", n)

\* Anything but y; also the key that closes the result, and a failing step
Close(a) ==
  /\ ask[a].st # "off"
  /\ ask' = [ask EXCEPT ![a] = NoAsk]
  /\ touched' = [touched EXCEPT ![a] = {}]
  /\ UNCHANGED <<work, refs, counts>>

\* The files of the checkpoint are written; it can have been pruned by now
Restore(a) ==
  /\ ask[a].st = "ask" /\ ask[a].target \in DOMAIN refs
  /\ LET target == refs[ask[a].target] IN
     /\ work' = [f \in Files |-> IF target[f] = Absent THEN work[f] ELSE target[f]]
     /\ touched' = Touched(Changed(work, work'), a)
  /\ ask' = [ask EXCEPT ![a].st = "restored"]
  /\ UNCHANGED <<refs, counts>>

\* The files that were to go go, and the user is told how to undo it
Delete(a) ==
  /\ ask[a].st = "restored"
  /\ work' = [f \in Files |-> IF f \in ask[a].extra THEN Absent ELSE work[f]]
  /\ touched' = Touched(Changed(work, work'), a)
  /\ ask' = [ask EXCEPT ![a].st = "done"]
  /\ UNCHANGED <<refs, counts>>

-----------------------------------------------------------------------------

Next ==
  \/ \E f \in Files, c \in Contents \cup {Absent} : Write(f, c)
  \/ Tick \/ Deliver \/ NewSession \/ PruneCommand
  \/ \E task \in 1..MaxTasks : Merge(task) \/ AskDeck(task)
  \/ \E n \in DOMAIN refs : AskCommand(n)
  \/ \E a \in Askers : Close(a) \/ Restore(a) \/ Delete(a)

Spec == Init /\ [][Next]_vars

-----------------------------------------------------------------------------
(* Properties *)

\* Types.
TypeOK ==
  /\ work \in Tree
  /\ DOMAIN refs \subseteq Name /\ \A n \in DOMAIN refs : refs[n] \in Tree
  /\ clock \in 0..MaxClock /\ seq \in 0..MaxTasks /\ on \in BOOLEAN
  /\ \A a \in Askers : ask[a].st # "off" =>
       ask[a].st \in {"ask", "restored", "done"} /\ ask[a].target \in Name /\ ask[a].pre \in Name
       /\ ask[a].extra \subseteq Files
  /\ touched \in [Askers -> SUBSET Files]

Applies(a) == ask[a].st # "off" /\ ask'[a].st # ask[a].st /\ ask'[a].st # "off"

\* A rollback can be undone: whatever it overwrites or deletes is in the snapshot
\* taken before the question was put, but for what others wrote since.
UndoKept ==
  [][\A a \in Askers : Applies(a) =>
       \A f \in Changed(work, work') \ touched[a] :
         ask[a].pre \in DOMAIN refs => refs[ask[a].pre][f] = work[f]]_vars

Undisturbed(a) ==
  /\ ask[a].st = "done" /\ touched[a] = {}
  /\ ask[a].target \in DOMAIN refs /\ refs[ask[a].target] = ask[a].tree

\* A rollback nobody disturbs brings back every file of the checkpoint, and of the
\* others it leaves only what git takes for files of the checkpoint under new names:
\* no more of them than the checkpoint's own files that were missing, each as it was.
RollbackExact ==
  \A a \in Askers : Undisturbed(a) =>
    LET left == Changed(ask[a].tree, work) IN
      left \in Renamed(ask[a].tree, ask[a].before) /\ \A f \in left : work[f] = ask[a].before[f]

\* "`rollback` restores files (deleting ones the task created)"
\* (docs/configuration.md:291).  The code does not keep this: a file that the task
\* moved is there under both names afterwards (README, section 3).
CreatedDeleted == \A a \in Askers : Undisturbed(a) => work = ask[a].tree

\* "undo with: choragos rollback pre-rollback-T3" (rollback.go:85, and
\* docs/configuration.md:294): as long as its snapshot is not pruned, the name the
\* user was told leads back to what the rollback replaced.  The code does not keep
\* this: asking for the same rollback again takes the name (README, section 3).
UndoNameHolds ==
  \A a \in Askers : ask[a].st = "done" /\ touched[a] = {} =>
    \A n \in Newest(ask[a].pre.label) : refs[n] = ask[a].before

=============================================================================
