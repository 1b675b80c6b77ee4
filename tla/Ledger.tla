-------------------------------- MODULE Ledger --------------------------------
(***************************************************************************)
(* What the snapshot on disk promises to whoever resumes a session,        *)
(* whatever the deck was doing when it died: the session moves there by    *)
(* one whole operation at a time, and a worker hears of a task only when   *)
(* the task is the newest thing on disk.  Session, where each operation is *)
(* several effects with a crash possible between any two, implements this. *)
(***************************************************************************)
EXTENDS Integers, Sequences, SequencesExt

CONSTANTS
  Requests,  \* what is held for the user
  BoardCap   \* rows that are kept, 1 or more

VARIABLES
  saved,     \* the session on disk: its life, seq, board, gates and team
  told       \* the tasks workers were given

vars == <<saved, told>>

Afresh(life) == [life |-> life, seq |-> 0, board |-> <<>>, gates |-> <<>>, team |-> {}]

Task(id) == [kind |-> "delegate", id |-> id, open |-> TRUE]
Report(id) == [kind |-> "work-done", id |-> id, open |-> FALSE]

\* A board with one more row, the oldest dropped when it was full
With(board, row) ==
  LET all == Append(board, row)
  IN  SubSeq(all, IF Len(all) > BoardCap THEN Len(all) - BoardCap + 1 ELSE 1, Len(all))

Newest(board) == board[Len(board)]

\* What of seq is in S, in its order
Among(seq, S) == FoldLeft(LAMBDA acc, x : IF x \in S THEN Append(acc, x) ELSE acc, <<>>, seq)

-----------------------------------------------------------------------------
(* Operations: from session s to session t.  The team may change with any of   *)
(* them.                                                                       *)

SameTasks(s, t) == t.seq = s.seq /\ t.board = s.board

\* A task under a fresh id
Gives(s, t) ==
  /\ t.seq = s.seq + 1 /\ t.board = With(s.board, Task(s.seq + 1)) /\ t.gates = s.gates

\* A report of a task that was told
Reports(s, t) ==
  /\ \E x \in told : x.life = s.life /\ t.board = With(s.board, Report(x.id))
  /\ t.seq = s.seq /\ t.gates = s.gates

\* The reported task is closed
Closes(s, t) ==
  /\ \E i \in DOMAIN s.board : /\ s.board[i].open
                               /\ Newest(s.board) = Report(s.board[i].id)
                               /\ t.board = [s.board EXCEPT ![i].open = FALSE]
  /\ t.seq = s.seq /\ t.gates = s.gates

\* A request is held, the oldest one is ruled on, those of roles that left are dropped
Holds(s, t) == SameTasks(s, t) /\ \E g \in Requests : t.gates = Append(s.gates, g)
Rules(s, t) == SameTasks(s, t) /\ s.gates # <<>> /\ t.gates = Tail(s.gates)
Drops(s, t) ==
  SameTasks(s, t) /\ t.gates = Among(s.gates, {g \in Range(s.gates) : g.to \in t.team})
Keeps(s, t) == SameTasks(s, t) /\ t.gates = s.gates

Operation(s, t) ==
  /\ t.life = s.life
  /\ \/ Keeps(s, t)
     \/ Gives(s, t) \/ Reports(s, t) \/ Closes(s, t)
     \/ Holds(s, t) \/ Rules(s, t) \/ Drops(s, t)

-----------------------------------------------------------------------------

Init == saved = Afresh(0) /\ told = {}

\* A session's next operation, or a younger session's first, which replaces it
Save ==
  /\ \/ Operation(saved, saved')
     \/ saved'.life > saved.life /\ Operation(Afresh(saved'.life), saved')
  /\ UNCHANGED told

\* A worker is given the newest task, once
Tell ==
  /\ \E t \in told' \ told :
       /\ told' = told \cup {t}
       /\ t.life = saved.life /\ t.id = saved.seq
       /\ \A u \in told : u.life = t.life => u.id < t.id
       /\ saved.board # <<>> /\ Newest(saved.board) = Task(t.id)
  /\ UNCHANGED saved

Next == Save \/ Tell

Spec == Init /\ [][Next]_vars

=============================================================================
