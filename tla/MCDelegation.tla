---------------------------- MODULE MCDelegation ----------------------------
(* Values for TLC: one orchestrator and two to four roles. *)
EXTENDS Delegation

CONSTANTS orch, coder, writer, qa, reviewer

MCRoles == {orch, coder, writer, qa, reviewer}

\* Who judges whom, in the runs
NobodyJudges == [r \in MCRoles |-> NoRole]
ReviewerJudgesCoder == [NobodyJudges EXCEPT ![coder] = reviewer]
ReviewerJudgesBoth == [ReviewerJudgesCoder EXCEPT ![writer] = reviewer]

TwoRounds == [r \in MCRoles |-> 2]
WriterOneRound == [TwoRounds EXCEPT ![writer] = 1]

\* Two delegations of two rounds make eight rows at most.
EachOnce == [id \in 1 .. 8 |-> 1]
FirstTwice == [EachOnce EXCEPT ![1] = 2]

AllManual == [r \in MCRoles |-> "manual"]
WriterGateQaAuto == [AllManual EXCEPT ![writer] = "gate", ![qa] = "auto"]

-----------------------------------------------------------------------------
(* Liveness *)

\* A check is killed at its timeout and its goroutine then sends the result; the
\* ticker runs checkTimeouts for as long as the deck runs.  Nothing is assumed
\* of agents, processes or the user.
FairSpec ==
  /\ Spec
  /\ WF_vars(\E id \in checks : FinishCheck(id))
  /\ WF_vars(\E id \in DOMAIN board : Timeout(id))

\* The loop of the k-th delegation to a judged role
Loops(k) ==
  {id \in DOMAIN loops :
     Cardinality({o \in 1 .. loops[id].orig : board[o].loop = o}) = k}

InReview(k) == \E id \in Loops(k) : loops[id].phase # "build"

\* With a timeout on the judge a review never waits forever, in any round: whatever
\* the check, the judge and its process do, and whoever reports again, the loop goes
\* back to the builder, to the user, or passes.
ReviewEnds == \A k \in 1 .. MaxAsked : InReview(k) ~> ~InReview(k)

=============================================================================
