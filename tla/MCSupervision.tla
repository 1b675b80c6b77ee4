---------------------------- MODULE MCSupervision ----------------------------
(* Values for TLC: two builders and a reviewer. *)
EXTENDS Supervision

CONSTANTS coder, qa, reviewer

\* Who judges whom
ReviewerJudgesOthers == [r \in Roles |-> IF r = reviewer THEN NoRole ELSE reviewer]

OneRestart == [r \in Roles |-> 1]

-----------------------------------------------------------------------------
(* Liveness *)

\* The ticker runs bootPanes for as long as the deck runs, and the wait for a
\* boot line to show ends (bootVerifyAfter); a closed pane's stream sends its
\* message; an agent's screen comes to rest after its start.  Nothing is assumed
\* of agents reading or reporting, of processes living, or of the user.
FairSpec ==
  /\ Spec
  /\ WF_vars(BootPanes({}, Roles))
  /\ \A r \in Roles : WF_vars(Settle(r))
  /\ WF_vars(\E message \in closing : PaneClosed(message[1], message[2]))

\* A task held for a fresh pane's boot is typed in the end, whether or not the
\* boot line ever shows on the screen, and however often the process ends
\* before, unless the role has exited (bootPanes, autoRestart).
HeldTaskTyped ==
  \A r \in Roles : entry[r].pending ~> ~entry[r].pending \/ entry[r].exited

=============================================================================
