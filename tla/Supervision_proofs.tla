-------------------------- MODULE Supervision_proofs --------------------------
(***************************************************************************)
(* Proofs for every team, configuration and bound of module Supervision.   *)
(* Generations: the deck never counts a running process as exited, never   *)
(* misses one that has ended, and restarts none that runs.  Boots: a fresh *)
(* role's process hears of one task, after its boot line.  Files: no open  *)
(* task is lost.                                                           *)
(***************************************************************************)
EXTENDS Supervision, FiniteSetTheorems, TLAPS

\* Of a process the three facts need only that it has a life.
HasLife(c) == "up" \in DOMAIN c

PaneTyped ==
  /\ closing \subseteq Roles \X Nat
  /\ entry \in [Roles -> Entry]
  /\ DOMAIN child = Roles
  /\ \A r \in Roles : HasLife(child[r])

\* A message to come is of an older generation, or of the present one, whose
\* process has then ended.
MessagesOld ==
  \A r \in Roles, gen \in Nat :
    <<r, gen>> \in closing => \/ gen < entry[r].gen
                              \/ gen = entry[r].gen /\ ~child[r].up

PInv == PaneTyped /\ MessagesOld /\ ExitedIsDead /\ DeadIsNoticed

\* A step that leaves the generations, the exit flags, the processes' lives and
\* the messages alone leaves the invariant alone.
LEMMA SameLives ==
  ASSUME PInv, PaneTyped', closing' = closing,
         \A r \in Roles : /\ entry'[r].gen = entry[r].gen
                          /\ entry'[r].exited = entry[r].exited
                          /\ child'[r].up = child[r].up
  PROVE  PInv'
BY DEF PInv, MessagesOld, ExitedIsDead, DeadIsNoticed

\* A respawn starts a process under the next generation, or marks the role
\* exited under the present one.
LEMMA RespawnedEntry ==
  ASSUME NEW e \in Entry, NEW ok \in BOOLEAN
  PROVE  /\ Respawned(e, ok) \in Entry
         /\ ok => Respawned(e, ok).gen = e.gen + 1 /\ ~Respawned(e, ok).exited
         /\ ~ok => Respawned(e, ok).gen = e.gen /\ Respawned(e, ok).exited
<1>1. e.gen + 1 \in Nat /\ 0 \in 0 .. bootMaxTries
  BY DEF Entry, bootMaxTries
<1>2. CASE ok
  BY <1>1, <1>2 DEF Respawned, Entry
<1>3. CASE ~ok
  BY <1>3 DEF Respawned, Entry
<1>4. QED
  BY <1>2, <1>3

LEMMA NewChildLives == HasLife(NewChild) /\ NewChild.up
BY DEF NewChild, HasLife

LEMMA Ended ==
  ASSUME NEW c, HasLife(c)
  PROVE  HasLife([c EXCEPT !.up = FALSE]) /\ ~[c EXCEPT !.up = FALSE].up
BY DEF HasLife

\* A pane that is respawned, or fails to be, keeps the invariant, provided the
\* end of a running predecessor is put among the messages.
LEMMA RespawnKeeps ==
  ASSUME PInv, NEW r \in Roles, NEW e \in Entry, NEW ok \in BOOLEAN,
         e.gen = entry[r].gen,
         entry' = [entry EXCEPT ![r] = Respawned(e, ok)],
         child' = [child EXCEPT ![r] = IF ok THEN NewChild ELSE [@ EXCEPT !.up = FALSE]],
         \/ closing' = IF child[r].up THEN closing \cup {<<r, entry[r].gen>>} ELSE closing
         \/ closing' = closing \ {<<r, entry[r].gen>>} /\ ~child[r].up
  PROVE  PInv'
<1>0. /\ Respawned(e, ok) \in Entry
      /\ ok => Respawned(e, ok).gen = entry[r].gen + 1 /\ ~Respawned(e, ok).exited
      /\ ~ok => Respawned(e, ok).gen = entry[r].gen /\ Respawned(e, ok).exited
  BY RespawnedEntry
<1>1. HasLife([child[r] EXCEPT !.up = FALSE]) /\ ~[child[r] EXCEPT !.up = FALSE].up
  BY Ended DEF PInv, PaneTyped
<1>2. NewChild.up /\ HasLife(NewChild)
  BY NewChildLives
<1>3. entry[r].gen \in Nat
  BY DEF PInv, PaneTyped, Entry
<1>4. PaneTyped'
  BY <1>0, <1>1, <1>2, <1>3 DEF PInv, PaneTyped
<1>5. /\ entry'[r] = Respawned(e, ok)
      /\ ok => child'[r].up
      /\ ~ok => ~child'[r].up
      /\ \A s \in Roles \ {r} : entry'[s] = entry[s] /\ child'[s] = child[s]
  <2>1. DOMAIN entry = Roles /\ DOMAIN child = Roles
    BY DEF PInv, PaneTyped
  <2>2. (ok => child'[r].up) /\ (~ok => ~child'[r].up)
    <3>1. child'[r] = IF ok THEN NewChild ELSE [child[r] EXCEPT !.up = FALSE]
      BY <2>1
    <3>2. CASE ok
      BY <3>1, <3>2, <1>2
    <3>3. CASE ~ok
      BY <3>1, <3>3, <1>1
    <3>4. QED
      BY <3>2, <3>3
  <2>3. QED
    BY <2>1, <2>2
<1>6. \A m : m # <<r, entry[r].gen>> => (m \in closing' <=> m \in closing)
  OBVIOUS
<1>7. MessagesOld'
  <2>1. ASSUME NEW s \in Roles, NEW gen \in Nat, <<s, gen>> \in closing'
        PROVE  gen < entry'[s].gen \/ (gen = entry'[s].gen /\ ~child'[s].up)
    <3>1. CASE s # r
      BY <2>1, <3>1, <1>5, <1>6 DEF PInv, MessagesOld
    <3>2. CASE s = r
      <4>1. gen < entry[r].gen \/ gen = entry[r].gen
        <5>1. <<r, gen>> \in closing \/ <<r, gen>> = <<r, entry[r].gen>>
          BY <2>1, <3>2, <1>6
        <5>2. QED
          BY <5>1 DEF PInv, MessagesOld
      <4>2. CASE ok
        <5>1. entry'[r].gen = entry[r].gen + 1
          BY <4>2, <1>5, <1>0
        <5>2. QED
          BY <4>1, <5>1, <3>2, <1>3
      <4>3. CASE ~ok
        BY <4>1, <4>3, <3>2, <1>3, <1>5, <1>0
      <4>4. QED
        BY <4>2, <4>3
    <3>3. QED
      BY <3>1, <3>2
  <2>2. QED
    BY <2>1 DEF MessagesOld
<1>8. ExitedIsDead' /\ DeadIsNoticed'
  <2>1. ASSUME NEW s \in Roles
        PROVE  /\ entry'[s].exited => ~child'[s].up
               /\ ~child'[s].up /\ ~entry'[s].exited => <<s, entry'[s].gen>> \in closing'
    <3>1. CASE s # r
      BY <3>1, <1>5, <1>6 DEF PInv, ExitedIsDead, DeadIsNoticed
    <3>2. CASE s = r
      BY <3>2, <1>0, <1>5
    <3>3. QED
      BY <3>1, <3>2
  <2>2. QED
    BY <2>1 DEF ExitedIsDead, DeadIsNoticed
<1>9. QED
  BY <1>4, <1>7, <1>8 DEF PInv

LEMMA InitPInv == Init => PInv
BY NewChildLives DEF Init, PInv, PaneTyped, MessagesOld, ExitedIsDead, DeadIsNoticed,
   NewChild, Entry, bootMaxTries

\* A line typed leaves the process's life alone.
LEMMA TypedChild ==
  ASSUME NEW c, HasLife(c), NEW line
  PROVE  HasLife(Typed(c, line)) /\ Typed(c, line).up = c.up
BY DEF Typed, HasLife

LEMMA InjectKeeps ==
  ASSUME PInv, NEW r \in Roles, NEW kind \in Kind, NEW id, InjectNow(r, kind, id)
  PROVE  PInv'
<1>1. HasLife(Typed(child[r], kind)) /\ Typed(child[r], kind).up = child[r].up
  BY TypedChild DEF PInv, PaneTyped
<1>2. PaneTyped'
  BY <1>1 DEF InjectNow, PInv, PaneTyped
<1>3. \A s \in Roles : child'[s].up = child[s].up
  BY <1>1 DEF InjectNow, PInv, PaneTyped
<1>4. QED
  BY <1>2, <1>3, SameLives DEF InjectNow

LEMMA DeliverKeeps ==
  ASSUME PInv, NEW r \in Roles, NEW before, NEW ok \in BOOLEAN, DeliverDelegate(r, before, ok)
  PROVE  PInv'
<1>1. CASE r \in Fresh
  <2> DEFINE e == [entry[r] EXCEPT !.restarts = 0, !.pending = TRUE]
  <2>1. e \in Entry /\ e.gen = entry[r].gen
    BY DEF PInv, PaneTyped, Entry
  <2>2. Replace(r, e, file, ok)
    BY <1>1 DEF DeliverDelegate
  <2> HIDE DEF e
  <2>3. QED
    BY <2>1, <2>2, RespawnKeeps DEF Replace
<1>2. CASE r \notin Fresh
  BY <1>2, InjectKeeps DEF DeliverDelegate, Kind
<1>3. QED
  BY <1>1, <1>2

LEMMA WorkDoneKeeps ==
  ASSUME PInv, NEW r \in Roles, NEW id \in DOMAIN rows, WorkDone(r, id)
  PROVE  PInv'
<1> DEFINE b == rows[id].builder
           reported == [rows EXCEPT ![id].done = TRUE]
<1>1. CASE Available(Judge[b]) /\ DeliverJudgeRound(b, reported)
  BY <1>1, InjectKeeps DEF DeliverJudgeRound, Available, Kind
<1>2. CASE Available(b) /\ \E ok \in Spawns : DeliverDelegate(b, reported, ok)
  BY <1>2, DeliverKeeps DEF Available, Spawns
<1>3. CASE Conclude(reported)
  BY <1>3 DEF Conclude, PInv, PaneTyped, MessagesOld, ExitedIsDead, DeadIsNoticed
<1>4. QED
  BY <1>1, <1>2, <1>3 DEF WorkDone

\* bootPanes types lines and counts tries; it changes neither life nor generation.
LEMMA BootedKeeps ==
  ASSUME NEW e \in Entry, NEW c, HasLife(c), NEW landed \in BOOLEAN, NEW overdue \in BOOLEAN
  PROVE  LET after == Booted(e, c, landed, overdue)
         IN /\ after.e \in Entry /\ HasLife(after.c)
            /\ after.e.gen = e.gen /\ after.e.exited = e.exited
            /\ after.e.restarts = e.restarts /\ after.c.up = c.up
<1> DEFINE after == Booted(e, c, landed, overdue)
<1>1. /\ HasLife(Typed(c, "task")) /\ Typed(c, "task").up = c.up
      /\ HasLife(Typed(c, "boot")) /\ Typed(c, "boot").up = c.up
  BY TypedChild
<1> USE DEF Entry, bootMaxTries, Booted
<1>2. CASE e.exited
  BY <1>2
<1>3. CASE ~e.exited /\ e.booted /\ e.bootOK
  BY <1>1, <1>3
<1>4. CASE ~e.exited /\ ~e.booted
  <2>1. 1 \in 0 .. bootMaxTries
    OBVIOUS
  <2>2. CASE c.quiet
    BY <1>1, <1>4, <2>1, <2>2
  <2>3. CASE ~c.quiet
    BY <1>4, <2>3
  <2>4. QED
    BY <2>2, <2>3
<1>5. CASE ~e.exited /\ e.booted /\ ~e.bootOK
  <2>1. CASE landed \/ (overdue /\ e.bootTries >= bootMaxTries)
    BY <1>5, <2>1
  <2>2. CASE ~landed /\ overdue /\ ~(e.bootTries >= bootMaxTries)
    <3>1. e.bootTries + 1 \in 0 .. bootMaxTries
      BY <2>2
    <3>2. QED
      BY <1>1, <1>5, <2>2, <3>1
  <2>3. CASE ~landed /\ ~overdue
    BY <1>5, <2>3
  <2>4. QED
    BY <2>1, <2>2, <2>3
<1>6. QED
  BY <1>2, <1>3, <1>4, <1>5

LEMMA BootedPane ==
  ASSUME PInv, NEW landed \in SUBSET Roles, NEW overdue \in SUBSET Roles, NEW r \in Roles
  PROVE  LET after == Booted(entry[r], child[r], r \in landed, r \in overdue)
         IN /\ after.e \in Entry /\ HasLife(after.c)
            /\ after.e.gen = entry[r].gen /\ after.e.exited = entry[r].exited
            /\ after.e.restarts = entry[r].restarts /\ after.c.up = child[r].up
<1>1. entry[r] \in Entry /\ HasLife(child[r])
  BY DEF PInv, PaneTyped
<1>2. (r \in landed) \in BOOLEAN /\ (r \in overdue) \in BOOLEAN
  OBVIOUS
<1>3. QED
  BY <1>1, <1>2, BootedKeeps

LEMMA BootPanesKeeps ==
  ASSUME PInv, NEW landed \in SUBSET Roles, NEW overdue \in SUBSET Roles, BootPanes(landed, overdue)
  PROVE  PInv'
<1>1. ASSUME NEW r \in Roles
      PROVE  LET after == Booted(entry[r], child[r], r \in landed, r \in overdue)
             IN /\ after.e \in Entry /\ HasLife(after.c)
                /\ after.e.gen = entry[r].gen /\ after.e.exited = entry[r].exited
                /\ after.c.up = child[r].up
  BY BootedPane
<1>2. ASSUME NEW r \in Roles
      PROVE  /\ entry'[r] = Booted(entry[r], child[r], r \in landed, r \in overdue).e
             /\ child'[r] = Booted(entry[r], child[r], r \in landed, r \in overdue).c
  BY DEF BootPanes
<1>3. PaneTyped'
  BY <1>1 DEF BootPanes, PInv, PaneTyped
<1>4. QED
  BY <1>1, <1>2, <1>3, SameLives DEF BootPanes

LEMMA PaneClosedKeeps ==
  ASSUME PInv, NEW message \in closing, PaneClosed(message[1], message[2])
  PROVE  PInv'
<1> DEFINE r == message[1]
           gen == message[2]
<1>1. r \in Roles /\ gen \in Nat /\ message = <<r, gen>>
  BY DEF PInv, PaneTyped
<1> HIDE DEF r, gen
<1>2. closing' = closing \ {<<r, gen>>} /\ closing' \subseteq Roles \X Nat
  BY DEF PaneClosed, PInv, PaneTyped, r, gen
<1>3. gen = entry[r].gen => ~child[r].up
  BY <1>1, <1>2 DEF PInv, PaneTyped, MessagesOld, Entry
<1>4. CASE gen = entry[r].gen /\ Restarts(r)
  <2> DEFINE e == [entry[r] EXCEPT !.exited = TRUE, !.restarts = @ + 1]
  <2>1. e \in Entry /\ e.gen = entry[r].gen
    <3>1. entry[r] \in Entry /\ entry[r].restarts + 1 \in Nat
      BY <1>1 DEF PInv, PaneTyped, Entry
    <3>2. QED
      BY <3>1 DEF Entry
  <2>2. PICK ok \in Spawns :
          /\ entry' = [entry EXCEPT ![r] = Respawned(e, ok)]
          /\ child' = [child EXCEPT ![r] = IF ok THEN NewChild ELSE [@ EXCEPT !.up = FALSE]]
    BY <1>4 DEF PaneClosed, r, gen
  <2>3. ok \in BOOLEAN
    BY DEF Spawns
  <2>4. closing' = closing \ {<<r, entry[r].gen>>} /\ ~child[r].up
    BY <1>2, <1>3, <1>4
  <2> HIDE DEF e
  <2>5. QED
    BY <1>1, <2>1, <2>2, <2>3, <2>4, RespawnKeeps
<1>5. CASE gen = entry[r].gen /\ ~Restarts(r)
  <2>1. entry' = [entry EXCEPT ![r].exited = TRUE] /\ child' = child
    BY <1>5 DEF PaneClosed, r, gen
  <2>2. /\ [entry[r] EXCEPT !.exited = TRUE] \in Entry
        /\ [entry[r] EXCEPT !.exited = TRUE].gen = entry[r].gen
        /\ [entry[r] EXCEPT !.exited = TRUE].exited
    BY <1>1 DEF PInv, PaneTyped, Entry
  <2>3. PaneTyped'
    BY <1>1, <1>2, <2>1, <2>2 DEF PInv, PaneTyped
  <2>4. /\ entry'[r].gen = entry[r].gen /\ entry'[r].exited
        /\ \A s \in Roles \ {r} : entry'[s] = entry[s]
    BY <1>1, <2>1, <2>2 DEF PInv, PaneTyped
  <2>5. MessagesOld'
    BY <1>1, <1>2, <2>1, <2>4 DEF PInv, MessagesOld
  <2>6. ExitedIsDead' /\ DeadIsNoticed'
    BY <1>1, <1>2, <1>3, <1>5, <2>1, <2>4 DEF PInv, ExitedIsDead, DeadIsNoticed
  <2>7. QED
    BY <2>3, <2>5, <2>6 DEF PInv
<1>6. CASE gen # entry[r].gen
  <2>1. entry' = entry /\ child' = child
    BY <1>6 DEF PaneClosed, r, gen
  <2>2. \A s \in Roles : <<s, entry[s].gen>> \in closing => <<s, entry[s].gen>> \in closing'
    BY <1>2, <1>6
  <2>3. QED
    BY <1>2, <2>1, <2>2 DEF PInv, PaneTyped, MessagesOld, ExitedIsDead, DeadIsNoticed
<1>7. QED
  BY <1>4, <1>5, <1>6

LEMMA RestartKeeps ==
  ASSUME PInv, NEW r \in Roles, Restart(r)
  PROVE  PInv'
<1> DEFINE e == [entry[r] EXCEPT !.restarts = 0]
<1>1. e \in Entry /\ e.gen = entry[r].gen
  BY DEF PInv, PaneTyped, Entry
<1>2. PICK ok \in Spawns : Replace(r, e, file, ok)
  BY DEF Restart
<1>3. ok \in BOOLEAN
  BY DEF Spawns
<1> HIDE DEF e
<1>4. QED
  BY <1>1, <1>2, <1>3, RespawnKeeps DEF Replace

LEMMA DieKeeps ==
  ASSUME PInv, NEW r \in Roles, NEW code \in {"zero", "other"}, Die(r, code)
  PROVE  PInv'
<1>1. /\ HasLife([child[r] EXCEPT !.up = FALSE, !.code = code])
      /\ ~[child[r] EXCEPT !.up = FALSE, !.code = code].up
  BY DEF PInv, PaneTyped, HasLife
<1>2. /\ child' = [child EXCEPT ![r] = [child[r] EXCEPT !.up = FALSE, !.code = code]]
      /\ closing' = closing \cup {<<r, entry[r].gen>>}
      /\ entry' = entry /\ child[r].up
  BY DEF Die, PInv, PaneTyped
<1>3. entry[r].gen \in Nat
  BY DEF PInv, PaneTyped, Entry
<1>4. PaneTyped'
  BY <1>1, <1>2, <1>3 DEF PInv, PaneTyped
<1>5. ~child'[r].up /\ \A s \in Roles \ {r} : child'[s] = child[s]
  BY <1>1, <1>2 DEF PInv, PaneTyped
<1>6. MessagesOld'
  BY <1>2, <1>5 DEF PInv, MessagesOld
<1>7. ExitedIsDead' /\ DeadIsNoticed'
  BY <1>2, <1>5 DEF PInv, ExitedIsDead, DeadIsNoticed
<1>8. QED
  BY <1>4, <1>6, <1>7 DEF PInv

LEMMA AgentKeeps ==
  ASSUME PInv, NEW r \in Roles, Settle(r) \/ Read(r)
  PROVE  PInv'
<1> DEFINE c == child[r]
           d == [c EXCEPT !.read = @ + 1,
                          !.knows = IF c.lines[c.read + 1] \in Kind
                                    THEN @ \cup {file[c.lines[c.read + 1]][r]} ELSE @]
<1>1. CASE Settle(r)
  <2>1. HasLife([c EXCEPT !.quiet = TRUE]) /\ [c EXCEPT !.quiet = TRUE].up = c.up
    BY DEF PInv, PaneTyped, HasLife
  <2>2. child' = [child EXCEPT ![r] = [c EXCEPT !.quiet = TRUE]]
    BY <1>1 DEF Settle, PInv, PaneTyped
  <2>3. QED
    BY <1>1, <2>1, <2>2, SameLives DEF Settle, PInv, PaneTyped
<1>2. CASE Read(r)
  <2>1. child' = [child EXCEPT ![r] = d]
    BY <1>2 DEF Read, PInv, PaneTyped
  <2>2. HasLife(d) /\ d.up = c.up
    BY DEF PInv, PaneTyped, HasLife
  <2>3. QED
    BY <1>2, <2>1, <2>2, SameLives DEF Read, PInv, PaneTyped
<1>3. QED
  BY <1>1, <1>2

LEMMA NextPInv == PInv /\ [Next]_vars => PInv'
<1> SUFFICES ASSUME PInv, [Next]_vars PROVE PInv'
  OBVIOUS
<1>1. ASSUME NEW r \in Roles, Delegate(r) PROVE PInv'
  BY <1>1, DeliverKeeps DEF Delegate, Spawns
<1>2. ASSUME NEW r \in Roles, NEW id \in DOMAIN rows, WorkDone(r, id) PROVE PInv'
  BY <1>2, WorkDoneKeeps
<1>3. ASSUME NEW landed \in SUBSET Roles, NEW overdue \in SUBSET Roles, BootPanes(landed, overdue)
      PROVE  PInv'
  BY <1>3, BootPanesKeeps
<1>4. ASSUME NEW message \in closing, PaneClosed(message[1], message[2]) PROVE PInv'
  BY <1>4, PaneClosedKeeps
<1>5. ASSUME NEW r \in Roles, Restart(r) PROVE PInv'
  BY <1>5, RestartKeeps
<1>6. ASSUME NEW r \in Roles, NEW code \in {"zero", "other"}, Die(r, code) PROVE PInv'
  BY <1>6, DieKeeps
<1>7. ASSUME NEW r \in Roles, Settle(r) \/ Read(r) PROVE PInv'
  BY <1>7, AgentKeeps
<1>8. CASE UNCHANGED vars
  BY <1>8 DEF vars, PInv, PaneTyped, MessagesOld, ExitedIsDead, DeadIsNoticed
<1>9. QED
  BY <1>1, <1>2, <1>3, <1>4, <1>5, <1>6, <1>7, <1>8 DEF Next

\* The messages to come, the exit flags and the processes' lives agree in every
\* reachable state: the generations tell an old message from a new one.
THEOREM PanesAgree == Spec => []PInv
BY InitPInv, NextPInv, PTL DEF Spec

\* No running process is ever counted as exited.
THEOREM ExitedNeverRuns == Spec => []ExitedIsDead
<1>1. PInv => ExitedIsDead
  BY DEF PInv
<1>2. QED
  BY <1>1, PanesAgree, PTL

\* No process that ended is ever forgotten.
THEOREM DeathsAreNoticed == Spec => []DeadIsNoticed
<1>1. PInv => DeadIsNoticed
  BY DEF PInv
<1>2. QED
  BY <1>1, PanesAgree, PTL

\* Only a close message of the present generation makes the supervisor restart,
\* and by MessagesOld that process has ended.
SupervisorActed == \A r \in Roles : entry'[r].restarts > entry[r].restarts => ~child[r].up

LEMMA ResetEntry ==
  ASSUME NEW e \in Entry, NEW ok \in BOOLEAN
  PROVE  Respawned(e, ok).restarts = e.restarts
<1>1. CASE ok
  BY <1>1 DEF Respawned, Entry
<1>2. CASE ~ok
  BY <1>2 DEF Respawned, Entry
<1>3. QED
  BY <1>1, <1>2

LEMMA Counted ==
  ASSUME PInv
  PROVE  DOMAIN entry = Roles /\ \A r \in Roles : entry[r] \in Entry /\ entry[r].restarts \in Nat
BY DEF PInv, PaneTyped, Entry

LEMMA DeliverCounts ==
  ASSUME PInv, NEW r \in Roles, NEW before, NEW ok \in BOOLEAN, DeliverDelegate(r, before, ok)
  PROVE  SupervisorActed
<1>1. CASE r \in Fresh
  <2> DEFINE e == [entry[r] EXCEPT !.restarts = 0, !.pending = TRUE]
  <2>1. e \in Entry /\ e.restarts = 0
    BY DEF PInv, PaneTyped, Entry
  <2>2. entry' = [entry EXCEPT ![r] = Respawned(e, ok)]
    BY <1>1 DEF DeliverDelegate, Replace
  <2> HIDE DEF e
  <2>3. entry'[r].restarts = 0 /\ \A s \in Roles \ {r} : entry'[s] = entry[s]
    BY <2>1, <2>2, Counted, ResetEntry
  <2>4. QED
    BY <2>3, Counted DEF SupervisorActed
<1>2. CASE r \notin Fresh
  BY <1>2, Counted DEF DeliverDelegate, InjectNow, SupervisorActed
<1>3. QED
  BY <1>1, <1>2

LEMMA WorkDoneCounts ==
  ASSUME PInv, NEW r \in Roles, NEW id \in DOMAIN rows, WorkDone(r, id)
  PROVE  SupervisorActed
<1> DEFINE b == rows[id].builder
           reported == [rows EXCEPT ![id].done = TRUE]
<1>1. CASE DeliverJudgeRound(b, reported) \/ Conclude(reported)
  BY <1>1, Counted DEF DeliverJudgeRound, InjectNow, Conclude, SupervisorActed
<1>2. CASE Available(b) /\ \E ok \in Spawns : DeliverDelegate(b, reported, ok)
  BY <1>2, DeliverCounts DEF Available, Spawns
<1>3. QED
  BY <1>1, <1>2 DEF WorkDone

LEMMA PaneClosedCounts ==
  ASSUME PInv, NEW message \in closing, PaneClosed(message[1], message[2])
  PROVE  SupervisorActed
<1> DEFINE r == message[1]
           gen == message[2]
<1>1. r \in Roles /\ gen \in Nat /\ message = <<r, gen>>
  BY DEF PInv, PaneTyped
<1>2. \A s \in Roles \ {r} : entry'[s] = entry[s]
  BY Counted DEF PaneClosed
<1>3. CASE gen = entry[r].gen
  <2>1. ~child[r].up
    BY <1>1, <1>3, Counted DEF PInv, MessagesOld, Entry
  <2>2. QED
    BY <1>2, <2>1, Counted DEF SupervisorActed
<1>4. CASE gen # entry[r].gen
  BY <1>4, Counted DEF PaneClosed, SupervisorActed
<1>5. QED
  BY <1>3, <1>4

LEMMA NextCounts == PInv /\ [Next]_vars => SupervisorActed
<1> SUFFICES ASSUME PInv, [Next]_vars PROVE SupervisorActed
  OBVIOUS
<1>1. ASSUME NEW r \in Roles, Delegate(r) PROVE SupervisorActed
  BY <1>1, DeliverCounts DEF Delegate, Spawns
<1>2. ASSUME NEW r \in Roles, NEW id \in DOMAIN rows, WorkDone(r, id) PROVE SupervisorActed
  BY <1>2, WorkDoneCounts
<1>3. ASSUME NEW landed \in SUBSET Roles, NEW overdue \in SUBSET Roles, BootPanes(landed, overdue)
      PROVE  SupervisorActed
  <2>1. ASSUME NEW r \in Roles PROVE entry'[r].restarts = entry[r].restarts
    <3>1. entry'[r] = Booted(entry[r], child[r], r \in landed, r \in overdue).e
      BY <1>3 DEF BootPanes
    <3>2. QED
      BY <3>1, BootedPane
  <2>2. QED
    BY <2>1, Counted DEF SupervisorActed
<1>4. ASSUME NEW message \in closing, PaneClosed(message[1], message[2]) PROVE SupervisorActed
  BY <1>4, PaneClosedCounts
<1>5. ASSUME NEW r \in Roles, Restart(r) PROVE SupervisorActed
  <2> DEFINE e == [entry[r] EXCEPT !.restarts = 0]
  <2>1. e \in Entry /\ e.restarts = 0
    BY DEF PInv, PaneTyped, Entry
  <2>2. PICK ok \in BOOLEAN : entry' = [entry EXCEPT ![r] = Respawned(e, ok)]
    BY <1>5 DEF Restart, Replace, Spawns
  <2> HIDE DEF e
  <2>3. entry'[r].restarts = 0 /\ \A s \in Roles \ {r} : entry'[s] = entry[s]
    BY <2>1, <2>2, Counted, ResetEntry
  <2>4. QED
    BY <2>3, Counted DEF SupervisorActed
<1>6. ASSUME NEW r \in Roles, NEW code \in {"zero", "other"}, Die(r, code) PROVE SupervisorActed
  BY <1>6, Counted DEF Die, SupervisorActed
<1>7. ASSUME NEW r \in Roles, Settle(r) \/ Read(r) PROVE SupervisorActed
  BY <1>7, Counted DEF Settle, Read, SupervisorActed
<1>8. CASE UNCHANGED vars
  BY <1>8, Counted DEF vars, SupervisorActed
<1>9. QED
  BY <1>1, <1>2, <1>3, <1>4, <1>5, <1>6, <1>7, <1>8 DEF Next

\* The supervisor never kills a running process for the death of its predecessor.
THEOREM NoLiveRestart == Spec => RestartsOnlyTheDead
<1>1. PInv /\ [Next]_vars => [SupervisorActed]_vars
  BY NextCounts
<1>2. QED
  BY <1>1, PanesAgree, PTL DEF Spec, RestartsOnlyTheDead, SupervisorActed

-----------------------------------------------------------------------------
(* What a step does to one pane *)

Line == Kind \cup {"boot"}

\* A process reads what was typed into it from the front.
Loaded(c) ==
  /\ HasLife(c)
  /\ {"lines", "read", "knows"} \subseteq DOMAIN c
  /\ c.lines \in Seq(Line)
  /\ c.read \in 0 .. Len(c.lines)

\* Given of a process c of r's
GivenBy(c, r, f) ==
  c.knows \cup {f[c.lines[i]][r] : i \in {j \in c.read + 1 .. Len(c.lines) : c.lines[j] \in Kind}}

PanesLoaded == \A r \in Roles : Loaded(child[r])

\* The pane goes on: nothing is typed, and the deck's plans for it stay.
Kept(r) ==
  /\ child'[r].lines = child[r].lines /\ child'[r].up = child[r].up /\ Loaded(child'[r])
  /\ entry'[r].pending = entry[r].pending /\ entry'[r].booted = entry[r].booted
  /\ GivenBy(child[r], r, file) \subseteq GivenBy(child'[r], r, file)

\* What the process was given is lost with it; a held task stays held.
LosesProcess(r) == Given(r, file) \subseteq lost' /\ (entry[r].pending => entry'[r].pending)

Replaced(r) == child'[r] = NewChild /\ ~entry'[r].booted /\ LosesProcess(r)

Ends(r) ==
  /\ child'[r].lines = child[r].lines /\ ~child'[r].up /\ Loaded(child'[r])
  /\ LosesProcess(r)

\* Only a role that is not fresh is told of a task at once.
Told(r) ==
  /\ entry'[r] = entry[r]
  /\ \E k \in Kind : (r \in Fresh => k = "verdict") /\ child'[r] = Typed(child[r], k)

Boots(r) ==
  \E landed, overdue \in BOOLEAN :
    /\ entry'[r] = Booted(entry[r], child[r], landed, overdue).e
    /\ child'[r] = Booted(entry[r], child[r], landed, overdue).c
    /\ entry[r].pending /\ ~entry'[r].pending /\ ~child[r].up => file["task"][r] \in lost'

PaneSteps ==
  /\ lost \subseteq lost'
  /\ \A r \in Roles : Kept(r) \/ Replaced(r) \/ Ends(r) \/ Told(r) \/ Boots(r)

LEMMA UntouchedKept ==
  ASSUME PanesLoaded, NEW r \in Roles, entry'[r] = entry[r], child'[r] = child[r]
  PROVE  Kept(r)
BY DEF PanesLoaded, Kept

LEMMA RespawnedUnbooted ==
  ASSUME NEW e \in Entry
  PROVE  /\ ~Respawned(e, TRUE).booted
         /\ Respawned(e, TRUE).pending = e.pending
         /\ Respawned(e, FALSE).pending = e.pending
BY DEF Respawned, Entry

LEMMA EndedLoaded ==
  ASSUME NEW c, Loaded(c)
  PROVE  /\ Loaded([c EXCEPT !.up = FALSE])
         /\ [c EXCEPT !.up = FALSE].lines = c.lines
         /\ ~[c EXCEPT !.up = FALSE].up
BY DEF Loaded, HasLife

\* A respawn replaces the process or leaves none.
LEMMA RespawnMoves ==
  ASSUME PInv, PanesLoaded, NEW r \in Roles, NEW e \in Entry, NEW ok \in BOOLEAN,
         entry[r].pending => e.pending,
         lost' = lost \cup Given(r, file),
         entry' = [entry EXCEPT ![r] = Respawned(e, ok)],
         child' = [child EXCEPT ![r] = IF ok THEN NewChild ELSE [@ EXCEPT !.up = FALSE]]
  PROVE  PaneSteps
<1>1. DOMAIN entry = Roles /\ DOMAIN child = Roles
  BY DEF PInv, PaneTyped
<1>2. \A s \in Roles \ {r} : Kept(s)
  BY <1>1, UntouchedKept
<1>3. entry'[r] = Respawned(e, ok)
  BY <1>1
<1>4. child'[r] = IF ok THEN NewChild ELSE [child[r] EXCEPT !.up = FALSE]
  BY <1>1
<1>5. CASE ok
  <2>1. entry'[r] = Respawned(e, TRUE)
    BY <1>3, <1>5
  <2>2. Replaced(r)
    BY <1>4, <1>5, <2>1, RespawnedUnbooted DEF Replaced, LosesProcess
  <2>3. QED
    BY <1>2, <2>2 DEF PaneSteps
<1>6. CASE ~ok
  <2>1. Loaded(child[r])
    BY DEF PanesLoaded
  <2>2. entry'[r] = Respawned(e, FALSE)
    BY <1>3, <1>6
  <2>3. LosesProcess(r)
    BY <2>2, RespawnedUnbooted DEF LosesProcess
  <2>4. child'[r] = [child[r] EXCEPT !.up = FALSE]
    BY <1>4, <1>6
  <2>5. Ends(r)
    BY <2>1, <2>3, <2>4, EndedLoaded DEF Ends
  <2>6. QED
    BY <1>2, <2>5 DEF PaneSteps
<1>7. QED
  BY <1>5, <1>6

LEMMA InjectMoves ==
  ASSUME PInv, PanesLoaded, NEW r \in Roles, NEW kind \in Kind, NEW id,
         r \in Fresh => kind = "verdict", InjectNow(r, kind, id)
  PROVE  PaneSteps
<1>1. DOMAIN entry = Roles /\ DOMAIN child = Roles
  BY DEF PInv, PaneTyped
<1>2. \A s \in Roles \ {r} : Kept(s)
  BY <1>1, UntouchedKept DEF InjectNow
<1>3. child'[r] = Typed(child[r], kind) /\ entry' = entry
  BY <1>1 DEF InjectNow
<1>4. lost \subseteq lost'
  BY DEF InjectNow
<1>5. QED
  BY <1>2, <1>3, <1>4 DEF PaneSteps, Told

LEMMA DeliverMoves ==
  ASSUME PInv, PanesLoaded, NEW r \in Roles, NEW before, NEW ok \in BOOLEAN,
         DeliverDelegate(r, before, ok)
  PROVE  PaneSteps
<1>1. CASE r \in Fresh
  <2> DEFINE e == [entry[r] EXCEPT !.restarts = 0, !.pending = TRUE]
  <2>1. e \in Entry /\ e.pending
    BY DEF PInv, PaneTyped, Entry
  <2>2. Replace(r, e, file, ok)
    BY <1>1 DEF DeliverDelegate
  <2> HIDE DEF e
  <2>3. QED
    BY <2>1, <2>2, RespawnMoves DEF Replace
<1>2. CASE r \notin Fresh
  BY <1>2, InjectMoves DEF DeliverDelegate, Kind
<1>3. QED
  BY <1>1, <1>2

LEMMA WorkDoneMoves ==
  ASSUME PInv, PanesLoaded, NEW r \in Roles, NEW id \in DOMAIN rows, WorkDone(r, id)
  PROVE  PaneSteps
<1> DEFINE b == rows[id].builder
           reported == [rows EXCEPT ![id].done = TRUE]
<1>1. CASE Available(Judge[b]) /\ DeliverJudgeRound(b, reported)
  BY <1>1, InjectMoves DEF DeliverJudgeRound, Available, Kind
<1>2. CASE Available(b) /\ \E ok \in Spawns : DeliverDelegate(b, reported, ok)
  BY <1>2, DeliverMoves DEF Available, Spawns
<1>3. CASE Conclude(reported)
  BY <1>3, UntouchedKept DEF Conclude, PaneSteps
<1>4. QED
  BY <1>1, <1>2, <1>3 DEF WorkDone

LEMMA PaneClosedMoves ==
  ASSUME PInv, PanesLoaded, NEW message \in closing, PaneClosed(message[1], message[2])
  PROVE  PaneSteps
<1> DEFINE r == message[1]
           gen == message[2]
<1>1. r \in Roles
  BY DEF PInv, PaneTyped
<1> HIDE DEF r, gen
<1>2. CASE gen = entry[r].gen /\ Restarts(r)
  <2> DEFINE e == [entry[r] EXCEPT !.exited = TRUE, !.restarts = @ + 1]
  <2>1. e \in Entry /\ e.pending = entry[r].pending
    <3>1. entry[r] \in Entry /\ entry[r].restarts + 1 \in Nat
      BY <1>1 DEF PInv, PaneTyped, Entry
    <3>2. QED
      BY <3>1 DEF Entry
  <2>2. PICK ok \in Spawns :
          /\ lost' = lost \cup Given(r, file)
          /\ entry' = [entry EXCEPT ![r] = Respawned(e, ok)]
          /\ child' = [child EXCEPT ![r] = IF ok THEN NewChild ELSE [@ EXCEPT !.up = FALSE]]
    BY <1>2 DEF PaneClosed, r, gen
  <2>3. ok \in BOOLEAN
    BY DEF Spawns
  <2> HIDE DEF e
  <2>4. QED
    BY <1>1, <2>1, <2>2, <2>3, RespawnMoves
<1>3. CASE gen = entry[r].gen /\ ~Restarts(r)
  <2>1. entry' = [entry EXCEPT ![r].exited = TRUE] /\ child' = child
    BY <1>3 DEF PaneClosed, r, gen
  <2>2. \A s \in Roles : /\ entry'[s].pending = entry[s].pending
                         /\ entry'[s].booted = entry[s].booted
    BY <2>1 DEF PInv, PaneTyped, Entry
  <2>3. lost' = lost
    BY <1>3 DEF PaneClosed, r, gen
  <2>4. QED
    BY <2>1, <2>2, <2>3 DEF PaneSteps, Kept, PanesLoaded
<1>4. CASE gen # entry[r].gen
  BY <1>4, UntouchedKept DEF PaneClosed, PaneSteps, r, gen
<1>5. QED
  BY <1>2, <1>3, <1>4

\* A line read goes from what is to be read to what is known.
LEMMA ReadGiven ==
  ASSUME NEW c, NEW d, NEW r, Loaded(c), d.lines = c.lines, d.read = c.read + 1,
         d.knows = IF c.lines[c.read + 1] \in Kind
                   THEN c.knows \cup {file[c.lines[c.read + 1]][r]} ELSE c.knows
  PROVE  GivenBy(c, r, file) \subseteq GivenBy(d, r, file)
<1> SUFFICES ASSUME NEW id \in GivenBy(c, r, file) PROVE id \in GivenBy(d, r, file)
  OBVIOUS
<1>1. CASE id \in c.knows
  BY <1>1 DEF GivenBy
<1>2. CASE id \notin c.knows
  <2>1. PICK j \in c.read + 1 .. Len(c.lines) : c.lines[j] \in Kind /\ id = file[c.lines[j]][r]
    BY <1>2 DEF GivenBy
  <2>2. CASE j = c.read + 1
    BY <2>1, <2>2 DEF GivenBy
  <2>3. CASE j # c.read + 1
    <3>1. j \in d.read + 1 .. Len(d.lines)
      BY <2>1, <2>3 DEF Loaded
    <3>2. QED
      BY <2>1, <3>1 DEF GivenBy
  <2>4. QED
    BY <2>2, <2>3
<1>3. QED
  BY <1>1, <1>2

LEMMA AgentMoves ==
  ASSUME PInv, PanesLoaded, NEW r \in Roles, Settle(r) \/ Read(r)
  PROVE  PaneSteps
<1> DEFINE c == child[r]
           d == [c EXCEPT !.read = @ + 1,
                          !.knows = IF c.lines[c.read + 1] \in Kind
                                    THEN @ \cup {file[c.lines[c.read + 1]][r]} ELSE @]
<1>1. DOMAIN child = Roles /\ entry' = entry /\ lost' = lost /\ Loaded(c)
  BY DEF PInv, PaneTyped, Settle, Read, PanesLoaded
<1>2. \A s \in Roles \ {r} : Kept(s)
  BY <1>1, UntouchedKept DEF Settle, Read
<1>3. CASE Settle(r)
  <2>1. child'[r] = [c EXCEPT !.quiet = TRUE]
    BY <1>1, <1>3 DEF Settle
  <2>2. Loaded([c EXCEPT !.quiet = TRUE]) /\ [c EXCEPT !.quiet = TRUE].lines = c.lines
        /\ [c EXCEPT !.quiet = TRUE].up = c.up
        /\ GivenBy([c EXCEPT !.quiet = TRUE], r, file) = GivenBy(c, r, file)
    BY <1>1 DEF Loaded, HasLife, GivenBy
  <2>3. QED
    BY <1>1, <1>2, <2>1, <2>2 DEF PaneSteps, Kept
<1>4. CASE Read(r)
  <2>1. child'[r] = d
    BY <1>1, <1>4 DEF Read
  <2>2. /\ HasLife(d) /\ {"lines", "read", "knows"} \subseteq DOMAIN d
        /\ d.lines = c.lines /\ d.up = c.up
        /\ d.read = c.read + 1
        /\ d.knows = IF c.lines[c.read + 1] \in Kind
                     THEN c.knows \cup {file[c.lines[c.read + 1]][r]} ELSE c.knows
    BY <1>1 DEF Loaded, HasLife
  <2> HIDE DEF d
  <2>3. Loaded(d)
    BY <1>1, <1>4, <2>2 DEF Loaded, Read
  <2>4. GivenBy(c, r, file) \subseteq GivenBy(d, r, file)
    BY <1>1, <2>2, ReadGiven
  <2>5. QED
    BY <1>1, <1>2, <2>1, <2>2, <2>3, <2>4 DEF PaneSteps, Kept
<1>5. QED
  BY <1>3, <1>4

LEMMA DieMoves ==
  ASSUME PInv, PanesLoaded, NEW r \in Roles, NEW code \in {"zero", "other"}, Die(r, code)
  PROVE  PaneSteps
<1> DEFINE c == child[r]
           d == [c EXCEPT !.up = FALSE, !.code = code]
<1>1. DOMAIN child = Roles /\ entry' = entry /\ Loaded(c)
  BY DEF PInv, PaneTyped, Die, PanesLoaded
<1>2. \A s \in Roles \ {r} : Kept(s)
  BY <1>1, UntouchedKept DEF Die
<1>3. child'[r] = d
  BY <1>1 DEF Die
<1>4. Loaded(d) /\ d.lines = c.lines /\ ~d.up
  BY <1>1 DEF Loaded, HasLife
<1>5. lost' = lost \cup Given(r, file)
  BY DEF Die
<1> HIDE DEF d
<1>6. Ends(r)
  BY <1>1, <1>3, <1>4, <1>5 DEF Ends, LosesProcess
<1>7. QED
  BY <1>2, <1>5, <1>6 DEF PaneSteps

\* Every step leaves each pane alone, replaces or ends its process, types a line
\* into it, or boots it.
LEMMA NextMoves == PInv /\ PanesLoaded /\ [Next]_vars => PaneSteps
<1> SUFFICES ASSUME PInv, PanesLoaded, [Next]_vars PROVE PaneSteps
  OBVIOUS
<1>1. ASSUME NEW r \in Roles, Delegate(r) PROVE PaneSteps
  BY <1>1, DeliverMoves DEF Delegate, Spawns
<1>2. ASSUME NEW r \in Roles, NEW id \in DOMAIN rows, WorkDone(r, id) PROVE PaneSteps
  BY <1>2, WorkDoneMoves
<1>3. ASSUME NEW landed \in SUBSET Roles, NEW overdue \in SUBSET Roles, BootPanes(landed, overdue)
      PROVE  PaneSteps
  <2>1. ASSUME NEW r \in Roles PROVE Boots(r)
    <3>1. /\ entry'[r] = Booted(entry[r], child[r], r \in landed, r \in overdue).e
          /\ child'[r] = Booted(entry[r], child[r], r \in landed, r \in overdue).c
      BY <1>3 DEF BootPanes
    <3>2. (r \in landed) \in BOOLEAN /\ (r \in overdue) \in BOOLEAN
      OBVIOUS
    <3>3. entry[r].pending /\ ~entry'[r].pending /\ ~child[r].up => file["task"][r] \in lost'
      BY <1>3, <3>1 DEF BootPanes
    <3>4. QED
      BY <3>1, <3>2, <3>3 DEF Boots
  <2>2. lost \subseteq lost'
    BY <1>3 DEF BootPanes
  <2>3. QED
    BY <2>1, <2>2 DEF PaneSteps
<1>4. ASSUME NEW message \in closing, PaneClosed(message[1], message[2]) PROVE PaneSteps
  BY <1>4, PaneClosedMoves
<1>5. ASSUME NEW r \in Roles, Restart(r) PROVE PaneSteps
  <2> DEFINE e == [entry[r] EXCEPT !.restarts = 0]
  <2>1. e \in Entry /\ e.pending = entry[r].pending
    BY DEF PInv, PaneTyped, Entry
  <2>2. PICK ok \in Spawns : Replace(r, e, file, ok)
    BY <1>5 DEF Restart
  <2>3. ok \in BOOLEAN
    BY DEF Spawns
  <2> HIDE DEF e
  <2>4. QED
    BY <2>1, <2>2, <2>3, RespawnMoves DEF Replace
<1>6. ASSUME NEW r \in Roles, NEW code \in {"zero", "other"}, Die(r, code) PROVE PaneSteps
  BY <1>6, DieMoves
<1>7. ASSUME NEW r \in Roles, Settle(r) \/ Read(r) PROVE PaneSteps
  BY <1>7, AgentMoves
<1>8. CASE UNCHANGED vars
  BY <1>8, UntouchedKept DEF vars, PaneSteps
<1>9. QED
  BY <1>1, <1>2, <1>3, <1>4, <1>5, <1>6, <1>7, <1>8 DEF Next

-----------------------------------------------------------------------------
(* A fresh role's process is told of one task, after its boot line *)

\* A running process with a task held for it has none yet, and one that counts
\* as booted has its boot line.
Clean(e, c) ==
  /\ \A i \in TasksTyped(c) : \E j \in 1 .. i - 1 : c.lines[j] = "boot"
  /\ \A i, j \in TasksTyped(c) : i = j
  /\ c.up /\ e.pending => TasksTyped(c) = {}
  /\ c.up /\ e.booted => \E j \in DOMAIN c.lines : c.lines[j] = "boot"

CleanInv ==
  /\ PInv
  /\ PanesLoaded
  /\ \A r \in Fresh : Clean(entry[r], child[r])

LEMMA NewChildLoaded == Loaded(NewChild) /\ TasksTyped(NewChild) = {}
BY DEF NewChild, Loaded, HasLife, TasksTyped

\* The lines of a process that runs, after one is typed into it
LEMMA TypedLoaded ==
  ASSUME NEW c, Loaded(c), NEW line \in Line
  PROVE  /\ Loaded(Typed(c, line))
         /\ Typed(c, line).up = c.up
         /\ c.up => Typed(c, line).lines = Append(c.lines, line)
         /\ ~c.up => Typed(c, line) = c
BY DEF Typed, Loaded, HasLife

LEMMA CleanOther ==
  ASSUME NEW e, NEW f, NEW c, NEW d, Clean(e, c), d.lines = c.lines,
         d.up => c.up /\ (f.pending => e.pending) /\ (f.booted => e.booted)
  PROVE  Clean(f, d)
BY DEF Clean, TasksTyped

\* A line that is no task keeps a pane clean; the boot line lets it count as booted.
LEMMA CleanTyped ==
  ASSUME NEW e, NEW f, NEW c, Loaded(c), Clean(e, c), NEW line \in Line \ {"task"},
         c.up => /\ f.pending => e.pending
                 /\ f.booted => e.booted \/ line = "boot"
  PROVE  Clean(f, Typed(c, line))
<1> DEFINE d == Typed(c, line)
<1>1. CASE ~c.up
  BY <1>1, TypedLoaded DEF Clean
<1>2. CASE c.up
  <2>1. d.up /\ d.lines = Append(c.lines, line) /\ c.lines \in Seq(Line)
    BY <1>2, TypedLoaded DEF Loaded
  <2> HIDE DEF d
  <2>2. /\ Len(d.lines) = Len(c.lines) + 1 /\ d.lines[Len(c.lines) + 1] = line
        /\ \A i \in 1 .. Len(c.lines) : d.lines[i] = c.lines[i]
        /\ DOMAIN d.lines = 1 .. Len(c.lines) + 1 /\ DOMAIN c.lines = 1 .. Len(c.lines)
        /\ Len(c.lines) \in Nat
    BY <2>1
  <2>3. TasksTyped(d) = TasksTyped(c)
    BY <2>2 DEF TasksTyped
  <2>4. \A i \in TasksTyped(d) : \E j \in 1 .. i - 1 : d.lines[j] = "boot"
    <3>1. ASSUME NEW i \in TasksTyped(d) PROVE \E j \in 1 .. i - 1 : d.lines[j] = "boot"
      <4>1. PICK j \in 1 .. i - 1 : c.lines[j] = "boot"
        BY <2>3 DEF Clean
      <4>2. i \in 1 .. Len(c.lines)
        BY <2>2, <2>3 DEF TasksTyped
      <4>3. QED
        BY <2>2, <4>1, <4>2
    <3>2. QED
      BY <3>1
  <2>5. f.pending => TasksTyped(d) = {}
    BY <1>2, <2>3 DEF Clean
  <2>6. f.booted => \E j \in DOMAIN d.lines : d.lines[j] = "boot"
    <3>1. CASE line = "boot"
      BY <2>2, <3>1
    <3>2. CASE f.booted /\ e.booted
      BY <1>2, <2>2, <3>2 DEF Clean
    <3>3. QED
      BY <1>2, <3>1, <3>2
  <2>7. \A i, j \in TasksTyped(d) : i = j
    BY <2>3 DEF Clean
  <2>8. Clean(f, d)
    BY <2>4, <2>5, <2>6, <2>7 DEF Clean
  <2>9. QED
    BY <2>8 DEF d
<1>3. QED
  BY <1>1, <1>2

\* The held task is typed into a booted process: it is its only one.
LEMMA CleanHeld ==
  ASSUME NEW e, NEW f, NEW c, Loaded(c), Clean(e, c), e.pending, e.booted,
         ~f.pending, f.booted
  PROVE  Clean(f, Typed(c, "task"))
<1> DEFINE d == Typed(c, "task")
<1>0. "task" \in Line
  BY DEF Line, Kind
<1>1. CASE ~c.up
  BY <1>0, <1>1, TypedLoaded DEF Clean
<1>2. CASE c.up
  <2>1. d.up /\ d.lines = Append(c.lines, "task") /\ c.lines \in Seq(Line)
    BY <1>0, <1>2, TypedLoaded DEF Loaded
  <2> HIDE DEF d
  <2>2. /\ Len(d.lines) = Len(c.lines) + 1 /\ d.lines[Len(c.lines) + 1] = "task"
        /\ \A i \in 1 .. Len(c.lines) : d.lines[i] = c.lines[i]
        /\ DOMAIN d.lines = 1 .. Len(c.lines) + 1 /\ DOMAIN c.lines = 1 .. Len(c.lines)
        /\ Len(c.lines) \in Nat
    BY <2>1
  <2>3. TasksTyped(c) = {}
    BY <1>2 DEF Clean
  <2>4. TasksTyped(d) = {Len(c.lines) + 1}
    BY <2>2, <2>3 DEF TasksTyped
  <2>5. PICK j \in DOMAIN c.lines : c.lines[j] = "boot"
    BY <1>2 DEF Clean
  <2>6. j \in 1 .. Len(c.lines) + 1 - 1 /\ d.lines[j] = "boot" /\ j \in DOMAIN d.lines
    BY <2>2, <2>5
  <2>7. Clean(f, d)
    BY <2>4, <2>6 DEF Clean
  <2>8. QED
    BY <2>7 DEF d
<1>3. QED
  BY <1>1, <1>2

LEMMA CleanBooted ==
  ASSUME NEW e \in Entry, NEW c, Loaded(c), Clean(e, c), NEW landed \in BOOLEAN, NEW overdue \in BOOLEAN
  PROVE  LET after == Booted(e, c, landed, overdue) IN Clean(after.e, after.c)
<1> DEFINE after == Booted(e, c, landed, overdue)
<1>0. "boot" \in Line \ {"task"}
  BY DEF Line, Kind
<1>1. CASE e.exited
  BY <1>1 DEF Booted
<1>2. CASE ~e.exited /\ e.booted /\ e.bootOK
  <2> DEFINE f == [e EXCEPT !.pending = FALSE]
  <2>1. ~f.pending /\ f.booted
    BY <1>2 DEF Entry
  <2> HIDE DEF f
  <2>2. CASE e.pending
    <3>1. after.e = f /\ after.c = Typed(c, "task")
      BY <1>2, <2>2 DEF Booted, f
    <3>2. QED
      BY <1>2, <2>1, <2>2, <3>1, CleanHeld
  <2>3. CASE ~e.pending
    <3>1. after.e = f /\ after.c = c
      BY <1>2, <2>3 DEF Booted, f
    <3>2. QED
      BY <1>2, <2>1, <3>1, CleanOther
  <2>4. QED
    BY <2>2, <2>3
<1>3. CASE ~e.exited /\ ~e.booted
  <2> DEFINE f == [e EXCEPT !.booted = TRUE, !.bootTries = 1]
  <2>1. f.pending = e.pending
    BY DEF Entry
  <2> HIDE DEF f
  <2>2. CASE c.quiet
    <3>1. after.e = f /\ after.c = Typed(c, "boot")
      BY <1>3, <2>2 DEF Booted, f
    <3>2. QED
      BY <1>0, <2>1, <3>1, CleanTyped
  <2>3. CASE ~c.quiet
    BY <1>3, <2>3 DEF Booted
  <2>4. QED
    BY <2>2, <2>3
<1>4. CASE ~e.exited /\ e.booted /\ ~e.bootOK
  <2>1. CASE landed \/ (overdue /\ e.bootTries >= bootMaxTries)
    <3> DEFINE f == [e EXCEPT !.bootOK = TRUE]
    <3>1. f.pending = e.pending /\ f.booted = e.booted
      BY DEF Entry
    <3>2. after.e = f /\ after.c = c
      BY <1>4, <2>1 DEF Booted
    <3> HIDE DEF f
    <3>3. QED
      BY <3>1, <3>2, CleanOther
  <2>2. CASE ~(landed \/ (overdue /\ e.bootTries >= bootMaxTries)) /\ overdue
    <3> DEFINE f == [e EXCEPT !.bootTries = @ + 1]
    <3>1. f.pending = e.pending /\ f.booted = e.booted
      BY DEF Entry
    <3>2. after.e = f /\ after.c = Typed(c, "boot")
      BY <1>4, <2>2 DEF Booted
    <3> HIDE DEF f
    <3>3. QED
      BY <1>0, <3>1, <3>2, CleanTyped
  <2>3. CASE ~(landed \/ (overdue /\ e.bootTries >= bootMaxTries)) /\ ~overdue
    BY <1>4, <2>3 DEF Booted
  <2>4. QED
    BY <2>1, <2>2, <2>3
<1>5. QED
  BY <1>1, <1>2, <1>3, <1>4

LEMMA BootedLoaded ==
  ASSUME NEW e, NEW c, Loaded(c), NEW landed \in BOOLEAN, NEW overdue \in BOOLEAN
  PROVE  Loaded(Booted(e, c, landed, overdue).c)
<1>1. "boot" \in Line /\ "task" \in Line
  BY DEF Line, Kind
<1>2. Loaded(Typed(c, "boot")) /\ Loaded(Typed(c, "task"))
  BY <1>1, TypedLoaded
<1>3. (Booted(e, c, landed, overdue)).c \in {c, Typed(c, "boot"), Typed(c, "task")}
  <2>1. CASE e.exited
    BY <2>1 DEF Booted
  <2>2. CASE ~e.exited /\ e.booted /\ e.bootOK
    BY <2>2 DEF Booted
  <2>3. CASE ~e.exited /\ ~e.booted
    BY <2>3 DEF Booted
  <2>4. CASE ~e.exited /\ e.booted /\ ~e.bootOK
    BY <2>4 DEF Booted
  <2>5. QED
    BY <2>1, <2>2, <2>3, <2>4
<1>4. QED
  BY <1>2, <1>3

LEMMA MovesLoaded ==
  ASSUME PanesLoaded, PaneSteps
  PROVE  PanesLoaded'
<1>1. ASSUME NEW r \in Roles PROVE Loaded(child'[r])
  <2>1. CASE Kept(r) \/ Ends(r)
    BY <2>1 DEF Kept, Ends
  <2>2. CASE Replaced(r)
    BY <2>2, NewChildLoaded DEF Replaced
  <2>3. CASE Told(r)
    BY <2>3, TypedLoaded DEF Told, PanesLoaded, Line
  <2>4. CASE Boots(r)
    BY <2>4, BootedLoaded DEF Boots, PanesLoaded
  <2>5. QED
    BY <2>1, <2>2, <2>3, <2>4 DEF PaneSteps
<1>2. QED
  BY <1>1 DEF PanesLoaded

LEMMA MovesClean ==
  ASSUME CleanInv, PaneSteps, NEW r \in Fresh
  PROVE  Clean(entry'[r], child'[r])
<1>1. r \in Roles /\ Clean(entry[r], child[r]) /\ Loaded(child[r]) /\ entry[r] \in Entry
  BY SupervisionAssumption DEF CleanInv, PanesLoaded, PInv, PaneTyped
<1>2. CASE Kept(r) \/ Ends(r)
  BY <1>1, <1>2, CleanOther DEF Kept, Ends
<1>3. CASE Replaced(r)
  BY <1>3, NewChildLoaded DEF Replaced, Clean
<1>4. CASE Told(r)
  <2>1. child'[r] = Typed(child[r], "verdict") /\ entry'[r] = entry[r] /\ "verdict" \in Line \ {"task"}
    BY <1>4 DEF Told, Line, Kind
  <2>2. QED
    BY <1>1, <2>1, CleanTyped
<1>5. CASE Boots(r)
  BY <1>1, <1>5, CleanBooted DEF Boots
<1>6. QED
  BY <1>1, <1>2, <1>3, <1>4, <1>5 DEF PaneSteps

LEMMA InitClean == Init => CleanInv
<1> SUFFICES ASSUME Init PROVE CleanInv
  OBVIOUS
<1>1. PInv
  BY InitPInv
<1>2. \A r \in Roles : child[r] = NewChild /\ ~entry[r].booted
  BY DEF Init
<1>3. PanesLoaded
  BY <1>2, NewChildLoaded DEF PanesLoaded
<1>4. \A r \in Roles : Clean(entry[r], child[r])
  BY <1>2, NewChildLoaded DEF Clean
<1>5. QED
  BY <1>1, <1>3, <1>4, SupervisionAssumption DEF CleanInv

LEMMA NextClean == CleanInv /\ [Next]_vars => CleanInv'
<1> SUFFICES ASSUME CleanInv, [Next]_vars PROVE CleanInv'
  OBVIOUS
<1>1. PInv' /\ PaneSteps
  BY NextPInv, NextMoves DEF CleanInv
<1>2. PanesLoaded'
  BY <1>1, MovesLoaded DEF CleanInv
<1>3. QED
  BY <1>1, <1>2, MovesClean DEF CleanInv

\* A fresh role's process never hears of a second task, nor of a first before
\* its boot line, however deliveries, restarts and boots interleave.
THEOREM FreshStartsClean == Spec => []CleanContext
<1>1. CleanInv => CleanContext
  <2> SUFFICES ASSUME CleanInv, NEW r \in Fresh
               PROVE  /\ Cardinality(TasksTyped(child[r])) <= 1
                      /\ \A i \in TasksTyped(child[r]) : \E j \in 1 .. i - 1 : child[r].lines[j] = "boot"
    BY DEF CleanContext
  <2> DEFINE T == TasksTyped(child[r])
  <2>1. Clean(entry[r], child[r])
    BY DEF CleanInv
  <2>2. CASE T = {}
    BY <2>1, <2>2, FS_EmptySet DEF Clean
  <2>3. CASE T # {}
    <3>1. PICK i : T = {i}
      BY <2>1, <2>3 DEF Clean
    <3>2. Cardinality(T) = 1
      BY <3>1, FS_Singleton
    <3>3. QED
      BY <2>1, <3>2 DEF Clean
  <2>4. QED
    BY <2>2, <2>3
<1>2. QED
  BY <1>1, InitClean, NextClean, PTL DEF Spec

-----------------------------------------------------------------------------
(* No open task is lost *)

LedgerTyped ==
  /\ rows \in Seq(Row)
  /\ file \in [Kind -> [Roles -> 0 .. Len(rows)]]

\* Whom a row is for
RowShape ==
  \A id \in DOMAIN rows :
    rows[id].to = IF rows[id].kind = "task" THEN rows[id].builder ELSE Judge[rows[id].builder]

\* A file carries a task of its kind, for its role.
FileShape ==
  \A k \in Kind, r \in Roles :
    file[k][r] # 0 => rows[file[k][r]].kind = k /\ rows[file[k][r]].to = r

\* A patient orchestrator has one delegation open with a builder, which one row
\* serves at a time.
OneOpen ==
  \A i, j \in DOMAIN rows :
    ~rows[i].done /\ ~rows[j].done /\ rows[i].builder = rows[j].builder => i = j

LedgerInv == LedgerTyped /\ RowShape /\ FileShape /\ OneOpen

LostInv == PInv /\ PanesLoaded /\ LedgerInv /\ NothingLost

\* A judge scores one builder's work: with two, the second round's file
\* overwrites that of the first.
Unshared == \A a, b \in Roles : Judge[a] = Judge[b] /\ Judge[a] # NoRole => a = b

\* A line typed into a running process adds what its file carries.
LEMMA TypedGiven ==
  ASSUME NEW c, Loaded(c), NEW line \in Line, NEW r, NEW f
  PROVE  /\ GivenBy(c, r, f) \subseteq GivenBy(Typed(c, line), r, f)
         /\ c.up /\ line \in Kind => f[line][r] \in GivenBy(Typed(c, line), r, f)
<1> DEFINE d == Typed(c, line)
<1>1. CASE ~c.up
  BY <1>1, TypedLoaded
<1>2. CASE c.up
  <2>1. d.lines = Append(c.lines, line) /\ d.read = c.read /\ d.knows = c.knows
    BY <1>2 DEF Typed, Loaded, HasLife
  <2> HIDE DEF d
  <2>2. /\ Len(d.lines) = Len(c.lines) + 1 /\ d.lines[Len(c.lines) + 1] = line
        /\ \A i \in 1 .. Len(c.lines) : d.lines[i] = c.lines[i]
        /\ Len(c.lines) \in Nat /\ c.read \in 0 .. Len(c.lines)
    BY <2>1 DEF Loaded
  <2>3. ASSUME NEW j \in c.read + 1 .. Len(c.lines), c.lines[j] \in Kind
        PROVE  j \in d.read + 1 .. Len(d.lines) /\ d.lines[j] = c.lines[j]
    BY <2>1, <2>2
  <2>4. GivenBy(c, r, f) \subseteq GivenBy(d, r, f)
    BY <2>1, <2>3 DEF GivenBy
  <2>5. ASSUME line \in Kind PROVE f[line][r] \in GivenBy(d, r, f)
    <3>1. Len(c.lines) + 1 \in d.read + 1 .. Len(d.lines)
      BY <2>1, <2>2
    <3>2. d.lines[Len(c.lines) + 1] \in Kind
      BY <2>2, <2>5
    <3>3. QED
      BY <2>2, <3>1, <3>2 DEF GivenBy
  <2>6. QED
    BY <2>4, <2>5 DEF d
<1>3. QED
  BY <1>1, <1>2

LEMMA BootedGiven ==
  ASSUME NEW e \in Entry, NEW c, Loaded(c), NEW landed \in BOOLEAN, NEW overdue \in BOOLEAN,
         NEW r, NEW f
  PROVE  LET after == Booted(e, c, landed, overdue)
         IN /\ GivenBy(c, r, f) \subseteq GivenBy(after.c, r, f)
            /\ e.pending /\ ~after.e.pending /\ c.up => f["task"][r] \in GivenBy(after.c, r, f)
<1> DEFINE after == Booted(e, c, landed, overdue)
<1>1. "boot" \in Line /\ "task" \in Line /\ "task" \in Kind
  BY DEF Line, Kind
<1>2. /\ GivenBy(c, r, f) \subseteq GivenBy(Typed(c, "boot"), r, f)
      /\ GivenBy(c, r, f) \subseteq GivenBy(Typed(c, "task"), r, f)
      /\ c.up => f["task"][r] \in GivenBy(Typed(c, "task"), r, f)
  BY <1>1, TypedGiven
<1>3. after.c \in {c, Typed(c, "boot"), Typed(c, "task")}
      /\ (after.e.pending \/ ~e.pending \/ after.c = Typed(c, "task"))
  <2>1. CASE e.exited
    BY <2>1 DEF Booted
  <2>2. CASE ~e.exited /\ e.booted /\ e.bootOK
    <3>1. CASE e.pending
      BY <2>2, <3>1 DEF Booted
    <3>2. CASE ~e.pending
      BY <2>2, <3>2 DEF Booted
    <3>3. QED
      BY <3>1, <3>2
  <2>3. CASE ~e.exited /\ ~e.booted
    <3>1. CASE c.quiet
      BY <2>3, <3>1 DEF Booted, Entry
    <3>2. CASE ~c.quiet
      BY <2>3, <3>2 DEF Booted, Entry
    <3>3. QED
      BY <3>1, <3>2
  <2>4. CASE ~e.exited /\ e.booted /\ ~e.bootOK
    <3>1. CASE landed \/ (overdue /\ e.bootTries >= bootMaxTries)
      BY <2>4, <3>1 DEF Booted, Entry
    <3>2. CASE ~(landed \/ (overdue /\ e.bootTries >= bootMaxTries)) /\ overdue
      BY <2>4, <3>2 DEF Booted, Entry
    <3>3. CASE ~(landed \/ (overdue /\ e.bootTries >= bootMaxTries)) /\ ~overdue
      BY <2>4, <3>3 DEF Booted, Entry
    <3>4. QED
      BY <3>1, <3>2, <3>3
  <2>5. QED
    BY <2>1, <2>2, <2>3, <2>4
<1>4. QED
  BY <1>2, <1>3

\* A task within a pane's reach, or already lost, stays so, as long as its file
\* is not overwritten.
Within(r, id) ==
  \/ id \in GivenBy(child[r], r, file)
  \/ entry[r].pending /\ file["task"][r] = id

LEMMA MovesReach ==
  ASSUME PInv, PanesLoaded, PaneSteps, NEW r \in Roles, NEW id, Within(r, id)
  PROVE  \/ id \in lost'
         \/ id \in GivenBy(child'[r], r, file)
         \/ entry'[r].pending /\ file["task"][r] = id
<1>1. Loaded(child[r]) /\ entry[r] \in Entry
  BY DEF PanesLoaded, PInv, PaneTyped
<1>2. CASE Kept(r)
  BY <1>2 DEF Kept, Within
<1>3. CASE Replaced(r) \/ Ends(r)
  <2>1. LosesProcess(r)
    BY <1>3 DEF Replaced, Ends
  <2>2. QED
    BY <2>1 DEF LosesProcess, Within, Given, GivenBy
<1>4. CASE Told(r)
  BY <1>1, <1>4, TypedGiven DEF Told, Within, Line
<1>5. CASE Boots(r)
  <2>1. PICK landed \in BOOLEAN, overdue \in BOOLEAN :
          /\ entry'[r] = Booted(entry[r], child[r], landed, overdue).e
          /\ child'[r] = Booted(entry[r], child[r], landed, overdue).c
          /\ entry[r].pending /\ ~entry'[r].pending /\ ~child[r].up => file["task"][r] \in lost'
    BY <1>5 DEF Boots
  <2>2. /\ GivenBy(child[r], r, file) \subseteq GivenBy(child'[r], r, file)
        /\ entry[r].pending /\ ~entry'[r].pending /\ child[r].up
             => file["task"][r] \in GivenBy(child'[r], r, file)
    BY <1>1, <2>1, BootedGiven
  <2>3. QED
    BY <2>1, <2>2 DEF Within
<1>6. QED
  BY <1>2, <1>3, <1>4, <1>5 DEF PaneSteps

\* The rows a report leaves: the same rows, some of them done
After(before) ==
  /\ before \in Seq(Row)
  /\ Len(before) = Len(rows)
  /\ \A i \in DOMAIN rows : /\ before[i].to = rows[i].to
                            /\ before[i].kind = rows[i].kind
                            /\ before[i].builder = rows[i].builder
                            /\ rows[i].done => before[i].done

\* A row open after the step was open before, and no file that carried it was
\* overwritten.
Stays(id) ==
  /\ id \in DOMAIN rows
  /\ rows'[id].to = rows[id].to
  /\ rows'[id].kind = rows[id].kind
  /\ ~rows[id].done
  /\ \A k \in Kind, s \in Roles : file[k][s] = id => file'[k][s] = id

LEMMA Sizes ==
  ASSUME LedgerInv
  PROVE  /\ Len(rows) \in Nat /\ DOMAIN rows = 1 .. Len(rows)
         /\ \A i \in DOMAIN rows : rows[i] \in Row
BY DEF LedgerInv, LedgerTyped

LEMMA NewRow ==
  ASSUME NEW r \in Roles, NEW kind \in Kind, NEW builder \in Roles
  PROVE  LET row == [to |-> r, kind |-> kind, builder |-> builder, done |-> FALSE]
         IN row \in Row /\ row.to = r /\ row.kind = kind /\ row.builder = builder /\ ~row.done
BY DEF Row

\* A row and its file are put down when every row that served the builder is
\* done: the rows and files keep their shape, and no open task's file is lost.
LEMMA RecordKeeps ==
  ASSUME LedgerInv, Unshared, NEW r \in Roles, NEW kind \in Kind, NEW builder \in Roles,
         NEW before, After(before), Record(r, kind, builder, before),
         r = IF kind = "task" THEN builder ELSE Judge[builder],
         \A i \in DOMAIN before : before[i].builder = builder => before[i].done
  PROVE  /\ LedgerInv'
         /\ DOMAIN rows' = 1 .. Len(rows) + 1
         /\ rows'[Len(rows) + 1].to = r /\ rows'[Len(rows) + 1].kind = kind
         /\ file'[kind][r] = Len(rows) + 1
         /\ \A id \in DOMAIN rows : ~rows'[id].done => Stays(id)
<1> DEFINE n == Len(rows) + 1
           row == [to |-> r, kind |-> kind, builder |-> builder, done |-> FALSE]
<1>1. /\ Len(rows) \in Nat /\ DOMAIN rows = 1 .. Len(rows) /\ DOMAIN before = 1 .. Len(rows)
      /\ before \in Seq(Row) /\ Len(before) = Len(rows)
  BY Sizes DEF After
<1>2. row \in Row /\ row.to = r /\ row.kind = kind /\ row.builder = builder /\ ~row.done
  BY NewRow
<1>3. rows' = Append(before, row) /\ file' = [file EXCEPT ![kind][r] = n]
  BY <1>1 DEF Record
<1> HIDE DEF row, n
<1>4. /\ rows' \in Seq(Row) /\ Len(rows') = Len(rows) + 1
      /\ DOMAIN rows' = 1 .. Len(rows) + 1
      /\ rows'[Len(rows) + 1] = row
      /\ \A i \in 1 .. Len(rows) : rows'[i] = before[i]
  BY <1>1, <1>2, <1>3
<1>5. \A i \in 1 .. Len(rows) : /\ rows'[i].to = rows[i].to
                                /\ rows'[i].kind = rows[i].kind
                                /\ rows'[i].builder = rows[i].builder
                                /\ rows[i].done => rows'[i].done
  BY <1>1, <1>4 DEF After
<1>6. n = Len(rows) + 1 /\ file \in [Kind -> [Roles -> 0 .. Len(rows)]]
  BY DEF n, LedgerInv, LedgerTyped
<1>7. /\ file'[kind][r] = n
      /\ \A k \in Kind, s \in Roles : k # kind \/ s # r => file'[k][s] = file[k][s]
  BY <1>3, <1>6
<1>8. LedgerTyped'
  <2>1. file' \in [Kind -> [Roles -> 0 .. Len(rows')]]
    <3>1. [file[kind] EXCEPT ![r] = n] \in [Roles -> 0 .. Len(rows')]
      BY <1>1, <1>4, <1>6
    <3>2. \A k \in Kind : file[k] \in [Roles -> 0 .. Len(rows')]
      BY <1>1, <1>4, <1>6
    <3>3. QED
      BY <1>3, <1>6, <3>1, <3>2
  <2>2. QED
    BY <1>4, <2>1 DEF LedgerTyped
<1>9. RowShape'
  <2>1. ASSUME NEW id \in DOMAIN rows'
        PROVE  rows'[id].to = IF rows'[id].kind = "task" THEN rows'[id].builder
                                                         ELSE Judge[rows'[id].builder]
    <3>1. CASE id = Len(rows) + 1
      BY <1>2, <1>4, <3>1
    <3>2. CASE id \in 1 .. Len(rows)
      BY <1>1, <1>5, <3>2 DEF LedgerInv, RowShape
    <3>3. QED
      BY <1>1, <1>4, <3>1, <3>2
  <2>2. QED
    BY <2>1 DEF RowShape
<1>10. FileShape'
  <2>1. ASSUME NEW k \in Kind, NEW s \in Roles, file'[k][s] # 0
        PROVE  rows'[file'[k][s]].kind = k /\ rows'[file'[k][s]].to = s
    <3>1. CASE k = kind /\ s = r
      BY <1>2, <1>4, <1>6, <1>7, <3>1
    <3>2. CASE k # kind \/ s # r
      <4>1. file'[k][s] = file[k][s] /\ file[k][s] \in 1 .. Len(rows)
        BY <1>1, <1>6, <1>7, <2>1, <3>2
      <4>2. QED
        BY <1>5, <2>1, <4>1 DEF LedgerInv, FileShape
    <3>3. QED
      BY <3>1, <3>2
  <2>2. QED
    BY <2>1 DEF FileShape
<1>11. OneOpen'
  <2>1. ASSUME NEW i \in DOMAIN rows', NEW j \in DOMAIN rows', ~rows'[i].done, ~rows'[j].done,
               rows'[i].builder = rows'[j].builder
        PROVE  i = j
    <3>1. \A m \in 1 .. Len(rows) : rows'[m].builder = builder => rows'[m].done
      BY <1>1, <1>4
    <3>2. CASE i = Len(rows) + 1 \/ j = Len(rows) + 1
      BY <1>2, <1>4, <2>1, <3>1, <3>2
    <3>3. CASE i \in 1 .. Len(rows) /\ j \in 1 .. Len(rows)
      <4>1. ~rows[i].done /\ ~rows[j].done /\ rows[i].builder = rows[j].builder
        BY <1>5, <2>1, <3>3
      <4>2. QED
        BY <1>1, <3>3, <4>1 DEF LedgerInv, OneOpen
    <3>4. QED
      BY <1>1, <1>4, <3>2, <3>3
  <2>2. QED
    BY <2>1 DEF OneOpen
<1>12. ASSUME NEW id \in DOMAIN rows, ~rows'[id].done PROVE Stays(id)
  <2>1. id \in 1 .. Len(rows) /\ ~rows[id].done
    BY <1>1, <1>5, <1>12
  <2>2. ASSUME NEW k \in Kind, NEW s \in Roles, file[k][s] = id
        PROVE  k # kind \/ s # r
    <3>1. SUFFICES ASSUME k = kind, s = r PROVE FALSE
      OBVIOUS
    <3>2. rows[id].kind = kind /\ rows[id].to = r
      BY <2>1, <2>2, <3>1 DEF LedgerInv, FileShape
    <3>3. r = IF kind = "task" THEN rows[id].builder ELSE Judge[rows[id].builder]
      BY <3>2 DEF LedgerInv, RowShape
    <3>4. rows[id].builder \in Roles
      BY Sizes DEF Row
    <3>5. rows[id].builder = builder
      <4>1. CASE kind = "task"
        BY <3>3, <4>1
      <4>2. CASE kind # "task"
        BY <3>3, <3>4, <4>2, SupervisionAssumption DEF Unshared
      <4>3. QED
        BY <4>1, <4>2
    <3>6. rows'[id].done
      BY <1>1, <1>4, <2>1, <3>5 DEF After
    <3>7. QED
      BY <1>12, <3>6
  <2>3. QED
    BY <1>5, <1>7, <2>1, <2>2 DEF Stays
<1>13. QED
  BY <1>2, <1>4, <1>6, <1>7, <1>8, <1>9, <1>10, <1>11, <1>12 DEF LedgerInv

\* What a step must show for the open tasks: each was open before with its file
\* kept, or is new and within reach.
LEMMA NothingLostKept ==
  ASSUME LostInv, PaneSteps, LedgerInv',
         \A id \in DOMAIN rows' : ~rows'[id].done =>
           \/ Stays(id)
           \/ id \in lost'
           \/ id \in GivenBy(child'[rows'[id].to], rows'[id].to, file')
           \/ /\ entry'[rows'[id].to].pending /\ rows'[id].kind = "task"
              /\ file'["task"][rows'[id].to] = id
  PROVE  NothingLost'
<1> SUFFICES ASSUME NEW id \in DOMAIN rows', ~rows'[id].done,
                    id \notin lost'
             PROVE  \/ id \in GivenBy(child'[rows'[id].to], rows'[id].to, file')
                    \/ /\ entry'[rows'[id].to].pending /\ rows'[id].kind = "task"
                       /\ file'["task"][rows'[id].to] = id
  BY DEF NothingLost, Given, GivenBy
<1> DEFINE r == rows[id].to
<1>1. CASE Stays(id)
  <2>1. id \in DOMAIN rows /\ rows'[id].to = r /\ rows'[id].kind = rows[id].kind /\ r \in Roles
    BY <1>1, Sizes DEF Stays, LostInv, Row
  <2>2. id \notin lost
    BY DEF PaneSteps
  <2>3. Within(r, id)
    BY <1>1, <2>1, <2>2 DEF LostInv, NothingLost, Stays, Given, GivenBy, Within
  <2>4. \/ id \in GivenBy(child'[r], r, file)
        \/ entry'[r].pending /\ file["task"][r] = id
    BY <2>1, <2>3, MovesReach DEF LostInv
  <2>5. CASE id \in GivenBy(child'[r], r, file)
    <3>1. ASSUME NEW i \in child'[r].read + 1 .. Len(child'[r].lines), child'[r].lines[i] \in Kind,
                 file[child'[r].lines[i]][r] = id
          PROVE  file'[child'[r].lines[i]][r] = id
      BY <1>1, <2>1, <3>1 DEF Stays
    <3>2. id \in GivenBy(child'[r], r, file')
      BY <2>5, <3>1 DEF GivenBy
    <3>3. QED
      BY <2>1, <3>2
  <2>6. CASE entry'[r].pending /\ file["task"][r] = id
    <3>1. "task" \in Kind
      BY DEF Kind
    <3>2. file'["task"][r] = id
      BY <1>1, <2>1, <2>6, <3>1 DEF Stays
    <3>3. rows[id].kind = "task"
      BY <2>1, <2>6, <3>1, Sizes DEF LostInv, LedgerInv, FileShape
    <3>4. QED
      BY <2>1, <2>6, <3>2, <3>3
  <2>7. QED
    BY <2>4, <2>5, <2>6
<1>2. CASE ~Stays(id)
  BY <1>2
<1>3. QED
  BY <1>1, <1>2

\* A line typed at once tells the task, or the process has ended and the task
\* is lost with it.
LEMMA InjectTells ==
  ASSUME PInv, PanesLoaded, NEW r \in Roles, NEW kind \in Kind, NEW id,
         InjectNow(r, kind, id), file'[kind][r] = id
  PROVE  id \in lost' \/ id \in GivenBy(child'[r], r, file')
<1>1. child'[r] = Typed(child[r], kind) /\ Loaded(child[r]) /\ kind \in Line
  BY DEF InjectNow, PInv, PaneTyped, PanesLoaded, Line
<1>2. CASE child[r].up
  BY <1>1, <1>2, TypedGiven
<1>3. CASE ~child[r].up
  BY <1>3 DEF InjectNow
<1>4. QED
  BY <1>2, <1>3

\* A fresh role's task is held for the boot of its process.
LEMMA ReplaceHolds ==
  ASSUME PInv, NEW r \in Roles, NEW e \in Entry, NEW ok \in BOOLEAN, e.pending,
         Replace(r, e, file, ok)
  PROVE  entry'[r].pending
<1>1. entry'[r] = Respawned(e, ok)
  BY DEF Replace, PInv, PaneTyped
<1>2. CASE ok
  BY <1>1, <1>2, RespawnedUnbooted
<1>3. CASE ~ok
  BY <1>1, <1>3, RespawnedUnbooted
<1>4. QED
  BY <1>2, <1>3

LEMMA DeliverLoses ==
  ASSUME LostInv, Unshared, PaneSteps, NEW r \in Roles, NEW before, After(before),
         NEW ok \in BOOLEAN, DeliverDelegate(r, before, ok),
         \A i \in DOMAIN before : before[i].builder = r => before[i].done
  PROVE  LedgerInv' /\ NothingLost'
<1> DEFINE n == Len(rows) + 1
<1>1. "task" \in Kind /\ Len(before) = Len(rows) /\ Record(r, "task", r, before)
  BY DEF Kind, After, DeliverDelegate
<1>2. /\ LedgerInv'
      /\ DOMAIN rows' = 1 .. Len(rows) + 1
      /\ rows'[n].to = r /\ rows'[n].kind = "task" /\ file'["task"][r] = n
      /\ \A id \in DOMAIN rows : ~rows'[id].done => Stays(id)
  BY <1>1, RecordKeeps DEF LostInv
<1>3. \A id \in DOMAIN rows' : id \in DOMAIN rows \/ id = n
  BY <1>2, Sizes DEF LostInv
<1>4. \/ n \in lost'
      \/ n \in GivenBy(child'[r], r, file')
      \/ entry'[r].pending
  <2>1. CASE r \in Fresh
    <3> DEFINE e == [entry[r] EXCEPT !.restarts = 0, !.pending = TRUE]
    <3>1. e \in Entry /\ e.pending
      BY DEF LostInv, PInv, PaneTyped, Entry
    <3>2. Replace(r, e, file, ok)
      BY <2>1 DEF DeliverDelegate
    <3> HIDE DEF e
    <3>3. QED
      BY <3>1, <3>2, ReplaceHolds DEF LostInv
  <2>2. CASE r \notin Fresh
    <3>1. InjectNow(r, "task", n)
      BY <1>1, <2>2 DEF DeliverDelegate
    <3>2. QED
      BY <1>1, <1>2, <3>1, InjectTells DEF LostInv
  <2>3. QED
    BY <2>1, <2>2
<1> HIDE DEF n
<1>5. QED
  BY <1>2, <1>3, <1>4, NothingLostKept

LEMMA JudgeRoundLoses ==
  ASSUME LostInv, Unshared, PaneSteps, NEW b \in Roles, Judge[b] \in Roles,
         NEW before, After(before), DeliverJudgeRound(b, before),
         \A i \in DOMAIN before : before[i].builder = b => before[i].done
  PROVE  LedgerInv' /\ NothingLost'
<1> DEFINE n == Len(rows) + 1
           r == Judge[b]
<1>1. /\ "verdict" \in Kind /\ Len(before) = Len(rows) /\ Record(r, "verdict", b, before)
      /\ InjectNow(r, "verdict", n)
  BY DEF Kind, After, DeliverJudgeRound
<1>2. /\ LedgerInv'
      /\ DOMAIN rows' = 1 .. Len(rows) + 1
      /\ rows'[n].to = r /\ rows'[n].kind = "verdict" /\ file'["verdict"][r] = n
      /\ \A id \in DOMAIN rows : ~rows'[id].done => Stays(id)
  BY <1>1, RecordKeeps DEF LostInv
<1>3. \A id \in DOMAIN rows' : id \in DOMAIN rows \/ id = n
  BY <1>2, Sizes DEF LostInv
<1>4. n \in lost' \/ n \in GivenBy(child'[r], r, file')
  BY <1>1, <1>2, InjectTells DEF LostInv
<1> HIDE DEF n, r
<1>5. QED
  BY <1>2, <1>3, <1>4, NothingLostKept

LEMMA RowsKept ==
  ASSUME LostInv, PaneSteps, rows' = rows, file' = file
  PROVE  LedgerInv' /\ NothingLost'
<1>1. LedgerInv'
  BY DEF LostInv, LedgerInv, LedgerTyped, RowShape, FileShape, OneOpen
<1>2. \A id \in DOMAIN rows' : ~rows'[id].done => Stays(id)
  BY DEF Stays
<1>3. QED
  BY <1>1, <1>2, NothingLostKept

\* A report closes one row.
LEMMA Reported ==
  ASSUME LedgerInv, NEW id \in DOMAIN rows
  PROVE  LET reported == [rows EXCEPT ![id].done = TRUE]
         IN After(reported) /\ reported[id].done
            /\ \A i \in DOMAIN rows : i # id => reported[i] = rows[i]
<1> DEFINE reported == [rows EXCEPT ![id].done = TRUE]
           row == [rows[id] EXCEPT !.done = TRUE]
<1>1. /\ row \in Row /\ row.to = rows[id].to /\ row.kind = rows[id].kind
      /\ row.builder = rows[id].builder /\ row.done
  BY Sizes DEF Row
<1>2. reported = [rows EXCEPT ![id] = row]
  OBVIOUS
<1> HIDE DEF row, reported
<1>3. rows \in Seq(Row)
  BY DEF LedgerInv, LedgerTyped
<1>4. /\ reported \in Seq(Row) /\ Len(reported) = Len(rows)
      /\ reported[id] = row /\ \A i \in DOMAIN rows : i # id => reported[i] = rows[i]
  BY <1>1, <1>2, <1>3
<1>5. After(reported) /\ reported[id].done
  BY <1>1, <1>4 DEF After
<1>6. QED
  BY <1>4, <1>5 DEF reported

LEMMA WorkDoneLoses ==
  ASSUME LostInv, Unshared, PaneSteps, NEW r \in Roles, NEW id \in DOMAIN rows, WorkDone(r, id)
  PROVE  LedgerInv' /\ NothingLost'
<1> DEFINE b == rows[id].builder
           reported == [rows EXCEPT ![id].done = TRUE]
<1>1. b \in Roles /\ ~rows[id].done
  BY Sizes DEF LostInv, WorkDone, Row
<1>2. /\ After(reported) /\ reported[id].done
      /\ \A i \in DOMAIN rows : i # id => reported[i] = rows[i]
  BY Reported DEF LostInv
<1>3. \/ Judge[b] \in Roles /\ DeliverJudgeRound(b, reported)
      \/ \E ok \in Spawns : DeliverDelegate(b, reported, ok)
      \/ Conclude(reported)
  BY DEF WorkDone, Available
<1> HIDE DEF b, reported
<1>4. DOMAIN reported = DOMAIN rows
  BY <1>2, Sizes DEF After, LostInv
<1>5. \A i \in DOMAIN reported : reported[i].builder = b => reported[i].done
  BY <1>1, <1>2, <1>4 DEF LostInv, LedgerInv, OneOpen, After, b
<1>6. CASE Judge[b] \in Roles /\ DeliverJudgeRound(b, reported)
  BY <1>1, <1>2, <1>5, <1>6, JudgeRoundLoses
<1>7. CASE \E ok \in Spawns : DeliverDelegate(b, reported, ok)
  <2>1. PICK ok \in Spawns : DeliverDelegate(b, reported, ok)
    BY <1>7
  <2>2. ok \in BOOLEAN
    BY DEF Spawns
  <2>3. QED
    BY <1>1, <1>2, <1>5, <2>1, <2>2, DeliverLoses
<1>8. CASE Conclude(reported)
  <2>1. rows' = reported /\ file' = file
    BY <1>8 DEF Conclude
  <2>2. \A i \in DOMAIN rows : /\ rows'[i].to = rows[i].to
                               /\ rows'[i].kind = rows[i].kind
                               /\ rows'[i].builder = rows[i].builder
                               /\ rows[i].done => rows'[i].done
    BY <1>2, <2>1 DEF After
  <2>3. rows' \in Seq(Row) /\ Len(rows') = Len(rows) /\ DOMAIN rows' = DOMAIN rows
    BY <1>2, <1>4, <2>1 DEF After
  <2>4. LedgerTyped' /\ RowShape' /\ OneOpen'
    <3>1. LedgerTyped'
      BY <2>1, <2>3 DEF LostInv, LedgerInv, LedgerTyped
    <3>2. RowShape'
      BY <2>2, <2>3 DEF LostInv, LedgerInv, RowShape
    <3>3. OneOpen'
      BY <2>2, <2>3 DEF LostInv, LedgerInv, OneOpen
    <3>4. QED
      BY <3>1, <3>2, <3>3
  <2>5. FileShape'
    <3>1. ASSUME NEW k \in Kind, NEW s \in Roles, file[k][s] # 0 PROVE file[k][s] \in DOMAIN rows
      <4>1. file[k][s] \in 0 .. Len(rows)
        BY DEF LostInv, LedgerInv, LedgerTyped
      <4>2. QED
        BY <3>1, <4>1, Sizes DEF LostInv
    <3>2. QED
      BY <2>1, <2>2, <3>1 DEF LostInv, LedgerInv, FileShape
  <2>6. \A i \in DOMAIN rows' : ~rows'[i].done => Stays(i)
    BY <2>1, <2>2, <2>3 DEF Stays
  <2>7. QED
    BY <2>4, <2>5, <2>6, NothingLostKept DEF LedgerInv
<1>9. QED
  BY <1>3, <1>6, <1>7, <1>8

LEMMA InitLost == Init => LostInv
<1> SUFFICES ASSUME Init PROVE LostInv
  OBVIOUS
<1>1. PInv /\ PanesLoaded
  BY InitClean DEF CleanInv
<1>2. rows = <<>> /\ DOMAIN rows = {} /\ Len(rows) = 0
  BY DEF Init
<1>3. LedgerInv
  <2>1. \A k \in Kind, r \in Roles : file[k][r] = 0
    BY DEF Init
  <2>2. file \in [Kind -> [Roles -> 0 .. 0]] /\ rows \in Seq(Row)
    BY DEF Init
  <2>3. QED
    BY <1>2, <2>1, <2>2 DEF LedgerInv, LedgerTyped, RowShape, FileShape, OneOpen
<1>4. QED
  BY <1>1, <1>2, <1>3 DEF LostInv, NothingLost

LEMMA NextLost ==
  ASSUME Patient, Unshared
  PROVE  LostInv /\ [Next]_vars => LostInv'
<1> SUFFICES ASSUME LostInv, [Next]_vars PROVE LostInv'
  OBVIOUS
<1>1. PInv' /\ PaneSteps
  BY NextPInv, NextMoves DEF LostInv
<1>2. PanesLoaded'
  BY <1>1, MovesLoaded DEF LostInv
<1>3. ASSUME NEW r \in Roles, Delegate(r) PROVE LedgerInv' /\ NothingLost'
  <2>1. PICK ok \in Spawns : DeliverDelegate(r, rows, ok)
    BY <1>3 DEF Delegate
  <2>2. ok \in BOOLEAN
    BY DEF Spawns
  <2>3. After(rows)
    BY DEF After, LostInv, LedgerInv, LedgerTyped
  <2>4. \A i \in DOMAIN rows : rows[i].builder = r => rows[i].done
    BY <1>3 DEF Delegate
  <2>5. QED
    BY <1>1, <2>1, <2>2, <2>3, <2>4, DeliverLoses
<1>4. ASSUME NEW r \in Roles, NEW id \in DOMAIN rows, WorkDone(r, id)
      PROVE  LedgerInv' /\ NothingLost'
  BY <1>1, <1>4, WorkDoneLoses
<1>5. ASSUME \/ \E landed, overdue \in SUBSET Roles : BootPanes(landed, overdue)
             \/ \E message \in closing : PaneClosed(message[1], message[2])
             \/ \E r \in Roles : Restart(r) \/ Settle(r) \/ Read(r)
             \/ \E r \in Roles, code \in {"zero", "other"} : Die(r, code)
             \/ UNCHANGED vars
      PROVE  LedgerInv' /\ NothingLost'
  <2>1. rows' = rows /\ file' = file
    BY <1>5 DEF BootPanes, PaneClosed, Restart, Settle, Read, Die, vars
  <2>2. QED
    BY <1>1, <2>1, RowsKept
<1>6. LedgerInv' /\ NothingLost'
  BY <1>3, <1>4, <1>5 DEF Next
<1>7. QED
  BY <1>1, <1>2, <1>6 DEF LostInv

\* Under an orchestrator that waits for a builder's work before it delegates to
\* it again, and with no judge shared by two builders, every open task is in its
\* file, with its process, or went with a process that ended: respawns, deaths,
\* late close messages and overwritten files lose none (deliverDelegate,
\* deliverJudgeRound, bootPanes, respawn).
THEOREM NoTaskIsLost ==
  ASSUME Patient, Unshared
  PROVE  Spec => []NothingLost
<1>1. LostInv => NothingLost
  BY DEF LostInv
<1>2. LostInv /\ [Next]_vars => LostInv'
  BY NextLost
<1>3. QED
  BY <1>1, <1>2, InitLost, PTL DEF Spec

=============================================================================
