--------------------------- MODULE Checkpoint_proofs ---------------------------
(***************************************************************************)
(* Proofs about checkpoints and rollbacks, for any workspace and any       *)
(* number of checkpoints: a rollback nobody disturbs leaves the checkpoint *)
(* and at most renamed files beside it, and what a rollback destroys was   *)
(* kept before.                                                            *)
(***************************************************************************)
EXTENDS Checkpoint, FiniteSetTheorems, TLAPS

-----------------------------------------------------------------------------
(* Types *)

Asked == [st : {"ask", "restored", "done"}, target : Name, tree : Tree,
          extra : SUBSET Files, pre : Name, before : Tree]

\* A name that was prefixed n times was asked for n times.
Typed ==
  /\ work \in Tree
  /\ \A n \in DOMAIN refs : n \in Name /\ n.label.pre <= asked /\ refs[n] \in Tree
  /\ clock \in 0 .. MaxClock /\ seq \in 0 .. MaxTasks /\ on \in BOOLEAN /\ asked \in 0 .. MaxAsked
  /\ ask \in [Askers -> Asked \cup {NoAsk}]
  /\ touched \in [Askers -> SUBSET Files]

LEMMA Bounds == MaxClock \in Nat /\ MaxTasks \in Nat /\ MaxAsked \in Nat /\ Absent \notin Contents
BY CheckpointAssumption

\* A snapshot, or a prune, leaves the others as they are.
Stored(n) == refs' = [m \in DOMAIN refs \cup {n} |-> IF m = n THEN work ELSE refs[m]]
Thinned == \E kept \in SUBSET DOMAIN refs : refs' = [n \in kept |-> refs[n]]

LEMMA StoredTyped ==
  ASSUME Typed, NEW n \in Name, n.label.pre <= asked', asked \in Nat, asked' \in Nat, asked <= asked', Stored(n)
  PROVE  \A m \in DOMAIN refs' : m \in Name /\ m.label.pre <= asked' /\ refs'[m] \in Tree
<1>1. \A m \in Name : m.label.pre \in Nat
  BY DEF Name, Label
<1>2. SUFFICES ASSUME NEW m \in DOMAIN refs', m # n
               PROVE  m \in Name /\ m.label.pre <= asked' /\ refs'[m] \in Tree
  BY DEF Stored, Typed
<1>3. m \in DOMAIN refs /\ refs'[m] = refs[m]
  BY <1>2 DEF Stored
<1>4. QED
  BY <1>1, <1>3 DEF Typed

LEMMA ThinnedTyped ==
  ASSUME Typed, Thinned, asked' = asked
  PROVE  \A m \in DOMAIN refs' : m \in Name /\ m.label.pre <= asked' /\ refs'[m] \in Tree
BY DEF Thinned, Typed

LEMMA PruneThins == ASSUME NEW keep, Prune(keep) PROVE Thinned
BY DEF Prune, Thinned

LEMMA SnapshotStores == ASSUME NEW label, Snapshot(label) PROVE Stored([at |-> clock, label |-> label])
BY DEF Snapshot, Stored

LEMMA TouchedTyped ==
  ASSUME Typed, NEW files \in SUBSET Files, NEW by
  PROVE  Touched(files, by) \in [Askers -> SUBSET Files]
BY DEF Touched, Typed

LEMMA AskTyped ==
  ASSUME Typed, NEW a \in Askers, NEW n \in DOMAIN refs, Ask(a, n)
  PROVE  Typed'
<1> DEFINE label == [n.label EXCEPT !.pre = @ + 1]
           name == [at |-> clock, label |-> label]
           now(extra) == [st |-> "ask", target |-> n, tree |-> refs[n], extra |-> extra,
                          pre |-> name, before |-> work]
<1>1. /\ n \in Name /\ n.label \in Label /\ n.label.pre <= asked /\ refs[n] \in Tree /\ work \in Tree
      /\ clock \in 0 .. MaxClock /\ asked \in 0 .. MaxAsked
  BY DEF Typed, Name
<1>2. asked < MaxAsked /\ asked' = asked + 1
  BY DEF Ask
<1>3. label \in Label /\ label.pre = n.label.pre + 1
  BY <1>1, <1>2, Bounds DEF Label
<1> HIDE DEF label
<1>4. name \in Name /\ name.label.pre <= asked'
  <2>1. n.label.pre \in Nat
    BY <1>1 DEF Label
  <2>2. QED
    BY <1>1, <1>2, <1>3, <2>1, Bounds DEF Name
<1>5. Stored(name)
  BY SnapshotStores DEF Ask, label
<1>6. PICK extra \in Extras(refs[n], work) : ask' = ask \/ ask' = [ask EXCEPT ![a] = now(extra)]
  BY DEF Ask, label
<1> HIDE DEF name
<1>7. now(extra) \in Asked
  <2>1. extra \in SUBSET Files
    BY DEF Extras, Missing
  <2>2. QED
    BY <1>1, <1>4, <2>1 DEF Asked
<1> HIDE DEF now
<1>8. ask' \in [Askers -> Asked \cup {NoAsk}]
  BY <1>6, <1>7 DEF Typed
<1>9. \A m \in DOMAIN refs' : m \in Name /\ m.label.pre <= asked' /\ refs'[m] \in Tree
  BY <1>1, <1>2, <1>4, <1>5, Bounds, StoredTyped
<1>10. asked' \in 0 .. MaxAsked /\ UNCHANGED <<work, clock, seq, on, touched>>
  BY <1>1, <1>2, Bounds DEF Ask
<1>11. QED
  BY <1>8, <1>9, <1>10 DEF Typed

LEMMA RestoreTyped ==
  ASSUME Typed, NEW a \in Askers, Restore(a) \/ Delete(a)
  PROVE  Typed'
<1>1. work' \in Tree
  <2>1. CASE Restore(a)
    BY <2>1 DEF Restore, Typed, Tree
  <2>2. CASE Delete(a)
    BY <2>2 DEF Delete, Typed, Tree
  <2>3. QED
    BY <2>1, <2>2
<1>2. touched' \in [Askers -> SUBSET Files]
  <2>1. Changed(work, work') \in SUBSET Files
    BY DEF Changed
  <2>2. QED
    BY <2>1, TouchedTyped DEF Restore, Delete
<1>3. ask' \in [Askers -> Asked \cup {NoAsk}]
  <2>1. ask[a] \in Asked
    BY DEF Typed, Restore, Delete, NoAsk
  <2>2. \A s \in {"restored", "done"} : [ask[a] EXCEPT !.st = s] \in Asked
    BY <2>1 DEF Asked
  <2>3. \E s \in {"restored", "done"} : ask' = [ask EXCEPT ![a] = [ask[a] EXCEPT !.st = s]]
    BY DEF Restore, Delete
  <2>4. QED
    BY <2>2, <2>3 DEF Typed
<1>4. UNCHANGED <<refs, clock, seq, on, asked>>
  BY DEF Restore, Delete, counts
<1>5. QED
  BY <1>1, <1>2, <1>3, <1>4 DEF Typed

LEMMA SnapshotsTyped ==
  ASSUME Typed, Deliver \/ \E task \in 1 .. MaxTasks : Merge(task)
  PROVE  Typed'
<1>1. clock \in 0 .. MaxClock /\ seq \in 0 .. MaxTasks /\ asked \in 0 .. MaxAsked
  BY DEF Typed
<1>2. \A task \in 1 .. MaxTasks, merge \in BOOLEAN :
        LET n == [at |-> clock, label |-> Named(task, merge)] IN n \in Name /\ n.label.pre <= asked
  BY <1>1, Bounds DEF Named, Name, Label
<1>3. /\ seq' \in 0 .. MaxTasks /\ UNCHANGED <<work, clock, on, ask, touched, asked>>
      /\ refs' = refs \/ \E task \in 1 .. MaxTasks, merge \in BOOLEAN : Snapshot(Named(task, merge))
  <2>1. CASE Deliver
    <3>1. seq' = seq + 1 /\ seq' \in 1 .. MaxTasks
      BY <1>1, <2>1, Bounds DEF Deliver
    <3>2. PICK task \in 1 .. MaxTasks : task = seq + 1
      BY <3>1
    <3>3. refs' = refs \/ Snapshot(Named(task, FALSE))
      BY <2>1, <3>2 DEF Deliver
    <3>4. seq' \in 0 .. MaxTasks /\ UNCHANGED <<work, clock, on, ask, touched, asked>>
      BY <2>1, <3>1, Bounds DEF Deliver
    <3>5. QED
      BY <3>3, <3>4
  <2>2. CASE \E task \in 1 .. MaxTasks : Merge(task)
    BY <1>1, <2>2 DEF Merge, counts
  <2>3. QED
    BY <2>1, <2>2
<1>4. \A m \in DOMAIN refs' : m \in Name /\ m.label.pre <= asked' /\ refs'[m] \in Tree
  <2>1. CASE refs' = refs
    BY <1>3, <2>1 DEF Typed
  <2>2. ASSUME NEW task \in 1 .. MaxTasks, NEW merge \in BOOLEAN, Snapshot(Named(task, merge))
        PROVE  \A m \in DOMAIN refs' : m \in Name /\ m.label.pre <= asked' /\ refs'[m] \in Tree
    <3>1. PICK n : n = [at |-> clock, label |-> Named(task, merge)]
      OBVIOUS
    <3>2. Stored(n) /\ n \in Name /\ n.label.pre <= asked
      BY <1>2, <2>2, <3>1, SnapshotStores
    <3>3. asked \in Nat /\ asked' = asked
      BY <1>1, <1>3
    <3>4. QED
      BY <3>2, <3>3, StoredTyped
  <2>3. QED
    BY <1>3, <2>1, <2>2
<1>5. QED
  BY <1>3, <1>4 DEF Typed

LEMMA NextTyped == Typed /\ [Next]_vars => Typed'
<1>1. SUFFICES ASSUME Typed, [Next]_vars PROVE Typed'
  OBVIOUS
<1>2. ASSUME NEW f \in Files, NEW c \in Contents \cup {Absent}, Write(f, c) PROVE Typed'
  <2>1. work' \in Tree
    BY <1>1, <1>2 DEF Write, Typed, Tree
  <2>2. touched' \in [Askers -> SUBSET Files]
    BY <1>1, <1>2, TouchedTyped DEF Write
  <2>3. QED
    BY <1>1, <1>2, <2>1, <2>2 DEF Write, Typed
<1>3. CASE Tick
  <2>1. clock' \in 0 .. MaxClock
    BY <1>1, <1>3, Bounds DEF Tick, Typed
  <2>2. QED
    BY <1>1, <1>3, <2>1 DEF Tick, Typed
<1>4. CASE NewSession
  <2>1. clock' \in 0 .. MaxClock /\ seq' \in 0 .. MaxTasks /\ on' \in BOOLEAN /\ asked' = asked /\ work' = work
    BY <1>1, <1>4, Bounds DEF NewSession, Typed
  <2>2. ask' \in [Askers -> Asked \cup {NoAsk}] /\ touched' \in [Askers -> SUBSET Files]
    BY <1>1, <1>4 DEF NewSession, Typed
  <2>3. Thinned \/ refs' = refs
    BY <1>4, PruneThins DEF NewSession
  <2>4. \A m \in DOMAIN refs' : m \in Name /\ m.label.pre <= asked' /\ refs'[m] \in Tree
    BY <1>1, <2>1, <2>3, ThinnedTyped DEF Typed
  <2>5. QED
    BY <1>1, <2>1, <2>2, <2>4 DEF Typed
<1>5. CASE PruneCommand
  <2>1. Thinned /\ UNCHANGED <<work, clock, seq, on, asked, ask, touched>>
    BY <1>5, PruneThins DEF PruneCommand, counts
  <2>2. \A m \in DOMAIN refs' : m \in Name /\ m.label.pre <= asked' /\ refs'[m] \in Tree
    BY <1>1, <2>1, ThinnedTyped
  <2>3. QED
    BY <1>1, <2>1, <2>2 DEF Typed
<1>6. ASSUME NEW a \in Askers, Close(a) PROVE Typed'
  <2>1. ask' \in [Askers -> Asked \cup {NoAsk}] /\ touched' \in [Askers -> SUBSET Files]
    BY <1>1, <1>6 DEF Close, Typed
  <2>2. QED
    BY <1>1, <1>6, <2>1 DEF Close, Typed, counts
<1>7. ASSUME NEW task \in 1 .. MaxTasks, AskDeck(task) PROVE Typed'
  <2>1. PICK n \in DOMAIN refs : Ask("deck", n)
    BY <1>7 DEF AskDeck, Newest
  <2>2. QED
    BY <1>1, <2>1, AskTyped DEF Askers
<1>8. ASSUME NEW n \in DOMAIN refs, AskCommand(n) PROVE Typed'
  BY <1>1, <1>8, AskTyped DEF AskCommand, Askers
<1>9. CASE UNCHANGED vars
  BY <1>1, <1>9 DEF Typed, vars
<1>10. QED
  BY <1>1, <1>2, <1>3, <1>4, <1>5, <1>6, <1>7, <1>8, <1>9, RestoreTyped, SnapshotsTyped DEF Next

LEMMA InitTyped == Init => Typed
<1>1. SUFFICES ASSUME Init PROVE Typed
  OBVIOUS
<1>2. work \in Tree /\ DOMAIN refs = {}
  BY <1>1 DEF Init, Tree
<1>3. QED
  BY <1>1, <1>2, Bounds DEF Init, Typed

\* Types.
THEOREM CheckpointTyped == Spec => []TypeOK
<1>1. Typed => TypeOK
  <2>1. SUFFICES ASSUME Typed PROVE TypeOK
    OBVIOUS
  <2>2. \A a \in Askers : ask[a].st # "off" => ask[a] \in Asked
    BY <2>1 DEF Typed, NoAsk
  <2>3. QED
    BY <2>1, <2>2 DEF Typed, TypeOK, Asked
<1>2. QED
  BY <1>1, InitTyped, NextTyped, PTL DEF Spec

-----------------------------------------------------------------------------
(* What a step does to the checkpoints, the workspace and a rollback *)

\* A checkpoint that is there now was there before, or is what the workspace holds.
RefsFrom == \A n \in DOMAIN refs' : (n \in DOMAIN refs /\ refs'[n] = refs[n]) \/ refs'[n] = work

\* Files change, or checkpoints do.
LEMMA RefSteps ==
  ASSUME Typed, [Next]_vars
  PROVE  refs' = refs \/ (work' = work /\ RefsFrom)
<1>1. ASSUME NEW n, Stored(n) PROVE RefsFrom
  BY <1>1 DEF Stored, RefsFrom
<1>2. Thinned => RefsFrom
  BY DEF Thinned, RefsFrom
<1>3. (\E label : Snapshot(label)) => RefsFrom
  BY <1>1, SnapshotStores
<1>4. (\E keep : Prune(keep)) => RefsFrom
  BY <1>2, PruneThins
<1>5. CASE Deliver \/ (\E task \in 1 .. MaxTasks : Merge(task) \/ AskDeck(task)) \/ \E n \in DOMAIN refs : AskCommand(n)
  BY <1>3, <1>5 DEF Deliver, Merge, AskDeck, AskCommand, Ask
<1>6. CASE NewSession \/ PruneCommand
  BY <1>4, <1>6 DEF NewSession, PruneCommand
<1>7. CASE \/ \E f \in Files, c \in Contents \cup {Absent} : Write(f, c)
           \/ Tick \/ UNCHANGED vars \/ \E a \in Askers : Close(a) \/ Restore(a) \/ Delete(a)
  BY <1>7 DEF Write, Tick, vars, Close, Restore, Delete
<1>8. QED
  BY <1>5, <1>6, <1>7 DEF Next

\* The rollback of a stays where it is, and what others write meanwhile is noted.
Stays(a) ==
  /\ ask'[a] = ask[a] /\ touched[a] \subseteq touched'[a]
  /\ ask[a].st # "off" => Changed(work, work') \subseteq touched'[a]

\* It is put to the user.
Puts(a) ==
  /\ ask[a].st = "off" /\ work' = work
  /\ \E n \in DOMAIN refs, p \in Name : \E extra \in Extras(refs[n], work) :
       /\ ask'[a] = [st |-> "ask", target |-> n, tree |-> refs[n], extra |-> extra,
                     pre |-> p, before |-> work]
       /\ refs[n] # work /\ Stored(p)

LEMMA Unwritten ==
  ASSUME Typed, NEW by, NEW files \in SUBSET Files, NEW a \in Askers, a # by, touched' = Touched(files, by)
  PROVE  touched[a] \subseteq touched'[a] /\ (ask[a].st # "off" => files \subseteq touched'[a])
BY DEF Touched, Typed

LEMMA AskSteps ==
  ASSUME Typed, NEW a \in Askers, NEW b \in Askers, NEW n \in DOMAIN refs, Ask(b, n)
  PROVE  Stays(a) \/ (a = b /\ Puts(a))
<1> DEFINE label == [n.label EXCEPT !.pre = @ + 1]
           name == [at |-> clock, label |-> label]
           now(extra) == [st |-> "ask", target |-> n, tree |-> refs[n], extra |-> extra,
                          pre |-> name, before |-> work]
<1>1. ask[b].st = "off" /\ work' = work /\ touched' = touched /\ Snapshot(label)
  BY DEF Ask
<1>2. PICK extra \in Extras(refs[n], work) :
        ask' = IF refs[n] = work THEN ask ELSE [ask EXCEPT ![b] = now(extra)]
  BY DEF Ask
<1>3. ask' = ask \/ a # b => Stays(a)
  BY <1>1, <1>2 DEF Typed, Stays, Changed
<1>4. ASSUME a = b, refs[n] # work PROVE Puts(a)
  <2>1. Stored(name)
    BY <1>1, SnapshotStores
  <2>2. name \in DOMAIN refs'
    BY <2>1 DEF Stored
  <2>3. Typed'
    BY AskTyped
  <2>4. name \in Name
    BY <2>2, <2>3 DEF Typed
  <2> HIDE DEF name
  <2>5. ask'[a] = now(extra)
    BY <1>2, <1>4 DEF Typed
  <2>6. QED
    BY <1>1, <1>4, <2>1, <2>4, <2>5 DEF Puts
<1>5. QED
  BY <1>2, <1>3, <1>4

LEMMA RollbackSteps ==
  ASSUME Typed, [Next]_vars, NEW a \in Askers
  PROVE  Stays(a) \/ ask'[a] = NoAsk \/ Puts(a) \/ Restore(a) \/ Delete(a)
<1>1. touched \in [Askers -> SUBSET Files] /\ ask \in [Askers -> Asked \cup {NoAsk}] /\ work \in Tree
  BY DEF Typed
<1>2. ASSUME UNCHANGED <<work, ask, touched>> PROVE Stays(a)
  BY <1>2 DEF Stays, Changed
<1>3. ASSUME NEW f \in Files, NEW c \in Contents \cup {Absent}, Write(f, c) PROVE Stays(a)
  <2>1. Changed(work, work') \subseteq {f} /\ ask' = ask
    BY <1>1, <1>3 DEF Write, Changed, Tree
  <2>2. touched' = Touched({f}, "nobody") /\ a # "nobody"
    BY <1>3 DEF Write, Askers
  <2>3. touched[a] \subseteq touched'[a] /\ (ask[a].st # "off" => {f} \subseteq touched'[a])
    BY <2>2, Unwritten
  <2>4. QED
    BY <2>1, <2>3 DEF Stays
<1>4. ASSUME NEW b \in Askers, b # a, Restore(b) \/ Delete(b) PROVE Stays(a)
  <2>1. touched' = Touched(Changed(work, work'), b)
    BY <1>4 DEF Restore, Delete
  <2>2. Changed(work, work') \in SUBSET Files
    BY DEF Changed
  <2>3. ask'[a] = ask[a]
    BY <1>1, <1>4 DEF Restore, Delete
  <2>4. QED
    BY <1>4, <2>1, <2>2, <2>3, Unwritten DEF Stays
<1>5. ASSUME NEW b \in Askers, Close(b) PROVE Stays(a) \/ ask'[a] = NoAsk
  BY <1>1, <1>5 DEF Close, Stays, Changed
<1>6. CASE NewSession
  <2>1. ask' = [ask EXCEPT !["deck"] = NoAsk] /\ touched' = [touched EXCEPT !["deck"] = {}] /\ work' = work
    BY <1>6 DEF NewSession
  <2>2. a # "deck" => ask'[a] = ask[a] /\ touched'[a] = touched[a]
    BY <1>1, <2>1
  <2>3. a = "deck" => ask'[a] = NoAsk
    BY <1>1, <2>1
  <2>4. QED
    BY <2>1, <2>2, <2>3 DEF Stays, Changed
<1>7. ASSUME NEW task \in 1 .. MaxTasks, AskDeck(task) PROVE Stays(a) \/ Puts(a)
  <2>1. PICK n \in DOMAIN refs : Ask("deck", n)
    BY <1>7 DEF AskDeck, Newest
  <2>2. QED
    BY <2>1, AskSteps DEF Askers
<1>8. ASSUME NEW n \in DOMAIN refs, AskCommand(n) PROVE Stays(a) \/ Puts(a)
  BY <1>8, AskSteps DEF AskCommand, Askers
<1>9. CASE Tick \/ Deliver \/ PruneCommand \/ (\E task \in 1 .. MaxTasks : Merge(task)) \/ UNCHANGED vars
  <2>1. UNCHANGED <<work, ask, touched>>
    BY <1>9 DEF Tick, Deliver, PruneCommand, Merge, vars
  <2>2. QED
    BY <1>2, <2>1
<1>10. QED
  BY <1>3, <1>4, <1>5, <1>6, <1>7, <1>8, <1>9 DEF Next

-----------------------------------------------------------------------------
(* What a rollback destroys *)

\* As long as a rollback has not touched a file, and nobody else has, the file is as the
\* snapshot before the question has it; and so is each file that is still to go.
UndoInv ==
  \A a \in Askers : LET s == ask[a] IN
    /\ s.st # "off" => s.extra \in Extras(s.tree, s.before)
    /\ \A f \in Files \ touched[a] :
         /\ s.st = "ask" /\ s.target \in DOMAIN refs => refs[s.target][f] \in {s.tree[f], s.before[f]}
         /\ s.st = "ask" \/ (s.st = "restored" /\ f \in s.extra) =>
              work[f] = s.before[f] /\ (s.pre \in DOMAIN refs => refs[s.pre][f] = s.before[f])

LEMMA NextUndo == Typed /\ UndoInv /\ [Next]_vars => UndoInv'
<1>1. SUFFICES ASSUME Typed, UndoInv, [Next]_vars, NEW a \in Askers, ask'[a].st # "off"
               PROVE  LET s == ask'[a] IN
                      /\ s.extra \in Extras(s.tree, s.before)
                      /\ \A f \in Files \ touched'[a] :
                           /\ s.st = "ask" /\ s.target \in DOMAIN refs' => refs'[s.target][f] \in {s.tree[f], s.before[f]}
                           /\ s.st = "ask" \/ (s.st = "restored" /\ f \in s.extra) =>
                                work'[f] = s.before[f] /\ (s.pre \in DOMAIN refs' => refs'[s.pre][f] = s.before[f])
  BY DEF UndoInv
<1> DEFINE s == ask[a]
           t == ask'[a]
<1>2. /\ s.st # "off" => s.extra \in Extras(s.tree, s.before)
      /\ \A f \in Files \ touched[a] :
           /\ s.st = "ask" /\ s.target \in DOMAIN refs => refs[s.target][f] \in {s.tree[f], s.before[f]}
           /\ s.st = "ask" \/ (s.st = "restored" /\ f \in s.extra) =>
                work[f] = s.before[f] /\ (s.pre \in DOMAIN refs => refs[s.pre][f] = s.before[f])
  BY <1>1 DEF UndoInv
<1>3. s \in Asked \cup {NoAsk} /\ work \in Tree /\ work' \in Tree /\ ask \in [Askers -> Asked \cup {NoAsk}]
  BY <1>1, NextTyped DEF Typed
<1>4. CASE Stays(a)
  <2>1. t = s /\ touched[a] \subseteq touched'[a] /\ Changed(work, work') \subseteq touched'[a] /\ s.st # "off"
    BY <1>1, <1>4 DEF Stays
  <2> HIDE DEF s, t
  <2>2. ASSUME NEW f \in Files \ touched'[a]
        PROVE  /\ s.st = "ask" /\ s.target \in DOMAIN refs' => refs'[s.target][f] \in {s.tree[f], s.before[f]}
               /\ s.st = "ask" \/ (s.st = "restored" /\ f \in s.extra) =>
                    work'[f] = s.before[f] /\ (s.pre \in DOMAIN refs' => refs'[s.pre][f] = s.before[f])
    <3>1. f \in Files \ touched[a] /\ work'[f] = work[f]
      BY <2>1, <2>2 DEF Changed
    <3>2. \A n \in DOMAIN refs' : (n \in DOMAIN refs /\ refs'[n] = refs[n]) \/ refs'[n] = work
      BY <1>1, RefSteps DEF RefsFrom
    <3>3. QED
      BY <1>2, <3>1, <3>2
  <2>3. QED
    BY <1>2, <2>1, <2>2 DEF t
<1>5. CASE Puts(a)
  <2>1. PICK n \in DOMAIN refs, p \in Name : \E extra \in Extras(refs[n], work) :
          /\ t = [st |-> "ask", target |-> n, tree |-> refs[n], extra |-> extra,
                  pre |-> p, before |-> work]
          /\ Stored(p) /\ work' = work
    BY <1>5 DEF Puts
  <2> HIDE DEF t
  <2>2. t.st = "ask" /\ t.target = n /\ t.tree = refs[n] /\ t.extra \in Extras(t.tree, t.before) /\ t.pre = p /\ t.before = work
    BY <2>1
  <2>3. refs'[p] = work /\ (refs'[n] = refs[n] \/ refs'[n] = work)
    BY <2>1 DEF Stored
  <2>4. QED
    BY <2>1, <2>2, <2>3 DEF t
<1>6. CASE Restore(a)
  <2> DEFINE target == refs[s.target]
  <2>1. /\ s.st = "ask" /\ s.target \in DOMAIN refs /\ t = [s EXCEPT !.st = "restored"]
        /\ work' = [f \in Files |-> IF target[f] = Absent THEN work[f] ELSE target[f]]
        /\ refs' = refs /\ touched'[a] = touched[a]
    BY <1>1, <1>3, <1>6 DEF Restore, Touched, Typed
  <2>2. s \in Asked
    BY <1>3, <2>1 DEF NoAsk
  <2> HIDE DEF s, t
  <2>3. t.st = "restored" /\ t.extra = s.extra /\ t.tree = s.tree /\ t.before = s.before /\ t.pre = s.pre
    BY <2>1, <2>2 DEF Asked
  <2>4. ASSUME NEW f \in Files \ touched[a], f \in s.extra
        PROVE  work'[f] = s.before[f] /\ (s.pre \in DOMAIN refs => refs[s.pre][f] = s.before[f])
    <3>1. s.tree[f] = Absent
      BY <1>2, <2>1, <2>4 DEF Extras, Missing
    <3>2. target[f] \in {s.tree[f], s.before[f]} /\ work[f] = s.before[f]
      BY <1>2, <2>1
    <3>3. work'[f] = IF target[f] = Absent THEN work[f] ELSE target[f]
      BY <2>1
    <3>4. QED
      BY <1>2, <2>1, <3>1, <3>2, <3>3
  <2>5. QED
    BY <1>2, <2>1, <2>3, <2>4 DEF t
<1>7. CASE Delete(a)
  <2>1. s.st = "restored" /\ t = [s EXCEPT !.st = "done"]
    BY <1>3, <1>7 DEF Delete
  <2>2. s \in Asked
    BY <1>3, <2>1 DEF NoAsk
  <2> HIDE DEF s, t
  <2>3. t.st = "done" /\ t.extra = s.extra /\ t.tree = s.tree /\ t.before = s.before
    BY <2>1, <2>2 DEF Asked
  <2>4. QED
    BY <1>2, <2>1, <2>3 DEF t
<1>8. QED
  BY <1>1, <1>4, <1>5, <1>6, <1>7, RollbackSteps DEF NoAsk

\* What a rollback overwrites or deletes is in the snapshot that was taken before the
\* question was put, if that is still there and nobody else wrote the file since
\* (startRollback, confirmRollback, checkpoint.Restore, checkpoint.Delete).
THEOREM RollbackIsKept == Spec => UndoKept
<1>1. Init => UndoInv
  BY DEF Init, UndoInv, NoAsk
<1>2. Typed /\ UndoInv /\ [Next]_vars
        => [\A a \in Askers : Applies(a) => \A f \in Changed(work, work') \ touched[a] :
              ask[a].pre \in DOMAIN refs => refs[ask[a].pre][f] = work[f]]_vars
  <2>1. SUFFICES ASSUME Typed, UndoInv, Next, NEW a \in Askers, Applies(a),
                        NEW f \in Changed(work, work') \ touched[a], ask[a].pre \in DOMAIN refs
                 PROVE  refs[ask[a].pre][f] = work[f]
    OBVIOUS
  <2>2. ask[a].st # "off" /\ ask'[a].st # "off" /\ ask'[a].st # ask[a].st
    BY <2>1 DEF Applies
  <2>3. Restore(a) \/ Delete(a)
    BY <2>1, <2>2, RollbackSteps DEF Stays, Puts, NoAsk
  <2>4. f \in Files \ touched[a]
    BY <2>1 DEF Changed
  <2>5. CASE Restore(a)
    BY <2>1, <2>4, <2>5 DEF Restore, UndoInv
  <2>6. CASE Delete(a)
    <3>1. ask[a].st = "restored" /\ f \in ask[a].extra
      BY <2>1, <2>6 DEF Delete, Changed
    <3>2. QED
      BY <2>1, <2>4, <3>1 DEF UndoInv
  <2>7. QED
    BY <2>3, <2>5, <2>6
<1>3. QED
  BY <1>1, <1>2, InitTyped, NextTyped, NextUndo, PTL DEF Spec, UndoKept

-----------------------------------------------------------------------------
(* What a rollback leaves *)

\* The workspace once the files of the checkpoint t are written over u
Over(t, u) == [f \in Files |-> IF t[f] = Absent THEN u[f] ELSE t[f]]

\* A rollback from u to t may leave w.
Leaves(t, u, w) == Changed(t, w) \in Renamed(t, u) /\ \A f \in Changed(t, w) : w[f] = u[f]

\* As long as nobody else writes: the checkpoint that a rollback goes to holds what the
\* user was asked about, or was replaced within its second by what is there now; and
\* unless it was replaced, the files that are written are its files.
ExactInv ==
  \A a \in Askers : LET s == ask[a] IN
    s.st # "off" /\ touched[a] = {} =>
      /\ s.tree # s.before
      /\ s.st = "ask" /\ s.target \in DOMAIN refs => refs[s.target] \in {s.tree, s.before}
      /\ s.st = "ask" => work = s.before
      /\ s.st = "restored" => /\ work \in {s.before, Over(s.tree, s.before)}
                              /\ s.target \in DOMAIN refs /\ refs[s.target] = s.tree => work = Over(s.tree, s.before)
      /\ s.st = "done" /\ s.target \in DOMAIN refs /\ refs[s.target] = s.tree => Leaves(s.tree, s.before, work)

\* Workspaces that differ nowhere are the same.
LEMMA SameTree == ASSUME NEW t \in Tree, NEW u \in Tree, Changed(t, u) = {} PROVE t = u
<1>1. \A f \in Files : t[f] = u[f]
  BY DEF Changed
<1>2. QED
  BY <1>1 DEF Tree

\* The files of t over u, and those that were added deleted: t, and beside it those of
\* u that were taken for renamed.
LEMMA DeletedExactly ==
  ASSUME NEW t \in Tree, NEW u \in Tree, NEW extra \in Extras(t, u)
  PROVE  Leaves(t, u, [f \in Files |-> IF f \in extra THEN Absent ELSE Over(t, u)[f]])
<1> DEFINE w == [f \in Files |-> IF f \in extra THEN Absent ELSE Over(t, u)[f]]
<1>1. PICK R \in Renamed(t, u) : extra = Missing(u, t) \ R
  BY DEF Extras
<1>2. R \subseteq Missing(u, t)
  BY DEF Renamed
<1>3. \A f \in Files : w[f] = IF f \in extra THEN Absent ELSE IF t[f] = Absent THEN u[f] ELSE t[f]
  BY DEF Over
<1>4. \A f \in Files : f \in Missing(u, t) <=> u[f] # Absent /\ t[f] = Absent
  BY DEF Missing
<1>5. \A f \in Files : f \in Changed(t, w) <=> t[f] # w[f]
  BY DEF Changed
<1>6. R \subseteq Files /\ Changed(t, w) \subseteq Files
  BY <1>2 DEF Missing, Changed
<1> HIDE DEF w
<1>7. Changed(t, w) = R /\ \A f \in R : w[f] = u[f]
  BY <1>1, <1>2, <1>3, <1>4, <1>5, <1>6
<1>8. QED
  BY <1>7 DEF Leaves, w

\* The checkpoint itself may be left.
LEMMA LeavesItself == ASSUME NEW t \in Tree, NEW u \in Tree PROVE Leaves(t, u, t)
<1>1. Changed(t, t) = {}
  BY DEF Changed
<1>2. {} \in Renamed(t, u)
  <2> DEFINE from == [f \in {} |-> t]
  <2>1. from \in Injection({}, Missing(t, u))
    BY DEF Injection, IsInjective
  <2>2. \A f \in {} : <<t[from[f]], u[f]>> \in Similar
    OBVIOUS
  <2>3. QED
    BY <2>1, <2>2 DEF Renamed
<1>3. QED
  BY <1>1, <1>2 DEF Leaves

LEMMA OverItself == ASSUME NEW u \in Tree PROVE Over(u, u) = u
BY DEF Over, Tree

LEMMA NextExact == Typed /\ UndoInv /\ ExactInv /\ [Next]_vars => ExactInv'
<1> DEFINE Exact(s, w, r) ==
             /\ s.tree # s.before
             /\ s.st = "ask" /\ s.target \in DOMAIN r => r[s.target] \in {s.tree, s.before}
             /\ s.st = "ask" => w = s.before
             /\ s.st = "restored" => /\ w \in {s.before, Over(s.tree, s.before)}
                                     /\ s.target \in DOMAIN r /\ r[s.target] = s.tree => w = Over(s.tree, s.before)
             /\ s.st = "done" /\ s.target \in DOMAIN r /\ r[s.target] = s.tree => Leaves(s.tree, s.before, w)
<1>1. SUFFICES ASSUME Typed, UndoInv, ExactInv, [Next]_vars,
                      NEW a \in Askers, ask'[a].st # "off", touched'[a] = {}
               PROVE  Exact(ask'[a], work', refs')
  BY DEF ExactInv
<1> DEFINE s == ask[a]
           t == ask'[a]
<1>2. s.st # "off" /\ touched[a] = {} => Exact(s, work, refs)
  BY <1>1 DEF ExactInv
<1>3. s \in Asked \cup {NoAsk} /\ work \in Tree /\ work' \in Tree /\ ask \in [Askers -> Asked \cup {NoAsk}]
  BY <1>1, NextTyped DEF Typed
<1>4. CASE Stays(a)
  <2>1. t = s /\ touched[a] = {} /\ Changed(work, work') = {} /\ s.st # "off"
    BY <1>1, <1>4 DEF Stays
  <2>2. work' = work
    BY <1>3, <2>1, SameTree
  <2>3. \A n \in DOMAIN refs' : (n \in DOMAIN refs /\ refs'[n] = refs[n]) \/ refs'[n] = work
    BY <1>1, RefSteps DEF RefsFrom
  <2>4. s.tree \in Tree /\ s.before \in Tree
    BY <1>3, <2>1 DEF Asked, NoAsk
  <2> HIDE DEF s, t
  <2>5. Exact(s, work, refs')
    BY <1>2, <2>1, <2>3, <2>4, LeavesItself
  <2>6. QED
    BY <2>1, <2>2, <2>5 DEF t
<1>5. CASE Puts(a)
  <2>1. PICK n \in DOMAIN refs, p \in Name :
        \E extra \in Extras(refs[n], work) :
          /\ t = [st |-> "ask", target |-> n, tree |-> refs[n], extra |-> extra,
                  pre |-> p, before |-> work]
          /\ Stored(p) /\ work' = work /\ refs[n] # work
    BY <1>5 DEF Puts
  <2> HIDE DEF t
  <2>2. t.st = "ask" /\ t.target = n /\ t.tree = refs[n] /\ t.before = work
    BY <2>1
  <2>3. refs'[n] = refs[n] \/ refs'[n] = work
    BY <2>1 DEF Stored
  <2>4. Exact(t, work', refs')
    BY <2>1, <2>2, <2>3
  <2>5. QED
    BY <2>4 DEF t
<1>6. CASE Restore(a)
  <2>1. /\ s.st = "ask" /\ s.target \in DOMAIN refs /\ t = [s EXCEPT !.st = "restored"]
        /\ work' = Over(refs[s.target], work)
        /\ refs' = refs /\ touched'[a] = touched[a]
    BY <1>1, <1>3, <1>6 DEF Restore, Touched, Typed, Over
  <2>2. s \in Asked
    BY <1>3, <2>1 DEF NoAsk
  <2> HIDE DEF s, t
  <2>3. t.st = "restored" /\ t.tree = s.tree /\ t.before = s.before /\ t.target = s.target
    BY <2>1, <2>2 DEF Asked
  <2>4. work = s.before /\ refs[s.target] \in {s.tree, s.before} /\ s.tree # s.before
    BY <1>1, <1>2, <2>1
  <2>5. s.before \in Tree
    BY <2>2 DEF Asked
  <2>6. Exact(t, work', refs')
    BY <2>1, <2>3, <2>4, <2>5, OverItself
  <2>7. QED
    BY <2>6 DEF t
<1>7. CASE Delete(a)
  <2>1. /\ s.st = "restored" /\ t = [s EXCEPT !.st = "done"]
        /\ work' = [f \in Files |-> IF f \in s.extra THEN Absent ELSE work[f]]
        /\ refs' = refs /\ touched'[a] = touched[a]
    BY <1>1, <1>3, <1>7 DEF Delete, Touched, Typed
  <2>2. s \in Asked /\ s.extra \in Extras(s.tree, s.before)
    BY <1>1, <1>3, <2>1 DEF NoAsk, UndoInv
  <2> HIDE DEF s, t
  <2>3. t.st = "done" /\ t.tree = s.tree /\ t.before = s.before /\ t.target = s.target
    BY <2>1, <2>2 DEF Asked
  <2>4. Exact(s, work, refs)
    BY <1>1, <1>2, <2>1
  <2>5. s.tree \in Tree /\ s.before \in Tree
    BY <2>2 DEF Asked
  <2>6. work = Over(s.tree, s.before) => Leaves(s.tree, s.before, work')
    BY <2>1, <2>2, <2>5, DeletedExactly
  <2>7. Exact(t, work', refs')
    BY <2>1, <2>3, <2>4, <2>6
  <2>8. QED
    BY <2>7 DEF t
<1>8. QED
  BY <1>1, <1>4, <1>5, <1>6, <1>7, RollbackSteps DEF NoAsk

\* A rollback that nobody disturbs, to a checkpoint that nothing replaced, leaves the
\* checkpoint, and beside it only files git took for renamed, as they were, whatever else
\* was snapshotted or pruned meanwhile, and whether the deck or the command asked
\* (confirmRollback, checkpoint.Diff, Apply).
THEOREM RollbackLeavesTheCheckpoint == Spec => []RollbackExact
<1>1. Init => UndoInv /\ ExactInv
  BY DEF Init, UndoInv, ExactInv, NoAsk
<1>2. ExactInv => RollbackExact
  BY DEF ExactInv, RollbackExact, Undisturbed, Leaves
<1>3. QED
  BY <1>1, <1>2, InitTyped, NextTyped, NextUndo, NextExact, PTL DEF Spec

=============================================================================
