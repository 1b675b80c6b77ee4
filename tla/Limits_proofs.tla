---------------------------- MODULE Limits_proofs ----------------------------
(* Proofs about Limits, for every team, timeout and budget. *)
EXTENDS Limits, TLAPS

Row == [to : Roles, at : Nat, done : BOOLEAN, timedOut : BOOLEAN]
Entry == [exited : BOOLEAN, gone : BOOLEAN, paused : BOOLEAN, pausedAt : Nat, over : BOOLEAN]

-----------------------------------------------------------------------------
(* The invariant, as a predicate of rows b, work w, entries e, strayed s, time n *)

Typed(b, w, e, n) ==
  /\ n \in Nat
  /\ b \in Seq(Row)
  /\ w \in Seq(Nat) /\ Len(w) = Len(b)
  /\ e \in [Roles -> Entry]

\* Nothing has happened in the future.
Past(b, e, n) ==
  /\ \A i \in DOMAIN b : b[i].at <= n
  /\ \A r \in Roles : e[r].pausedAt <= n

Open(b, i) == ~b[i].done /\ ~b[i].timedOut
Held(row, x, n) == (IF x.paused THEN Later(row.at, x.pausedAt) ELSE n) - row.at

\* The clock of an open row agrees with the work.
RowExact(row, work, x, n) == Held(row, x, n) = work

Exact(b, w, e, s, n) ==
  \A i \in DOMAIN b : Open(b, i) /\ i \notin s => RowExact(b[i], w[i], e[b[i].to], n)

Good(b, w, e, s, n) == Typed(b, w, e, n) /\ Past(b, e, n) /\ Exact(b, w, e, s, n)

LInv == Good(board, worked, entry, strayed, now)

LEMMA RowFacts ==
  ASSUME NEW b \in Seq(Row), NEW i \in DOMAIN b
  PROVE  b[i] \in Row /\ b[i].to \in Roles /\ b[i].at \in Nat
         /\ b[i].done \in BOOLEAN /\ b[i].timedOut \in BOOLEAN
  <1>1. b[i] \in Row OBVIOUS
  <1> QED BY <1>1 DEF Row

LEMMA EntryFacts ==
  ASSUME NEW e \in [Roles -> Entry], NEW r \in Roles
  PROVE  e[r] \in Entry /\ e[r].pausedAt \in Nat /\ e[r].paused \in BOOLEAN
         /\ e[r].exited \in BOOLEAN /\ e[r].over \in BOOLEAN /\ e[r].gone \in BOOLEAN
  <1>1. e[r] \in Entry OBVIOUS
  <1> QED BY <1>1 DEF Entry

LEMMA FunctionIsSeq ==
  ASSUME NEW S, NEW n \in Nat, NEW f \in [1..n -> S]
  PROVE  f \in Seq(S) /\ Len(f) = n
  OBVIOUS

LEMMA LInvClockExact == LInv => ClockExact
  BY LimitsAssumption
  DEF LInv, Good, Typed, Exact, Open, RowExact, Held, ClockExact, Rows, Running, Counted

LEMMA InitLInv == Init => LInv
  <1> SUFFICES ASSUME Init PROVE LInv OBVIOUS
  <1>1. Typed(board, worked, entry, now) BY DEF Init, Typed, Entry, Started
  <1>2. DOMAIN board = {} /\ \A r \in Roles : entry[r].pausedAt = 0 BY DEF Init, Started
  <1> QED BY <1>1, <1>2 DEF Init, LInv, Good, Past, Exact

-----------------------------------------------------------------------------
(* What each kind of step does to it *)

\* A pause that begins, and whatever else of an entry changes, moves no clock.
LEMMA PauseKeeps ==
  ASSUME NEW b, NEW w, NEW e, NEW s, NEW n, NEW e2 \in [Roles -> Entry],
         Good(b, w, e, s, n),
         \A q \in Roles : \/ e2[q].paused = e[q].paused /\ e2[q].pausedAt = e[q].pausedAt
                          \/ e[q].paused = FALSE /\ e2[q].paused = TRUE /\ e2[q].pausedAt = n
  PROVE  Good(b, w, e2, s, n)
  <1> USE DEF Good, Typed
  <1>1. Past(b, e2, n) BY EntryFacts DEF Past
  <1>2. Exact(b, w, e2, s, n)
    <2> SUFFICES ASSUME NEW i \in DOMAIN b, Open(b, i), i \notin s
                 PROVE  RowExact(b[i], w[i], e2[b[i].to], n)
      BY DEF Exact
    <2>1. b[i].to \in Roles /\ b[i].at \in Nat BY RowFacts
    <2>2. RowExact(b[i], w[i], e[b[i].to], n) BY DEF Exact
    <2>3. b[i].at <= n BY DEF Past
    <2> QED BY <2>1, <2>2, <2>3 DEF RowExact, Held, Later
  <1> QED BY <1>1, <1>2

\* A pause that ends without a credit strays the rows that slept, and no others.
Alike(x, y) == x.paused = y.paused /\ x.pausedAt = y.pausedAt
Slept(row, x, n) == x.paused /\ n > Later(row.at, x.pausedAt)

LEMMA StrayKeeps ==
  ASSUME NEW b, NEW w, NEW e, NEW s, NEW n, NEW e2 \in [Roles -> Entry], NEW s2,
         Good(b, w, e, s, n), s \subseteq s2,
         \A q \in Roles : Alike(e2[q], e[q]) \/ (e2[q].paused = FALSE /\ e2[q].pausedAt = 0),
         \A i \in DOMAIN b : Open(b, i) /\ i \notin s2 =>
           Alike(e2[b[i].to], e[b[i].to]) \/ ~Slept(b[i], e[b[i].to], n)
  PROVE  Good(b, w, e2, s2, n)
  <1> USE DEF Good, Typed
  <1>1. Past(b, e2, n) BY EntryFacts DEF Past, Alike
  <1>2. Exact(b, w, e2, s2, n)
    <2> SUFFICES ASSUME NEW i \in DOMAIN b, Open(b, i), i \notin s2
                 PROVE  RowExact(b[i], w[i], e2[b[i].to], n)
      BY DEF Exact
    <2>1. b[i].to \in Roles /\ b[i].at \in Nat BY RowFacts
    <2>2. RowExact(b[i], w[i], e[b[i].to], n) BY DEF Exact
    <2>3. b[i].at <= n /\ e[b[i].to].pausedAt <= n BY <2>1 DEF Past
    <2>4. e[b[i].to].pausedAt \in Nat /\ e[b[i].to].paused \in BOOLEAN BY <2>1, EntryFacts
    <2>5. CASE Alike(e2[b[i].to], e[b[i].to])
      BY <2>2, <2>5 DEF Alike, RowExact, Held
    <2>6. CASE ~Alike(e2[b[i].to], e[b[i].to])
      <3>1. e2[b[i].to].paused = FALSE /\ ~Slept(b[i], e[b[i].to], n) BY <2>1, <2>6
      <3>2. Held(b[i], e2[b[i].to], n) = n - b[i].at BY <3>1 DEF Held
      <3>3. Held(b[i], e[b[i].to], n) = n - b[i].at
        <4>1. CASE e[b[i].to].paused = FALSE BY <4>1 DEF Held
        <4>2. CASE e[b[i].to].paused = TRUE
          BY <2>1, <2>3, <2>4, <3>1, <4>2 DEF Held, Slept, Later
        <4> QED BY <2>4, <4>1, <4>2
      <3> QED BY <2>2, <3>2, <3>3 DEF RowExact
    <2> QED BY <2>5, <2>6
  <1> QED BY <1>1, <1>2

\* A new row has worked nothing, also when its role is paused.
LEMMA AppendKeeps ==
  ASSUME NEW b, NEW w, NEW e, NEW s, NEW n, NEW r \in Roles,
         Good(b, w, e, s, n)
  PROVE  Good(Append(b, [to |-> r, at |-> n, done |-> FALSE, timedOut |-> FALSE]),
              Append(w, 0), e, s, n)
  <1> DEFINE row == [to |-> r, at |-> n, done |-> FALSE, timedOut |-> FALSE]
             b2 == Append(b, row)
             w2 == Append(w, 0)
  <1>1. n \in Nat /\ b \in Seq(Row) /\ w \in Seq(Nat) /\ Len(w) = Len(b) /\ e \in [Roles -> Entry]
    BY DEF Good, Typed
  <1>2. row \in Row BY <1>1 DEF Row
  <1>3. row.to = r /\ row.at = n OBVIOUS
  <1> HIDE DEF row
  <1>4. Typed(b2, w2, e, n) BY <1>1, <1>2 DEF Typed
  <1>5. \A i \in DOMAIN b2 : \/ i \in DOMAIN b /\ b2[i] = b[i] /\ w2[i] = w[i]
                             \/ b2[i] = row /\ w2[i] = 0
    BY <1>1, <1>2
  <1>6. Past(b2, e, n)
    BY <1>1, <1>3, <1>5 DEF Good, Past
  <1>7. Exact(b2, w2, e, s, n)
    <2> SUFFICES ASSUME NEW i \in DOMAIN b2, Open(b2, i), i \notin s
                 PROVE  RowExact(b2[i], w2[i], e[b2[i].to], n)
      BY DEF Exact
    <2> HIDE DEF b2, w2
    <2>1. CASE i \in DOMAIN b /\ b2[i] = b[i] /\ w2[i] = w[i]
      BY <2>1 DEF Good, Exact, Open
    <2>2. CASE b2[i] = row /\ w2[i] = 0
      <3>1. e[r] \in Entry /\ e[r].pausedAt <= n /\ e[r].pausedAt \in Nat
        BY <1>1 DEF Good, Past, Entry
      <3>2. Later(n, e[r].pausedAt) = n BY <3>1, <1>1 DEF Later
      <3>3. Held(row, e[r], n) = 0 BY <1>1, <1>3, <3>2 DEF Held
      <3> QED BY <2>2, <1>3, <3>3 DEF RowExact
    <2> QED BY <1>5, <2>1, <2>2
  <1> HIDE DEF b2, w2
  <1>8. Good(b2, w2, e, s, n) BY <1>4, <1>6, <1>7 DEF Good
  <1> QED BY <1>8 DEF b2, w2, row

\* Rows that are closed, by a report or a timeout, have no clock any more; one
\* that is open again has strayed.
LEMMA CloseKeeps ==
  ASSUME NEW b, NEW w, NEW e, NEW s, NEW n, NEW b2 \in Seq(Row),
         Good(b, w, e, s, n), Len(b2) = Len(b),
         \A i \in DOMAIN b : /\ b2[i].to = b[i].to /\ b2[i].at = b[i].at
                             /\ Open(b2, i) => Open(b, i) \/ i \in s
  PROVE  Good(b2, w, e, s, n)
  <1>1. DOMAIN b2 = DOMAIN b BY DEF Good, Typed
  <1>2. Typed(b2, w, e, n) BY DEF Good, Typed
  <1>3. Past(b2, e, n) BY <1>1 DEF Good, Past
  <1>4. Exact(b2, w, e, s, n)
    BY <1>1 DEF Good, Exact, RowExact, Held
  <1> QED BY <1>2, <1>3, <1>4 DEF Good

\* Time that passes without a deck is on no clock but those of rows that strayed.
LEMMA LaterKeeps ==
  ASSUME NEW b, NEW w, NEW e, NEW s, NEW n, NEW n2 \in Nat,
         Good(b, w, e, s, n), n <= n2,
         n2 = n \/ \A i \in DOMAIN b : Open(b, i) => i \in s
  PROVE  Good(b, w, e, s, n2)
  <1> USE DEF Good, Typed
  <1>1. Past(b, e, n2)
    <2>1. \A i \in DOMAIN b : b[i].at \in Nat /\ b[i].at <= n BY RowFacts DEF Past
    <2>2. \A q \in Roles : e[q].pausedAt \in Nat /\ e[q].pausedAt <= n BY EntryFacts DEF Past
    <2> QED BY <2>1, <2>2 DEF Past
  <1>2. Exact(b, w, e, s, n2) BY DEF Exact
  <1> QED BY <1>1, <1>2

-----------------------------------------------------------------------------
(* The actions *)

LEMMA CreditArithmetic ==
  ASSUME NEW at \in Nat, NEW from \in Nat, NEW n \in Nat, at <= n, from <= n
  PROVE  LET moved == at + (n - Later(at, from)) IN
         moved \in Nat /\ moved <= n /\ n - moved = Later(at, from) - at
  BY DEF Later

\* To resume moves each open row by what it slept: from then on its clock shows
\* what it showed during the pause.
LEMMA ResumeKeeps ==
  ASSUME LInv, NEW r \in Roles, entry[r].paused = TRUE,
         Credit(r), entry' = [entry EXCEPT ![r].paused = FALSE, ![r].pausedAt = 0],
         UNCHANGED <<now, worked, strayed>>
  PROVE  LInv'
  <1>1. Typed(board, worked, entry, now) /\ Past(board, entry, now)
        /\ Exact(board, worked, entry, strayed, now)
    BY DEF LInv, Good
  <1>2. board \in Seq(Row) /\ worked \in Seq(Nat) /\ Len(worked) = Len(board)
        /\ now \in Nat /\ entry \in [Roles -> Entry]
    BY <1>1 DEF Typed
  <1> DEFINE moved(i) == board[i].at + (now - Later(board[i].at, entry[r].pausedAt))
  <1>3. entry[r].pausedAt \in Nat /\ entry[r].pausedAt <= now
    BY <1>1, <1>2, EntryFacts DEF Past
  <1>4. \A i \in DOMAIN board : board[i].at <= now
    BY <1>1 DEF Past
  <1>5. \A i \in DOMAIN board : /\ moved(i) \in Nat /\ moved(i) <= now
                                /\ now - moved(i) = Later(board[i].at, entry[r].pausedAt) - board[i].at
    BY <1>2, <1>3, <1>4, RowFacts, CreditArithmetic
  <1> HIDE DEF moved
  <1>6. board' = [i \in DOMAIN board |->
                    IF board[i].to # r \/ ~Open(board, i) THEN board[i]
                    ELSE [board[i] EXCEPT !.at = moved(i)]]
    BY DEF Credit, Rows, Running, Open, moved
  <1>7. \A i \in DOMAIN board : /\ board'[i] \in Row
                                /\ board'[i].to = board[i].to
                                /\ board'[i].done = board[i].done
                                /\ board'[i].timedOut = board[i].timedOut
                                /\ IF board[i].to # r \/ ~Open(board, i) THEN board'[i] = board[i]
                                   ELSE board'[i].at = moved(i)
    <2> TAKE i \in DOMAIN board
    <2>1. board[i] \in Row BY <1>2, RowFacts
    <2>2. CASE board[i].to # r \/ ~Open(board, i)
      <3>1. board'[i] = board[i] BY <1>6, <2>2
      <3> QED BY <2>1, <2>2, <3>1
    <2>3. CASE ~(board[i].to # r \/ ~Open(board, i))
      <3>1. board'[i] = [board[i] EXCEPT !.at = moved(i)] BY <1>6, <2>3
      <3> QED BY <2>1, <2>3, <3>1, <1>5 DEF Row
    <2> QED BY <2>2, <2>3
  <1>8. board' \in Seq(Row) /\ Len(board') = Len(board) /\ DOMAIN board' = DOMAIN board
    BY <1>2, <1>6, <1>7
  <1>9. /\ entry' \in [Roles -> Entry]
        /\ entry'[r].paused = FALSE /\ entry'[r].pausedAt = 0
        /\ \A q \in Roles \ {r} : entry'[q] = entry[q]
    BY <1>2 DEF Entry
  <1>10. Typed(board', worked', entry', now') BY <1>2, <1>8, <1>9 DEF Typed
  <1>11. Past(board', entry', now')
    <2>1. \A i \in DOMAIN board : board'[i].at <= now BY <1>4, <1>5, <1>7
    <2>2. \A q \in Roles : entry'[q].pausedAt <= now BY <1>1, <1>2, <1>9 DEF Past
    <2> QED BY <1>8, <2>1, <2>2 DEF Past
  <1>12. Exact(board', worked', entry', strayed', now')
    <2> SUFFICES ASSUME NEW i \in DOMAIN board, Open(board', i), i \notin strayed
                 PROVE  RowExact(board'[i], worked[i], entry'[board'[i].to], now)
      BY <1>8 DEF Exact
    <2>1. Open(board, i) BY <1>7 DEF Open
    <2>2. RowExact(board[i], worked[i], entry[board[i].to], now) BY <1>1, <2>1 DEF Exact
    <2>3. board[i].to \in Roles BY <1>2, RowFacts
    <2>4. CASE board[i].to # r BY <1>7, <1>9, <2>2, <2>3, <2>4
    <2>5. CASE board[i].to = r
      <3>1. board'[i].to = r /\ board'[i].at = moved(i) BY <1>7, <2>1, <2>5
      <3>2. Held(board[i], entry[r], now) = Later(board[i].at, entry[r].pausedAt) - board[i].at
        BY DEF Held
      <3>3. Held(board'[i], entry'[r], now) = now - moved(i)
        BY <1>9, <3>1 DEF Held
      <3> QED BY <1>5, <2>2, <2>5, <3>1, <3>2, <3>3 DEF RowExact
    <2> QED BY <2>4, <2>5
  <1> QED BY <1>10, <1>11, <1>12 DEF LInv, Good

\* A tick of the clock is work for every open row whose role is not paused.
LEMMA TickKeeps ==
  ASSUME LInv, Tick
  PROVE  LInv'
  <1>1. Typed(board, worked, entry, now) /\ Past(board, entry, now)
        /\ Exact(board, worked, entry, strayed, now)
    BY DEF LInv, Good
  <1>2. board \in Seq(Row) /\ worked \in Seq(Nat) /\ Len(worked) = Len(board)
        /\ now \in Nat /\ entry \in [Roles -> Entry] /\ DOMAIN board = DOMAIN worked
    BY <1>1 DEF Typed
  <1>3. /\ now' = now + 1 /\ board' = board /\ strayed' = strayed /\ entry' = entry
        /\ worked' = [i \in DOMAIN board |-> IF ~Open(board, i) \/ entry[board[i].to].paused
                                             THEN worked[i] ELSE worked[i] + 1]
    BY DEF Tick, rows, Rows, Running, Open
  <1>4. worked' \in Seq(Nat) /\ Len(worked') = Len(board)
    <2>1. \A i \in DOMAIN board : worked'[i] \in Nat BY <1>2, <1>3
    <2>2. DOMAIN board = 1..Len(board) /\ Len(board) \in Nat BY <1>2
    <2>3. worked' \in [1..Len(board) -> Nat] BY <1>3, <2>1, <2>2
    <2> QED BY <2>2, <2>3, FunctionIsSeq
  <1>5. Typed(board', worked', entry', now') BY <1>2, <1>3, <1>4 DEF Typed
  <1>6. Past(board', entry', now')
    <2>1. \A i \in DOMAIN board : board[i].at <= now + 1 BY <1>1, <1>2, RowFacts DEF Past
    <2>2. \A q \in Roles : entry[q].pausedAt <= now + 1 BY <1>1, <1>2, EntryFacts DEF Past
    <2> QED BY <1>3, <2>1, <2>2 DEF Past
  <1>7. Exact(board', worked', entry', strayed', now')
    <2>0. SUFFICES ASSUME NEW i \in DOMAIN board, Open(board, i), i \notin strayed
                 PROVE  RowExact(board[i], worked'[i], entry[board[i].to], now + 1)
      BY <1>3 DEF Exact
    <2> DEFINE r == board[i].to
    <2>1. r \in Roles /\ board[i].at \in Nat BY <1>2, RowFacts
    <2>2. RowExact(board[i], worked[i], entry[r], now) BY <1>1, <2>0 DEF Exact
    <2>3. entry[r].paused \in BOOLEAN /\ worked[i] \in Nat BY <1>2, <2>1, EntryFacts
    <2> HIDE DEF r
    <2>4. CASE entry[r].paused = TRUE
      <3>1. worked'[i] = worked[i] BY <1>3, <2>4 DEF r
      <3> QED BY <2>2, <2>4, <3>1 DEF RowExact, Held, r
    <2>5. CASE entry[r].paused = FALSE
      <3>1. worked'[i] = worked[i] + 1 BY <1>3, <2>0, <2>5 DEF r
      <3>2. now - board[i].at = worked[i] BY <2>2, <2>5 DEF RowExact, Held, r
      <3>3. (now + 1) - board[i].at = worked[i] + 1 BY <1>2, <2>1, <3>2
      <3> QED BY <2>5, <3>1, <3>3 DEF RowExact, Held, r
    <2> QED BY <2>3, <2>4, <2>5 DEF r
  <1> QED BY <1>5, <1>6, <1>7 DEF LInv, Good

\* Another process in the pane, or none.
LEMMA RespawnKeeps ==
  ASSUME NEW b, NEW w, NEW r \in Roles,
         Good(b, w, entry, strayed, now), Respawn(r, b)
  PROVE  Good(b, w, entry', strayed', now)
  <1>1. b \in Seq(Row) /\ now \in Nat /\ entry \in [Roles -> Entry] BY DEF Good, Typed
  <1>2. CASE /\ entry' = [entry EXCEPT ![r].exited = FALSE, ![r].paused = FALSE, ![r].pausedAt = 0]
             /\ strayed' = strayed \cup Sleeping({r}, b)
    <2>1. entry' \in [Roles -> Entry] BY <1>1, <1>2 DEF Entry
    <2>2. /\ entry'[r].paused = FALSE /\ entry'[r].pausedAt = 0
          /\ \A q \in Roles \ {r} : entry'[q] = entry[q]
      BY <1>1, <1>2 DEF Entry
    <2>3. ASSUME NEW i \in DOMAIN b, Open(b, i), i \notin strayed', b[i].to = r
          PROVE  ~Slept(b[i], entry[b[i].to], now)
      <3>1. i \notin Sleeping({r}, b) BY <1>2, <2>3
      <3> QED BY <2>3, <3>1 DEF Sleeping, Open, Slept
    <2>4. \A q \in Roles : Alike(entry'[q], entry[q]) \/ (entry'[q].paused = FALSE /\ entry'[q].pausedAt = 0)
      BY <2>2 DEF Alike
    <2>5. \A i \in DOMAIN b : Open(b, i) /\ i \notin strayed' =>
            Alike(entry'[b[i].to], entry[b[i].to]) \/ ~Slept(b[i], entry[b[i].to], now)
      BY <1>1, <2>2, <2>3, RowFacts DEF Alike
    <2>6. strayed \subseteq strayed' BY <1>2
    <2> HIDE DEF Alike, Slept
    <2> QED BY <2>1, <2>4, <2>5, <2>6, StrayKeeps
  <1>3. CASE entry' = [entry EXCEPT ![r].exited = TRUE] /\ UNCHANGED strayed
    <2>1. entry' \in [Roles -> Entry] BY <1>1, <1>3 DEF Entry
    <2>2. \A q \in Roles : entry'[q].paused = entry[q].paused /\ entry'[q].pausedAt = entry[q].pausedAt
      BY <1>1, <1>3 DEF Entry
    <2> QED BY <1>3, <2>1, <2>2, PauseKeeps
  <1> QED BY <1>2, <1>3 DEF Respawn

LEMMA ExitKeeps ==
  ASSUME LInv, NEW r \in Roles, entry' = [entry EXCEPT ![r].exited = TRUE],
         UNCHANGED <<now, board, worked, strayed>>
  PROVE  LInv'
  <1>1. entry \in [Roles -> Entry] BY DEF LInv, Good, Typed
  <1>2. entry' \in [Roles -> Entry] BY <1>1 DEF Entry
  <1>3. \A q \in Roles : entry'[q].paused = entry[q].paused /\ entry'[q].pausedAt = entry[q].pausedAt
    BY <1>1 DEF Entry
  <1>4. Good(board, worked, entry', strayed, now) BY <1>2, <1>3, PauseKeeps DEF LInv
  <1> QED BY <1>4 DEF LInv

LEMMA TogglePauseKeeps ==
  ASSUME LInv, NEW r \in Roles, TogglePause(r)
  PROVE  LInv'
  <1>1. entry \in [Roles -> Entry] /\ now \in Nat BY DEF LInv, Good, Typed
  <1>2. entry[r].paused \in BOOLEAN BY <1>1, EntryFacts
  <1>3. CASE entry[r].paused = TRUE
    BY <1>3, ResumeKeeps DEF TogglePause
  <1>4. CASE entry[r].paused = FALSE
    <2>1. entry' = [entry EXCEPT ![r].paused = TRUE, ![r].pausedAt = now]
          /\ UNCHANGED <<now, board, worked, strayed>>
      BY <1>4 DEF TogglePause
    <2>2. entry' \in [Roles -> Entry] BY <1>1, <2>1 DEF Entry
    <2>3. /\ entry'[r].paused = TRUE /\ entry'[r].pausedAt = now
          /\ \A q \in Roles \ {r} : entry'[q] = entry[q]
      BY <1>1, <2>1 DEF Entry
    <2>4. Good(board, worked, entry', strayed, now) BY <1>4, <2>2, <2>3, PauseKeeps DEF LInv
    <2> QED BY <2>1, <2>4 DEF LInv
  <1> QED BY <1>2, <1>3, <1>4

LEMMA DeliverKeeps ==
  ASSUME LInv, NEW r \in Roles, Deliver(r)
  PROVE  LInv'
  <1>1. Good(board', worked', entry, strayed, now) /\ now' = now
    BY AppendKeeps DEF LInv, Deliver
  <1>2. CASE r \in Fresh
    <2>1. Respawn(r, board') BY <1>2 DEF Deliver
    <2> QED BY <1>1, <2>1, RespawnKeeps DEF LInv
  <1>3. CASE r \notin Fresh
    <2>1. entry' = entry /\ strayed' = strayed BY <1>3 DEF Deliver
    <2> QED BY <1>1, <2>1 DEF LInv
  <1> QED BY <1>2, <1>3

LEMMA ReportKeeps ==
  ASSUME LInv, NEW i \in Rows, Report(i)
  PROVE  LInv'
  <1>1. board \in Seq(Row) BY DEF LInv, Good, Typed
  <1>2. board' = [board EXCEPT ![i].done = TRUE] /\ UNCHANGED <<now, worked, strayed, entry>>
    BY DEF Report
  <1>3. board[i] \in Row BY <1>1 DEF Rows
  <1>4. [board[i] EXCEPT !.done = TRUE] \in Row BY <1>3 DEF Row
  <1>5. board' \in Seq(Row) /\ Len(board') = Len(board) BY <1>1, <1>2, <1>4 DEF Rows
  <1>6. \A j \in DOMAIN board : /\ board'[j].to = board[j].to /\ board'[j].at = board[j].at
                                /\ Open(board', j) => Open(board, j)
    BY <1>1, <1>2, <1>3 DEF Rows, Open, Row
  <1>7. Good(board', worked, entry, strayed, now) BY <1>5, <1>6, CloseKeeps DEF LInv
  <1> QED BY <1>2, <1>7 DEF LInv

LEMMA CheckTimeoutsKeeps ==
  ASSUME LInv, CheckTimeouts
  PROVE  LInv'
  <1>1. board \in Seq(Row) BY DEF LInv, Good, Typed
  <1>2. board' = [i \in DOMAIN board |-> [board[i] EXCEPT !.timedOut = board[i].timedOut \/ Due(i)]]
        /\ UNCHANGED <<now, worked, strayed, entry>>
    BY DEF CheckTimeouts, Rows
  <1>3. ASSUME NEW i \in DOMAIN board
        PROVE  /\ board'[i] \in Row
               /\ board'[i].to = board[i].to /\ board'[i].at = board[i].at
               /\ Open(board', i) => Open(board, i)
    <2>1. board[i] \in Row BY <1>1
    <2>2. board'[i] = [board[i] EXCEPT !.timedOut = board[i].timedOut \/ Due(i)] BY <1>2
    <2>3. (board[i].timedOut \/ Due(i)) \in BOOLEAN OBVIOUS
    <2> QED BY <2>1, <2>2, <2>3 DEF Open, Row
  <1>4. DOMAIN board = 1..Len(board) /\ Len(board) \in Nat BY <1>1
  <1>5. board' \in [1..Len(board) -> Row] BY <1>2, <1>3, <1>4
  <1>6. board' \in Seq(Row) /\ Len(board') = Len(board) BY <1>4, <1>5, FunctionIsSeq
  <1>7. Good(board', worked, entry, strayed, now) BY <1>3, <1>6, CloseKeeps DEF LInv
  <1> QED BY <1>2, <1>7 DEF LInv

LEMMA PaneClosedKeeps ==
  ASSUME LInv, NEW r \in Roles, PaneClosed(r)
  PROVE  LInv'
  <1>1. UNCHANGED <<now, board, worked>> BY DEF PaneClosed
  <1>2. CASE Respawn(r, board) BY <1>1, <1>2, RespawnKeeps DEF LInv
  <1>3. CASE entry' = [entry EXCEPT ![r].exited = TRUE] /\ UNCHANGED strayed
    BY <1>1, <1>3, ExitKeeps
  <1> QED BY <1>2, <1>3 DEF PaneClosed

LEMMA RestartKeeps ==
  ASSUME LInv, NEW r \in Roles, Restart(r)
  PROVE  LInv'
  BY RespawnKeeps DEF LInv, Restart

\* The file drops a role, whose clocks stand or go on as they did; it is back
\* with an entry that is not paused.
LEMMA RetireKeeps ==
  ASSUME LInv, NEW r \in Roles, Retire(r)
  PROVE  LInv'
  <1>1. entry \in [Roles -> Entry] BY DEF LInv, Good, Typed
  <1>2. entry' = [entry EXCEPT ![r].gone = TRUE, ![r].exited = TRUE]
        /\ UNCHANGED <<now, board, worked, strayed>>
    BY DEF Retire, rows
  <1>3. entry' \in [Roles -> Entry] BY <1>1, <1>2 DEF Entry
  <1>4. \A q \in Roles : entry'[q].paused = entry[q].paused /\ entry'[q].pausedAt = entry[q].pausedAt
    BY <1>1, <1>2 DEF Entry
  <1>5. Good(board, worked, entry', strayed, now) BY <1>3, <1>4, PauseKeeps DEF LInv
  <1> QED BY <1>2, <1>5 DEF LInv

LEMMA ReturnKeeps ==
  ASSUME LInv, NEW r \in Roles, Return(r)
  PROVE  LInv'
  <1>1. board \in Seq(Row) /\ now \in Nat /\ entry \in [Roles -> Entry]
    BY DEF LInv, Good, Typed
  <1>2. /\ entry' = [entry EXCEPT ![r] = Started]
        /\ strayed' = strayed \cup Sleeping({r}, board)
        /\ UNCHANGED <<now, board, worked>>
    BY DEF Return
  <1>3. Started \in Entry BY DEF Started, Entry
  <1>4. entry' \in [Roles -> Entry] /\ entry'[r] = Started
        /\ \A q \in Roles \ {r} : entry'[q] = entry[q]
    BY <1>1, <1>2, <1>3
  <1>5. Started.paused = FALSE /\ Started.pausedAt = 0 BY DEF Started
  <1>6. ASSUME NEW i \in DOMAIN board, Open(board, i), i \notin strayed'
        PROVE  Alike(entry'[board[i].to], entry[board[i].to])
               \/ ~Slept(board[i], entry[board[i].to], now)
    <2>1. board[i].to \in Roles BY <1>1, RowFacts
    <2>2. CASE board[i].to = r
      BY <1>2, <1>6, <2>2 DEF Sleeping, Open, Slept
    <2>3. CASE board[i].to # r BY <1>4, <2>1, <2>3 DEF Alike
    <2> QED BY <2>2, <2>3
  <1>7. \A q \in Roles : Alike(entry'[q], entry[q]) \/ (entry'[q].paused = FALSE /\ entry'[q].pausedAt = 0)
    BY <1>4, <1>5 DEF Alike
  <1>8. strayed \subseteq strayed' BY <1>2
  <1>9. Good(board, worked, entry', strayed', now)
    BY <1>4, <1>6, <1>7, <1>8, StrayKeeps DEF LInv
  <1> QED BY <1>2, <1>9 DEF LInv

\* A new deck: the rows come back running; those that slept or were timed out
\* stray, and all of them when time has passed since the last deck.
LEMMA ResumeDeckKeeps ==
  ASSUME LInv, Resume
  PROVE  LInv'
  <1>1. board \in Seq(Row) /\ now \in Nat /\ entry \in [Roles -> Entry]
    BY DEF LInv, Good, Typed
  <1>2. PICK down \in 0 .. (MaxNow - now) :
          /\ now' = now + down
          /\ strayed' = strayed \cup Sleeping(Roles, board)
                         \cup {i \in DOMAIN board : board[i].timedOut \/ (down > 0 /\ Running(i))}
    BY DEF Resume, Rows
  <1>3. /\ board' = [i \in DOMAIN board |-> [board[i] EXCEPT !.timedOut = FALSE]]
        /\ entry' = [r \in Roles |-> [Started EXCEPT !.gone = entry[r].gone, !.exited = entry[r].gone]]
        /\ worked' = worked
    BY DEF Resume, Rows
  <1>4. ASSUME NEW q \in Roles
        PROVE  entry'[q] \in Entry /\ entry'[q].paused = FALSE /\ entry'[q].pausedAt = 0
    BY <1>1, <1>3, EntryFacts DEF Entry, Started
  <1>5. entry' \in [Roles -> Entry] BY <1>3, <1>4
  <1>6. ASSUME NEW i \in DOMAIN board, Open(board, i), i \notin strayed'
        PROVE  ~Slept(board[i], entry[board[i].to], now)
    BY <1>1, <1>2, <1>6, RowFacts DEF Sleeping, Open, Slept
  <1>7. strayed \subseteq strayed' BY <1>2
  <1>8. Good(board, worked, entry', strayed', now)
    BY <1>4, <1>5, <1>6, <1>7, StrayKeeps DEF LInv
  <1>9. ASSUME NEW i \in DOMAIN board
        PROVE  /\ board'[i] \in Row
               /\ board'[i].to = board[i].to /\ board'[i].at = board[i].at
               /\ Open(board', i) => Open(board, i) \/ i \in strayed'
               /\ Open(board', i) => i \in strayed' \/ ~(down > 0)
    <2>1. board[i] \in Row BY <1>1
    <2>2. board'[i] = [board[i] EXCEPT !.timedOut = FALSE] BY <1>3
    <2>3. ~board[i].timedOut \/ i \in strayed' BY <1>2
    <2>4. board'[i] \in Row /\ board'[i].to = board[i].to /\ board'[i].at = board[i].at
          /\ board'[i].done = board[i].done
      BY <2>1, <2>2 DEF Row
    <2>5. Open(board', i) => Open(board, i) \/ i \in strayed' BY <2>3, <2>4 DEF Open
    <2>6. Open(board, i) /\ down > 0 => i \in strayed' BY <1>2 DEF Open, Running
    <2> QED BY <2>4, <2>5, <2>6
  <1>10. DOMAIN board = 1..Len(board) /\ Len(board) \in Nat BY <1>1
  <1>11. board' \in [1..Len(board) -> Row] BY <1>3, <1>9, <1>10
  <1>12. board' \in Seq(Row) /\ Len(board') = Len(board) /\ DOMAIN board' = DOMAIN board
    BY <1>10, <1>11, FunctionIsSeq
  <1>13. Good(board', worked, entry', strayed', now) BY <1>8, <1>9, <1>12, CloseKeeps
  <1>14. now' \in Nat /\ now <= now' /\ (now' = now \/ down > 0) BY <1>1, <1>2
  <1>15. now' = now \/ \A i \in DOMAIN board' : Open(board', i) => i \in strayed'
    BY <1>9, <1>12, <1>14
  <1>16. Good(board', worked, entry', strayed', now') BY <1>13, <1>14, <1>15, LaterKeeps
  <1> QED BY <1>3, <1>16 DEF LInv

LEMMA CheckBudgetsKeeps ==
  ASSUME LInv, CheckBudgets
  PROVE  LInv'
  <1>1. entry \in [Roles -> Entry] /\ now \in Nat BY DEF LInv, Good, Typed
  <1>2. UNCHANGED <<now, board, worked, strayed>> BY DEF CheckBudgets, rows
  <1>3. ASSUME NEW q \in Roles
        PROVE  /\ entry'[q] \in Entry
               /\ \/ entry'[q].paused = entry[q].paused /\ entry'[q].pausedAt = entry[q].pausedAt
                  \/ entry[q].paused = FALSE /\ entry'[q].paused = TRUE /\ entry'[q].pausedAt = now
    <2>1. entry[q] \in Entry BY <1>1
    <2>2. \/ entry'[q] = [entry[q] EXCEPT !.over = FALSE]
          \/ entry'[q] = entry[q]
          \/ entry'[q] = [entry[q] EXCEPT !.over = TRUE, !.paused = TRUE, !.pausedAt = now]
             /\ ~entry[q].paused
          \/ entry'[q] = [entry[q] EXCEPT !.over = TRUE]
      BY DEF CheckBudgets
    <2> QED BY <1>1, <2>1, <2>2 DEF Entry
  <1>4. entry' \in [Roles -> Entry] BY <1>3 DEF CheckBudgets
  <1>5. Good(board, worked, entry', strayed, now) BY <1>3, <1>4, PauseKeeps DEF LInv
  <1> QED BY <1>2, <1>5 DEF LInv

LEMMA NextLInv ==
  ASSUME LInv, [Next]_vars
  PROVE  LInv'
  <1>1. CASE UNCHANGED <<now, rows, entry>>
    BY <1>1 DEF rows, LInv
  <1>2. CASE Tick BY <1>2, TickKeeps
  <1>3. CASE CheckTimeouts BY <1>3, CheckTimeoutsKeeps
  <1>4. CASE Resume BY <1>4, ResumeDeckKeeps
  <1>5. CASE CheckBudgets BY <1>5, CheckBudgetsKeeps
  <1>6. ASSUME NEW r \in Roles, TogglePause(r) \/ Deliver(r) \/ PaneClosed(r) \/ Restart(r)
        PROVE  LInv'
    BY <1>6, TogglePauseKeeps, DeliverKeeps, PaneClosedKeeps, RestartKeeps
  <1>7. ASSUME NEW i \in Rows, Report(i) PROVE LInv'
    BY <1>7, ReportKeeps
  <1>8. CASE Fetch \/ GatewayRestart \/ \E r \in Budgeted : Spend(r)
    BY <1>1, <1>8 DEF Fetch, GatewayRestart, Spend
  <1>9. ASSUME NEW r \in Edited, Reload(r) \/ Retire(r) \/ Return(r) PROVE LInv'
    BY <1>1, <1>9, RetireKeeps, ReturnKeeps, LimitsAssumption DEF Reload
  <1>10. CASE UNCHANGED vars BY <1>1, <1>10 DEF vars
  <1> QED BY <1>2, <1>3, <1>4, <1>5, <1>6, <1>7, <1>8, <1>9, <1>10 DEF Next

THEOREM LimitsInvariance == Spec => []LInv
  BY InitLInv, NextLInv, PTL DEF Spec

\* Whatever the pauses, the timeouts and the order of tasks: the clock of every
\* running delegation that no new process or deck has strayed counts exactly the
\* time its role was not paused (creditPause, checkTimeouts).
THEOREM ClocksExact == Spec => []ClockExact
  BY LimitsInvariance, LInvClockExact, PTL

-----------------------------------------------------------------------------
(* Timeouts *)

LimitInv == limit \in [Roles -> Nat]

LEMMA NextLimitInv ==
  ASSUME LimitInv, [Next]_vars
  PROVE  LimitInv'
  <1>1. CASE UNCHANGED limit BY <1>1 DEF LimitInv
  <1>2. ASSUME NEW r \in Edited, Reload(r) \/ Retire(r) \/ Return(r) PROVE LimitInv'
    <2>1. \A t \in Timeouts : t \in Nat BY LimitsAssumption
    <2> QED BY <1>1, <1>2, <2>1 DEF Reload, Retire, Return, LimitInv
  <1>3. CASE Tick \/ CheckTimeouts \/ Resume \/ Fetch \/ CheckBudgets \/ GatewayRestart
    BY <1>1, <1>3 DEF Tick, CheckTimeouts, Resume, Fetch, CheckBudgets, GatewayRestart
  <1>4. ASSUME NEW r \in Roles, TogglePause(r) \/ Deliver(r) \/ PaneClosed(r) \/ Restart(r)
        PROVE  LimitInv'
    BY <1>1, <1>4 DEF TogglePause, Deliver, PaneClosed, Restart
  <1>5. CASE (\E r \in Budgeted : Spend(r)) \/ (\E i \in Rows : Report(i)) \/ UNCHANGED vars
    BY <1>1, <1>5 DEF Spend, Report, vars
  <1> QED BY <1>2, <1>3, <1>4, <1>5 DEF Next

THEOREM LimitInvariance == Spec => []LimitInv
  <1>1. Init => LimitInv BY LimitsAssumption DEF Init, LimitInv
  <1> QED BY <1>1, NextLimitInv, PTL DEF Spec

\* A limit is up when the work has come to it, and not before.
LEMMA DueIsWorked ==
  ASSUME LInv, LimitInv, NEW i \in Rows, Running(i), i \notin strayed, Limited(i),
         ~entry[board[i].to].paused
  PROVE  worked[i] \in Nat /\ limit[board[i].to] \in Nat
         /\ (Due(i) <=> worked[i] >= limit[board[i].to])
  <1>1. board \in Seq(Row) /\ worked \in Seq(Nat) /\ Len(worked) = Len(board) /\ now \in Nat
    BY DEF LInv, Good, Typed
  <1>2. RowExact(board[i], worked[i], entry[board[i].to], now)
    BY DEF LInv, Good, Exact, Rows, Running, Open
  <1>3. board[i].to \in Roles /\ board[i].at \in Nat BY <1>1, RowFacts DEF Rows
  <1>4. limit[board[i].to] \in Nat /\ worked[i] \in Nat
    BY <1>1, <1>3 DEF Rows, LimitInv
  <1>5. now - board[i].at = worked[i] BY <1>2 DEF RowExact, Held
  <1>6. Due(i) <=> now - board[i].at >= limit[board[i].to] BY DEF Due
  <1> QED BY <1>4, <1>5, <1>6

LEMMA OnlyTimeoutsTimeOut ==
  ASSUME LInv, [Next]_vars, NEW i \in Rows, ~board[i].timedOut, board'[i].timedOut
  PROVE  CheckTimeouts /\ Due(i)
  <1>1. board \in Seq(Row) /\ board[i] \in Row BY DEF LInv, Good, Typed, Rows
  <1>2. CASE board' = board BY <1>2
  <1>3. ASSUME NEW r \in Roles, Credit(r) PROVE FALSE
    <2>1. board'[i] = board[i] \/ board'[i] = [board[i] EXCEPT !.at =
             board[i].at + (now - Later(board[i].at, entry[r].pausedAt))]
      BY <1>3 DEF Credit
    <2>2. board'[i].timedOut = board[i].timedOut BY <1>1, <2>1 DEF Row
    <2> QED BY <2>2
  <1>4. ASSUME NEW r \in Roles, Deliver(r) PROVE FALSE
    <2>1. board'[i] = board[i] BY <1>1, <1>4 DEF Deliver, Rows
    <2> QED BY <2>1
  <1>5. ASSUME NEW j \in Rows, Report(j) PROVE FALSE
    <2>1. board'[i] = board[i] \/ board'[i] = [board[i] EXCEPT !.done = TRUE]
      BY <1>1, <1>5 DEF Report, Rows
    <2>2. board'[i].timedOut = board[i].timedOut BY <1>1, <2>1 DEF Row
    <2> QED BY <2>2
  <1>6. CASE Resume
    <2>1. board'[i] = [board[i] EXCEPT !.timedOut = FALSE] BY <1>6 DEF Resume
    <2>2. board'[i].timedOut = FALSE BY <1>1, <2>1 DEF Row
    <2> QED BY <2>2
  <1>7. CASE CheckTimeouts
    <2>1. board'[i] = [board[i] EXCEPT !.timedOut = board[i].timedOut \/ Due(i)]
      BY <1>7 DEF CheckTimeouts
    <2>2. board'[i].timedOut = (board[i].timedOut \/ Due(i)) BY <1>1, <2>1 DEF Row
    <2> QED BY <1>7, <2>2
  <1>8. CASE Tick \/ Fetch \/ CheckBudgets \/ GatewayRestart \/ UNCHANGED vars
    BY <1>2, <1>8 DEF Tick, Fetch, CheckBudgets, GatewayRestart, vars, rows
  <1>9. ASSUME NEW r \in Roles, TogglePause(r) \/ PaneClosed(r) \/ Restart(r) PROVE FALSE
    BY <1>2, <1>3, <1>9 DEF TogglePause, PaneClosed, Restart
  <1>10. ASSUME NEW r \in Budgeted, Spend(r) PROVE FALSE
    BY <1>2, <1>10 DEF Spend, rows
  <1>11. ASSUME NEW r \in Edited, Reload(r) \/ Retire(r) \/ Return(r) PROVE FALSE
    BY <1>2, <1>11 DEF Reload, Retire, Return, rows
  <1> QED BY <1>4, <1>5, <1>6, <1>7, <1>8, <1>9, <1>10, <1>11 DEF Next

LEMMA OnlyTicksAreWork ==
  ASSUME LInv, [Next]_vars, NEW i \in Rows, worked'[i] # worked[i]
  PROVE  Tick /\ Running(i) /\ ~entry[board[i].to].paused
  <1>1. worked \in Seq(Nat) /\ Len(worked) = Len(board) /\ board \in Seq(Row)
    BY DEF LInv, Good, Typed
  <1>2. CASE worked' = worked BY <1>2
  <1>3. ASSUME NEW r \in Roles, Deliver(r) PROVE FALSE
    <2>1. worked' = Append(worked, 0) BY <1>3 DEF Deliver
    <2>2. worked'[i] = worked[i] BY <1>1, <2>1 DEF Rows
    <2> QED BY <2>2
  <1>4. CASE Tick
    <2>1. worked'[i] = IF ~Running(i) \/ entry[board[i].to].paused
                       THEN worked[i] ELSE worked[i] + 1
      BY <1>4 DEF Tick
    <2> QED BY <1>4, <2>1
  <1>5. ASSUME NEW r \in Roles, TogglePause(r) \/ PaneClosed(r) \/ Restart(r) PROVE FALSE
    BY <1>2, <1>5 DEF TogglePause, PaneClosed, Restart
  <1>6. ASSUME NEW r \in Edited, Reload(r) \/ Retire(r) \/ Return(r) PROVE FALSE
    BY <1>2, <1>6 DEF Reload, Retire, Return, rows
  <1>7. ASSUME NEW j \in Rows, Report(j) PROVE FALSE
    BY <1>2, <1>7 DEF Report
  <1>8. ASSUME NEW r \in Budgeted, Spend(r) PROVE FALSE
    BY <1>2, <1>8 DEF Spend, rows
  <1>9. CASE CheckTimeouts \/ Resume \/ Fetch \/ CheckBudgets \/ GatewayRestart \/ UNCHANGED vars
    BY <1>2, <1>9 DEF CheckTimeouts, Resume, Fetch, CheckBudgets, GatewayRestart, vars, rows
  <1> QED BY <1>3, <1>4, <1>5, <1>6, <1>7, <1>8, <1>9 DEF Next

\* A timeout comes when a role has worked its whole time on the row, and at once,
\* over every pause and whatever reloads make of the timeout and the roster: the
\* deck's clock is the work (ClocksExact), and the check comes before the tick.
THEOREM TimeoutsAreJust == Spec => TimeoutJust
  <1>1. ASSUME LInv, LimitInv, [Next]_vars, NEW i \in Rows \ strayed
        PROVE  /\ ~board[i].timedOut /\ board'[i].timedOut => worked[i] >= limit[board[i].to]
               /\ Limited(i) /\ worked'[i] > worked[i] => worked[i] < limit[board[i].to]
    <2>1. CASE ~board[i].timedOut /\ board'[i].timedOut
      <3>1. Due(i) BY <1>1, <2>1, OnlyTimeoutsTimeOut
      <3>2. worked[i] >= limit[board[i].to] BY <1>1, <3>1, DueIsWorked DEF Due
      <3>3. worked'[i] = worked[i]
        <4>1. CheckTimeouts BY <1>1, <2>1, OnlyTimeoutsTimeOut
        <4> QED BY <4>1 DEF CheckTimeouts
      <3>4. worked[i] \in Nat BY <1>1, <3>1, DueIsWorked DEF Due
      <3> QED BY <3>2, <3>3, <3>4
    <2>2. CASE Limited(i) /\ worked'[i] # worked[i]
      <3>1. Tick /\ Running(i) /\ ~entry[board[i].to].paused BY <1>1, <2>2, OnlyTicksAreWork
      <3>2. ~Due(i) BY <3>1 DEF Tick
      <3>3. worked[i] \in Nat /\ limit[board[i].to] \in Nat
            /\ (Due(i) <=> worked[i] >= limit[board[i].to])
        BY <1>1, <2>2, <3>1, DueIsWorked
      <3>4. worked[i] < limit[board[i].to] BY <3>2, <3>3
      <3>5. board' = board BY <3>1 DEF Tick
      <3> QED BY <3>4, <3>5
    <2>3. CASE worked'[i] = worked[i]
      <3>1. worked[i] \in Nat BY <1>1 DEF LInv, Good, Typed, Rows
      <3>2. ~(worked'[i] > worked[i]) BY <2>3, <3>1
      <3> QED BY <2>1, <3>2
    <2> QED BY <2>1, <2>2, <2>3
  <1>2. ASSUME LInv, LimitInv, [Next]_vars
        PROVE  [\A i \in Rows \ strayed :
                  LET r == board[i].to IN
                  /\ ~board[i].timedOut /\ board'[i].timedOut => worked[i] >= limit[r]
                  /\ Limited(i) /\ worked'[i] > worked[i] => worked[i] < limit[r]]_vars
    BY <1>1, <1>2
  <1> QED BY <1>2, LimitsInvariance, LimitInvariance, PTL DEF Spec, TimeoutJust

-----------------------------------------------------------------------------
(* Budgets *)

MoneyTyped ==
  /\ cap \in [Budgeted -> Caps] /\ cost \in [Budgeted -> Nat]
  /\ DOMAIN read \subseteq Budgeted /\ \A r \in DOMAIN read : read[r] \in Nat
  /\ raised \subseteq Budgeted

\* A role that may not run over its budget again is over it, and so is whatever
\* the loop can still be told of it.
Latched ==
  \A r \in Budgeted \ raised : /\ entry[r].over
                               /\ cost[r] >= cap[r]
                               /\ r \in DOMAIN read => read[r] >= cap[r]

BInv == entry \in [Roles -> Entry] /\ MoneyTyped /\ Latched

LEMMA BudgetFacts ==
  ASSUME MoneyTyped, NEW r \in Budgeted
  PROVE  r \in Roles /\ cap[r] \in Nat /\ cost[r] \in Nat /\ (r \in DOMAIN read => read[r] \in Nat)
  BY LimitsAssumption DEF MoneyTyped

\* What a step leaves of the latches, when it does not touch the money.
LEMMA OverKept ==
  ASSUME BInv, UNCHANGED money, entry' \in [Roles -> Entry],
         \A r \in Roles : entry'[r].over = entry[r].over
  PROVE  BInv'
  BY LimitsAssumption DEF BInv, MoneyTyped, Latched, money

LEMMA RespawnKeepsOver ==
  ASSUME NEW r \in Roles, NEW b, Respawn(r, b), entry \in [Roles -> Entry]
  PROVE  \A q \in Roles : entry'[q].over = entry[q].over
  BY DEF Respawn, Entry

\* Every step but these leaves the latches and the money alone.
LEMMA QuietSteps ==
  ASSUME BInv, LInv, LInv', [Next]_vars,
         ~CheckBudgets, ~Resume, ~Fetch, ~GatewayRestart,
         \A r \in Budgeted : ~Spend(r), \A r \in Edited : ~Reload(r) /\ ~Return(r)
  PROVE  UNCHANGED money /\ \A r \in Roles : entry'[r].over = entry[r].over
  <1>1. entry \in [Roles -> Entry] BY DEF BInv
  <1>2. CASE Tick \/ CheckTimeouts \/ UNCHANGED vars
    BY <1>2 DEF Tick, CheckTimeouts, vars, rows
  <1>3. ASSUME NEW r \in Roles, TogglePause(r) \/ Deliver(r) \/ PaneClosed(r) \/ Restart(r)
        PROVE  UNCHANGED money /\ \A q \in Roles : entry'[q].over = entry[q].over
    <2>1. UNCHANGED money BY <1>3 DEF TogglePause, Deliver, PaneClosed, Restart
    <2>2. CASE TogglePause(r) BY <1>1, <2>2 DEF TogglePause, Entry
    <2>3. CASE Deliver(r) BY <1>1, <2>3, RespawnKeepsOver DEF Deliver
    <2>4. CASE PaneClosed(r) BY <1>1, <2>4, RespawnKeepsOver DEF PaneClosed, Entry
    <2>5. CASE Restart(r) BY <1>1, <2>5, RespawnKeepsOver DEF Restart
    <2> QED BY <1>3, <2>1, <2>2, <2>3, <2>4, <2>5
  <1>4. ASSUME NEW i \in Rows, Report(i)
        PROVE  UNCHANGED money /\ \A q \in Roles : entry'[q].over = entry[q].over
    BY <1>4 DEF Report
  <1>5. ASSUME NEW r \in Edited, Retire(r)
        PROVE  UNCHANGED money /\ \A q \in Roles : entry'[q].over = entry[q].over
    BY <1>1, <1>5 DEF Retire, Entry
  <1> QED BY <1>2, <1>3, <1>4, <1>5 DEF Next

LEMMA CheckBudgetsLatches ==
  ASSUME BInv, CheckBudgets, NEW r \in Roles
  PROVE  /\ entry'[r].over <=> Breach(r) \/ (entry[r].over /\ ~Cleared(r))
         /\ Breach(r) => r \in Budgeted
  <1>1. entry[r] \in Entry BY DEF BInv
  <1>2. entry'[r].over \in BOOLEAN /\ (entry'[r].over <=> Breach(r) \/ (entry[r].over /\ ~Cleared(r)))
    <2>1. CASE Cleared(r)
      <3>1. entry'[r] = [entry[r] EXCEPT !.over = FALSE] BY <2>1 DEF CheckBudgets
      <3>2. entry'[r].over = FALSE BY <1>1, <3>1 DEF Entry
      <3>3. ~Breach(r) BY <2>1 DEF Breach, Cleared
      <3> QED BY <2>1, <3>2, <3>3
    <2>2. CASE ~Cleared(r) /\ ~Breach(r)
      <3>1. entry'[r] = entry[r] BY <2>2 DEF CheckBudgets
      <3> QED BY <1>1, <2>2, <3>1 DEF Entry
    <2>3. CASE ~Cleared(r) /\ Breach(r)
      <3>1. \/ entry'[r] = [entry[r] EXCEPT !.over = TRUE, !.paused = TRUE, !.pausedAt = now]
            \/ entry'[r] = [entry[r] EXCEPT !.over = TRUE]
        BY <2>3 DEF CheckBudgets
      <3>2. entry'[r].over = TRUE BY <1>1, <3>1 DEF Entry
      <3> QED BY <2>3, <3>2
    <2> QED BY <2>1, <2>2, <2>3
  <1> QED BY <1>2 DEF Breach, BInv, MoneyTyped

LEMMA NextBInv ==
  ASSUME BInv, LInv, LInv', [Next]_vars
  PROVE  BInv'
  <1>1. entry' \in [Roles -> Entry] BY DEF LInv, Good, Typed
  <1>2. CASE CheckBudgets
    <2>1. cap' = cap /\ cost' = cost /\ read' = NoCosts
          /\ raised' = raised \ {r \in DOMAIN read : Breach(r) /\ read[r] <= cost[r]}
      BY <1>2 DEF CheckBudgets
    <2>2. DOMAIN read' = {} BY <2>1 DEF NoCosts
    <2>3. MoneyTyped' BY <2>1, <2>2 DEF BInv, MoneyTyped
    <2>4. ASSUME NEW r \in Budgeted \ raised'
          PROVE  entry'[r].over /\ cost[r] >= cap[r]
      <3>1. r \in Roles /\ cap[r] \in Nat /\ cost[r] \in Nat /\ (r \in DOMAIN read => read[r] \in Nat)
        BY BudgetFacts DEF BInv
      <3>2. CASE r \notin raised
        <4>1. entry[r].over /\ cost[r] >= cap[r] /\ (r \in DOMAIN read => read[r] >= cap[r])
          BY <3>2 DEF BInv, Latched
        <4>2. ~Cleared(r) BY <3>1, <4>1 DEF Cleared
        <4> QED BY <1>2, <3>1, <4>1, <4>2, CheckBudgetsLatches
      <3>3. CASE r \in raised
        <4>1. Breach(r) /\ r \in DOMAIN read /\ read[r] <= cost[r] BY <2>1, <2>4, <3>3
        <4>2. read[r] >= cap[r] BY <4>1 DEF Breach
        <4>3. entry'[r].over BY <1>2, <3>1, <4>1, CheckBudgetsLatches
        <4> QED BY <3>1, <4>1, <4>2, <4>3
      <3> QED BY <3>2, <3>3
    <2> QED BY <1>1, <2>1, <2>2, <2>3, <2>4 DEF BInv, Latched
  <1>3. CASE Resume \/ GatewayRestart
    <2>1. raised' = Budgeted /\ cap' = cap BY <1>3 DEF Resume, GatewayRestart
    <2>2. cap' \in [Budgeted -> Caps] BY <2>1 DEF BInv, MoneyTyped
    <2>3. cost' \in [Budgeted -> Nat]
      <3>1. cost' = cost \/ cost' = [r \in Budgeted |-> 0] BY <1>3 DEF Resume, GatewayRestart
      <3> QED BY <3>1 DEF BInv, MoneyTyped
    <2>4. read' = read \/ DOMAIN read' = {} BY <1>3 DEF Resume, GatewayRestart, NoCosts
    <2>5. MoneyTyped' BY <2>1, <2>2, <2>3, <2>4 DEF BInv, MoneyTyped
    <2> QED BY <1>1, <2>1, <2>5 DEF BInv, Latched
  <1>4. CASE Fetch
    <2>1. cap' = cap /\ cost' = cost /\ raised' = raised /\ entry' = entry
          /\ read' = [r \in {x \in Budgeted : cost[x] > 0} |-> cost[r]]
      BY <1>4 DEF Fetch
    <2> QED BY <2>1 DEF BInv, MoneyTyped, Latched
  <1>5. ASSUME NEW r \in Budgeted, Spend(r) PROVE BInv'
    <2>1. cost' = [cost EXCEPT ![r] = cost[r] + 1]
          /\ cap' = cap /\ raised' = raised /\ entry' = entry /\ read' = read
      BY <1>5 DEF Spend
    <2>2. \A q \in Budgeted : cost[q] \in Nat /\ cap[q] \in Nat /\ cost'[q] \in Nat /\ cost'[q] >= cost[q]
      BY <2>1, BudgetFacts DEF BInv, MoneyTyped
    <2> QED BY <2>1, <2>2 DEF BInv, MoneyTyped, Latched
  <1>6. ASSUME NEW r \in Edited, Reload(r), NEW c \in Caps, r \in Budgeted,
               cap' = [cap EXCEPT ![r] = c],
               raised' = (IF c > cap[r] THEN raised \cup {r} ELSE raised)
        PROVE  BInv'
    <2>1. cap' = [cap EXCEPT ![r] = c] /\ cost' = cost /\ entry' = entry /\ read' = read
          /\ raised' = IF c > cap[r] THEN raised \cup {r} ELSE raised
      BY <1>6 DEF Reload
    <2>2. MoneyTyped'
      <3>1. cap' \in [Budgeted -> Caps] BY <1>6, <2>1 DEF BInv, MoneyTyped
      <3>2. raised' \subseteq Budgeted BY <1>6, <2>1 DEF BInv, MoneyTyped
      <3> QED BY <2>1, <3>1, <3>2 DEF BInv, MoneyTyped
    <2>3. ASSUME NEW q \in Budgeted \ raised'
          PROVE  q \notin raised /\ cap'[q] <= cap[q]
      <3>1. cap[q] \in Nat /\ c \in Nat BY BudgetFacts, LimitsAssumption DEF BInv
      <3>2. CASE q = r
        <4>1. ~(c > cap[r]) BY <2>1, <2>3, <3>2
        <4> QED BY <2>1, <2>3, <3>1, <3>2, <4>1 DEF BInv, MoneyTyped
      <3>3. CASE q # r BY <2>1, <2>3, <3>1, <3>3 DEF BInv, MoneyTyped
      <3> QED BY <3>2, <3>3
    <2>4. ASSUME NEW q \in Budgeted \ raised'
          PROVE  entry[q].over /\ cost[q] >= cap'[q] /\ (q \in DOMAIN read => read[q] >= cap'[q])
      <3>1. entry[q].over /\ cost[q] >= cap[q] /\ (q \in DOMAIN read => read[q] >= cap[q])
        BY <2>3 DEF BInv, Latched
      <3>2. cap[q] \in Nat /\ cost[q] \in Nat /\ (q \in DOMAIN read => read[q] \in Nat)
        BY BudgetFacts DEF BInv
      <3>3. cap'[q] \in Nat BY <2>2, LimitsAssumption DEF MoneyTyped
      <3> QED BY <2>3, <3>1, <3>2, <3>3
    <2> QED BY <1>1, <2>1, <2>2, <2>4 DEF BInv, Latched
  <1>7. CASE UNCHANGED money /\ \A r \in Roles : entry'[r].over = entry[r].over
    BY <1>1, <1>7, OverKept
  <1>8. ASSUME NEW r \in Edited, Reload(r) PROVE BInv'
    <2>1. CASE UNCHANGED <<cap, raised>>
      <3>1. UNCHANGED money /\ entry' = entry BY <1>8, <2>1 DEF Reload, money
      <3> QED BY <1>7, <3>1
    <2>2. CASE ~UNCHANGED <<cap, raised>>
      <3>1. PICK c \in Caps : /\ r \in Budgeted /\ cap' = [cap EXCEPT ![r] = c]
                              /\ raised' = (IF c > cap[r] THEN raised \cup {r} ELSE raised)
        BY <1>8, <2>2 DEF Reload
      <3> QED BY <1>6, <1>8, <3>1
    <2> QED BY <2>1, <2>2
  <1>9. ASSUME NEW r \in Edited, Return(r) PROVE BInv'
    <2>1. cap' = cap /\ cost' = cost /\ read' = read
          /\ raised' = raised \cup ({r} \cap Budgeted)
          /\ entry' = [entry EXCEPT ![r] = Started]
      BY <1>9 DEF Return
    <2>2. \A q \in Budgeted \ raised' : q \in Budgeted \ raised /\ q \in Roles /\ q # r
      BY <2>1, LimitsAssumption
    <2>3. \A q \in Budgeted \ raised' : entry'[q] = entry[q] BY <2>1, <2>2 DEF BInv
    <2> QED BY <1>1, <2>1, <2>2, <2>3 DEF BInv, MoneyTyped, Latched
  <1> QED BY <1>2, <1>3, <1>4, <1>5, <1>7, <1>8, <1>9, QuietSteps

LEMMA InitBInv == Init => BInv
  <1> SUFFICES ASSUME Init PROVE BInv OBVIOUS
  <1>1. DOMAIN read = {} BY DEF Init, NoCosts
  <1>2. entry \in [Roles -> Entry] BY DEF Init, Started, Entry
  <1> QED BY <1>1, <1>2 DEF Init, BInv, MoneyTyped, Latched

THEOREM BudgetInvariance == Spec => []BInv
  BY InitBInv, NextBInv, LimitsInvariance, PTL DEF Spec

\* A role runs over its budget once: over every restart of its process, every
\* pause and every reading of the costs, only a higher cap, a new gateway or a
\* new deck lets it run over again (checkBudgets).
THEOREM BudgetsAreOnce == Spec => BudgetOnce
  <1>1. ASSUME BInv, LInv, LInv', [Next]_vars
        PROVE  [\A r \in Roles : ~entry[r].over /\ entry'[r].over => r \in raised]_vars
    <2> SUFFICES ASSUME NEW r \in Roles, ~entry[r].over, entry'[r].over
                 PROVE  r \in raised
      OBVIOUS
    <2>1. CASE CheckBudgets
      <3>1. r \in Budgeted BY <1>1, <2>1, CheckBudgetsLatches
      <3> QED BY <1>1, <3>1 DEF BInv, Latched
    <2>2. CASE Resume
      <3>1. entry'[r] = [Started EXCEPT !.gone = entry[r].gone, !.exited = entry[r].gone]
        BY <2>2 DEF Resume
      <3> QED BY <3>1 DEF Started
    <2>3. CASE Fetch \/ GatewayRestart \/ (\E q \in Budgeted : Spend(q)) \/ \E q \in Edited : Reload(q)
      BY <2>3 DEF Fetch, GatewayRestart, Spend, Reload
    <2>4. ASSUME NEW q \in Edited, Return(q) PROVE FALSE
      <3>1. entry'[r] = entry[r] \/ entry'[r] = Started BY <1>1, <2>4 DEF Return, BInv
      <3> QED BY <3>1 DEF Started
    <2> QED BY <1>1, <2>1, <2>2, <2>3, <2>4, QuietSteps
  <1> QED BY <1>1, BudgetInvariance, LimitsInvariance, PTL DEF Spec, BudgetOnce

=============================================================================
