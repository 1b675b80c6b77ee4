--------------------------------- MODULE Pane ---------------------------------
(***************************************************************************)
(* One role's pane (internal/pane/pane.go) and the lines the deck types    *)
(* into it (injectLine of internal/deck/session.go).                       *)
(*                                                                         *)
(* What the process writes goes to a ring; every now and then what has     *)
(* left the screen is copied from the ring to a transcript, which goes on  *)
(* after the lines it ended with, wherever they are by now.  What the deck *)
(* types goes through a bounded queue, a line and, later, its Enter.  When *)
(* the role is restarted a new pane takes over and the goroutines of the   *)
(* old one are still there.  A line stands for its bytes: it is known by   *)
(* its number, and says one of a few things, so that lines may be alike.   *)
(***************************************************************************)
EXTENDS Integers, Sequences, FiniteSets, FiniteSetsExt

CONSTANTS
  Texts,      \* what a line can say
  Blank,      \* ... nothing but spaces
  RingCap,    \* what the ring holds
  HistRows,   \* rows of the terminal that replays it (scrollbackRows)
  Screen,     \* rows of the live screen
  AnchorLen,  \* lines that anchor the transcript
  InboxCap,   \* what the queue holds
  MaxOut,     \* bound: lines a process writes
  MaxChunk,   \* bound: lines in one read
  MaxLines,   \* bound: lines typed
  MaxGen      \* bound: panes

ASSUME PaneAssumption ==
  /\ Blank \in Texts
  /\ {RingCap, HistRows, Screen, AnchorLen, InboxCap} \subseteq Nat \ {0}
  /\ {MaxOut, MaxChunk, MaxLines, MaxGen} \subseteq Nat

VARIABLES
  buf, head, full,  \* the ring
  seq, tsSeq,       \* lines written, and how many at the last flush
  text,             \* what each line written says
  cleared,          \* lines written when the screen was last cleared
  flushing,         \* a flush has read the count and not yet the ring
  tsTail,           \* the lines the transcript ended with
  log,              \* the transcript: lines and gap markers
  inbox,            \* what is queued for the process
  enters,           \* Enters to come: the line and the pane it was typed into
  got,              \* history: what the process has read
  open, gen,        \* the pane is open; which one it is
  lines             \* history: lines typed, MaxLines bounds it

ring == <<buf, head, full>>
output == <<ring, seq, text, cleared>>
transcript == <<tsSeq, flushing, tsTail, log>>
input == <<inbox, enters, got, lines>>
vars == <<output, transcript, input, open, gen>>

Gap == 0

NoBytes == [i \in 0..(RingCap - 1) |-> 0]

Init ==
  /\ buf = NoBytes /\ head = 0 /\ full = FALSE
  /\ seq = 0 /\ text = <<>> /\ cleared = 0
  /\ tsSeq = 0 /\ flushing = FALSE /\ tsTail = <<>> /\ log = <<>>
  /\ inbox = <<>> /\ enters = {} /\ got = <<>> /\ lines = 0
  /\ open = TRUE /\ gen = 1

-----------------------------------------------------------------------------
(* The ring *)

LastOf(s, n) == IF Len(s) > n THEN SubSeq(s, Len(s) - n + 1, Len(s)) ELSE s

\* Mutant: a write that ends on the boundary does not fill the ring
MutRingWrite(p) ==
  LET n == Min({RingCap - head, Len(p)}) IN
  IF Len(p) >= RingCap
  THEN /\ buf' = [i \in 0..(RingCap - 1) |-> p[Len(p) - RingCap + i + 1]]
       /\ head' = 0 /\ full' = TRUE
  ELSE /\ buf' = [i \in 0..(RingCap - 1) |->
                    IF i \in head..(head + n - 1) THEN p[i - head + 1]
                    ELSE IF i < Len(p) - n THEN p[n + i + 1] ELSE buf[i]]
       /\ head' = (head + Len(p)) % RingCap
       /\ full' = (full \/ n < Len(p))

\* ring.Write: the tail of what is too long, else one copy or two
RingWrite(p) ==
  LET n == Min({RingCap - head, Len(p)}) IN
  IF Len(p) >= RingCap
  THEN /\ buf' = [i \in 0..(RingCap - 1) |-> p[Len(p) - RingCap + i + 1]]
       /\ head' = 0 /\ full' = TRUE
  ELSE /\ buf' = [i \in 0..(RingCap - 1) |->
                    IF i \in head..(head + n - 1) THEN p[i - head + 1]
                    ELSE IF i < Len(p) - n THEN p[n + i + 1] ELSE buf[i]]
       /\ head' = (head + Len(p)) % RingCap
       /\ full' = (full \/ n < Len(p) \/ head' = 0)

\* ring.Snapshot
Snapshot ==
  IF full THEN [i \in 1..RingCap |-> buf[(head + i - 1) % RingCap]]
  ELSE [i \in 1..head |-> buf[i - 1]]

\* Stream: the process writes its next lines
Output(said) ==
  /\ open /\ seq + Len(said) <= MaxOut
  /\ RingWrite([i \in 1..Len(said) |-> seq + i])
  /\ seq' = seq + Len(said) /\ text' = text \o said
  /\ UNCHANGED <<cleared, transcript, input, open, gen>>

\* The process clears its screen: a replay of the ring begins there
Clear ==
  /\ open /\ cleared' = seq
  /\ UNCHANGED <<ring, seq, text, transcript, input, open, gen>>

-----------------------------------------------------------------------------
(* The transcript *)

\* HistoryLines: the ring replayed, between its first and last row with something on it
HistoryLines ==
  LET s == LastOf(Snapshot, Min({seq - cleared, HistRows}))
      inked == {i \in DOMAIN s : text[s[i]] # Blank}
  IN IF inked = {} THEN <<>> ELSE SubSeq(s, Min(inked), Max(inked))

\* Where lines of s say what the n last lines of the anchor said
Found(s, n) ==
  LET want == LastOf(tsTail, n)
  IN {i \in 0..(Len(s) - n) : \A j \in 1..n : text[s[i + j]] = text[want[j]]}

\* Mutant: the whole anchor or nothing, and without it the stream goes on
MutAfterAnchor(s) ==
  LET at == Found(s, Len(tsTail)) IN
  IF tsTail = <<>> \/ at = {} THEN [fresh |-> s, gap |-> FALSE]
  ELSE [fresh |-> SubSeq(s, Max(at) + Len(tsTail) + 1, Len(s)), gap |-> FALSE]

\* afterAnchor: what follows the last place of the longest suffix that is there
AfterAnchor(s) ==
  LET ns == {n \in 1..Len(tsTail) : Found(s, n) # {}} IN
  IF tsTail = <<>> \/ ns = {} THEN [fresh |-> s, gap |-> tsTail # <<>>]
  ELSE [fresh |-> SubSeq(s, Max(Found(s, Max(ns))) + Max(ns) + 1, Len(s)), gap |-> FALSE]

\* Writes what is new of s
Transcribe(s) ==
  LET after == AfterAnchor(s) IN
  IF after.fresh = <<>> THEN UNCHANGED <<tsTail, log>>
  ELSE /\ log' = log \o (IF after.gap THEN <<Gap>> ELSE <<>>) \o after.fresh
       /\ tsTail' = LastOf(s, AnchorLen)

\* FlushTranscript, every 15 s on a goroutine of its own: how much was written ...
FlushTranscript ==
  /\ open /\ ~flushing /\ seq # tsSeq
  /\ tsSeq' = seq /\ flushing' = TRUE
  /\ UNCHANGED <<tsTail, log, output, input, open, gen>>

\* ... and, later, what the ring holds by then; the live screen is held back
FlushLines ==
  /\ flushing /\ flushing' = FALSE
  /\ LET s == HistoryLines IN
     IF Len(s) <= Screen THEN UNCHANGED <<tsTail, log>>
     ELSE Transcribe(SubSeq(s, 1, Len(s) - Screen))
  /\ UNCHANGED <<tsSeq, output, input, open, gen>>

-----------------------------------------------------------------------------
(* Input *)

Queues(item) == IF Len(inbox) < InboxCap THEN inbox' = Append(inbox, item) ELSE UNCHANGED inbox

\* Mutant: a dropped line is followed by its Enter all the same
MutInject ==
  /\ lines < MaxLines /\ lines' = lines + 1
  /\ open
  /\ Queues([key |-> "text", line |-> lines'])
  /\ enters' = enters \cup {[line |-> lines', gen |-> gen]}
  /\ UNCHANGED <<got, output, transcript, open, gen>>

\* injectLine: the text, and a goroutine that will send Enter to the same pane; a
\* full queue drops both, a closed pane has the role marked exited
Inject ==
  /\ lines < MaxLines /\ lines' = lines + 1
  /\ open
  /\ Queues([key |-> "text", line |-> lines'])
  /\ enters' = IF Len(inbox) < InboxCap THEN enters \cup {[line |-> lines', gen |-> gen]} ELSE enters
  /\ UNCHANGED <<got, output, transcript, open, gen>>

\* Mutant: Enter goes to the pane the role has by now
MutEnter(e) ==
  /\ e \in enters /\ enters' = enters \ {e}
  /\ IF open THEN Queues([key |-> "enter", line |-> e.line]) ELSE UNCHANGED inbox
  /\ UNCHANGED <<got, lines, output, transcript, open, gen>>

\* 200 ms later; a closed pane takes nothing
Enter(e) ==
  /\ e \in enters /\ enters' = enters \ {e}
  /\ IF open /\ e.gen = gen THEN Queues([key |-> "enter", line |-> e.line]) ELSE UNCHANGED inbox
  /\ UNCHANGED <<got, lines, output, transcript, open, gen>>

\* writeLoop, when the process reads
Read ==
  /\ open /\ inbox # <<>>
  /\ got' = Append(got, Head(inbox)) /\ inbox' = Tail(inbox)
  /\ UNCHANGED <<enters, lines, output, transcript, open, gen>>

-----------------------------------------------------------------------------
(* Panes come and go *)

\* Close: the process is killed, the transcript gets what is left, after a flush
\* that is under way
Close ==
  /\ open /\ ~flushing /\ open' = FALSE
  /\ tsSeq' = seq /\ Transcribe(HistoryLines)
  /\ inbox' = <<>>
  /\ UNCHANGED <<flushing, output, enters, got, lines, gen>>

\* A new process in a new pane; its transcript begins with a header of its own
Respawn ==
  /\ ~open /\ gen < MaxGen
  /\ gen' = gen + 1 /\ open' = TRUE
  /\ buf' = NoBytes /\ head' = 0 /\ full' = FALSE
  /\ seq' = 0 /\ text' = <<>> /\ cleared' = 0
  /\ tsSeq' = 0 /\ tsTail' = <<>> /\ log' = <<>>
  /\ inbox' = <<>> /\ got' = <<>>
  /\ UNCHANGED <<flushing, enters, lines>>

-----------------------------------------------------------------------------

Next ==
  \/ \E k \in 1..MaxChunk : \E said \in [1..k -> Texts] : Output(said)
  \/ Clear \/ FlushTranscript \/ FlushLines
  \/ Inject \/ Read \/ \E e \in enters : Enter(e)
  \/ Close \/ Respawn

Spec == Init /\ [][Next]_vars

-----------------------------------------------------------------------------
(* Properties *)

TypeOK ==
  /\ buf \in [0..(RingCap - 1) -> 0..MaxOut] /\ head \in 0..(RingCap - 1) /\ full \in BOOLEAN
  /\ seq \in 0..MaxOut /\ text \in [1..seq -> Texts] /\ tsSeq \in 0..seq /\ cleared \in 0..seq
  /\ flushing \in BOOLEAN /\ Len(tsTail) <= AnchorLen /\ Len(inbox) <= InboxCap
  /\ open \in BOOLEAN /\ gen \in 1..MaxGen

\* The ring is the tail of what the process wrote, across every wrap and for chunks
\* of any length, also when one ends on the boundary or is longer than the ring
\* (ring.Write and Snapshot).
RingExact == Snapshot = LastOf([n \in 1..seq |-> n], RingCap)

\* A transcript writes no line twice and none out of order.  Where it goes on without
\* a gap marker, it goes on after a line that says what its last one said: the next
\* line, unless lines are alike (afterAnchor; the first line has no anchor).  When no
\* flush is due it ends with what the last line that left the screen says, a closed
\* pane's with the last line there is, though a flush reads the count and the ring at
\* different times.
TranscriptGoesOn ==
  /\ \A i \in 1..(Len(log) - 1) :
       log[i] # Gap => IF log[i + 1] # Gap
                       THEN log[i + 1] > log[i] /\ text[log[i + 1] - 1] = text[log[i]]
                       ELSE i + 2 <= Len(log) /\ log[i + 2] > log[i]
  /\ ~flushing /\ tsSeq = seq =>
       LET h == HistoryLines
           n == Len(h) - (IF open THEN Screen ELSE 0)
       IN n > 0 => log # <<>> /\ text[log[Len(log)]] = text[h[n]]

\* "Lines are appended as they scroll off the live screen (every 15s), so long
\* sessions survive in full [...] A `--- transcript gap ---` marker means the screen
\* was cleared or output outran the capture buffer" (docs/protocol.md:221).  The code
\* does not keep this: where lines are alike a transcript may go on after a later one,
\* and what is between them is lost unmarked (README, section 3).
SkipIsMarked ==
  \A i \in 1..(Len(log) - 1) : log[i] # Gap /\ log[i + 1] # Gap => log[i + 1] = log[i] + 1

\* An Enter reaches a process only after its line did: none is sent to the pane of a
\* later process, or after a line that was dropped (injectLine's goroutine, Input).
NoBareEnter ==
  \A i \in DOMAIN got : got[i].key = "enter" =>
    \E j \in 1..(i - 1) : got[j] = [key |-> "text", line |-> got[i].line]

\* The same sentences, of the first lines.  The code does not keep this: what the ring
\* loses before the first flush is lost unmarked (README, section 3).
LossIsMarked ==
  cleared = 0 /\ log # <<>> =>
    (\A n \in 1..(log[1] - 1) : text[n] = Blank) \/ \E i \in DOMAIN log : log[i] = Gap

=============================================================================
