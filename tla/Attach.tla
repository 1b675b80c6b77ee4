-------------------------------- MODULE Attach --------------------------------
(***************************************************************************)
(* The detached session and its one client: internal/deck/server.go and    *)
(* client.go, the frames of internal/wire, the output streams of           *)
(* internal/pane.                                                          *)
(*                                                                         *)
(* Four kinds of threads meet here.  A stream goroutine per pane appends a *)
(* chunk to the pane's ring and, if the pane has a tee, posts it to the    *)
(* loop; the loop takes one message at a time and writes frames to the     *)
(* client; a reader goroutine per connection posts what the client sends;  *)
(* and the client's own reader applies output at once but hands the other  *)
(* frames to its update loop.  A chunk is its number in its pane's output, *)
(* a gate the number of its request.  Every channel is bounded, and who    *)
(* writes to a full one waits.                                             *)
(***************************************************************************)
EXTENDS Naturals, Sequences, FiniteSets, SequencesExt

CONSTANTS
  Clients,   \* connections: each is dialled once
  NoClient,  \* no client is attached
  MaxRoles,  \* bound: roles the roster can grow to
  Roles0,    \* roles at start
  Fresh,     \* roles with fresh = true
  MaxGen,    \* bound: processes started, the first ones included
  MaxOut,    \* bound: chunks a process writes, per role
  MaxGates,  \* bound: delegations that are gated
  MaxKeys,   \* bound: events the clients send
  MsgCap,    \* capacity of the loop's channel
  WireCap    \* frames a socket buffers

ASSUME AttachAssumption ==
  /\ NoClient \notin Clients
  /\ MaxRoles \in Nat /\ Roles0 \in 1..MaxRoles
  /\ Fresh \subseteq 1..MaxRoles
  /\ {MaxGen, MaxGates, MaxKeys} \subseteq Nat /\ MaxOut \in [1..MaxRoles -> Nat]
  /\ {MsgCap, WireCap} \subseteq Nat \ {0}

Roles == 1..MaxRoles

VARIABLES
  size,     \* len(panes)
  gen,      \* the process that runs in a role's pane; 0: the role is not there
  out,      \* chunks in the ring of that process: its sequence number
  tee,      \* whether its pane has a tee
  ended,    \* whether its output has ended
  held,     \* chunks that stream goroutines are about to post
  msgs,     \* the loop's channel
  client,   \* the attached connection
  snap,     \* per role: chunks up to this one need no forwarding
  base,     \* history: the length of the roster the client was welcomed with
  wired,    \* per role: the process whose tee the server set
  gates,    \* pending gates, oldest first
  asked,    \* history: how many gates were raised
  pc,       \* what the loop does: "idle", or at the end of a handler "wire", "settle"
  todo,     \* roles whose replaced pane the running handler has to replay
  conn,     \* per connection, the client's side: idle, dialing, live, closed
  sopen,    \* connections the server has not closed
  reading,  \* connections with a reader goroutine
  down,     \* per connection: frames on their way to the client
  up,       \* per connection: events on their way to the server
  view,     \* per connection and role: the chunks in the client's pane
  known,    \* per connection: the length of the client's roster
  shown,    \* per connection: the gates on the client's screen
  upd,      \* per connection: the frame its update loop is applying
  sent      \* history: how many events the clients sent

paneVars == <<size, gen, out, tee, ended, held>>
stateVars == <<gates, asked>>
loopVars == <<client, snap, base, wired, pc, todo>>
clientVars == <<view, known, shown, upd>>
vars == <<paneVars, msgs, stateVars, loopVars, conn, sopen, reading, down, up, clientVars, sent>>

NoFrame == [k |-> "none"]
NoView == [i \in Roles |-> <<>>]

Init ==
  /\ size = Roles0
  /\ gen = [i \in Roles |-> IF i <= Roles0 THEN 1 ELSE 0]
  /\ out = [i \in Roles |-> 0]
  /\ tee = [i \in Roles |-> i <= Roles0]
  /\ ended = [i \in Roles |-> FALSE]
  /\ held = {}
  /\ msgs = <<>>
  /\ client = NoClient
  /\ snap = [i \in Roles |-> 0] /\ base = 0
  /\ wired = gen
  /\ gates = <<>>
  /\ asked = 0
  /\ pc = "idle" /\ todo = {}
  /\ conn = [c \in Clients |-> "idle"]
  /\ sopen = {} /\ reading = {}
  /\ down = [c \in Clients |-> <<>>]
  /\ up = [c \in Clients |-> <<>>]
  /\ view = [c \in Clients |-> NoView]
  /\ known = [c \in Clients |-> 0]
  /\ shown = [c \in Clients |-> <<>>]
  /\ upd = [c \in Clients |-> NoFrame]
  /\ sent = 0

-----------------------------------------------------------------------------
(* The stream goroutines *)

Room == Len(msgs) < MsgCap
\* Mutant: a goroutine does not wait for room
MutPost(m) == msgs' = Append(msgs, m)

Post(m) == Room /\ msgs' = Append(msgs, m)

\* A chunk enters the ring and gets its number under one lock; a pane with a
\* tee has it posted after the lock is released
Output(i) ==
  /\ i <= size /\ ~ended[i] /\ out[i] < MaxOut[i]
  /\ ~\E h \in held : h.i = i /\ h.g = gen[i]
  /\ out' = [out EXCEPT ![i] = @ + 1]
  /\ held' = IF tee[i] THEN held \cup {[i |-> i, g |-> gen[i], n |-> out[i] + 1]} ELSE held
  /\ UNCHANGED <<size, gen, tee, ended, msgs, stateVars, loopVars, conn, sopen, reading, down, up,
                 clientVars, sent>>

\* The tee posts its copy; it waits while the channel is full
PostChunk(h) ==
  /\ Post([k |-> "output", i |-> h.i, g |-> h.g, n |-> h.n])
  /\ held' = held \ {h}
  /\ UNCHANGED <<size, gen, out, tee, ended, stateVars, loopVars, conn, sopen, reading, down, up,
                 clientVars, sent>>

\* The process ends; its goroutine says so after its last chunk
StreamEnds(i) ==
  /\ i <= size /\ ~ended[i]
  /\ ~\E h \in held : h.i = i /\ h.g = gen[i]
  /\ Post([k |-> "closed", i |-> i, g |-> gen[i]])
  /\ ended' = [ended EXCEPT ![i] = TRUE]
  /\ UNCHANGED <<size, gen, out, tee, held, stateVars, loopVars, conn, sopen, reading, down, up,
                 clientVars, sent>>

-----------------------------------------------------------------------------
(* What the loop does with its client *)

\* A frame written to a connection whose client has gone fails
Reached(c) == conn[c] \in {"dialing", "live"}

DropClient ==
  /\ client' = NoClient
  /\ sopen' = sopen \ {client}
  /\ UNCHANGED down

\* The loop writes frames to the attached client: it waits for room in the
\* socket, and drops a client it cannot reach
Send(frames) ==
  IF client = NoClient THEN UNCHANGED <<client, sopen, down>>
  ELSE IF ~Reached(client) THEN DropClient
  ELSE /\ Len(down[client]) + Len(frames) <= WireCap
       /\ down' = [down EXCEPT ![client] = @ \o frames]
       /\ UNCHANGED <<client, sopen>>

\* The loop runs a handler to its end; before syncClient some call ensureTees,
\* and the streams go on meanwhile
Idle == pc = "idle"
Settle == pc' = "settle"
WireAndSettle == pc' = "wire"

\* Every pane whose process has no tee gets one; the panes that had one under
\* another process are replayed to the client
EnsureTees ==
  /\ pc = "wire"
  /\ LET unwired == {i \in 1..size : wired[i] # gen[i]} IN
     /\ tee' = [i \in Roles |-> i \in unwired \/ tee[i]]
     /\ wired' = [i \in Roles |-> IF i \in unwired THEN gen[i] ELSE wired[i]]
     /\ todo' = {i \in unwired : wired[i] # 0}
  /\ Settle
  /\ UNCHANGED <<size, gen, out, ended, held, msgs, stateVars, client, snap, base, conn, sopen,
                 reading, down, up, clientVars, sent>>

\* The client is told that a pane was replaced and gets what the new ring holds
ResetPane ==
  /\ pc = "settle" /\ todo # {}
  /\ LET i == Min(todo) IN
     /\ todo' = todo \ {i}
     /\ Send(<<[k |-> "reset", i |-> i], [k |-> "ring", i |-> i, g |-> gen[i], n |-> out[i]]>>)
     /\ snap' = IF client = NoClient THEN snap ELSE [snap EXCEPT ![i] = out[i]]
  /\ UNCHANGED <<paneVars, msgs, stateVars, base, wired, pc, conn, reading, up, clientVars, sent>>

\* The roster and the gates the client is to mirror; one frame stands for the four
\* that are written together (board and status are not modelled here)
StateFrames == <<[k |-> "state", size |-> size, gates |-> gates]>>

SyncClient ==
  /\ pc = "settle" /\ todo = {}
  /\ pc' = "idle"
  /\ Send(StateFrames)
  /\ UNCHANGED <<paneVars, msgs, stateVars, snap, base, wired, todo, conn, reading, up, clientVars, sent>>

\* The ticker: the session's own checks, then a sync
Tick ==
  /\ Idle /\ client # NoClient
  /\ Send(StateFrames)
  /\ UNCHANGED <<paneVars, msgs, stateVars, snap, base, wired, pc, todo, conn, reading, up, clientVars, sent>>

-----------------------------------------------------------------------------
(* The session's handlers, as far as they touch panes and gates *)

\* The process of role i is replaced, and nobody has asked for its output yet
Started == FoldFunction(+, 0, gen)
Respawned(i) ==
  /\ Started < MaxGen
  /\ gen' = [gen EXCEPT ![i] = @ + 1]
  /\ out' = [out EXCEPT ![i] = 0]
  /\ tee' = [tee EXCEPT ![i] = FALSE]
  /\ ended' = [ended EXCEPT ![i] = FALSE]
  /\ UNCHANGED <<size, held>>

handlerRest == <<client, snap, base, wired, todo, conn, sopen, reading, down, up, clientVars, sent>>

\* Mutant: the handler returns without a sync
MutGated ==
  /\ Idle /\ asked < MaxGates
  /\ asked' = asked + 1
  /\ gates' = Append(gates, asked + 1)
  /\ UNCHANGED <<paneVars, msgs, pc, handlerRest>>

\* A command is routed: a delegation waits at a gate
Gated ==
  /\ Idle /\ asked < MaxGates
  /\ asked' = asked + 1
  /\ gates' = Append(gates, asked + 1)
  /\ Settle
  /\ UNCHANGED <<paneVars, msgs, handlerRest>>

\* ... or is delivered: a fresh role is respawned for it
Delivered(i) ==
  /\ Idle /\ i \in Fresh /\ i <= size
  /\ Respawned(i)
  /\ Settle
  /\ UNCHANGED <<stateVars, msgs, handlerRest>>

\* A reload spawns a role, or replaces the process of one that changed
ReloadAdds ==
  /\ Idle /\ size < MaxRoles /\ Started < MaxGen
  /\ size' = size + 1
  /\ gen' = [gen EXCEPT ![size + 1] = 1]
  /\ WireAndSettle
  /\ UNCHANGED <<out, tee, ended, held, stateVars, msgs, handlerRest>>

ReloadChanges(i) ==
  /\ Idle /\ i <= size
  /\ Respawned(i)
  /\ WireAndSettle
  /\ UNCHANGED <<stateVars, msgs, handlerRest>>

-----------------------------------------------------------------------------
(* The loop's messages *)

\* The loop takes the oldest message, one with field k = kind
Take(kind) ==
  /\ Idle /\ msgs # <<>> /\ Head(msgs).k = kind
  /\ msgs' = Tail(msgs)

\* Mutant: a chunk the attach snapshot holds is forwarded too
MutForward ==
  /\ Take("output")
  /\ LET m == Head(msgs) IN
     IF client # NoClient /\ wired[m.i] = m.g
       THEN Send(<<[k |-> "output", i |-> m.i, g |-> m.g, n |-> m.n]>>)
       ELSE UNCHANGED <<client, sopen, down>>
  /\ UNCHANGED <<paneVars, stateVars, snap, base, wired, pc, todo, conn, reading, up, clientVars, sent>>

\* A chunk of the wired process goes to the client unless its snapshot has it
Forward ==
  /\ Take("output")
  /\ LET m == Head(msgs) IN
     IF client # NoClient /\ wired[m.i] = m.g /\ m.n > snap[m.i]
       THEN Send(<<[k |-> "output", i |-> m.i, g |-> m.g, n |-> m.n]>>)
       ELSE UNCHANGED <<client, sopen, down>>
  /\ UNCHANGED <<paneVars, stateVars, snap, base, wired, pc, todo, conn, reading, up, clientVars, sent>>

\* A process is gone: it is started again, or its role stays exited
PaneClosed ==
  /\ Take("closed")
  /\ LET m == Head(msgs) IN
     \/ gen[m.i] # m.g /\ UNCHANGED <<paneVars, pc>>
     \/ gen[m.i] = m.g /\ WireAndSettle /\ (Respawned(m.i) \/ UNCHANGED paneVars)
  /\ UNCHANGED <<stateVars, handlerRest>>

Rings == [i \in Roles |-> [g |-> gen[i], n |-> out[i]]]

\* Mutant: the second client replaces the first
MutAttach ==
  /\ Take("attach")
  /\ LET c == Head(msgs).c IN
     \/ /\ ~Reached(c)
        /\ UNCHANGED <<client, down, sopen, reading, snap, base>>
     \/ /\ Reached(c)
        /\ down' = [down EXCEPT ![c] = <<[k |-> "welcome", size |-> size, gates |-> gates, rings |-> Rings]>>]
        /\ client' = c
        /\ snap' = out /\ base' = size
        /\ sopen' = sopen \cup {c} /\ reading' = reading \cup {c}
  /\ UNCHANGED <<paneVars, stateVars, wired, pc, todo, conn, up, clientVars, sent>>

\* A connection said hello: it is refused while another client is attached or
\* when its version differs, and else gets the whole state, every ring, and
\* a reader
AttachClient ==
  /\ Take("attach")
  /\ LET c == Head(msgs).c
         refused == down' = [down EXCEPT ![c] = <<[k |-> "refused"]>>]
                    /\ UNCHANGED <<client, sopen, reading, snap, base>>
     IN
     \/ /\ ~Reached(c)
        /\ UNCHANGED <<client, down, sopen, reading, snap, base>>
     \/ Reached(c) /\ refused  \* an attached client, or another version
     \/ /\ Reached(c) /\ client = NoClient
        /\ down' = [down EXCEPT ![c] = <<[k |-> "welcome", size |-> size, gates |-> gates, rings |-> Rings]>>]
        /\ client' = c
        /\ snap' = out /\ base' = size
        /\ sopen' = sopen \cup {c} /\ reading' = reading \cup {c}
  /\ UNCHANGED <<paneVars, stateVars, wired, pc, todo, conn, up, clientVars, sent>>

ClientGone ==
  /\ Take("gone")
  /\ IF client = Head(msgs).c THEN DropClient ELSE UNCHANGED <<client, sopen, down>>
  /\ UNCHANGED <<paneVars, stateVars, snap, base, wired, pc, todo, conn, reading, up, clientVars, sent>>

\* The user's verdict: it resolves the oldest gate there is, whichever the
\* client showed; an approved delegation can respawn its role
Answer ==
  /\ Take("event") /\ Head(msgs).ev.k = "gate"
  /\ gates' = IF gates = <<>> THEN gates ELSE Tail(gates)
  /\ \/ Settle /\ UNCHANGED paneVars         \* rejected
     \/ WireAndSettle /\ UNCHANGED paneVars  \* approved
     \/ WireAndSettle /\ gates # <<>> /\ \E i \in Fresh : i <= size /\ Respawned(i)
  /\ UNCHANGED <<asked, handlerRest>>

RestartKey ==
  /\ Take("event") /\ Head(msgs).ev.k = "restart"
  /\ LET i == Head(msgs).ev.i IN
     IF Started < MaxGen THEN Respawned(i) ELSE UNCHANGED paneVars  \* the bound
  /\ WireAndSettle
  /\ UNCHANGED <<stateVars, handlerRest>>

\* Whoever is attached by then is detached
Detached ==
  /\ Take("event") /\ Head(msgs).ev.k = "detach"
  /\ IF client = NoClient THEN UNCHANGED <<client, sopen, down>> ELSE DropClient
  /\ UNCHANGED <<paneVars, stateVars, snap, base, wired, pc, todo, conn, reading, up, clientVars, sent>>

-----------------------------------------------------------------------------
(* The server's reader goroutine of a connection *)

ReadEvent(c) ==
  /\ c \in reading /\ c \in sopen /\ up[c] # <<>>
  /\ Post([k |-> "event", ev |-> Head(up[c])])
  /\ up' = [up EXCEPT ![c] = Tail(@)]
  /\ reading' = IF Head(up[c]).k = "detach" THEN reading \ {c} ELSE reading
  /\ UNCHANGED <<paneVars, stateVars, loopVars, conn, sopen, down, clientVars, sent>>

ReadFails(c) ==
  /\ c \in reading
  /\ c \notin sopen \/ (up[c] = <<>> /\ conn[c] = "closed")
  /\ Post([k |-> "gone", c |-> c])
  /\ reading' = reading \ {c}
  /\ UNCHANGED <<paneVars, stateVars, loopVars, conn, sopen, down, up, clientVars, sent>>

-----------------------------------------------------------------------------
(* The client *)

\* A client dials and says hello; the accept goroutine posts it
Dial(c) ==
  /\ conn[c] = "idle"
  /\ Post([k |-> "attach", c |-> c])
  /\ conn' = [conn EXCEPT ![c] = "dialing"]
  /\ UNCHANGED <<paneVars, stateVars, loopVars, sopen, reading, down, up, clientVars, sent>>

\* The client closes its end; what it holds does not matter any more
Hangs(c) ==
  /\ conn' = [conn EXCEPT ![c] = "closed"]
  /\ down' = [down EXCEPT ![c] = <<>>]
  /\ view' = [view EXCEPT ![c] = NoView]
  /\ known' = [known EXCEPT ![c] = 0]
  /\ shown' = [shown EXCEPT ![c] = <<>>]
  /\ upd' = [upd EXCEPT ![c] = NoFrame]

\* The handshake and the replay: synchronous, before the client's UI runs
Welcomed(c) ==
  /\ conn[c] = "dialing" /\ down[c] # <<>> /\ Head(down[c]).k = "welcome"
  /\ LET w == Head(down[c]) IN
     /\ view' = [view EXCEPT ![c] = [i \in Roles |->
                   [n \in 1..w.rings[i].n |-> <<w.rings[i].g, n>>]]]
     /\ known' = [known EXCEPT ![c] = w.size]
     /\ shown' = [shown EXCEPT ![c] = w.gates]
  /\ conn' = [conn EXCEPT ![c] = "live"]
  /\ down' = [down EXCEPT ![c] = Tail(@)]
  /\ UNCHANGED <<paneVars, msgs, stateVars, loopVars, sopen, reading, up, upd, sent>>

\* The client leaves without a word: it was refused, or HelloTimeout passed, or
\* it crashed, or its connection was cut
Leaves(c) ==
  /\ conn[c] \in {"dialing", "live"}
  /\ Hangs(c)
  /\ UNCHANGED <<paneVars, msgs, stateVars, loopVars, sopen, reading, up, sent>>

\* The client's reader applies output and resets at once, for the panes the
\* update loop has made; the update loop takes the other frames one at a time
ReadFrame(c) ==
  /\ conn[c] = "live" /\ down[c] # <<>>
  /\ LET f == Head(down[c]) IN
     \/ /\ f.k \in {"output", "ring"}
        /\ view' = IF f.i > known[c] THEN view
                   ELSE [view EXCEPT ![c][f.i] = @ \o
                          (IF f.k = "output" THEN <<<<f.g, f.n>>>> ELSE [n \in 1..f.n |-> <<f.g, n>>])]
        /\ UNCHANGED upd
     \/ /\ f.k = "reset"
        /\ view' = IF f.i > known[c] THEN view ELSE [view EXCEPT ![c][f.i] = <<>>]
        /\ UNCHANGED upd
     \/ /\ f.k = "state" /\ upd[c] = NoFrame
        /\ upd' = [upd EXCEPT ![c] = f]
        /\ UNCHANGED view
  /\ down' = [down EXCEPT ![c] = Tail(@)]
  /\ UNCHANGED <<paneVars, msgs, stateVars, loopVars, conn, sopen, reading, up, known, shown, sent>>

\* The update loop applies what it took
Apply(c) ==
  /\ upd[c] # NoFrame
  /\ upd' = [upd EXCEPT ![c] = NoFrame]
  /\ known' = [known EXCEPT ![c] = upd[c].size]
  /\ shown' = [shown EXCEPT ![c] = upd[c].gates]
  /\ UNCHANGED <<paneVars, msgs, stateVars, loopVars, conn, sopen, reading, down, up, view, sent>>

\* The update loop handles a key and writes its event to the server
Key(c, ev) ==
  /\ conn[c] = "live" /\ upd[c] = NoFrame /\ sent < MaxKeys
  /\ Len(up[c]) < WireCap
  /\ up' = [up EXCEPT ![c] = Append(@, ev)]
  /\ sent' = sent + 1
  /\ UNCHANGED <<paneVars, msgs, stateVars, loopVars, sopen, reading>>

\* y or n to the gate on top: it leaves the screen at once
AnswerShown(c) ==
  /\ shown[c] # <<>>
  /\ Key(c, [k |-> "gate", gate |-> Head(shown[c])])
  /\ shown' = [shown EXCEPT ![c] = Tail(@)]
  /\ UNCHANGED <<conn, down, view, known, upd>>

RestartShown(c, i) ==
  /\ i <= known[c] /\ Started < MaxGen
  /\ Key(c, [k |-> "restart", i |-> i])
  /\ UNCHANGED <<conn, down, clientVars>>

Detach(c) ==
  /\ Key(c, [k |-> "detach"])
  /\ Hangs(c)

-----------------------------------------------------------------------------

Streams ==
  \/ \E i \in Roles : Output(i) \/ StreamEnds(i)
  \/ \E h \in held : PostChunk(h)

Handlers ==
  \/ Gated \/ ReloadAdds \/ \E i \in Roles : Delivered(i) \/ ReloadChanges(i)
  \/ Forward \/ PaneClosed \/ AttachClient \/ ClientGone \/ Answer \/ RestartKey \/ Detached
  \/ EnsureTees \/ ResetPane \/ SyncClient \/ Tick

Readers == \E c \in Clients : ReadEvent(c) \/ ReadFails(c)

Client(c) ==
  \/ Dial(c) \/ Welcomed(c) \/ Leaves(c) \/ ReadFrame(c) \/ Apply(c)
  \/ AnswerShown(c) \/ Detach(c) \/ \E i \in Roles : RestartShown(c, i)

Next == Streams \/ Handlers \/ Readers \/ \E c \in Clients : Client(c)

Spec == Init /\ [][Next]_vars

-----------------------------------------------------------------------------
(* Properties *)

Numbers == 0..Max(Range(MaxOut))
Chunks == (1..MaxGen) \X Numbers

\* Types, and the capacities of the channels.
TypeOK ==
  /\ size \in Roles0..MaxRoles
  /\ gen \in [Roles -> 0..MaxGen] /\ out \in [Roles -> Numbers]
  /\ tee \in [Roles -> BOOLEAN] /\ ended \in [Roles -> BOOLEAN]
  /\ held \subseteq [i : Roles, g : 1..MaxGen, n : Numbers]
  /\ Len(msgs) <= MsgCap
  /\ client \in Clients \cup {NoClient}
  /\ snap \in [Roles -> Numbers] /\ wired \in [Roles -> 0..MaxGen]
  /\ base \in 0..MaxRoles
  /\ gates \in Seq(1..MaxGates) /\ asked \in 0..MaxGates
  /\ pc \in {"idle", "wire", "settle"} /\ todo \subseteq Roles
  /\ conn \in [Clients -> {"idle", "dialing", "live", "closed"}]
  /\ sopen \subseteq Clients /\ reading \subseteq Clients
  /\ \A c \in Clients : Len(down[c]) <= WireCap /\ Len(up[c]) <= WireCap
  /\ view \in [Clients -> [Roles -> Seq(Chunks)]]
  /\ known \in [Clients -> 0..MaxRoles] /\ shown \in [Clients -> Seq(1..MaxGates)]
  /\ sent \in 0..MaxKeys

\* What a client's pane shows once the frames on their way have arrived
Upto(g, n) == [k \in 1..n |-> <<g, k>>]
Arrived(c, i) ==
  LET arrive(v, f) ==
        CASE f.k = "welcome" -> Upto(f.rings[i].g, f.rings[i].n)
          [] f.k = "reset" /\ f.i = i -> <<>>
          [] f.k = "ring" /\ f.i = i -> v \o Upto(f.g, f.n)
          [] f.k = "output" /\ f.i = i -> Append(v, <<f.g, f.n>>)
          [] OTHER -> v
  IN FoldLeft(arrive, view[c][i], down[c])

\* The chunks of role i's process the loop has still to forward
Coming(i) ==
  LET coming(v, m) == IF m.k = "output" /\ m.i = i /\ m.g = gen[i] /\ m.n > snap[i]
                        THEN Append(v, <<m.g, m.n>>) ELSE v
      posted == FoldLeft(coming, <<>>, msgs)
      last == {h \in held : h.i = i /\ h.g = gen[i] /\ h.n > snap[i]}
  IN posted \o SetToSeq({<<h.g, h.n>> : h \in last})

\* A client that attached sees every chunk a pane wrote, once and in order: what
\* it has, what is on the wire and what the loop will forward is the process's
\* whole output.  The tee runs beside the snapshot, so chunks are both in the
\* ring and in the loop's channel, and chunks of a replaced process are still
\* posted after the reset.  The roles are those of the welcome; the process is
\* the one whose tee the server has set.
OutputExact ==
  \A i \in Roles :
    (client # NoClient /\ Reached(client) /\ i <= base /\ wired[i] = gen[i] /\ i \notin todo)
      => Arrived(client, i) \o Coming(i) = Upto(gen[i], out[i])

Quiet(c) ==
  /\ conn[c] = "live" /\ down[c] = <<>> /\ upd[c] = NoFrame /\ up[c] = <<>>
  /\ \A k \in 1..Len(msgs) : msgs[k].k # "event"

\* Whatever a handler changes, the attached client mirrors once the frames are
\* through: no handler of the loop forgets to sync.
MirrorCurrent ==
  (pc = "idle" /\ client # NoClient /\ Quiet(client))
    => shown[client] = gates /\ known[client] = size

\* One client at a time: a second connection is never attached while the first
\* is, and the server holds no connection open but its client's.
OneClient == sopen \subseteq {client}

\* "ensureTees keeps every live pane teed into the loop" (server.go:358): between
\* two handlers the tee of every role is on the process that runs in it.  The code
\* does not keep this: a fresh role respawned by a delegation has none until the
\* next sync (README, section 3).
EveryPaneTeed == pc = "idle" => \A i \in 1..size : wired[i] = gen[i]

\* "nothing reaches the worker until you press `y`" (docs/teams.md:113): the
\* verdict a user gives to the gate on the screen resolves that gate, and never
\* one behind it that the user has not seen.
VerdictForShown ==
  [][(Answer /\ gates # <<>>) => Head(gates) = Head(msgs).ev.gate]_vars

=============================================================================
