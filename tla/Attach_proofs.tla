----------------------------- MODULE Attach_proofs -----------------------------
(***************************************************************************)
(* Proofs about the detached session and its client, for any number of     *)
(* connections and every capacity of the channels: one client at a time,   *)
(* which mirrors the deck's state and sees all output, once and in order.  *)
(***************************************************************************)
EXTENDS Attach, WellFoundedInduction, FiniteSetTheorems, TLAPS

-----------------------------------------------------------------------------
(* Data *)

Event == [k : {"gate"}, gate : Nat] \cup [k : {"restart"}, i : Roles] \cup [k : {"detach"}]

Msg == [k : {"output"}, i : Roles, g : Nat, n : Nat]
       \cup [k : {"closed"}, i : Roles, g : Nat]
       \cup [k : {"attach", "gone"}, c : Clients]
       \cup [k : {"event"}, ev : Event]

Ring == [g : Nat, n : Nat]

StateFrame == [k : {"state"}, size : Nat, gates : Seq(Nat)]

Frame == [k : {"welcome"}, size : Nat, gates : Seq(Nat), rings : [Roles -> Ring]]
         \cup [k : {"ring", "output"}, i : Roles, g : Nat, n : Nat]
         \cup [k : {"reset"}, i : Roles]
         \cup [k : {"refused"}]
         \cup StateFrame

PanesTyped ==
  /\ size \in 0 .. MaxRoles
  /\ gen \in [Roles -> Nat] /\ out \in [Roles -> Nat]
  /\ tee \in [Roles -> BOOLEAN] /\ ended \in [Roles -> BOOLEAN]
  /\ held \subseteq [i : Roles, g : Nat, n : Nat]

LoopTyped ==
  /\ msgs \in Seq(Msg)
  /\ client \in Clients \cup {NoClient}
  /\ snap \in [Roles -> Nat] /\ wired \in [Roles -> Nat]
  /\ base \in Nat /\ asked \in Nat
  /\ gates \in Seq(Nat)
  /\ pc \in {"idle", "wire", "settle"} /\ todo \subseteq Roles
  /\ sopen \subseteq Clients /\ reading \subseteq Clients

ClientsTyped ==
  /\ conn \in [Clients -> {"idle", "dialing", "live", "closed"}]
  /\ down \in [Clients -> Seq(Frame)] /\ up \in [Clients -> Seq(Event)]
  /\ view \in [Clients -> [Roles -> Seq(Nat \X Nat)]]
  /\ known \in [Clients -> Nat] /\ shown \in [Clients -> Seq(Nat)]
  /\ upd \in [Clients -> StateFrame \cup {NoFrame}]

Typed == PanesTyped /\ LoopTyped /\ ClientsTyped

\* What the loop can be told
LEMMA Messages ==
  /\ \A i \in Roles, g, n \in Nat : [k |-> "output", i |-> i, g |-> g, n |-> n] \in Msg
  /\ \A i \in Roles, g \in Nat : [k |-> "closed", i |-> i, g |-> g] \in Msg
  /\ \A c \in Clients : [k |-> "attach", c |-> c] \in Msg /\ [k |-> "gone", c |-> c] \in Msg
  /\ \A ev \in Event : [k |-> "event", ev |-> ev] \in Msg
BY DEF Msg

LEMMA MessageFields ==
  ASSUME NEW m \in Msg
  PROVE  /\ m.k \in {"output", "closed", "attach", "gone", "event"}
         /\ m.k = "output" => m.i \in Roles /\ m.g \in Nat /\ m.n \in Nat
         /\ m.k = "closed" => m.i \in Roles /\ m.g \in Nat
         /\ m.k \in {"attach", "gone"} => m.c \in Clients
         /\ m.k = "event" => m.ev \in Event
BY DEF Msg

LEMMA EventFields ==
  ASSUME NEW ev \in Event
  PROVE  /\ ev.k \in {"gate", "restart", "detach"}
         /\ ev.k = "restart" => ev.i \in Roles
BY DEF Event

LEMMA Frames ==
  /\ \A s \in Nat, gs \in Seq(Nat), rings \in [Roles -> Ring] :
       [k |-> "welcome", size |-> s, gates |-> gs, rings |-> rings] \in Frame
  /\ \A i \in Roles, g, n \in Nat : /\ [k |-> "ring", i |-> i, g |-> g, n |-> n] \in Frame
                                    /\ [k |-> "output", i |-> i, g |-> g, n |-> n] \in Frame
  /\ \A i \in Roles : [k |-> "reset", i |-> i] \in Frame
  /\ [k |-> "refused"] \in Frame
  /\ \A s \in Nat, gs \in Seq(Nat) : [k |-> "state", size |-> s, gates |-> gs] \in Frame
BY DEF Frame, StateFrame

LEMMA FrameFields ==
  ASSUME NEW f \in Frame
  PROVE  /\ f.k \in {"welcome", "ring", "output", "reset", "refused", "state"}
         /\ f.k \in {"welcome", "state"} => f.size \in Nat /\ f.gates \in Seq(Nat)
         /\ f.k = "welcome" => f.rings \in [Roles -> Ring]
         /\ f.k \in {"ring", "output"} => f.i \in Roles /\ f.g \in Nat /\ f.n \in Nat
         /\ f.k = "reset" => f.i \in Roles
         /\ f.k = "state" <=> f \in StateFrame
         /\ f # NoFrame
BY DEF Frame, StateFrame, NoFrame

LEMMA Bounds ==
  /\ NoClient \notin Clients
  /\ MaxRoles \in Nat /\ Roles0 \in 1 .. MaxRoles
  /\ Roles = 1 .. MaxRoles
  /\ Fresh \subseteq Roles
BY AttachAssumption DEF Roles

-----------------------------------------------------------------------------
(* Types *)

\* The loop drops a client it cannot reach, or writes its frames behind the others.
Written(frames) ==
  /\ client # NoClient /\ Reached(client)
  /\ client' = client /\ sopen' = sopen
  /\ down' = [down EXCEPT ![client] = @ \o frames]

Dropped == client' = NoClient /\ sopen' = sopen \ {client} /\ down' = down

Untold == client' = client /\ sopen' = sopen /\ down' = down

LEMMA SendKinds ==
  ASSUME NEW frames, Send(frames)
  PROVE  \/ client = NoClient /\ Untold
         \/ client # NoClient /\ ~Reached(client) /\ Dropped
         \/ Written(frames)
BY DEF Send, DropClient, Untold, Dropped, Written

LEMMA SendTyped ==
  ASSUME client \in Clients \cup {NoClient}, sopen \subseteq Clients, down \in [Clients -> Seq(Frame)],
         NEW frames \in Seq(Frame), Send(frames)
  PROVE  /\ client' \in Clients \cup {NoClient} /\ sopen' \subseteq Clients
         /\ down' \in [Clients -> Seq(Frame)]
<1>1. CASE Untold \/ Dropped
  BY <1>1 DEF Untold, Dropped
<1>2. CASE Written(frames)
  <2>1. down[client] \o frames \in Seq(Frame)
    BY <1>2 DEF Written
  <2>2. QED
    BY <1>2, <2>1 DEF Written
<1>3. QED
  BY <1>1, <1>2, SendKinds

LEMMA RespawnedTyped ==
  ASSUME PanesTyped, NEW i \in Roles, Respawned(i)
  PROVE  PanesTyped'
BY DEF PanesTyped, Respawned

LEMMA OneFrame == \A f \in Frame : <<f>> \in Seq(Frame)
OBVIOUS

\* The first message of a kind, taken
LEMMA TakeTyped ==
  ASSUME msgs \in Seq(Msg), NEW kind, Take(kind)
  PROVE  /\ msgs' \in Seq(Msg) /\ Head(msgs) \in Msg /\ Head(msgs).k = kind
         /\ msgs' = Tail(msgs) /\ msgs # <<>> /\ pc = "idle"
BY DEF Take, Idle

LEMMA PostTyped ==
  ASSUME msgs \in Seq(Msg), NEW m \in Msg, Post(m)
  PROVE  msgs' \in Seq(Msg) /\ msgs' = Append(msgs, m)
BY DEF Post

LEMMA LeastRole ==
  ASSUME NEW S \in SUBSET Roles, S # {}
  PROVE  Min(S) \in S
<1> DEFINE R == OpToRel(<, Nat)
<1>1. S \subseteq Nat
  BY Bounds
<1>2. PICK x \in S : \A y \in S : ~(<<y, x>> \in R)
  BY <1>1, NatLessThanWellFounded, WFMin
<1>3. \A y \in S : x <= y
  <2>1. SUFFICES ASSUME NEW y \in S PROVE x <= y
    OBVIOUS
  <2>2. ~(y < x)
    BY <1>1, <1>2 DEF OpToRel
  <2>3. QED
    BY <1>1, <2>2
<1>4. QED
  BY <1>3, Zenon DEF Min

LEMMA StreamsTyped ==
  ASSUME Typed, Streams
  PROVE  Typed'
<1>1. ASSUME NEW i \in Roles, Output(i) PROVE Typed'
  <2>1. PanesTyped'
    BY <1>1 DEF Typed, PanesTyped, Output
  <2>2. LoopTyped' /\ ClientsTyped'
    BY <1>1 DEF Typed, LoopTyped, ClientsTyped, Output, loopVars, stateVars, clientVars
  <2>3. QED
    BY <2>1, <2>2 DEF Typed
<1>2. ASSUME NEW i \in Roles, StreamEnds(i) PROVE Typed'
  <2>1. PanesTyped'
    BY <1>2 DEF Typed, PanesTyped, StreamEnds
  <2>2. gen[i] \in Nat
    BY DEF Typed, PanesTyped
  <2>3. msgs' \in Seq(Msg)
    BY <1>2, <2>2, Messages, PostTyped DEF StreamEnds, Typed, LoopTyped
  <2>4. LoopTyped' /\ ClientsTyped'
    BY <1>2, <2>3 DEF Typed, LoopTyped, ClientsTyped, StreamEnds, loopVars, stateVars, clientVars
  <2>5. QED
    BY <2>1, <2>4 DEF Typed
<1>3. ASSUME NEW h \in held, PostChunk(h) PROVE Typed'
  <2>1. PanesTyped'
    BY <1>3 DEF Typed, PanesTyped, PostChunk
  <2>2. h.i \in Roles /\ h.g \in Nat /\ h.n \in Nat
    BY DEF Typed, PanesTyped
  <2>3. msgs' \in Seq(Msg)
    BY <1>3, <2>2, Messages, PostTyped DEF PostChunk, Typed, LoopTyped
  <2>4. LoopTyped' /\ ClientsTyped'
    BY <1>3, <2>3 DEF Typed, LoopTyped, ClientsTyped, PostChunk, loopVars, stateVars, clientVars
  <2>5. QED
    BY <2>1, <2>4 DEF Typed
<1>4. QED
  BY <1>1, <1>2, <1>3 DEF Streams

\* What a handler that only touches panes, gates and the program counter leaves alone
LEMMA HandlerRestTyped ==
  ASSUME Typed, UNCHANGED handlerRest, PanesTyped', msgs' \in Seq(Msg), gates' \in Seq(Nat),
         asked' \in Nat, pc' \in {"idle", "wire", "settle"}
  PROVE  Typed'
BY DEF Typed, LoopTyped, ClientsTyped, handlerRest, clientVars

LEMMA PaneHandlersTyped ==
  ASSUME Typed,
         \/ Gated \/ ReloadAdds \/ (\E i \in Roles : Delivered(i) \/ ReloadChanges(i))
         \/ PaneClosed \/ Answer \/ RestartKey
  PROVE  Typed'
<1>1. /\ PanesTyped /\ msgs \in Seq(Msg) /\ gates \in Seq(Nat) /\ asked \in Nat
      /\ pc \in {"idle", "wire", "settle"}
  BY DEF Typed, LoopTyped
<1>2. UNCHANGED paneVars => PanesTyped'
  BY <1>1 DEF paneVars, PanesTyped
<1>3. CASE Gated
  <2>1. asked + 1 \in Nat /\ Append(gates, asked + 1) \in Seq(Nat)
    BY <1>1
  <2>2. QED
    BY <1>1, <1>2, <1>3, <2>1, HandlerRestTyped DEF Gated, Settle
<1>4. CASE ReloadAdds
  <2>1. PanesTyped'
    BY <1>1, <1>4, Bounds DEF ReloadAdds, PanesTyped
  <2>2. QED
    BY <1>1, <1>4, <2>1, HandlerRestTyped DEF ReloadAdds, WireAndSettle, stateVars
<1>5. CASE \E i \in Roles : Delivered(i) \/ ReloadChanges(i)
  <2>1. PICK i \in Roles : Delivered(i) \/ ReloadChanges(i)
    BY <1>5
  <2>2. PanesTyped'
    BY <1>1, <2>1, RespawnedTyped DEF Delivered, ReloadChanges
  <2>3. QED
    BY <1>1, <2>1, <2>2, HandlerRestTyped DEF Delivered, ReloadChanges, Settle, WireAndSettle, stateVars
<1>6. CASE PaneClosed
  <2>1. msgs' \in Seq(Msg) /\ Head(msgs).i \in Roles
    BY <1>1, <1>6, TakeTyped, MessageFields DEF PaneClosed
  <2>2. PanesTyped' /\ pc' \in {"idle", "wire", "settle"}
    BY <1>1, <1>2, <1>6, <2>1, RespawnedTyped DEF PaneClosed, WireAndSettle
  <2>3. QED
    BY <1>1, <1>6, <2>1, <2>2, HandlerRestTyped DEF PaneClosed, stateVars
<1>7. CASE Answer
  <2>1. msgs' \in Seq(Msg)
    BY <1>1, <1>7, TakeTyped DEF Answer
  <2>2. PanesTyped' /\ pc' \in {"idle", "wire", "settle"}
    BY <1>1, <1>2, <1>7, RespawnedTyped, Bounds DEF Answer, WireAndSettle, Settle
  <2>3. gates' \in Seq(Nat)
    BY <1>1, <1>7 DEF Answer
  <2>4. QED
    BY <1>1, <1>7, <2>1, <2>2, <2>3, HandlerRestTyped DEF Answer
<1>8. CASE RestartKey
  <2>1. msgs' \in Seq(Msg) /\ Head(msgs).ev.i \in Roles
    BY <1>1, <1>8, TakeTyped, MessageFields, EventFields DEF RestartKey
  <2>2. PanesTyped'
    BY <1>1, <1>2, <1>8, <2>1, RespawnedTyped DEF RestartKey
  <2>3. QED
    BY <1>1, <1>8, <2>1, <2>2, HandlerRestTyped DEF RestartKey, WireAndSettle, stateVars
<1>9. QED
  BY <1>3, <1>4, <1>5, <1>6, <1>7, <1>8

\* What a handler that only talks to its client leaves alone
LEMMA SendRestTyped ==
  ASSUME Typed, UNCHANGED <<paneVars, stateVars, base, conn, reading, up, clientVars>>,
         client' \in Clients \cup {NoClient}, sopen' \subseteq Clients,
         down' \in [Clients -> Seq(Frame)], msgs' \in Seq(Msg),
         snap' \in [Roles -> Nat], wired' \in [Roles -> Nat],
         pc' \in {"idle", "wire", "settle"}, todo' \subseteq Roles
  PROVE  Typed'
BY DEF Typed, PanesTyped, LoopTyped, ClientsTyped, paneVars, stateVars, clientVars

\* Frames that the loop writes
LEMMA WrittenFrames ==
  ASSUME Typed
  PROVE  /\ StateFrames \in Seq(Frame)
         /\ \A i \in Roles :
              <<[k |-> "reset", i |-> i], [k |-> "ring", i |-> i, g |-> gen[i], n |-> out[i]]>> \in Seq(Frame)
         /\ \A m \in Msg : m.k = "output" =>
              <<[k |-> "output", i |-> m.i, g |-> m.g, n |-> m.n]>> \in Seq(Frame)
<1>1. /\ size \in Nat /\ gates \in Seq(Nat)
      /\ \A i \in Roles : gen[i] \in Nat /\ out[i] \in Nat
  BY Bounds DEF Typed, PanesTyped, LoopTyped
<1>2. StateFrames \in Seq(Frame)
  BY <1>1, Frames, OneFrame DEF StateFrames
<1>3. ASSUME NEW i \in Roles
      PROVE  <<[k |-> "reset", i |-> i], [k |-> "ring", i |-> i, g |-> gen[i], n |-> out[i]]>> \in Seq(Frame)
  <2> DEFINE a == [k |-> "reset", i |-> i]
             b == [k |-> "ring", i |-> i, g |-> gen[i], n |-> out[i]]
  <2>1. a \in Frame /\ b \in Frame
    BY <1>1, Frames
  <2> HIDE DEF a, b
  <2>2. <<a, b>> \in Seq(Frame)
    BY <2>1
  <2>3. QED
    BY <2>2 DEF a, b
<1>4. ASSUME NEW m \in Msg, m.k = "output"
      PROVE  <<[k |-> "output", i |-> m.i, g |-> m.g, n |-> m.n]>> \in Seq(Frame)
  BY <1>4, MessageFields, Frames, OneFrame
<1>5. QED
  BY <1>2, <1>3, <1>4

LEMMA ClientHandlersTyped ==
  ASSUME Typed,
         Forward \/ ClientGone \/ Detached \/ EnsureTees \/ ResetPane \/ SyncClient \/ Tick
  PROVE  Typed'
<1>1. /\ msgs \in Seq(Msg) /\ client \in Clients \cup {NoClient} /\ sopen \subseteq Clients
      /\ down \in [Clients -> Seq(Frame)] /\ snap \in [Roles -> Nat] /\ wired \in [Roles -> Nat]
      /\ pc \in {"idle", "wire", "settle"} /\ todo \subseteq Roles /\ gen \in [Roles -> Nat]
      /\ out \in [Roles -> Nat]
  BY DEF Typed, PanesTyped, LoopTyped, ClientsTyped
<1>2. Untold \/ Dropped => /\ client' \in Clients \cup {NoClient} /\ sopen' \subseteq Clients
                           /\ down' \in [Clients -> Seq(Frame)]
  BY <1>1 DEF Untold, Dropped
<1>3. CASE Forward
  <2> DEFINE m == Head(msgs)
             fs == <<[k |-> "output", i |-> m.i, g |-> m.g, n |-> m.n]>>
  <2>1. msgs' \in Seq(Msg) /\ m \in Msg /\ m.k = "output"
    BY <1>1, <1>3, TakeTyped DEF Forward
  <2>2. fs \in Seq(Frame)
    BY <2>1, WrittenFrames
  <2>3. Send(fs) \/ Untold
    BY <1>3 DEF Forward, Untold
  <2> HIDE DEF fs, m
  <2>4. /\ client' \in Clients \cup {NoClient} /\ sopen' \subseteq Clients
        /\ down' \in [Clients -> Seq(Frame)]
    BY <1>1, <1>2, <2>2, <2>3, SendTyped
  <2>5. QED
    BY <1>1, <1>3, <2>1, <2>4, SendRestTyped DEF Forward
<1>4. CASE ClientGone \/ Detached
  <2>1. msgs' \in Seq(Msg)
    BY <1>1, <1>4, TakeTyped DEF ClientGone, Detached
  <2>2. Untold \/ Dropped
    BY <1>4 DEF ClientGone, Detached, DropClient, Untold, Dropped
  <2>3. QED
    BY <1>1, <1>2, <1>4, <2>1, <2>2, SendRestTyped DEF ClientGone, Detached
<1>5. CASE EnsureTees
  <2> DEFINE unwired == {i \in 1 .. size : wired[i] # gen[i]}
  <2>1. /\ tee' = [i \in Roles |-> i \in unwired \/ tee[i]]
        /\ wired' = [i \in Roles |-> IF i \in unwired THEN gen[i] ELSE wired[i]]
        /\ todo' = {i \in unwired : wired[i] # 0}
    BY <1>5 DEF EnsureTees
  <2>2. unwired \subseteq Roles
    BY Bounds DEF Typed, PanesTyped
  <2> HIDE DEF unwired
  <2>3. tee' \in [Roles -> BOOLEAN]
    BY <2>1 DEF Typed, PanesTyped
  <2>4. wired' \in [Roles -> Nat] /\ todo' \subseteq Roles
    BY <1>1, <2>1, <2>2
  <2>5. PanesTyped'
    BY <1>5, <2>3 DEF EnsureTees, Typed, PanesTyped
  <2>6. LoopTyped'
    BY <1>5, <2>4 DEF EnsureTees, Typed, LoopTyped, Settle, stateVars
  <2>7. ClientsTyped'
    BY <1>5 DEF EnsureTees, Typed, ClientsTyped, clientVars
  <2>8. QED
    BY <2>5, <2>6, <2>7 DEF Typed
<1>6. CASE ResetPane
  <2> DEFINE i == Min(todo)
             fs == <<[k |-> "reset", i |-> i], [k |-> "ring", i |-> i, g |-> gen[i], n |-> out[i]]>>
  <2>1. i \in Roles
    BY <1>1, <1>6, LeastRole DEF ResetPane
  <2>2. fs \in Seq(Frame) /\ Send(fs)
    BY <1>6, <2>1, WrittenFrames DEF ResetPane
  <2>3. /\ todo' = todo \ {i} /\ snap' = IF client = NoClient THEN snap ELSE [snap EXCEPT ![i] = out[i]]
    BY <1>6 DEF ResetPane
  <2> HIDE DEF fs, i
  <2>4. /\ client' \in Clients \cup {NoClient} /\ sopen' \subseteq Clients
        /\ down' \in [Clients -> Seq(Frame)]
    BY <1>1, <2>2, SendTyped
  <2>5. snap' \in [Roles -> Nat] /\ todo' \subseteq Roles
    BY <1>1, <2>1, <2>3
  <2>6. QED
    BY <1>1, <1>6, <2>4, <2>5, SendRestTyped DEF ResetPane
<1>7. CASE SyncClient \/ Tick
  <2>1. Send(StateFrames) /\ StateFrames \in Seq(Frame) /\ pc' \in {"idle", "wire", "settle"}
    BY <1>1, <1>7, WrittenFrames DEF SyncClient, Tick
  <2>2. /\ client' \in Clients \cup {NoClient} /\ sopen' \subseteq Clients
        /\ down' \in [Clients -> Seq(Frame)]
    BY <1>1, <2>1, SendTyped
  <2>3. QED
    BY <1>1, <1>7, <2>1, <2>2, SendRestTyped DEF SyncClient, Tick
<1>8. QED
  BY <1>3, <1>4, <1>5, <1>6, <1>7

\* A connection that says hello is ignored, refused, or attached.
Ignored == UNCHANGED <<client, down, sopen, reading, snap, base>>

Refused(c) ==
  /\ Reached(c)
  /\ down' = [down EXCEPT ![c] = <<[k |-> "refused"]>>]
  /\ UNCHANGED <<client, sopen, reading, snap, base>>

WelcomeFrame == [k |-> "welcome", size |-> size, gates |-> gates, rings |-> Rings]

Attached(c) ==
  /\ Reached(c) /\ client = NoClient
  /\ down' = [down EXCEPT ![c] = <<WelcomeFrame>>]
  /\ client' = c
  /\ snap' = out /\ base' = size
  /\ sopen' = sopen \cup {c} /\ reading' = reading \cup {c}

LEMMA AttachKinds ==
  ASSUME msgs \in Seq(Msg), AttachClient
  PROVE  LET c == Head(msgs).c
         IN /\ c \in Clients /\ Take("attach")
            /\ Ignored \/ Refused(c) \/ Attached(c)
            /\ UNCHANGED <<paneVars, stateVars, wired, pc, todo, conn, up, clientVars, sent>>
<1> DEFINE c == Head(msgs).c
<1>1. c \in Clients
  BY TakeTyped, MessageFields DEF AttachClient
<1>2. Ignored \/ Refused(c) \/ Attached(c)
  BY DEF AttachClient, Ignored, Refused, Attached, WelcomeFrame
<1>3. QED
  BY <1>1, <1>2 DEF AttachClient

LEMMA AttachTyped ==
  ASSUME Typed, AttachClient
  PROVE  Typed'
<1> DEFINE c == Head(msgs).c
<1>1. msgs \in Seq(Msg) /\ size \in Nat /\ gates \in Seq(Nat) /\ gen \in [Roles -> Nat] /\ out \in [Roles -> Nat]
  BY Bounds DEF Typed, PanesTyped, LoopTyped
<1>2. /\ c \in Clients /\ Take("attach")
      /\ Ignored \/ Refused(c) \/ Attached(c)
      /\ UNCHANGED <<paneVars, stateVars, wired, pc, todo, conn, up, clientVars, sent>>
  BY <1>1, AttachKinds
<1> HIDE DEF c
<1>3. msgs' \in Seq(Msg)
  BY <1>1, <1>2, TakeTyped
<1>4. WelcomeFrame \in Frame
  <2>1. Rings \in [Roles -> Ring]
    BY <1>1 DEF Rings, Ring
  <2>2. QED
    BY <1>1, <2>1, Frames DEF WelcomeFrame
<1>5. <<WelcomeFrame>> \in Seq(Frame) /\ <<[k |-> "refused"]>> \in Seq(Frame)
  BY <1>4, Frames, OneFrame
<1>6. down' \in [Clients -> Seq(Frame)]
  BY <1>2, <1>5 DEF Ignored, Refused, Attached, Typed, ClientsTyped
<1>7. LoopTyped'
  <2>1. /\ client' \in Clients \cup {NoClient} /\ sopen' \subseteq Clients /\ reading' \subseteq Clients
        /\ snap' \in [Roles -> Nat] /\ base' \in Nat
    BY <1>1, <1>2 DEF Ignored, Refused, Attached, Typed, LoopTyped
  <2>2. QED
    BY <1>2, <1>3, <2>1 DEF Typed, LoopTyped, stateVars
<1>8. PanesTyped' /\ ClientsTyped'
  BY <1>2, <1>6 DEF Typed, PanesTyped, ClientsTyped, paneVars, clientVars
<1>9. QED
  BY <1>7, <1>8 DEF Typed

LEMMA ReadersTyped ==
  ASSUME Typed, Readers
  PROVE  Typed'
<1>1. PICK c \in Clients : ReadEvent(c) \/ ReadFails(c)
  BY DEF Readers
<1>2. msgs \in Seq(Msg) /\ up \in [Clients -> Seq(Event)] /\ reading \subseteq Clients
  BY DEF Typed, LoopTyped, ClientsTyped
<1>3. CASE ReadEvent(c)
  <2>1. Head(up[c]) \in Event /\ Tail(up[c]) \in Seq(Event)
    BY <1>2, <1>3 DEF ReadEvent
  <2>2. msgs' \in Seq(Msg)
    BY <1>2, <1>3, <2>1, Messages, PostTyped DEF ReadEvent
  <2>3. up' \in [Clients -> Seq(Event)] /\ reading' \subseteq Clients
    BY <1>2, <1>3, <2>1 DEF ReadEvent
  <2>4. QED
    BY <1>3, <2>2, <2>3 DEF ReadEvent, Typed, PanesTyped, LoopTyped, ClientsTyped, paneVars, stateVars, loopVars, clientVars
<1>4. CASE ReadFails(c)
  <2>1. msgs' \in Seq(Msg)
    BY <1>2, <1>4, Messages, PostTyped DEF ReadFails
  <2>2. QED
    BY <1>4, <2>1 DEF ReadFails, Typed, PanesTyped, LoopTyped, ClientsTyped, paneVars, stateVars, loopVars, clientVars
<1>5. QED
  BY <1>1, <1>3, <1>4

LEMMA HangsTyped ==
  ASSUME ClientsTyped, NEW c \in Clients, Hangs(c), up' \in [Clients -> Seq(Event)]
  PROVE  ClientsTyped'
<1>1. NoView \in [Roles -> Seq(Nat \X Nat)]
  BY DEF NoView
<1>2. /\ conn' \in [Clients -> {"idle", "dialing", "live", "closed"}]
      /\ down' \in [Clients -> Seq(Frame)] /\ known' \in [Clients -> Nat]
      /\ shown' \in [Clients -> Seq(Nat)] /\ upd' \in [Clients -> StateFrame \cup {NoFrame}]
  BY DEF Hangs, ClientsTyped
<1>3. view' \in [Clients -> [Roles -> Seq(Nat \X Nat)]]
  <2>1. view' = [view EXCEPT ![c] = NoView]
    BY DEF Hangs
  <2>2. QED
    BY <1>1, <2>1 DEF ClientsTyped
<1>4. QED
  BY <1>2, <1>3 DEF ClientsTyped

\* What the frame f makes of the chunks v in the pane of role i
Arrive(i, v, f) ==
  CASE f.k = "welcome" -> Upto(f.rings[i].g, f.rings[i].n)
    [] f.k = "reset" /\ f.i = i -> <<>>
    [] f.k = "ring" /\ f.i = i -> v \o Upto(f.g, f.n)
    [] f.k = "output" /\ f.i = i -> Append(v, <<f.g, f.n>>)
    [] OTHER -> v

LEMMA UptoTyped == \A g, n \in Nat : Upto(g, n) \in Seq(Nat \X Nat)
BY DEF Upto

LEMMA ArriveTyped ==
  ASSUME NEW i \in Roles, NEW v \in Seq(Nat \X Nat), NEW f \in Frame
  PROVE  Arrive(i, v, f) \in Seq(Nat \X Nat)
<1>1. CASE f.k = "welcome"
  <2>1. f.rings[i].g \in Nat /\ f.rings[i].n \in Nat
    BY <1>1, FrameFields DEF Ring
  <2>2. QED
    BY <1>1, <2>1, UptoTyped DEF Arrive
<1>2. CASE f.k = "ring" /\ f.i = i
  <2>1. Upto(f.g, f.n) \in Seq(Nat \X Nat)
    BY <1>2, FrameFields, UptoTyped
  <2>2. Arrive(i, v, f) = v \o Upto(f.g, f.n)
    BY <1>2 DEF Arrive
  <2>3. QED
    BY <2>1, <2>2
<1>3. CASE f.k = "output" /\ f.i = i
  <2>1. <<f.g, f.n>> \in Nat \X Nat
    BY <1>3, FrameFields
  <2>2. Arrive(i, v, f) = Append(v, <<f.g, f.n>>)
    BY <1>3 DEF Arrive
  <2>3. QED
    BY <2>1, <2>2
<1>4. CASE f.k = "reset" \/ f.k = "refused" \/ f.k = "state" \/ (f.k \in {"ring", "output"} /\ f.i # i)
  BY <1>4 DEF Arrive
<1>5. QED
  BY <1>1, <1>2, <1>3, <1>4, FrameFields

\* What the client's reader makes of a frame: what Arrive says, in the panes that
\* its update loop has made
LEMMA ReadArrives ==
  ASSUME ClientsTyped, NEW c \in Clients, ReadFrame(c)
  PROVE  LET f == Head(down[c])
         IN /\ conn[c] = "live" /\ f \in Frame /\ f.k \in {"ring", "output", "reset", "state"}
            /\ down[c] # <<>> /\ down' = [down EXCEPT ![c] = Tail(@)]
            /\ view' \in [Clients -> [Roles -> Seq(Nat \X Nat)]]
            /\ \A i \in Roles : i <= known[c] => view'[c][i] = Arrive(i, view[c][i], f)
            /\ \A d \in Clients \ {c} : view'[d] = view[d]
            /\ upd' = IF f.k = "state" THEN [upd EXCEPT ![c] = f] ELSE upd
            /\ f.k = "state" => upd[c] = NoFrame
<1> DEFINE f == Head(down[c])
           chunks == IF f.k = "output" THEN <<<<f.g, f.n>>>> ELSE [n \in 1 .. f.n |-> <<f.g, n>>]
<1>1. f \in Frame /\ down[c] \in Seq(Frame) /\ down[c] # <<>>
  <2>1. down[c] \in Seq(Frame)
    BY DEF ClientsTyped
  <2>2. down[c] # <<>>
    BY DEF ReadFrame
  <2>3. QED
    BY <2>1, <2>2
<1>2. /\ conn[c] = "live" /\ down' = [down EXCEPT ![c] = Tail(@)]
      /\ \/ /\ f.k \in {"output", "ring"}
            /\ view' = IF f.i > known[c] THEN view ELSE [view EXCEPT ![c][f.i] = @ \o chunks]
            /\ upd' = upd
         \/ /\ f.k = "reset"
            /\ view' = IF f.i > known[c] THEN view ELSE [view EXCEPT ![c][f.i] = <<>>]
            /\ upd' = upd
         \/ /\ f.k = "state" /\ upd[c] = NoFrame
            /\ upd' = [upd EXCEPT ![c] = f]
            /\ view' = view
  BY DEF ReadFrame
<1> HIDE DEF f
<1>3. view \in [Clients -> [Roles -> Seq(Nat \X Nat)]] /\ known[c] \in Nat
  BY DEF ClientsTyped
<1>4. CASE f.k \in {"output", "ring"}
  <2>1. f.i \in Roles /\ f.g \in Nat /\ f.n \in Nat
    BY <1>1, <1>4, FrameFields
  <2>2. chunks \in Seq(Nat \X Nat)
    <3>1. CASE f.k = "output"
      BY <2>1, <3>1
    <3>2. CASE f.k = "ring"
      <4>1. chunks = Upto(f.g, f.n)
        BY <3>2 DEF Upto
      <4>2. QED
        BY <2>1, <4>1, UptoTyped
    <3>3. QED
      BY <1>4, <3>1, <3>2
  <2>3. \A v \in Seq(Nat \X Nat) : v \o chunks \in Seq(Nat \X Nat) /\ v \o chunks = Arrive(f.i, v, f)
    <3>1. SUFFICES ASSUME NEW v \in Seq(Nat \X Nat)
                   PROVE  v \o chunks \in Seq(Nat \X Nat) /\ v \o chunks = Arrive(f.i, v, f)
      OBVIOUS
    <3>2. v \o chunks \in Seq(Nat \X Nat)
      BY <2>2
    <3>3. CASE f.k = "output"
      <4>1. <<f.g, f.n>> \in Nat \X Nat
        BY <2>1
      <4>2. v \o <<<<f.g, f.n>>>> = Append(v, <<f.g, f.n>>)
        BY <4>1
      <4>3. QED
        BY <3>2, <3>3, <4>2 DEF Arrive
    <3>4. CASE f.k = "ring"
      BY <3>2, <3>4 DEF Arrive, Upto
    <3>5. QED
      BY <1>4, <3>2, <3>3, <3>4
  <2>4. \A i \in Roles \ {f.i} : \A v : Arrive(i, v, f) = v
    BY <1>4 DEF Arrive
  <2> HIDE DEF chunks
  <2>5. CASE f.i > known[c]
    <3>1. view' = view
      BY <1>2, <1>4, <2>5
    <3>2. \A i \in Roles : i <= known[c] => i # f.i
      BY <1>3, <2>1, <2>5, Bounds
    <3>3. QED
      BY <1>1, <1>2, <1>3, <1>4, <2>4, <3>1, <3>2 DEF f
  <2>6. CASE ~(f.i > known[c])
    <3>1. view' = [view EXCEPT ![c][f.i] = @ \o chunks]
      BY <1>2, <1>4, <2>6
    <3>2. view[c][f.i] \in Seq(Nat \X Nat)
      BY <1>3, <2>1
    <3>3. view[c][f.i] \o chunks \in Seq(Nat \X Nat) /\ view[c][f.i] \o chunks = Arrive(f.i, view[c][f.i], f)
      BY <2>3, <3>2
    <3> DEFINE w == view[c][f.i] \o chunks
    <3>4. view' = [view EXCEPT ![c] = [view[c] EXCEPT ![f.i] = w]]
      BY <3>1
    <3> HIDE DEF w
    <3>5. /\ view' \in [Clients -> [Roles -> Seq(Nat \X Nat)]]
          /\ view'[c][f.i] = w
          /\ \A i \in Roles \ {f.i} : view'[c][i] = view[c][i]
          /\ \A d \in Clients \ {c} : view'[d] = view[d]
      BY <1>3, <2>1, <3>3, <3>4 DEF w
    <3>6. \A i \in Roles : view'[c][i] = Arrive(i, view[c][i], f)
      BY <2>4, <3>3, <3>5 DEF w
    <3>7. QED
      BY <1>1, <1>2, <1>4, <3>5, <3>6 DEF f
  <2>7. QED
    BY <2>5, <2>6
<1>5. CASE f.k = "reset"
  <2>1. f.i \in Roles
    BY <1>1, <1>5, FrameFields
  <2>2. \A i \in Roles : \A v : Arrive(i, v, f) = IF i = f.i THEN <<>> ELSE v
    BY <1>5 DEF Arrive
  <2>3. CASE f.i > known[c]
    <3>1. view' = view
      BY <1>2, <1>5, <2>3
    <3>2. \A i \in Roles : i <= known[c] => i # f.i
      BY <1>3, <2>1, <2>3, Bounds
    <3>3. QED
      BY <1>1, <1>2, <1>3, <1>5, <2>2, <3>1, <3>2 DEF f
  <2>4. CASE ~(f.i > known[c])
    <3>1. view' = [view EXCEPT ![c] = [view[c] EXCEPT ![f.i] = <<>>]]
      BY <1>2, <1>5, <2>4
    <3>2. /\ view' \in [Clients -> [Roles -> Seq(Nat \X Nat)]]
          /\ view'[c][f.i] = <<>>
          /\ \A i \in Roles \ {f.i} : view'[c][i] = view[c][i]
          /\ \A d \in Clients \ {c} : view'[d] = view[d]
      BY <1>3, <2>1, <3>1
    <3>3. QED
      BY <1>1, <1>2, <1>5, <2>2, <3>2 DEF f
  <2>5. QED
    BY <2>3, <2>4
<1>6. CASE f.k = "state"
  <2>1. \A i, v : Arrive(i, v, f) = v
    BY <1>6 DEF Arrive
  <2>2. QED
    BY <1>1, <1>2, <1>3, <1>6, <2>1 DEF f
<1>7. QED
  BY <1>2, <1>4, <1>5, <1>6

\* The handshake does what Arrive says of the welcome.
LEMMA WelcomeArrives ==
  ASSUME ClientsTyped, NEW c \in Clients, Welcomed(c)
  PROVE  LET f == Head(down[c])
         IN /\ conn[c] = "dialing" /\ f \in Frame /\ f.k = "welcome"
            /\ down[c] # <<>> /\ down' = [down EXCEPT ![c] = Tail(@)]
            /\ conn' = [conn EXCEPT ![c] = "live"]
            /\ known' = [known EXCEPT ![c] = f.size] /\ shown' = [shown EXCEPT ![c] = f.gates]
            /\ view' \in [Clients -> [Roles -> Seq(Nat \X Nat)]]
            /\ \A i \in Roles : view'[c][i] = Arrive(i, view[c][i], f)
<1> DEFINE f == Head(down[c])
           new == [i \in Roles |-> [n \in 1 .. f.rings[i].n |-> <<f.rings[i].g, n>>]]
<1>1. /\ conn[c] = "dialing" /\ f.k = "welcome"
      /\ down[c] # <<>> /\ down' = [down EXCEPT ![c] = Tail(@)]
      /\ conn' = [conn EXCEPT ![c] = "live"]
      /\ known' = [known EXCEPT ![c] = f.size] /\ shown' = [shown EXCEPT ![c] = f.gates]
      /\ view' = [view EXCEPT ![c] = new]
  BY DEF Welcomed
<1>2. f \in Frame
  <2>1. down[c] \in Seq(Frame)
    BY DEF ClientsTyped
  <2>2. QED
    BY <1>1, <2>1
<1> HIDE DEF f
<1>3. \A i \in Roles : new[i] = Upto(f.rings[i].g, f.rings[i].n) /\ new[i] \in Seq(Nat \X Nat)
  <2>1. SUFFICES ASSUME NEW i \in Roles PROVE Upto(f.rings[i].g, f.rings[i].n) \in Seq(Nat \X Nat)
    BY DEF Upto
  <2>2. f.rings[i].g \in Nat /\ f.rings[i].n \in Nat
    BY <1>1, <1>2, FrameFields DEF Ring
  <2>3. QED
    BY <2>2, UptoTyped
<1>4. new \in [Roles -> Seq(Nat \X Nat)]
  BY <1>3
<1> HIDE DEF new
<1>5. view' \in [Clients -> [Roles -> Seq(Nat \X Nat)]] /\ view'[c] = new
  BY <1>1, <1>4 DEF ClientsTyped
<1>6. \A i \in Roles : new[i] = Arrive(i, view[c][i], f)
  BY <1>1, <1>3 DEF Arrive
<1>7. QED
  BY <1>1, <1>2, <1>5, <1>6 DEF f

LEMMA KeyTyped ==
  ASSUME Typed, NEW c \in Clients, NEW ev \in Event, Key(c, ev)
  PROVE  /\ up' \in [Clients -> Seq(Event)] /\ PanesTyped' /\ LoopTyped'
         /\ up' = [up EXCEPT ![c] = Append(@, ev)]
         /\ conn[c] = "live" /\ upd[c] = NoFrame
         /\ UNCHANGED <<paneVars, msgs, stateVars, loopVars, sopen, reading>>
<1>1. /\ up' = [up EXCEPT ![c] = Append(@, ev)]
      /\ conn[c] = "live" /\ upd[c] = NoFrame
      /\ UNCHANGED <<paneVars, msgs, stateVars, loopVars, sopen, reading>>
  BY DEF Key
<1>2. up' \in [Clients -> Seq(Event)]
  BY <1>1 DEF Typed, ClientsTyped
<1>3. PanesTyped' /\ LoopTyped'
  BY <1>1 DEF Typed, PanesTyped, LoopTyped, paneVars, stateVars, loopVars
<1>4. QED
  BY <1>1, <1>2, <1>3

LEMMA ClientTyped ==
  ASSUME Typed, NEW c \in Clients, Client(c)
  PROVE  Typed'
<1>1. /\ PanesTyped /\ LoopTyped /\ ClientsTyped
      /\ conn \in [Clients -> {"idle", "dialing", "live", "closed"}]
      /\ down \in [Clients -> Seq(Frame)] /\ up \in [Clients -> Seq(Event)]
      /\ known \in [Clients -> Nat] /\ shown \in [Clients -> Seq(Nat)]
      /\ upd \in [Clients -> StateFrame \cup {NoFrame}]
  BY DEF Typed, ClientsTyped
<1>2. UNCHANGED paneVars => PanesTyped'
  BY <1>1 DEF paneVars, PanesTyped
<1>3. UNCHANGED <<stateVars, loopVars, sopen, reading>> /\ msgs' \in Seq(Msg) => LoopTyped'
  BY <1>1 DEF LoopTyped, stateVars, loopVars
<1>4. msgs \in Seq(Msg)
  BY <1>1 DEF LoopTyped
<1>5. CASE Dial(c)
  <2>1. msgs' \in Seq(Msg)
    BY <1>4, <1>5, Messages, PostTyped DEF Dial
  <2>2. ClientsTyped'
    BY <1>1, <1>5 DEF Dial, ClientsTyped, clientVars
  <2>3. QED
    BY <1>2, <1>3, <1>5, <2>1, <2>2 DEF Dial, Typed
<1>6. CASE Welcomed(c)
  <2> DEFINE f == Head(down[c])
  <2>1. /\ f \in Frame /\ f.k = "welcome"
        /\ down[c] # <<>> /\ down' = [down EXCEPT ![c] = Tail(@)]
        /\ conn' = [conn EXCEPT ![c] = "live"]
        /\ known' = [known EXCEPT ![c] = f.size] /\ shown' = [shown EXCEPT ![c] = f.gates]
        /\ view' \in [Clients -> [Roles -> Seq(Nat \X Nat)]]
    BY <1>1, <1>6, WelcomeArrives
  <2> HIDE DEF f
  <2>2. f.size \in Nat /\ f.gates \in Seq(Nat)
    BY <2>1, FrameFields
  <2>3. UNCHANGED <<paneVars, msgs, stateVars, loopVars, sopen, reading, up, upd>>
    BY <1>6 DEF Welcomed
  <2>4. ClientsTyped'
    BY <1>1, <2>1, <2>2, <2>3 DEF ClientsTyped
  <2>5. QED
    BY <1>2, <1>3, <1>4, <2>3, <2>4 DEF Typed
<1>7. CASE Leaves(c)
  <2>1. ClientsTyped'
    BY <1>1, <1>7, HangsTyped DEF Leaves
  <2>2. QED
    BY <1>2, <1>3, <1>4, <1>7, <2>1 DEF Leaves, Typed
<1>8. CASE ReadFrame(c)
  <2> DEFINE f == Head(down[c])
  <2>1. /\ f \in Frame /\ down[c] # <<>> /\ down' = [down EXCEPT ![c] = Tail(@)]
        /\ view' \in [Clients -> [Roles -> Seq(Nat \X Nat)]]
        /\ upd' = IF f.k = "state" THEN [upd EXCEPT ![c] = f] ELSE upd
    BY <1>1, <1>8, ReadArrives
  <2> HIDE DEF f
  <2>2. UNCHANGED <<paneVars, msgs, stateVars, loopVars, conn, sopen, reading, up, known, shown>>
    BY <1>8 DEF ReadFrame
  <2>3. ClientsTyped'
    BY <1>1, <2>1, <2>2, FrameFields DEF ClientsTyped
  <2>4. QED
    BY <1>2, <1>3, <1>4, <2>2, <2>3 DEF Typed
<1>9. CASE Apply(c)
  <2>1. upd[c] \in StateFrame
    BY <1>1, <1>9 DEF Apply
  <2>2. upd[c].size \in Nat /\ upd[c].gates \in Seq(Nat)
    BY <2>1 DEF StateFrame
  <2>3. /\ upd' = [upd EXCEPT ![c] = NoFrame]
        /\ known' = [known EXCEPT ![c] = upd[c].size]
        /\ shown' = [shown EXCEPT ![c] = upd[c].gates]
        /\ UNCHANGED <<conn, down, up, view>>
    BY <1>9 DEF Apply
  <2>4. ClientsTyped'
    BY <1>1, <2>2, <2>3 DEF ClientsTyped
  <2>5. QED
    BY <1>2, <1>3, <1>4, <1>9, <2>4 DEF Apply, Typed
<1>10. CASE AnswerShown(c)
  <2> DEFINE ev == [k |-> "gate", gate |-> Head(shown[c])]
  <2>1. shown[c] \in Seq(Nat) /\ shown[c] # <<>>
    BY <1>1, <1>10 DEF AnswerShown
  <2>2. Head(shown[c]) \in Nat /\ Tail(shown[c]) \in Seq(Nat)
    BY <2>1
  <2>3. ev \in Event
    BY <2>2 DEF Event
  <2>4. Key(c, ev)
    BY <1>10 DEF AnswerShown
  <2> HIDE DEF ev
  <2>5. up' \in [Clients -> Seq(Event)] /\ PanesTyped' /\ LoopTyped'
    BY <2>3, <2>4, KeyTyped
  <2>6. shown' \in [Clients -> Seq(Nat)]
    BY <1>1, <1>10, <2>2 DEF AnswerShown
  <2>7. QED
    BY <1>1, <1>10, <2>5, <2>6 DEF AnswerShown, Typed, ClientsTyped
<1>11. CASE Detach(c)
  <2>1. [k |-> "detach"] \in Event
    BY DEF Event
  <2>2. Key(c, [k |-> "detach"]) /\ Hangs(c)
    BY <1>11 DEF Detach
  <2>3. up' \in [Clients -> Seq(Event)] /\ PanesTyped' /\ LoopTyped'
    BY <2>1, <2>2, KeyTyped
  <2>4. QED
    BY <1>1, <2>2, <2>3, HangsTyped DEF Typed
<1>12. CASE \E i \in Roles : RestartShown(c, i)
  <2>1. PICK i \in Roles : RestartShown(c, i)
    BY <1>12
  <2> DEFINE ev == [k |-> "restart", i |-> i]
  <2>2. ev \in Event
    BY DEF Event
  <2>3. Key(c, ev)
    BY <2>1 DEF RestartShown
  <2> HIDE DEF ev
  <2>4. up' \in [Clients -> Seq(Event)] /\ PanesTyped' /\ LoopTyped'
    BY <2>2, <2>3, KeyTyped
  <2>5. QED
    BY <1>1, <2>1, <2>4 DEF RestartShown, Typed, ClientsTyped, clientVars
<1>13. QED
  BY <1>5, <1>6, <1>7, <1>8, <1>9, <1>10, <1>11, <1>12 DEF Client

LEMMA InitTyped == Init => Typed
<1>1. SUFFICES ASSUME Init PROVE Typed
  OBVIOUS
<1>2. PanesTyped
  BY <1>1, Bounds DEF Init, PanesTyped
<1>3. LoopTyped
  BY <1>1, Bounds DEF Init, LoopTyped
<1>4. ClientsTyped
  <2>1. NoView \in [Roles -> Seq(Nat \X Nat)]
    BY DEF NoView
  <2>2. view \in [Clients -> [Roles -> Seq(Nat \X Nat)]]
    BY <1>1, <2>1 DEF Init
  <2>3. QED
    BY <1>1, <2>2 DEF Init, ClientsTyped
<1>5. QED
  BY <1>2, <1>3, <1>4 DEF Typed

LEMMA NextTyped == Typed /\ [Next]_vars => Typed'
<1>1. SUFFICES ASSUME Typed, [Next]_vars PROVE Typed'
  OBVIOUS
<1>2. CASE Handlers
  BY <1>1, <1>2, PaneHandlersTyped, ClientHandlersTyped, AttachTyped DEF Handlers
<1>3. CASE UNCHANGED vars
  BY <1>1, <1>3 DEF vars, Typed, PanesTyped, LoopTyped, ClientsTyped, paneVars, stateVars, loopVars, clientVars
<1>4. QED
  BY <1>1, <1>2, <1>3, StreamsTyped, ReadersTyped, ClientTyped DEF Next

-----------------------------------------------------------------------------
(* One client at a time *)

\* A connection says hello once, and only later can it be the client; what the
\* server holds open is the client's connection.
OneInv ==
  /\ \A k \in DOMAIN msgs : msgs[k].k = "attach" => conn[msgs[k].c] # "idle" /\ msgs[k].c # client
  /\ \A j, k \in DOMAIN msgs :
       msgs[j].k = "attach" /\ msgs[k].k = "attach" /\ msgs[j].c = msgs[k].c => j = k
  /\ client # NoClient => conn[client] # "idle"
  /\ sopen \subseteq {client}

\* A connection that was dialled stays dialled.
Dialled == \A c \in Clients : conn[c] # "idle" => conn'[c] # "idle"

\* The channel of the loop gains a message at its end, or loses the oldest.
Said(m) == msgs' = Append(msgs, m)
Heard == msgs # <<>> /\ msgs' = Tail(msgs)

\* A step of the loop's channel and of its client: a message comes or goes, a client
\* may be dropped; or a connection says hello; or one is attached.
Talks ==
  /\ Untold \/ Dropped \/ (client' = client /\ sopen' = sopen)
  /\ Dialled
  /\ msgs' = msgs \/ Heard \/ \E m \in Msg : m.k # "attach" /\ Said(m)

Dials == \E c \in Clients :
  /\ conn[c] = "idle" /\ Dialled /\ conn'[c] # "idle"
  /\ Said([k |-> "attach", c |-> c])
  /\ client' = client /\ sopen' = sopen

Attaches ==
  /\ Heard /\ Head(msgs).k = "attach" /\ Dialled
  /\ client = NoClient /\ client' = Head(msgs).c /\ sopen' = sopen \cup {Head(msgs).c}

LEMMA HangsDialled ==
  ASSUME ClientsTyped, NEW c \in Clients, Hangs(c)
  PROVE  Dialled
BY DEF Hangs, Dialled, ClientsTyped

LEMMA ConnectionStep ==
  ASSUME Typed, [Next]_vars
  PROVE  Talks \/ Dials \/ Attaches
<1>1. msgs \in Seq(Msg) /\ ClientsTyped /\ (conn' = conn => Dialled)
  BY DEF Typed, LoopTyped, Dialled
<1>2. CASE Streams
  <2>1. ASSUME NEW i \in Roles, Output(i) PROVE Talks
    BY <1>1, <2>1 DEF Output, Talks, loopVars
  <2>2. ASSUME NEW i \in Roles, StreamEnds(i) PROVE Talks
    <3>1. gen[i] \in Nat
      BY DEF Typed, PanesTyped
    <3>2. PICK m \in Msg : m = [k |-> "closed", i |-> i, g |-> gen[i]]
      BY <3>1, Messages
    <3>3. Said(m) /\ m.k # "attach"
      BY <2>2, <3>2 DEF StreamEnds, Post, Said
    <3>4. QED
      BY <1>1, <2>2, <3>3 DEF StreamEnds, Talks, loopVars
  <2>3. ASSUME NEW h \in held, PostChunk(h) PROVE Talks
    <3>1. h.i \in Roles /\ h.g \in Nat /\ h.n \in Nat
      BY DEF Typed, PanesTyped
    <3>2. PICK m \in Msg : m = [k |-> "output", i |-> h.i, g |-> h.g, n |-> h.n]
      BY <3>1, Messages
    <3>3. Said(m) /\ m.k # "attach"
      BY <2>3, <3>2 DEF PostChunk, Post, Said
    <3>4. QED
      BY <1>1, <2>3, <3>3 DEF PostChunk, Talks, loopVars
  <2>4. QED
    BY <1>2, <2>1, <2>2, <2>3 DEF Streams
<1>3. CASE Gated \/ ReloadAdds \/ \E i \in Roles : Delivered(i) \/ ReloadChanges(i)
  BY <1>1, <1>3 DEF Gated, ReloadAdds, Delivered, ReloadChanges, Talks, handlerRest
<1>4. CASE PaneClosed \/ Answer \/ RestartKey
  BY <1>1, <1>4 DEF PaneClosed, Answer, RestartKey, Talks, handlerRest, Take, Heard
<1>5. CASE Forward \/ ClientGone \/ Detached
  <2>1. Heard /\ Dialled
    BY <1>1, <1>5 DEF Forward, ClientGone, Detached, Take, Heard
  <2>2. Untold \/ Dropped \/ (client' = client /\ sopen' = sopen)
    <3>1. CASE Forward
      <4>1. Untold \/ \E fs : Send(fs)
        BY <3>1 DEF Forward, Untold
      <4>2. QED
        BY <4>1, SendKinds DEF Written, Untold
    <3>2. CASE ClientGone \/ Detached
      BY <3>2 DEF ClientGone, Detached, DropClient, Untold, Dropped
    <3>3. QED
      BY <1>5, <3>1, <3>2
  <2>3. QED
    BY <2>1, <2>2 DEF Talks
<1>6. CASE EnsureTees
  BY <1>1, <1>6 DEF EnsureTees, Talks
<1>7. CASE ResetPane \/ SyncClient \/ Tick
  <2>1. msgs' = msgs /\ Dialled /\ \E fs : Send(fs)
    BY <1>1, <1>7 DEF ResetPane, SyncClient, Tick
  <2>2. QED
    BY <2>1, SendKinds DEF Talks, Written, Untold
<1>8. CASE AttachClient
  <2> DEFINE c == Head(msgs).c
  <2>1. /\ Take("attach")
        /\ Ignored \/ Refused(c) \/ Attached(c)
        /\ UNCHANGED <<paneVars, stateVars, wired, pc, todo, conn, up, clientVars, sent>>
    BY <1>1, AttachKinds, <1>8
  <2>2. Heard /\ Dialled
    BY <1>1, <2>1 DEF Take, Heard
  <2>3. CASE Ignored \/ Refused(c)
    BY <2>2, <2>3 DEF Ignored, Refused, Talks
  <2>4. CASE Attached(c)
    BY <2>1, <2>2, <2>4 DEF Attached, Attaches, Take
  <2>5. QED
    BY <2>1, <2>3, <2>4
<1>9. CASE Readers
  <2>1. PICK c \in Clients : ReadEvent(c) \/ ReadFails(c)
    BY <1>9 DEF Readers
  <2>2. client' = client /\ sopen' = sopen /\ Dialled
    BY <1>1, <2>1 DEF ReadEvent, ReadFails, loopVars
  <2>3. \E m \in Msg : m.k # "attach" /\ Said(m)
    <3>1. CASE ReadEvent(c)
      <4>1. up[c] \in Seq(Event) /\ up[c] # <<>>
        BY <1>1, <3>1 DEF ReadEvent, ClientsTyped
      <4>2. Head(up[c]) \in Event
        BY <4>1
      <4>3. PICK m \in Msg : m = [k |-> "event", ev |-> Head(up[c])]
        BY <4>2, Messages
      <4>4. QED
        BY <3>1, <4>3 DEF ReadEvent, Post, Said
    <3>2. CASE ReadFails(c)
      <4>1. PICK m \in Msg : m = [k |-> "gone", c |-> c]
        BY Messages
      <4>2. QED
        BY <3>2, <4>1 DEF ReadFails, Post, Said
    <3>3. QED
      BY <2>1, <3>1, <3>2
  <2>4. QED
    BY <2>2, <2>3 DEF Talks
<1>10. ASSUME NEW c \in Clients, Client(c) PROVE Talks \/ Dials
  <2>1. CASE Dial(c)
    <3>1. /\ conn[c] = "idle" /\ conn' = [conn EXCEPT ![c] = "dialing"]
          /\ Said([k |-> "attach", c |-> c]) /\ client' = client /\ sopen' = sopen
      BY <2>1 DEF Dial, Post, Said, loopVars
    <3>2. Dialled /\ conn'[c] # "idle"
      BY <1>1, <3>1 DEF Dialled, ClientsTyped
    <3>3. QED
      BY <3>1, <3>2 DEF Dials
  <2>2. CASE Welcomed(c)
    <3>1. Dialled
      BY <1>1, <2>2, WelcomeArrives DEF Dialled, ClientsTyped
    <3>2. QED
      BY <2>2, <3>1 DEF Welcomed, Talks, loopVars
  <2>3. CASE Leaves(c) \/ Detach(c)
    <3>1. Dialled
      BY <1>1, <2>3, HangsDialled DEF Leaves, Detach
    <3>2. QED
      BY <2>3, <3>1 DEF Leaves, Detach, Key, Talks, loopVars
  <2>4. CASE ReadFrame(c) \/ Apply(c) \/ AnswerShown(c) \/ \E i \in Roles : RestartShown(c, i)
    BY <1>1, <2>4 DEF ReadFrame, Apply, AnswerShown, RestartShown, Key, Talks, loopVars
  <2>5. QED
    BY <1>10, <2>1, <2>2, <2>3, <2>4 DEF Client
<1>11. CASE UNCHANGED vars
  BY <1>1, <1>11 DEF vars, Talks, loopVars
<1>12. QED
  BY <1>2, <1>3, <1>4, <1>5, <1>6, <1>7, <1>8, <1>9, <1>10, <1>11 DEF Next, Handlers

\* What the loop hears next, and what stays
LEMMA HeardRest ==
  ASSUME msgs \in Seq(Msg), Heard
  PROVE  /\ msgs' \in Seq(Msg) /\ Head(msgs) = msgs[1] /\ Head(msgs) \in Msg
         /\ DOMAIN msgs = 1 .. Len(msgs) /\ Len(msgs) \in Nat \ {0} /\ Len(msgs') = Len(msgs) - 1
         /\ \A k \in DOMAIN msgs' : k \in Nat /\ k + 1 \in DOMAIN msgs /\ msgs'[k] = msgs[k + 1] /\ k + 1 # 1
BY DEF Heard

LEMMA SaidLast ==
  ASSUME msgs \in Seq(Msg), NEW m \in Msg, Said(m)
  PROVE  /\ DOMAIN msgs' = DOMAIN msgs \cup {Len(msgs) + 1} /\ Len(msgs) + 1 \notin DOMAIN msgs
         /\ msgs'[Len(msgs) + 1] = m
         /\ \A k \in DOMAIN msgs : msgs'[k] = msgs[k]
         /\ Len(msgs) \in Nat /\ Len(msgs') = Len(msgs) + 1
BY DEF Said

LEMMA MessagesTyped == msgs \in Seq(Msg) => \A k \in DOMAIN msgs : msgs[k] \in Msg
OBVIOUS

LEMMA NextOne == Typed /\ OneInv /\ [Next]_vars => OneInv'
<1>1. SUFFICES ASSUME Typed, OneInv, [Next]_vars PROVE OneInv'
  OBVIOUS
<1>2. /\ msgs \in Seq(Msg) /\ sopen \subseteq Clients /\ client \in Clients \cup {NoClient}
      /\ NoClient \notin Clients
      /\ \A k \in DOMAIN msgs : msgs[k].k = "attach" => msgs[k].c \in Clients
  <2>1. msgs \in Seq(Msg)
    BY <1>1 DEF Typed, LoopTyped
  <2>2. \A k \in DOMAIN msgs : msgs[k] \in Msg
    BY <2>1, MessagesTyped
  <2>3. QED
    BY <1>1, <2>1, <2>2, Bounds, MessageFields DEF Typed, LoopTyped
<1>3. CASE Talks
  <2>1. /\ client' = client \/ client' = NoClient
        /\ sopen' \subseteq {client'} /\ Dialled
    BY <1>1, <1>3 DEF Talks, Untold, Dropped, OneInv
  <2>2. client' # NoClient => conn'[client'] # "idle"
    BY <1>1, <1>2, <2>1 DEF Dialled, OneInv
  <2>3. ASSUME NEW k \in DOMAIN msgs'
        PROVE  \/ k \in DOMAIN msgs /\ msgs'[k] = msgs[k]
               \/ k + 1 \in DOMAIN msgs /\ msgs'[k] = msgs[k + 1]
               \/ msgs'[k].k # "attach"
    BY <1>2, <1>3, HeardRest, SaidLast DEF Talks
  <2>4. \A k \in DOMAIN msgs' : msgs'[k].k = "attach" => conn'[msgs'[k].c] # "idle" /\ msgs'[k].c # client'
    BY <1>1, <1>2, <2>1, <2>3 DEF Dialled, OneInv
  <2>5. ASSUME NEW j \in DOMAIN msgs', NEW k \in DOMAIN msgs', msgs'[j].k = "attach",
               msgs'[k].k = "attach", msgs'[j].c = msgs'[k].c
        PROVE  j = k
    <3>1. CASE msgs' = msgs
      BY <1>1, <2>5, <3>1 DEF OneInv
    <3>2. CASE Heard
      <4>1. /\ j \in Nat /\ j + 1 \in DOMAIN msgs /\ msgs'[j] = msgs[j + 1]
            /\ k \in Nat /\ k + 1 \in DOMAIN msgs /\ msgs'[k] = msgs[k + 1]
        BY <1>2, <2>5, <3>2, HeardRest
      <4>2. j + 1 = k + 1
        BY <1>1, <2>5, <4>1 DEF OneInv
      <4>3. QED
        BY <4>1, <4>2
    <3>3. CASE \E m \in Msg : m.k # "attach" /\ Said(m)
      BY <1>1, <1>2, <2>5, <3>3, SaidLast DEF OneInv
    <3>4. QED
      BY <1>3, <3>1, <3>2, <3>3 DEF Talks
  <2>6. QED
    BY <2>1, <2>2, <2>4, <2>5 DEF OneInv
<1>4. CASE Dials
  <2>1. PICK c \in Clients : /\ conn[c] = "idle" /\ Dialled /\ conn'[c] # "idle"
                             /\ Said([k |-> "attach", c |-> c])
                             /\ client' = client /\ sopen' = sopen
    BY <1>4 DEF Dials
  <2>2. PICK m \in Msg : m = [k |-> "attach", c |-> c]
    BY Messages
  <2>3. m.c = c /\ Said(m)
    BY <2>1, <2>2
  <2>4. /\ DOMAIN msgs' = DOMAIN msgs \cup {Len(msgs) + 1}
        /\ msgs'[Len(msgs) + 1] = m
        /\ \A k \in DOMAIN msgs : msgs'[k] = msgs[k]
    BY <1>2, <2>3, SaidLast
  <2>5. c # client
    BY <1>1, <1>2, <2>1 DEF OneInv
  <2>6. \A k \in DOMAIN msgs : msgs[k].k = "attach" => msgs[k].c # c
    BY <1>1, <2>1 DEF OneInv
  <2>7. \A k \in DOMAIN msgs' : msgs'[k].k = "attach" => conn'[msgs'[k].c] # "idle" /\ msgs'[k].c # client'
    BY <1>1, <1>2, <2>1, <2>3, <2>4, <2>5 DEF OneInv, Dialled
  <2>8. \A j, k \in DOMAIN msgs' :
          msgs'[j].k = "attach" /\ msgs'[k].k = "attach" /\ msgs'[j].c = msgs'[k].c => j = k
    BY <1>1, <2>3, <2>4, <2>6 DEF OneInv
  <2>9. client' # NoClient => conn'[client'] # "idle"
    BY <1>1, <1>2, <2>1 DEF OneInv, Dialled
  <2>10. QED
    BY <1>1, <2>1, <2>7, <2>8, <2>9 DEF OneInv
<1>5. CASE Attaches
  <2> DEFINE c == Head(msgs).c
  <2>1. /\ Heard /\ msgs[1].k = "attach" /\ Dialled /\ c = msgs[1].c /\ 1 \in DOMAIN msgs
        /\ client = NoClient /\ client' = c /\ sopen' = sopen \cup {c}
    BY <1>2, <1>5, HeardRest DEF Attaches
  <2>2. c \in Clients /\ conn'[c] # "idle"
    BY <1>1, <1>2, <2>1 DEF OneInv, Dialled
  <2>3. sopen = {}
    BY <1>1, <1>2, <2>1 DEF OneInv
  <2> HIDE DEF c
  <2>4. ASSUME NEW k \in DOMAIN msgs', msgs'[k].k = "attach"
        PROVE  conn'[msgs'[k].c] # "idle" /\ msgs'[k].c # client'
    <3>1. k + 1 \in DOMAIN msgs /\ msgs'[k] = msgs[k + 1] /\ k + 1 # 1
      BY <1>2, <2>1, HeardRest
    <3>2. msgs[k + 1].c # msgs[1].c
      BY <1>1, <2>1, <2>4, <3>1 DEF OneInv
    <3>3. QED
      BY <1>1, <1>2, <2>1, <2>4, <3>1, <3>2 DEF OneInv, Dialled
  <2>5. ASSUME NEW j \in DOMAIN msgs', NEW k \in DOMAIN msgs', msgs'[j].k = "attach",
               msgs'[k].k = "attach", msgs'[j].c = msgs'[k].c
        PROVE  j = k
    <3>1. /\ j \in Nat /\ j + 1 \in DOMAIN msgs /\ msgs'[j] = msgs[j + 1]
          /\ k \in Nat /\ k + 1 \in DOMAIN msgs /\ msgs'[k] = msgs[k + 1]
      BY <1>2, <2>1, HeardRest
    <3>2. j + 1 = k + 1
      BY <1>1, <2>5, <3>1 DEF OneInv
    <3>3. QED
      BY <3>1, <3>2
  <2>6. QED
    BY <2>1, <2>2, <2>3, <2>4, <2>5 DEF OneInv
<1>6. QED
  BY <1>1, <1>3, <1>4, <1>5, ConnectionStep

LEMMA InitOne == Init => OneInv
<1>1. SUFFICES ASSUME Init PROVE OneInv
  OBVIOUS
<1>2. DOMAIN msgs = {} /\ client = NoClient /\ sopen = {}
  BY <1>1 DEF Init
<1>3. QED
  BY <1>2 DEF OneInv

\* At most one connection is attached, and the server holds no other open
\* (attachClient, dropClient), however hellos, reads, failures and detaches race.
THEOREM OneClientAtATime == Spec => []OneClient
<1>1. Typed /\ OneInv /\ [Next]_vars => (Typed /\ OneInv)'
  BY NextTyped, NextOne
<1>2. OneInv => OneClient
  BY DEF OneInv, OneClient
<1>3. QED
  BY <1>1, <1>2, InitTyped, InitOne, PTL DEF Spec

-----------------------------------------------------------------------------
(* The mirror *)

\* The frames that carry the deck's state, and whether the last of them says s and gs
News(ds) == {k \in DOMAIN ds : ds[k].k \in {"welcome", "state"}}
Newest(ds, s, gs) ==
  \E k \in News(ds) : ds[k].size = s /\ ds[k].gates = gs /\ \A j \in News(ds) : j <= k

\* A key of the client c, or another client's, is on its way to the loop, which
\* syncs once it has handled it.
Pressed(c) == up[c] # <<>> \/ \E k \in DOMAIN msgs : msgs[k].k = "event"

\* The newest state is on the wire, or in the update loop of c, or on its screen.
Mirror(c) ==
  \/ Newest(down[c], size, gates)
  \/ News(down[c]) = {} /\ upd[c] # NoFrame /\ upd[c].size = size /\ upd[c].gates = gates
  \/ News(down[c]) = {} /\ upd[c] = NoFrame /\ ((shown[c] = gates /\ known[c] = size) \/ Pressed(c))

MirrorInv ==
  /\ \A c \in Clients : upd[c] # NoFrame => conn[c] = "live"
  /\ \A c \in Clients : c = client /\ Reached(c) /\ pc = "idle" => Mirror(c)

LEMMA NewsAppend ==
  ASSUME NEW ds \in Seq(Frame), NEW f \in Frame
  PROVE  /\ f.k \in {"welcome", "state"} => Newest(Append(ds, f), f.size, f.gates)
         /\ f.k \notin {"welcome", "state"} =>
              /\ News(ds) = {} => News(Append(ds, f)) = {}
              /\ \A s, gs : Newest(ds, s, gs) => Newest(Append(ds, f), s, gs)
<1> DEFINE es == Append(ds, f)
           n == Len(ds) + 1
<1>1. /\ DOMAIN es = DOMAIN ds \cup {n} /\ n \in Nat /\ es[n] = f
      /\ \A k \in DOMAIN ds : es[k] = ds[k] /\ k \in Nat /\ k <= n
  OBVIOUS
<1> HIDE DEF es, n
<1>2. CASE f.k \in {"welcome", "state"}
  <2>1. n \in News(es) /\ \A j \in News(es) : j <= n
    BY <1>1, <1>2 DEF News
  <2>2. Newest(es, f.size, f.gates)
    BY <1>1, <2>1 DEF Newest
  <2>3. QED
    BY <1>2, <2>2 DEF es
<1>3. CASE f.k \notin {"welcome", "state"}
  <2>1. News(es) = News(ds)
    BY <1>1, <1>3 DEF News
  <2>2. \A k \in News(ds) : es[k] = ds[k]
    BY <1>1 DEF News
  <2>3. QED
    BY <1>3, <2>1, <2>2 DEF Newest, es
<1>4. QED
  BY <1>2, <1>3

LEMMA NewsTail ==
  ASSUME NEW ds \in Seq(Frame), ds # <<>>
  PROVE  LET f == Head(ds)
         IN /\ f \in Frame
            /\ News(ds) = {} => News(Tail(ds)) = {}
            /\ f.k \notin {"welcome", "state"} =>
                 \A s, gs : Newest(ds, s, gs) => Newest(Tail(ds), s, gs)
            /\ f.k \in {"welcome", "state"} =>
                 /\ News(ds) # {}
                 /\ \A s, gs : Newest(ds, s, gs) =>
                      \/ Newest(Tail(ds), s, gs)
                      \/ News(Tail(ds)) = {} /\ f.size = s /\ f.gates = gs
<1> DEFINE es == Tail(ds)
           f == Head(ds)
<1>1. /\ f \in Frame /\ f = ds[1] /\ 1 \in DOMAIN ds
      /\ \A k \in DOMAIN es : k \in Nat /\ k + 1 \in DOMAIN ds /\ es[k] = ds[k + 1]
      /\ \A k \in DOMAIN ds : k \in Nat /\ (k = 1 \/ (k - 1 \in DOMAIN es /\ es[k - 1] = ds[k] /\ k - 1 \in Nat))
  OBVIOUS
<1> HIDE DEF es, f
<1>2. \A k \in News(es) : k \in Nat /\ k + 1 \in News(ds) /\ es[k] = ds[k + 1]
  BY <1>1 DEF News
<1>3. \A k \in News(ds) : k \in Nat /\ (k = 1 \/ (k - 1 \in News(es) /\ es[k - 1] = ds[k] /\ k - 1 \in Nat))
  BY <1>1 DEF News
<1>4. ASSUME NEW s, NEW gs, Newest(ds, s, gs)
      PROVE  Newest(es, s, gs) \/ (News(es) = {} /\ 1 \in News(ds) /\ f.size = s /\ f.gates = gs)
  <2>1. PICK k \in News(ds) : ds[k].size = s /\ ds[k].gates = gs /\ \A j \in News(ds) : j <= k
    BY <1>4 DEF Newest
  <2>2. CASE k = 1
    <3>1. \A j \in News(es) : j \in Nat /\ j + 1 <= 1 /\ j \in DOMAIN es
      BY <1>2, <2>1, <2>2 DEF News
    <3>2. \A j \in DOMAIN es : j >= 1
      BY DEF es
    <3>3. News(es) = {}
      BY <3>1, <3>2
    <3>4. QED
      BY <1>1, <2>1, <2>2, <3>3
  <2>3. CASE k # 1
    <3>1. k - 1 \in News(es) /\ es[k - 1] = ds[k] /\ k - 1 \in Nat /\ k \in Nat
      BY <1>3, <2>3
    <3>2. \A j \in News(es) : j <= k - 1
      BY <1>2, <2>1, <3>1
    <3>3. QED
      BY <2>1, <3>1, <3>2 DEF Newest
  <2>4. QED
    BY <2>2, <2>3
<1>5. 1 \in News(ds) <=> f.k \in {"welcome", "state"}
  BY <1>1 DEF News
<1>6. News(ds) = {} => News(es) = {}
  BY <1>2
<1>7. QED
  BY <1>1, <1>4, <1>5, <1>6 DEF es, f

\* A key that was pressed is pressed until the loop has taken it.
LEMMA EventsStay ==
  ASSUME msgs \in Seq(Msg), \E k \in DOMAIN msgs : msgs[k].k = "event",
         \/ msgs' = msgs
         \/ Heard /\ Head(msgs).k # "event"
         \/ \E m \in Msg : Said(m)
  PROVE  \E k \in DOMAIN msgs' : msgs'[k].k = "event"
<1>1. PICK k \in DOMAIN msgs : msgs[k].k = "event"
  OBVIOUS
<1>2. CASE Heard /\ Head(msgs).k # "event"
  <2>1. k # 1 /\ k \in Nat
    BY <1>1, <1>2, HeardRest
  <2>2. k - 1 \in DOMAIN msgs' /\ msgs'[k - 1] = msgs[k]
    BY <1>1, <1>2, <2>1 DEF Heard
  <2>3. QED
    BY <1>1, <2>2
<1>3. CASE \E m \in Msg : Said(m)
  BY <1>1, <1>3, SaidLast
<1>4. QED
  BY <1>1, <1>2, <1>3

LEMMA MirrorKept ==
  ASSUME NEW c \in Clients, Mirror(c), size' = size, gates' = gates,
         News(down[c]) = {} => News(down'[c]) = {},
         Newest(down[c], size, gates) => Newest(down'[c], size, gates),
         upd'[c] = upd[c], known'[c] = known[c], shown'[c] = shown[c],
         Pressed(c) => Pressed(c)'
  PROVE  Mirror(c)'
BY DEF Mirror

\* Only a live client has an update loop.
LEMMA NextUpdating ==
  ASSUME Typed, MirrorInv, [Next]_vars
  PROVE  \A c \in Clients : upd'[c] # NoFrame => conn'[c] = "live"
<1>1. /\ conn \in [Clients -> {"idle", "dialing", "live", "closed"}]
      /\ upd \in [Clients -> StateFrame \cup {NoFrame}] /\ ClientsTyped /\ msgs \in Seq(Msg)
      /\ \A c \in Clients : upd[c] # NoFrame => conn[c] = "live"
  BY DEF Typed, LoopTyped, ClientsTyped, MirrorInv
<1>2. CASE conn' = conn /\ upd' = upd
  BY <1>1, <1>2
<1>3. ASSUME NEW c \in Clients, Client(c) PROVE \A d \in Clients : upd'[d] # NoFrame => conn'[d] = "live"
  <2>1. CASE Dial(c)
    BY <1>1, <2>1 DEF Dial, clientVars
  <2>2. CASE Welcomed(c)
    BY <1>1, <2>2 DEF Welcomed
  <2>3. CASE Leaves(c) \/ Detach(c)
    BY <1>1, <2>3 DEF Leaves, Detach, Hangs
  <2>4. CASE ReadFrame(c)
    <3>1. /\ conn[c] = "live" /\ conn' = conn
          /\ upd' = upd \/ \E f : upd' = [upd EXCEPT ![c] = f]
      BY <1>1, <2>4 DEF ReadFrame
    <3>2. QED
      BY <1>1, <3>1
  <2>5. CASE Apply(c)
    BY <1>1, <2>5 DEF Apply
  <2>6. CASE AnswerShown(c) \/ \E i \in Roles : RestartShown(c, i)
    BY <1>2, <2>6 DEF AnswerShown, RestartShown, clientVars
  <2>7. QED
    BY <1>3, <2>1, <2>2, <2>3, <2>4, <2>5, <2>6 DEF Client
<1>4. CASE Streams \/ Readers \/ UNCHANGED vars
  BY <1>2, <1>4 DEF Streams, Readers, Output, StreamEnds, PostChunk, ReadEvent, ReadFails, vars, clientVars
<1>5. CASE Handlers
  <2>1. AttachClient => conn' = conn /\ upd' = upd
    BY DEF AttachClient, clientVars
  <2>2. conn' = conn /\ upd' = upd
    BY <1>5, <2>1 DEF Handlers, Gated, ReloadAdds, Delivered, ReloadChanges, Forward, PaneClosed, ClientGone,
       Answer, RestartKey, Detached, EnsureTees, ResetPane, SyncClient, Tick, handlerRest, clientVars
  <2>3. QED
    BY <1>2, <2>2
<1>6. QED
  BY <1>3, <1>4, <1>5 DEF Next

\* What the loop writes to its client leaves the mirror as it is, or is the newest state.
LEMMA LoopMirror ==
  ASSUME Typed, OneInv, MirrorInv, NEW c \in Clients, client' = c, Reached(c)', pc' = "idle", Handlers
  PROVE  Mirror(c)'
<1>1. /\ msgs \in Seq(Msg) /\ down \in [Clients -> Seq(Frame)] /\ down[c] \in Seq(Frame)
      /\ size \in Nat /\ gates \in Seq(Nat) /\ c # NoClient /\ gen \in [Roles -> Nat] /\ out \in [Roles -> Nat]
  BY Bounds DEF Typed, PanesTyped, LoopTyped, ClientsTyped
<1>2. conn' = conn => Reached(c)
  BY DEF Reached
<1>3. client = c /\ conn' = conn /\ pc = "idle" => Mirror(c)
  BY <1>2 DEF MirrorInv
<1>4. ASSUME up' = up, \/ msgs' = msgs
                       \/ Heard /\ Head(msgs).k # "event"
      PROVE  Pressed(c) => Pressed(c)'
  BY <1>1, <1>4, EventsStay DEF Pressed
<1>5. CASE Gated \/ ReloadAdds \/ (\E i \in Roles : Delivered(i) \/ ReloadChanges(i))
           \/ Answer \/ RestartKey \/ EnsureTees \/ ResetPane
  BY <1>5 DEF Gated, ReloadAdds, Delivered, ReloadChanges, Answer, RestartKey, EnsureTees, ResetPane, Settle, WireAndSettle
<1>6. CASE PaneClosed
  <2>1. /\ Take("closed") /\ UNCHANGED <<paneVars, pc, stateVars, handlerRest>>
    BY <1>6 DEF PaneClosed, WireAndSettle
  <2>2. Heard /\ Head(msgs).k # "event"
    BY <2>1 DEF Take, Heard
  <2>3. client = c /\ UNCHANGED <<conn, pc, down, up, upd, known, shown, size, gates>>
    BY <2>1 DEF handlerRest, paneVars, stateVars, clientVars
  <2>4. Pressed(c) => Pressed(c)'
    BY <1>4, <2>2, <2>3
  <2>5. QED
    BY <1>3, <2>3, <2>4, MirrorKept
<1>7. CASE Forward
  <2> DEFINE m == Head(msgs)
             f == [k |-> "output", i |-> m.i, g |-> m.g, n |-> m.n]
  <2>1. /\ Take("output") /\ (Send(<<f>>) \/ Untold)
        /\ UNCHANGED <<conn, pc, up, upd, known, shown, size, gates>>
    BY <1>7 DEF Forward, Untold, paneVars, stateVars, clientVars
  <2>2. m \in Msg /\ m.k = "output" /\ Heard /\ pc = "idle"
    BY <1>1, <2>1, TakeTyped DEF Heard
  <2>3. f \in Frame /\ f.k = "output"
    BY <2>2, MessageFields, Frames
  <2> HIDE DEF f
  <2>4. Pressed(c) => Pressed(c)'
    BY <1>4, <2>1, <2>2
  <2>5. client = c /\ (down' = down \/ down' = [down EXCEPT ![c] = @ \o <<f>>])
    BY <1>1, <2>1, SendKinds DEF Untold, Dropped, Written
  <2>6. down'[c] = down[c] \/ down'[c] = Append(down[c], f)
    BY <1>1, <2>3, <2>5
  <2>7. /\ News(down[c]) = {} => News(down'[c]) = {}
        /\ Newest(down[c], size, gates) => Newest(down'[c], size, gates)
    BY <1>1, <2>3, <2>6, NewsAppend
  <2>8. QED
    BY <1>3, <2>1, <2>2, <2>4, <2>5, <2>7, MirrorKept
<1>8. CASE ClientGone
  <2>1. /\ Take("gone") /\ client = c /\ UNCHANGED <<conn, pc, down, up, upd, known, shown, size, gates>>
    BY <1>1, <1>8 DEF ClientGone, DropClient, paneVars, stateVars, clientVars
  <2>2. Heard /\ Head(msgs).k # "event" /\ pc = "idle"
    BY <2>1 DEF Take, Heard, Idle
  <2>3. Pressed(c) => Pressed(c)'
    BY <1>4, <2>1, <2>2
  <2>4. QED
    BY <1>3, <2>1, <2>2, <2>3, MirrorKept
<1>9. CASE Detached
  BY <1>1, <1>9 DEF Detached, DropClient
<1>10. CASE SyncClient \/ Tick
  <2> DEFINE f == [k |-> "state", size |-> size, gates |-> gates]
  <2>1. Send(<<f>>) /\ UNCHANGED <<size, gates>>
    BY <1>10 DEF SyncClient, Tick, StateFrames, paneVars, stateVars
  <2>2. f \in Frame /\ f.k = "state" /\ f.size = size /\ f.gates = gates
    BY <1>1, Frames
  <2> HIDE DEF f
  <2>3. client = c /\ down' = [down EXCEPT ![c] = @ \o <<f>>]
    BY <1>1, <2>1, SendKinds DEF Untold, Dropped, Written
  <2>4. down'[c] = Append(down[c], f)
    BY <1>1, <2>2, <2>3
  <2>5. Newest(down'[c], size', gates')
    BY <1>1, <2>1, <2>2, <2>4, NewsAppend
  <2>6. QED
    BY <2>5 DEF Mirror
<1>11. CASE AttachClient
  <2> DEFINE d == Head(msgs).c
  <2>1. /\ d \in Clients /\ Take("attach")
        /\ Ignored \/ Refused(d) \/ Attached(d)
        /\ UNCHANGED <<paneVars, stateVars, wired, pc, todo, conn, up, clientVars, sent>>
    BY <1>1, <1>11, AttachKinds
  <2>2. /\ UNCHANGED <<size, gates, pc, conn, up, upd, known, shown>>
        /\ Heard /\ Head(msgs).k # "event" /\ pc = "idle"
    BY <2>1 DEF paneVars, stateVars, clientVars, Take, Heard, Idle
  <2>3. Pressed(c) => Pressed(c)'
    BY <1>4, <2>2
  <2>4. CASE Ignored \/ Refused(d)
    <3>1. client = c
      BY <2>4 DEF Ignored, Refused
    <3>2. d # c
      BY <1>1, <2>1, <2>2, <3>1, HeardRest DEF OneInv, Take
    <3> HIDE DEF d
    <3>3. down'[c] = down[c]
      BY <1>1, <2>1, <2>4, <3>2 DEF Ignored, Refused
    <3>4. QED
      BY <1>3, <2>2, <2>3, <3>1, <3>3, MirrorKept
  <2>5. CASE Attached(d)
    <3>1. d = c /\ down' = [down EXCEPT ![c] = <<WelcomeFrame>>]
      BY <2>5 DEF Attached
    <3>2. WelcomeFrame \in Frame /\ WelcomeFrame.k = "welcome" /\ WelcomeFrame.size = size /\ WelcomeFrame.gates = gates
      <4>1. Rings \in [Roles -> Ring]
        BY <1>1 DEF Rings, Ring
      <4>2. QED
        BY <1>1, <4>1, Frames DEF WelcomeFrame
    <3>3. down'[c] = Append(<<>>, WelcomeFrame)
      BY <1>1, <3>1
    <3>4. Newest(down'[c], size, gates)
      <4>1. <<>> \in Seq(Frame)
        OBVIOUS
      <4>2. QED
        BY <3>2, <3>3, <4>1, NewsAppend
    <3>5. QED
      BY <2>2, <3>4 DEF Mirror
  <2>6. QED
    BY <2>1, <2>4, <2>5
<1>12. QED
  BY <1>5, <1>6, <1>7, <1>8, <1>9, <1>10, <1>11 DEF Handlers

\* A stream or a reader adds to what the loop is told.
LEMMA PostMirror ==
  ASSUME Typed, MirrorInv, NEW c \in Clients, client' = c, Reached(c)', pc' = "idle", Streams \/ Readers
  PROVE  Mirror(c)'
<1>1. msgs \in Seq(Msg) /\ up \in [Clients -> Seq(Event)] /\ gen \in [Roles -> Nat] /\ held \subseteq [i : Roles, g : Nat, n : Nat]
  BY DEF Typed, PanesTyped, LoopTyped, ClientsTyped
<1>2. UNCHANGED <<client, pc, conn, down, upd, known, shown, size, gates>>
  BY DEF Streams, Readers, Output, StreamEnds, PostChunk, ReadEvent, ReadFails, loopVars, stateVars, clientVars, paneVars
<1>3. Mirror(c)
  BY <1>2 DEF MirrorInv, Reached
<1>4. CASE Streams
  <2>1. up' = up
    BY <1>4 DEF Streams, Output, StreamEnds, PostChunk
  <2>2. msgs' = msgs \/ \E m \in Msg : Said(m)
    <3>1. ASSUME NEW i \in Roles, StreamEnds(i) PROVE \E m \in Msg : Said(m)
      BY <1>1, <3>1, Messages DEF StreamEnds, Post, Said
    <3>2. ASSUME NEW h \in held, PostChunk(h) PROVE \E m \in Msg : Said(m)
      <4>1. h.i \in Roles /\ h.g \in Nat /\ h.n \in Nat
        BY <1>1
      <4>2. QED
        BY <3>2, <4>1, Messages DEF PostChunk, Post, Said
    <3>3. QED
      BY <1>4, <3>1, <3>2 DEF Streams, Output
  <2>3. Pressed(c) => Pressed(c)'
    BY <1>1, <2>1, <2>2, EventsStay DEF Pressed
  <2>4. QED
    BY <1>2, <1>3, <2>3, MirrorKept
<1>5. CASE Readers
  <2>1. PICK d \in Clients : ReadEvent(d) \/ ReadFails(d)
    BY <1>5 DEF Readers
  <2>2. CASE ReadEvent(d)
    <3>1. up[d] \in Seq(Event) /\ up[d] # <<>> /\ Head(up[d]) \in Event
      BY <1>1, <2>2 DEF ReadEvent
    <3>2. PICK m \in Msg : m = [k |-> "event", ev |-> Head(up[d])]
      BY <3>1, Messages
    <3>3. Said(m) /\ m.k = "event"
      BY <2>2, <3>2 DEF ReadEvent, Post, Said
    <3>4. Pressed(c)'
      BY <1>1, <3>3, SaidLast DEF Pressed
    <3>5. QED
      BY <1>2, <1>3, <3>4, MirrorKept
  <2>3. CASE ReadFails(d)
    <3>1. \E m \in Msg : Said(m)
      BY <2>3, Messages DEF ReadFails, Post, Said
    <3>2. up' = up
      BY <2>3 DEF ReadFails
    <3>3. Pressed(c) => Pressed(c)'
      BY <1>1, <3>1, <3>2, EventsStay DEF Pressed
    <3>4. QED
      BY <1>2, <1>3, <3>3, MirrorKept
  <2>4. QED
    BY <2>1, <2>2, <2>3
<1>6. QED
  BY <1>4, <1>5

\* The client moves the newest state on, or answers what it shows.
LEMMA ClientMirror ==
  ASSUME Typed, OneInv, MirrorInv, NEW c \in Clients, client' = c, Reached(c)', pc' = "idle",
         NEW d \in Clients, Client(d)
  PROVE  Mirror(c)'
<1>1. /\ msgs \in Seq(Msg) /\ up \in [Clients -> Seq(Event)] /\ ClientsTyped /\ c # NoClient
      /\ conn \in [Clients -> {"idle", "dialing", "live", "closed"}]
      /\ down \in [Clients -> Seq(Frame)] /\ down[d] \in Seq(Frame)
      /\ upd \in [Clients -> StateFrame \cup {NoFrame}]
      /\ known \in [Clients -> Nat] /\ shown \in [Clients -> Seq(Nat)]
      /\ \A e \in Clients : upd[e] # NoFrame => conn[e] = "live"
  BY Bounds DEF Typed, LoopTyped, ClientsTyped, MirrorInv
<1>2. UNCHANGED <<client, pc, size, gates>>
  BY DEF Client, Dial, Welcomed, Leaves, ReadFrame, Apply, AnswerShown, Detach, RestartShown, Key, loopVars, stateVars, paneVars
<1>3. msgs' = msgs \/ \E m \in Msg : Said(m)
  <2>1. Dial(d) => \E m \in Msg : Said(m)
    BY Messages DEF Dial, Post, Said
  <2>2. QED
    BY <2>1 DEF Client, Welcomed, Leaves, ReadFrame, Apply, AnswerShown, Detach, RestartShown, Key
<1>4. up'[c] = up[c] => (Pressed(c) => Pressed(c)')
  BY <1>1, <1>3, EventsStay DEF Pressed
<1>5. conn'[c] = conn[c] => Mirror(c)
  BY <1>2 DEF MirrorInv, Reached
<1>6. client = c /\ pc = "idle" /\ c # NoClient
  BY <1>1, <1>2
<1>7. CASE Dial(d)
  <2>1. /\ conn[d] = "idle" /\ conn' = [conn EXCEPT ![d] = "dialing"]
        /\ UNCHANGED <<down, up, upd, known, shown>>
    BY <1>7 DEF Dial, clientVars
  <2>2. c # d
    BY <1>6, <2>1 DEF OneInv
  <2>3. conn'[c] = conn[c]
    BY <1>1, <2>1, <2>2
  <2>4. QED
    BY <1>2, <1>4, <1>5, <2>1, <2>3, MirrorKept
<1>8. CASE Leaves(d) \/ Detach(d)
  <2>1. /\ conn' = [conn EXCEPT ![d] = "closed"]
        /\ down' = [down EXCEPT ![d] = <<>>] /\ known' = [known EXCEPT ![d] = 0]
        /\ shown' = [shown EXCEPT ![d] = <<>>] /\ upd' = [upd EXCEPT ![d] = NoFrame]
        /\ up' = up \/ \E ev : up' = [up EXCEPT ![d] = Append(@, ev)]
    BY <1>8 DEF Leaves, Detach, Hangs, Key
  <2>2. c # d
    BY <1>1, <2>1 DEF Reached
  <2>3. conn'[c] = conn[c] /\ down'[c] = down[c] /\ known'[c] = known[c] /\ shown'[c] = shown[c] /\ upd'[c] = upd[c]
    BY <1>1, <2>1, <2>2
  <2>4. up'[c] = up[c]
    BY <1>1, <2>1, <2>2
  <2>5. QED
    BY <1>2, <1>4, <1>5, <2>3, <2>4, MirrorKept
<1>9. CASE Welcomed(d)
  <2> DEFINE f == Head(down[d])
  <2>1. /\ conn[d] = "dialing" /\ f.k = "welcome"
        /\ down[d] # <<>> /\ down' = [down EXCEPT ![d] = Tail(@)]
        /\ conn' = [conn EXCEPT ![d] = "live"]
        /\ known' = [known EXCEPT ![d] = f.size] /\ shown' = [shown EXCEPT ![d] = f.gates]
        /\ UNCHANGED <<up, upd>>
    BY <1>9 DEF Welcomed
  <2>2. /\ f \in Frame
        /\ \A s, gs : Newest(down[d], s, gs) =>
             \/ Newest(Tail(down[d]), s, gs)
             \/ News(Tail(down[d])) = {} /\ f.size = s /\ f.gates = gs
        /\ News(down[d]) # {}
    BY <1>1, <2>1, NewsTail
  <2> HIDE DEF f
  <2>3. CASE c # d
    <3>1. /\ conn'[c] = conn[c] /\ down'[c] = down[c] /\ known'[c] = known[c] /\ shown'[c] = shown[c]
          /\ upd'[c] = upd[c] /\ up'[c] = up[c]
      BY <1>1, <2>1, <2>3
    <3>2. QED
      BY <1>2, <1>4, <1>5, <3>1, MirrorKept
  <2>4. CASE c = d
    <3>1. /\ down'[c] = Tail(down[c]) /\ known'[c] = f.size /\ shown'[c] = f.gates
          /\ upd'[c] = NoFrame
      BY <1>1, <2>1, <2>4
    <3>2. Mirror(c)
      BY <1>6, <2>1, <2>4 DEF MirrorInv, Reached
    <3>3. Newest(down[c], size, gates)
      BY <2>2, <2>4, <3>2 DEF Mirror
    <3>4. Newest(down'[c], size, gates) \/ (News(down'[c]) = {} /\ f.size = size /\ f.gates = gates)
      BY <2>2, <2>4, <3>1, <3>3
    <3>5. QED
      BY <1>2, <3>1, <3>4 DEF Mirror
  <2>5. QED
    BY <2>3, <2>4
<1>10. CASE ReadFrame(d)
  <2> DEFINE f == Head(down[d])
  <2>1. /\ f.k \in {"ring", "output", "reset", "state"}
        /\ down[d] # <<>> /\ down' = [down EXCEPT ![d] = Tail(@)]
        /\ upd' = IF f.k = "state" THEN [upd EXCEPT ![d] = f] ELSE upd
        /\ f.k = "state" => upd[d] = NoFrame
        /\ UNCHANGED <<conn, up, known, shown>>
    <3>1. UNCHANGED <<conn, up, known, shown>>
      BY <1>10 DEF ReadFrame
    <3>2. QED
      BY <1>1, <1>10, <3>1, ReadArrives
  <2>2. /\ f \in Frame
        /\ News(down[d]) = {} => News(Tail(down[d])) = {}
        /\ f.k \notin {"welcome", "state"} =>
             \A s, gs : Newest(down[d], s, gs) => Newest(Tail(down[d]), s, gs)
        /\ f.k \in {"welcome", "state"} =>
             /\ News(down[d]) # {}
             /\ \A s, gs : Newest(down[d], s, gs) =>
                  \/ Newest(Tail(down[d]), s, gs)
                  \/ News(Tail(down[d])) = {} /\ f.size = s /\ f.gates = gs
    BY <1>1, <2>1, NewsTail
  <2>3. f # NoFrame
    BY <2>2, FrameFields
  <2> HIDE DEF f
  <2>4. Mirror(c) /\ (Pressed(c) => Pressed(c)')
    BY <1>4, <1>5, <2>1
  <2>5. CASE c # d
    <3>1. /\ down'[c] = down[c] /\ upd'[c] = upd[c]
      BY <1>1, <2>1, <2>5
    <3>2. QED
      BY <1>2, <2>1, <2>4, <3>1, MirrorKept
  <2>6. CASE c = d /\ f.k # "state"
    <3>1. down'[c] = Tail(down[c]) /\ upd'[c] = upd[c]
      BY <1>1, <2>1, <2>6
    <3>2. /\ News(down[c]) = {} => News(down'[c]) = {}
          /\ Newest(down[c], size, gates) => Newest(down'[c], size, gates)
      BY <2>1, <2>2, <2>6, <3>1
    <3>3. QED
      BY <1>2, <2>1, <2>4, <3>1, <3>2, MirrorKept
  <2>7. CASE c = d /\ f.k = "state"
    <3>1. down'[c] = Tail(down[c]) /\ upd'[c] = f
      BY <1>1, <2>1, <2>7
    <3>2. Newest(down[c], size, gates)
      BY <2>2, <2>4, <2>7 DEF Mirror
    <3>3. Newest(down'[c], size, gates) \/ (News(down'[c]) = {} /\ f.size = size /\ f.gates = gates)
      BY <2>2, <2>7, <3>1, <3>2
    <3>4. QED
      BY <1>2, <2>3, <3>1, <3>3 DEF Mirror
  <2>8. QED
    BY <2>5, <2>6, <2>7
<1>11. CASE Apply(d)
  <2>1. /\ upd[d] # NoFrame /\ upd' = [upd EXCEPT ![d] = NoFrame]
        /\ known' = [known EXCEPT ![d] = upd[d].size] /\ shown' = [shown EXCEPT ![d] = upd[d].gates]
        /\ UNCHANGED <<conn, down, up>>
    BY <1>11 DEF Apply
  <2>2. Mirror(c) /\ (Pressed(c) => Pressed(c)')
    BY <1>4, <1>5, <2>1
  <2>3. CASE c # d
    <3>1. upd'[c] = upd[c] /\ known'[c] = known[c] /\ shown'[c] = shown[c]
      BY <1>1, <2>1, <2>3
    <3>2. QED
      BY <1>2, <2>1, <2>2, <3>1, MirrorKept
  <2>4. CASE c = d
    <3>1. upd'[c] = NoFrame /\ known'[c] = upd[c].size /\ shown'[c] = upd[c].gates
      BY <1>1, <2>1, <2>4
    <3>2. QED
      BY <1>2, <2>1, <2>2, <2>4, <3>1 DEF Mirror
  <2>5. QED
    BY <2>3, <2>4
<1>12. CASE AnswerShown(d) \/ \E i \in Roles : RestartShown(d, i)
  <2>1. /\ upd[d] = NoFrame /\ \E ev : up' = [up EXCEPT ![d] = Append(@, ev)]
        /\ UNCHANGED <<conn, down, upd, known>>
        /\ shown' = shown \/ \E gs : shown' = [shown EXCEPT ![d] = gs]
    BY <1>12 DEF AnswerShown, RestartShown, Key, clientVars
  <2>2. Mirror(c)
    BY <1>5, <2>1
  <2>3. CASE c # d
    <3>1. up'[c] = up[c] /\ shown'[c] = shown[c]
      BY <1>1, <2>1, <2>3
    <3>2. QED
      BY <1>2, <1>4, <2>1, <2>2, <3>1, MirrorKept
  <2>4. CASE c = d
    <3>1. up'[c] # <<>>
      <4>1. PICK ev : up' = [up EXCEPT ![d] = Append(@, ev)]
        BY <2>1
      <4>2. up'[c] = Append(up[c], ev)
        BY <1>1, <2>4, <4>1
      <4>3. up[c] \in Seq(Event \cup {ev})
        BY <1>1
      <4>4. Len(Append(up[c], ev)) = Len(up[c]) + 1 /\ Len(up[c]) \in Nat
        BY <4>3
      <4>5. Append(up[c], ev) # <<>>
        <5>1. Append(up[c], ev) = <<>> => Len(Append(up[c], ev)) = 0
          OBVIOUS
        <5>2. QED
          BY <4>4, <5>1
      <4>6. QED
        BY <4>2, <4>5
    <3>2. QED
      BY <1>2, <2>1, <2>2, <2>4, <3>1 DEF Mirror, Pressed
  <2>5. QED
    BY <2>3, <2>4
<1>13. QED
  BY <1>7, <1>8, <1>9, <1>10, <1>11, <1>12 DEF Client

LEMMA NextMirror == Typed /\ OneInv /\ MirrorInv /\ [Next]_vars => MirrorInv'
<1>1. SUFFICES ASSUME Typed, OneInv, MirrorInv, [Next]_vars PROVE MirrorInv'
  OBVIOUS
<1>2. ASSUME NEW c \in Clients, client' = c, Reached(c)', pc' = "idle" PROVE Mirror(c)'
  <2>1. CASE UNCHANGED vars
    <3>1. /\ UNCHANGED <<client, conn, pc, down, up, upd, known, shown, size, gates, msgs>>
      BY <2>1 DEF vars, paneVars, stateVars, loopVars, clientVars
    <3>2. Mirror(c)
      BY <1>1, <1>2, <3>1 DEF MirrorInv, Reached
    <3>3. QED
      BY <3>1, <3>2, MirrorKept DEF Pressed
  <2>2. QED
    BY <1>1, <1>2, <2>1, LoopMirror, PostMirror, ClientMirror DEF Next
<1>3. QED
  BY <1>1, <1>2, NextUpdating DEF MirrorInv

LEMMA InitMirror == Init => MirrorInv
<1>1. SUFFICES ASSUME Init PROVE MirrorInv
  OBVIOUS
<1>2. \A c \in Clients : upd[c] = NoFrame /\ conn[c] = "idle"
  BY <1>1 DEF Init
<1>3. QED
  BY <1>2 DEF MirrorInv, Reached

\* Whatever the loop's handlers change, the client that is attached shows once the
\* frames that are on their way are through (syncClient, attachClient).
THEOREM MirrorIsCurrent == Spec => []MirrorCurrent
<1>1. Typed /\ OneInv /\ MirrorInv /\ [Next]_vars => (Typed /\ OneInv /\ MirrorInv)'
  BY NextTyped, NextOne, NextMirror
<1>2. Typed /\ MirrorInv => MirrorCurrent
  <2>1. SUFFICES ASSUME Typed, MirrorInv, pc = "idle", client # NoClient, Quiet(client)
                 PROVE  shown[client] = gates /\ known[client] = size
    BY DEF MirrorCurrent
  <2>2. client \in Clients /\ msgs \in Seq(Msg)
    BY <2>1 DEF Typed, LoopTyped
  <2>3. Reached(client) /\ ~Pressed(client) /\ down[client] = <<>> /\ upd[client] = NoFrame
    BY <2>1, <2>2 DEF Quiet, Reached, Pressed
  <2>4. Mirror(client)
    BY <2>1, <2>2, <2>3 DEF MirrorInv
  <2>5. News(down[client]) = {}
    BY <2>3 DEF News
  <2>6. QED
    BY <2>3, <2>4, <2>5 DEF Mirror, Newest
<1>3. QED
  BY <1>1, <1>2, InitTyped, InitOne, InitMirror, PTL DEF Spec

-----------------------------------------------------------------------------
(* Frames on the wire *)

\* The frames that the loop writes carry the length of the roster there is.
Current(fs) == fs \in Seq(Frame) /\ \A k \in DOMAIN fs : fs[k].k # "welcome" /\ (fs[k].k = "state" => fs[k].size = size)

\* What a step does to the frames on their way to c: nothing; the client is gone or
\* takes the first; the loop writes; or a hello is answered.
WireStep(c) ==
  \/ down'[c] = down[c]
  \/ down'[c] = <<>> /\ conn'[c] = "closed"
  \/ down[c] # <<>> /\ down'[c] = Tail(down[c])
  \/ c = client /\ client' = c /\ \E fs : Current(fs) /\ down'[c] = down[c] \o fs
  \/ Heard /\ Head(msgs).k = "attach" /\ Head(msgs).c = c /\ (Refused(c) \/ Attached(c))

LEMMA WireSteps ==
  ASSUME Typed, [Next]_vars, NEW c \in Clients
  PROVE  /\ WireStep(c)
         /\ conn'[c] = "live" => conn[c] = "live" \/ down[c] # <<>>
<1>1. /\ msgs \in Seq(Msg) /\ down \in [Clients -> Seq(Frame)] /\ ClientsTyped
      /\ conn \in [Clients -> {"idle", "dialing", "live", "closed"}]
      /\ size \in Nat /\ gates \in Seq(Nat) /\ gen \in [Roles -> Nat] /\ out \in [Roles -> Nat]
      /\ todo \subseteq Roles
  BY Bounds DEF Typed, PanesTyped, LoopTyped, ClientsTyped
<1> DEFINE Goal == /\ WireStep(c)
                   /\ conn'[c] = "live" => conn[c] = "live" \/ down[c] # <<>>
<1>2. conn' = conn /\ down' = down => Goal
  BY DEF WireStep
<1>3. ASSUME NEW fs, Send(fs), Current(fs), conn' = conn PROVE Goal
  <2>1. CASE Untold \/ Dropped
    BY <1>2, <1>3, <2>1 DEF Untold, Dropped
  <2>2. CASE Written(fs)
    <3>1. client' = client /\ down' = [down EXCEPT ![client] = @ \o fs]
      BY <2>2 DEF Written
    <3>2. CASE c = client
      <4>1. down'[c] = down[c] \o fs
        BY <1>1, <3>1, <3>2
      <4>2. QED
        BY <1>3, <3>1, <3>2, <4>1 DEF WireStep
    <3>3. CASE c # client
      <4>1. down'[c] = down[c]
        BY <1>1, <3>1, <3>3
      <4>2. QED
        BY <1>3, <4>1 DEF WireStep
    <3>4. QED
      BY <3>2, <3>3
  <2>3. QED
    BY <1>3, <2>1, <2>2, SendKinds
<1>4. CASE Streams \/ Readers \/ UNCHANGED vars
  BY <1>2, <1>4 DEF Streams, Readers, Output, StreamEnds, PostChunk, ReadEvent, ReadFails, vars
<1>5. CASE \/ Gated \/ ReloadAdds \/ (\E i \in Roles : Delivered(i) \/ ReloadChanges(i))
           \/ PaneClosed \/ ClientGone \/ Answer \/ RestartKey \/ Detached \/ EnsureTees
  BY <1>2, <1>5 DEF Gated, ReloadAdds, Delivered, ReloadChanges, PaneClosed, ClientGone, Answer, RestartKey,
     Detached, EnsureTees, DropClient, handlerRest
<1>6. CASE Forward
  <2> DEFINE m == Head(msgs)
             f == [k |-> "output", i |-> m.i, g |-> m.g, n |-> m.n]
  <2>1. /\ Take("output") /\ (Send(<<f>>) \/ Untold) /\ conn' = conn
    BY <1>6 DEF Forward, Untold
  <2>2. m \in Msg /\ m.k = "output"
    BY <1>1, <2>1, TakeTyped
  <2>3. f \in Frame /\ f.k = "output"
    BY <2>2, MessageFields, Frames
  <2> HIDE DEF f
  <2>4. Current(<<f>>)
    BY <2>3 DEF Current
  <2>5. QED
    BY <1>2, <1>3, <2>1, <2>4 DEF Untold
<1>7. CASE ResetPane
  <2> DEFINE i == Min(todo)
             a == [k |-> "reset", i |-> i]
             b == [k |-> "ring", i |-> i, g |-> gen[i], n |-> out[i]]
  <2>1. Send(<<a, b>>) /\ todo # {} /\ conn' = conn
    BY <1>7 DEF ResetPane
  <2>2. i \in Roles
    BY <1>1, <2>1, LeastRole
  <2> HIDE DEF i
  <2>3. a \in Frame /\ b \in Frame /\ a.k = "reset" /\ b.k = "ring"
    BY <1>1, <2>2, Frames
  <2> HIDE DEF a, b
  <2>4. Current(<<a, b>>)
    BY <2>3 DEF Current
  <2>5. QED
    BY <1>3, <2>1, <2>4
<1>8. CASE SyncClient \/ Tick
  <2> DEFINE f == [k |-> "state", size |-> size, gates |-> gates]
  <2>1. Send(<<f>>) /\ conn' = conn
    BY <1>8 DEF SyncClient, Tick, StateFrames
  <2>2. f \in Frame /\ f.k = "state" /\ f.size = size
    BY <1>1, Frames
  <2> HIDE DEF f
  <2>3. Current(<<f>>)
    BY <2>2 DEF Current
  <2>4. QED
    BY <1>3, <2>1, <2>3
<1>9. CASE AttachClient
  <2> DEFINE d == Head(msgs).c
  <2>1. /\ d \in Clients /\ Take("attach")
        /\ Ignored \/ Refused(d) \/ Attached(d)
        /\ conn' = conn
    BY <1>1, <1>9, AttachKinds
  <2>2. Heard /\ Head(msgs).k = "attach"
    BY <2>1 DEF Take, Heard
  <2>3. c # d => down'[c] = down[c]
    <3> HIDE DEF d
    <3>1. QED
      BY <1>1, <2>1 DEF Ignored, Refused, Attached
  <2>4. Ignored => down'[c] = down[c]
    BY DEF Ignored
  <2>5. c = d => WireStep(c)
    BY <2>1, <2>2, <2>4 DEF WireStep
  <2>6. QED
    BY <2>1, <2>3, <2>5 DEF WireStep
<1>10. ASSUME NEW d \in Clients, Client(d) PROVE Goal
  <2>1. CASE Leaves(d) \/ Detach(d)
    <3>1. conn' = [conn EXCEPT ![d] = "closed"] /\ down' = [down EXCEPT ![d] = <<>>]
      BY <2>1 DEF Leaves, Detach, Hangs
    <3>2. QED
      BY <1>1, <3>1 DEF WireStep
  <2>2. CASE Welcomed(d)
    <3>1. /\ conn' = [conn EXCEPT ![d] = "live"] /\ down' = [down EXCEPT ![d] = Tail(@)]
          /\ down[d] # <<>>
      BY <2>2 DEF Welcomed
    <3>2. QED
      BY <1>1, <3>1 DEF WireStep
  <2>3. CASE ReadFrame(d)
    <3>1. conn' = conn /\ down' = [down EXCEPT ![d] = Tail(@)] /\ down[d] # <<>>
      BY <2>3 DEF ReadFrame
    <3>2. QED
      BY <1>1, <3>1 DEF WireStep
  <2>4. CASE Dial(d)
    <3>1. conn' = [conn EXCEPT ![d] = "dialing"] /\ down' = down
      BY <2>4 DEF Dial
    <3>2. QED
      BY <1>1, <3>1 DEF WireStep
  <2>5. CASE Apply(d) \/ AnswerShown(d) \/ \E i \in Roles : RestartShown(d, i)
    BY <1>2, <2>5 DEF Apply, AnswerShown, RestartShown, Key
  <2>6. QED
    BY <1>10, <2>1, <2>2, <2>3, <2>4, <2>5 DEF Client
<1>11. QED
  BY <1>4, <1>5, <1>6, <1>7, <1>8, <1>9, <1>10 DEF Next, Handlers

\* A connection that has a frame to read, or has read its welcome, has been heard.
HelloInv ==
  \A c \in Clients : conn[c] = "live" \/ down[c] # <<>> =>
    conn[c] # "idle" /\ \A k \in DOMAIN msgs : msgs[k].k = "attach" => msgs[k].c # c

LEMMA NextHello == Typed /\ OneInv /\ HelloInv /\ [Next]_vars => HelloInv'
<1>1. SUFFICES ASSUME Typed, OneInv, HelloInv, [Next]_vars,
                      NEW c \in Clients, conn'[c] = "live" \/ down'[c] # <<>>
               PROVE  conn'[c] # "idle" /\ \A k \in DOMAIN msgs' : msgs'[k].k = "attach" => msgs'[k].c # c
  BY DEF HelloInv
<1>2. msgs \in Seq(Msg) /\ down[c] \in Seq(Frame) /\ conn \in [Clients -> {"idle", "dialing", "live", "closed"}]
  BY <1>1 DEF Typed, LoopTyped, ClientsTyped
<1>3. Dialled
  BY <1>1, ConnectionStep DEF Talks, Dials, Attaches
<1>4. WireStep(c) /\ (conn'[c] = "live" => conn[c] = "live" \/ down[c] # <<>>)
  BY <1>1, WireSteps
<1>5. CASE Heard /\ Head(msgs).k = "attach" /\ Head(msgs).c = c
  <2>1. conn[c] # "idle"
    BY <1>1, <1>2, <1>5, HeardRest DEF OneInv
  <2>2. ASSUME NEW k \in DOMAIN msgs', msgs'[k].k = "attach" PROVE msgs'[k].c # c
    <3>1. k + 1 \in DOMAIN msgs /\ msgs'[k] = msgs[k + 1] /\ k + 1 # 1 /\ 1 \in DOMAIN msgs /\ Head(msgs) = msgs[1]
      BY <1>2, <1>5, HeardRest
    <3>2. QED
      BY <1>1, <1>5, <2>2, <3>1 DEF OneInv
  <2>3. QED
    BY <1>3, <2>1, <2>2 DEF Dialled
<1>6. CASE ~(Heard /\ Head(msgs).k = "attach" /\ Head(msgs).c = c)
  <2>1. conn[c] = "live" \/ down[c] # <<>> \/ c = client
    BY <1>1, <1>2, <1>4, <1>6 DEF WireStep
  <2>2. c # NoClient
    BY Bounds
  <2>3. conn[c] # "idle" /\ \A k \in DOMAIN msgs : msgs[k].k = "attach" => msgs[k].c # c
    BY <1>1, <2>1, <2>2 DEF HelloInv, OneInv
  <2>4. ASSUME NEW k \in DOMAIN msgs', msgs'[k].k = "attach" PROVE msgs'[k].c # c
    <3>1. CASE msgs' = msgs
      BY <2>3, <2>4, <3>1
    <3>2. CASE Heard
      BY <1>2, <2>3, <2>4, <3>2, HeardRest
    <3>3. CASE \E m \in Msg : m.k # "attach" /\ Said(m)
      BY <1>2, <2>3, <2>4, <3>3, SaidLast
    <3>4. CASE Dials
      <4>1. PICK e \in Clients : conn[e] = "idle" /\ Said([k |-> "attach", c |-> e])
        BY <3>4 DEF Dials
      <4>2. PICK m \in Msg : m = [k |-> "attach", c |-> e]
        BY Messages
      <4>3. Said(m) /\ m.c = e /\ e # c
        BY <2>3, <4>1, <4>2
      <4>4. QED
        BY <1>2, <2>3, <2>4, <4>3, SaidLast
    <3>5. QED
      BY <1>1, <3>1, <3>2, <3>3, <3>4, ConnectionStep DEF Talks, Attaches
  <2>5. QED
    BY <1>3, <2>3, <2>4 DEF Dialled
<1>7. QED
  BY <1>5, <1>6

-----------------------------------------------------------------------------
(* The roster, at both ends of the wire *)

LEMMA Members ==
  ASSUME NEW S, NEW s \in Seq(S)
  PROVE  /\ \A k \in DOMAIN s : s[k] \in S
         /\ s # <<>> => /\ Head(s) \in S /\ 1 \in DOMAIN s /\ Head(s) = s[1]
                        /\ \A k \in DOMAIN Tail(s) : \E j \in DOMAIN s : Tail(s)[k] = s[j]
         /\ \A e \in S : \A k \in DOMAIN Append(s, e) :
              Append(s, e)[k] = e \/ \E j \in DOMAIN s : Append(s, e)[k] = s[j]
         /\ \A t \in Seq(S) : \A k \in DOMAIN (s \o t) :
              \/ \E j \in DOMAIN s : (s \o t)[k] = s[j]
              \/ \E j \in DOMAIN t : (s \o t)[k] = t[j]
<1>1. \A k \in DOMAIN s : s[k] \in S
  OBVIOUS
<1>2. s # <<>> => /\ Head(s) \in S /\ 1 \in DOMAIN s /\ Head(s) = s[1]
                  /\ \A k \in DOMAIN Tail(s) : k + 1 \in DOMAIN s /\ Tail(s)[k] = s[k + 1]
  OBVIOUS
<1>3. ASSUME NEW e \in S, NEW k \in DOMAIN Append(s, e)
      PROVE  Append(s, e)[k] = e \/ \E j \in DOMAIN s : Append(s, e)[k] = s[j]
  <2>1. CASE k = Len(s) + 1
    BY <2>1
  <2>2. CASE k # Len(s) + 1
    <3>1. k \in DOMAIN s /\ Append(s, e)[k] = s[k]
      BY <2>2
    <3>2. QED
      BY <3>1
  <2>3. QED
    BY <2>1, <2>2
<1>4. ASSUME NEW t \in Seq(S), NEW k \in DOMAIN (s \o t)
      PROVE  \/ \E j \in DOMAIN s : (s \o t)[k] = s[j]
             \/ \E j \in DOMAIN t : (s \o t)[k] = t[j]
  <2>1. CASE k <= Len(s)
    <3>1. k \in DOMAIN s /\ (s \o t)[k] = s[k]
      BY <2>1
    <3>2. QED
      BY <3>1
  <2>2. CASE ~(k <= Len(s))
    <3>1. k - Len(s) \in DOMAIN t /\ (s \o t)[k] = t[k - Len(s)]
      BY <2>2
    <3>2. QED
      BY <3>1
  <2>3. QED
    BY <2>1, <2>2
<1>5. QED
  BY <1>1, <1>2, <1>3, <1>4

\* The lengths of the roster that frames speak of
Sizes(ds) == {ds[k].size : k \in News(ds)}

LEMMA SizesOf ==
  ASSUME NEW ds \in Seq(Frame)
  PROVE  /\ Sizes(ds) \subseteq Nat
         /\ ds # <<>> => /\ Sizes(Tail(ds)) \subseteq Sizes(ds)
                         /\ Head(ds) \in Frame
                         /\ Head(ds).k \in {"welcome", "state"} => Head(ds).size \in Sizes(ds)
         /\ \A fs : Current(fs) => Sizes(ds \o fs) \subseteq Sizes(ds) \cup {size}
<1>1. Sizes(ds) \subseteq Nat
  BY Members, FrameFields DEF Sizes, News
<1>2. ds # <<>> => /\ Sizes(Tail(ds)) \subseteq Sizes(ds)
                   /\ Head(ds) \in Frame
                   /\ Head(ds).k \in {"welcome", "state"} => Head(ds).size \in Sizes(ds)
  BY Members DEF Sizes, News
<1>3. ASSUME NEW fs, Current(fs) PROVE Sizes(ds \o fs) \subseteq Sizes(ds) \cup {size}
  <2>1. ASSUME NEW k \in News(ds \o fs) PROVE (ds \o fs)[k].size \in Sizes(ds) \cup {size}
    <3>1. k \in DOMAIN (ds \o fs) /\ (ds \o fs)[k].k \in {"welcome", "state"}
      BY <2>1 DEF News
    <3>2. fs \in Seq(Frame)
      BY <1>3 DEF Current
    <3> DEFINE f == (ds \o fs)[k]
    <3>3. (\E j \in DOMAIN ds : f = ds[j]) \/ (\E j \in DOMAIN fs : f = fs[j])
      BY <3>1, <3>2, Members
    <3> HIDE DEF f
    <3>4. CASE \E j \in DOMAIN ds : f = ds[j]
      BY <3>1, <3>4 DEF Sizes, News, f
    <3>5. CASE \E j \in DOMAIN fs : f = fs[j]
      BY <1>3, <3>1, <3>5 DEF Current, f
    <3>6. QED
      BY <3>3, <3>4, <3>5
  <2>2. QED
    BY <2>1 DEF Sizes
<1>4. QED
  BY <1>1, <1>2, <1>3

\* What a step does to the roster that c knows of
RosterStep(c) ==
  /\ \/ known'[c] = known[c] /\ (conn'[c] = "live" => conn[c] = "live")
     \/ known'[c] \in Sizes(down[c])
     \/ upd[c] # NoFrame /\ known'[c] = upd[c].size
     \/ known'[c] = 0 /\ conn'[c] = "closed"
  /\ upd'[c] = NoFrame \/ upd'[c] = upd[c] \/ upd'[c].size \in Sizes(down[c])

LEMMA RosterSteps ==
  ASSUME Typed, [Next]_vars, NEW c \in Clients
  PROVE  RosterStep(c)
<1>1. /\ ClientsTyped /\ down \in [Clients -> Seq(Frame)] /\ known \in [Clients -> Nat]
      /\ conn \in [Clients -> {"idle", "dialing", "live", "closed"}]
      /\ upd \in [Clients -> StateFrame \cup {NoFrame}]
  BY DEF Typed, ClientsTyped
<1>2. UNCHANGED <<conn, known, upd>> => RosterStep(c)
  BY DEF RosterStep
<1>3. CASE Streams \/ Readers \/ UNCHANGED vars
  BY <1>2, <1>3 DEF Streams, Readers, Output, StreamEnds, PostChunk, ReadEvent, ReadFails, vars, clientVars
<1>4. CASE Handlers
  <2>1. AttachClient => UNCHANGED <<conn, known, upd>>
    BY DEF AttachClient, clientVars
  <2>2. UNCHANGED <<conn, known, upd>>
    BY <1>4, <2>1 DEF Handlers, Gated, ReloadAdds, Delivered, ReloadChanges, Forward, PaneClosed, ClientGone,
       Answer, RestartKey, Detached, EnsureTees, ResetPane, SyncClient, Tick, handlerRest, clientVars
  <2>3. QED
    BY <1>2, <2>2
<1>5. ASSUME NEW d \in Clients, Client(d) PROVE RosterStep(c)
  <2>1. CASE Dial(d)
    <3>1. conn' = [conn EXCEPT ![d] = "dialing"] /\ known' = known /\ upd' = upd
      BY <2>1 DEF Dial, clientVars
    <3>2. QED
      BY <1>1, <3>1 DEF RosterStep
  <2>2. CASE Leaves(d) \/ Detach(d)
    <3>1. /\ conn' = [conn EXCEPT ![d] = "closed"] /\ known' = [known EXCEPT ![d] = 0]
          /\ upd' = [upd EXCEPT ![d] = NoFrame]
      BY <2>2 DEF Leaves, Detach, Hangs
    <3>2. QED
      BY <1>1, <3>1 DEF RosterStep
  <2>3. CASE Welcomed(d)
    <3> DEFINE f == Head(down[d])
    <3>1. /\ conn' = [conn EXCEPT ![d] = "live"] /\ known' = [known EXCEPT ![d] = f.size]
          /\ upd' = upd /\ f.k = "welcome" /\ down[d] # <<>>
      BY <2>3 DEF Welcomed
    <3>2. f.size \in Sizes(down[d])
      BY <1>1, <3>1, SizesOf
    <3> HIDE DEF f
    <3>3. QED
      BY <1>1, <3>1, <3>2 DEF RosterStep
  <2>4. CASE ReadFrame(d)
    <3> DEFINE f == Head(down[d])
    <3>1. /\ upd' = IF f.k = "state" THEN [upd EXCEPT ![d] = f] ELSE upd
          /\ down[d] # <<>>
      BY <1>1, <2>4, ReadArrives
    <3>2. conn' = conn /\ known' = known
      BY <2>4 DEF ReadFrame
    <3>3. f.k = "state" => f.size \in Sizes(down[d])
      BY <1>1, <3>1, SizesOf
    <3> HIDE DEF f
    <3>4. QED
      BY <1>1, <3>1, <3>2, <3>3 DEF RosterStep
  <2>5. CASE Apply(d)
    <3>1. /\ upd[d] # NoFrame /\ upd' = [upd EXCEPT ![d] = NoFrame]
          /\ known' = [known EXCEPT ![d] = upd[d].size] /\ conn' = conn
      BY <2>5 DEF Apply
    <3>2. QED
      BY <1>1, <3>1 DEF RosterStep
  <2>6. CASE AnswerShown(d) \/ \E i \in Roles : RestartShown(d, i)
    BY <1>2, <2>6 DEF AnswerShown, RestartShown, clientVars
  <2>7. QED
    BY <1>5, <2>1, <2>2, <2>3, <2>4, <2>5, <2>6 DEF Client
<1>6. QED
  BY <1>3, <1>4, <1>5 DEF Next

LEMMA SizeSteps ==
  ASSUME Typed, [Next]_vars
  PROVE  size \in Nat /\ size' \in Nat /\ size <= size'
<1>1. size \in Nat
  BY Bounds DEF Typed, PanesTyped
<1>2. CASE Streams \/ Readers \/ UNCHANGED vars
  <2>1. size' = size
    BY <1>2 DEF Streams, Readers, Output, StreamEnds, PostChunk, ReadEvent, ReadFails, vars, paneVars
  <2>2. QED
    BY <1>1, <2>1
<1>3. CASE Handlers
  <2>1. AttachClient => size' = size
    BY DEF AttachClient, paneVars
  <2>2. size' = size \/ size' = size + 1
    BY <1>3, <2>1 DEF Handlers, Gated, ReloadAdds, Delivered, ReloadChanges, Forward, PaneClosed, ClientGone,
       Answer, RestartKey, Detached, EnsureTees, ResetPane, SyncClient, Tick, Respawned, paneVars
  <2>3. QED
    BY <1>1, <2>2
<1>4. ASSUME NEW d \in Clients, Client(d) PROVE size' = size
  BY <1>4 DEF Client, Dial, Welcomed, Leaves, ReadFrame, Apply, AnswerShown, Detach, RestartShown, Key, paneVars
<1>5. QED
  BY <1>1, <1>2, <1>3, <1>4 DEF Next

\* What a client knows of the roster, is told of it and asks of it, is there.
KeyWithin(ev, s) == ev.k = "restart" => ev.i <= s
MsgWithin(m, s) == (m.k = "event" => KeyWithin(m.ev, s)) /\ (m.k = "closed" => m.i <= s)

RosterInv ==
  /\ \A c \in Clients : known[c] <= size /\ (upd[c] # NoFrame => upd[c].size <= size)
  /\ \A c \in Clients : \A s \in Sizes(down[c]) : s <= size
  /\ \A c \in Clients : \A k \in DOMAIN up[c] : KeyWithin(up[c][k], size)
  /\ \A k \in DOMAIN msgs : MsgWithin(msgs[k], size)

\* What a step does to the events of c
LEMMA KeySteps ==
  ASSUME Typed, RosterInv, [Next]_vars, NEW c \in Clients
  PROVE  \/ up'[c] = up[c]
         \/ up[c] # <<>> /\ up'[c] = Tail(up[c])
         \/ \E ev \in Event : KeyWithin(ev, size) /\ up'[c] = Append(up[c], ev)
<1> DEFINE Goal == \/ up'[c] = up[c]
                   \/ up[c] # <<>> /\ up'[c] = Tail(up[c])
                   \/ \E ev \in Event : KeyWithin(ev, size) /\ up'[c] = Append(up[c], ev)
<1>1. /\ up \in [Clients -> Seq(Event)] /\ shown \in [Clients -> Seq(Nat)]
      /\ \A d \in Clients : known[d] <= size /\ known[d] \in Nat
      /\ size \in Nat
  BY Bounds DEF Typed, PanesTyped, ClientsTyped, RosterInv
<1>2. CASE Streams \/ UNCHANGED vars
  BY <1>2 DEF Streams, Output, StreamEnds, PostChunk, vars
<1>3. CASE Handlers
  <2>1. AttachClient => up' = up
    BY DEF AttachClient
  <2>2. up' = up
    BY <1>3, <2>1 DEF Handlers, Gated, ReloadAdds, Delivered, ReloadChanges, Forward, PaneClosed, ClientGone,
       Answer, RestartKey, Detached, EnsureTees, ResetPane, SyncClient, Tick, handlerRest
  <2>3. QED
    BY <2>2
<1>4. CASE Readers
  <2>1. PICK d \in Clients : ReadEvent(d) \/ ReadFails(d)
    BY <1>4 DEF Readers
  <2>2. up' = up \/ (up[d] # <<>> /\ up' = [up EXCEPT ![d] = Tail(@)])
    BY <2>1 DEF ReadEvent, ReadFails
  <2>3. QED
    BY <1>1, <2>2
<1>5. ASSUME NEW d \in Clients, NEW ev \in Event, KeyWithin(ev, size), Key(d, ev) PROVE Goal
  <2>1. up' = [up EXCEPT ![d] = Append(@, ev)]
    BY <1>5 DEF Key
  <2>2. QED
    BY <1>1, <1>5, <2>1
<1>6. ASSUME NEW d \in Clients, Client(d) PROVE Goal
  <2>1. CASE AnswerShown(d)
    <3>1. shown[d] \in Seq(Nat) /\ shown[d] # <<>>
      BY <1>1, <2>1 DEF AnswerShown
    <3>2. Head(shown[d]) \in Nat
      BY <3>1
    <3>3. PICK ev \in Event : ev = [k |-> "gate", gate |-> Head(shown[d])]
      BY <3>2 DEF Event
    <3>4. Key(d, ev) /\ KeyWithin(ev, size)
      BY <2>1, <3>3 DEF AnswerShown, KeyWithin
    <3>5. QED
      BY <1>5, <3>4
  <2>2. CASE Detach(d)
    <3>1. PICK ev \in Event : ev = [k |-> "detach"]
      BY DEF Event
    <3>2. Key(d, ev) /\ KeyWithin(ev, size)
      BY <2>2, <3>1 DEF Detach, KeyWithin
    <3>3. QED
      BY <1>5, <3>2
  <2>3. CASE \E i \in Roles : RestartShown(d, i)
    <3>1. PICK i \in Roles : RestartShown(d, i)
      BY <2>3
    <3>2. i <= known[d]
      BY <3>1 DEF RestartShown
    <3>3. i <= size
      BY <1>1, <3>2, Bounds
    <3>4. PICK ev \in Event : ev = [k |-> "restart", i |-> i]
      BY DEF Event
    <3>5. Key(d, ev) /\ KeyWithin(ev, size)
      BY <3>1, <3>3, <3>4 DEF RestartShown, KeyWithin
    <3>6. QED
      BY <1>5, <3>5
  <2>4. CASE Dial(d) \/ Welcomed(d) \/ Leaves(d) \/ ReadFrame(d) \/ Apply(d)
    BY <2>4 DEF Dial, Welcomed, Leaves, ReadFrame, Apply
  <2>5. QED
    BY <1>6, <2>1, <2>2, <2>3, <2>4 DEF Client
<1>7. QED
  BY <1>2, <1>3, <1>4, <1>6 DEF Next

\* The chunk that m brings is one that a stream held.
Copied(m) == m.k = "output" => \E h \in held : PostChunk(h) /\ m.i = h.i /\ m.g = h.g /\ m.n = h.n

\* A chunk that is taken is one that the loop may forward.
Taken == Heard /\ (Head(msgs).k = "output" => Forward)

\* What a step does to the channel of the loop
LEMMA MsgSteps ==
  ASSUME Typed, RosterInv, [Next]_vars
  PROVE  msgs' = msgs \/ Taken \/ \E m \in Msg : MsgWithin(m, size) /\ Copied(m) /\ Said(m)
<1> DEFINE Goal == msgs' = msgs \/ Taken \/ \E m \in Msg : MsgWithin(m, size) /\ Copied(m) /\ Said(m)
<1>1. /\ up \in [Clients -> Seq(Event)] /\ gen \in [Roles -> Nat]
      /\ held \subseteq [i : Roles, g : Nat, n : Nat]
  BY DEF Typed, PanesTyped, ClientsTyped
<1>2. CASE Streams
  <2>1. ASSUME NEW i \in Roles, StreamEnds(i) PROVE Goal
    <3>1. PICK m \in Msg : m = [k |-> "closed", i |-> i, g |-> gen[i]]
      BY <1>1, Messages
    <3>2. i <= size /\ Post(m)
      BY <2>1, <3>1 DEF StreamEnds
    <3>3. QED
      BY <3>1, <3>2 DEF Post, Said, MsgWithin, Copied
  <2>2. ASSUME NEW h \in held, PostChunk(h) PROVE Goal
    <3>1. h.i \in Roles /\ h.g \in Nat /\ h.n \in Nat
      BY <1>1
    <3>2. PICK m \in Msg : m = [k |-> "output", i |-> h.i, g |-> h.g, n |-> h.n]
      BY <3>1, Messages
    <3>3. Post(m)
      BY <2>2, <3>2 DEF PostChunk
    <3>4. QED
      BY <2>2, <3>2, <3>3 DEF Post, Said, MsgWithin, Copied
  <2>3. QED
    BY <1>2, <2>1, <2>2 DEF Streams, Output
<1>3. CASE Handlers
  <2>1. AttachClient => Taken
    BY DEF AttachClient, Take, Heard, Taken
  <2>2. QED
    BY <1>3, <2>1 DEF Handlers, Gated, ReloadAdds, Delivered, ReloadChanges, Forward, PaneClosed, ClientGone,
       Answer, RestartKey, Detached, EnsureTees, ResetPane, SyncClient, Tick, Take, Heard, Taken
<1>4. CASE Readers
  <2>1. PICK d \in Clients : ReadEvent(d) \/ ReadFails(d)
    BY <1>4 DEF Readers
  <2>2. CASE ReadEvent(d)
    <3>1. up[d] \in Seq(Event) /\ up[d] # <<>>
      BY <1>1, <2>2 DEF ReadEvent
    <3>2. Head(up[d]) \in Event /\ KeyWithin(Head(up[d]), size)
      BY <3>1, Members DEF RosterInv
    <3>3. PICK m \in Msg : m = [k |-> "event", ev |-> Head(up[d])]
      BY <3>2, Messages
    <3>4. Post(m)
      BY <2>2, <3>3 DEF ReadEvent
    <3>5. MsgWithin(m, size)
      BY <3>2, <3>3 DEF MsgWithin
    <3>6. QED
      BY <3>3, <3>4, <3>5 DEF Post, Said, Copied
  <2>3. CASE ReadFails(d)
    <3>1. PICK m \in Msg : m = [k |-> "gone", c |-> d]
      BY Messages
    <3>2. Post(m)
      BY <2>3, <3>1 DEF ReadFails
    <3>3. QED
      BY <3>1, <3>2 DEF Post, Said, MsgWithin, Copied
  <2>4. QED
    BY <2>1, <2>2, <2>3
<1>5. ASSUME NEW d \in Clients, Client(d) PROVE Goal
  <2>1. CASE Dial(d)
    <3>1. PICK m \in Msg : m = [k |-> "attach", c |-> d]
      BY Messages
    <3>2. Post(m)
      BY <2>1, <3>1 DEF Dial
    <3>3. QED
      BY <3>1, <3>2 DEF Post, Said, MsgWithin, Copied
  <2>2. QED
    BY <1>5, <2>1 DEF Client, Welcomed, Leaves, ReadFrame, Apply, AnswerShown, Detach, RestartShown, Key
<1>6. QED
  BY <1>2, <1>3, <1>4, <1>5 DEF Next, vars

LEMMA NextRoster == Typed /\ RosterInv /\ [Next]_vars => RosterInv'
<1>1. SUFFICES ASSUME Typed, RosterInv, [Next]_vars PROVE RosterInv'
  OBVIOUS
<1>2. size \in Nat /\ size' \in Nat /\ size <= size'
  BY <1>1, SizeSteps
<1>3. msgs \in Seq(Msg) /\ Typed'
  BY <1>1, NextTyped DEF Typed, LoopTyped
<1>4. ASSUME NEW c \in Clients, NEW s \in Sizes(down'[c]) PROVE s <= size'
  <2>1. down[c] \in Seq(Frame) /\ down'[c] \in Seq(Frame)
    BY <1>1, <1>3 DEF Typed, ClientsTyped
  <2>2. s \in Nat
    BY <1>4, <2>1, SizesOf
  <2>3. s \in Sizes(down[c]) \/ s = size
    <3>1. CASE Refused(c) \/ Attached(c)
      <4>1. down'[c] = <<[k |-> "refused"]>> \/ down'[c] = <<WelcomeFrame>>
        BY <1>1, <3>1 DEF Refused, Attached, Typed, ClientsTyped
      <4>2. Sizes(<<[k |-> "refused"]>>) = {}
        BY DEF Sizes, News
      <4>3. Sizes(<<WelcomeFrame>>) \subseteq {size}
        BY DEF Sizes, News, WelcomeFrame
      <4>4. QED
        BY <1>4, <4>1, <4>2, <4>3
    <3>2. CASE down'[c] = <<>>
      BY <1>4, <3>2 DEF Sizes, News
    <3>3. CASE down[c] # <<>> /\ down'[c] = Tail(down[c])
      BY <1>4, <2>1, <3>3, SizesOf
    <3>4. CASE \E fs : Current(fs) /\ down'[c] = down[c] \o fs
      BY <1>4, <2>1, <3>4, SizesOf
    <3>5. WireStep(c)
      BY <1>1, WireSteps
    <3>6. QED
      BY <1>4, <3>1, <3>2, <3>3, <3>4, <3>5 DEF WireStep
  <2>4. s <= size
    BY <1>1, <1>2, <2>2, <2>3 DEF RosterInv
  <2>5. QED
    BY <1>2, <2>2, <2>4
<1>5. ASSUME NEW c \in Clients PROVE known'[c] <= size' /\ (upd'[c] # NoFrame => upd'[c].size <= size')
  <2>1. /\ down[c] \in Seq(Frame) /\ known'[c] \in Nat /\ upd'[c] \in StateFrame \cup {NoFrame}
    BY <1>1, <1>3 DEF Typed, ClientsTyped
  <2>2. upd'[c] # NoFrame => upd'[c].size \in Nat
    BY <2>1 DEF StateFrame
  <2>3. \A s \in Sizes(down[c]) : s <= size
    BY <1>1 DEF RosterInv
  <2>4. known'[c] <= size
    BY <1>1, <1>2, <2>3, RosterSteps DEF RosterStep, RosterInv
  <2>5. upd'[c] # NoFrame => upd'[c].size <= size
    BY <1>1, <2>3, RosterSteps DEF RosterStep, RosterInv
  <2>6. QED
    BY <1>2, <2>1, <2>2, <2>4, <2>5
<1>6. ASSUME NEW c \in Clients, NEW k \in DOMAIN up'[c] PROVE KeyWithin(up'[c][k], size')
  <2>1. up[c] \in Seq(Event) /\ up'[c] \in Seq(Event)
    BY <1>1, <1>3 DEF Typed, ClientsTyped
  <2>2. KeyWithin(up'[c][k], size)
    <3>1. \A j \in DOMAIN up[c] : KeyWithin(up[c][j], size)
      BY <1>1 DEF RosterInv
    <3>2. CASE up'[c] = up[c]
      BY <1>6, <3>1, <3>2
    <3>3. CASE up[c] # <<>> /\ up'[c] = Tail(up[c])
      <4>1. PICK j \in DOMAIN up[c] : up'[c][k] = up[c][j]
        BY <1>6, <2>1, <3>3, Members
      <4>2. QED
        BY <3>1, <4>1
    <3>4. CASE \E ev \in Event : KeyWithin(ev, size) /\ up'[c] = Append(up[c], ev)
      <4>1. PICK ev \in Event : KeyWithin(ev, size) /\ up'[c] = Append(up[c], ev)
        BY <3>4
      <4>2. up'[c][k] = ev \/ \E j \in DOMAIN up[c] : up'[c][k] = up[c][j]
        BY <1>6, <2>1, <4>1, Members
      <4>3. QED
        BY <3>1, <4>1, <4>2
    <3>5. QED
      BY <1>1, <3>2, <3>3, <3>4, KeySteps
  <2>3. up'[c][k] \in Event
    BY <1>6, <2>1, Members
  <2>4. up'[c][k].k = "restart" => up'[c][k].i \in Nat
    BY <2>3, EventFields, Bounds
  <2>5. QED
    BY <1>2, <2>2, <2>4 DEF KeyWithin
<1>7. ASSUME NEW k \in DOMAIN msgs' PROVE MsgWithin(msgs'[k], size')
  <2>1. msgs' \in Seq(Msg)
    BY <1>3 DEF Typed, LoopTyped
  <2>2. MsgWithin(msgs'[k], size)
    <3>1. \A j \in DOMAIN msgs : MsgWithin(msgs[j], size)
      BY <1>1 DEF RosterInv
    <3>2. CASE msgs' = msgs
      BY <1>7, <3>1, <3>2
    <3>3. CASE Heard
      <4>1. PICK j \in DOMAIN msgs : msgs'[k] = msgs[j]
        BY <1>3, <1>7, <3>3, HeardRest
      <4>2. QED
        BY <3>1, <4>1
    <3>4. CASE \E m \in Msg : MsgWithin(m, size) /\ Said(m)
      <4>1. PICK m \in Msg : MsgWithin(m, size) /\ Said(m)
        BY <3>4
      <4>2. msgs'[k] = m \/ \E j \in DOMAIN msgs : msgs'[k] = msgs[j]
        BY <1>3, <1>7, <4>1, SaidLast
      <4>3. QED
        BY <3>1, <4>1, <4>2
    <3>5. QED
      BY <1>1, <3>2, <3>3, <3>4, MsgSteps DEF Taken
  <2>3. msgs'[k] \in Msg
    BY <1>7, <2>1, Members
  <2>4. /\ msgs'[k].k = "event" /\ msgs'[k].ev.k = "restart" => msgs'[k].ev.i \in Nat
        /\ msgs'[k].k = "closed" => msgs'[k].i \in Nat
    BY <2>3, MessageFields, EventFields, Bounds
  <2>5. QED
    BY <1>2, <2>2, <2>4 DEF MsgWithin, KeyWithin
<1>8. QED
  BY <1>4, <1>5, <1>6, <1>7 DEF RosterInv

\* A hello that is answered with the welcome
Welcomes(c) ==
  /\ Heard /\ Head(msgs).k = "attach" /\ Head(msgs).c = c /\ Attached(c)
  /\ pc = "idle" /\ UNCHANGED <<paneVars, stateVars, wired, pc, todo, conn, up, clientVars>>

LEMMA BaseSteps ==
  ASSUME Typed, [Next]_vars
  PROVE  \/ base' = base /\ (client' = client \/ client' = NoClient)
         \/ \E c \in Clients : Welcomes(c)
<1> DEFINE Goal == base' = base /\ (client' = client \/ client' = NoClient)
<1>1. msgs \in Seq(Msg)
  BY DEF Typed, LoopTyped
<1>2. CASE Streams \/ Readers \/ UNCHANGED vars
  <2>1. UNCHANGED <<base, client>>
    BY <1>2 DEF Streams, Readers, Output, StreamEnds, PostChunk, ReadEvent, ReadFails, vars, loopVars
  <2>2. QED
    BY <2>1
<1>3. ASSUME NEW d \in Clients, Client(d) PROVE Goal
  BY <1>3 DEF Client, Dial, Welcomed, Leaves, ReadFrame, Apply, AnswerShown, Detach, RestartShown, Key, loopVars
<1>4. CASE AttachClient
  <2> DEFINE d == Head(msgs).c
  <2>1. /\ d \in Clients /\ Take("attach")
        /\ Ignored \/ Refused(d) \/ Attached(d)
        /\ UNCHANGED <<paneVars, stateVars, wired, pc, todo, conn, up, clientVars, sent>>
    BY <1>1, <1>4, AttachKinds
  <2>2. Heard /\ Head(msgs).k = "attach" /\ pc = "idle"
    BY <2>1 DEF Take, Heard, Idle
  <2>3. Ignored \/ Refused(d) => Goal
    BY DEF Ignored, Refused
  <2>4. Attached(d) => Welcomes(d)
    BY <2>1, <2>2 DEF Welcomes
  <2>5. QED
    BY <2>1, <2>3, <2>4
<1>5. CASE \/ Gated \/ ReloadAdds \/ (\E i \in Roles : Delivered(i) \/ ReloadChanges(i))
           \/ PaneClosed \/ Answer \/ RestartKey \/ EnsureTees
  BY <1>5 DEF Gated, ReloadAdds, Delivered, ReloadChanges, PaneClosed, Answer, RestartKey, EnsureTees, handlerRest
<1>6. CASE ClientGone \/ Detached
  BY <1>6 DEF ClientGone, Detached, DropClient
<1>7. CASE Forward \/ ResetPane \/ SyncClient \/ Tick
  <2>1. base' = base /\ (Untold \/ \E fs : Send(fs))
    BY <1>7 DEF Forward, ResetPane, SyncClient, Tick, Untold
  <2>2. QED
    BY <2>1, SendKinds DEF Untold, Dropped, Written
<1>8. QED
  BY <1>2, <1>3, <1>4, <1>5, <1>6, <1>7 DEF Next, Handlers

\* The client knows of every role that was there when it was welcomed.
BaseInv ==
  \A c \in Clients : c = client =>
    /\ conn[c] = "live" => base <= known[c]
    /\ upd[c] # NoFrame => base <= upd[c].size
    /\ \A s \in Sizes(down[c]) : base <= s

\* Every role of the roster has a process, and a tee on it or on an older one; a
\* role that the client was welcomed with had a tee before.
WiredInv ==
  /\ base <= size
  /\ \A i \in Roles :
       /\ wired[i] <= gen[i]
       /\ i > size <=> gen[i] = 0
       /\ i <= size /\ wired[i] = gen[i] => tee[i]
       /\ i <= size /\ pc # "wire" => wired[i] # 0
       /\ i <= base => wired[i] # 0
  /\ pc # "settle" => todo = {}

LEMMA NextBase == Typed /\ WiredInv /\ HelloInv /\ MirrorInv /\ BaseInv /\ [Next]_vars => BaseInv'
<1>1. SUFFICES ASSUME Typed, WiredInv, HelloInv, MirrorInv, BaseInv, [Next]_vars,
                      NEW c \in Clients, c = client'
               PROVE  /\ conn'[c] = "live" => base' <= known'[c]
                      /\ upd'[c] # NoFrame => base' <= upd'[c].size
                      /\ \A s \in Sizes(down'[c]) : base' <= s
  BY DEF BaseInv
<1>2. /\ base \in Nat /\ size \in Nat /\ base <= size /\ c # NoClient
      /\ down[c] \in Seq(Frame) /\ msgs \in Seq(Msg) /\ down \in [Clients -> Seq(Frame)]
  <2>1. base <= size
    BY <1>1 DEF WiredInv
  <2>2. base \in Nat /\ size \in Nat /\ c # NoClient
    BY <1>1, Bounds DEF Typed, PanesTyped, LoopTyped
  <2>3. QED
    BY <1>1, <2>1, <2>2 DEF Typed, LoopTyped, ClientsTyped
<1>3. CASE Welcomes(c)
  <2>1. conn[c] # "live" /\ conn' = conn /\ upd' = upd
    BY <1>1, <1>2, <1>3, Members DEF Welcomes, HelloInv, clientVars, Heard
  <2>2. upd'[c] = NoFrame
    BY <1>1, <2>1 DEF MirrorInv
  <2>3. base' = size /\ down'[c] = <<WelcomeFrame>>
    BY <1>2, <1>3 DEF Welcomes, Attached
  <2>4. Sizes(<<WelcomeFrame>>) \subseteq {size}
    BY DEF Sizes, News, WelcomeFrame
  <2>5. QED
    BY <1>2, <2>1, <2>2, <2>3, <2>4
<1>4. CASE client' = client /\ base' = base
  <2>1. /\ conn[c] = "live" => base <= known[c]
        /\ upd[c] # NoFrame => base <= upd[c].size
        /\ \A s \in Sizes(down[c]) : base <= s
    BY <1>1, <1>4 DEF BaseInv
  <2>2. RosterStep(c) /\ WireStep(c)
    BY <1>1, RosterSteps, WireSteps
  <2>3. conn'[c] = "live" => base <= known'[c]
    <3>1. CASE known'[c] = 0 /\ conn'[c] = "closed"
      BY <3>1
    <3>2. CASE upd[c] # NoFrame /\ known'[c] = upd[c].size
      BY <2>1, <3>2
    <3>3. QED
      BY <2>1, <2>2, <3>1, <3>2 DEF RosterStep
  <2>4. upd'[c] # NoFrame => base <= upd'[c].size
    BY <2>1, <2>2 DEF RosterStep
  <2>5. ASSUME NEW s \in Sizes(down'[c]) PROVE base <= s
    <3>1. CASE Refused(c) \/ Attached(c)
      <4>1. client = NoClient \/ down'[c] = <<[k |-> "refused"]>>
        BY <1>2, <3>1 DEF Refused, Attached
      <4>2. Sizes(<<[k |-> "refused"]>>) = {}
        BY DEF Sizes, News
      <4>3. QED
        BY <1>1, <1>2, <1>4, <2>5, <4>1, <4>2
    <3>2. CASE down'[c] = <<>>
      BY <2>5, <3>2 DEF Sizes, News
    <3>3. CASE down[c] # <<>> /\ down'[c] = Tail(down[c])
      BY <1>2, <2>1, <2>5, <3>3, SizesOf
    <3>4. CASE \E fs : Current(fs) /\ down'[c] = down[c] \o fs
      BY <1>2, <2>1, <2>5, <3>4, SizesOf
    <3>5. QED
      BY <2>1, <2>2, <2>5, <3>1, <3>2, <3>3, <3>4 DEF WireStep
  <2>6. QED
    BY <1>4, <2>3, <2>4, <2>5
<1>5. QED
  <2>1. ASSUME NEW d \in Clients, Welcomes(d) PROVE d = c
    BY <1>1, <2>1 DEF Welcomes, Attached
  <2>2. QED
    BY <1>1, <1>2, <1>3, <1>4, <2>1, BaseSteps

\* What a step does to the panes: nothing, a stream goes on, a process is replaced, a
\* role joins, or the tees are set.
Undisturbed ==
  /\ UNCHANGED <<size, gen, out, tee, held, wired>>
  /\ pc' # "wire" => pc # "wire"
  /\ pc' # "settle" => todo' = {} \/ (todo' = todo /\ pc # "settle")

Replaced(i) ==
  /\ i <= size /\ Respawned(i) /\ UNCHANGED <<wired, todo, base, client>>
  /\ pc = "idle" /\ pc' \in {"wire", "settle"}

Streamed ==
  /\ Streams
  /\ UNCHANGED <<size, gen, tee, wired, base, pc, todo, client, snap, down, conn, view, known>>

LEMMA PaneSteps ==
  ASSUME Typed, RosterInv, WiredInv, [Next]_vars
  PROVE  Undisturbed \/ Streamed \/ (\E i \in Roles : Replaced(i)) \/ ReloadAdds \/ EnsureTees
<1>1. /\ msgs \in Seq(Msg) /\ (pc # "settle" => todo = {}) /\ pc \in {"idle", "wire", "settle"}
      /\ \A i \in Roles : i > size => gen[i] = 0
  BY DEF Typed, LoopTyped, WiredInv
<1>2. /\ pc = "idle" => todo = {}
      /\ UNCHANGED paneVars => UNCHANGED <<size, gen, out, tee, held>>
  BY <1>1 DEF paneVars
<1>3. CASE Streams
  <2>1. UNCHANGED <<size, gen, tee, wired, base, pc, todo, client, snap, down, conn, view, known>>
    BY <1>3 DEF Streams, Output, StreamEnds, PostChunk, loopVars, clientVars
  <2>2. QED
    BY <1>3, <2>1 DEF Streamed
<1>4. CASE Readers \/ UNCHANGED vars
  <2>1. UNCHANGED <<size, gen, out, tee, held, wired, pc, todo>>
    BY <1>4 DEF Readers, ReadEvent, ReadFails, vars, paneVars, loopVars
  <2>2. QED
    BY <1>1, <2>1 DEF Undisturbed
<1>5. ASSUME NEW d \in Clients, Client(d) PROVE Undisturbed
  <2>1. UNCHANGED <<size, gen, out, tee, held, wired, pc, todo>>
    BY <1>5 DEF Client, Dial, Welcomed, Leaves, ReadFrame, Apply, AnswerShown, Detach, RestartShown, Key, paneVars, loopVars
  <2>2. QED
    BY <1>1, <2>1 DEF Undisturbed
<1>6. CASE Gated \/ Forward \/ AttachClient \/ ClientGone \/ Detached \/ Tick
  <2>1. AttachClient => UNCHANGED <<size, gen, out, tee, held, wired, todo>> /\ pc = "idle"
    BY DEF AttachClient, paneVars, Take, Idle
  <2>2. UNCHANGED <<size, gen, out, tee, held, wired, todo>> /\ pc = "idle"
    BY <1>6, <2>1 DEF Gated, Forward, ClientGone, Detached, Tick, Take, Idle, paneVars, handlerRest
  <2>3. QED
    BY <1>2, <2>2 DEF Undisturbed
<1>7. CASE ResetPane \/ SyncClient
  <2>1. /\ UNCHANGED <<size, gen, out, tee, held, wired>> /\ pc = "settle"
        /\ pc' = "settle" \/ (todo = {} /\ todo' = todo)
    BY <1>7 DEF ResetPane, SyncClient, paneVars
  <2>2. QED
    BY <2>1 DEF Undisturbed
<1>8. CASE \E i \in Roles : Delivered(i) \/ ReloadChanges(i)
  <2>1. PICK i \in Roles : Delivered(i) \/ ReloadChanges(i)
    BY <1>8
  <2>2. Replaced(i)
    BY <2>1 DEF Delivered, ReloadChanges, Replaced, Idle, Settle, WireAndSettle, handlerRest
  <2>3. QED
    BY <2>2
<1>9. CASE PaneClosed
  <2> DEFINE m == Head(msgs)
  <2>1. Take("closed")
    BY <1>9 DEF PaneClosed
  <2>2. m \in Msg /\ m.k = "closed" /\ MsgWithin(m, size) /\ pc = "idle"
    <3>1. m \in Msg /\ m.k = "closed" /\ pc = "idle" /\ msgs # <<>>
      BY <1>1, <2>1, TakeTyped
    <3>2. m = msgs[1] /\ 1 \in DOMAIN msgs
      BY <1>1, <3>1, Members
    <3>3. QED
      BY <3>1, <3>2 DEF RosterInv
  <2>3. m.i \in Roles /\ m.i <= size
    BY <2>2, MessageFields DEF MsgWithin
  <2>4. UNCHANGED <<wired, todo, base, client>>
    BY <1>9 DEF PaneClosed, handlerRest
  <2>5. CASE UNCHANGED paneVars
    BY <1>2, <2>2, <2>4, <2>5 DEF Undisturbed
  <2>6. CASE Respawned(m.i) /\ pc' = "wire"
    BY <2>2, <2>3, <2>4, <2>6 DEF Replaced
  <2>7. QED
    BY <1>9, <2>5, <2>6 DEF PaneClosed, WireAndSettle
<1>10. CASE Answer
  <2>1. UNCHANGED <<wired, todo, base, client>> /\ pc = "idle" /\ pc' \in {"wire", "settle"}
    BY <1>10 DEF Answer, handlerRest, Settle, WireAndSettle, Take, Idle
  <2>2. CASE UNCHANGED paneVars
    BY <1>2, <2>1, <2>2 DEF Undisturbed
  <2>3. CASE \E i \in Fresh : i <= size /\ Respawned(i)
    BY <2>1, <2>3, Bounds DEF Replaced
  <2>4. QED
    BY <1>10, <2>2, <2>3 DEF Answer
<1>11. CASE RestartKey
  <2> DEFINE m == Head(msgs)
  <2>1. Take("event") /\ m.ev.k = "restart" /\ pc' = "wire"
    BY <1>11 DEF RestartKey, WireAndSettle
  <2>2. m \in Msg /\ m.k = "event" /\ MsgWithin(m, size) /\ pc = "idle"
    <3>1. m \in Msg /\ m.k = "event" /\ pc = "idle" /\ msgs # <<>>
      BY <1>1, <2>1, TakeTyped
    <3>2. m = msgs[1] /\ 1 \in DOMAIN msgs
      BY <1>1, <3>1, Members
    <3>3. QED
      BY <3>1, <3>2 DEF RosterInv
  <2>3. m.ev.i \in Roles /\ m.ev.i <= size
    BY <2>1, <2>2, MessageFields, EventFields DEF MsgWithin, KeyWithin
  <2>4. UNCHANGED <<wired, todo, base, client>>
    BY <1>11 DEF RestartKey, handlerRest
  <2>5. CASE UNCHANGED paneVars
    BY <1>2, <2>1, <2>2, <2>4, <2>5 DEF Undisturbed
  <2>6. CASE Respawned(m.ev.i)
    BY <2>1, <2>2, <2>3, <2>4, <2>6 DEF Replaced
  <2>7. QED
    BY <1>11, <2>5, <2>6 DEF RestartKey
<1>12. QED
  BY <1>3, <1>4, <1>5, <1>6, <1>7, <1>8, <1>9, <1>10, <1>11 DEF Next, Handlers

LEMMA NextWired == Typed /\ RosterInv /\ WiredInv /\ [Next]_vars => WiredInv'
<1>1. SUFFICES ASSUME Typed, RosterInv, WiredInv, [Next]_vars PROVE WiredInv'
  OBVIOUS
<1> DEFINE Role(i) ==
      /\ wired'[i] <= gen'[i]
      /\ i > size' <=> gen'[i] = 0
      /\ i <= size' /\ wired'[i] = gen'[i] => tee'[i]
      /\ i <= size' /\ pc' # "wire" => wired'[i] # 0
<1>2. /\ gen \in [Roles -> Nat] /\ wired \in [Roles -> Nat] /\ tee \in [Roles -> BOOLEAN]
      /\ size \in Nat /\ base \in Nat /\ base <= size /\ pc \in {"idle", "wire", "settle"}
      /\ size' \in Nat /\ size <= size' /\ Roles \subseteq Nat
  <2>1. base <= size
    BY <1>1 DEF WiredInv
  <2>2. size \in Nat /\ size' \in Nat /\ size <= size' /\ Roles \subseteq Nat
    BY <1>1, SizeSteps, Bounds
  <2>3. QED
    BY <1>1, <2>1, <2>2 DEF Typed, PanesTyped, LoopTyped
<1>3. CASE base' = base
  <2>1. base' <= size'
    BY <1>2, <1>3
  <2>2. CASE Undisturbed \/ Streamed
    <3>1. UNCHANGED <<size, gen, tee, wired>> /\ (pc' # "wire" => pc # "wire")
      BY <2>2 DEF Undisturbed, Streamed
    <3>2. pc' # "settle" => todo' = {}
      BY <1>1, <2>2 DEF Undisturbed, Streamed, WiredInv
    <3>3. QED
      BY <1>1, <1>3, <2>1, <3>1, <3>2 DEF WiredInv
  <2>3. ASSUME NEW j \in Roles, Replaced(j) PROVE WiredInv'
    <3>1. /\ size' = size /\ wired' = wired /\ todo' = todo /\ pc = "idle" /\ pc' \in {"wire", "settle"}
          /\ gen' = [gen EXCEPT ![j] = @ + 1] /\ tee' = [tee EXCEPT ![j] = FALSE] /\ j <= size
      BY <2>3 DEF Replaced, Respawned
    <3>2. todo' = {}
      BY <1>1, <3>1 DEF WiredInv
    <3>3. ASSUME NEW i \in Roles PROVE Role(i)
      <4>1. CASE i = j
        <5>1. gen'[i] = gen[i] + 1 /\ wired[i] <= gen[i]
          BY <1>1, <1>2, <3>1, <4>1 DEF WiredInv
        <5>2. wired[i] # 0
          BY <1>1, <3>1, <4>1 DEF WiredInv
        <5>3. QED
          BY <1>2, <3>1, <4>1, <5>1, <5>2
      <4>2. CASE i # j
        BY <1>1, <1>2, <3>1, <4>2 DEF WiredInv
      <4>3. QED
        BY <4>1, <4>2
    <3>4. \A i \in Roles : i <= base' => wired'[i] # 0
      BY <1>1, <1>3, <3>1 DEF WiredInv
    <3>5. QED
      BY <2>1, <3>2, <3>3, <3>4 DEF WiredInv
  <2>4. CASE ReloadAdds
    <3>1. /\ size' = size + 1 /\ wired' = wired /\ todo' = todo /\ pc = "idle" /\ pc' = "wire"
          /\ gen' = [gen EXCEPT ![size + 1] = 1] /\ tee' = tee
      BY <2>4 DEF ReloadAdds, handlerRest, Idle, WireAndSettle
    <3>2. todo' = {}
      BY <1>1, <3>1 DEF WiredInv
    <3>3. ASSUME NEW i \in Roles PROVE Role(i)
      <4>1. CASE i = size + 1
        <5>1. gen[i] = 0 /\ wired[i] <= gen[i]
          BY <1>1, <1>2, <4>1 DEF WiredInv
        <5>2. QED
          BY <1>2, <3>1, <4>1, <5>1
      <4>2. CASE i # size + 1
        <5>1. gen'[i] = gen[i] /\ (i <= size' <=> i <= size) /\ (i > size' <=> i > size)
          BY <1>2, <3>1, <4>2
        <5>2. QED
          BY <1>1, <3>1, <5>1 DEF WiredInv
      <4>3. QED
        BY <4>1, <4>2
    <3>4. \A i \in Roles : i <= base' => wired'[i] # 0
      BY <1>1, <1>3, <3>1 DEF WiredInv
    <3>5. QED
      BY <2>1, <3>2, <3>3, <3>4 DEF WiredInv
  <2>5. CASE EnsureTees
    <3> DEFINE unwired == {i \in 1 .. size : wired[i] # gen[i]}
    <3>1. /\ size' = size /\ gen' = gen /\ pc' = "settle"
          /\ tee' = [i \in Roles |-> i \in unwired \/ tee[i]]
          /\ wired' = [i \in Roles |-> IF i \in unwired THEN gen[i] ELSE wired[i]]
      BY <2>5 DEF EnsureTees, Settle
    <3>2. ASSUME NEW i \in Roles PROVE Role(i) /\ (i <= base' => wired'[i] # 0)
      <4>1. i \in 1 .. size <=> i <= size
        BY <1>2, Bounds
      <4>2. /\ i > size <=> gen[i] = 0
            /\ wired[i] <= gen[i] /\ (i <= size /\ wired[i] = gen[i] => tee[i])
            /\ i <= base => wired[i] # 0
        BY <1>1 DEF WiredInv
      <4>3. CASE i \in unwired
        <5>1. wired'[i] = gen[i] /\ tee'[i] /\ i <= size
          BY <1>2, <3>1, <4>1, <4>3
        <5>2. QED
          BY <1>2, <1>3, <3>1, <4>2, <5>1
      <4>4. CASE i \notin unwired
        <5>1. wired'[i] = wired[i] /\ tee'[i] = tee[i] /\ (i <= size => wired[i] = gen[i])
          BY <1>2, <3>1, <4>1, <4>4
        <5>2. QED
          BY <1>2, <1>3, <3>1, <4>2, <5>1
      <4>5. QED
        BY <4>3, <4>4
    <3>3. QED
      BY <2>1, <3>1, <3>2 DEF WiredInv
  <2>6. QED
    BY <1>1, <2>2, <2>3, <2>4, <2>5, PaneSteps
<1>4. ASSUME NEW c \in Clients, Welcomes(c) PROVE WiredInv'
  <2>1. base' = size /\ UNCHANGED <<size, gen, tee, wired, pc, todo>> /\ pc = "idle"
    BY <1>4 DEF Welcomes, Attached, paneVars
  <2>2. QED
    BY <1>1, <1>2, <2>1 DEF WiredInv
<1>5. QED
  BY <1>1, <1>3, <1>4, BaseSteps

-----------------------------------------------------------------------------
(* The numbers of chunks *)

\* A chunk that is on its way to the client is of a process that was started, and one
\* of the running process is in its ring; a stream holds the newest one only.
Past(x, gs, os) == x.g <= gs[x.i] /\ (x.g = gs[x.i] => x.n <= os[x.i])

NumbersInv ==
  /\ \A h \in held : Past(h, gen, out) /\ (h.g = gen[h.i] => h.n = out[h.i])
  /\ \A k \in DOMAIN msgs : msgs[k].k = "output" => Past(msgs[k], gen, out)

LEMMA NextNumbers == Typed /\ RosterInv /\ WiredInv /\ NumbersInv /\ [Next]_vars => NumbersInv'
<1>1. SUFFICES ASSUME Typed, RosterInv, WiredInv, NumbersInv, [Next]_vars PROVE NumbersInv'
  OBVIOUS
<1>2. /\ gen \in [Roles -> Nat] /\ out \in [Roles -> Nat] /\ held \subseteq [i : Roles, g : Nat, n : Nat]
      /\ gen' \in [Roles -> Nat] /\ out' \in [Roles -> Nat]
      /\ msgs \in Seq(Msg) /\ size \in Nat /\ Roles \subseteq Nat
  <2>1. Typed' /\ size \in Nat /\ Roles \subseteq Nat
    BY <1>1, NextTyped, SizeSteps, Bounds
  <2>2. gen' \in [Roles -> Nat] /\ out' \in [Roles -> Nat]
    BY <2>1 DEF Typed, PanesTyped
  <2>3. QED
    BY <1>1, <2>1, <2>2 DEF Typed, PanesTyped, LoopTyped
<1>3. \A h \in held : h.i \in Roles /\ h.g \in Nat /\ h.n \in Nat
  BY <1>2
<1> DEFINE Later(i) == (gen'[i] = gen[i] /\ out[i] <= out'[i]) \/ gen[i] < gen'[i]
           Held == \A h \in held' : Past(h, gen', out') /\ (h.g = gen'[h.i] => h.n = out'[h.i])
<1>4. (\A i \in Roles : Later(i)) /\ Held
  <2>1. CASE Undisturbed \/ EnsureTees
    <3>1. gen' = gen /\ out' = out /\ held' = held
      BY <2>1 DEF Undisturbed, EnsureTees
    <3>2. QED
      BY <1>1, <1>2, <3>1 DEF NumbersInv
  <2>2. ASSUME NEW i \in Roles, Output(i) PROVE (\A j \in Roles : Later(j)) /\ Held
    <3>1. /\ ~\E h \in held : h.i = i /\ h.g = gen[i]
          /\ out' = [out EXCEPT ![i] = @ + 1] /\ gen' = gen
          /\ \A h \in held' : h \in held \/ h = [i |-> i, g |-> gen[i], n |-> out[i] + 1]
      BY <2>2 DEF Output
    <3>2. \A j \in Roles : Later(j)
      BY <1>2, <3>1
    <3>3. ASSUME NEW h \in held' PROVE Past(h, gen', out') /\ (h.g = gen'[h.i] => h.n = out'[h.i])
      <4>1. CASE h \in held
        <5>1. Past(h, gen, out) /\ (h.g = gen[h.i] => h.n = out[h.i]) /\ ~(h.i = i /\ h.g = gen[i])
          BY <1>1, <3>1, <4>1 DEF NumbersInv
        <5>2. h.i # i => out'[h.i] = out[h.i]
          BY <1>2, <1>3, <3>1, <4>1
        <5>3. QED
          BY <3>1, <5>1, <5>2 DEF Past
      <4>2. CASE h = [i |-> i, g |-> gen[i], n |-> out[i] + 1]
        <5>1. h.i = i /\ h.g = gen[i] /\ h.n = out'[i] /\ h.n \in Nat /\ gen[i] \in Nat
          BY <1>2, <3>1, <4>2
        <5>2. QED
          BY <3>1, <5>1 DEF Past
      <4>3. QED
        BY <3>1, <4>1, <4>2
    <3>4. QED
      BY <3>2, <3>3
  <2>3. ASSUME NEW i \in Roles, StreamEnds(i) PROVE (\A j \in Roles : Later(j)) /\ Held
    <3>1. gen' = gen /\ out' = out /\ held' = held
      BY <2>3 DEF StreamEnds
    <3>2. QED
      BY <1>1, <1>2, <3>1 DEF NumbersInv
  <2>4. ASSUME NEW h \in held, PostChunk(h) PROVE (\A j \in Roles : Later(j)) /\ Held
    <3>1. gen' = gen /\ out' = out /\ \A x \in held' : x \in held
      BY <2>4 DEF PostChunk
    <3>2. \A i \in Roles : Later(i)
      BY <1>2, <3>1
    <3>3. \A x \in held : Past(x, gen, out) /\ (x.g = gen[x.i] => x.n = out[x.i])
      BY <1>1 DEF NumbersInv
    <3>4. QED
      BY <3>1, <3>2, <3>3
  <2>5. ASSUME NEW j, gen' = [gen EXCEPT ![j] = gen'[j]], j \in Roles => gen[j] < gen'[j], held' = held,
               \A i \in Roles \ {j} : out'[i] = out[i]
        PROVE  (\A i \in Roles : Later(i)) /\ Held
    <3>1. \A i \in Roles : Later(i)
      BY <1>2, <2>5
    <3>2. ASSUME NEW h \in held PROVE Past(h, gen', out') /\ (h.g = gen'[h.i] => h.n = out'[h.i])
      <4>1. Past(h, gen, out) /\ (h.g = gen[h.i] => h.n = out[h.i])
        BY <1>1 DEF NumbersInv
      <4>2. CASE h.i = j
        <5>1. h.g <= gen[j] /\ gen[j] < gen'[j] /\ gen[j] \in Nat /\ gen'[j] \in Nat /\ h.g \in Nat
          BY <1>2, <1>3, <2>5, <4>1, <4>2 DEF Past
        <5>2. h.g < gen'[h.i]
          BY <4>2, <5>1
        <5>3. QED
          BY <1>2, <1>3, <4>2, <5>1, <5>2 DEF Past
      <4>3. CASE h.i # j
        <5>1. gen'[h.i] = gen[h.i] /\ out'[h.i] = out[h.i]
          BY <1>2, <1>3, <2>5, <4>3
        <5>2. QED
          BY <4>1, <5>1 DEF Past
      <4>4. QED
        BY <4>2, <4>3
    <3>3. QED
      BY <2>5, <3>1, <3>2
  <2>6. ASSUME NEW i \in Roles, Replaced(i) PROVE (\A j \in Roles : Later(j)) /\ Held
    <3>1. gen' = [gen EXCEPT ![i] = @ + 1] /\ out' = [out EXCEPT ![i] = 0] /\ held' = held
      BY <2>6 DEF Replaced, Respawned
    <3>2. gen[i] < gen'[i] /\ gen' = [gen EXCEPT ![i] = gen'[i]] /\ \A j \in Roles \ {i} : out'[j] = out[j]
      BY <1>2, <3>1
    <3>3. QED
      BY <2>5, <3>1, <3>2
  <2>7. CASE ReloadAdds
    <3> DEFINE i == size + 1
    <3>1. gen' = [gen EXCEPT ![i] = 1] /\ out' = out /\ held' = held
      BY <2>7 DEF ReloadAdds
    <3>2. i \in Roles => gen[i] = 0
      BY <1>1, <1>2 DEF WiredInv
    <3> HIDE DEF i
    <3>3. /\ i \in Roles => gen[i] < gen'[i]
          /\ gen' = [gen EXCEPT ![i] = gen'[i]] /\ \A j \in Roles \ {i} : out'[j] = out[j]
      BY <1>2, <3>1, <3>2
    <3>4. QED
      BY <2>5, <3>1, <3>3
  <2>8. QED
    BY <1>1, <2>1, <2>2, <2>3, <2>4, <2>6, <2>7, PaneSteps DEF Streamed, Streams
<1>5. ASSUME NEW x, x.i \in Roles, x.g \in Nat, x.n \in Nat, Past(x, gen, out) PROVE Past(x, gen', out')
  <2>1. Later(x.i) /\ gen[x.i] \in Nat /\ gen'[x.i] \in Nat /\ out[x.i] \in Nat /\ out'[x.i] \in Nat
    BY <1>2, <1>4, <1>5
  <2>2. QED
    BY <1>5, <2>1 DEF Past
<1>6. ASSUME NEW k \in DOMAIN msgs', msgs'[k].k = "output" PROVE Past(msgs'[k], gen', out')
  <2>1. ASSUME NEW j \in DOMAIN msgs, msgs[j].k = "output" PROVE Past(msgs[j], gen', out')
    <3>1. msgs[j] \in Msg /\ Past(msgs[j], gen, out)
      BY <1>1, <1>2, <2>1, Members DEF NumbersInv
    <3>2. QED
      BY <1>5, <2>1, <3>1, MessageFields
  <2>2. CASE msgs' = msgs
    BY <1>6, <2>1, <2>2
  <2>3. CASE Heard
    <3>1. PICK j \in DOMAIN msgs : msgs'[k] = msgs[j]
      BY <1>2, <1>6, <2>3, HeardRest
    <3>2. QED
      BY <1>6, <2>1, <3>1
  <2>4. CASE \E m \in Msg : Copied(m) /\ Said(m)
    <3>1. PICK m \in Msg : Copied(m) /\ Said(m)
      BY <2>4
    <3>2. m.k = "output" => Past(m, gen', out')
      <4>1. SUFFICES ASSUME m.k = "output" PROVE Past(m, gen', out')
        OBVIOUS
      <4>2. PICK h \in held : m.i = h.i /\ m.g = h.g /\ m.n = h.n
        BY <3>1, <4>1 DEF Copied
      <4>3. Past(m, gen, out)
        BY <1>1, <4>2 DEF NumbersInv, Past
      <4>4. QED
        BY <1>5, <4>1, <4>3, MessageFields
    <3>3. msgs'[k] = m \/ \E j \in DOMAIN msgs : msgs'[k] = msgs[j]
      BY <1>2, <1>6, <3>1, SaidLast
    <3>4. QED
      BY <1>6, <2>1, <3>2, <3>3
  <2>5. QED
    BY <1>1, <2>2, <2>3, <2>4, MsgSteps DEF Taken
<1>7. QED
  BY <1>4, <1>6 DEF NumbersInv

-----------------------------------------------------------------------------
(* What comes of frames and of messages, one by one *)

Chunked == Seq(Nat \X Nat)

\* The frames ds make w of the chunks v in the pane of role i.
Makes(i, v, ds, w) ==
  \E h \in [0 .. Len(ds) -> Chunked] :
    /\ h[0] = v /\ h[Len(ds)] = w
    /\ \A k \in 1 .. Len(ds) : h[k] = Arrive(i, h[k - 1], ds[k])

LEMMA MakesNone == \A i, v : v \in Chunked => Makes(i, v, <<>>, v)
<1>1. SUFFICES ASSUME NEW i, NEW v \in Chunked PROVE Makes(i, v, <<>>, v)
  OBVIOUS
<1>2. Len(<<>>) = 0
  OBVIOUS
<1> DEFINE h == [k \in 0 .. 0 |-> v]
<1>3. h \in [0 .. 0 -> Chunked] /\ h[0] = v /\ 1 .. 0 = {}
  OBVIOUS
<1> HIDE DEF h
<1>4. QED
  BY <1>2, <1>3 DEF Makes

LEMMA MakesMore ==
  ASSUME NEW i \in Roles, NEW v, NEW w, NEW ds \in Seq(Frame), NEW f \in Frame, Makes(i, v, ds, w)
  PROVE  Makes(i, v, Append(ds, f), Arrive(i, w, f))
<1> DEFINE n == Len(ds)
           es == Append(ds, f)
           x == Arrive(i, w, f)
<1>1. PICK h \in [0 .. n -> Chunked] :
        h[0] = v /\ h[n] = w /\ \A k \in 1 .. n : h[k] = Arrive(i, h[k - 1], ds[k])
  BY DEF Makes
<1>2. n \in Nat /\ Len(es) = n + 1 /\ es[n + 1] = f /\ \A k \in 1 .. n : es[k] = ds[k]
  OBVIOUS
<1>3. x \in Chunked
  BY <1>1, <1>2, ArriveTyped DEF Chunked
<1> DEFINE g == [k \in 0 .. n + 1 |-> IF k = n + 1 THEN x ELSE h[k]]
<1> HIDE DEF es, n, x
<1>4. g \in [0 .. n + 1 -> Chunked] /\ g[n + 1] = x /\ \A k \in 0 .. n : g[k] = h[k]
  BY <1>1, <1>2, <1>3
<1> HIDE DEF g
<1>5. ASSUME NEW k \in 1 .. n + 1 PROVE g[k] = Arrive(i, g[k - 1], es[k])
  <2>1. CASE k = n + 1
    <3>1. k - 1 = n /\ n \in 0 .. n /\ g[k] = x /\ es[k] = f /\ g[n] = w
      BY <1>1, <1>2, <1>4, <2>1
    <3>2. QED
      BY <3>1 DEF x
  <2>2. CASE k # n + 1
    <3>1. k \in 1 .. n /\ k \in 0 .. n /\ k - 1 \in 0 .. n
      BY <1>2, <2>2
    <3>2. QED
      BY <1>1, <1>2, <1>4, <3>1
  <2>3. QED
    BY <2>1, <2>2
<1>6. g[0] = v
  BY <1>1, <1>2, <1>4
<1>7. Makes(i, v, es, x)
  BY <1>2, <1>4, <1>5, <1>6 DEF Makes
<1>8. QED
  BY <1>7 DEF es, x

LEMMA MakesRest ==
  ASSUME NEW i, NEW v, NEW w, NEW ds \in Seq(Frame), ds # <<>>, Makes(i, v, ds, w)
  PROVE  Makes(i, Arrive(i, v, Head(ds)), Tail(ds), w)
<1> DEFINE n == Len(ds)
           es == Tail(ds)
           x == Arrive(i, v, Head(ds))
<1>1. PICK h \in [0 .. n -> Chunked] :
        h[0] = v /\ h[n] = w /\ \A k \in 1 .. n : h[k] = Arrive(i, h[k - 1], ds[k])
  BY DEF Makes
<1>2. n \in Nat /\ n >= 1 /\ Len(es) = n - 1 /\ Head(ds) = ds[1] /\ \A k \in 1 .. n - 1 : es[k] = ds[k + 1]
  OBVIOUS
<1>3. h[1] = x
  BY <1>1, <1>2
<1> DEFINE g == [k \in 0 .. n - 1 |-> h[k + 1]]
<1> HIDE DEF es, n, x
<1>4. g \in [0 .. n - 1 -> Chunked] /\ g[0] = x /\ g[n - 1] = w
  BY <1>1, <1>2, <1>3
<1>5. ASSUME NEW k \in 1 .. n - 1 PROVE g[k] = Arrive(i, g[k - 1], es[k])
  <2>1. k + 1 \in 1 .. n /\ g[k] = h[k + 1] /\ g[k - 1] = h[k] /\ (k + 1) - 1 = k
    BY <1>2
  <2>2. h[k + 1] = Arrive(i, h[(k + 1) - 1], ds[k + 1])
    BY <1>1, <2>1
  <2>3. QED
    BY <1>2, <2>1, <2>2
<1> HIDE DEF g
<1>6. Makes(i, x, es, w)
  BY <1>2, <1>4, <1>5 DEF Makes
<1>7. QED
  BY <1>6 DEF es, x

\* Message m, on its way to the loop, brings the next chunk after a, or none, of process
\* g in role i to a client whose snapshot ends at s.
Counts(m, i, g, s) == m.k = "output" /\ m.i = i /\ m.g = g /\ m.n > s
Brings(m, i, g, s, a, b) == IF Counts(m, i, g, s) THEN m.n = a + 1 /\ b = a + 1 ELSE b = a

\* The messages ms bring the chunks after a up to b.
Goes(ms, i, g, s, a, b) ==
  \E q \in [0 .. Len(ms) -> Nat] :
    /\ q[0] = a /\ q[Len(ms)] = b
    /\ \A k \in 1 .. Len(ms) : Brings(ms[k], i, g, s, q[k - 1], q[k])

LEMMA GoesNowhere ==
  ASSUME NEW ms \in Seq(Msg), NEW i, NEW g, NEW s, NEW a \in Nat,
         \A k \in DOMAIN ms : ~Counts(ms[k], i, g, s)
  PROVE  Goes(ms, i, g, s, a, a)
<1> DEFINE q == [k \in 0 .. Len(ms) |-> a]
<1>1. /\ q \in [0 .. Len(ms) -> Nat] /\ q[0] = a /\ q[Len(ms)] = a
      /\ \A k \in 1 .. Len(ms) : k \in DOMAIN ms /\ q[k - 1] = a /\ q[k] = a
  OBVIOUS
<1> HIDE DEF q
<1>2. \A k \in 1 .. Len(ms) : Brings(ms[k], i, g, s, q[k - 1], q[k])
  BY <1>1 DEF Brings
<1>3. QED
  BY <1>1, <1>2 DEF Goes

LEMMA GoesMore ==
  ASSUME NEW i, NEW g, NEW s, NEW a, NEW b, NEW ms \in Seq(Msg), NEW m \in Msg,
         Goes(ms, i, g, s, a, b), NEW d \in Nat, Brings(m, i, g, s, b, d)
  PROVE  Goes(Append(ms, m), i, g, s, a, d)
<1> DEFINE n == Len(ms)
           es == Append(ms, m)
<1>1. PICK h \in [0 .. n -> Nat] :
        h[0] = a /\ h[n] = b /\ \A k \in 1 .. n : Brings(ms[k], i, g, s, h[k - 1], h[k])
  BY DEF Goes
<1>2. n \in Nat /\ Len(es) = n + 1 /\ es[n + 1] = m /\ \A k \in 1 .. n : es[k] = ms[k]
  OBVIOUS
<1> DEFINE q == [k \in 0 .. n + 1 |-> IF k = n + 1 THEN d ELSE h[k]]
<1> HIDE DEF es, n
<1>4. q \in [0 .. n + 1 -> Nat] /\ q[n + 1] = d /\ \A k \in 0 .. n : q[k] = h[k]
  BY <1>1, <1>2
<1> HIDE DEF q
<1>5. ASSUME NEW k \in 1 .. n + 1 PROVE Brings(es[k], i, g, s, q[k - 1], q[k])
  <2>1. CASE k = n + 1
    <3>1. k - 1 = n /\ n \in 0 .. n /\ q[k] = d /\ es[k] = m /\ q[n] = b
      BY <1>1, <1>2, <1>4, <2>1
    <3>2. QED
      BY <3>1
  <2>2. CASE k # n + 1
    <3>1. k \in 1 .. n /\ k \in 0 .. n /\ k - 1 \in 0 .. n
      BY <1>2, <2>2
    <3>2. QED
      BY <1>1, <1>2, <1>4, <3>1
  <2>3. QED
    BY <2>1, <2>2
<1>6. q[0] = a
  BY <1>1, <1>2, <1>4
<1>7. Goes(es, i, g, s, a, d)
  BY <1>2, <1>4, <1>5, <1>6 DEF Goes
<1>8. QED
  BY <1>7 DEF es

LEMMA GoesRest ==
  ASSUME NEW i, NEW g, NEW s, NEW a, NEW b, NEW ms \in Seq(Msg), ms # <<>>, Goes(ms, i, g, s, a, b)
  PROVE  \E d \in Nat : Brings(Head(ms), i, g, s, a, d) /\ Goes(Tail(ms), i, g, s, d, b)
<1> DEFINE n == Len(ms)
           es == Tail(ms)
<1>1. PICK h \in [0 .. n -> Nat] :
        h[0] = a /\ h[n] = b /\ \A k \in 1 .. n : Brings(ms[k], i, g, s, h[k - 1], h[k])
  BY DEF Goes
<1>2. n \in Nat /\ n >= 1 /\ Len(es) = n - 1 /\ Head(ms) = ms[1] /\ \A k \in 1 .. n - 1 : es[k] = ms[k + 1]
  OBVIOUS
<1>3. Brings(ms[1], i, g, s, a, h[1]) /\ h[1] \in Nat
  <2>1. 1 \in 1 .. n /\ 1 - 1 = 0 /\ 1 \in 0 .. n
    BY <1>2
  <2>2. QED
    BY <1>1, <2>1
<1> DEFINE q == [k \in 0 .. n - 1 |-> h[k + 1]]
<1> HIDE DEF es, n
<1>4. q \in [0 .. n - 1 -> Nat] /\ q[0] = h[1] /\ q[n - 1] = b
  BY <1>1, <1>2
<1>5. ASSUME NEW k \in 1 .. n - 1 PROVE Brings(es[k], i, g, s, q[k - 1], q[k])
  <2>1. k + 1 \in 1 .. n /\ q[k] = h[k + 1] /\ q[k - 1] = h[k] /\ (k + 1) - 1 = k
    BY <1>2
  <2>2. Brings(ms[k + 1], i, g, s, h[(k + 1) - 1], h[k + 1])
    BY <1>1, <2>1
  <2>3. QED
    BY <1>2, <2>1, <2>2
<1> HIDE DEF q
<1>6. Goes(es, i, g, s, h[1], b)
  BY <1>2, <1>4, <1>5 DEF Goes
<1>7. QED
  BY <1>2, <1>3, <1>6 DEF es

-----------------------------------------------------------------------------
(* The output, from the ring to the client's pane *)

\* The chunk of role i's process that its stream has still to post, and how many the
\* loop has been told of
Unposted(i) == {h \in held : h.i = i /\ h.g = gen[i] /\ h.n > snap[i]}
Posted(i) == IF Unposted(i) = {} THEN out[i] ELSE out[i] - 1

\* The frames on their way to c make the first p chunks of role i's process in its
\* pane, and the loop's messages bring the others that were posted.
Piped(c, i) ==
  /\ snap[i] <= Posted(i)
  /\ \E p \in Nat : /\ Makes(i, view[c][i], down[c], Upto(gen[i], p))
                    /\ Goes(msgs, i, gen[i], snap[i], p, Posted(i))

Premise(c, i) == c = client /\ Reached(c) /\ i <= base /\ wired[i] = gen[i] /\ i \notin todo

PipeInv == \A c \in Clients, i \in Roles : Premise(c, i) => Piped(c, i)

\* What is to be replayed, and what the client's snapshot holds, changes when the tees
\* are set, when a pane is replayed and when a client is welcomed.
LEMMA ReplaySteps ==
  ASSUME Typed, [Next]_vars
  PROVE  /\ todo' = todo \/ ResetPane \/ EnsureTees
         /\ snap' = snap \/ ResetPane \/ \E c \in Clients : Welcomes(c)
<1> DEFINE Goal == /\ todo' = todo \/ ResetPane \/ EnsureTees
                   /\ snap' = snap \/ ResetPane \/ \E c \in Clients : Welcomes(c)
<1>1. msgs \in Seq(Msg)
  BY DEF Typed, LoopTyped
<1>2. CASE Streams \/ Readers \/ UNCHANGED vars
  <2>1. UNCHANGED <<todo, snap>>
    BY <1>2 DEF Streams, Readers, Output, StreamEnds, PostChunk, ReadEvent, ReadFails, vars, loopVars
  <2>2. QED
    BY <2>1
<1>3. ASSUME NEW d \in Clients, Client(d) PROVE Goal
  BY <1>3 DEF Client, Dial, Welcomed, Leaves, ReadFrame, Apply, AnswerShown, Detach, RestartShown, Key, loopVars
<1>4. CASE AttachClient
  <2> DEFINE d == Head(msgs).c
  <2>1. /\ d \in Clients /\ Take("attach")
        /\ Ignored \/ Refused(d) \/ Attached(d)
        /\ UNCHANGED <<paneVars, stateVars, wired, pc, todo, conn, up, clientVars, sent>>
    BY <1>1, <1>4, AttachKinds
  <2>2. Heard /\ Head(msgs).k = "attach" /\ pc = "idle" /\ todo' = todo
    BY <2>1 DEF Take, Heard, Idle
  <2>3. Ignored \/ Refused(d) => snap' = snap
    BY DEF Ignored, Refused
  <2>4. Attached(d) => Welcomes(d)
    BY <2>1, <2>2 DEF Welcomes
  <2>5. QED
    BY <2>1, <2>2, <2>3, <2>4
<1>5. CASE \/ Gated \/ ReloadAdds \/ (\E i \in Roles : Delivered(i) \/ ReloadChanges(i))
           \/ PaneClosed \/ Answer \/ RestartKey \/ Forward \/ ClientGone \/ Detached \/ SyncClient \/ Tick
  BY <1>5 DEF Gated, ReloadAdds, Delivered, ReloadChanges, PaneClosed, Answer, RestartKey, Forward, ClientGone,
     Detached, SyncClient, Tick, handlerRest
<1>6. CASE EnsureTees \/ ResetPane
  BY <1>6 DEF EnsureTees
<1>7. QED
  BY <1>2, <1>3, <1>4, <1>5, <1>6 DEF Next, Handlers

\* A connection that is there was there before, unless it is dialled just now.
LEMMA ReachedBefore ==
  ASSUME Typed, [Next]_vars, NEW c \in Clients, conn[c] # "idle", conn'[c] \in {"dialing", "live"}
  PROVE  Reached(c)
<1>1. conn \in [Clients -> {"idle", "dialing", "live", "closed"}]
  BY DEF Typed, ClientsTyped
<1>2. conn' = conn => Reached(c)
  BY DEF Reached
<1>3. CASE Streams \/ Readers \/ UNCHANGED vars
  <2>1. conn' = conn
    BY <1>3 DEF Streams, Readers, Output, StreamEnds, PostChunk, ReadEvent, ReadFails, vars
  <2>2. QED
    BY <1>2, <2>1
<1>4. CASE Handlers
  <2>1. AttachClient => conn' = conn
    BY DEF AttachClient
  <2>2. conn' = conn
    BY <1>4, <2>1 DEF Handlers, Gated, ReloadAdds, Delivered, ReloadChanges, Forward, PaneClosed, ClientGone,
       Answer, RestartKey, Detached, EnsureTees, ResetPane, SyncClient, Tick, handlerRest
  <2>3. QED
    BY <1>2, <2>2
<1>5. ASSUME NEW d \in Clients, Client(d) PROVE Reached(c)
  <2>1. CASE Dial(d)
    <3>1. conn[d] = "idle" /\ conn' = [conn EXCEPT ![d] = "dialing"]
      BY <2>1 DEF Dial
    <3>2. QED
      BY <1>1, <3>1 DEF Reached
  <2>2. CASE Welcomed(d)
    <3>1. conn[d] = "dialing" /\ conn' = [conn EXCEPT ![d] = "live"]
      BY <2>2 DEF Welcomed
    <3>2. QED
      BY <1>1, <3>1 DEF Reached
  <2>3. CASE Leaves(d) \/ Detach(d)
    <3>1. conn' = [conn EXCEPT ![d] = "closed"]
      BY <2>3 DEF Leaves, Detach, Hangs
    <3>2. QED
      BY <1>1, <3>1 DEF Reached
  <2>4. CASE ReadFrame(d) \/ Apply(d) \/ AnswerShown(d) \/ \E i \in Roles : RestartShown(d, i)
    BY <1>2, <2>4 DEF ReadFrame, Apply, AnswerShown, RestartShown
  <2>5. QED
    BY <1>5, <2>1, <2>2, <2>3, <2>4 DEF Client
<1>6. QED
  BY <1>3, <1>4, <1>5 DEF Next

LEMMA PremiseBefore ==
  ASSUME Typed, OneInv, RosterInv, WiredInv, [Next]_vars, NEW c \in Clients, NEW i \in Roles, Premise(c, i)',
         \A d \in Clients : ~Welcomes(d)
  PROVE  /\ Premise(c, i) \/ (ResetPane /\ i = Min(todo))
         /\ c = client /\ Reached(c) /\ i <= base /\ base' = base /\ gen'[i] = gen[i] /\ wired[i] = gen[i]
<1>1. /\ gen \in [Roles -> Nat] /\ wired \in [Roles -> Nat] /\ size \in Nat /\ base \in Nat /\ base <= size
      /\ c # NoClient /\ i \in Nat
      /\ wired[i] <= gen[i] /\ (i <= base => wired[i] # 0) /\ (pc # "settle" => todo = {})
  <2>1. base <= size /\ wired[i] <= gen[i] /\ (i <= base => wired[i] # 0) /\ (pc # "settle" => todo = {})
    BY DEF WiredInv
  <2>2. c # NoClient /\ i \in Nat /\ size \in Nat
    BY Bounds, SizeSteps
  <2>3. QED
    BY <2>1, <2>2 DEF Typed, PanesTyped, LoopTyped
<1>2. /\ c = client' /\ Reached(c)' /\ i <= base' /\ wired'[i] = gen'[i] /\ i \notin todo'
  BY DEF Premise
<1>3. c = client /\ base' = base /\ i <= base
  BY <1>1, <1>2, BaseSteps
<1>4. Reached(c)
  BY <1>1, <1>2, <1>3, ReachedBefore DEF Reached, OneInv
<1>5. gen'[i] = gen[i] /\ wired[i] = gen[i] /\ (EnsureTees => todo = {})
  <2>1. EnsureTees => todo = {}
    BY <1>1 DEF EnsureTees
  <2>2. CASE Undisturbed \/ Streamed
    BY <1>2, <2>1, <2>2 DEF Undisturbed, Streamed
  <2>3. ASSUME NEW j \in Roles, Replaced(j) PROVE gen'[i] = gen[i] /\ wired[i] = gen[i]
    <3>1. gen' = [gen EXCEPT ![j] = @ + 1] /\ wired' = wired
      BY <2>3 DEF Replaced, Respawned
    <3>2. i # j
      BY <1>1, <1>2, <3>1
    <3>3. QED
      BY <1>1, <1>2, <3>1, <3>2
  <2>4. CASE ReloadAdds
    <3>1. gen' = [gen EXCEPT ![size + 1] = 1] /\ wired' = wired
      BY <2>4 DEF ReloadAdds, handlerRest
    <3>2. i # size + 1
      BY <1>1, <1>3
    <3>3. QED
      BY <1>1, <1>2, <2>1, <3>1, <3>2
  <2>5. CASE EnsureTees
    <3> DEFINE unwired == {j \in 1 .. size : wired[j] # gen[j]}
    <3>1. /\ gen' = gen /\ wired' = [j \in Roles |-> IF j \in unwired THEN gen[j] ELSE wired[j]]
          /\ todo' = {j \in unwired : wired[j] # 0}
      BY <2>5 DEF EnsureTees
    <3>2. i \notin unwired
      BY <1>1, <1>2, <1>3, <3>1
    <3>3. wired'[i] = wired[i]
      BY <3>1, <3>2
    <3>4. QED
      BY <1>2, <2>1, <3>1, <3>3
  <2>6. QED
    BY <2>1, <2>2, <2>3, <2>4, <2>5, PaneSteps
<1>6. i \notin todo \/ (ResetPane /\ i = Min(todo))
  <2>1. CASE ResetPane
    BY <1>2, <2>1 DEF ResetPane
  <2>2. QED
    BY <1>2, <1>5, <2>1, ReplaySteps
<1>7. QED
  BY <1>3, <1>4, <1>5, <1>6 DEF Premise

\* A stream that goes on, and the others, leave what was posted of role i's process as it
\* is, except when the chunk that is still to be posted is posted.
LEMMA PostedKept ==
  ASSUME Typed, RosterInv, WiredInv, NumbersInv, [Next]_vars, NEW i \in Roles, gen'[i] = gen[i], snap'[i] = snap[i],
         snap[i] <= Posted(i), i <= size, wired[i] = gen[i]
  PROVE  Posted(i)' = Posted(i) \/ \E h \in Unposted(i) : PostChunk(h)
<1>1. /\ gen \in [Roles -> Nat] /\ out \in [Roles -> Nat] /\ snap \in [Roles -> Nat]
      /\ held \subseteq [i : Roles, g : Nat, n : Nat] /\ tee[i] /\ out[i] \in Nat /\ snap[i] \in Nat /\ gen[i] \in Nat
  <2>1. tee[i]
    BY DEF WiredInv
  <2>2. QED
    BY <2>1 DEF Typed, PanesTyped, LoopTyped
<1>2. \A h \in held : h.i \in Roles /\ h.g \in Nat /\ h.n \in Nat
  BY <1>1
<1>3. ASSUME out'[i] = out[i], \A h : h.i = i => (h \in held' <=> h \in held) PROVE Posted(i)' = Posted(i)
  <2>1. Unposted(i)' = Unposted(i)
    BY <1>3 DEF Unposted
  <2>2. QED
    BY <1>3, <2>1 DEF Posted
<1>4. CASE Undisturbed \/ EnsureTees
  BY <1>3, <1>4 DEF Undisturbed, EnsureTees
<1>5. ASSUME NEW j \in Roles, Output(j) PROVE Posted(i)' = Posted(i)
  <2> DEFINE x == [i |-> j, g |-> gen[j], n |-> out[j] + 1]
  <2>1. /\ ~\E h \in held : h.i = j /\ h.g = gen[j]
        /\ out' = [out EXCEPT ![j] = @ + 1]
        /\ held' = IF tee[j] THEN held \cup {x} ELSE held
    BY <1>5 DEF Output
  <2>2. CASE j = i
    <3>1. Unposted(i) = {} /\ Posted(i) = out[i]
      BY <2>1, <2>2 DEF Unposted, Posted
    <3>2. x.i = i /\ x.g = gen[i] /\ x.n = out[i] + 1 /\ x.n > snap[i] /\ x \in held'
      BY <1>1, <2>1, <2>2, <3>1
    <3> HIDE DEF x
    <3>3. Unposted(i)' # {}
      BY <3>2 DEF Unposted
    <3>4. Posted(i)' = out[i] + 1 - 1
      BY <1>1, <2>1, <2>2, <3>3 DEF Posted
    <3>5. QED
      BY <1>1, <3>1, <3>4
  <2>3. CASE j # i
    <3>1. out'[i] = out[i] /\ x.i # i
      BY <1>1, <2>1, <2>3
    <3> HIDE DEF x
    <3>2. \A h : h.i = i => (h \in held' <=> h \in held)
      BY <2>1, <3>1
    <3>3. QED
      BY <1>3, <3>1, <3>2
  <2>4. QED
    BY <2>2, <2>3
<1>6. ASSUME NEW j \in Roles, StreamEnds(j) PROVE Posted(i)' = Posted(i)
  BY <1>3, <1>6 DEF StreamEnds
<1>7. ASSUME NEW h \in held, PostChunk(h) PROVE Posted(i)' = Posted(i) \/ h \in Unposted(i)
  <2>1. held' = held \ {h} /\ out' = out
    BY <1>7 DEF PostChunk
  <2>2. CASE h \notin Unposted(i)
    <3>1. Unposted(i)' = Unposted(i)
      BY <2>1, <2>2 DEF Unposted
    <3>2. QED
      BY <2>1, <3>1 DEF Posted
  <2>3. QED
    BY <2>2
<1>8. ASSUME NEW j \in Roles, Replaced(j) PROVE Posted(i)' = Posted(i)
  <2>1. gen' = [gen EXCEPT ![j] = @ + 1] /\ out' = [out EXCEPT ![j] = 0] /\ held' = held
    BY <1>8 DEF Replaced, Respawned
  <2>2. i # j
    BY <1>1, <2>1
  <2>3. QED
    BY <1>1, <1>3, <2>1, <2>2
<1>9. CASE ReloadAdds
  BY <1>3, <1>9 DEF ReloadAdds
<1>10. QED
  BY <1>4, <1>5, <1>6, <1>7, <1>8, <1>9, PaneSteps DEF Streamed, Streams

\* What comes of the frames on their way to c is what its pane holds once it has read
\* them, and the other frames do not change it.
LEMMA WireKept ==
  ASSUME Typed, OneInv, BaseInv, [Next]_vars, ~Forward, ~ResetPane, NEW c \in Clients, NEW i \in Roles,
         c = client, client' = c, Reached(c), Reached(c)', i <= base,
         NEW w, Makes(i, view[c][i], down[c], w)
  PROVE  Makes(i, view'[c][i], down'[c], w)
<1>1. /\ msgs \in Seq(Msg) /\ ClientsTyped /\ c # NoClient /\ i \in Nat /\ base \in Nat
      /\ conn \in [Clients -> {"idle", "dialing", "live", "closed"}]
      /\ down \in [Clients -> Seq(Frame)] /\ down[c] \in Seq(Frame)
      /\ known \in [Clients -> Nat]
      /\ view \in [Clients -> [Roles -> Seq(Nat \X Nat)]]
  BY Bounds DEF Typed, LoopTyped, ClientsTyped
<1>2. ASSUME view'[c] = view[c], down'[c] = down[c] PROVE Makes(i, view'[c][i], down'[c], w)
  BY <1>2
<1>3. CASE Streams \/ Readers \/ UNCHANGED vars
  <2>1. view' = view /\ down' = down
    BY <1>3 DEF Streams, Readers, Output, StreamEnds, PostChunk, ReadEvent, ReadFails, vars, clientVars
  <2>2. QED
    BY <1>2, <2>1
<1>4. CASE \/ Gated \/ ReloadAdds \/ (\E j \in Roles : Delivered(j) \/ ReloadChanges(j))
           \/ PaneClosed \/ ClientGone \/ Answer \/ RestartKey \/ Detached \/ EnsureTees
  <2>1. view' = view /\ down' = down
    BY <1>4 DEF Gated, ReloadAdds, Delivered, ReloadChanges, PaneClosed, ClientGone, Answer, RestartKey,
       Detached, EnsureTees, DropClient, handlerRest, clientVars
  <2>2. QED
    BY <1>2, <2>1
<1>5. CASE SyncClient \/ Tick
  <2> DEFINE f == [k |-> "state", size |-> size, gates |-> gates]
  <2>1. Send(<<f>>) /\ view' = view
    BY <1>5 DEF SyncClient, Tick, StateFrames, clientVars
  <2>2. f \in Frame /\ f.k = "state"
    <3>1. size \in Nat /\ gates \in Seq(Nat)
      BY Bounds DEF Typed, PanesTyped, LoopTyped
    <3>2. QED
      BY <3>1, Frames
  <2> HIDE DEF f
  <2>3. down' = [down EXCEPT ![c] = @ \o <<f>>]
    BY <1>1, <2>1, SendKinds DEF Untold, Dropped, Written
  <2>4. down'[c] = Append(down[c], f)
    BY <1>1, <2>2, <2>3
  <2>5. Arrive(i, w, f) = w
    BY <2>2 DEF Arrive
  <2>6. QED
    BY <1>1, <2>1, <2>2, <2>4, <2>5, MakesMore
<1>6. CASE AttachClient
  <2> DEFINE d == Head(msgs).c
  <2>1. /\ d \in Clients /\ Take("attach")
        /\ Ignored \/ Refused(d) \/ Attached(d)
        /\ view' = view
    BY <1>1, <1>6, AttachKinds DEF clientVars
  <2>2. d # c
    BY <1>1, <2>1, Members DEF OneInv, Take
  <2>3. ~Attached(d)
    BY <1>1 DEF Attached
  <2> HIDE DEF d
  <2>4. down'[c] = down[c]
    BY <1>1, <2>1, <2>2, <2>3 DEF Ignored, Refused
  <2>5. QED
    BY <1>2, <2>1, <2>4
<1>7. ASSUME NEW d \in Clients, Client(d) PROVE Makes(i, view'[c][i], down'[c], w)
  <2>1. CASE Dial(d) \/ Apply(d) \/ AnswerShown(d) \/ \E j \in Roles : RestartShown(d, j)
    BY <1>2, <2>1 DEF Dial, Apply, AnswerShown, RestartShown, clientVars
  <2>2. CASE Leaves(d) \/ Detach(d)
    <3>1. /\ conn' = [conn EXCEPT ![d] = "closed"] /\ down' = [down EXCEPT ![d] = <<>>]
          /\ view' = [view EXCEPT ![d] = NoView]
      BY <2>2 DEF Leaves, Detach, Hangs
    <3>2. c # d
      BY <1>1, <3>1 DEF Reached
    <3>3. QED
      BY <1>1, <1>2, <3>1, <3>2
  <2>3. CASE Welcomed(d)
    <3>1. /\ down[d] # <<>> /\ down' = [down EXCEPT ![d] = Tail(@)]
          /\ \A j \in Roles : view'[d][j] = Arrive(j, view[d][j], Head(down[d]))
      BY <1>1, <2>3, WelcomeArrives
    <3>2. CASE c = d
      <4>1. down'[c] = Tail(down[c]) /\ view'[c][i] = Arrive(i, view[c][i], Head(down[c])) /\ down[c] # <<>>
        BY <1>1, <3>1, <3>2
      <4>2. QED
        BY <1>1, <4>1, MakesRest
    <3>3. CASE c # d
      <4>1. \E v : view' = [view EXCEPT ![d] = v]
        BY <2>3 DEF Welcomed
      <4>2. QED
        BY <1>1, <1>2, <3>1, <3>3, <4>1
    <3>4. QED
      BY <3>2, <3>3
  <2>4. CASE ReadFrame(d)
    <3>1. /\ conn[d] = "live" /\ down[d] # <<>> /\ down' = [down EXCEPT ![d] = Tail(@)]
          /\ \A j \in Roles : j <= known[d] => view'[d][j] = Arrive(j, view[d][j], Head(down[d]))
          /\ \A e \in Clients \ {d} : view'[e] = view[e]
      BY <1>1, <2>4, ReadArrives
    <3>2. CASE c = d
      <4>1. base <= known[c]
        BY <3>1, <3>2 DEF BaseInv
      <4>2. i <= known[c]
        BY <1>1, <4>1
      <4>3. down'[c] = Tail(down[c]) /\ view'[c][i] = Arrive(i, view[c][i], Head(down[c])) /\ down[c] # <<>>
        BY <1>1, <3>1, <3>2, <4>2
      <4>4. QED
        BY <1>1, <4>3, MakesRest
    <3>3. CASE c # d
      BY <1>1, <1>2, <3>1, <3>3
    <3>4. QED
      BY <3>2, <3>3
  <2>5. QED
    BY <1>7, <2>1, <2>2, <2>3, <2>4 DEF Client
<1>8. QED
  BY <1>3, <1>4, <1>5, <1>6, <1>7 DEF Next, Handlers

LEMMA MsgsKept ==
  ASSUME Typed, RosterInv, [Next]_vars, ~Forward, NEW i \in Roles, \A h \in Unposted(i) : ~PostChunk(h),
         NEW a \in Nat, NEW b \in Nat, Goes(msgs, i, gen[i], snap[i], a, b)
  PROVE  Goes(msgs', i, gen[i], snap[i], a, b)
<1>1. msgs \in Seq(Msg)
  BY DEF Typed, LoopTyped
<1>2. CASE Taken
  <2>1. msgs # <<>> /\ msgs' = Tail(msgs) /\ Head(msgs).k # "output"
    BY <1>2 DEF Taken, Heard
  <2>2. \A d : Brings(Head(msgs), i, gen[i], snap[i], a, d) => d = a
    BY <2>1 DEF Brings, Counts
  <2>3. QED
    BY <1>1, <2>1, <2>2, GoesRest
<1>3. ASSUME NEW m \in Msg, Copied(m), Said(m) PROVE Goes(msgs', i, gen[i], snap[i], a, b)
  <2>1. ~Counts(m, i, gen[i], snap[i])
    BY <1>3 DEF Counts, Copied, Unposted
  <2>2. Brings(m, i, gen[i], snap[i], b, b)
    BY <2>1 DEF Brings
  <2>3. QED
    BY <1>1, <1>3, <2>2, GoesMore DEF Said
<1>4. QED
  BY <1>2, <1>3, MsgSteps

-----------------------------------------------------------------------------
(* Folds, element by element *)

\* The numbers, one by one
LEMMA Upwards ==
  ASSUME NEW S, 0 \in S, \A k \in Nat : k \in S => k + 1 \in S
  PROVE  Nat \subseteq S
<1> DEFINE T == Nat \ S
           R == OpToRel(<, Nat)
<1> SUFFICES ASSUME T # {} PROVE FALSE
  BY Zenon
<1>1. IsWellFoundedOn(R, Nat)
  BY NatLessThanWellFounded
<1>2. PICK x \in T : \A y \in T : ~(<<y, x>> \in R)
  BY <1>1, WFMin
<1>3. \A y \in T : ~(y < x)
  BY <1>2 DEF OpToRel
<1>4. x \in Nat /\ x # 0 /\ x \notin S
  OBVIOUS
<1>5. x - 1 \in Nat /\ x - 1 < x /\ (x - 1) + 1 = x
  BY <1>4
<1>6. x - 1 \in S
  BY <1>3, <1>5
<1> QED
  BY <1>4, <1>5, <1>6

LEMMA LargestOf ==
  ASSUME NEW n \in Nat, NEW S \in SUBSET (1..n), S # {}
  PROVE  \E k \in S : \A j \in S : j <= k
<1> DEFINE T == {n - j : j \in S}
           R == OpToRel(<, Nat)
<1>1. IsWellFoundedOn(R, Nat)
  BY NatLessThanWellFounded
<1>2. T \subseteq Nat /\ T # {}
  <2>1. \A j \in S : j \in Nat /\ j <= n
    OBVIOUS
  <2>2. \A j \in S : n - j \in Nat
    BY <2>1
  <2> QED
    BY <2>2
<1>3. PICK x \in T : \A y \in T : ~(<<y, x>> \in R)
  BY <1>1, <1>2, WFMin
<1>4. \A y \in T : ~(y < x)
  BY <1>2, <1>3 DEF OpToRel
<1>5. PICK k \in S : x = n - k
  BY Zenon
<1>6. ASSUME NEW j \in S PROVE j <= k
  <2>1. n - j \in T
    OBVIOUS
  <2>2. ~(n - j < n - k)
    BY <1>4, <1>5, <2>1
  <2>3. j \in Nat /\ k \in Nat
    OBVIOUS
  <2> QED
    BY <2>2, <2>3
<1> QED
  BY <1>6

LEMMA MaxOf ==
  ASSUME NEW n \in Nat, NEW S \in SUBSET (1..n), S # {}
  PROVE  Max(S) \in S /\ \A j \in S : j <= Max(S)
<1>1. \E k \in S : \A j \in S : k >= j
  BY LargestOf
<1>2. Max(S) \in S /\ \A j \in S : Max(S) >= j
  BY <1>1, Zenon DEF Max
<1> QED
  BY <1>2

\* What a fold computes: its value over the first of the elements, given what one
\* more element makes of a value (MapThenFoldSet)
Computes(g, n, start, step) ==
  g = [s \in SUBSET (1 .. n) |-> IF s = {} THEN start ELSE step[<<g[s \ {Max(s)}], Max(s)>>]]

LEMMA FoldExists ==
  ASSUME NEW n \in Nat, NEW A, NEW start \in A, NEW step \in [A \X (1 .. n) -> A]
  PROVE  \E g \in [SUBSET (1 .. n) -> A] : Computes(g, n, start, step)
<1> DEFINE Runs(k) == \E g \in [SUBSET (1 .. k) -> A] : Computes(g, k, start, step)
           S == {k \in Nat : k <= n => Runs(k)}
<1> HIDE DEF Runs
<1>1. 0 \in S
  <2> SUFFICES Runs(0)
    OBVIOUS
  <2> DEFINE g == [s \in SUBSET (1 .. 0) |-> start]
  <2>1. \A s \in SUBSET (1 .. 0) : s = {}
    OBVIOUS
  <2>2. g = [s \in SUBSET (1 .. 0) |-> IF s = {} THEN start ELSE step[<<g[s \ {Max(s)}], Max(s)>>]]
    BY <2>1
  <2>3. g \in [SUBSET (1 .. 0) -> A] /\ Computes(g, 0, start, step)
    BY <2>2 DEF Computes
  <2> QED
    BY <2>3 DEF Runs
<1>2. ASSUME NEW k \in Nat, k \in S PROVE k + 1 \in S
  <2> SUFFICES ASSUME k + 1 <= n
               PROVE  Runs(k + 1)
    OBVIOUS
  <2>0. Runs(k)
    BY <1>2
  <2>1. PICK f \in [SUBSET (1 .. k) -> A] : Computes(f, k, start, step)
    BY <2>0 DEF Runs
  <2> DEFINE g == [s \in SUBSET (1 .. k + 1) |->
                     IF k + 1 \in s THEN step[<<f[s \ {k + 1}], k + 1>>] ELSE f[s]]
  <2>2. ASSUME NEW s \in SUBSET (1 .. k + 1)
        PROVE  /\ g[s] \in A
               /\ g[s] = IF s = {} THEN start ELSE step[<<g[s \ {Max(s)}], Max(s)>>]
    <3>1. CASE k + 1 \in s
      <4>1. Max(s) = k + 1
        <5>1. s # {} /\ k + 1 \in Nat
          BY <3>1
        <5>2. Max(s) \in s /\ \A j \in s : j <= Max(s)
          BY <5>1, MaxOf
        <5>3. Max(s) \in 1 .. k + 1 /\ k + 1 <= Max(s)
          BY <3>1, <5>2
        <5> QED
          BY <5>3
      <4>2. s \ {k + 1} \in SUBSET (1 .. k)
        <5> SUFFICES ASSUME NEW x \in s, x # k + 1 PROVE x \in 1 .. k
          OBVIOUS
        <5> QED
          OBVIOUS
      <4>3. g[s] = step[<<f[s \ {k + 1}], k + 1>>]
        BY <3>1
      <4>4. g[s \ {k + 1}] = f[s \ {k + 1}]
        BY <4>2
      <4>5. <<f[s \ {k + 1}], k + 1>> \in A \X (1 .. n)
        BY <4>2
      <4>6. s # {}
        BY <3>1
      <4>7. g[s] \in A
        BY <4>3, <4>5
      <4>8. g[s] = step[<<g[s \ {Max(s)}], Max(s)>>]
        BY <4>1, <4>3, <4>4
      <4> HIDE DEF g
      <4> QED
        BY <4>6, <4>7, <4>8
    <3>2. CASE k + 1 \notin s
      <4>1. s \in SUBSET (1 .. k)
        <5> SUFFICES ASSUME NEW x \in s PROVE x \in 1 .. k
          OBVIOUS
        <5> QED
          BY <3>2
      <4>2. g[s] = f[s] /\ f[s] \in A
        BY <3>2, <4>1
      <4>3. f[s] = IF s = {} THEN start ELSE step[<<f[s \ {Max(s)}], Max(s)>>]
        BY <2>1, <4>1 DEF Computes
      <4>4. s # {} => Max(s) # k + 1
        <5>1. s # {} => Max(s) \in s
          BY <4>1, MaxOf
        <5> QED
          BY <3>2, <5>1
      <4>5. s \ {Max(s)} \in SUBSET (1 .. k) /\ k + 1 \notin s \ {Max(s)}
        BY <3>2, <4>1
      <4>6. g[s \ {Max(s)}] = f[s \ {Max(s)}]
        BY <4>5
      <4> QED
        BY <4>2, <4>3, <4>6
    <3> QED
      BY <3>1, <3>2
  <2>3. g \in [SUBSET (1 .. k + 1) -> A]
    BY <2>2
  <2>4. g = [s \in SUBSET (1 .. k + 1) |-> IF s = {} THEN start ELSE step[<<g[s \ {Max(s)}], Max(s)>>]]
    BY <2>2
  <2>5. Computes(g, k + 1, start, step)
    BY <2>4, Zenon DEF Computes
  <2> HIDE DEF g
  <2> QED
    BY <2>3, <2>5 DEF Runs
<1>3. n \in S
  <2> HIDE DEF S
  <2> QED
    BY <1>1, <1>2, Upwards
<1>4. Runs(n)
  BY <1>3
<1> QED
  BY <1>4 DEF Runs

\* The sets a fold goes over
LEMMA Segments ==
  ASSUME NEW n \in Nat, NEW k \in 1 .. n
  PROVE  /\ 1 .. k \in SUBSET (1 .. n) /\ 1 .. k # {}
         /\ Max(1 .. k) = k /\ (1 .. k) \ {k} = 1 .. k - 1
<1>1. 1 .. k \in SUBSET (1 .. k) /\ 1 .. k # {} /\ 1 .. k \in SUBSET (1 .. n) /\ k \in Nat
  OBVIOUS
<1>2. Max(1 .. k) \in 1 .. k /\ \A j \in 1 .. k : j <= Max(1 .. k)
  BY <1>1, MaxOf
<1>3. Max(1 .. k) = k
  BY <1>2
<1>4. (1 .. k) \ {k} = 1 .. k - 1
  OBVIOUS
<1> QED
  BY <1>1, <1>3, <1>4

\* What holds at first and through every step holds at the end
LEMMA StepByStep ==
  ASSUME NEW n \in Nat, NEW S, 0 \in S, \A k \in 1 .. n : k - 1 \in S => k \in S
  PROVE  \A k \in 0 .. n : k \in S
<1> DEFINE T == {k \in Nat : k <= n => k \in S}
<1>1. 0 \in T
  OBVIOUS
<1>2. ASSUME NEW k \in Nat, k \in T PROVE k + 1 \in T
  <2> SUFFICES ASSUME k + 1 <= n PROVE k + 1 \in S
    OBVIOUS
  <2>1. k \in S
    BY <1>2
  <2>2. k + 1 \in 1 .. n /\ (k + 1) - 1 = k
    OBVIOUS
  <2> QED
    BY <2>1, <2>2
<1> HIDE DEF T
<1>3. Nat \subseteq T
  BY <1>1, <1>2, Upwards
<1> QED
  BY <1>3 DEF T


-----------------------------------------------------------------------------
(* The folds of OutputExact *)

\* What arrives is what the frames on their way make of the pane.
LEMMA ArrivedFold ==
  ASSUME NEW c \in Clients, NEW i \in Roles, view[c][i] \in Chunked, down[c] \in Seq(Frame)
  PROVE  Makes(i, view[c][i], down[c], Arrived(c, i)) /\ Arrived(c, i) \in Chunked
<1> DEFINE n == Len(down[c])
           step == [x \in Chunked \X (1 .. n) |-> Arrive(i, x[1], down[c][x[2]])]
           Runs(g) == g = [s \in SUBSET (1 .. n) |->
                             IF s = {} THEN view[c][i]
                             ELSE LET x == Max(s) IN Arrive(i, g[s \ {x}], down[c][x])]
           f == CHOOSE g : Runs(g)
           h == [k \in 0 .. n |-> f[1 .. k]]
<1>0. n \in Nat /\ DOMAIN down[c] = 1 .. n
  OBVIOUS
<1>1. Arrived(c, i) = f[1 .. n]
  BY <1>0, Zenon DEF Arrived, FoldLeft, MapThenFoldSet, Arrive
<1>2. step \in [Chunked \X (1 .. n) -> Chunked]
  <2>1. SUFFICES ASSUME NEW v \in Chunked, NEW k \in 1 .. n PROVE Arrive(i, v, down[c][k]) \in Chunked
    OBVIOUS
  <2>2. down[c][k] \in Frame
    OBVIOUS
  <2>3. QED
    BY <2>2, ArriveTyped DEF Chunked
<1> HIDE DEF n
<1>3. PICK g \in [SUBSET (1 .. n) -> Chunked] : Computes(g, n, view[c][i], step)
  <2> HIDE DEF step
  <2>1. QED
    BY <1>0, <1>2, FoldExists
<1>4. Runs(g)
  <2>1. ASSUME NEW s \in SUBSET (1 .. n), s # {}
        PROVE  step[<<g[s \ {Max(s)}], Max(s)>>] = Arrive(i, g[s \ {Max(s)}], down[c][Max(s)])
    <3>1. Max(s) \in 1 .. n /\ g[s \ {Max(s)}] \in Chunked
      BY <1>0, <2>1, MaxOf
    <3>2. QED
      BY <3>1
  <2> HIDE DEF step
  <2>2. g = [s \in SUBSET (1 .. n) |-> IF s = {} THEN view[c][i] ELSE step[<<g[s \ {Max(s)}], Max(s)>>]]
    BY <1>3 DEF Computes
  <2>3. QED
    BY <2>1, <2>2
<1>5. Runs(f)
  BY <1>4, Zenon
<1> HIDE DEF f, step
<1>6. \A s \in SUBSET (1 .. n) :
        f[s] = IF s = {} THEN view[c][i] ELSE Arrive(i, f[s \ {Max(s)}], down[c][Max(s)])
  BY <1>5
<1>7. h[0] = view[c][i]
  <2>1. 0 \in 0 .. n /\ 1 .. 0 = {}
    BY <1>0
  <2>2. f[{}] = view[c][i]
    BY <1>6
  <2>3. QED
    BY <2>1, <2>2
<1>8. ASSUME NEW k \in 1 .. n PROVE h[k] = Arrive(i, h[k - 1], down[c][k])
  <2>1. f[1 .. k] = Arrive(i, f[1 .. k - 1], down[c][k])
    BY <1>0, <1>6, Segments
  <2>2. k - 1 \in 0 .. n /\ k \in 0 .. n
    BY <1>0
  <2>3. QED
    BY <2>1, <2>2
<1>9. h[n] = Arrived(c, i) /\ DOMAIN h = 0 .. n /\ h = [k \in 0 .. n |-> h[k]]
  BY <1>0, <1>1
<1> HIDE DEF h
<1>10. \A k \in 0 .. n : h[k] \in Chunked
  <2> DEFINE S == {k \in 0 .. n : h[k] \in Chunked}
  <2>1. 0 \in S
    BY <1>0, <1>7
  <2>2. ASSUME NEW k \in 1 .. n, k - 1 \in S PROVE k \in S
    <3>1. h[k - 1] \in Chunked /\ down[c][k] \in Frame /\ k \in 0 .. n
      BY <1>0, <2>2
    <3>2. Arrive(i, h[k - 1], down[c][k]) \in Chunked
      BY <3>1, ArriveTyped DEF Chunked
    <3>3. QED
      BY <1>8, <3>1, <3>2
  <2> HIDE DEF S
  <2>3. \A k \in 0 .. n : k \in S
    BY <1>0, <2>1, <2>2, StepByStep
  <2>4. QED
    BY <2>3 DEF S
<1>11. h \in [0 .. n -> Chunked] /\ n \in 0 .. n
  BY <1>0, <1>9, <1>10
<1>12. Makes(i, view[c][i], down[c], h[n])
  BY <1>7, <1>8, <1>11 DEF Makes, n
<1>13. QED
  BY <1>9, <1>10, <1>11, <1>12

\* The frames make one thing of a pane only.
LEMMA MakesOnce ==
  ASSUME NEW i, NEW v, NEW ds \in Seq(Frame), NEW w, NEW x, Makes(i, v, ds, w), Makes(i, v, ds, x)
  PROVE  w = x
<1>1. PICK g : /\ g[0] = v /\ g[Len(ds)] = w
               /\ \A k \in 1 .. Len(ds) : g[k] = Arrive(i, g[k - 1], ds[k])
  BY DEF Makes
<1>2. PICK h : /\ h[0] = v /\ h[Len(ds)] = x
               /\ \A k \in 1 .. Len(ds) : h[k] = Arrive(i, h[k - 1], ds[k])
  BY DEF Makes
<1> DEFINE S == {k \in 0 .. Len(ds) : g[k] = h[k]}
<1>3. 0 \in S /\ Len(ds) \in Nat
  BY <1>1, <1>2
<1>4. ASSUME NEW k \in 1 .. Len(ds), k - 1 \in S PROVE k \in S
  <2>1. g[k] = h[k] /\ k \in 0 .. Len(ds)
    BY <1>1, <1>2, <1>3, <1>4
  <2>2. QED
    BY <2>1
<1> HIDE DEF S
<1>5. \A k \in 0 .. Len(ds) : k \in S
  BY <1>3, <1>4, StepByStep
<1>6. Len(ds) \in S
  BY <1>3, <1>5
<1>7. QED
  BY <1>1, <1>2, <1>6 DEF S

-----------------------------------------------------------------------------
(* No step loses, doubles or reorders a chunk *)

\* The welcome carries every ring.
LEMMA WelcomePipe ==
  ASSUME Typed, Typed', NumbersInv, NEW c \in Clients, NEW i \in Roles, Welcomes(c)
  PROVE  Piped(c, i)'
<1>1. /\ gen \in [Roles -> Nat] /\ out \in [Roles -> Nat] /\ gen[i] \in Nat /\ out[i] \in Nat
      /\ msgs \in Seq(Msg) /\ down \in [Clients -> Seq(Frame)] /\ view[c][i] \in Chunked
      /\ size \in Nat /\ gates \in Seq(Nat)
  <2>1. size \in Nat /\ gates \in Seq(Nat) /\ msgs \in Seq(Msg)
    BY Bounds DEF Typed, PanesTyped, LoopTyped
  <2>2. gen \in [Roles -> Nat] /\ out \in [Roles -> Nat]
    BY DEF Typed, PanesTyped
  <2>3. down \in [Clients -> Seq(Frame)] /\ view[c][i] \in Chunked
    BY DEF Typed, ClientsTyped, Chunked
  <2>4. QED
    BY <2>1, <2>2, <2>3
<1>2. /\ msgs # <<>> /\ msgs' = Tail(msgs) /\ snap' = out /\ gen' = gen /\ out' = out /\ held' = held
      /\ view' = view /\ down'[c] = <<WelcomeFrame>>
  BY <1>1 DEF Welcomes, Attached, Heard, paneVars, clientVars
<1>3. WelcomeFrame \in Frame /\ Arrive(i, view[c][i], WelcomeFrame) = Upto(gen[i], out[i])
  <2>1. Rings \in [Roles -> Ring] /\ Rings[i].g = gen[i] /\ Rings[i].n = out[i]
    BY <1>1 DEF Rings, Ring
  <2>2. WelcomeFrame \in Frame
    BY <1>1, <2>1, Frames DEF WelcomeFrame
  <2>3. QED
    BY <2>1, <2>2 DEF Arrive, WelcomeFrame
<1>4. Makes(i, view'[c][i], down'[c], Upto(gen'[i], out'[i]))
  <2>1. Makes(i, view[c][i], <<>>, view[c][i])
    BY <1>1, MakesNone
  <2>2. <<>> \in Seq(Frame)
    OBVIOUS
  <2>3. Makes(i, view[c][i], Append(<<>>, WelcomeFrame), Upto(gen[i], out[i]))
    BY <1>3, <2>1, <2>2, MakesMore
  <2>4. Append(<<>>, WelcomeFrame) = <<WelcomeFrame>>
    BY <1>3
  <2>5. QED
    BY <1>2, <2>3, <2>4
<1>5. Posted(i)' = out'[i]
  <2>1. Unposted(i)' = {}
    <3>1. ASSUME NEW h \in held, h.i = i, h.g = gen[i] PROVE ~(h.n > out[i])
      <4>1. h.n = out[i]
        BY <3>1 DEF NumbersInv
      <4>2. QED
        BY <1>1, <4>1
    <3>2. QED
      BY <1>2, <3>1 DEF Unposted
  <2>2. QED
    BY <2>1 DEF Posted
<1>6. Goes(msgs', i, gen'[i], snap'[i], out'[i], Posted(i)')
  <2>1. msgs' \in Seq(Msg)
    BY DEF Typed, LoopTyped
  <2>2. ASSUME NEW k \in DOMAIN msgs' PROVE ~Counts(msgs'[k], i, gen[i], out[i])
    <3>1. PICK j \in DOMAIN msgs : msgs'[k] = msgs[j]
      BY <1>1, <1>2, Members
    <3>2. msgs[j].k = "output" => Past(msgs[j], gen, out)
      BY DEF NumbersInv
    <3>3. msgs[j].k = "output" => msgs[j].n \in Nat
      BY <1>1, Members, MessageFields
    <3>4. QED
      BY <1>1, <3>1, <3>2, <3>3 DEF Counts, Past
  <2>3. Goes(msgs', i, gen[i], out[i], out[i], out[i])
    BY <1>1, <2>1, <2>2, GoesNowhere
  <2>4. QED
    BY <1>2, <1>5, <2>3
<1>7. snap'[i] <= Posted(i)' /\ out'[i] \in Nat
  BY <1>1, <1>2, <1>5
<1>8. QED
  BY <1>4, <1>6, <1>7 DEF Piped

\* A replay carries the whole ring of the new process.
LEMMA ReplayPipe ==
  ASSUME Typed, Typed', NumbersInv, NEW c \in Clients, NEW i \in Roles, ResetPane, i = Min(todo),
         c = client, client' = c, Reached(c)
  PROVE  Piped(c, i)'
<1>1. /\ gen \in [Roles -> Nat] /\ out \in [Roles -> Nat] /\ gen[i] \in Nat /\ out[i] \in Nat
      /\ msgs \in Seq(Msg) /\ down \in [Clients -> Seq(Frame)] /\ view[c][i] \in Chunked /\ c # NoClient
      /\ snap \in [Roles -> Nat]
  <2>1. msgs \in Seq(Msg) /\ snap \in [Roles -> Nat] /\ c # NoClient
    BY Bounds DEF Typed, LoopTyped
  <2>2. gen \in [Roles -> Nat] /\ out \in [Roles -> Nat]
    BY DEF Typed, PanesTyped
  <2>3. down \in [Clients -> Seq(Frame)] /\ view[c][i] \in Chunked
    BY DEF Typed, ClientsTyped, Chunked
  <2>4. QED
    BY <2>1, <2>2, <2>3
<1> DEFINE a == [k |-> "reset", i |-> i]
           b == [k |-> "ring", i |-> i, g |-> gen[i], n |-> out[i]]
<1>2. /\ snap' = [snap EXCEPT ![i] = out[i]] /\ UNCHANGED <<gen, out, held, view, msgs>> /\ Send(<<a, b>>)
  BY <1>1 DEF ResetPane, paneVars, clientVars
<1>3. a \in Frame /\ b \in Frame
  BY <1>1, Frames
<1>4. \A v : Arrive(i, v, a) = <<>> /\ Arrive(i, <<>>, b) = Upto(gen[i], out[i])
  <2>1. \A v : Arrive(i, v, a) = <<>>
    BY DEF Arrive
  <2>2. Arrive(i, <<>>, b) = <<>> \o Upto(gen[i], out[i])
    BY DEF Arrive
  <2>3. Upto(gen[i], out[i]) \in Seq(Nat \X Nat)
    BY <1>1, UptoTyped
  <2>4. <<>> \o Upto(gen[i], out[i]) = Upto(gen[i], out[i])
    BY <2>3
  <2>5. QED
    BY <2>1, <2>2, <2>4
<1> HIDE DEF a, b
<1>5. Makes(i, view'[c][i], down'[c], Upto(gen'[i], out'[i]))
  <2>1. down[c] \in Seq(Frame)
    BY <1>1
  <2>2. down'[c] = down[c] \o <<a, b>>
    BY <1>1, <1>2, SendKinds DEF Untold, Dropped, Written
  <2> DEFINE ds == down[c]
             v == view[c][i]
             w == Arrived(c, i)
  <2>3. Makes(i, v, ds, w)
    BY <1>1, <2>1, ArrivedFold
  <2> HIDE DEF ds, v, w
  <2>4. ds \in Seq(Frame) /\ Append(ds, a) \in Seq(Frame) /\ Append(Append(ds, a), b) = ds \o <<a, b>>
    BY <1>3, <2>1 DEF ds
  <2>5. Makes(i, v, Append(ds, a), <<>>)
    BY <1>3, <1>4, <2>3, <2>4, MakesMore
  <2>6. Makes(i, v, Append(Append(ds, a), b), Upto(gen[i], out[i]))
    BY <1>3, <1>4, <2>4, <2>5, MakesMore
  <2>7. QED
    BY <1>2, <2>2, <2>4, <2>6 DEF ds, v
<1>6. snap'[i] = out[i]
  BY <1>1, <1>2
<1>7. Posted(i)' = out'[i]
  <2>1. Unposted(i)' = {}
    <3>1. ASSUME NEW h \in held, h.i = i, h.g = gen[i] PROVE ~(h.n > out[i])
      <4>1. h.n = out[i]
        BY <3>1 DEF NumbersInv
      <4>2. QED
        BY <1>1, <4>1
    <3>2. QED
      BY <1>2, <1>6, <3>1 DEF Unposted
  <2>2. QED
    BY <2>1 DEF Posted
<1>8. Goes(msgs', i, gen'[i], snap'[i], out'[i], Posted(i)')
  <2>1. ASSUME NEW k \in DOMAIN msgs PROVE ~Counts(msgs[k], i, gen[i], out[i])
    <3>1. msgs[k].k = "output" => Past(msgs[k], gen, out)
      BY DEF NumbersInv
    <3>2. msgs[k].k = "output" => msgs[k].n \in Nat
      BY <1>1, Members, MessageFields
    <3>3. QED
      BY <1>1, <3>1, <3>2 DEF Counts, Past
  <2>2. Goes(msgs, i, gen[i], out[i], out[i], out[i])
    BY <1>1, <2>1, GoesNowhere
  <2>3. QED
    BY <1>2, <1>6, <1>7, <2>2
<1>9. snap'[i] <= Posted(i)' /\ out'[i] \in Nat
  BY <1>1, <1>2, <1>6, <1>7
<1>10. QED
  BY <1>5, <1>8, <1>9 DEF Piped

\* The replay of another pane adds nothing to role i's.
LEMMA OtherReplay ==
  ASSUME Typed, NEW c \in Clients, NEW i \in Roles, ResetPane, i # Min(todo),
         c = client, client' = c, Reached(c), Piped(c, i)
  PROVE  Piped(c, i)'
<1> DEFINE j == Min(todo)
           a == [k |-> "reset", i |-> j]
           b == [k |-> "ring", i |-> j, g |-> gen[j], n |-> out[j]]
<1>1. /\ down \in [Clients -> Seq(Frame)] /\ c # NoClient /\ snap \in [Roles -> Nat]
      /\ gen \in [Roles -> Nat] /\ out \in [Roles -> Nat] /\ j \in Roles
  <2>1. j \in Roles
    BY LeastRole DEF ResetPane, Typed, LoopTyped
  <2>2. c # NoClient /\ snap \in [Roles -> Nat]
    BY Bounds DEF Typed, LoopTyped
  <2>3. QED
    BY <2>1, <2>2 DEF Typed, PanesTyped, ClientsTyped
<1>2. /\ snap' = [snap EXCEPT ![j] = out[j]] /\ UNCHANGED <<gen, out, held, view, msgs>> /\ Send(<<a, b>>)
  BY <1>1 DEF ResetPane, paneVars, clientVars
<1>3. a \in Frame /\ b \in Frame
  BY <1>1, Frames
<1>4. \A v : Arrive(i, v, a) = v /\ Arrive(i, v, b) = v
  BY DEF Arrive
<1> HIDE DEF a, b
<1>5. snap'[i] = snap[i] /\ Posted(i)' = Posted(i)
  <2>1. snap'[i] = snap[i]
    BY <1>1, <1>2
  <2>2. Unposted(i)' = Unposted(i)
    BY <1>2, <2>1 DEF Unposted
  <2>3. QED
    BY <1>2, <2>1, <2>2 DEF Posted
<1>6. PICK p \in Nat : /\ Makes(i, view[c][i], down[c], Upto(gen[i], p))
                       /\ Goes(msgs, i, gen[i], snap[i], p, Posted(i))
  BY DEF Piped
<1> DEFINE ds == down[c]
           v == view[c][i]
           w == Upto(gen[i], p)
<1>7. Makes(i, v, ds, w) /\ ds \in Seq(Frame)
  BY <1>1, <1>6
<1>8. down'[c] = ds \o <<a, b>>
  BY <1>1, <1>2, SendKinds DEF Untold, Dropped, Written
<1> HIDE DEF ds, v, w
<1>9. Append(ds, a) \in Seq(Frame) /\ Append(Append(ds, a), b) = ds \o <<a, b>>
  BY <1>3, <1>7
<1>10. Makes(i, v, Append(ds, a), w)
  BY <1>3, <1>4, <1>7, MakesMore
<1>11. Makes(i, v, Append(Append(ds, a), b), w)
  <2>1. Arrive(i, w, b) = w
    BY <1>4
  <2> DEFINE es == Append(ds, a)
  <2>2. es \in Seq(Frame) /\ Makes(i, v, es, w)
    BY <1>9, <1>10
  <2> HIDE DEF es
  <2>3. Makes(i, v, Append(es, b), w)
    BY <1>3, <2>1, <2>2, MakesMore
  <2>4. QED
    BY <2>3 DEF es
<1>12. Makes(i, view'[c][i], down'[c], Upto(gen'[i], p))
  BY <1>2, <1>8, <1>9, <1>11 DEF v, w
<1>13. Goes(msgs', i, gen'[i], snap'[i], p, Posted(i)') /\ snap'[i] <= Posted(i)'
  BY <1>2, <1>5, <1>6 DEF Piped
<1>14. QED
  BY <1>12, <1>13 DEF Piped

LEMMA UptoMore ==
  ASSUME NEW g \in Nat, NEW p \in Nat
  PROVE  Append(Upto(g, p), <<g, p + 1>>) = Upto(g, p + 1)
<1> DEFINE s == Upto(g, p)
           t == Upto(g, p + 1)
           x == <<g, p + 1>>
<1>1. s \in Seq(Nat \X Nat) /\ t \in Seq(Nat \X Nat) /\ x \in Nat \X Nat
  <2>1. p + 1 \in Nat
    OBVIOUS
  <2>2. s \in Seq(Nat \X Nat) /\ t \in Seq(Nat \X Nat)
    BY <2>1, UptoTyped
  <2>3. QED
    BY <2>1, <2>2
<1>2. Len(s) = p /\ Len(t) = p + 1 /\ t[p + 1] = x /\ \A k \in 1 .. p : s[k] = t[k]
  BY <1>1 DEF Upto
<1> HIDE DEF s, t, x
<1>3. Append(s, x) \in Seq(Nat \X Nat) /\ Len(Append(s, x)) = p + 1
  BY <1>1, <1>2
<1>4. ASSUME NEW k \in 1 .. p + 1 PROVE Append(s, x)[k] = t[k]
  <2>1. CASE k = p + 1
    BY <1>1, <1>2, <2>1
  <2>2. CASE k # p + 1
    <3>1. k \in 1 .. p /\ k \in 1 .. Len(s)
      BY <1>2, <2>2
    <3>2. QED
      BY <1>1, <1>2, <3>1
  <2>3. QED
    BY <2>1, <2>2
<1>5. Append(s, x) = t
  BY <1>1, <1>2, <1>3, <1>4
<1>6. QED
  BY <1>5 DEF s, t, x

\* The loop forwards exactly what the client's pane lacks.
LEMMA ForwardPipe ==
  ASSUME Typed, NEW c \in Clients, NEW i \in Roles, Forward,
         c = client, client' = c, Reached(c), wired[i] = gen[i], Piped(c, i)
  PROVE  Piped(c, i)'
<1> DEFINE m == Head(msgs)
           f == [k |-> "output", i |-> m.i, g |-> m.g, n |-> m.n]
<1>1. /\ down \in [Clients -> Seq(Frame)] /\ c # NoClient /\ snap[i] \in Nat /\ gen[i] \in Nat
      /\ msgs \in Seq(Msg)
  <2>1. c # NoClient /\ snap[i] \in Nat /\ gen[i] \in Nat
    BY Bounds DEF Typed, LoopTyped, PanesTyped
  <2>2. QED
    BY <2>1 DEF Typed, LoopTyped, ClientsTyped
<1>2. /\ msgs # <<>> /\ msgs' = Tail(msgs) /\ m.k = "output"
      /\ UNCHANGED <<gen, out, held, view, snap>>
      /\ IF wired[m.i] = m.g /\ m.n > snap[m.i] THEN Send(<<f>>) ELSE UNCHANGED <<client, sopen, down>>
  BY <1>1 DEF Forward, Take, paneVars, clientVars
<1>3. m \in Msg /\ m.i \in Roles /\ m.g \in Nat /\ m.n \in Nat
  BY <1>1, <1>2, MessageFields
<1> HIDE DEF m
<1>4. f \in Frame /\ f.k = "output" /\ f.i = m.i /\ f.g = m.g /\ f.n = m.n
  BY <1>3, Frames
<1> HIDE DEF f
<1>5. Posted(i)' = Posted(i)
  <2>1. Unposted(i)' = Unposted(i)
    BY <1>2 DEF Unposted
  <2>2. QED
    BY <1>2, <2>1 DEF Posted
<1>6. PICK p \in Nat : /\ Makes(i, view[c][i], down[c], Upto(gen[i], p))
                       /\ Goes(msgs, i, gen[i], snap[i], p, Posted(i))
  BY DEF Piped
<1>7. PICK d \in Nat : Brings(m, i, gen[i], snap[i], p, d) /\ Goes(Tail(msgs), i, gen[i], snap[i], d, Posted(i))
  BY <1>1, <1>2, <1>6, GoesRest DEF m
<1> DEFINE ds == down[c]
           v == view[c][i]
           w == Upto(gen[i], p)
<1>8. Makes(i, v, ds, w) /\ ds \in Seq(Frame)
  BY <1>1, <1>6
<1>9. Send(<<f>>) => down'[c] = ds \o <<f>>
  BY <1>1, SendKinds DEF Untold, Dropped, Written
<1> HIDE DEF ds, v, w
<1>10. ds \o <<f>> = Append(ds, f)
  BY <1>4, <1>8
<1>11. Makes(i, v, Append(ds, f), Arrive(i, w, f))
  BY <1>4, <1>8, MakesMore
<1>12. Makes(i, v, down'[c], Upto(gen[i], d))
  <2>1. CASE Counts(m, i, gen[i], snap[i])
    <3>1. m.i = i /\ m.g = gen[i] /\ m.n = p + 1 /\ d = p + 1
      BY <1>7, <2>1 DEF Brings, Counts
    <3>2. down'[c] = Append(ds, f)
      BY <1>2, <1>9, <1>10, <2>1, <3>1 DEF Counts
    <3>3. Arrive(i, w, f) = Append(w, <<gen[i], p + 1>>)
      BY <1>4, <3>1 DEF Arrive
    <3>4. Arrive(i, w, f) = Upto(gen[i], d)
      BY <1>1, <3>1, <3>3, UptoMore DEF w
    <3>5. QED
      BY <1>11, <3>2, <3>4
  <2>2. CASE ~Counts(m, i, gen[i], snap[i])
    <3>1. d = p
      BY <1>7, <2>2 DEF Brings
    <3>2. CASE wired[m.i] = m.g /\ m.n > snap[m.i]
      <4>1. m.i # i
        BY <1>2, <2>2, <3>2 DEF Counts
      <4>2. Arrive(i, w, f) = w
        BY <1>4, <4>1 DEF Arrive
      <4>3. down'[c] = Append(ds, f)
        BY <1>2, <1>9, <1>10, <3>2
      <4>4. QED
        BY <1>11, <3>1, <4>2, <4>3 DEF w
    <3>3. CASE ~(wired[m.i] = m.g /\ m.n > snap[m.i])
      <4>1. down'[c] = ds
        BY <1>2, <3>3 DEF ds
      <4>2. QED
        BY <1>8, <3>1, <4>1 DEF w
    <3>4. QED
      BY <3>2, <3>3
  <2>3. QED
    BY <2>1, <2>2
<1>13. Makes(i, view'[c][i], down'[c], Upto(gen'[i], d))
  BY <1>2, <1>12 DEF v
<1>14. Goes(msgs', i, gen'[i], snap'[i], d, Posted(i)') /\ snap'[i] <= Posted(i)'
  BY <1>2, <1>5, <1>7 DEF Piped
<1>15. QED
  BY <1>13, <1>14 DEF Piped

\* A stream posts the newest chunk, behind those that it posted before.
LEMMA PostPipe ==
  ASSUME Typed, NumbersInv, NEW c \in Clients, NEW i \in Roles, NEW h \in Unposted(i), PostChunk(h), Piped(c, i)
  PROVE  Piped(c, i)'
<1>1. /\ msgs \in Seq(Msg) /\ held \subseteq [i : Roles, g : Nat, n : Nat]
      /\ snap[i] \in Nat /\ gen[i] \in Nat /\ out[i] \in Nat
  BY DEF Typed, PanesTyped, LoopTyped
<1>2. PICK m \in Msg : m = [k |-> "output", i |-> h.i, g |-> h.g, n |-> h.n]
  <2>1. h.i \in Roles /\ h.g \in Nat /\ h.n \in Nat
    BY <1>1 DEF Unposted
  <2>2. QED
    BY <2>1, Messages
<1>3. msgs' = Append(msgs, m) /\ held' = held \ {h} /\ UNCHANGED <<gen, out, view, snap, down>>
  BY <1>2 DEF PostChunk, Post, loopVars, clientVars
<1>4. \A x \in Unposted(i) : x \in held /\ x.i = i /\ x.g = gen[i] /\ x.n = out[i] /\ x.n > snap[i]
  BY DEF Unposted, NumbersInv
<1>5. Unposted(i)' = {}
  <2>1. ASSUME NEW x \in Unposted(i) PROVE x = h
    <3>1. x \in [i : Roles, g : Nat, n : Nat] /\ h \in [i : Roles, g : Nat, n : Nat]
      BY <1>1, <1>4
    <3>2. x.i = h.i /\ x.g = h.g /\ x.n = h.n
      BY <1>4
    <3>3. QED
      BY <3>1, <3>2
  <2>2. Unposted(i)' = Unposted(i) \ {h}
    BY <1>3 DEF Unposted
  <2>3. QED
    BY <2>1, <2>2
<1>6. Posted(i)' = out[i] /\ Posted(i) = out[i] - 1
  BY <1>3, <1>5 DEF Posted
<1>7. PICK p \in Nat : /\ Makes(i, view[c][i], down[c], Upto(gen[i], p))
                       /\ Goes(msgs, i, gen[i], snap[i], p, Posted(i))
  BY DEF Piped
<1>8. Brings(m, i, gen[i], snap[i], Posted(i), out[i])
  <2>1. m.k = "output" /\ m.i = i /\ m.g = gen[i] /\ m.n = out[i] /\ m.n > snap[i]
    BY <1>2, <1>4
  <2>2. QED
    BY <1>1, <1>6, <2>1 DEF Brings, Counts
<1>9. Goes(msgs', i, gen[i], snap[i], p, out[i])
  BY <1>1, <1>3, <1>7, <1>8, GoesMore
<1>10. snap[i] <= out[i]
  BY <1>1, <1>4
<1>11. QED
  BY <1>3, <1>6, <1>7, <1>9, <1>10 DEF Piped

LEMMA NextPipe ==
  Typed /\ OneInv /\ RosterInv /\ WiredInv /\ BaseInv /\ NumbersInv /\ PipeInv /\ [Next]_vars => PipeInv'
<1>1. SUFFICES ASSUME Typed, OneInv, RosterInv, WiredInv, BaseInv, NumbersInv, PipeInv, [Next]_vars,
                      NEW c \in Clients, NEW i \in Roles, Premise(c, i)'
               PROVE  Piped(c, i)'
  BY DEF PipeInv
<1>2. Typed'
  BY <1>1, NextTyped
<1>3. client' = c /\ Reached(c)'
  BY <1>1 DEF Premise
<1>4. CASE \E d \in Clients : Welcomes(d)
  <2>1. PICK d \in Clients : Welcomes(d)
    BY <1>4
  <2>2. d = c
    BY <1>3, <2>1 DEF Welcomes, Attached
  <2>3. QED
    BY <1>1, <1>2, <2>1, <2>2, WelcomePipe
<1>5. CASE \A d \in Clients : ~Welcomes(d)
  <2>1. /\ Premise(c, i) \/ (ResetPane /\ i = Min(todo))
        /\ c = client /\ Reached(c) /\ i <= base /\ gen'[i] = gen[i] /\ wired[i] = gen[i]
    BY <1>1, <1>5, PremiseBefore
  <2>2. CASE ResetPane /\ i = Min(todo)
    BY <1>1, <1>2, <1>3, <2>1, <2>2, ReplayPipe
  <2>3. CASE Premise(c, i) /\ ~(ResetPane /\ i = Min(todo))
    <3>1. Piped(c, i)
      BY <1>1, <2>3 DEF PipeInv
    <3>2. CASE ResetPane
      BY <1>1, <1>3, <2>1, <2>3, <3>1, <3>2, OtherReplay
    <3>3. CASE Forward
      BY <1>1, <1>3, <2>1, <3>1, <3>3, ForwardPipe
    <3>4. ASSUME NEW h \in Unposted(i), PostChunk(h) PROVE Piped(c, i)'
      BY <1>1, <3>1, <3>4, PostPipe
    <3>5. CASE ~ResetPane /\ ~Forward /\ \A h \in Unposted(i) : ~PostChunk(h)
      <4>1. snap' = snap
        BY <1>1, <1>5, <3>5, ReplaySteps
      <4>2. i <= size /\ snap[i] <= Posted(i)
        <5>1. base <= size
          BY <1>1 DEF WiredInv
        <5>2. base \in Nat /\ size \in Nat /\ i \in Nat
          BY <1>1, Bounds, SizeSteps DEF Typed, LoopTyped
        <5>3. QED
          BY <2>1, <3>1, <5>1, <5>2 DEF Piped
      <4>3. Posted(i)' = Posted(i)
        BY <1>1, <2>1, <3>5, <4>1, <4>2, PostedKept
      <4>4. PICK p \in Nat : /\ Makes(i, view[c][i], down[c], Upto(gen[i], p))
                             /\ Goes(msgs, i, gen[i], snap[i], p, Posted(i))
        BY <3>1 DEF Piped
      <4> DEFINE w == Upto(gen[i], p)
      <4>5. Makes(i, view[c][i], down[c], w)
        BY <4>4
      <4> HIDE DEF w
      <4>6. Makes(i, view'[c][i], down'[c], w)
        BY <1>1, <1>3, <2>1, <3>5, <4>5, WireKept
      <4>7. Posted(i) \in Nat
        <5>1. snap[i] \in Nat /\ out[i] \in Nat
          BY <1>1 DEF Typed, PanesTyped, LoopTyped
        <5>2. QED
          BY <4>2, <5>1 DEF Posted
      <4>8. Goes(msgs', i, gen[i], snap[i], p, Posted(i))
        BY <1>1, <3>5, <4>4, <4>7, MsgsKept
      <4>9. QED
        BY <2>1, <4>1, <4>2, <4>3, <4>6, <4>8 DEF Piped, w
    <3>6. QED
      BY <3>2, <3>3, <3>4, <3>5
  <2>4. QED
    BY <2>1, <2>2, <2>3
<1>6. QED
  BY <1>4, <1>5

\* At first no client is attached, and no chunk is written.
LEMMA InitPipe == Init => HelloInv /\ RosterInv /\ BaseInv /\ WiredInv /\ NumbersInv /\ PipeInv
<1>1. SUFFICES ASSUME Init PROVE HelloInv /\ RosterInv /\ BaseInv /\ WiredInv /\ NumbersInv /\ PipeInv
  OBVIOUS
<1>2. /\ msgs = <<>> /\ held = {} /\ client = NoClient /\ base = 0 /\ size = Roles0 /\ pc = "idle" /\ todo = {}
      /\ gen = [i \in Roles |-> IF i <= Roles0 THEN 1 ELSE 0] /\ wired = gen
      /\ tee = [i \in Roles |-> i <= Roles0]
      /\ conn = [c \in Clients |-> "idle"] /\ down = [c \in Clients |-> <<>>]
      /\ up = [c \in Clients |-> <<>>] /\ known = [c \in Clients |-> 0] /\ upd = [c \in Clients |-> NoFrame]
  BY <1>1 DEF Init
<1>3. DOMAIN msgs = {} /\ \A c \in Clients : DOMAIN up[c] = {} /\ DOMAIN down[c] = {}
  BY <1>2
<1>4. \A c \in Clients : c # client
  BY <1>2, Bounds
<1>5. HelloInv
  BY <1>2 DEF HelloInv
<1>6. \A c \in Clients : Sizes(down[c]) = {}
  BY <1>3 DEF Sizes, News
<1>7. size \in Nat /\ 0 <= size
  BY <1>2, Bounds
<1>8. RosterInv
  BY <1>2, <1>3, <1>6, <1>7 DEF RosterInv
<1>9. BaseInv /\ PipeInv
  BY <1>4 DEF BaseInv, PipeInv, Premise
<1>10. NumbersInv
  BY <1>2, <1>3 DEF NumbersInv
<1>11. WiredInv
  <2>1. Roles \subseteq Nat /\ Roles0 \in Nat /\ \A i \in Roles : i >= 1
    BY Bounds
  <2>2. ASSUME NEW i \in Roles
        PROVE  /\ wired[i] <= gen[i]
               /\ i > size <=> gen[i] = 0
               /\ i <= size /\ wired[i] = gen[i] => tee[i]
               /\ i <= size /\ pc # "wire" => wired[i] # 0
               /\ i <= base => wired[i] # 0
    <3>1. CASE i <= Roles0
      <4>1. gen[i] = 1 /\ wired[i] = 1 /\ tee[i]
        BY <1>2, <3>1
      <4>2. ~(i > size) /\ ~(i <= base)
        BY <1>2, <2>1, <3>1
      <4>3. QED
        BY <4>1, <4>2
    <3>2. CASE ~(i <= Roles0)
      BY <1>2, <2>1, <3>2
    <3>3. QED
      BY <3>1, <3>2
  <2>3. QED
    BY <1>2, <1>7, <2>2 DEF WiredInv
<1>12. QED
  BY <1>5, <1>8, <1>9, <1>10, <1>11

-----------------------------------------------------------------------------
(* All output arrives, once and in order *)

\* One more message the loop will forward, if it is a chunk of role i that counts
Comes(i, v, m) == IF Counts(m, i, gen[i], snap[i]) THEN Append(v, <<m.g, m.n>>) ELSE v

\* The part of Coming that the streams have posted
Forwarded(i) ==
  LET coming(v, m) == IF m.k = "output" /\ m.i = i /\ m.g = gen[i] /\ m.n > snap[i]
                        THEN Append(v, <<m.g, m.n>>) ELSE v
  IN FoldLeft(coming, <<>>, msgs)

LEMMA ForwardedFold ==
  ASSUME NEW i \in Roles, msgs \in Seq(Msg)
  PROVE  \E h \in [0 .. Len(msgs) -> Chunked] :
           /\ h[0] = <<>> /\ h[Len(msgs)] = Forwarded(i)
           /\ \A k \in 1 .. Len(msgs) : h[k] = Comes(i, h[k - 1], msgs[k])
<1> DEFINE n == Len(msgs)
           step == [x \in Chunked \X (1 .. n) |-> Comes(i, x[1], msgs[x[2]])]
           Runs(g) == g = [s \in SUBSET (1 .. n) |->
                             IF s = {} THEN <<>>
                             ELSE LET x == Max(s) IN Comes(i, g[s \ {x}], msgs[x])]
           f == CHOOSE g : Runs(g)
           h == [k \in 0 .. n |-> f[1 .. k]]
<1>0. n \in Nat /\ DOMAIN msgs = 1 .. n /\ <<>> \in Chunked
  BY DEF Chunked
<1>1. Forwarded(i) = f[1 .. n]
  BY <1>0, Zenon DEF Forwarded, FoldLeft, MapThenFoldSet, Comes, Counts
<1>2. \A v \in Chunked, k \in 1 .. n : Comes(i, v, msgs[k]) \in Chunked
  <2>1. SUFFICES ASSUME NEW v \in Chunked, NEW k \in 1 .. n PROVE Comes(i, v, msgs[k]) \in Chunked
    OBVIOUS
  <2>2. msgs[k] \in Msg
    OBVIOUS
  <2>3. msgs[k].k = "output" => <<msgs[k].g, msgs[k].n>> \in Nat \X Nat
    BY <2>2, MessageFields
  <2>4. QED
    BY <2>3 DEF Comes, Counts, Chunked
<1>3. step \in [Chunked \X (1 .. n) -> Chunked]
  BY <1>2
<1> HIDE DEF n
<1>4. PICK g \in [SUBSET (1 .. n) -> Chunked] : Computes(g, n, <<>>, step)
  <2> HIDE DEF step
  <2>1. QED
    BY <1>0, <1>3, FoldExists
<1>5. Runs(g)
  <2>1. ASSUME NEW s \in SUBSET (1 .. n), s # {}
        PROVE  step[<<g[s \ {Max(s)}], Max(s)>>] = Comes(i, g[s \ {Max(s)}], msgs[Max(s)])
    <3>1. Max(s) \in 1 .. n /\ g[s \ {Max(s)}] \in Chunked
      BY <1>0, <2>1, MaxOf
    <3>2. QED
      BY <3>1
  <2> HIDE DEF step
  <2>2. g = [s \in SUBSET (1 .. n) |-> IF s = {} THEN <<>> ELSE step[<<g[s \ {Max(s)}], Max(s)>>]]
    BY <1>4 DEF Computes
  <2>3. QED
    BY <2>1, <2>2
<1>6. Runs(f)
  BY <1>5, Zenon
<1> HIDE DEF f, step
<1>7. \A s \in SUBSET (1 .. n) :
        f[s] = IF s = {} THEN <<>> ELSE Comes(i, f[s \ {Max(s)}], msgs[Max(s)])
  BY <1>6
<1>8. h[0] = <<>>
  <2>1. 0 \in 0 .. n /\ 1 .. 0 = {}
    BY <1>0
  <2>2. f[{}] = <<>>
    BY <1>7
  <2>3. QED
    BY <2>1, <2>2
<1>9. ASSUME NEW k \in 1 .. n PROVE h[k] = Comes(i, h[k - 1], msgs[k])
  <2>1. f[1 .. k] = Comes(i, f[1 .. k - 1], msgs[k])
    BY <1>0, <1>7, Segments
  <2>2. k - 1 \in 0 .. n /\ k \in 0 .. n
    BY <1>0
  <2>3. QED
    BY <2>1, <2>2
<1>10. h[n] = Forwarded(i) /\ h = [k \in 0 .. n |-> h[k]]
  BY <1>0, <1>1
<1> HIDE DEF h
<1>11. \A k \in 0 .. n : h[k] \in Chunked
  <2> DEFINE S == {k \in 0 .. n : h[k] \in Chunked}
  <2>1. 0 \in S
    BY <1>0, <1>8
  <2>2. ASSUME NEW k \in 1 .. n, k - 1 \in S PROVE k \in S
    <3>1. h[k - 1] \in Chunked /\ k \in 0 .. n
      BY <1>0, <2>2
    <3>2. QED
      BY <1>2, <1>9, <3>1
  <2> HIDE DEF S
  <2>3. \A k \in 0 .. n : k \in S
    BY <1>0, <2>1, <2>2, StepByStep
  <2>4. QED
    BY <2>3 DEF S
<1>12. h \in [0 .. n -> Chunked]
  BY <1>10, <1>11
<1>13. QED
  BY <1>8, <1>9, <1>10, <1>12 DEF n

LEMMA AppendBehind ==
  ASSUME NEW X, NEW s \in Seq(X), NEW t \in Seq(X), NEW x \in X
  PROVE  s \o Append(t, x) = Append(s \o t, x)
OBVIOUS

\* What the loop will forward is what the messages bring.
LEMMA ForwardedGoes ==
  ASSUME NEW i \in Roles, msgs \in Seq(Msg), gen[i] \in Nat, snap[i] \in Nat,
         NEW p \in Nat, NEW r \in Nat, Goes(msgs, i, gen[i], snap[i], p, r)
  PROVE  Forwarded(i) \in Chunked /\ Upto(gen[i], p) \o Forwarded(i) = Upto(gen[i], r)
<1> DEFINE n == Len(msgs)
<1>1. PICK h \in [0 .. n -> Chunked] :
        /\ h[0] = <<>> /\ h[n] = Forwarded(i)
        /\ \A k \in 1 .. n : h[k] = Comes(i, h[k - 1], msgs[k])
  BY ForwardedFold
<1>2. PICK q \in [0 .. n -> Nat] :
        /\ q[0] = p /\ q[n] = r
        /\ \A k \in 1 .. n : Brings(msgs[k], i, gen[i], snap[i], q[k - 1], q[k])
  BY DEF Goes
<1>3. n \in Nat /\ \A k \in 1 .. n : msgs[k] \in Msg
  OBVIOUS
<1> HIDE DEF n
<1> DEFINE u == Upto(gen[i], p)
           S == {k \in 0 .. n : u \o h[k] = Upto(gen[i], q[k])}
<1>4. u \in Chunked
  BY UptoTyped DEF Chunked
<1>5. 0 \in S
  <2>1. u \o <<>> = u
    BY <1>4 DEF Chunked
  <2>2. QED
    <3>1. 0 \in 0 .. n /\ h[0] = <<>> /\ Upto(gen[i], q[0]) = u
      BY <1>1, <1>2, <1>3
    <3> HIDE DEF u
    <3>2. QED
      BY <2>1, <3>1
<1>6. ASSUME NEW k \in 1 .. n, k - 1 \in S PROVE k \in S
  <2>1. /\ k - 1 \in 0 .. n /\ k \in 0 .. n /\ h[k - 1] \in Chunked /\ q[k - 1] \in Nat
        /\ u \o h[k - 1] = Upto(gen[i], q[k - 1])
    BY <1>1, <1>2, <1>3, <1>6
  <2>2. h[k] = Comes(i, h[k - 1], msgs[k]) /\ Brings(msgs[k], i, gen[i], snap[i], q[k - 1], q[k])
    BY <1>1, <1>2
  <2> HIDE DEF u
  <2>3. CASE Counts(msgs[k], i, gen[i], snap[i])
    <3> DEFINE x == <<gen[i], q[k - 1] + 1>>
    <3>1. h[k] = Append(h[k - 1], x) /\ q[k] = q[k - 1] + 1
      BY <2>2, <2>3 DEF Comes, Brings, Counts
    <3>2. x \in Nat \X Nat
      BY <2>1
    <3>3. Append(Upto(gen[i], q[k - 1]), x) = Upto(gen[i], q[k])
      BY <2>1, <3>1, UptoMore
    <3> HIDE DEF x
    <3>4. u \o Append(h[k - 1], x) = Append(u \o h[k - 1], x)
      <4> DEFINE t == h[k - 1]
                 X == Nat \X Nat
      <4>1. u \in Seq(X) /\ t \in Seq(X) /\ x \in X
        BY <1>4, <2>1, <3>2 DEF Chunked
      <4> HIDE DEF t, X
      <4>2. u \o Append(t, x) = Append(u \o t, x)
        BY <4>1, AppendBehind
      <4>3. QED
        BY <4>2 DEF t
    <3>5. QED
      BY <2>1, <3>1, <3>3, <3>4
  <2>4. CASE ~Counts(msgs[k], i, gen[i], snap[i])
    <3>1. h[k] = h[k - 1] /\ q[k] = q[k - 1]
      BY <2>2, <2>4 DEF Comes, Brings
    <3>2. QED
      BY <2>1, <3>1
  <2>5. QED
    BY <2>3, <2>4
<1> HIDE DEF u, S
<1>7. \A k \in 0 .. n : k \in S
  BY <1>3, <1>5, <1>6, StepByStep
<1>8. n \in S /\ n \in 0 .. n
  BY <1>3, <1>7
<1>9. QED
  BY <1>1, <1>2, <1>8 DEF u, S

LEMMA OneOnly == \A x : SetToSeq({x}) = <<x>>
<1>1. SUFFICES ASSUME NEW x PROVE SetToSeq({x}) = <<x>>
  OBVIOUS
<1>2. IsFiniteSet({x}) /\ Cardinality({x}) = 1
  BY FS_Singleton
<1>3. ASSUME NEW f \in [1 .. 1 -> {x}] PROVE f = <<x>>
  BY <1>3
<1>4. <<x>> \in [1 .. 1 -> {x}] /\ IsInjective(<<x>>)
  BY DEF IsInjective
<1>5. \E f \in [1 .. 1 -> {x}] : IsInjective(f)
  BY <1>4
<1>6. SetToSeq({x}) \in [1 .. 1 -> {x}]
  BY <1>2, <1>5, Zenon DEF SetToSeq
<1>7. QED
  BY <1>3, <1>6

LEMMA NoneOnly == SetToSeq({}) = <<>>
<1>1. Cardinality({}) = 0
  BY FS_EmptySet
<1>2. \A f \in [1 .. 0 -> {}] : f = <<>>
  OBVIOUS
<1>3. <<>> \in [1 .. 0 -> {}] /\ IsInjective(<<>>)
  BY DEF IsInjective
<1>4. SetToSeq({}) \in [1 .. 0 -> {}]
  BY <1>1, <1>3, Zenon DEF SetToSeq
<1>5. QED
  BY <1>2, <1>4

\* The chunk that a stream has still to post is the newest.
LEMMA ComingExact ==
  ASSUME Typed, NumbersInv, NEW c \in Clients, NEW i \in Roles, Piped(c, i)
  PROVE  Arrived(c, i) \o Coming(i) = Upto(gen[i], out[i])
<1> DEFINE tails == {<<h.g, h.n>> : h \in Unposted(i)}
<1>1. /\ msgs \in Seq(Msg) /\ snap[i] \in Nat /\ gen[i] \in Nat /\ out[i] \in Nat
      /\ view[c][i] \in Chunked /\ down[c] \in Seq(Frame)
  BY DEF Typed, PanesTyped, LoopTyped, ClientsTyped, Chunked
<1>2. Coming(i) = Forwarded(i) \o SetToSeq(tails)
  BY DEF Coming, Forwarded, Unposted
<1>3. PICK p \in Nat : /\ Makes(i, view[c][i], down[c], Upto(gen[i], p))
                       /\ Goes(msgs, i, gen[i], snap[i], p, Posted(i))
  BY DEF Piped
<1>4. Arrived(c, i) = Upto(gen[i], p)
  BY <1>1, <1>3, ArrivedFold, MakesOnce
<1>5. \A h \in Unposted(i) : h.g = gen[i] /\ h.n = out[i] /\ out[i] > snap[i]
  BY DEF Unposted, NumbersInv
<1>6. Posted(i) \in Nat
  BY <1>1 DEF Posted, Piped
<1>7. Forwarded(i) \in Chunked /\ Upto(gen[i], p) \o Forwarded(i) = Upto(gen[i], Posted(i))
  BY <1>1, <1>3, <1>6, ForwardedGoes
<1> DEFINE s == Upto(gen[i], p)
           t == Forwarded(i)
<1>8. s \in Chunked /\ t \in Chunked /\ s \o t = Upto(gen[i], Posted(i))
  BY <1>1, <1>7, UptoTyped DEF Chunked
<1>9. CASE Unposted(i) = {}
  <2>1. tails = {} /\ Posted(i) = out[i]
    BY <1>9 DEF Posted
  <2>2. Coming(i) = t \o <<>>
    BY <1>2, <2>1, NoneOnly
  <2> HIDE DEF s, t, tails
  <2>3. t \o <<>> = t
    BY <1>8 DEF Chunked
  <2>4. QED
    BY <1>4, <1>8, <2>1, <2>2, <2>3 DEF s
<1>10. CASE Unposted(i) # {}
  <2> DEFINE x == <<gen[i], out[i]>>
  <2>1. tails = {x}
    BY <1>5, <1>10
  <2>2. Posted(i) = out[i] - 1 /\ out[i] - 1 \in Nat /\ (out[i] - 1) + 1 = out[i]
    BY <1>1, <1>6, <1>10 DEF Posted
  <2>3. x \in Nat \X Nat
    BY <1>1
  <2>4. Append(Upto(gen[i], out[i] - 1), x) = Upto(gen[i], out[i])
    BY <1>1, <2>2, UptoMore
  <2>5. Coming(i) = t \o <<x>>
    BY <1>2, <2>1, OneOnly
  <2> HIDE DEF s, t, tails, x
  <2>6. t \o <<x>> = Append(t, x) /\ s \o Append(t, x) = Append(s \o t, x)
    <3> DEFINE X == Nat \X Nat
    <3>1. s \in Seq(X) /\ t \in Seq(X) /\ x \in X
      BY <1>8, <2>3 DEF Chunked
    <3> HIDE DEF X
    <3>2. t \o <<x>> = Append(t, x)
      BY <3>1
    <3>3. QED
      BY <3>1, <3>2, AppendBehind
  <2>7. QED
    BY <1>4, <1>8, <2>2, <2>4, <2>5, <2>6 DEF s
<1>11. QED
  BY <1>9, <1>10

\* Whatever the panes write, and however the streams, the loop, the connection and the
\* client's reader interleave: the chunks that a pane of the attached client holds, those
\* on the wire and those that the loop is about to be told of are together the whole
\* output of the role's process, each chunk once and in order.  The snapshot of attach
\* overlaps the loop's channel, a replaced process posts until its stream ends, and the
\* channel and the socket are bounded (attachClient, ensureTees, syncClient, resetPane).
THEOREM AllOutputArrives == Spec => []OutputExact
<1> DEFINE Inv == /\ Typed /\ OneInv /\ MirrorInv /\ HelloInv /\ RosterInv /\ BaseInv /\ WiredInv
                  /\ NumbersInv /\ PipeInv
<1>1. Init => Inv
  BY InitTyped, InitOne, InitMirror, InitPipe
<1>2. Inv /\ [Next]_vars => Inv'
  <2>1. SUFFICES ASSUME Inv, [Next]_vars PROVE Inv'
    OBVIOUS
  <2>2. Typed' /\ OneInv' /\ MirrorInv' /\ HelloInv'
    BY <2>1, NextTyped, NextOne, NextMirror, NextHello
  <2>3. RosterInv' /\ BaseInv' /\ WiredInv'
    BY <2>1, NextRoster, NextBase, NextWired
  <2>4. NumbersInv' /\ PipeInv'
    BY <2>1, NextNumbers, NextPipe
  <2>5. QED
    BY <2>2, <2>3, <2>4
<1>3. Inv => OutputExact
  <2>1. SUFFICES ASSUME Inv, NEW i \in Roles,
                        client # NoClient, Reached(client), i <= base, wired[i] = gen[i], i \notin todo
                 PROVE  Arrived(client, i) \o Coming(i) = Upto(gen[i], out[i])
    BY DEF OutputExact
  <2>2. client \in Clients
    BY <2>1 DEF Typed, LoopTyped
  <2>3. Piped(client, i)
    BY <2>1, <2>2 DEF PipeInv, Premise
  <2>4. QED
    BY <2>1, <2>2, <2>3, ComingExact
<1>4. QED
  BY <1>1, <1>2, <1>3, PTL DEF Spec

=============================================================================
