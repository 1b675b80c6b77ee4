--------------------------------- MODULE Keys ---------------------------------
(***************************************************************************)
(* The overlays of the deck and who gets a key: handleKey and what it      *)
(* calls, against what View draws (internal/deck/deck.go, pager.go and the *)
(* confirm of rollback.go).                                                *)
(*                                                                         *)
(* Both walk the overlays in an order of their own.  The session goes on   *)
(* under them: gates and board rows arrive between two keys, and an        *)
(* attached client has both replaced by the server.  A step is an Update   *)
(* and the View that follows it.                                           *)
(***************************************************************************)
EXTENDS Integers

CONSTANTS
  MaxGates,  \* bound: gates that wait
  BoardCap   \* rows the board keeps

ASSUME KeysAssumption == MaxGates \in Nat /\ BoardCap \in Nat

VARIABLES
  pager, ho, board, help,          \* overlays that are on
  rb,                              \* the rollback confirm: "off", "ask" or "told"
  sel,                             \* the board's selected row
  searching, resizeMode, prefixed,   \* keyModes of the tiled area
  broadcast,
  query, scrolled,                 \* a search is kept, the pane is scrolled back
  gates, rows,                     \* how many gates wait and how many rows there are
  did                              \* history: what the last key decided

overlays == <<pager, ho, board, help, rb>>
keyModes == <<searching, resizeMode, prefixed, broadcast, query>>
session == <<gates, rows>>
keysVars == <<overlays, sel, keyModes, scrolled, session, did>>

KeysInit ==
  /\ pager = FALSE /\ ho = FALSE /\ board = FALSE /\ help = FALSE
  /\ rb = "off" /\ sel = 0
  /\ searching = FALSE /\ resizeMode = FALSE /\ prefixed = FALSE /\ broadcast = FALSE
  /\ query = FALSE /\ scrolled = FALSE
  /\ gates = 0 /\ rows = 0
  /\ did = "nothing"

-----------------------------------------------------------------------------
(* The two orders *)

\* What View draws last, on top of the rest
Screen ==
  CASE pager -> "pager"
    [] ~pager /\ ho -> "handoff"
    [] ~pager /\ ~ho /\ rb # "off" -> "rollback"
    [] ~pager /\ ~ho /\ rb = "off" /\ gates > 0 -> "gate"
    [] ~pager /\ ~ho /\ rb = "off" /\ gates = 0 /\ help -> "help"
    [] ~pager /\ ~ho /\ rb = "off" /\ gates = 0 /\ ~help /\ board -> "board"
    [] OTHER -> "tiles"

\* Mutant: the gate takes its keys before the pager does
MutTaker ==
  CASE gates > 0 /\ rb = "off" /\ ~ho /\ ~board /\ ~help -> "gate"
    [] pager -> "pager"
    [] ~pager /\ rb # "off" -> "rollback"
    [] ~pager /\ rb = "off" /\ ho -> "handoff"
    [] ~pager /\ rb = "off" /\ ~ho /\ board -> "board"
    [] ~pager /\ rb = "off" /\ ~ho /\ ~board /\ help -> "help"
    [] OTHER -> "tiles"

\* Who handleKey gives a key to
Taker ==
  CASE pager -> "pager"
    [] ~pager /\ rb # "off" -> "rollback"
    [] ~pager /\ rb = "off" /\ ho -> "handoff"
    [] ~pager /\ rb = "off" /\ ~ho /\ board -> "board"
    [] ~pager /\ rb = "off" /\ ~ho /\ ~board /\ help -> "help"
    [] ~pager /\ rb = "off" /\ ~ho /\ ~board /\ ~help /\ gates > 0 -> "gate"
    [] OTHER -> "tiles"

\* Mutant: the board is drawn without a look at the selection
MutDraw(s) == sel' = s

\* The board clamps its selection when it is drawn, covered or not
Draw(s) ==
  LET top == IF s >= rows' THEN rows' - 1 ELSE s IN
  sel' = IF ~board' THEN s ELSE IF top < 0 THEN 0 ELSE top

Decides(what) == did' = what
Nothing == Decides("nothing")

-----------------------------------------------------------------------------
(* Keys that an overlay takes *)

\* esc and q close the pager, the rest scrolls it
PagerKey ==
  /\ Taker = "pager"
  /\ pager' \in BOOLEAN
  /\ Nothing
  /\ UNCHANGED <<ho, board, help, rb, keyModes, scrolled, session>>
  /\ Draw(sel)

\* y applies and the overlay tells how it went; the next key closes it, as any
\* other key closes the question
RollbackKey ==
  /\ Taker = "rollback"
  /\ \/ rb = "ask" /\ rb' = "told" /\ Decides("rollback")
     \/ rb' = "off" /\ Nothing
  /\ UNCHANGED <<pager, ho, board, help, keyModes, scrolled, session>>
  /\ Draw(sel)

HandoffKey ==
  /\ Taker = "handoff"
  /\ ho' = FALSE
  /\ did' \in {"handoff", "nothing"}
  /\ UNCHANGED <<pager, board, help, rb, keyModes, scrolled, session>>
  /\ Draw(sel)

\* The row's file in the pager or in the editor, or its checkpoint, which can be
\* missing; any other key closes the board
ReadRow == sel < rows /\ pager' \in BOOLEAN /\ UNCHANGED <<board, rb>>
AskRollback == sel \in 0..(rows - 1) /\ rb' \in {"ask", "told"} /\ UNCHANGED <<pager, board>>

BoardKey ==
  /\ Taker = "board"
  /\ Nothing
  /\ UNCHANGED <<ho, help, keyModes, scrolled, session>>
  /\ \/ UNCHANGED <<pager, board, rb>> /\ Draw(IF sel < rows - 1 THEN sel + 1 ELSE sel)
     \/ UNCHANGED <<pager, board, rb>> /\ Draw(IF sel > 0 THEN sel - 1 ELSE sel)
     \/ (ReadRow \/ AskRollback) /\ Draw(sel)
     \/ board' = FALSE /\ UNCHANGED <<pager, rb>> /\ Draw(sel)

HelpKey ==
  /\ Taker = "help"
  /\ help' = FALSE
  /\ Nothing
  /\ UNCHANGED <<pager, ho, board, rb, keyModes, scrolled, session>>
  /\ Draw(sel)

\* y and n resolve the oldest gate, and what follows from it can fill the board
\* or raise another; v reads its brief or report, e edits it
GateKey ==
  /\ Taker = "gate"
  /\ \/ /\ gates' \in {gates - 1, gates}
        /\ rows' \in {rows, IF rows < BoardCap THEN rows + 1 ELSE rows}
        /\ Decides("verdict") /\ UNCHANGED pager
     \/ pager' \in BOOLEAN /\ Nothing /\ UNCHANGED session
  /\ UNCHANGED <<ho, board, help, rb, keyModes, scrolled>>
  /\ Draw(sel)

-----------------------------------------------------------------------------
(* Keys of the tiled area *)

Plain == Taker = "tiles" /\ ~searching /\ ~resizeMode

\* The query is edited; enter keeps it and jumps, esc drops it
SearchKey ==
  /\ Taker = "tiles" /\ searching
  /\ searching' \in BOOLEAN
  /\ IF searching' THEN UNCHANGED <<query, scrolled>>
     ELSE query' \in BOOLEAN /\ scrolled' \in BOOLEAN
  /\ Nothing
  /\ UNCHANGED <<overlays, resizeMode, prefixed, broadcast, session>>
  /\ Draw(sel)

ResizingKey ==
  /\ Taker = "tiles" /\ ~searching /\ resizeMode
  /\ resizeMode' \in BOOLEAN
  /\ Nothing
  /\ UNCHANGED <<overlays, searching, prefixed, broadcast, query, scrolled, session>>
  /\ Draw(sel)

ArmPrefix ==
  /\ Plain /\ ~prefixed
  /\ prefixed' = TRUE
  /\ Nothing
  /\ UNCHANGED <<overlays, searching, resizeMode, broadcast, query, scrolled, session>>
  /\ Draw(sel)

\* wmAction: one command, and the prefix is spent
WmAction ==
  /\ Plain /\ prefixed
  /\ prefixed' = FALSE
  /\ UNCHANGED <<pager, rb, query, session>>
  /\ \/ /\ \/ help' = TRUE /\ UNCHANGED <<board, ho>> /\ Draw(sel)
           \/ board' = TRUE /\ UNCHANGED <<help, ho>> /\ Draw(rows - 1)
           \/ ho' = TRUE /\ UNCHANGED <<help, board>> /\ Draw(sel)
        /\ Nothing /\ UNCHANGED <<searching, resizeMode, broadcast, scrolled>>
     \/ /\ \/ searching' = TRUE /\ UNCHANGED <<resizeMode, broadcast>>
           \/ resizeMode' = TRUE /\ UNCHANGED <<searching, broadcast>>
           \/ broadcast' = ~broadcast /\ UNCHANGED <<searching, resizeMode>>
        /\ Nothing /\ UNCHANGED <<help, board, ho, scrolled>> /\ Draw(sel)
     \/ \* restart, pause and reload act on roles; tile commands can move the focus
        /\ did' \in {"role", "nothing"} /\ scrolled' \in {scrolled, FALSE}
        /\ UNCHANGED <<help, board, ho, searching, resizeMode, broadcast>> /\ Draw(sel)

\* n and N jump while a search is kept and the pane is scrolled back
JumpKey ==
  /\ Plain /\ ~prefixed /\ scrolled /\ query
  /\ scrolled' \in BOOLEAN
  /\ Nothing
  /\ UNCHANGED <<overlays, keyModes, session>>
  /\ Draw(sel)

\* Anything else is typed into the focused pane, or into all
TypeKey ==
  /\ Plain /\ ~prefixed
  /\ Decides("typed")
  /\ UNCHANGED <<overlays, keyModes, scrolled, session>>
  /\ Draw(sel)

\* PgUp and PgDn and the wheel scroll the pane, whatever covers it but the pager;
\* ctrl+o moves the focus, whatever covers it
Scroll ==
  /\ scrolled' \in BOOLEAN
  /\ Nothing
  /\ UNCHANGED <<overlays, keyModes, session>>
  /\ Draw(sel)

\* The UI ends (ctrl+q, detach, a lost connection); the next one starts plain
NextUI ==
  /\ pager' = FALSE /\ ho' = FALSE /\ board' = FALSE /\ help' = FALSE /\ rb' = "off"
  /\ searching' = FALSE /\ resizeMode' = FALSE /\ prefixed' = FALSE /\ broadcast' = FALSE
  /\ query' = FALSE /\ scrolled' = FALSE
  /\ Nothing
  /\ UNCHANGED session
  /\ Draw(0)

-----------------------------------------------------------------------------
(* The session under the overlays *)

\* In a foreground deck gates queue up and rows fill the board to its cap
Arrives ==
  /\ \/ gates < MaxGates /\ gates' = gates + 1 /\ UNCHANGED rows
     \/ rows < BoardCap /\ rows' = rows + 1 /\ UNCHANGED gates
  /\ Nothing
  /\ UNCHANGED <<overlays, keyModes, scrolled>>
  /\ Draw(sel)

\* A client's gates and rows become those of the server
Synced ==
  /\ gates' \in 0..MaxGates /\ rows' \in 0..BoardCap
  /\ Nothing
  /\ UNCHANGED <<overlays, keyModes, scrolled>>
  /\ Draw(sel)

-----------------------------------------------------------------------------

KeysNext ==
  \/ PagerKey \/ RollbackKey \/ HandoffKey \/ BoardKey \/ HelpKey \/ GateKey
  \/ SearchKey \/ ResizingKey \/ ArmPrefix \/ WmAction \/ JumpKey \/ TypeKey
  \/ Scroll \/ NextUI \/ Arrives \/ Synced

KeysSpec == KeysInit /\ [][KeysNext]_keysVars

-----------------------------------------------------------------------------
(* Properties *)

KeysTypeOK ==
  /\ {pager, ho, board, help, searching, resizeMode, prefixed, broadcast, query, scrolled} \subseteq BOOLEAN
  /\ rb \in {"off", "ask", "told"}
  /\ sel \in 0..BoardCap
  /\ gates \in 0..MaxGates /\ rows \in 0..BoardCap
  /\ did \in {"nothing", "verdict", "rollback", "handoff", "role", "typed"}

\* No key decides anything the user was not looking at: a gate's verdict, a
\* rollback, a handoff, a command to a role and text for an agent each come from a
\* key pressed while that overlay, or the tiles, was on the screen.  handleKey and
\* View order the overlays differently, and gates arrive under all of them.
DecidesWhatIsShown ==
  [][/\ did' = "verdict" => Screen = "gate"
     /\ did' = "rollback" => Screen = "rollback"
     /\ did' = "handoff" => Screen = "handoff"
     /\ did' \in {"role", "typed"} => Screen = "tiles"]_keysVars

\* The row the board's keys index exists: boardKey checks the selection against
\* the end of the board only, and an empty board opens with -1.
SelectionReadable == board => sel >= 0 /\ (sel < rows \/ rows = 0)

\* "approval outranks the other overlays" (deck.go:977): while a gate is on the
\* screen it is the gate that gets the keys.  The code does not keep this: the board
\* under a gate still takes the keys (README, section 3).
GateIsModal == Screen = "gate" => Taker = "gate"

=============================================================================
