-------------------------------- MODULE Tiling --------------------------------
(***************************************************************************)
(* The tiled deck: internal/wm's layout tree, and what internal/deck does  *)
(* with it - focus, window keys, mouse, resizing, reloads, and the layout  *)
(* kept for the next UI.                                                   *)
(*                                                                         *)
(* A node of the tree is the path that leads to it from the root, a        *)
(* sequence of "a" and "b"; its parent is the path without the last step.  *)
(* A leaf has a role, a split an orientation and a ratio in twentieths:    *)
(* the code adds and clamps 0.05 as floats, which can be off by one cell   *)
(* where a divider falls exactly between two.                              *)
(***************************************************************************)
EXTENDS Integers, Sequences, FiniteSets, SequencesExt

CONSTANTS
  Roles0,    \* roles at start: 0..Roles0-1
  MaxRoles,  \* bound: slots the roster grows to
  Start,     \* the start role
  Areas,     \* what a terminal can leave for the tiles: <<width, height>>
  Deltas,    \* bound: what resize messages move a divider by, in twentieths
  NoLayout   \* no layout was kept

ASSUME TilingAssumption ==
  /\ Roles0 \in Nat \ {0} /\ MaxRoles \in Nat /\ Roles0 <= MaxRoles
  /\ Start \in 0..(Roles0 - 1)
  /\ Areas \subseteq (Nat \X Nat) /\ Areas # {}
  /\ Deltas \subseteq Int

VARIABLES
  size,      \* slots in the roster, tombstones included
  gone,      \* tombstones
  ui,        \* "open" or "closed"
  tree,      \* path -> node
  focused,   \* path of the focused tile
  zoomed, resizing,
  active,    \* the Model's own idea of the focused role
  manual,    \* the user drove focus
  area,      \* what the terminal and the sidebar leave for the tiles
  layout     \* the layout the next UI starts from

treeVars == <<tree, focused>>
vars == <<size, gone, ui, tree, focused, zoomed, resizing, active, manual, area, layout>>

MinRatio == 2
MaxRatio == 18
MinTileW == 12
MinTileH == 4
MinSidebar == 20

Leaf(role) == [leaf |-> TRUE, role |-> role]
Fork(vert, ratio) == [leaf |-> FALSE, vert |-> vert, ratio |-> ratio]
Alone(role) == [p \in {<<>>} |-> Leaf(role)]

-----------------------------------------------------------------------------
(* The tree *)

Tiles(t) == {p \in DOMAIN t : t[p].leaf}
Below(p, q) == IsPrefix(p, q)
Tail0(p, q) == SubSeq(q, Len(p) + 1, Len(q))  \* the way from p down to q

\* Tree order: at the fork where two paths part, "a" comes first
Before(p, q) ==
  \E k \in 1..Len(p) : k <= Len(q) /\ SubSeq(p, 1, k - 1) = SubSeq(q, 1, k - 1)
                       /\ p[k] = "a" /\ q[k] = "b"

Leaves(t) ==
  [k \in 1..Cardinality(Tiles(t)) |->
     CHOOSE p \in Tiles(t) : Cardinality({q \in Tiles(t) : Before(q, p)}) = k - 1]
FirstLeaf(t, p) == CHOOSE q \in Tiles(t) : Below(p, q) /\ \A k \in (Len(p) + 1)..Len(q) : q[k] = "a"
Shows(t, role) == {p \in Tiles(t) : t[p].role = role}

\* The tile that shows role in tree order, or the one that was focused
FocusRole(t, f, role) ==
  IF Shows(t, role) = {} THEN f
  ELSE CHOOSE p \in Shows(t, role) : \A q \in Shows(t, role) \ {p} : Before(p, q)

\* Focus: a hidden role takes over the focused tile
Retarget(t, f, role) == IF Shows(t, role) = {} THEN [t EXCEPT ![f] = Leaf(role)] ELSE t

SplitTree(t, f, vert, role) ==
  [p \in DOMAIN t \cup {f \o <<"a">>, f \o <<"b">>} |->
     CASE p = f -> Fork(vert, 10)
       [] p = f \o <<"a">> -> t[f]
       [] p = f \o <<"b">> -> Leaf(role)
       [] OTHER -> t[p]]

Parent(f) == Front(f)
Sibling(f) == Front(f) \o <<IF Last(f) = "a" THEN "b" ELSE "a">>

\* Mutant: the sibling moves up without its children
MutCloseTree(t, f) ==
  LET up == Parent(f)
      rest == {p \in DOMAIN t : ~Below(up, p)}
  IN [p \in rest \cup {up} |-> IF p \in rest THEN t[p] ELSE t[Sibling(f)]]

\* The subtree that stays takes the place of the fork above the closed tile
CloseTree(t, f) ==
  LET up == Parent(f)
      keep == Sibling(f)
      kept == {p \in DOMAIN t : Below(keep, p)}
      moved == {up \o Tail0(keep, p) : p \in kept}
      rest == {p \in DOMAIN t : ~Below(up, p)}
  IN [p \in rest \cup moved |-> IF p \in rest THEN t[p] ELSE t[keep \o Tail0(up, p)]]

\* The nearest fork above the focused tile with that orientation
Divider(t, f, vert) ==
  LET above == {k \in 0..(Len(f) - 1) : t[SubSeq(f, 1, k)].vert = vert}
  IN IF above = {} THEN {} ELSE {SubSeq(f, 1, CHOOSE k \in above : \A j \in above : j <= k)}

\* Mutant: no end stop at the low end
MutClampRatio(r) == IF r > MaxRatio THEN MaxRatio ELSE r

ClampRatio(r) == IF r < MinRatio THEN MinRatio ELSE IF r > MaxRatio THEN MaxRatio ELSE r

-----------------------------------------------------------------------------
(* Geometry *)

\* The first child's share of a dimension, both at least one cell when there are two
FirstShare(total, ratio) ==
  IF total < 2 THEN total
  ELSE LET a == (total * ratio + 10) \div 20
       IN IF a < 1 THEN 1 ELSE IF a > total - 1 THEN total - 1 ELSE a

\* Mutant: the second child starts where the first one does
MutRect(t, p, w, h) ==
  LET along[k \in 0..Len(p)] ==
        IF k = 0 THEN [x |-> 0, y |-> 0, w |-> w, h |-> h]
        ELSE LET n == t[SubSeq(p, 1, k - 1)]
                 first == FirstShare(IF n.vert THEN along[k - 1].w ELSE along[k - 1].h, n.ratio)
             IN IF n.vert THEN [along[k - 1] EXCEPT !.w = IF p[k] = "a" THEN first ELSE @ - first]
                ELSE [along[k - 1] EXCEPT !.h = IF p[k] = "a" THEN first ELSE @ - first]
  IN along[Len(p)]

\* What a fork leaves of its rectangle to one of its children
Narrow(r, n, step) ==
  LET first == FirstShare(IF n.vert THEN r.w ELSE r.h, n.ratio)
  IN CASE n.vert /\ step = "a" -> [r EXCEPT !.w = first]
       [] n.vert /\ step = "b" -> [r EXCEPT !.x = r.x + first, !.w = r.w - first]
       [] ~n.vert /\ step = "a" -> [r EXCEPT !.h = first]
       [] ~n.vert /\ step = "b" -> [r EXCEPT !.y = r.y + first, !.h = r.h - first]

\* The rectangle of node p: the area narrowed at every fork on the way
Rect(t, p, w, h) ==
  LET along[k \in 0..Len(p)] ==
        IF k = 0 THEN [x |-> 0, y |-> 0, w |-> w, h |-> h]
        ELSE Narrow(along[k - 1], t[SubSeq(p, 1, k - 1)], p[k])
  IN along[Len(p)]

Rects(t, w, h) == [p \in Tiles(t) |-> Rect(t, p, w, h)]

Usable(r) == r.w >= MinTileW /\ r.h >= MinTileH

\* The tiles on the screen: the focused one alone when zoomed or when one is too small
Drawn(t, f, z, w, h) ==
  LET rect == Rects(t, w, h)
  IN IF z \/ \E p \in Tiles(t) : ~Usable(rect[p]) THEN {f} ELSE Tiles(t)

Least(a, b) == IF a < b THEN a ELSE b
Most(a, b) == IF a > b THEN a ELSE b
Overlap(a, al, b, bl) == Least(a + al, b + bl) - Most(a, b)

\* How far tile c lies in direction d of tile f, and along how many cells
Gap(d, f, c) ==
  CASE d = "left" -> f.x - (c.x + c.w)
    [] d = "right" -> c.x - (f.x + f.w)
    [] d = "up" -> f.y - (c.y + c.h)
    [] d = "down" -> c.y - (f.y + f.h)
Shared(d, f, c) ==
  IF d \in {"left", "right"} THEN Overlap(f.y, f.h, c.y, c.h) ELSE Overlap(f.x, f.w, c.x, c.w)

\* Mutant: tiles with a border in common are not neighbours
MutNeighbour(rect, f, d) ==
  LET found == {c \in DOMAIN rect \ {f} : Gap(d, rect[f], rect[c]) > 0 /\ Shared(d, rect[f], rect[c]) > 0}
  IN IF found = {} THEN f
     ELSE CHOOSE c \in found : \A e \in found : Gap(d, rect[f], rect[c]) <= Gap(d, rect[f], rect[e])

\* The tile focus moves to: the nearest, then the one with the longest border,
\* then the first in tree order; f itself when there is none
Neighbour(rect, f, d) ==
  LET gap(c) == Gap(d, rect[f], rect[c])
      shared(c) == Shared(d, rect[f], rect[c])
      found == {c \in DOMAIN rect \ {f} : gap(c) >= 0 /\ shared(c) > 0}
      better(c, e) == \/ gap(c) < gap(e)
                      \/ gap(c) = gap(e) /\ shared(c) > shared(e)
                      \/ gap(c) = gap(e) /\ shared(c) = shared(e) /\ Before(c, e)
  IN IF found = {} THEN f ELSE CHOOSE c \in found : \A e \in found \ {c} : better(c, e)

\* dims: the sidebar takes a third of the terminal, the status line a row
LeftWidth(w) == Most(1, Least(Most(w \div 3, MinSidebar), w - 1))
Dims(w, h, sidebar) == <<Most(1, IF sidebar THEN w - LeftWidth(w) ELSE w), Most(1, h - 1)>>

TileRects == Rects(tree, area[1], area[2])

-----------------------------------------------------------------------------
(* Keeping and restoring the layout *)

Marshal(t, f) == [nodes |-> t, focused |-> t[f].role]
UnmarshalFocus(l) == FocusRole(l.nodes, FirstLeaf(l.nodes, <<>>), l.focused)

Init ==
  /\ size = Roles0 /\ gone = {}
  /\ ui = "open"
  /\ tree = Alone(Start) /\ focused = <<>>
  /\ zoomed = FALSE /\ resizing = FALSE
  /\ active = Start /\ manual = FALSE
  /\ area \in Areas
  /\ layout = NoLayout

\* Mutant: a resumed roster leaves its tombstones out
MutOpen ==
  /\ ui = "closed"
  /\ ui' = "open"
  /\ IF layout = NoLayout
       THEN tree' = Alone(Start) /\ focused' = <<>>
       ELSE tree' = layout.nodes /\ focused' = UnmarshalFocus(layout)
  /\ active' = tree'[focused'].role
  /\ manual' = FALSE /\ zoomed' = FALSE /\ resizing' = FALSE
  /\ size' = size - Cardinality(gone) /\ gone' = {}
  /\ UNCHANGED <<area, layout>>

\* startAll and newClientModel: the kept layout, or one tile on the start role
Open ==
  /\ ui = "closed"
  /\ ui' = "open"
  /\ IF layout = NoLayout
       THEN tree' = Alone(Start) /\ focused' = <<>>
       ELSE tree' = layout.nodes /\ focused' = UnmarshalFocus(layout)
  /\ active' = tree'[focused'].role
  /\ manual' = FALSE /\ zoomed' = FALSE /\ resizing' = FALSE
  /\ UNCHANGED <<size, gone, area, layout>>

\* The UI is gone: what the next one finds is the tree on a foreground quit, and
\* what was kept before on a detach, a crash, or a quit that stops the server
Closed(kept) ==
  /\ ui = "open"
  /\ ui' = "closed"
  /\ layout' = kept
  /\ tree' = Alone(Start) /\ focused' = <<>> /\ active' = Start  \* nothing to show
  /\ manual' = FALSE /\ zoomed' = FALSE /\ resizing' = FALSE
  /\ UNCHANGED <<size, gone, area>>

Quit == Closed(Marshal(tree, focused))
Cut == Closed(layout)

-----------------------------------------------------------------------------
(* Focus *)

\* syncFocus: the Model follows the tree
SyncFocus == active' = tree'[focused'].role

\* focusRole: shows role i in the focused tile unless it has one
FocusOn(i) ==
  IF i = active THEN UNCHANGED <<treeVars, active>>
  ELSE /\ tree' = Retarget(tree, focused, i)
       /\ focused' = FocusRole(tree, focused, i)
       /\ SyncFocus

modes == <<zoomed, resizing>>
roster == <<size, gone, ui, area>>

\* ctrl+o steps through the slots of the roster, whatever is in them
CtrlO ==
  /\ ui = "open"
  /\ manual' = TRUE
  /\ FocusOn((active + 1) % size)
  /\ UNCHANGED <<roster, modes, layout>>

\* A click or the wheel over a tile on the screen
ClickTile(p) ==
  /\ ui = "open" /\ p \in Drawn(tree, focused, zoomed, area[1], area[2])
  /\ IF tree[p].role = active
       THEN UNCHANGED <<treeVars, active, manual>>
       ELSE manual' = TRUE /\ FocusOn(tree[p].role)
  /\ UNCHANGED <<roster, modes, layout>>

\* surfaceRole: a card of the sidebar, or prefix and a digit
Surface(i) ==
  IF i \in gone THEN UNCHANGED <<treeVars, active, manual>>
  ELSE manual' = TRUE /\ FocusOn(i)

ClickCard(i) ==
  /\ ui = "open" /\ i < size
  /\ Surface(i)
  /\ UNCHANGED <<roster, modes, layout>>

\* A delegation or an input prompt steals focus until the user drove it
AutoFocus(i) ==
  /\ ui = "open" /\ ~manual /\ i < size /\ i \notin gone
  /\ FocusOn(i)
  /\ UNCHANGED <<roster, modes, manual, layout>>

-----------------------------------------------------------------------------
(* Window keys: the layout is kept after each *)

WmKey == ui = "open" /\ ~resizing
Keep == layout' = Marshal(tree', focused')

Hidden(i) == Shows(tree, i) = {} /\ i \notin gone

\* A new tile beside the focused one shows the next hidden role
Split(vert) ==
  /\ WmKey
  /\ LET next == {k \in 1..size : Hidden((active + k) % size)} IN
     IF next = {} THEN UNCHANGED <<treeVars, active, manual, zoomed>>
     ELSE /\ manual' = TRUE /\ zoomed' = FALSE
          /\ tree' = SplitTree(tree, focused, vert,
                       (active + CHOOSE k \in next : \A j \in next : k <= j) % size)
          /\ focused' = focused \o <<"b">>
          /\ SyncFocus
  /\ Keep
  /\ UNCHANGED <<roster, resizing>>

\* The sibling takes the place, and its first tile the focus
ClosePane ==
  /\ WmKey
  /\ zoomed' = FALSE
  /\ IF focused = <<>> THEN UNCHANGED <<treeVars, active, manual>>
     ELSE /\ manual' = TRUE
          /\ tree' = CloseTree(tree, focused)
          /\ focused' = FirstLeaf(tree', Parent(focused))
          /\ SyncFocus
  /\ Keep
  /\ UNCHANGED <<roster, resizing>>

FocusDir(d) ==
  /\ WmKey
  /\ manual' = TRUE
  /\ focused' = IF zoomed THEN focused ELSE Neighbour(TileRects, focused, d)
  /\ UNCHANGED tree
  /\ SyncFocus /\ Keep
  /\ UNCHANGED <<roster, modes>>

Turn(k, step, n) == ((k - 1 + step + n) % n) + 1

\* Mutant: the Model does not follow the tree
MutCycle(step) ==
  /\ WmKey
  /\ manual' = TRUE
  /\ LET ls == Leaves(tree) IN
     focused' = ls[Turn(CHOOSE k \in 1..Len(ls) : ls[k] = focused, step, Len(ls))]
  /\ UNCHANGED <<tree, active>>
  /\ Keep
  /\ UNCHANGED <<roster, modes>>

Cycle(step) ==
  /\ WmKey
  /\ manual' = TRUE
  /\ LET ls == Leaves(tree) IN
     focused' = ls[Turn(CHOOSE k \in 1..Len(ls) : ls[k] = focused, step, Len(ls))]
  /\ UNCHANGED tree
  /\ SyncFocus /\ Keep
  /\ UNCHANGED <<roster, modes>>

Zoom ==
  /\ WmKey
  /\ manual' = TRUE /\ zoomed' = ~zoomed
  /\ UNCHANGED <<roster, treeVars, active, resizing>>
  /\ Keep

ResizeMode ==
  /\ WmKey
  /\ resizing' = TRUE
  /\ UNCHANGED <<roster, treeVars, active, manual, zoomed>>
  /\ Keep

ToggleSidebar ==
  /\ WmKey
  /\ area' \in Areas
  /\ UNCHANGED <<size, gone, ui, treeVars, active, manual, modes>>
  /\ Keep

PrefixDigit(i) ==
  /\ WmKey /\ i < size
  /\ Surface(i)
  /\ Keep
  /\ UNCHANGED <<roster, modes>>

\* Resize mode: a key moves the nearest divider, any other key leaves the mode
ResizeKey(vert, delta) ==
  /\ ui = "open" /\ resizing
  /\ tree' = [p \in DOMAIN tree |->
                IF p \in Divider(tree, focused, vert)
                  THEN Fork(vert, ClampRatio(tree[p].ratio + delta)) ELSE tree[p]]
  /\ UNCHANGED <<roster, focused, active, manual, modes, layout>>

LeaveResize ==
  /\ ui = "open" /\ resizing
  /\ resizing' = FALSE
  /\ UNCHANGED <<roster, treeVars, active, manual, zoomed, layout>>

WindowSize ==
  /\ ui = "open"
  /\ area' \in Areas
  /\ UNCHANGED <<size, gone, ui, treeVars, active, manual, modes, layout>>

-----------------------------------------------------------------------------
(* The roster changes under the UI *)

ReloadAdds ==
  /\ size < MaxRoles
  /\ size' = size + 1
  /\ UNCHANGED <<gone, ui, area, treeVars, active, manual, modes, layout>>

\* The tile of a tombstone is closed; the last one shows the start role instead
DropTile(v, i) ==
  IF Shows(v.tree, i) = {} THEN v
  ELSE LET f == FocusRole(v.tree, v.focused, i) IN
       IF f = <<>> THEN [tree |-> Alone(Start), focused |-> <<>>, dropped |-> TRUE]
       ELSE LET t == CloseTree(v.tree, f)
            IN [tree |-> t, focused |-> FirstLeaf(t, Parent(f)), dropped |-> TRUE]

\* The slots of the roster are gone through one after the other
DropTiles(v, stale) ==
  LET after[k \in 0..size] ==
        IF k = 0 THEN v
        ELSE IF k - 1 \in stale THEN DropTile(after[k - 1], k - 1) ELSE after[k - 1]
  IN after[size]

\* Roles are retired: a foreground deck drops the tiles of these, an attached
\* client those of all tombstones
ReloadRetires(retired, stale) ==
  /\ retired # {} /\ retired \subseteq (0..(size - 1)) \ (gone \cup {Start})
  /\ gone' = gone \cup retired
  /\ IF ui = "closed" THEN UNCHANGED <<treeVars, active, zoomed>>
     ELSE LET v == DropTiles([tree |-> tree, focused |-> focused, dropped |-> FALSE], stale)
          IN /\ tree' = v.tree /\ focused' = v.focused
             /\ zoomed' = (zoomed /\ ~v.dropped)
             /\ SyncFocus
  /\ UNCHANGED <<size, ui, area, manual, resizing, layout>>

-----------------------------------------------------------------------------

WindowKeys ==
  \/ \E vert \in BOOLEAN : Split(vert)
  \/ ClosePane \/ Zoom \/ ResizeMode \/ ToggleSidebar
  \/ \E d \in {"left", "down", "up", "right"} : FocusDir(d)
  \/ \E step \in {1, -1} : Cycle(step)
  \/ \E i \in 0..(MaxRoles - 1) : PrefixDigit(i)
  \/ \E vert \in BOOLEAN, delta \in Deltas : ResizeKey(vert, delta)
  \/ LeaveResize

Next ==
  \/ WindowKeys \/ CtrlO \/ \E p \in Tiles(tree) : ClickTile(p)
  \/ \E i \in 0..(MaxRoles - 1) : ClickCard(i) \/ AutoFocus(i)
  \/ WindowSize \/ Open \/ Quit \/ Cut
  \/ ReloadAdds \/ \E retired \in SUBSET (0..(MaxRoles - 1)) :
                     ReloadRetires(retired, retired) \/ ReloadRetires(retired, gone \cup retired)

Spec == Init /\ [][Next]_vars

-----------------------------------------------------------------------------
(* Properties *)

WellFormed(t, f) ==
  /\ <<>> \in DOMAIN t
  /\ \A p \in DOMAIN t :
       /\ p # <<>> => Parent(p) \in DOMAIN t /\ ~t[Parent(p)].leaf /\ Sibling(p) \in DOMAIN t
       /\ IF t[p].leaf THEN t[p].role \in 0..(MaxRoles - 1)
          ELSE t[p].vert \in BOOLEAN /\ t[p].ratio \in MinRatio..MaxRatio /\ p \o <<"a">> \in DOMAIN t
  /\ f \in Tiles(t)

\* Types; the tree is a binary tree and the focus one of its tiles.
TypeOK ==
  /\ size \in Roles0..MaxRoles /\ gone \subseteq 0..(size - 1)
  /\ ui \in {"open", "closed"}
  /\ WellFormed(tree, focused)
  /\ {zoomed, resizing, manual} \subseteq BOOLEAN
  /\ active \in 0..(MaxRoles - 1) /\ area \in Areas

\* The Model's active role, which keys, restarts and pauses go to, is the role of
\* the tile the tree has in focus, whatever moved it last.
ActiveIsFocused == active = tree[focused].role

\* Every tile shows a slot of the roster, which View indexes panes with, and no
\* role has two tiles: FocusRole and the restored focus take the first they find.
\* Slots are kept as tombstones, so that a layout kept long ago still fits.
TilesInRoster ==
  /\ ui = "open" => \A p \in Tiles(tree) : tree[p].role < size
  /\ \A p, q \in Tiles(tree) : tree[p].role = tree[q].role => p = q

Apart(r, s) == r.x + r.w <= s.x \/ s.x + s.w <= r.x \/ r.y + r.h <= s.y \/ s.y + s.h <= r.y

\* One rectangle lies in another, and a cell in a rectangle
Inside(s, r) ==
  /\ r.x <= s.x /\ s.x + s.w <= r.x + r.w
  /\ r.y <= s.y /\ s.y + s.h <= r.y + r.h
Covers(r, x, y) == r.x <= x /\ x < r.x + r.w /\ r.y <= y /\ y < r.y + r.h

\* The tiles on the screen lie in the area, cover it and do not overlap: a first cell
\* that none covers would be where tiles end to its left and above it, or at an edge.
TilesPartition ==
  LET rect == TileRects
      xs == {x \in {0} \cup {rect[p].x + rect[p].w : p \in Tiles(tree)} : x < area[1]}
      ys == {y \in {0} \cup {rect[p].y + rect[p].h : p \in Tiles(tree)} : y < area[2]}
  IN (~zoomed /\ \A p \in Tiles(tree) : Usable(rect[p])) =>
       /\ \A p \in Tiles(tree) : Inside(rect[p], [x |-> 0, y |-> 0, w |-> area[1], h |-> area[2]])
       /\ \A p, q \in Tiles(tree) : p # q => Apart(rect[p], rect[q])
       /\ \A x \in xs, y \in ys : \E p \in Tiles(tree) : Covers(rect[p], x, y)

\* Every tile on the screen can be reached from every other one with the focus keys.
NoTileStranded ==
  LET rect == TileRects
      next == [p \in Tiles(tree) |-> {Neighbour(rect, p, d) : d \in {"left", "down", "up", "right"}}]
  IN (~zoomed /\ \A p \in Tiles(tree) : Usable(rect[p])) =>
       \A S \in (SUBSET Tiles(tree)) \ {{}, Tiles(tree)} : \E p \in S : ~(next[p] \subseteq S)

\* Closing a tile leaves the other tiles, in their order, and nothing else.
RolesInOrder(t) == LET ls == Leaves(t) IN [k \in 1..Len(ls) |-> t[ls[k]].role]
CloseKeepsOthers ==
  focused # <<>> =>
    LET t == CloseTree(tree, focused)
        shown == RolesInOrder(tree)
    IN /\ WellFormed(t, FirstLeaf(t, Parent(focused)))
       /\ \E k \in DOMAIN shown : shown[k] = active /\ RolesInOrder(t) = RemoveAt(shown, k)

\* "a tombstoned role is an exited pane whose tile is closed"
\* (docs/design-session-server.md:59).  The code does not keep this: a kept layout
\* and ctrl+o tile a tombstone (README, section 3).
TombstoneUntiled == ui = "open" => \A p \in Tiles(tree) : tree[p].role \notin gone

=============================================================================
