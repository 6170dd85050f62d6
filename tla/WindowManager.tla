--------------------------- MODULE WindowManager ---------------------------
(***************************************************************************)
(* The in-kernel window manager (desktop/wm.ts with the dock of            *)
(* desktop/theme.ts), driven by desktop.input and desktop.launch, and what *)
(* scene.ts paints of it: which thing has the last word at a pixel of the  *)
(* frame.                                                                  *)
(***************************************************************************)
EXTENDS Integers, Sequences, FiniteSets

CONSTANTS W, H,          \* the screen
          PANEL_H, TITLE_H,
          Apps,          \* APPS, in dock order: records [id, w, h]
          Opening        \* the apps a fresh desktop opens, in order

VARIABLES
    windows, \* the set of open windows [id, app, x, y, w, h, z]
    seq,     \* last window id
    topZ,    \* last z handed out
    drag     \* the drag under way, or NoDrag

wm == <<windows, seq, topZ, drag>>

NoDrag == [id |-> 0, ox |-> 0, oy |-> 0]

AppIds == {Apps[i].id : i \in DOMAIN Apps}
Def(app) == Apps[CHOOSE i \in DOMAIN Apps : Apps[i].id = app]

(* Sizes and places are whole numbers, every app has room for its title    *)
(* bar, and a fresh desktop opens different apps of the dock.              *)
ASSUME GeometryAssumption ==
    /\ W \in Nat /\ H \in Nat /\ PANEL_H \in Nat /\ TITLE_H \in Nat /\ TITLE_H >= 8
    /\ Apps \in Seq([id : AppIds, w : Nat, h : Nat])
    /\ \A i \in DOMAIN Apps : Apps[i].h > TITLE_H
    /\ Opening \in Seq(AppIds)
    /\ \A i, j \in DOMAIN Opening : Opening[i] = Opening[j] => i = j

Window == [id : Nat, app : AppIds, x : Int, y : Int, w : Nat, h : Nat, z : Nat]

TypeOK ==
    /\ windows \subseteq Window
    /\ seq \in Nat /\ topZ \in Nat
    /\ drag \in [id : Nat, ox : Int, oy : Int]

Max2(a, b) == IF a > b THEN a ELSE b
Min2(a, b) == IF a < b THEN a ELSE b

----------------------------------------------------------------------------
(* launch(): a new window, cascaded by the number of open ones.            *)
NewWindow(ws, id, app, z) ==
    LET n == Cardinality(ws) % 6 IN
    [id |-> id, app |-> app, x |-> 40 + n * 36, y |-> PANEL_H + 18 + n * 30,
     w |-> Def(app).w, h |-> Def(app).h, z |-> z]

(* The desktop after the constructor's launches.                           *)
Opened[k \in 0 .. Len(Opening)] ==
    IF k = 0 THEN {}
    ELSE Opened[k - 1] \cup {NewWindow(Opened[k - 1], k, Opening[k], k)}

Init ==
    /\ windows = Opened[Len(Opening)]
    /\ seq = Len(Opening) /\ topZ = Len(Opening)
    /\ drag = NoDrag

Raised(w, z) == [w EXCEPT !.z = z]
With(w, v) == (windows \ {w}) \cup {v}

existing(app) == {w \in windows : w.app = app}

(* What launch(app) does to windows, seq and topZ.                         *)
launch(app) ==
    /\ topZ' = topZ + 1
    /\ IF existing(app) # {}
         THEN /\ windows' = {IF w.app = app THEN Raised(w, topZ + 1) ELSE w : w \in windows}
              /\ seq' = seq
         ELSE /\ windows' = windows \cup {NewWindow(windows, seq + 1, app, topZ + 1)}
              /\ seq' = seq + 1

Inside(p, x, y, w, h) == p.x >= x /\ p.x <= x + w /\ p.y >= y /\ p.y <= y + h
Under(p) == {w \in windows : Inside(p, w.x, w.y, w.w, w.h)}

(* Mutant: the windows are searched in the order they were opened.         *)
topAtOldest(p) == CHOOSE w \in Under(p) : \A v \in Under(p) : v.id >= w.id

(* topAt(): the highest window under the pointer.                          *)
topAt(p) == CHOOSE w \in Under(p) : \A v \in Under(p) : v.z <= w.z

OnClose(p, w) ==
    LET dx == p.x - (w.x + 14)  dy == p.y - (w.y + 11) IN dx * dx + dy * dy <= 49

(* dockLayout(): the dock and the tile of its i-th app.                    *)
DockW == Len(Apps) * 50 + (Len(Apps) - 1) * 12 + 28
DockX == (W - DockW + 1) \div 2
DockY == H - 50 - 28 - 18
TileX(i) == DockX + 14 + (i - 1) * 62
OnTile(p, i) == Inside(p, TileX(i), DockY + 14, 50, 50)

nextZ == topZ + 1

(* pointerdown on a window: raise it, then close it or begin to drag it.   *)
DownOnWindow(p) ==
    LET w == topAt(p) IN
    /\ Under(p) # {}
    /\ topZ' = nextZ
    /\ IF OnClose(p, w)
         THEN windows' = windows \ {w} /\ UNCHANGED drag
         ELSE /\ windows' = With(w, Raised(w, nextZ))
              /\ drag' = IF p.y <= w.y + TITLE_H
                           THEN [id |-> w.id, ox |-> p.x - w.x, oy |-> p.y - w.y]
                           ELSE drag
    /\ UNCHANGED seq

(* pointerdown on the dock, or on nothing.                                 *)
DownOnDock(p) ==
    /\ Under(p) = {}
    /\ \/ \E i \in DOMAIN Apps : OnTile(p, i) /\ launch(Apps[i].id)
       \/ /\ \A i \in DOMAIN Apps : ~OnTile(p, i)
          /\ UNCHANGED <<windows, seq, topZ>>
    /\ UNCHANGED drag

(* A dragged window keeps 80 pixels of its title bar on the screen.       *)
dragged(w, p) ==
    [w EXCEPT !.x = Max2(80 - w.w, Min2(W - 80, p.x - drag.ox)),
              !.y = Max2(PANEL_H, Min2(H - 40, p.y - drag.oy))]

Move(p) ==
    /\ windows' = {IF drag # NoDrag /\ w.id = drag.id THEN dragged(w, p) ELSE w : w \in windows}
    /\ UNCHANGED <<seq, topZ, drag>>

(* Mutant: the drag outlives the button.                                   *)
releasedDragKept == drag

releasedDrag == NoDrag

Up == drag' = releasedDrag /\ UNCHANGED <<windows, seq, topZ>>

(* One call of pointer().                                                  *)
pointer(type, p) ==
    \/ type = "pointerdown" /\ (DownOnWindow(p) \/ DownOnDock(p))
    \/ type = "pointermove" /\ Move(p)
    \/ type = "pointerup" /\ Up

----------------------------------------------------------------------------
(* What is painted.  A primitive is the predicate "it sets the pixel p";   *)
(* colours, gradient, shadows and text are left out.                       *)

OnScreen(p) == p.x >= 0 /\ p.x < W /\ p.y >= 0 /\ p.y < H

fillRect(p, x, y, w, h) == p.x >= x /\ p.x < x + w /\ p.y >= y /\ p.y < y + h

roundRect(p, x, y, w, h, r) ==
    LET into(d, size) == IF d < r THEN r - 1 - d ELSE IF d >= size - r THEN d - (size - r) ELSE -1
        dx == into(p.x - x, w)
        dy == into(p.y - y, h)
    IN  fillRect(p, x, y, w, h) /\ ~(dx >= 0 /\ dy >= 0 /\ dx * dx + dy * dy > r * r)

strokeRect(p, x, y, w, h) ==
    fillRect(p, x, y, w, h) /\ ~fillRect(p, x + 1, y + 1, w - 2, h - 2)

drawWindow(p, v) ==
    \/ roundRect(p, v.x, v.y, v.w, v.h, 9)
    \/ strokeRect(p, v.x, v.y, v.w, v.h)
    \/ fillRect(p, v.x + 1, v.y + 1, v.w - 2, TITLE_H)

(* composeDesktop(): wallpaper, panel, the windows back to front, then the *)
(* dock and its tiles; the thing painted last at p.                        *)
composeDesktop(p) ==
    LET framed(x, y, w, h, r) == roundRect(p, x, y, w, h, r) \/ strokeRect(p, x, y, w, h)
        tiles == {i \in DOMAIN Apps : framed(TileX(i), DockY + 14, 50, 50, 10)}
        drawn == {w \in windows : drawWindow(p, w)}
    IN  IF framed(DockX, DockY, DockW, 78, 14)
          THEN IF tiles = {} THEN [what |-> "dock", id |-> 0]
               ELSE [what |-> "tile", id |-> CHOOSE i \in tiles : TRUE]
        ELSE IF drawn = {}
          THEN [what |-> IF p.y < PANEL_H THEN "panel" ELSE "wallpaper", id |-> 0]
        ELSE [what |-> "window", id |-> (CHOOSE w \in drawn : \A v \in drawn : v.z <= w.z).id]

(* Where a window takes presses without being painted: the line right of   *)
(* it, the line below it, and its rounded lower corners.                   *)
Fringe(p, v) ==
    LET right == v.x + v.w  bottom == v.y + v.h IN
    \/ p.x = right \/ p.y = bottom
    \/ p.y > bottom - 9 /\ (p.x < v.x + 9 \/ p.x > right - 9)

(* The same of a tile: the line right of it, the line below it, and its    *)
(* four rounded corners within the frame.                                  *)
TileFringe(p, i) ==
    LET right == TileX(i) + 50  bottom == DockY + 64 IN
    \/ p.x = right \/ p.y = bottom
    \/ /\ p.x < TileX(i) + 10 \/ p.x > right - 10
       /\ p.y < DockY + 24 \/ p.y > bottom - 10
=============================================================================
