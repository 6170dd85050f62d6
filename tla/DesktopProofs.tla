--------------------------- MODULE DesktopProofs ---------------------------
(***************************************************************************)
(* Proofs about the kernel's desktop and its page, for every screen, every *)
(* set of apps, every position of the pointer and any number of inputs.    *)
(***************************************************************************)
EXTENDS Desktop, FiniteSetTheorems, WellFoundedInduction, TLAPS

----------------------------------------------------------------------------
(* Dragging.                                                               *)

(* Inputs on their way have distinct numbers, given out in order.          *)
Numbered ==
    /\ inputs \in Nat
    /\ \A m \in net : m.n \in Nat /\ m.n <= inputs
    /\ \A m, k \in net : m.n = k.n => m = k

(* The last input sent.                                                    *)
Latest(m) == m \in net /\ \A k \in net : k.n <= m.n

(* With no button held and no input lost or overtaken, the release is the  *)
(* last input on its way, or has arrived and ended the drag.               *)
Settling ==
    ~raced /\ ~dragging =>
        \/ net = {} /\ drag = NoDrag
        \/ \E m \in net : m.type = "pointerup" /\ Latest(m)

DragInv == Numbered /\ Settling

----------------------------------------------------------------------------
(* Frames.                                                                 *)

(* One frame at most is under way, and it is not older than the screen.    *)
FrameInv ==
    /\ calls \in Nat /\ screen.at \in Int /\ screen.at <= calls
    /\ \A f, g \in frames : f = g
    /\ ~pending => frames = {}
    /\ \A f \in frames :
          /\ f = [n |-> 0, shot |-> f.shot] /\ f.shot.at \in Int
          /\ f.shot # NoShot => screen.at <= f.shot.at /\ f.shot.at <= calls

----------------------------------------------------------------------------
(* The windows.                                                            *)

(* Windows of different apps at different heights of the stack.            *)
Stack(ws, top) ==
    /\ top \in Nat /\ IsFiniteSet(ws) /\ ws \subseteq Window
    /\ \A w \in ws : w.z <= top /\ w.h > TITLE_H
    /\ \A v, w \in ws : v.z = w.z \/ v.app = w.app => v = w

WindowsInv ==
    /\ Stack(windows, topZ) /\ seq \in Nat
    /\ drag \in [id : Nat, ox : Int, oy : Int]
    /\ \A m \in net : m.p \in [x : Int, y : Int]

----------------------------------------------------------------------------
(* Sending and handling inputs.                                            *)

(* Nothing is on its way when the page opens.                              *)
LEMMA InitDrag == DesktopInit => DragInv
BY DEF DesktopInit, Init, DragInv, Numbered, Settling

(* A new input gets the highest number.                                    *)
LEMMA SendDrag ==
  ASSUME DragInv, NEW type, NEW p, NEW held, send(type, p, held),
         held \/ type = "pointerup"
  PROVE  DragInv'
<1> DEFINE s == [n |-> inputs + 1, type |-> type, p |-> p]
<1>1. /\ net' = net \cup {s} /\ inputs' = inputs + 1 /\ dragging' = held
      /\ drag' = drag /\ raced' = raced
  BY DEF send, wm
<1>2. s.n = inputs + 1 /\ s.type = type
  OBVIOUS
<1> HIDE DEF s
<1>3. Numbered'
  BY <1>1, <1>2 DEF DragInv, Numbered
<1>4. Settling'
  <2>1. PICK m : m = s
    OBVIOUS
  <2>2. m \in net' /\ \A k \in net' : k.n <= m.n
    BY <1>1, <1>2, <2>1 DEF DragInv, Numbered
  <2>3. Latest(m)'
    BY <2>2 DEF Latest
  <2> QED BY <1>1, <1>2, <2>1, <2>2, <2>3 DEF Settling
<1> QED BY <1>3, <1>4 DEF DragInv

(* In order, the release is handled last and ends the drag.                *)
LEMMA ArrivesDrag ==
  ASSUME DragInv, NEW m \in net, Arrives(m)
  PROVE  DragInv'
<1>1. /\ net' = net \ {m} /\ UNCHANGED <<dragging, inputs>>
      /\ raced' = (raced \/ \E k \in net : k.n < m.n)
      /\ m.type = "pointerup" => drag' = NoDrag
  BY DEF Arrives, pointer, Up, releasedDrag
<1>2. Numbered'
  BY <1>1 DEF DragInv, Numbered
<1>3. ASSUME ~raced', ~dragging' PROVE \/ net' = {} /\ drag' = NoDrag
                                       \/ \E u \in net' : u.type = "pointerup" /\ Latest(u)'
  <2>1. ~raced /\ ~dragging /\ \A k \in net : ~(k.n < m.n)
    BY <1>1, <1>3
  <2>2. PICK u \in net : u.type = "pointerup" /\ Latest(u)
    BY <2>1 DEF DragInv, Settling
  <2>3. CASE u = m
    <3>1. \A k \in net : k = m
      BY <2>1, <2>2, <2>3 DEF DragInv, Numbered, Latest
    <3> QED BY <3>1, <1>1, <2>2, <2>3
  <2>4. CASE u # m
    BY <2>2, <2>4, <1>1 DEF Latest
  <2> QED BY <2>3, <2>4
<1>4. Settling'
  BY <1>3 DEF Settling
<1> QED BY <1>2, <1>4 DEF DragInv

(* Each step keeps the two.                                                *)
LEMMA NextDrag == DragInv /\ [Next]_vars => DragInv'
<1> SUFFICES ASSUME DragInv, [Next]_vars PROVE DragInv'
  OBVIOUS
<1>1. ASSUME Release PROVE DragInv'
  BY <1>1, SendDrag DEF Release
<1>2. ASSUME NEW p \in Points, Mouse(p) PROVE DragInv'
  BY <1>2, SendDrag DEF Mouse
<1>3. ASSUME NEW m \in net, Arrives(m) PROVE DragInv'
  BY <1>3, ArrivesDrag
<1>4. ASSUME NEW m \in net, Lost(m) PROVE DragInv'
  BY <1>4 DEF Lost, wm, DragInv, Numbered, Settling
<1>5. ASSUME NEW app, Launch(app) PROVE DragInv'
  <2>1. inputs' = inputs + 1 /\ UNCHANGED <<net, drag, dragging, raced>>
    BY <1>5 DEF Launch
  <2>2. Numbered'
    BY <2>1 DEF DragInv, Numbered
  <2>3. Settling'
    BY <2>1 DEF DragInv, Settling, Latest
  <2> QED BY <2>2, <2>3 DEF DragInv
<1>6. ASSUME UNCHANGED <<drag, dragging, inputs, net, raced>> PROVE DragInv'
  BY <1>6 DEF DragInv, Numbered, Settling, Latest
<1>7. ASSUME Returns \/ Tick \/ UNCHANGED vars PROVE DragInv'
  BY <1>6, <1>7 DEF Returns, Tick, vars, page, wm
<1>8. ASSUME NEW f \in frames, Shows(f) \/ Composes(f) \/ Fails(f) PROVE DragInv'
  BY <1>6, <1>8 DEF Shows, Composes, Fails, wm
<1> QED
  BY <1>1, <1>2, <1>3, <1>4, <1>5, <1>7, <1>8 DEF Next, Delivers, Loads

(* The kernel drags a window only while a button is held or the release is *)
(* still on its way, unless an input was lost or overtaken.                *)
THEOREM DragCorrect == Spec => []DragIsHeld
<1>1. DragInv => DragIsHeld
  BY DEF DragInv, Settling, DragIsHeld
<1> QED BY <1>1, InitDrag, NextDrag, PTL DEF Spec

----------------------------------------------------------------------------
(* Asking for, composing and showing frames.                               *)

(* The page begins with an empty screen and one frame asked for.           *)
LEMMA InitFrames == DesktopInit => FrameInv
BY DEF DesktopInit, FrameInv, NoShot

(* refresh() asks for a frame only when none is under way.                 *)
LEMMA RefreshFrames ==
  ASSUME FrameInv, refresh, UNCHANGED <<calls, screen>>
  PROVE  FrameInv'
<1>1. CASE UNCHANGED <<pending, frames>>
  BY <1>1 DEF FrameInv
<1>2. CASE ~pending /\ pending' = TRUE /\ frames' = {[n |-> 0, shot |-> NoShot]}
  BY <1>2 DEF FrameInv, NoShot
<1>3. ~pending => frames = {}
  BY DEF FrameInv
<1> QED BY <1>1, <1>2, <1>3 DEF refresh

(* Each step keeps the order of frames.                                    *)
LEMMA NextFrames ==
  FrameInv /\ [Next]_vars => FrameInv' /\ (screen' = screen \/ screen'.at >= screen.at)
<1> SUFFICES ASSUME FrameInv, [Next]_vars
             PROVE  FrameInv' /\ (screen' = screen \/ screen'.at >= screen.at)
  OBVIOUS
<1>1. ASSUME UNCHANGED <<pending, frames, screen>>, calls' \in {calls, calls + 1}
      PROVE  FrameInv' /\ screen' = screen
  <2>1. calls' \in Nat /\ calls' >= calls
    BY <1>1 DEF FrameInv
  <2> QED BY <1>1, <2>1 DEF FrameInv
<1>2. ASSUME Release \/ \E p \in Points : Mouse(p) PROVE FrameInv' /\ screen' = screen
  BY <1>1, <1>2 DEF Release, Mouse, send
<1>3. ASSUME NEW m \in net, Arrives(m) \/ Lost(m) PROVE FrameInv' /\ screen' = screen
  BY <1>1, <1>3 DEF Arrives, Lost
<1>4. ASSUME NEW app, Launch(app) PROVE FrameInv' /\ screen' = screen
  BY <1>1, <1>4 DEF Launch
<1>5. ASSUME Returns \/ Tick PROVE FrameInv' /\ screen' = screen
  BY <1>5, RefreshFrames DEF Returns, Tick
<1>6. ASSUME NEW f \in frames, Composes(f) PROVE FrameInv' /\ screen' = screen
  <2>1. UNCHANGED <<pending, screen, calls>> /\ f = [n |-> 0, shot |-> f.shot] /\ frames = {f}
    BY <1>6 DEF Composes, FrameInv
  <2>2. frames' = {[n |-> 0, shot |-> Shot]}
    <3>1. [f EXCEPT !.shot = Shot] = [n |-> 0, shot |-> Shot]
      BY <2>1
    <3> QED BY <1>6, <2>1, <3>1 DEF Composes
  <2>3. Shot.at = calls
    BY DEF Shot
  <2> QED BY <2>1, <2>2, <2>3 DEF FrameInv
<1>7. ASSUME NEW f \in frames, Shows(f) PROVE FrameInv' /\ screen'.at >= screen.at
  <2>1. screen' = f.shot /\ frames' = {} /\ calls' = calls /\ f.shot # NoShot
    BY <1>7 DEF Shows, FrameInv
  <2> QED BY <2>1 DEF FrameInv
<1>8. ASSUME NEW f \in frames, Fails(f) PROVE FrameInv' /\ screen' = screen
  <2>1. frames' = {} /\ UNCHANGED <<screen, calls>>
    BY <1>8 DEF Fails, FrameInv
  <2> QED BY <2>1 DEF FrameInv
<1>9. ASSUME UNCHANGED vars PROVE FrameInv' /\ screen' = screen
  BY <1>1, <1>9 DEF vars, page
<1> QED
  BY <1>2, <1>3, <1>4, <1>5, <1>6, <1>7, <1>8, <1>9 DEF Next, Delivers, Loads

(* The screen never goes back to an older picture.                         *)
THEOREM FramesCorrect == Spec => FramesInOrder
<1>1. FrameInv /\ [Next]_vars => [screen'.at >= screen.at]_vars
  <2> SUFFICES ASSUME FrameInv, [Next]_vars PROVE screen'.at >= screen.at
    OBVIOUS
  <2> QED BY NextFrames DEF FrameInv
<1>2. FrameInv /\ [Next]_vars => FrameInv'
  BY NextFrames
<1> QED BY <1>1, <1>2, InitFrames, PTL DEF Spec, FramesInOrder

----------------------------------------------------------------------------
(* The stack of windows.                                                   *)

(* Every nonempty set of natural numbers has a least element.              *)
LEMMA Least ==
  ASSUME NEW T, T \subseteq Nat, T # {}
  PROVE  \E x \in T : \A y \in T : x <= y
<1>1. PICK x \in T : \A y \in T : ~ (<<y, x>> \in OpToRel(<, Nat))
  BY NatLessThanWellFounded, WFMin
<1>2. \A y \in T : ~ (y < x)
  BY <1>1 DEF OpToRel
<1> QED BY <1>2

(* Of some windows of a stack one is the highest.                          *)
LEMMA Highest ==
  ASSUME NEW ws, NEW top, Stack(ws, top), NEW vs, vs \subseteq ws, vs # {}
  PROVE  \E w \in vs : \A v \in vs : v.z <= w.z
<1> DEFINE T == {top - w.z : w \in vs}
<1>1. top \in Nat /\ \A w \in vs : w.z \in Nat /\ w.z <= top
  BY DEF Stack, Window
<1>2. T \subseteq Nat /\ T # {}
  BY <1>1
<1>3. PICK x \in T : \A y \in T : x <= y
  BY <1>2, Least
<1>4. PICK w \in vs : x = top - w.z
  BY <1>3
<1>5. ASSUME NEW v \in vs PROVE v.z <= w.z
  <2>1. top - v.z \in T
    OBVIOUS
  <2>2. top - w.z <= top - v.z
    BY <2>1, <1>3, <1>4
  <2> QED BY <2>2, <1>1
<1> QED BY <1>5

(* An app of the dock has a size, with room for its title bar.             *)
LEMMA DefFacts ==
  ASSUME NEW app \in AppIds
  PROVE  Def(app).w \in Nat /\ Def(app).h \in Nat /\ Def(app).h > TITLE_H
<1>1. PICK i \in DOMAIN Apps : Apps[i].id = app
  BY DEF AppIds
<1> DEFINE j == CHOOSE k \in DOMAIN Apps : Apps[k].id = app
<1>2. j \in DOMAIN Apps
  BY <1>1
<1> HIDE DEF j
<1> DEFINE Sizes == [id : AppIds, w : Nat, h : Nat]
<1>3. \A k \in DOMAIN Apps : Apps[k] \in Sizes
  <2>1. Apps \in Seq(Sizes)
    BY GeometryAssumption
  <2> HIDE DEF Sizes
  <2> QED BY <2>1
<1>4. \A k \in DOMAIN Apps : Apps[k].w \in Nat /\ Apps[k].h \in Nat
  BY <1>3
<1>5. \A k \in DOMAIN Apps : Apps[k].h > TITLE_H
  BY GeometryAssumption
<1>6. Apps[j].w \in Nat /\ Apps[j].h \in Nat /\ Apps[j].h > TITLE_H
  BY <1>2, <1>4, <1>5
<1> QED BY <1>6 DEF Def, j

(* A new window is a window.                                               *)
LEMMA NewWindowFacts ==
  ASSUME NEW ws, IsFiniteSet(ws), NEW id \in Nat, NEW app \in AppIds, NEW z \in Nat
  PROVE  /\ NewWindow(ws, id, app, z) \in Window
         /\ NewWindow(ws, id, app, z).z = z /\ NewWindow(ws, id, app, z).app = app
         /\ NewWindow(ws, id, app, z).h > TITLE_H
<1>1. Cardinality(ws) \in Nat
  BY FS_CardinalityType
<1> DEFINE n == Cardinality(ws) % 6
<1>2. n \in Int
  BY <1>1
<1>3. 40 + n * 36 \in Int /\ PANEL_H + 18 + n * 30 \in Int
  BY <1>2, GeometryAssumption
<1> QED BY <1>3, DefFacts DEF NewWindow, Window

(* A window of a new app goes on top.                                      *)
LEMMA StackAdd ==
  ASSUME NEW ws, NEW top, Stack(ws, top), NEW id \in Nat, NEW app \in AppIds,
         \A w \in ws : w.app # app
  PROVE  Stack(ws \cup {NewWindow(ws, id, app, top + 1)}, top + 1)
<1> DEFINE new == NewWindow(ws, id, app, top + 1)
<1>1. top \in Nat /\ top + 1 \in Nat /\ IsFiniteSet(ws) /\ ws \subseteq Window
  BY DEF Stack
<1>2. new \in Window /\ new.z = top + 1 /\ new.app = app /\ new.h > TITLE_H
  BY <1>1, NewWindowFacts
<1> HIDE DEF new
<1>3. IsFiniteSet(ws \cup {new})
  BY <1>1, FS_AddElement
<1>4. \A w \in ws : w.z \in Nat /\ w.z <= top /\ w.h > TITLE_H
  BY <1>1 DEF Stack, Window
<1>5. \A w \in ws \cup {new} : w.z <= top + 1 /\ w.h > TITLE_H
  BY <1>1, <1>2, <1>4
<1>6. \A w \in ws : w.z # new.z /\ w.app # new.app
  BY <1>1, <1>2, <1>4
<1>7. \A v, w \in ws \cup {new} : v.z = w.z \/ v.app = w.app => v = w
  BY <1>6 DEF Stack
<1>8. ws \cup {new} \subseteq Window
  BY <1>1, <1>2
<1>9. Stack(ws \cup {new}, top + 1)
  BY <1>1, <1>3, <1>5, <1>7, <1>8 DEF Stack
<1> QED BY <1>9 DEF new

(* The image of the windows under a change of some of them, w to f[w],     *)
(* that keeps the apps, the sizes and the order of the stack.              *)
LEMMA StackMap ==
  ASSUME NEW ws, NEW top, Stack(ws, top), NEW f, f = [w \in ws |-> f[w]], NEW top2 \in Nat,
         \A w \in ws : /\ f[w] \in Window /\ f[w].h = w.h /\ f[w].app = w.app
                       /\ f[w].z <= top2,
         \A v, w \in ws : f[v].z = f[w].z => v = w
  PROVE  Stack({f[w] : w \in ws}, top2)
<1> DEFINE T == {f[w] : w \in ws}
<1>1. IsFiniteSet(ws)
  BY DEF Stack
<1>2. IsFiniteSet(T)
  <2>1. f \in Surjection(ws, T)
    <3>1. f = [w \in ws |-> f[w]]
      OBVIOUS
    <3>2. f \in [ws -> T] /\ \A t \in T : \E w \in ws : f[w] = t
      OBVIOUS
    <3> QED BY <3>2 DEF Surjection
  <2> HIDE DEF T
  <2> QED BY <1>1, <2>1, FS_Surjection
<1>3. T \subseteq Window
  OBVIOUS
<1>4. \A w \in T : w.z <= top2 /\ w.h > TITLE_H
  BY DEF Stack
<1>5. \A v, w \in ws : f[v].z = f[w].z \/ f[v].app = f[w].app => f[v] = f[w]
  BY DEF Stack
<1>6. \A v, w \in T : v.z = w.z \/ v.app = w.app => v = w
  BY <1>5
<1> HIDE DEF T
<1>7. Stack(T, top2)
  BY <1>2, <1>3, <1>4, <1>6 DEF Stack
<1> QED BY <1>7 DEF T

----------------------------------------------------------------------------
(* The windows of a fresh desktop.                                         *)

Grow(ws, k) == ws \cup {NewWindow(ws, k, Opening[k], k)}

(* f lists the desktops after the first 0, 1, ..., n launches.             *)
Launches(f, n) == f = [k \in 0 .. n |-> IF k = 0 THEN {} ELSE Grow(f[k - 1], k)]

(* There is such a list for every number of launches.                      *)
LEMMA LaunchesExist == \A n \in Nat : \E f : Launches(f, n)
<1> DEFINE T == {n \in Nat : ~ \E f : Launches(f, n)}
<1> SUFFICES ASSUME T # {} PROVE FALSE
  OBVIOUS
<1>1. PICK n \in T : \A m \in T : n <= m
  BY Least
<1>2. n # 0
  <2>1. Launches([k \in 0 .. 0 |-> {}], 0)
    BY DEF Launches
  <2> QED BY <2>1
<1>3. n - 1 \in Nat /\ n - 1 \notin T
  BY <1>1, <1>2
<1>4. PICK g : Launches(g, n - 1)
  BY <1>3
<1> DEFINE f == [k \in 0 .. n |-> IF k = n THEN Grow(g[n - 1], n) ELSE g[k]]
<1>5. ASSUME NEW k \in 0 .. n PROVE f[k] = IF k = 0 THEN {} ELSE Grow(f[k - 1], k)
  <2>1. n \in Nat /\ k \in Nat
    OBVIOUS
  <2>2. CASE k = n
    <3>1. f[k] = Grow(g[n - 1], n) /\ n - 1 \in 0 .. n /\ n - 1 # n
      BY <2>1, <2>2, <1>3
    <3>2. f[n - 1] = g[n - 1]
      BY <3>1
    <3> QED BY <2>2, <3>1, <3>2, <1>2
  <2>3. CASE k # n
    <3>1. k \in 0 .. n - 1
      BY <2>1, <2>3
    <3>2. f[k] = g[k]
      BY <2>3
    <3>3. g[k] = IF k = 0 THEN {} ELSE Grow(g[k - 1], k)
      BY <3>1, <1>4 DEF Launches
    <3>4. CASE k = 0
      BY <3>2, <3>3, <3>4
    <3>5. CASE k # 0
      <4>1. k - 1 \in 0 .. n /\ k - 1 # n
        BY <3>1, <3>5, <2>1
      <4>2. f[k - 1] = g[k - 1]
        BY <4>1
      <4> QED BY <3>2, <3>3, <3>5, <4>2
    <3> QED BY <3>4, <3>5
  <2> QED BY <2>2, <2>3
<1>6. Launches(f, n)
  <2>1. f = [k \in 0 .. n |-> f[k]]
    OBVIOUS
  <2> HIDE DEF f
  <2>2. [k \in 0 .. n |-> f[k]] = [k \in 0 .. n |-> IF k = 0 THEN {} ELSE Grow(f[k - 1], k)]
    BY <1>5
  <2> QED BY <2>1, <2>2 DEF Launches
<1> QED BY <1>6, <1>1

(* The definition of Opened is one.                                        *)
LEMMA OpenedDef == Launches(Opened, Len(Opening))
<1>1. Len(Opening) \in Nat
  BY GeometryAssumption
<1>2. \E f : Launches(f, Len(Opening))
  BY <1>1, LaunchesExist
<1> QED BY <1>2, Zenon DEF Opened, Launches, Grow

(* A fresh desktop is a stack of the apps it opens.                        *)
LEMMA OpenedStack == Stack(Opened[Len(Opening)], Len(Opening))
<1> DEFINE N == Len(Opening)
           Fresh(k) == /\ Stack(Opened[k], k)
                       /\ \A w \in Opened[k] : \E i \in 1 .. k : w.app = Opening[i]
           T == {k \in 0 .. N : ~ Fresh(k)}
<1>0. /\ N \in Nat /\ DOMAIN Opening = 1 .. N
      /\ \A i \in 1 .. N : Opening[i] \in AppIds
      /\ \A i, j \in 1 .. N : Opening[i] = Opening[j] => i = j
  BY GeometryAssumption
<1>1. ASSUME NEW k \in 0 .. N
      PROVE  Opened[k] = IF k = 0 THEN {} ELSE Grow(Opened[k - 1], k)
  BY OpenedDef DEF Launches
<1> HIDE DEF N
<1>2. Fresh(0)
  BY <1>0, <1>1, FS_EmptySet DEF Stack
<1>3. ASSUME NEW k \in 1 .. N, Fresh(k - 1) PROVE Fresh(k)
  <2> DEFINE ws == Opened[k - 1]
             new == NewWindow(ws, k, Opening[k], k)
  <2>1. k \in Nat /\ k - 1 \in Nat /\ k - 1 + 1 = k /\ Opening[k] \in AppIds /\ k \in 0 .. N /\ k # 0
    BY <1>0
  <2>2. Opened[k] = ws \cup {new}
    BY <2>1, <1>1 DEF Grow
  <2>3. \A w \in ws : w.app # Opening[k]
    <3>1. \A i \in 1 .. k - 1 : i \in 1 .. N /\ i # k
      BY <1>0, <2>1
    <3> QED BY <3>1, <1>0, <1>3
  <2>4. Stack(ws, k - 1)
    BY <1>3
  <2>5. Stack(ws \cup {new}, k)
    <3> HIDE DEF ws
    <3>1. Stack(ws \cup {NewWindow(ws, k, Opening[k], k - 1 + 1)}, k - 1 + 1)
      BY <2>1, <2>3, <2>4, StackAdd
    <3> QED BY <3>1, <2>1
  <2>6. new.app = Opening[k]
    BY DEF NewWindow
  <2>7. \A w \in ws : \E i \in 1 .. k - 1 : w.app = Opening[i]
    BY <1>3
  <2>8. \A i \in 1 .. k - 1 : i \in 1 .. k
    BY <2>1
  <2>9. k \in 1 .. k
    BY <2>1
  <2> HIDE DEF ws, new
  <2>10. \A w \in ws \cup {new} : \E i \in 1 .. k : w.app = Opening[i]
    BY <2>6, <2>7, <2>8, <2>9
  <2> QED BY <2>2, <2>5, <2>10
<1> HIDE DEF Fresh
<1>4. T = {}
  <2> SUFFICES ASSUME T # {} PROVE FALSE
    OBVIOUS
  <2>0. T \subseteq Nat
    BY <1>0
  <2>1. PICK k \in T : \A j \in T : k <= j
    <3> HIDE DEF T
    <3> QED BY <2>0, Least
  <2>2. k \in 1 .. N
    BY <2>1, <1>0, <1>2
  <2>3. k - 1 \in 0 .. N /\ ~ (k <= k - 1)
    BY <2>2, <1>0
  <2>4. Fresh(k - 1)
    BY <2>1, <2>3
  <2> QED BY <2>1, <2>2, <2>4, <1>3
<1>5. Fresh(N)
  BY <1>0, <1>4
<1> QED BY <1>5 DEF Fresh, N

----------------------------------------------------------------------------
(* What the handlers do to the stack.                                      *)

(* Raising a window changes only its place in the stack.                   *)
LEMMA RaisedFacts ==
  ASSUME NEW w \in Window, NEW z \in Nat
  PROVE  /\ Raised(w, z) \in Window /\ Raised(w, z).z = z
         /\ Raised(w, z).app = w.app /\ Raised(w, z).h = w.h
BY DEF Raised, Window

(* Dragging a window changes only its place on the screen.                 *)
LEMMA DraggedFacts ==
  ASSUME NEW w \in Window, NEW p \in [x : Int, y : Int],
         drag \in [id : Nat, ox : Int, oy : Int]
  PROVE  /\ dragged(w, p) \in Window /\ dragged(w, p).z = w.z
         /\ dragged(w, p).app = w.app /\ dragged(w, p).h = w.h
<1> DEFINE a == Max2(80 - w.w, Min2(W - 80, p.x - drag.ox))
           b == Max2(PANEL_H, Min2(H - 40, p.y - drag.oy))
<1>1. W \in Int /\ H \in Int /\ PANEL_H \in Int /\ w.w \in Int
  BY GeometryAssumption DEF Window
<1>2. p.x - drag.ox \in Int /\ p.y - drag.oy \in Int
  OBVIOUS
<1>3. a \in Int /\ b \in Int
  BY <1>1, <1>2 DEF Max2, Min2
<1> HIDE DEF a, b
<1>4. dragged(w, p) = [w EXCEPT !.x = a, !.y = b]
  BY DEF dragged, a, b
<1> QED BY <1>3, <1>4 DEF Window

(* Launching an app raises its window or opens one.                        *)
LEMMA LaunchStack ==
  ASSUME Stack(windows, topZ), seq \in Nat, NEW app \in AppIds, launch(app)
  PROVE  Stack(windows', topZ') /\ seq' \in Nat
<1>0. topZ \in Nat /\ topZ' = topZ + 1 /\ windows \subseteq Window
  BY DEF Stack, launch
<1>1. CASE existing(app) # {}
  <2> DEFINE f == [w \in windows |-> IF w.app = app THEN Raised(w, topZ + 1) ELSE w]
  <2>1. windows' = {f[w] : w \in windows} /\ seq' = seq
    BY <1>1 DEF launch
  <2>2. ASSUME NEW w \in windows
        PROVE  /\ f[w] \in Window /\ f[w].h = w.h /\ f[w].app = w.app
               /\ f[w].z = IF w.app = app THEN topZ + 1 ELSE w.z
    BY <1>0, RaisedFacts
  <2>3. \A w \in windows : w.z \in Nat /\ w.z <= topZ
    BY <1>0 DEF Stack, Window
  <2>4. f = [w \in windows |-> f[w]]
    OBVIOUS
  <2> HIDE DEF f
  <2>5. \A w \in windows : f[w].z <= topZ + 1
    BY <1>0, <2>2, <2>3
  <2>6. ASSUME NEW v \in windows, NEW w \in windows, f[v].z = f[w].z PROVE v = w
    <3>1. v.app = app <=> w.app = app
      BY <1>0, <2>2, <2>3, <2>6
    <3>2. v.app = w.app \/ v.z = w.z
      BY <2>2, <2>6, <3>1
    <3> QED BY <3>2 DEF Stack
  <2>7. Stack({f[w] : w \in windows}, topZ + 1)
    BY <1>0, <2>2, <2>4, <2>5, <2>6, StackMap
  <2> QED BY <1>0, <2>1, <2>7
<1>2. CASE existing(app) = {}
  <2>1. /\ windows' = windows \cup {NewWindow(windows, seq + 1, app, topZ + 1)}
        /\ seq' = seq + 1
    BY <1>2 DEF launch
  <2>2. \A w \in windows : w.app # app
    BY <1>2 DEF existing
  <2>3. seq + 1 \in Nat
    OBVIOUS
  <2> QED BY <1>0, <2>1, <2>2, <2>3, StackAdd
<1> QED BY <1>1, <1>2

(* The highest window under the pointer is there.                          *)
LEMMA TopAtFacts ==
  ASSUME Stack(windows, topZ), NEW p, Under(p) # {}
  PROVE  /\ topAt(p) \in Under(p) /\ topAt(p) \in windows
         /\ \A v \in Under(p) : v.z <= topAt(p).z
<1>1. Under(p) \subseteq windows
  BY DEF Under
<1>2. \E w \in Under(p) : \A v \in Under(p) : v.z <= w.z
  BY <1>1, Highest
<1> QED BY <1>1, <1>2 DEF topAt

(* A press on a window closes or raises it.                                *)
LEMMA DownStack ==
  ASSUME Stack(windows, topZ), seq \in Nat, drag \in [id : Nat, ox : Int, oy : Int],
         NEW p \in [x : Int, y : Int], DownOnWindow(p)
  PROVE  /\ Stack(windows', topZ') /\ seq' \in Nat
         /\ drag' \in [id : Nat, ox : Int, oy : Int]
<1> DEFINE w == topAt(p)
<1>0. /\ topZ \in Nat /\ topZ' = topZ + 1 /\ windows \subseteq Window /\ w \in windows
      /\ seq' = seq /\ IsFiniteSet(windows)
  BY TopAtFacts DEF Stack, DownOnWindow, nextZ
<1>d. drag' = drag \/ drag' = [id |-> w.id, ox |-> p.x - w.x, oy |-> p.y - w.y]
  BY DEF DownOnWindow
<1>w. windows' = windows \ {w} \/ windows' = (windows \ {w}) \cup {Raised(w, topZ + 1)}
  BY DEF DownOnWindow, With, nextZ
<1> HIDE DEF w
<1>1. /\ w \in Window /\ Raised(w, topZ + 1) \in Window
      /\ Raised(w, topZ + 1).z = topZ + 1 /\ Raised(w, topZ + 1).app = w.app
      /\ Raised(w, topZ + 1).h = w.h
  <2>1. w \in Window /\ topZ + 1 \in Nat
    BY <1>0
  <2> QED BY <2>1, RaisedFacts
<1>2. \A v \in windows : v.z \in Nat /\ v.z <= topZ /\ v.h > TITLE_H
  BY <1>0 DEF Stack, Window
<1>3. drag' \in [id : Nat, ox : Int, oy : Int]
  BY <1>d, <1>1 DEF Window
<1>4. IsFiniteSet(windows \ {w})
  BY <1>0, FS_RemoveElement
<1>5. CASE windows' = windows \ {w}
  <2>1. \A v \in windows \ {w} : v.z <= topZ + 1 /\ v.h > TITLE_H
    BY <1>0, <1>2
  <2>2. Stack(windows \ {w}, topZ + 1)
    BY <1>0, <1>4, <2>1 DEF Stack
  <2> QED BY <1>0, <1>3, <1>5, <2>2
<1>6. CASE windows' = (windows \ {w}) \cup {Raised(w, topZ + 1)}
  <2> DEFINE r == Raised(w, topZ + 1)
             ws == (windows \ {w}) \cup {r}
  <2>0. r \in Window /\ r.z = topZ + 1 /\ r.app = w.app /\ r.h = w.h
    BY <1>1
  <2> HIDE DEF r
  <2>1. IsFiniteSet(ws) /\ ws \subseteq Window
    BY <1>0, <1>4, <2>0, FS_AddElement
  <2>2. \A v \in ws : v.z <= topZ + 1 /\ v.h > TITLE_H
    BY <1>0, <1>2, <2>0
  <2>3. \A v \in windows \ {w} : v.z # r.z /\ v.app # r.app
    BY <1>0, <1>2, <2>0 DEF Stack
  <2>4. \A u, v \in ws : u.z = v.z \/ u.app = v.app => u = v
    BY <2>3 DEF Stack
  <2> HIDE DEF ws
  <2>5. topZ + 1 \in Nat
    BY <1>0
  <2>6. Stack(ws, topZ + 1)
    BY <2>1, <2>2, <2>4, <2>5 DEF Stack
  <2> QED BY <1>0, <1>3, <1>6, <2>6 DEF ws, r
<1> QED BY <1>w, <1>5, <1>6

(* A moving pointer drags at most a window, which keeps its height.        *)
LEMMA MoveStack ==
  ASSUME Stack(windows, topZ), drag \in [id : Nat, ox : Int, oy : Int],
         NEW p \in [x : Int, y : Int], Move(p)
  PROVE  Stack(windows', topZ')
<1> DEFINE f == [w \in windows |-> IF drag # NoDrag /\ w.id = drag.id THEN dragged(w, p) ELSE w]
<1>1. topZ \in Nat /\ topZ' = topZ /\ windows \subseteq Window
  BY DEF Stack, Move
<1>2. windows' = {f[w] : w \in windows}
  BY DEF Move
<1>3. ASSUME NEW w \in windows
      PROVE  f[w] \in Window /\ f[w].h = w.h /\ f[w].app = w.app /\ f[w].z = w.z
  BY <1>1, DraggedFacts
<1>4. f = [w \in windows |-> f[w]]
  OBVIOUS
<1> HIDE DEF f
<1>5. \A w \in windows : f[w].z <= topZ
  BY <1>3 DEF Stack
<1>6. \A v, w \in windows : f[v].z = f[w].z => v = w
  BY <1>3 DEF Stack
<1>7. Stack({f[w] : w \in windows}, topZ)
  BY <1>1, <1>3, <1>4, <1>5, <1>6, StackMap
<1> QED BY <1>1, <1>2, <1>7

(* A fresh desktop.                                                        *)
LEMMA InitWindows == DesktopInit => WindowsInv
<1> SUFFICES ASSUME DesktopInit PROVE WindowsInv
  OBVIOUS
<1>1. Stack(windows, topZ)
  BY OpenedStack DEF DesktopInit, Init
<1>2. seq \in Nat
  BY GeometryAssumption DEF DesktopInit, Init
<1> QED BY <1>1, <1>2 DEF DesktopInit, Init, NoDrag, WindowsInv

(* Each step keeps the stack.                                              *)
LEMMA NextWindows == WindowsInv /\ [Next]_vars => WindowsInv'
<1> SUFFICES ASSUME WindowsInv, [Next]_vars PROVE WindowsInv'
  OBVIOUS
<1> DEFINE Kept == /\ Stack(windows', topZ') /\ seq' \in Nat
                   /\ drag' \in [id : Nat, ox : Int, oy : Int]
<1>t. /\ Stack(windows, topZ) /\ seq \in Nat /\ drag \in [id : Nat, ox : Int, oy : Int]
      /\ \A m \in net : m.p \in [x : Int, y : Int]
  BY DEF WindowsInv
<1>1. ASSUME UNCHANGED wm PROVE Kept
  BY <1>1, <1>t DEF wm
<1>2. ASSUME Kept, net' \subseteq net PROVE WindowsInv'
  BY <1>2, <1>t DEF WindowsInv, Stack
<1>3. ASSUME NEW type, NEW p \in [x : Int, y : Int], NEW held, send(type, p, held)
      PROVE  WindowsInv'
  <2>1. Kept
    BY <1>3, <1>1 DEF send
  <2>2. net' = net \cup {[n |-> inputs + 1, type |-> type, p |-> p]}
    BY <1>3 DEF send
  <2>3. \A m \in net' : m.p \in [x : Int, y : Int]
    BY <2>2, <1>t
  <2> QED BY <2>1, <2>3 DEF WindowsInv, Stack
<1>4. ASSUME Release \/ \E p \in Points : Mouse(p) PROVE WindowsInv'
  <2>1. Anywhere \in [x : Int, y : Int] /\ Points \subseteq [x : Int, y : Int]
    BY PageAssumption DEF Anywhere
  <2>2. ASSUME Release PROVE WindowsInv'
    BY <2>1, <2>2, <1>3 DEF Release
  <2>3. ASSUME NEW p \in Points, Mouse(p) PROVE WindowsInv'
    BY <2>1, <2>3, <1>3 DEF Mouse
  <2> QED BY <1>4, <2>2, <2>3
<1>5. ASSUME NEW m \in net, Arrives(m) PROVE WindowsInv'
  <2>1. pointer(m.type, m.p) /\ net' \subseteq net /\ m.p \in [x : Int, y : Int]
    BY <1>5, <1>t DEF Arrives
  <2>2. ASSUME DownOnWindow(m.p) PROVE Kept
    BY <2>1, <2>2, <1>t, DownStack
  <2>3. ASSUME DownOnDock(m.p) PROVE Kept
    <3>1. drag' = drag
      BY <2>3 DEF DownOnDock
    <3>2. ASSUME NEW i \in DOMAIN Apps, launch(Apps[i].id) PROVE Kept
      BY <3>1, <3>2, <1>t, LaunchStack DEF AppIds
    <3>3. ASSUME UNCHANGED <<windows, seq, topZ>> PROVE Kept
      BY <3>1, <3>3, <1>t
    <3> HIDE DEF Kept
    <3> QED BY <2>3, <3>2, <3>3 DEF DownOnDock
  <2>4. ASSUME Move(m.p) PROVE Kept
    <3>1. seq' = seq /\ drag' = drag
      BY <2>4 DEF Move
    <3> QED BY <3>1, <2>1, <2>4, <1>t, MoveStack
  <2>5. ASSUME Up PROVE Kept
    BY <2>5, <1>t DEF Up, releasedDrag, NoDrag
  <2> HIDE DEF Kept
  <2>6. Kept
    BY <2>1, <2>2, <2>3, <2>4, <2>5 DEF pointer
  <2> QED BY <2>1, <2>6, <1>2
<1>6. ASSUME NEW app \in Asked, Launch(app) PROVE WindowsInv'
  <2>1. launch(app) /\ drag' = drag /\ net' = net /\ app \in AppIds
    BY <1>6, PageAssumption DEF Launch
  <2>2. Stack(windows', topZ') /\ seq' \in Nat
    BY <2>1, <1>t, LaunchStack
  <2> QED BY <2>1, <2>2, <1>2, <1>t
<1>7. ASSUME UNCHANGED wm, net' \subseteq net PROVE WindowsInv'
  BY <1>1, <1>2, <1>7
<1>8. ASSUME NEW m \in net, Lost(m) PROVE WindowsInv'
  BY <1>7, <1>8 DEF Lost
<1>9. ASSUME Returns \/ Tick \/ UNCHANGED vars PROVE WindowsInv'
  BY <1>7, <1>9 DEF Returns, Tick, vars, page
<1>10. ASSUME NEW f \in frames, Shows(f) \/ Composes(f) \/ Fails(f) PROVE WindowsInv'
  BY <1>7, <1>10 DEF Shows, Composes, Fails
<1> QED
  BY <1>4, <1>5, <1>6, <1>8, <1>9, <1>10 DEF Next, Delivers, Loads

----------------------------------------------------------------------------
(* Painting and pressing.                                                  *)

(* What a rectangle paints is inside its closed outline.                   *)
LEMMA FillInside ==
  ASSUME NEW p \in [x : Int, y : Int], NEW x \in Int, NEW y \in Int,
         NEW w \in Int, NEW h \in Int, fillRect(p, x, y, w, h)
  PROVE  Inside(p, x, y, w, h)
<1>1. p.x \in Int /\ p.y \in Int
  OBVIOUS
<1> QED BY <1>1 DEF fillRect, Inside

(* A window paints nothing outside of itself.                              *)
LEMMA DrawnInside ==
  ASSUME NEW p \in [x : Int, y : Int], NEW v \in Window, v.h > TITLE_H, drawWindow(p, v)
  PROVE  Inside(p, v.x, v.y, v.w, v.h)
<1>1. /\ v.x \in Int /\ v.y \in Int /\ v.w \in Int /\ v.h \in Int
      /\ p.x \in Int /\ p.y \in Int
  BY DEF Window
<1>2. TITLE_H \in Int
  BY GeometryAssumption
<1>3. CASE fillRect(p, v.x, v.y, v.w, v.h)
  BY <1>1, <1>3, FillInside
<1>4. CASE fillRect(p, v.x + 1, v.y + 1, v.w - 2, TITLE_H)
  BY <1>1, <1>2, <1>4 DEF fillRect, Inside
<1> QED BY <1>3, <1>4 DEF drawWindow, roundRect, strokeRect

(* How far a coordinate is into the rounded corner, from the straight side *)
(* out; -1 where there is none.                                            *)
Into(d, size, r) == IF d < r THEN r - 1 - d ELSE IF d >= size - r THEN d - (size - r) ELSE -1

(* Inside a window of corner radius 9, that is at most 8.                  *)
LEMMA IntoBound ==
  ASSUME NEW d \in Int, NEW size \in Int, d >= 0, d < size
  PROVE  /\ Into(d, size, 9) \in -1 .. 8
         /\ Into(d, size, 9) >= 0 => d < 9 \/ d - (size - 9) = Into(d, size, 9)
BY DEF Into

(* Two such distances leave the corner's circle only if neither is 0.      *)
LEMMA CornerBound ==
  ASSUME NEW a \in 0 .. 8, NEW b \in 0 .. 8, a * a + b * b > 9 * 9
  PROVE  a > 0 /\ b > 0
<1>1. a \in {0, 1, 2, 3, 4, 5, 6, 7, 8} /\ b \in {0, 1, 2, 3, 4, 5, 6, 7, 8}
  OBVIOUS
<1>2. ASSUME a = 0 PROVE FALSE
  BY <1>1, <1>2
<1>3. ASSUME b = 0 PROVE FALSE
  BY <1>1, <1>3
<1> QED BY <1>2, <1>3

(* A window takes presses where it is painted and on its fringe.           *)
LEMMA UndrawnFringe ==
  ASSUME NEW p \in [x : Int, y : Int], NEW v \in Window,
         Inside(p, v.x, v.y, v.w, v.h), ~ drawWindow(p, v)
  PROVE  Fringe(p, v)
<1> DEFINE dx == Into(p.x - v.x, v.w, 9)
           dy == Into(p.y - v.y, v.h, 9)
<1>1. /\ v.x \in Int /\ v.y \in Int /\ v.w \in Int /\ v.h \in Int
      /\ p.x \in Int /\ p.y \in Int
  BY DEF Window
<1>2. TITLE_H \in Int /\ TITLE_H >= 8
  BY GeometryAssumption
<1> SUFFICES ASSUME p.x # v.x + v.w, p.y # v.y + v.h PROVE Fringe(p, v)
  BY DEF Fringe
<1>3. fillRect(p, v.x, v.y, v.w, v.h)
  BY <1>1 DEF Inside, fillRect
<1>4. dx >= 0 /\ dy >= 0 /\ dx * dx + dy * dy > 9 * 9
  BY <1>3 DEF drawWindow, roundRect, Into
<1>5. fillRect(p, v.x + 1, v.y + 1, v.w - 2, v.h - 2)
  BY <1>3 DEF drawWindow, strokeRect
<1>6. p.y >= v.y + 1 + TITLE_H
  BY <1>1, <1>2, <1>5 DEF drawWindow, fillRect
<1>7. dx \in -1 .. 8 /\ (dx >= 0 => p.x - v.x < 9 \/ p.x - v.x - (v.w - 9) = dx)
  BY <1>1, <1>3, IntoBound DEF fillRect
<1>8. dy \in -1 .. 8 /\ (dy >= 0 => p.y - v.y < 9 \/ p.y - v.y - (v.h - 9) = dy)
  BY <1>1, <1>3, IntoBound DEF fillRect
<1> HIDE DEF dx, dy
<1>9. dx \in 0 .. 8 /\ dy \in 0 .. 8
  BY <1>4, <1>7, <1>8
<1>10. dx > 0 /\ dy > 0
  BY <1>4, <1>9, CornerBound
<1>11. p.y > v.y + v.h - 9
  BY <1>1, <1>2, <1>6, <1>8, <1>9, <1>10
<1>12. p.x < v.x + 9 \/ p.x > v.x + v.w - 9
  BY <1>1, <1>7, <1>9, <1>10
<1> QED BY <1>1, <1>11, <1>12 DEF Fringe

----------------------------------------------------------------------------
(* The dock.                                                               *)

framed(p, x, y, w, h, r) == roundRect(p, x, y, w, h, r) \/ strokeRect(p, x, y, w, h)

(* Its tiles lie within its straight sides.                                *)
LEMMA TileInDock ==
  ASSUME NEW p \in [x : Int, y : Int], NEW i \in DOMAIN Apps, OnTile(p, i)
  PROVE  framed(p, DockX, DockY, DockW, 78, 14)
<1> DEFINE N == Len(Apps)
           dx == p.x - DockX
           dy == p.y - DockY
<1>1. N \in Nat /\ i \in 1 .. N /\ W \in Nat /\ H \in Nat
  BY GeometryAssumption
<1>2. DockW = N * 62 + 16 /\ DockW \in Int
  BY <1>1 DEF DockW
<1>3. DockX \in Int /\ DockY \in Int
  BY <1>1, <1>2 DEF DockX, DockY
<1>4. TileX(i) = DockX + 14 + (i - 1) * 62 /\ TileX(i) \in Int
  BY <1>1, <1>3 DEF TileX
<1>5. p.x \in Int /\ p.y \in Int
  OBVIOUS
<1>6. dx \in Int /\ dy \in Int /\ dx >= 14 /\ dx <= DockW - 14 /\ dy >= 14 /\ dy <= 64
  <2>1. /\ p.x >= TileX(i) /\ p.x <= TileX(i) + 50
        /\ p.y >= DockY + 14 /\ p.y <= DockY + 14 + 50
    BY DEF OnTile, Inside
  <2>2. (i - 1) * 62 >= 0 /\ (i - 1) * 62 <= N * 62 - 62
    BY <1>1
  <2> HIDE DEF N
  <2>3. (i - 1) * 62 \in Int /\ N * 62 \in Int
    BY <1>1
  <2>4. PICK a \in Int, b \in Int : a = (i - 1) * 62 /\ b = N * 62
    BY <2>3
  <2>5. dx \in Int /\ dx >= 14 /\ dx <= DockW - 14
    BY <1>2, <1>3, <1>4, <1>5, <2>1, <2>2, <2>4
  <2>6. dy \in Int /\ dy >= 14 /\ dy <= 64
    BY <1>3, <1>5, <2>1
  <2> QED BY <2>5, <2>6
<1>7. fillRect(p, DockX, DockY, DockW, 78)
  BY <1>2, <1>3, <1>5, <1>6 DEF fillRect
<1> HIDE DEF dx, dy
<1>8. Into(dx, DockW, 14) \in {-1, 0} /\ Into(dy, 78, 14) \in {-1, 0}
  BY <1>2, <1>6 DEF Into
<1>9. ~ (/\ Into(dx, DockW, 14) >= 0 /\ Into(dy, 78, 14) >= 0
         /\ Into(dx, DockW, 14) * Into(dx, DockW, 14)
            + Into(dy, 78, 14) * Into(dy, 78, 14) > 14 * 14)
  BY <1>8
<1>10. roundRect(p, DockX, DockY, DockW, 78, 14)
  BY <1>7, <1>9 DEF roundRect, Into, dx, dy
<1> QED BY <1>10 DEF framed

(* A press on what is painted of a tile is a press on the tile.            *)
LEMMA PaintedTile ==
  ASSUME NEW p \in [x : Int, y : Int], NEW i \in DOMAIN Apps,
         framed(p, TileX(i), DockY + 14, 50, 50, 10)
  PROVE  OnTile(p, i)
<1>1. Len(Apps) \in Nat /\ i \in 1 .. Len(Apps) /\ W \in Nat /\ H \in Nat
  BY GeometryAssumption
<1>2. DockW \in Int
  BY <1>1 DEF DockW
<1>3. TileX(i) \in Int /\ DockY + 14 \in Int
  BY <1>1, <1>2 DEF DockX, DockY, TileX
<1>4. fillRect(p, TileX(i), DockY + 14, 50, 50)
  BY DEF framed, roundRect, strokeRect
<1> QED BY <1>3, <1>4, FillInside DEF OnTile

(* A tile takes presses where it is painted and on its fringe.             *)
LEMMA UnpaintedTile ==
  ASSUME NEW p \in [x : Int, y : Int], NEW i \in DOMAIN Apps, OnTile(p, i),
         ~ framed(p, TileX(i), DockY + 14, 50, 50, 10)
  PROVE  TileFringe(p, i)
<1> DEFINE tx == TileX(i)  ty == DockY + 14
           dx == Into(p.x - tx, 50, 10)
           dy == Into(p.y - ty, 50, 10)
<1>1. Len(Apps) \in Nat /\ i \in 1 .. Len(Apps) /\ W \in Nat /\ H \in Nat
  BY GeometryAssumption
<1>2. DockW \in Int
  BY <1>1 DEF DockW
<1>3. tx \in Int /\ ty \in Int /\ DockY = ty - 14 /\ p.x \in Int /\ p.y \in Int
  BY <1>1, <1>2 DEF DockX, DockY, TileX
<1> SUFFICES ASSUME p.x # tx + 50, p.y # ty + 50 PROVE TileFringe(p, i)
  BY <1>3 DEF TileFringe
<1>4. p.x >= tx /\ p.x <= tx + 50 /\ p.y >= ty /\ p.y <= ty + 50
  BY DEF OnTile, Inside
<1> HIDE DEF tx, ty
<1>5. fillRect(p, tx, ty, 50, 50)
  BY <1>3, <1>4 DEF fillRect
<1>6. dx >= 0 /\ dy >= 0
  BY <1>5 DEF framed, roundRect, Into, tx, ty
<1>7. p.x < tx + 10 \/ p.x > tx + 40 \/ dx = 0
  BY <1>3, <1>6 DEF Into
<1>8. p.y < ty + 10 \/ p.y > ty + 40 \/ dy = 0
  BY <1>3, <1>6 DEF Into
<1>9. dx * dx + dy * dy > 10 * 10
  BY <1>5 DEF framed, roundRect, Into, tx, ty
<1>10. dx \in -1 .. 9 /\ dy \in -1 .. 9
  BY <1>3, <1>4 DEF Into
<1> HIDE DEF dx, dy
<1>11. dx # 0 /\ dy # 0
  BY <1>9, <1>10
<1>12. (p.x < tx + 10 \/ p.x > tx + 40) /\ (p.y < ty + 10 \/ p.y > ty + 40)
  BY <1>7, <1>8, <1>11
<1> QED BY <1>3, <1>12 DEF TileFringe, tx

(* Tiles are 62 pixels apart.                                              *)
LEMMA Spacing ==
  ASSUME NEW i \in Int, NEW j \in Int, i + 1 <= j
  PROVE  (j - 1) * 62 >= (i - 1) * 62 + 62
OBVIOUS

(* No place is on two tiles.                                               *)
LEMMA TilesApart ==
  ASSUME NEW p \in [x : Int, y : Int], NEW i \in DOMAIN Apps, NEW j \in DOMAIN Apps,
         OnTile(p, i), OnTile(p, j)
  PROVE  i = j
<1>1. Len(Apps) \in Nat /\ i \in Nat /\ j \in Nat /\ W \in Nat /\ p.x \in Int
  BY GeometryAssumption
<1>2. DockX \in Int
  BY <1>1 DEF DockX, DockW
<1>3. /\ p.x >= DockX + 14 + (i - 1) * 62 /\ p.x <= DockX + 14 + (i - 1) * 62 + 50
      /\ p.x >= DockX + 14 + (j - 1) * 62 /\ p.x <= DockX + 14 + (j - 1) * 62 + 50
  BY DEF OnTile, Inside, TileX
<1>4. PICK a \in Int, b \in Int : a = (i - 1) * 62 /\ b = (j - 1) * 62
  BY <1>1
<1>5. a <= b + 50 /\ b <= a + 50
  <2>1. /\ p.x >= DockX + 14 + a /\ p.x <= DockX + 14 + a + 50
        /\ p.x >= DockX + 14 + b /\ p.x <= DockX + 14 + b + 50
    BY <1>3, <1>4
  <2>2. PICK d \in Int, x \in Int : d = DockX /\ x = p.x
    BY <1>1, <1>2
  <2>3. x >= d + 14 + a /\ x <= d + 14 + a + 50 /\ x >= d + 14 + b /\ x <= d + 14 + b + 50
    BY <2>1, <2>2
  <2> QED BY <2>3
<1>6. ~ (i + 1 <= j) /\ ~ (j + 1 <= i)
  <2>0. i \in Int /\ j \in Int
    BY <1>1
  <2>1. i + 1 <= j => b >= a + 62
    <3>1. i + 1 <= j => (j - 1) * 62 >= (i - 1) * 62 + 62
      BY <2>0, Spacing
    <3> QED BY <1>4, <3>1
  <2>2. j + 1 <= i => a >= b + 62
    <3>1. j + 1 <= i => (i - 1) * 62 >= (j - 1) * 62 + 62
      BY <2>0, Spacing
    <3> QED BY <1>4, <3>1
  <2> QED BY <2>1, <2>2, <1>5
<1> QED BY <1>1, <1>6

----------------------------------------------------------------------------
(* What is seen is what is pressed.                                        *)

(* What composeDesktop leaves at p, case by case.                          *)
LEMMA ComposeCases ==
  ASSUME NEW p
  PROVE  LET dock == framed(p, DockX, DockY, DockW, 78, 14)
             tiles == {i \in DOMAIN Apps : framed(p, TileX(i), DockY + 14, 50, 50, 10)}
             drawn == {w \in windows : drawWindow(p, w)}
             top == CHOOSE w \in drawn : \A v \in drawn : v.z <= w.z
         IN  /\ dock => \/ tiles = {} /\ composeDesktop(p) = [what |-> "dock", id |-> 0]
                        \/ \E i \in tiles : composeDesktop(p) = [what |-> "tile", id |-> i]
             /\ ~dock /\ drawn = {} =>
                   \/ composeDesktop(p) = [what |-> "panel", id |-> 0]
                   \/ composeDesktop(p) = [what |-> "wallpaper", id |-> 0]
             /\ ~dock /\ drawn # {} => composeDesktop(p) = [what |-> "window", id |-> top.id]
<1> DEFINE dock == framed(p, DockX, DockY, DockW, 78, 14)
           tiles == {i \in DOMAIN Apps : framed(p, TileX(i), DockY + 14, 50, 50, 10)}
           drawn == {w \in windows : drawWindow(p, w)}
           top == CHOOSE w \in drawn : \A v \in drawn : v.z <= w.z
           tile == CHOOSE i \in tiles : TRUE
<1>1. composeDesktop(p) =
        IF dock THEN IF tiles = {} THEN [what |-> "dock", id |-> 0]
                     ELSE [what |-> "tile", id |-> tile]
        ELSE IF drawn = {}
          THEN [what |-> IF p.y < PANEL_H THEN "panel" ELSE "wallpaper", id |-> 0]
        ELSE [what |-> "window", id |-> top.id]
  BY DEF composeDesktop, framed
<1>2. tiles # {} => tile \in tiles
  OBVIOUS
<1> HIDE DEF dock, tiles, drawn, top, tile
<1>3. dock => \/ tiles = {} /\ composeDesktop(p) = [what |-> "dock", id |-> 0]
              \/ \E i \in tiles : composeDesktop(p) = [what |-> "tile", id |-> i]
  BY <1>1, <1>2
<1>4. ~dock /\ drawn = {} => \/ composeDesktop(p) = [what |-> "panel", id |-> 0]
                             \/ composeDesktop(p) = [what |-> "wallpaper", id |-> 0]
  <2> SUFFICES ASSUME ~dock, drawn = {}
               PROVE  \/ composeDesktop(p) = [what |-> "panel", id |-> 0]
                      \/ composeDesktop(p) = [what |-> "wallpaper", id |-> 0]
    OBVIOUS
  <2>1. composeDesktop(p) = [what |-> IF p.y < PANEL_H THEN "panel" ELSE "wallpaper", id |-> 0]
    BY <1>1, Zenon
  <2>2. CASE p.y < PANEL_H
    BY <2>1, <2>2, Zenon
  <2>3. CASE ~ (p.y < PANEL_H)
    BY <2>1, <2>3, Zenon
  <2> QED BY <2>2, <2>3, Zenon
<1>5. ~dock /\ drawn # {} => composeDesktop(p) = [what |-> "window", id |-> top.id]
  BY <1>1
<1> QED BY <1>3, <1>4, <1>5 DEF dock, tiles, drawn, top

(* Painting and pressing agree on every desktop that is a stack.           *)
LEMMA SeenIsPressed == WindowsInv => PressHitsWhatIsSeen
<1> SUFFICES ASSUME WindowsInv, NEW p \in Probes
             PROVE  LET seen == composeDesktop(p) IN
                    IF Under(p) # {}
                      THEN \/ seen = [what |-> "window", id |-> topAt(p).id]
                           \/ seen.what \in {"dock", "tile"} \/ Fringe(p, topAt(p))
                      ELSE /\ seen.what # "window"
                           /\ seen.what = "tile" => OnTile(p, seen.id)
                           /\ \A i \in DOMAIN Apps : OnTile(p, i) =>
                                 \/ seen = [what |-> "tile", id |-> i]
                                 \/ seen.what = "dock" /\ TileFringe(p, i)
  BY DEF PressHitsWhatIsSeen
<1> DEFINE seen == composeDesktop(p)
           dock == framed(p, DockX, DockY, DockW, 78, 14)
           tiles == {i \in DOMAIN Apps : framed(p, TileX(i), DockY + 14, 50, 50, 10)}
           drawn == {w \in windows : drawWindow(p, w)}
           top == CHOOSE w \in drawn : \A v \in drawn : v.z <= w.z
           Good == IF Under(p) # {}
                   THEN \/ seen = [what |-> "window", id |-> topAt(p).id]
                        \/ seen.what \in {"dock", "tile"} \/ Fringe(p, topAt(p))
                   ELSE /\ seen.what # "window"
                        /\ seen.what = "tile" => OnTile(p, seen.id)
                        /\ \A i \in DOMAIN Apps : OnTile(p, i) =>
                              \/ seen = [what |-> "tile", id |-> i]
                              \/ seen.what = "dock" /\ TileFringe(p, i)
<1> SUFFICES Good
  OBVIOUS
<1>t. p \in [x : Int, y : Int] /\ Stack(windows, topZ)
  BY PageAssumption DEF WindowsInv
<1>1. drawn \subseteq Under(p)
  <2>1. \A w \in windows : w \in Window /\ w.h > TITLE_H
    BY <1>t DEF Stack
  <2> QED BY <2>1, <1>t, DrawnInside DEF Under
<1>2. Under(p) # {} => /\ topAt(p) \in Under(p) /\ topAt(p) \in windows
                       /\ \A v \in Under(p) : v.z <= topAt(p).z
  BY <1>t, TopAtFacts
<1>3. Under(p) # {} => topAt(p) \in drawn \/ Fringe(p, topAt(p))
  <2> SUFFICES ASSUME Under(p) # {}, topAt(p) \notin drawn PROVE Fringe(p, topAt(p))
    OBVIOUS
  <2>1. /\ topAt(p) \in windows /\ ~ drawWindow(p, topAt(p))
        /\ Inside(p, topAt(p).x, topAt(p).y, topAt(p).w, topAt(p).h)
    BY <1>2 DEF Under
  <2>2. topAt(p) \in Window
    BY <2>1, <1>t DEF Stack
  <2> QED BY <2>1, <2>2, <1>t, UndrawnFringe
<1>4. topAt(p) \in drawn /\ Under(p) # {} => top = topAt(p)
  <2> SUFFICES ASSUME topAt(p) \in drawn, Under(p) # {} PROVE top = topAt(p)
    OBVIOUS
  <2>1. \A v \in drawn : v.z <= topAt(p).z
    BY <1>1, <1>2
  <2>2. top \in drawn /\ \A v \in drawn : v.z <= top.z
    BY <2>1
  <2>3. \A v \in drawn : v \in windows /\ v.z \in Nat
    BY <1>t DEF Stack, Window
  <2> HIDE DEF top, drawn
  <2>4. top.z = topAt(p).z
    BY <2>1, <2>2, <2>3
  <2> QED BY <2>2, <2>3, <2>4, <1>t DEF Stack
<1>c. /\ dock => \/ tiles = {} /\ seen = [what |-> "dock", id |-> 0]
                 \/ \E i \in tiles : seen = [what |-> "tile", id |-> i]
      /\ ~dock /\ drawn = {} => \/ seen = [what |-> "panel", id |-> 0]
                                \/ seen = [what |-> "wallpaper", id |-> 0]
      /\ ~dock /\ drawn # {} => seen = [what |-> "window", id |-> top.id]
  BY ComposeCases
<1>5. \A i \in tiles : i \in DOMAIN Apps /\ OnTile(p, i)
  BY <1>t, PaintedTile
<1>6. ~dock => \A i \in DOMAIN Apps : ~OnTile(p, i)
  BY <1>t, TileInDock
<1>f. tiles = {} => \A i \in DOMAIN Apps : OnTile(p, i) => TileFringe(p, i)
  BY <1>t, UnpaintedTile
<1>a. \A i, j \in DOMAIN Apps : OnTile(p, i) /\ OnTile(p, j) => i = j
  BY <1>t, TilesApart
<1> HIDE DEF seen, dock, tiles, drawn, top
<1>7. CASE dock
  <2>1. CASE tiles = {} /\ seen = [what |-> "dock", id |-> 0]
    <3>1. seen.what = "dock"
      BY <2>1
    <3> QED BY <2>1, <3>1, <1>f
  <2>2. ASSUME NEW i \in tiles, seen = [what |-> "tile", id |-> i] PROVE Good
    <3>1. seen.what = "tile" /\ seen.id = i
      BY <2>2
    <3>2. \A j \in DOMAIN Apps : OnTile(p, j) => j = i
      BY <1>5, <1>a
    <3> QED BY <3>1, <3>2, <2>2, <1>5
  <2> HIDE DEF Good
  <2> QED BY <1>7, <1>c, <2>1, <2>2
<1>8. CASE ~dock /\ drawn = {}
  <2>1. seen.what \in {"panel", "wallpaper"}
    BY <1>8, <1>c
  <2> QED BY <1>3, <1>6, <1>8, <2>1
<1>9. CASE ~dock /\ drawn # {}
  <2>1. seen = [what |-> "window", id |-> top.id] /\ Under(p) # {}
    BY <1>1, <1>9, <1>c
  <2>2. seen = [what |-> "window", id |-> topAt(p).id] \/ Fringe(p, topAt(p))
    BY <2>1, <1>3, <1>4
  <2> QED BY <2>1, <2>2
<1> QED BY <1>7, <1>8, <1>9

(* A press acts on the thing painted where it is made, whatever windows    *)
(* were opened, raised, moved and closed before.                           *)
THEOREM PressCorrect == Spec => []PressHitsWhatIsSeen
BY InitWindows, NextWindows, SeenIsPressed, PTL DEF Spec
=============================================================================
