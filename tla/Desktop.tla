------------------------------ MODULE Desktop -------------------------------
(***************************************************************************)
(* The kernel's desktop as it is used: the /desktop page (desktop.js)      *)
(* shows frames it asks for (/api/frame, desktop.frame) and sends what the *)
(* mouse does (/api/input, desktop.input), each as a request of its own    *)
(* that may be lost, refused or overtaken.  The mind opens windows at any  *)
(* time (desktop.launch).                                                  *)
(***************************************************************************)
EXTENDS WindowManager

CONSTANTS Points,     \* positions the pointer is used at, [x, y]
          Probes,     \* pixels at which painting and pressing are compared
          Asked,      \* apps the mind opens
          MaxInputs   \* bound: mouse events and launches followed

ASSUME PageAssumption ==
    /\ Points \subseteq [x : Int, y : Int] /\ Probes \subseteq [x : Int, y : Int]
    /\ Asked \subseteq AppIds /\ MaxInputs \in Nat

VARIABLES
    dragging, \* a button is held (desktop.js)
    pending,  \* a frame has been asked for and is neither shown nor refused
    inputs,   \* mouse events and launches so far
    net,      \* inputs on their way to the kernel, [n, type, p]
    replies,  \* inputs whose fetch is about to return to send()
    frames,   \* frames under way: [n, shot]; shot is NoShot until composed
    screen,   \* the shot shown
    calls,    \* ghost: inputs the kernel has handled
    raced     \* ghost: an input was lost or overtaken

page == <<dragging, pending, inputs, net, replies, frames, screen, calls, raced>>
vars == <<wm, page>>

(* wm.ts does not look at where a button is released.                      *)
Anywhere == [x |-> 0, y |-> 0]

(* A shot: the windows as composed, and when that was.                     *)
NoShot == [at |-> -1, windows |-> {}]
Shot == [at |-> calls, windows |-> windows]

DesktopTypeOK ==
    /\ TypeOK
    /\ dragging \in BOOLEAN /\ pending \in BOOLEAN /\ raced \in BOOLEAN
    /\ inputs \in 0 .. MaxInputs /\ replies \in 0 .. MaxInputs /\ calls \in 0 .. MaxInputs
    /\ net \subseteq [n : 1 .. MaxInputs, p : Points \cup {Anywhere},
                      type : {"pointerdown", "pointermove", "pointerup"}]
    /\ frames \subseteq [n : Nat, shot : [at : Int, windows : SUBSET Window]]

DesktopInit ==
    /\ Init
    /\ dragging = FALSE /\ pending = TRUE
    /\ inputs = 0 /\ net = {} /\ replies = 0
    /\ frames = {[n |-> 0, shot |-> NoShot]} /\ screen = NoShot
    /\ calls = 0 /\ raced = FALSE

----------------------------------------------------------------------------
(* The mouse.  `held` is what becomes of dragging; a second button may be  *)
(* pressed, the first release ends it, and moves count only meanwhile.     *)
send(type, p, held) ==
    /\ inputs < MaxInputs /\ inputs' = inputs + 1
    /\ dragging' = held
    /\ net' = net \cup {[n |-> inputs + 1, type |-> type, p |-> p]}
    /\ UNCHANGED <<wm, pending, replies, frames, screen, calls, raced>>

Mouse(p) ==
    \/ send("pointerdown", p, TRUE)
    \/ dragging /\ send("pointermove", p, TRUE)

Release == dragging /\ send("pointerup", Anywhere, FALSE)

(* desktop.input: the kernel handles the event, in whatever order requests *)
(* reach it.                                                               *)
Arrives(m) ==
    /\ pointer(m.type, m.p)
    /\ net' = net \ {m} /\ replies' = replies + 1 /\ calls' = calls + 1
    /\ raced' = (raced \/ \E k \in net : k.n < m.n)
    /\ UNCHANGED <<dragging, pending, inputs, frames, screen>>

(* The gate refuses it or cannot be reached, or fetch fails.               *)
Lost(m) ==
    /\ net' = net \ {m} /\ replies' = replies + 1 /\ raced' = TRUE
    /\ UNCHANGED <<wm, dragging, pending, inputs, frames, screen, calls>>

Launch(app) ==
    /\ inputs < MaxInputs /\ inputs' = inputs + 1
    /\ launch(app) /\ calls' = calls + 1
    /\ UNCHANGED <<drag, dragging, pending, net, replies, frames, screen, raced>>

(* Mutant: every call asks for a frame, one under way or not.              *)
refreshAlways ==
    /\ pending' = TRUE
    /\ frames' = frames \cup {[n |-> Cardinality(frames), shot |-> NoShot]}

(* refresh(): at most one frame is under way; a call meanwhile is dropped. *)
refresh ==
    IF pending THEN UNCHANGED <<pending, frames>>
    ELSE pending' = TRUE /\ frames' = frames \cup {[n |-> 0, shot |-> NoShot]}

(* The end of send().                                                      *)
Returns ==
    /\ replies > 0 /\ replies' = replies - 1
    /\ refresh
    /\ UNCHANGED <<wm, dragging, inputs, net, screen, calls, raced>>

(* The interval of 1500 ms.                                                *)
Tick ==
    /\ ~dragging /\ ~pending /\ refresh
    /\ UNCHANGED <<wm, dragging, inputs, net, replies, screen, calls, raced>>

(* desktop.frame: composed at once after the snapshot was gathered.        *)
Composes(f) ==
    /\ f.shot = NoShot
    /\ frames' = (frames \ {f}) \cup {[f EXCEPT !.shot = Shot]}
    /\ UNCHANGED <<wm, dragging, pending, inputs, net, replies, screen, calls, raced>>

(* onload                                                                  *)
Shows(f) ==
    /\ f.shot # NoShot
    /\ screen' = f.shot /\ pending' = FALSE /\ frames' = frames \ {f}
    /\ UNCHANGED <<wm, dragging, inputs, net, replies, calls, raced>>

(* Mutant: a frame that fails is waited for.                               *)
afterErrorPending == pending

afterError == FALSE

(* onerror, at any stage                                                   *)
Fails(f) ==
    /\ pending' = afterError /\ frames' = frames \ {f}
    /\ UNCHANGED <<wm, dragging, inputs, net, replies, screen, calls, raced>>

Delivers == \E m \in net : Arrives(m)
Loads == \E f \in frames : Shows(f)

Next ==
    \/ Release \/ \E p \in Points : Mouse(p)
    \/ \E app \in Asked : Launch(app)
    \/ Delivers \/ \E m \in net : Lost(m)
    \/ Returns \/ Tick
    \/ Loads \/ \E f \in frames : Composes(f) \/ Fails(f)

(* The kernel answers, the page's loop runs, and of the frames asked for   *)
(* again and again not all fail.                                           *)
Spec ==
    /\ DesktopInit /\ [][Next]_vars
    /\ WF_vars(Delivers) /\ WF_vars(Returns) /\ WF_vars(Tick)
    /\ SF_vars(\E f \in frames : Composes(f)) /\ SF_vars(Loads)

----------------------------------------------------------------------------
(***************************************************************************)
(* The kernel drags a window only while a button is held in the page or    *)
(* what says otherwise is still on its way; a lost or late release may     *)
(* leave a window stuck to the pointer, nothing else does.                 *)
(***************************************************************************)
DragIsHeld ==
    ~raced /\ drag # NoDrag => dragging \/ \E m \in net : m.type = "pointerup"

(***************************************************************************)
(* A press acts on the thing painted where it is made: wm.ts and scene.ts  *)
(* agree on which window is on top, on the place of the dock's tiles and   *)
(* on what is bare desktop or bare dock.  Three exceptions are in the code: *)
(* the dock is painted over windows that get its presses; a window takes   *)
(* presses on its Fringe; and a tile on its own, where bare dock is seen.  *)
(***************************************************************************)
PressHitsWhatIsSeen ==
    \A p \in {q \in Probes : OnScreen(q)} :
        LET seen == composeDesktop(p) IN
        IF Under(p) # {}
          THEN \/ seen = [what |-> "window", id |-> topAt(p).id]
               \/ seen.what \in {"dock", "tile"} \/ Fringe(p, topAt(p))
          ELSE /\ seen.what # "window"
               /\ seen.what = "tile" => OnTile(p, seen.id)
               /\ \A i \in DOMAIN Apps : OnTile(p, i) =>
                     \/ seen = [what |-> "tile", id |-> i]
                     \/ seen.what = "dock" /\ TileFringe(p, i)

(***************************************************************************)
(* The screen never goes back to an older picture, whatever events and     *)
(* timers ask for frames.                                                  *)
(***************************************************************************)
FramesInOrder == [][screen'.at >= screen.at]_vars

(***************************************************************************)
(* When the mouse is let go, the screen comes to show the desktop as it    *)
(* is, also after frames that failed or were not asked for.  (While a      *)
(* button is held, a frame asked for during the last one is never shown.)  *)
(***************************************************************************)
ScreenCatchesUp == ~dragging ~> (dragging \/ screen.windows = windows)
=============================================================================
