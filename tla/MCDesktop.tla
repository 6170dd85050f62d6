----------------------------- MODULE MCDesktop ------------------------------
(***************************************************************************)
(* The kernel's desktop with the real geometry and a pointer used at a few *)
(* telling places.                                                         *)
(***************************************************************************)
EXTENDS Desktop

AllApps ==
    << [id |-> "files", w |-> 460, h |-> 300], [id |-> "system", w |-> 430, h |-> 250],
       [id |-> "services", w |-> 430, h |-> 250], [id |-> "procs", w |-> 540, h |-> 250],
       [id |-> "net", w |-> 470, h |-> 210], [id |-> "cron", w |-> 470, h |-> 210],
       [id |-> "audit", w |-> 540, h |-> 300] >>
AtBoot == <<"system", "services", "audit">>

At(x, y) == [x |-> x, y |-> y]
Places == { At(126, 117),    \* close button of the third window
            At(200, 50),     \* title bar of the first window
            At(300, 300),    \* bodies of the first and of the third window
            At(364, 650),    \* the first tile of the dock; a window dragged here is under it
            At(330, 650) }   \* bare dock, left of that tile

(* Also edges and corners of windows, the edges (389, y) and (x, 688) and   *)
(* rounded corners of that tile, the gap after it, the dock's own corner,  *)
(* and the empty desktop.                                                  *)
Pixels == Places \cup
    { At(470, 200), At(469, 295), At(470, 296), At(41, 295), At(40, 46),
      At(652, 406), At(651, 405), At(117, 404), At(500, 407),
      At(388, 650), At(389, 650), At(364, 687), At(364, 688), At(339, 638), At(340, 639),
      At(390, 650), At(400, 650), At(401, 650), At(326, 625), At(1090, 715), At(5, 5) }
=============================================================================
