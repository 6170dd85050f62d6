---------------------------- MODULE ConsolePages ----------------------------
(***************************************************************************)
(* The pages that talk to the Console's chat surfaces, with the server     *)
(* they talk to.  The voice surface (ui/static/her.js) takes a question at *)
(* any time, also while earlier ones are out; a chat window (app.js, and   *)
(* the Mind window of os.js) takes none until it has its answer.           *)
(***************************************************************************)
EXTENDS Console

CONSTANT Windows   \* chat windows

VARIABLES
    you,    \* her.js: the question on the screen, or None
    shown,  \* the question whose answer is on the screen, or None
    mood,   \* state of the orb
    timer,  \* respTimer is running
    busy,   \* per chat window: the question that disabled its input, or None
    mixed   \* ghost: the last question was asked while another was out

her   == <<you, shown, mood, timer, mixed>>
pages == <<her, busy>>
all   == <<vars, pages>>

PagesTypeOK ==
    /\ TypeOK /\ you \in Reqs \cup {None} /\ shown \in Reqs \cup {None}
    /\ mood \in {"idle", "thinking", "responding"} /\ timer \in BOOLEAN
    /\ busy \in [Windows -> Reqs \cup {None}] /\ mixed \in BOOLEAN

PagesInit ==
    /\ Init
    /\ you = None /\ shown = None /\ mood = "idle" /\ timer = FALSE
    /\ busy = [w \in Windows |-> None] /\ mixed = FALSE

Out(r) == req[r].st \notin {"new", "seen"}
HerOut == {r \in Reqs : Out(r) /\ req[r].kind \in {"her", "switch"}}

(* ask() of her.js up to its await: a question, or /backend.               *)
ask(r, kind) ==
    /\ Arrives(r, kind)
    /\ you' = r /\ shown' = None /\ mood' = "thinking" /\ mixed' = (HerOut # {})
    /\ UNCHANGED <<timer, busy>>

(* The form of a chat window is submitted.                                 *)
Submits(r, w) ==
    /\ busy[w] = None /\ Arrives(r, "chat")
    /\ busy' = [busy EXCEPT ![w] = r]
    /\ UNCHANGED her

Seen(r) ==
    /\ req[r].st = "done" /\ req' = [req EXCEPT ![r].st = "seen"]
    /\ UNCHANGED <<env, companion, agent, lock, kernel>>

(* Mutant: a broken connection leaves the orb as it is.                    *)
moodAfterStuck(reply) == IF reply = "lost" THEN mood ELSE "responding"

moodAfter(reply) == IF reply = "lost" THEN "idle" ELSE "responding"

(* The rest of ask().                                                      *)
HerAnswered(r) ==
    /\ req[r].kind # "chat" /\ Seen(r)
    /\ shown' = r /\ mood' = moodAfter(req[r].reply)
    /\ timer' = (timer \/ req[r].reply # "lost")
    /\ UNCHANGED <<you, busy, mixed>>

(* The handler's finally.                                                  *)
ChatAnswered(r, w) ==
    /\ busy[w] = r /\ Seen(r)
    /\ busy' = [busy EXCEPT ![w] = None]
    /\ UNCHANGED her

(* The callback of respTimer; ask() does not stop it.                      *)
Settles ==
    /\ timer /\ timer' = FALSE /\ mood' = "idle"
    /\ UNCHANGED <<vars, you, shown, busy, mixed>>

Delivers(r) == HerAnswered(r) \/ \E w \in Windows : ChatAnswered(r, w)

Next ==
    \/ \E r \in Reqs : \/ \E kind \in {"her", "switch"} : ask(r, kind)
                       \/ \E w \in Windows : Submits(r, w)
                       \/ Delivers(r)
                       \/ Serves(r) /\ UNCHANGED pages
    \/ Settles
    \/ KernelMoves /\ UNCHANGED pages

(* The lock's timeout passes, threads run, answers arrive and timers fire. *)
(* A turn of the mind need not end: the clients of the cloud backends are  *)
(* built without a timeout of ours.                                        *)
Spec ==
    /\ PagesInit /\ [][Next]_all /\ WF_all(Settles)
    /\ \A r \in Reqs : /\ WF_all(GivesUp(r) /\ UNCHANGED pages)
                       /\ WF_all(Acquires(r) /\ UNCHANGED pages)
                       /\ WF_all(Handles(r) /\ UNCHANGED pages)
                       /\ WF_all(Delivers(r))

----------------------------------------------------------------------------
(***************************************************************************)
(* The voice surface thinks only while an answer is out, and then shows    *)
(* the answer to the question on the screen, unless that was asked while   *)
(* another was out: the answers then arrive in any order and the last one  *)
(* to arrive stays.                                                        *)
(***************************************************************************)
SurfaceAnswers ==
    HerOut = {} => mood # "thinking" /\ (mixed \/ shown = you)

(***************************************************************************)
(* If turns of the mind end, every question of every page is answered,     *)
(* every chat window opens its input again and the orb comes to rest:      *)
(* whatever fails on the way - a build, a switch, the kernel, the          *)
(* connection - gives the lock back and reaches the page.                  *)
(***************************************************************************)
PagesAreAnswered ==
    (\A r \in Reqs : []<>(req[r].st # "turn")) =>
        <>[](/\ \A r \in Reqs : ~Out(r)
             /\ \A w \in Windows : busy[w] = None
             /\ mood = "idle")
=============================================================================
