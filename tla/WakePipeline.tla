---------------------------- MODULE WakePipeline ----------------------------
(***************************************************************************)
(* How the system schedules its own future work: a wake job of the         *)
(* kernel's scheduler fires, its wakeup waits in the kernel, voidinit      *)
(* drains it (cron.wakeups) and hands its prompt to the mind.  Scheduler   *)
(* and VoidInit run in two processes that start, stop and die apart; any   *)
(* other client of the gate may drain the queue too, and the gate may      *)
(* refuse a poll or its answer be lost.                                    *)
(***************************************************************************)
EXTENDS Integers, Sequences, FiniteSets

CONSTANTS Names, Jobs, Counts, MaxFires, MaxWakes,  \* see Scheduler
          Configs, MaxSignals                       \* see VoidInit

VARIABLES table, made, job, wakeQueue, seq,                        \* Scheduler
          conf, phase, proc, known, ready, bundle, end, signals,   \* VoidInit
          batch, handed,
          permits, \* the gate lets cron.wakeups through (policy or a grant)
          taken    \* ghost: wakeups drained by calls whose answer voidinit
                   \* did not get, in order

S == INSTANCE Scheduler WITH up <- ready
V == INSTANCE VoidInit WITH queue <- wakeQueue

ASSUME PipelineAssumption ==
    /\ S!NoJob \notin Jobs /\ Counts \subseteq Int /\ MaxFires \in Nat /\ MaxWakes \in Nat
    /\ Configs \subseteq V!Config /\ MaxSignals \in Nat

jobs  == <<table, made, job, seq>>
given == <<batch, handed, taken>>
inits == <<conf, phase, known, bundle, end, signals, proc>>
vars  == <<jobs, wakeQueue, inits, ready, given, permits>>

Init == S!Fresh /\ V!Init /\ taken = <<>> /\ permits = FALSE

(* When PID 1 is gone the machine is down.                                 *)
Schedules == phase # "ended" /\ S!Works /\ UNCHANGED <<inits, given, permits>>

(* build_autonomous_mind grants itself "all" (a permissive kernel asks for *)
(* no grant; a paranoid one lets nobody schedule anything).                *)
Boots ==
    /\ V!Boots
    /\ permits' = (permits \/ (~bundle /\ bundle'))
    /\ UNCHANGED <<jobs, taken>>

(* An operator grants or revokes.                                          *)
Regrants ==
    /\ ready /\ phase # "ended" /\ permits' = ~permits
    /\ UNCHANGED <<jobs, wakeQueue, inits, ready, given>>

(* One call of cron.wakeups: what the scheduler drains is what the caller  *)
(* gets.                                                                   *)
poll_wakeups ==
    /\ permits /\ V!poll_wakeups /\ S!drainWakeups
    /\ UNCHANGED <<taken, permits>>

OtherDrains ==
    /\ permits /\ wakeQueue # <<>> /\ S!drainWakeups
    /\ taken' = taken \o wakeQueue
    /\ UNCHANGED <<inits, batch, handed, permits>>

(* poll_wakeups' except: the kernel drained, the answer did not arrive.    *)
(* (A poll that is refused or finds no kernel drains nothing.)             *)
PollFails == phase = "supervise" /\ bundle /\ OtherDrains

(* The kernel ends and with it its scheduler, if it had one yet.           *)
KernelDies ==
    /\ V!Dies("kernel")
    /\ IF ready THEN S!Halt ELSE UNCHANGED jobs
    /\ permits' = FALSE
    /\ UNCHANGED taken

Next == \/ Schedules \/ Boots \/ Regrants
        \/ poll_wakeups \/ PollFails \/ OtherDrains \/ KernelDies

(* voidinit keeps running its loop, the kernel answers a poll it lets      *)
(* through, and the wait of shutdown() has a timeout.  Nothing is assumed  *)
(* of TurnEnds: the properties say where they need turns to end.           *)
Loop(A) == A /\ UNCHANGED <<jobs, taken, permits>>
Spec ==
    /\ Init /\ [][Next]_vars
    /\ WF_vars(Loop(V!KernelReaped)) /\ WF_vars(Loop(V!RunWakeup))
    /\ WF_vars(Loop(V!StopDone \/ V!StopKills)) /\ WF_vars(Loop(V!Exit))
    /\ WF_vars(poll_wakeups)

----------------------------------------------------------------------------
(* Properties                                                              *)

(* A job neither stalls nor overlaps itself nor survives its cancellation, *)
(* with one exception (Scheduler).                                         *)
OnePendingStep == S!OnePendingStep

(* A limited job never runs more often than its limit (Scheduler).         *)
RunsWithinCount == S!RunsWithinCount

(* A stop that was asked for reaches every known child (VoidInit).         *)
OrderlyStop == V!OrderlyStop

(* A dead kernel or a signal brings the system to a halt (VoidInit).       *)
HaltsInTheEnd == V!HaltsInTheEnd

(***************************************************************************)
(* From the timer to the mind: every firing of a wake job is one wakeup,   *)
(* which is in one place only, queued, drained by voidinit, handed to the  *)
(* mind or in the answer to a call that voidinit did not get (another      *)
(* client's, or a poll that failed after the drain); nothing else but the  *)
(* death of the kernel loses one; and voidinit hands over in the order of  *)
(* firing.                                                                 *)
(***************************************************************************)
WakeupsExactlyOnce ==
    LET mine == handed \o batch \o wakeQueue
        all  == mine \o taken
        ids  == {all[i].id : i \in DOMAIN all}
    IN  /\ Cardinality(ids) = Len(all)
        /\ \A i \in 1 .. Len(mine) - 1 : mine[i].id < mine[i + 1].id
        /\ ready => ids = 1 .. seq
        /\ ready => \A j \in Jobs : job[j].kind = "wake" =>
              Cardinality({i \in DOMAIN all : all[i].job = j}) = job[j].runs

(***************************************************************************)
(* As long as turns end, a queued wakeup under a supervising voidinit with *)
(* a mind is handed to the mind, unless an answer that voidinit did not    *)
(* get held it, the gate refuses the poll, the kernel ends or the system   *)
(* stops.                                                                  *)
(***************************************************************************)
WakeupsAreRun ==
    LET In(q, i) == \E k \in DOMAIN q : q[k].id = i IN
    V!TurnsEnd =>
      \A i \in 1 .. MaxWakes :
        bundle /\ phase \in {"supervise", "waking", "turn"} /\ In(wakeQueue, i)
            ~> \/ In(handed, i) \/ In(taken, i) \/ ~permits
               \/ proc["kernel"] # "alive" \/ phase \in {"stopping", "exiting", "ended"}

=============================================================================
