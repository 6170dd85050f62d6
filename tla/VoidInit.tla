------------------------------ MODULE VoidInit ------------------------------
(***************************************************************************)
(* PID 1 (boot/voidinit.py): starts the kernel and perhaps the Console,    *)
(* hands the machine to the mind, then supervises: it watches the kernel   *)
(* and runs the wakeups it drains from the scheduler (cron.wakeups).       *)
(*                                                                         *)
(* One Python thread; the SIGTERM/SIGINT handler runs between any two of   *)
(* its instructions, those of the handler itself included, and never       *)
(* returns.  Kernel and Console are processes of their own.  A child       *)
(* exists before the variable that names it is assigned, so `known` is     *)
(* kept apart from `proc`.                                                 *)
(***************************************************************************)
EXTENDS Integers, Sequences

CONSTANTS Configs,    \* boot configurations to consider
          MaxSignals  \* bound: signals that reach voidinit

(* The environment a boot finds: VOID_DESKTOP, a TTY, a model backend,     *)
(* VOID_BOOT_TASK and VOID_BOOT_ONCE.                                      *)
Config == [desktop : BOOLEAN, tty : BOOLEAN, model : BOOLEAN,
           task : BOOLEAN, once : BOOLEAN]

Children == {"kernel", "console"}

VARIABLES
    conf,   \* the boot configuration
    phase,  \* where voidinit is
    proc,   \* state of each child process
    known,  \* children whose Popen object has been assigned (_kernel, _console)
    ready,  \* the gate answers
    bundle, \* the autonomous mind was built
    end,    \* ghost: how voidinit came to end
    signals,\* signals so far
    queue,  \* wakeups waiting in the kernel (the scheduler's wakeQueue)
    batch,  \* wakeups drained and not yet handed to the mind
    handed  \* ghost: wakeups handed to the mind, in order

main  == <<conf, phase, known, bundle, end, signals>>
wakes == <<queue, batch, handed>>
vars  == <<main, proc, ready, wakes>>

Phases == {"spawning", "waiting", "console", "naming", "building", "task",
           "shell", "supervise", "waking", "turn", "stopping", "exiting", "ended"}

TypeOK ==
    /\ conf \in Configs /\ phase \in Phases
    /\ proc \in [Children -> {"none", "alive", "told", "killed", "dead"}]
    /\ known \subseteq Children /\ ready \in BOOLEAN /\ bundle \in BOOLEAN
    /\ end \in {"no", "asked", "kernel", "unready", "exception"}
    /\ signals \in 0 .. MaxSignals

----------------------------------------------------------------------------
Running(c) == proc[c] \in {"alive", "told", "killed"}

(* Popen.poll() sees a child only through its variable.                    *)
Seen(c) == c \in known /\ Running(c)

(* start_kernel() has forked; its result is not assigned yet.              *)
Init ==
    /\ conf \in Configs /\ phase = "spawning"
    /\ proc = [c \in Children |-> IF c = "kernel" THEN "alive" ELSE "none"]
    /\ known = {} /\ ready = FALSE /\ bundle = FALSE /\ end = "no"
    /\ signals = 0 /\ batch = <<>> /\ handed = <<>>

Go(p) == phase' = p /\ UNCHANGED <<conf, known, bundle, end, signals>>
Ends(why) == phase' = "ended" /\ end' = why /\ UNCHANGED <<conf, known, bundle, signals>>

KernelNamed ==
    /\ phase = "spawning" /\ phase' = "waiting"
    /\ known' = known \cup {"kernel"}
    /\ UNCHANGED <<conf, bundle, end, signals, proc, ready, wakes>>

GateReady ==
    /\ phase = "waiting" /\ ready
    /\ Go(IF conf.desktop THEN "console" ELSE "building")
    /\ UNCHANGED <<proc, ready, wakes>>

(* The kernel died, or 20 seconds passed.                                  *)
NeverReady ==
    /\ phase = "waiting"
    /\ proc' = [proc EXCEPT !["kernel"] = IF Running("kernel") THEN "told" ELSE @]
    /\ Ends("unready")
    /\ UNCHANGED <<ready, wakes>>

StartConsole ==
    /\ phase = "console"
    /\ proc' = [proc EXCEPT !["console"] = "alive"]
    /\ Go("naming")
    /\ UNCHANGED <<ready, wakes>>

ConsoleNamed ==
    /\ phase = "naming" /\ phase' = "building"
    /\ known' = known \cup {"console"}
    /\ UNCHANGED <<conf, bundle, end, signals, proc, ready, wakes>>

(* shutdown(): the Console is asked to end, the kernel is asked and waited *)
(* for (StopDone), or killed when it takes too long (StopKills).  Then     *)
(* sys.exit; a signal before that runs shutdown() once more, inside itself.*)
shutdown ==
    /\ phase' = "stopping" /\ end' = "asked"
    /\ proc' = [c \in Children |-> IF Seen(c) /\ proc[c] # "killed" THEN "told" ELSE proc[c]]
    /\ UNCHANGED <<conf, known, ready, wakes>>

(* main() after the gate is up: what the mind is given to do.              *)
AfterBuild(b) ==
    IF conf.task
      THEN IF b THEN "task" ELSE IF conf.once THEN "stopping" ELSE "supervise"
      ELSE IF conf.tty THEN "shell" ELSE "supervise"

BuildMind ==
    LET b == ~conf.tty /\ conf.model IN
    /\ phase = "building" /\ (b => ready) /\ bundle' = b
    /\ IF AfterBuild(b) = "stopping" THEN shutdown
       ELSE /\ phase' = AfterBuild(b)
            /\ UNCHANGED <<conf, known, end, proc, ready, wakes>>
    /\ UNCHANGED signals

TaskDone ==
    /\ phase = "task"
    /\ IF conf.once THEN shutdown /\ UNCHANGED <<bundle, signals>>
       ELSE Go("supervise") /\ UNCHANGED <<proc, ready, wakes>>

ShellDone == phase = "shell" /\ shutdown /\ UNCHANGED <<bundle, signals>>

(* An exception leaves main(): the kernel dies while it answers the first  *)
(* call, the mind cannot be built, the boot task fails, or voidsh calls    *)
(* sys.exit because it finds no model.                                     *)
Raises ==
    /\ \/ phase = "waiting" /\ proc["kernel"] = "dead"
       \/ phase = "building" /\ ~conf.tty /\ conf.model
       \/ phase = "task"
       \/ phase = "shell"
    /\ Ends("exception")
    /\ UNCHANGED <<proc, ready, wakes>>

----------------------------------------------------------------------------
(* supervise()                                                             *)

(* Mutant: it is the Console whose exit is waited for.                     *)
ConsoleReaped ==
    /\ phase = "supervise" /\ proc["console"] = "dead"
    /\ Ends("kernel")
    /\ UNCHANGED <<proc, ready, wakes>>

KernelReaped ==
    /\ phase = "supervise" /\ proc["kernel"] = "dead"
    /\ Ends("kernel")
    /\ UNCHANGED <<proc, ready, wakes>>

(* The answer of cron.wakeups.  An exception instead of it (88-90) is      *)
(* logged and the loop goes on; what it may cost is for WakePipeline.      *)
poll_wakeups ==
    /\ phase = "supervise" /\ bundle /\ ready /\ queue # <<>>
    /\ batch' = queue /\ queue' = <<>>
    /\ Go("waking")
    /\ UNCHANGED <<proc, ready, handed>>

(* Mutant: an error in one wakeup drops the rest of the batch.             *)
wakesLeftDropped == <<>>

wakesLeft == Tail(batch)

(* agent.run(prompt), in the loop's own thread ...                         *)
RunWakeup ==
    /\ phase = "waking"
    /\ handed' = Append(handed, Head(batch))
    /\ batch' = wakesLeft
    /\ Go("turn")
    /\ UNCHANGED <<proc, ready, queue>>

(* ... whose end and whose exceptions are treated alike.  It need not end: *)
(* a call to the kernel has no timeout (client.py).                        *)
TurnEnds ==
    /\ phase = "turn"
    /\ Go(IF batch = <<>> THEN "supervise" ELSE "waking")
    /\ UNCHANGED <<proc, ready, wakes>>

----------------------------------------------------------------------------
Signal ==
    /\ phase # "ended" /\ signals < MaxSignals
    /\ signals' = signals + 1
    /\ shutdown
    /\ UNCHANGED bundle

StopDone ==
    /\ phase = "stopping" /\ ~Seen("kernel")
    /\ Go("exiting")
    /\ UNCHANGED <<proc, ready, wakes>>

(* Mutant: the kernel that outlives the wait is not killed.                *)
killedNot(c) == proc[c]

killed(c) == "killed"

StopKills ==
    /\ phase = "stopping" /\ Seen("kernel")
    /\ proc' = [proc EXCEPT !["kernel"] = killed("kernel")]
    /\ Go("exiting")
    /\ UNCHANGED <<ready, wakes>>

Exit ==
    /\ phase = "exiting" /\ Go("ended")
    /\ UNCHANGED <<proc, ready, wakes>>

(* The processes.  A kernel that dies takes its queue with it.             *)
KernelListens ==
    /\ proc["kernel"] = "alive" /\ ~ready /\ ready' = TRUE
    /\ UNCHANGED <<main, proc, wakes>>

Dies(c) ==
    /\ Running(c)
    /\ proc' = [proc EXCEPT ![c] = "dead"]
    /\ IF c = "kernel" THEN ready' = FALSE /\ queue' = <<>>
       ELSE UNCHANGED <<ready, queue>>
    /\ UNCHANGED <<main, batch, handed>>

(* What voidinit does by itself, the wakeups aside.                        *)
Boots ==
    \/ KernelNamed \/ GateReady \/ NeverReady \/ StartConsole \/ ConsoleNamed
    \/ BuildMind \/ TaskDone \/ ShellDone \/ Raises
    \/ KernelReaped \/ RunWakeup \/ TurnEnds
    \/ Signal \/ StopDone \/ StopKills \/ Exit
    \/ KernelListens \/ Dies("console")

----------------------------------------------------------------------------
(* Properties                                                              *)

(***************************************************************************)
(* A stop that was asked for leaves no child that voidinit knows of        *)
(* untouched: the kernel has ended or was killed, the Console was told.    *)
(* (A signal that arrives before the Popen object is bound finds nothing   *)
(* to stop.)                                                               *)
(***************************************************************************)
OrderlyStop ==
    phase = "ended" /\ end = "asked" =>
        /\ "kernel" \in known => proc["kernel"] \in {"dead", "killed"}
        /\ "console" \in known => proc["console"] \in {"told", "dead"}

(* No turn keeps the loop for ever.                                        *)
TurnsEnd == []<>(phase # "turn")

(***************************************************************************)
(* A voidinit that was asked to stop, however often, halts, also from      *)
(* within a turn; and so does, as long as turns end, a supervising one     *)
(* whose kernel has ended.                                                 *)
(***************************************************************************)
HaltsInTheEnd ==
    /\ phase = "stopping" ~> phase = "ended"
    /\ TurnsEnd => (phase \in {"supervise", "waking", "turn"} /\ proc["kernel"] = "dead"
                      ~> phase = "ended")

=============================================================================
