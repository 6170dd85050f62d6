-------------------------- MODULE ProcessManager ---------------------------
(***************************************************************************)
(* Background processes (procman.ts, behind the proc capabilities).  Each  *)
(* spawn gets a fresh id; the record stays until proc.remove, which        *)
(* refuses while the process is believed to run.  That belief is `status`, *)
(* corrected only by the child's exit event.  The child is /bin/sh -c, and  *)
(* it alone is listed and signalled; what it starts is nobody's.           *)
(***************************************************************************)
EXTENDS Integers

CONSTANT MaxSpawns   \* bound: processes spawned during the run

Ids == 1 .. MaxSpawns

VARIABLES up,    \* the kernel process is running
          seq,   \* number of the last id
          proc,  \* the entries, by id
          crashed \* the kernel died without running shutdown()

vars == <<up, seq, proc, crashed>>

(***************************************************************************)
(*   listed  the entry is in the map                                       *)
(*   alive   the shell exists                                              *)
(*   told    the last signal delivered to it                               *)
(*   dud     it could not be spawned                                       *)
(*   stray   a process lives that it had started                           *)
(***************************************************************************)
Entry == [listed : BOOLEAN, status : {"running", "exited"}, alive : BOOLEAN,
          told : {"no", "term", "kill"}, dud : BOOLEAN, stray : BOOLEAN]
Unused == [listed |-> FALSE, status |-> "exited", alive |-> FALSE, told |-> "no",
           dud |-> FALSE, stray |-> FALSE]

TypeOK == /\ up \in BOOLEAN /\ crashed \in BOOLEAN /\ seq \in 0 .. MaxSpawns
          /\ proc \in [Ids -> Entry]

Init == up = TRUE /\ crashed = FALSE /\ seq = 0 /\ proc = [i \in Ids |-> Unused]

Put(i, e) == proc' = [proc EXCEPT ![i] = e]

(* A failed spawn (ok = FALSE) is recorded as running; its 'error' event   *)
(* only adds to the log, and no exit event follows.                        *)
spawn(ok) ==
    /\ up /\ seq < MaxSpawns
    /\ seq' = seq + 1
    /\ Put(seq + 1, [Unused EXCEPT !.listed = TRUE, !.status = "running",
                                   !.alive = ok, !.dud = ~ok])
    /\ UNCHANGED <<up, crashed>>

(* SIGKILL is not taken back by a later signal.                            *)
kill(e, sig) ==
    IF e.alive /\ e.told # "kill" THEN [e EXCEPT !.told = sig] ELSE e

stop(i, sig) ==
    /\ up /\ proc[i].listed
    /\ Put(i, IF proc[i].status = "running" THEN kill(proc[i], sig) ELSE proc[i])
    /\ UNCHANGED <<up, seq, crashed>>

(* Mutant: removal does not look at the status.                            *)
removableAlways(e) == e.listed

removable(e) == e.listed /\ e.status # "running"

remove(i) ==
    /\ up /\ removable(proc[i])
    /\ Put(i, [proc[i] EXCEPT !.listed = FALSE])
    /\ UNCHANGED <<up, seq, crashed>>

exitStatus(e) == IF up THEN "exited" ELSE e.status

(* The shell ends; the exit event reaches the kernel if it is still up.    *)
ChildExits(i) ==
    /\ proc[i].alive
    /\ Put(i, [proc[i] EXCEPT !.alive = FALSE, !.status = exitStatus(proc[i])])
    /\ UNCHANGED <<up, seq, crashed>>

shutdown(e) == IF e.listed /\ e.status = "running" THEN kill(e, "term") ELSE e

Halt ==
    /\ up /\ up' = FALSE
    /\ proc' = [i \in Ids |-> shutdown(proc[i])]
    /\ UNCHANGED <<seq, crashed>>

(* The kernel ends some other way: nobody is signalled.                    *)
Crash == up /\ up' = FALSE /\ crashed' = TRUE /\ UNCHANGED <<seq, proc>>

(* What the command starts outlives the shell, or ends, unnoticed.         *)
Forks(i) ==
    /\ proc[i].alive
    /\ Put(i, [proc[i] EXCEPT !.stray = TRUE])
    /\ UNCHANGED <<up, seq, crashed>>

StrayEnds(i) ==
    /\ proc[i].stray
    /\ Put(i, [proc[i] EXCEPT !.stray = FALSE])
    /\ UNCHANGED <<up, seq, crashed>>

Next ==
    \/ \E ok \in BOOLEAN : spawn(ok)
    \/ \E i \in Ids : \/ \E sig \in {"term", "kill"} : stop(i, sig)
                      \/ remove(i)
                      \/ ChildExits(i) \/ Forks(i) \/ StrayEnds(i)
    \/ Halt
    \/ Crash

Spec == Init /\ [][Next]_vars

----------------------------------------------------------------------------
(***************************************************************************)
(* proc.list and the shells agree.  A living shell is listed as running,   *)
(* so that proc.stop reaches it and proc.remove refuses; one that survives *)
(* the kernel was signalled, unless the kernel crashed.  Conversely what a *)
(* running kernel lists as running does run, or could not be spawned: such *)
(* an entry is listed as running for good and can never be removed.        *)
(* Nothing is said of `stray`, what the shell had started.                 *)
(***************************************************************************)
ShellsAreKnown ==
    \A i \in Ids : LET e == proc[i] IN
        /\ e.alive => /\ e.listed /\ e.status = "running"
                      /\ ~up => e.told # "no" \/ crashed
        /\ up /\ e.listed /\ e.status = "running" => e.alive \/ e.dud
        /\ e.dud => e.listed /\ e.status = "running"
=============================================================================
