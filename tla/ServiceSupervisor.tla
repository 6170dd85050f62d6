------------------------- MODULE ServiceSupervisor -------------------------
(***************************************************************************)
(* The service supervisor of the kernel (services.ts, behind the svc       *)
(* capabilities).  A service is an entry object in a map.  Callbacks       *)
(* (the exit of a child, the restart timer) hold the ENTRY, not the name,  *)
(* so they outlive the entry's removal and may run after the name has been *)
(* defined again: entries and names are kept apart here.                   *)
(*                                                                         *)
(* Every method runs in one tick of the event loop; children exit, timers  *)
(* fire and operators call in any order between ticks.                     *)
(***************************************************************************)
EXTENDS Integers, Functions

CONSTANTS Names,      \* service names operators use
          Entries,    \* bound: the entry objects define() may create
          Policies,   \* restart policies in use
          MaxRestarts \* values of maxRestarts in use

ASSUME PolicyAssumption ==
    /\ Policies \subseteq {"always", "on-failure", "no"}
    /\ MaxRestarts \subseteq Int

NoEntry == "noentry"
ASSUME EntryAssumption == NoEntry \notin Entries

VARIABLES
    up,      \* the kernel process is running
    table,   \* the services map: the entry of each name, or NoEntry
    made,    \* entries created so far
    svc,     \* the entry objects
    strays,  \* entries some process lives of that their shell had started
    crashed  \* the kernel died without running shutdown()

world == <<strays, crashed>>
vars  == <<up, table, made, svc, strays, crashed>>

(***************************************************************************)
(* An entry: the fields of ServiceEntry, and                               *)
(*   child   the ChildProcess object: live, or a dud when spawn failed     *)
(*   timers  restart timers pending                                        *)
(*   alive   shells of this entry whose exit is not yet reported           *)
(*   told    the strongest signal the latest shell was sent                *)
(*   streak  ghost: launches in a row since a manual start or a stable run *)
(*   asked   ghost: what the operator last asked for                       *)
(***************************************************************************)
Statuses == {"running", "restarting", "stopped", "failed"}
Entry == [restart : Policies \cup {"no"}, maxRestarts : Int,
          desired : {"running", "stopped"}, status : Statuses, restarts : Nat,
          child : {"none", "live", "dud"}, timers : Nat, alive : Nat,
          told : {"no", "term", "kill"}, streak : Nat,
          asked : {"running", "stopped"}]

Blank == [restart |-> "no", maxRestarts |-> 0, desired |-> "stopped",
          status |-> "stopped", restarts |-> 0, child |-> "none", timers |-> 0,
          alive |-> 0, told |-> "no", streak |-> 0, asked |-> "stopped"]

TypeOK ==
    /\ up \in BOOLEAN
    /\ table \in [Names -> Entries \cup {NoEntry}]
    /\ made \subseteq Entries
    /\ svc \in [Entries -> Entry]
    /\ strays \subseteq Entries
    /\ crashed \in BOOLEAN

----------------------------------------------------------------------------
(* What each method does to an entry.                                      *)

(* A failed spawn (ok = FALSE) leaves a child object that emits only       *)
(* 'error', which is logged: no pid, no exit event.                        *)
launch(s, ok) ==
    [s EXCEPT !.child = IF ok THEN "live" ELSE "dud", !.status = "running",
              !.alive = IF ok THEN @ + 1 ELSE @, !.told = IF ok THEN "no" ELSE @,
              !.streak = @ + 1]

(* The child is /bin/sh -c, in the kernel's own process group: the signal  *)
(* goes to that shell alone, and what it has started (strays) lives on.    *)
kill(s, sig) == IF s.child = "live" THEN [s EXCEPT !.told = sig] ELSE s

clearTimer(s) == IF s.timers > 0 THEN [s EXCEPT !.timers = @ - 1] ELSE s

(* Mutant: an entry whose restart is pending is launched right away.       *)
startableEager(s) == s.status # "running"

startable(s) == s.status \notin {"running", "restarting"}

start(s, ok) ==
    LET a == [s EXCEPT !.asked = "running"] IN
    IF startable(s)
      THEN launch([a EXCEPT !.desired = "running", !.restarts = 0, !.streak = 0], ok)
      ELSE a

stop(s) ==
    LET d == [clearTimer(s) EXCEPT !.desired = "stopped", !.asked = "stopped"] IN
    IF d.child # "none" /\ d.status = "running"
      THEN kill(d, "term") ELSE [d EXCEPT !.status = "stopped"]

(* Mutant: a removed service is forgotten, its process left alone.         *)
removeForgets(s) == [clearTimer(s) EXCEPT !.desired = "stopped", !.asked = "stopped"]

(* Mutant: removal kills the process and still wants it to run.            *)
removeKeepsWish(s) == kill([clearTimer(s) EXCEPT !.asked = "stopped"], "kill")

remove(s) ==
    kill([clearTimer(s) EXCEPT !.desired = "stopped", !.asked = "stopped"], "kill")

(* Mutant: the policy is consulted before the wish.                        *)
shouldRestartUnwanted(s, failure) ==
    s.restart = "always" \/ (s.restart = "on-failure" /\ failure)

shouldRestart(s, failure) ==
    /\ s.desired = "running"
    /\ s.restart = "always" \/ (s.restart = "on-failure" /\ failure)

(* Mutant: the counter is compared before it is raised.                    *)
countExitLate(s, stable) == IF stable THEN 0 ELSE s.restarts

countExit(s, stable) == IF stable THEN 1 ELSE s.restarts + 1

onExit(s, failure, stable) ==
    LET x == [s EXCEPT !.child = "none", !.alive = @ - 1]
        r == countExit(s, stable)
        c == [x EXCEPT !.restarts = r, !.streak = IF stable THEN 1 ELSE @]
    IN  IF ~shouldRestart(s, failure) THEN [x EXCEPT !.status = "stopped"]
        ELSE IF r > s.maxRestarts THEN [c EXCEPT !.status = "failed"]
        ELSE [c EXCEPT !.status = "restarting", !.timers = @ + 1]

----------------------------------------------------------------------------
Init ==
    /\ up = TRUE
    /\ table = [n \in Names |-> NoEntry]
    /\ made = {}
    /\ svc = [e \in Entries |-> Blank]
    /\ strays = {} /\ crashed = FALSE

Has(n) == table[n] # NoEntry
Put(e, s) == svc' = [svc EXCEPT ![e] = s]

Define(n, e, p, m, autostart, ok) ==
    LET new == [Blank EXCEPT !.restart = p, !.maxRestarts = m] IN
    /\ up /\ ~Has(n) /\ e \notin made
    /\ table' = [table EXCEPT ![n] = e]
    /\ made' = made \cup {e}
    /\ Put(e, IF autostart THEN start(new, ok) ELSE new)
    /\ UNCHANGED <<up, world>>

Start(n, ok) ==
    /\ up /\ Has(n)
    /\ Put(table[n], start(svc[table[n]], ok))
    /\ UNCHANGED <<up, table, made, world>>

Stop(n) ==
    /\ up /\ Has(n)
    /\ Put(table[n], stop(svc[table[n]]))
    /\ UNCHANGED <<up, table, made, world>>

Remove(n) ==
    /\ up /\ Has(n)
    /\ table' = [table EXCEPT ![n] = NoEntry]
    /\ Put(table[n], remove(svc[table[n]]))
    /\ UNCHANGED <<up, made, world>>

(* A shell ends.  One that was SIGKILLed ends abnormally.  After the       *)
(* kernel is gone nobody is told.                                          *)
Exit(e, failure, stable) ==
    /\ svc[e].alive > 0
    /\ svc[e].told = "kill" => failure
    /\ Put(e, IF up THEN onExit(svc[e], failure, stable)
              ELSE [svc[e] EXCEPT !.alive = @ - 1])
    /\ UNCHANGED <<up, table, made, world>>

(* Mutant: the timer goes through start(), which ignores a restarting      *)
(* service.                                                                *)
RestartTimerViaStart(e, ok) ==
    LET s == [svc[e] EXCEPT !.timers = @ - 1] IN
    /\ up /\ svc[e].timers > 0
    /\ Put(e, IF s.desired = "running" THEN start(s, ok) ELSE s)
    /\ UNCHANGED <<up, table, made, world>>

RestartTimer(e, ok) ==
    LET s == [svc[e] EXCEPT !.timers = @ - 1] IN
    /\ up /\ svc[e].timers > 0
    /\ Put(e, IF s.desired = "running" THEN launch(s, ok) ELSE s)
    /\ UNCHANGED <<up, table, made, world>>

shutdown(s) ==
    kill([clearTimer(s) EXCEPT !.desired = "stopped"], "term")

(* index.ts shutdown(): every entry of the map, then process.exit.         *)
Halt ==
    /\ up /\ up' = FALSE
    /\ svc' = [e \in Entries |-> IF e \in Range(table) THEN shutdown(svc[e]) ELSE svc[e]]
    /\ UNCHANGED <<table, made, world>>

(* The kernel ends some other way (an unhandled rejection, SIGKILL).       *)
Crash ==
    /\ up /\ up' = FALSE /\ crashed' = TRUE
    /\ UNCHANGED <<table, made, svc, strays>>

(* The command line starts processes ("a; b", "a &"), which end when they  *)
(* like: their exit reaches nobody.                                        *)
Fork(e) ==
    /\ svc[e].alive > 0
    /\ strays' = strays \cup {e}
    /\ UNCHANGED <<up, table, made, svc, crashed>>

StraysEnd(e) ==
    /\ e \in strays
    /\ strays' = strays \ {e}
    /\ UNCHANGED <<up, table, made, svc, crashed>>

Next ==
    \/ \E n \in Names :
         \/ \E e \in Entries, p \in Policies, m \in MaxRestarts,
               autostart, ok \in BOOLEAN : Define(n, e, p, m, autostart, ok)
         \/ \E ok \in BOOLEAN : Start(n, ok)
         \/ Stop(n)
         \/ Remove(n)
    \/ \E e \in Entries :
         \/ \E failure, stable \in BOOLEAN : Exit(e, failure, stable)
         \/ \E ok \in BOOLEAN : RestartTimer(e, ok)
         \/ Fork(e)
         \/ StraysEnd(e)
    \/ Halt
    \/ Crash

Spec == Init /\ [][Next]_vars

(* Timers fire.  Nothing makes a process exit.                             *)
TimerFires(e) == \E ok \in BOOLEAN : RestartTimer(e, ok)
FairSpec == Spec /\ \A e \in Entries : WF_vars(TimerFires(e))

----------------------------------------------------------------------------
(* Properties                                                              *)

(***************************************************************************)
(* A service never has two shells, nor a shell and a restart pending,      *)
(* nor two restarts pending, however starts, stops, exits and timers of    *)
(* the same entry interleave (start()'s guard against onExit's timer).     *)
(***************************************************************************)
OneIncarnation == \A e \in Entries : svc[e].alive + svc[e].timers <= 1

(***************************************************************************)
(* The crash-loop guard holds: between two manual starts, and without a    *)
(* stable run, a service is launched at most 1 + maxRestarts times.        *)
(***************************************************************************)
CrashLoopBound ==
    \A e \in Entries :
        svc[e].streak <= 1 + (IF svc[e].maxRestarts > 0 THEN svc[e].maxRestarts ELSE 0)

(***************************************************************************)
(* A process is launched only for a service that is still defined and that *)
(* the operator last asked to run: svc.stop "keep[s] it stopped" and       *)
(* svc.remove is final, whatever exit or timer was on its way.             *)
(***************************************************************************)
LaunchWasAsked ==
    [][ \A e \in Entries : svc'[e].streak > svc[e].streak =>
            svc'[e].asked = "running" /\ e \in Range(table') ]_vars

Listed(e) == up /\ e \in Range(table)

(***************************************************************************)
(* The listing and the shells agree.  A service of a running kernel is     *)
(* listed as running exactly when its shell has not ended (a failed spawn  *)
(* aside, which stays listed for good); a shell nobody lists any more,     *)
(* because the service was removed or the kernel shut down, was sent a     *)
(* signal, unless the kernel crashed under it.  What the shell had started *)
(* is not so lucky: `strays` survive stop, remove, restart and shutdown    *)
(* and no record shows them.                                               *)
(***************************************************************************)
ShellsAreAccounted ==
    \A e \in Entries :
        /\ svc[e].alive > 0 =>
              IF Listed(e) THEN svc[e].status = "running"
              ELSE svc[e].told # "no" \/ (crashed /\ e \in Range(table))
        /\ Listed(e) /\ svc[e].status = "running" =>
              svc[e].alive = 1 \/ svc[e].child = "dud"

(* A pending restart is carried out or called off.                         *)
RestartSettles ==
    \A e \in Entries : up /\ svc[e].status = "restarting" /\ e \in Range(table)
        ~> ~up \/ svc[e].status # "restarting" \/ e \notin Range(table)

Contract == INSTANCE ServiceContract WITH
    st   <- [n \in Names |-> IF Has(n) THEN svc[table[n]].status ELSE "absent"],
    want <- [n \in Names |-> IF Has(n) THEN svc[table[n]].desired ELSE "stopped"],
    pol  <- [n \in Names |-> IF Has(n) THEN svc[table[n]].restart ELSE "no"]

(***************************************************************************)
(* The supervisor implements the per-name contract: in particular the late *)
(* exit or timer of a removed entry never shows in the service that took   *)
(* over its name.                                                          *)
(***************************************************************************)
ImplementsContract == Contract!CSpec

(***************************************************************************)
(* svc.start: "Start (or restart) a stopped/failed service".  Here: an     *)
(* always-restart service the operator last asked to run is not stopped.   *)
(* A start that arrives while a stop is still waiting for the process to   *)
(* exit is dropped by start()'s early return.                              *)
(***************************************************************************)
StartIsHonoured ==
    up => \A n \in Names : Has(n) =>
        LET s == svc[table[n]] IN
        s.asked = "running" /\ s.restart = "always" => s.status # "stopped"

=============================================================================
