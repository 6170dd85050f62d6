----------------------------- MODULE Scheduler -----------------------------
(***************************************************************************)
(* The kernel's scheduler (scheduler.ts, behind the cron capabilities).    *)
(* A job fires on a timer; a "shell" job runs a command and is re-armed    *)
(* when the command ends, a "wake" job queues a prompt for the mind and is *)
(* re-armed at once.  Timers and child callbacks hold the JOB OBJECT, so   *)
(* they may run after the job was cancelled and its name taken again: job  *)
(* objects and names are kept apart.  Time is abstract: a pending timer    *)
(* may fire at any moment.                                                 *)
(***************************************************************************)
EXTENDS Integers, Sequences, FiniteSets, Functions

CONSTANTS Names,    \* job names clients use
          Jobs,     \* bound: the job objects schedule() may create
          Counts,   \* values of `count` clients give a recurring job
          MaxFires, \* bound: how often one uncapped job is followed
          MaxWakes  \* bound: how many wakeups are followed

NoJob == "nojob"

VARIABLES
    up,       \* the kernel process is running
    table,    \* the jobs map: the job of each name, or NoJob
    made,     \* job objects created so far
    job,      \* the job objects
    wakeQueue,\* queued wakeups, each [id, job]
    seq       \* number of the last wakeup

vars  == <<up, table, made, job, wakeQueue, seq>>
wakes == <<wakeQueue, seq>>

(***************************************************************************)
(* A job: the fields of JobEntry its control depends on.  `recurring`      *)
(* stands for everyMs != null, `capped` for maxRuns != null; `timers`      *)
(* counts pending timers and `kids` children whose exit (or spawn error)   *)
(* has not been reported.                                                  *)
(***************************************************************************)
Job == [kind : {"shell", "wake"}, recurring : BOOLEAN, capped : BOOLEAN,
        maxRuns : Int, runs : Nat, enabled : BOOLEAN, timers : Nat, kids : Nat]

Blank == [kind |-> "wake", recurring |-> FALSE, capped |-> TRUE, maxRuns |-> 1,
          runs |-> 0, enabled |-> FALSE, timers |-> 0, kids |-> 0]

Wakeup == [id : Nat, job : Jobs]

TypeOK ==
    /\ up \in BOOLEAN
    /\ table \in [Names -> Jobs \cup {NoJob}]
    /\ made \subseteq Jobs
    /\ job \in [Jobs -> Job]
    /\ wakeQueue \in Seq(Wakeup)
    /\ seq \in Nat

----------------------------------------------------------------------------
(* What cron.schedule may ask for (cron.ts): every_seconds with an         *)
(* optional count, or in_seconds, which is one run.                        *)
Schedules ==
    [recurring : {TRUE}, capped : {TRUE}, maxRuns : Counts]
    \cup [recurring : {TRUE}, capped : {FALSE}, maxRuns : {0}]
    \cup [recurring : {FALSE}, capped : {TRUE}, maxRuns : {1}]

(* The fields of a new Scheduler.                                          *)
Fresh ==
    /\ table = [n \in Names |-> NoJob] /\ made = {}
    /\ job = [j \in Jobs |-> Blank]
    /\ wakeQueue = <<>> /\ seq = 0

Has(n) == table[n] # NoJob
Put(j, s) == job' = [job EXCEPT ![j] = s]

armed(s) == [s EXCEPT !.timers = @ + 1]

schedule(n, j, kind, s) ==
    /\ up /\ ~Has(n) /\ j \notin made
    /\ table' = [table EXCEPT ![n] = j]
    /\ made' = made \cup {j}
    /\ Put(j, armed([kind |-> kind, recurring |-> s.recurring, capped |-> s.capped,
                     maxRuns |-> s.maxRuns, runs |-> 0, enabled |-> TRUE,
                     timers |-> 0, kids |-> 0]))
    /\ UNCHANGED <<up, wakes>>

(* Mutant: a cancelled job is only taken off the map.                      *)
clearTimerNot(s) == s

clearTimer(s) == IF s.timers > 0 THEN [s EXCEPT !.timers = @ - 1] ELSE s

cancel(n) ==
    /\ up /\ Has(n)
    /\ table' = [table EXCEPT ![n] = NoJob]
    /\ Put(table[n], clearTimer(job[table[n]]))
    /\ UNCHANGED <<up, made, wakes>>

(* Mutant: the limit is compared strictly.                                 *)
reachedMaxLate(s) == s.capped /\ s.runs > s.maxRuns

reachedMax(s) == s.capped /\ s.runs >= s.maxRuns

afterFire(s) ==
    IF s.recurring /\ ~reachedMax(s) /\ s.enabled
      THEN armed(s)
      ELSE [s EXCEPT !.enabled = FALSE]

(* The beginning of fire(), common to both kinds.                          *)
fired(s) == [s EXCEPT !.timers = @ - 1, !.runs = @ + 1]

Firing(j, kind) ==
    /\ up /\ job[j].timers > 0 /\ job[j].kind = kind
    /\ job[j].runs < MaxFires

fireWake(j) ==
    /\ Firing(j, "wake") /\ seq < MaxWakes
    /\ wakeQueue' = Append(wakeQueue, [id |-> seq + 1, job |-> j])
    /\ seq' = seq + 1
    /\ Put(j, afterFire(fired(job[j])))
    /\ UNCHANGED <<up, table, made>>

fireShell(j) ==
    /\ Firing(j, "shell")
    /\ Put(j, [fired(job[j]) EXCEPT !.kids = @ + 1])
    /\ UNCHANGED <<up, table, made, wakes>>

(* The command exits, or could not be spawned ('error'): both callbacks    *)
(* end in afterFire.                                                       *)
ChildEnds(j) ==
    /\ up /\ job[j].kids > 0
    /\ Put(j, afterFire([job[j] EXCEPT !.kids = @ - 1]))
    /\ UNCHANGED <<up, table, made, wakes>>

(* Mutant: the queue is handed out but not emptied.                        *)
drainWakeupsKeeps ==
    /\ up
    /\ UNCHANGED vars

drainWakeups ==
    /\ up
    /\ wakeQueue' = <<>>
    /\ UNCHANGED <<up, table, made, job, seq>>

(* index.ts shutdown(), or a crash: timers and commands run no more code,  *)
(* and jobs and queue, kept in memory only, are gone.                      *)
Halt ==
    /\ up /\ up' = FALSE
    /\ table' = [n \in Names |-> NoJob] /\ made' = {}
    /\ job' = [j \in Jobs |-> Blank]
    /\ wakeQueue' = <<>> /\ seq' = 0

(* What clients of cron and the event loop do, the wakeups aside.          *)
Works ==
    \/ \E n \in Names :
         \/ \E j \in Jobs, kind \in {"shell", "wake"}, s \in Schedules :
               schedule(n, j, kind, s)
         \/ cancel(n)
    \/ \E j \in Jobs : fireWake(j) \/ fireShell(j) \/ ChildEnds(j)

----------------------------------------------------------------------------
(* Properties                                                              *)

(***************************************************************************)
(* A job that is scheduled and enabled always has exactly one thing that   *)
(* will carry it on, its timer or its running command: it neither stalls   *)
(* nor overlaps itself; a disabled job has none.  A cancelled job of the   *)
(* kind "wake", or of one run, never fires again; a recurring shell job    *)
(* may, for its command may have been running and re-arm it, but even that *)
(* one does not overlap itself.                                            *)
(***************************************************************************)
OnePendingStep ==
    /\ \A j \in Jobs : job[j].timers + job[j].kids <= 1
    /\ \A n \in Names : Has(n) =>
          LET s == job[table[n]] IN s.timers + s.kids = IF s.enabled THEN 1 ELSE 0
    /\ \A j \in made : j \notin Range(table) /\ job[j].timers > 0 =>
          job[j].kind = "shell" /\ job[j].recurring

(***************************************************************************)
(* A job with a limit never runs more often than that, cancelled or not.   *)
(* The limit is looked at only after a run: with a limit of 0 or less a    *)
(* job runs once.                                                          *)
(***************************************************************************)
RunsWithinCount ==
    \A j \in Jobs : job[j].capped =>
        job[j].runs <= IF job[j].maxRuns > 0 THEN job[j].maxRuns ELSE 1
=============================================================================
