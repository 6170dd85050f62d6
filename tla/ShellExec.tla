----------------------------- MODULE ShellExec -----------------------------
(***************************************************************************)
(* shell.exec (capabilities/shell.ts): one command run by /bin/sh in a     *)
(* process group of its own, with a timer that SIGKILLs the group.  The    *)
(* call is answered by the child's 'close' event, which comes when sh has  *)
(* exited AND nobody holds the output pipes any more, or by 'error'.       *)
(*                                                                         *)
(* Each element of Execs is one call.  Its processes come and go by        *)
(* themselves; the callbacks are ticks of the kernel's event loop.         *)
(***************************************************************************)
EXTENDS Integers

CONSTANTS Execs,            \* calls made over the run
          MaxKids,          \* bound: descendants of one command at a time
          AllowDestructive  \* VOID_ALLOW_DESTRUCTIVE = 1

VARIABLES
    up,   \* the kernel is running
    exec  \* the calls

vars == <<up, exec>>

(***************************************************************************)
(* sh      the /bin/sh process: none yet, alive, exited by itself, ended   *)
(*         by the timeout's SIGKILL (killed) or by some other signal       *)
(*         (signalled), or failed when it could not be spawned             *)
(* kids    descendants in the group, strays: descendants that left it; all *)
(*         of them hold the pipes                                          *)
(* timer   the timeout is pending;  killed: it has fired                   *)
(* code    the answer: none, "own" for the exit code of sh, "null" for the *)
(*         0 that stands for an absent one, or a code of shell.ts          *)
(* held    ghost: somebody held the pipes at the answer                    *)
(***************************************************************************)
Exec == [sh : {"none", "alive", "exited", "killed", "signalled", "failed"},
         kids : Nat, strays : Nat, timer : BOOLEAN, killed : BOOLEAN,
         code : {"none", "own", "null", "124", "126", "127"}, held : BOOLEAN]

Unused == [sh |-> "none", kids |-> 0, strays |-> 0, timer |-> FALSE,
           killed |-> FALSE, code |-> "none", held |-> FALSE]

TypeOK == up \in BOOLEAN /\ exec \in [Execs -> Exec]

Init == up = TRUE /\ exec = [e \in Execs |-> Unused]

Put(e, x) == exec' = [exec EXCEPT ![e] = x] /\ UNCHANGED up
Idle(x)   == x.sh = "none" /\ x.code = "none"
Holders(x) == x.kids + x.strays + (IF x.sh = "alive" THEN 1 ELSE 0)

----------------------------------------------------------------------------
(* Mutant: the promise is settled by whichever event comes last.           *)
finishAgain(x, code) == [x EXCEPT !.code = code, !.timer = FALSE,
                                  !.held = Holders(x) > 0]

(* finish(): the first caller settles the call and clears the timer.       *)
finish(x, code) ==
    IF x.code # "none" THEN x
    ELSE [x EXCEPT !.code = code, !.timer = FALSE, !.held = Holders(x) > 0]

(* `catastrophic` is what destructiveReason finds in the command line.     *)
Refused(catastrophic) == catastrophic /\ ~AllowDestructive

Refuse(e, catastrophic) ==
    /\ up /\ Idle(exec[e]) /\ Refused(catastrophic)
    /\ Put(e, [exec[e] EXCEPT !.code = "126"])

Spawn(e, catastrophic) ==
    /\ up /\ Idle(exec[e]) /\ ~Refused(catastrophic)
    /\ Put(e, [exec[e] EXCEPT !.sh = "alive", !.timer = TRUE])

SpawnFails(e, catastrophic) ==
    /\ up /\ Idle(exec[e]) /\ ~Refused(catastrophic)
    /\ Put(e, [exec[e] EXCEPT !.sh = "failed", !.timer = TRUE])

(* The 'error' event of a failed spawn; a 'close' follows it.              *)
OnError(e) ==
    /\ up /\ exec[e].sh = "failed" /\ exec[e].code = "none"
    /\ Put(e, finish(exec[e], "127"))

(* When the 'close' event is emitted.                                      *)
closes(x) == x.sh \in {"exited", "killed", "signalled"} /\ Holders(x) = 0

(* `killed ? 124 : (code ?? 0)`: node reports no code for a sh that a      *)
(* signal ended.                                                           *)
closeCode(x) == IF x.killed THEN "124" ELSE IF x.sh = "signalled" THEN "null" ELSE "own"

OnClose(e) ==
    LET x == exec[e] IN
    /\ up
    /\ closes(x) \/ (x.sh = "failed" /\ x.code # "none")
    /\ Put(e, finish(x, closeCode(x)))

(* Mutant: only sh itself is killed.                                       *)
killShell(x) == [x EXCEPT !.sh = IF @ = "alive" THEN "killed" ELSE @]

(* process.kill(-pid, SIGKILL): everybody still in the group.  A group     *)
(* that is gone raises ESRCH, which is caught.                             *)
killGroup(x) == [x EXCEPT !.sh = IF @ = "alive" THEN "killed" ELSE @, !.kids = 0]

OnTimeout(e) ==
    /\ up /\ exec[e].timer
    /\ Put(e, [killGroup(exec[e]) EXCEPT !.timer = FALSE, !.killed = TRUE])

----------------------------------------------------------------------------
(* What the command's processes do.                                        *)
Forks(e) ==
    LET x == exec[e] IN
    /\ x.sh = "alive" \/ x.kids > 0
    /\ x.kids + x.strays < MaxKids
    /\ Put(e, [x EXCEPT !.kids = @ + 1])

(* setsid: the descendant leaves the group. *)
Detaches(e) ==
    /\ exec[e].kids > 0
    /\ Put(e, [exec[e] EXCEPT !.kids = @ - 1, !.strays = @ + 1])

KidEnds(e) ==
    /\ exec[e].kids > 0
    /\ Put(e, [exec[e] EXCEPT !.kids = @ - 1])

StrayEnds(e) ==
    /\ exec[e].strays > 0
    /\ Put(e, [exec[e] EXCEPT !.strays = @ - 1])

ShellExits(e) ==
    /\ exec[e].sh = "alive"
    /\ Put(e, [exec[e] EXCEPT !.sh = "exited"])

(* Somebody else's signal: `kill $$`, the host's OOM killer, an operator.  *)
ShellSignalled(e) ==
    /\ exec[e].sh = "alive"
    /\ Put(e, [exec[e] EXCEPT !.sh = "signalled"])

(* The kernel stops; commands in their own groups are not part of it.      *)
Halt == up /\ up' = FALSE /\ UNCHANGED exec

Next ==
    \/ \E e \in Execs :
         \/ \E catastrophic \in BOOLEAN :
               \/ Refuse(e, catastrophic)
               \/ Spawn(e, catastrophic)
               \/ SpawnFails(e, catastrophic)
         \/ OnError(e) \/ OnClose(e) \/ OnTimeout(e)
         \/ Forks(e) \/ Detaches(e) \/ KidEnds(e) \/ StrayEnds(e) \/ ShellExits(e)
         \/ ShellSignalled(e)
    \/ Halt

Spec == Init /\ [][Next]_vars

----------------------------------------------------------------------------
(* Properties                                                              *)

(***************************************************************************)
(* The answer tells what happened: 126 only for a command that never ran,  *)
(* 127 exactly for a failed spawn although its 'close' still follows, 124  *)
(* only when the timeout fired, sh's own code only when sh ended by itself *)
(* - and all of it: when it is given, no process of the command still has  *)
(* the pipes open.  The one untruth: a sh that some other signal ended has *)
(* no exit code and is answered with 0 ("null" here), like a success.      *)
(***************************************************************************)
AnswerIsTrue ==
    \A e \in Execs : LET x == exec[e] IN
        /\ x.code = "126" => x.sh = "none"
        /\ x.code = "127" => x.sh = "failed"
        /\ x.code = "124" => x.killed
        /\ x.code = "own" => x.sh = "exited" /\ ~x.killed
        /\ x.code = "null" => x.sh = "signalled" /\ ~x.killed
        /\ ~x.held

(***************************************************************************)
(* While the kernel runs, a call is answered even when the command and its *)
(* children never end, because the timeout kills the whole group; only a   *)
(* descendant that left the group and keeps the pipes open can prevent it. *)
(***************************************************************************)
CallIsAnswered ==
    \A e \in Execs : exec[e].sh # "none" ~>
        ~up \/ exec[e].code # "none" \/ exec[e].strays > 0
=============================================================================
