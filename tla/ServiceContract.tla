-------------------------- MODULE ServiceContract --------------------------
(***************************************************************************)
(* What the svc.* capabilities promise about each service NAME, with no    *)
(* processes, timers or entry objects in sight: the status svc.status      *)
(* reports and what the operator last had accepted.  A removed service     *)
(* leaves nothing behind that can touch a later service of the same name.  *)
(***************************************************************************)
EXTENDS Naturals

CONSTANTS Names, Policies

VARIABLES
    st,    \* per name: absent, or the status svc.status reports
    want,  \* per name: the accepted wish (running, stopped)
    pol    \* per name: its restart policy

cvars == <<st, want, pol>>

CInit == /\ st = [n \in Names |-> "absent"]
         /\ want = [n \in Names |-> "stopped"]
         /\ pol = [n \in Names |-> "no"]

Become(n, s, w, p) == /\ st' = [st EXCEPT ![n] = s]
                      /\ want' = [want EXCEPT ![n] = w]
                      /\ pol' = [pol EXCEPT ![n] = p]

CDefine(n) == /\ st[n] = "absent"
              /\ \E p \in Policies : \/ Become(n, "stopped", "stopped", p)
                                     \/ Become(n, "running", "running", p)

CStart(n) == st[n] \in {"stopped", "failed"} /\ Become(n, "running", "running", pol[n])

(* A running service goes down only when its process reports its exit.     *)
CStop(n) == /\ st[n] # "absent"
            /\ Become(n, IF st[n] = "running" THEN "running" ELSE "stopped",
                      "stopped", pol[n])

(* A wanted service whose policy calls for it is restarted or given up on; *)
(* any other one stays down.                                               *)
CExit(n) == /\ st[n] = "running"
            /\ \/ /\ want[n] = "stopped" \/ pol[n] # "always"
                  /\ Become(n, "stopped", want[n], pol[n])
               \/ /\ want[n] = "running" /\ pol[n] # "no"
                  /\ \E s \in {"restarting", "failed"} : Become(n, s, want[n], pol[n])

CRelaunch(n) == /\ st[n] = "restarting" /\ want[n] = "running"
                /\ Become(n, "running", "running", pol[n])

CRemove(n) == st[n] # "absent" /\ Become(n, "absent", "stopped", "no")

(* The kernel shuts down: nothing is wanted any more.                      *)
CHalt == want' = [n \in Names |-> "stopped"] /\ UNCHANGED <<st, pol>>

CNext == \/ \E n \in Names : \/ CDefine(n) \/ CStart(n) \/ CStop(n)
                            \/ CExit(n) \/ CRelaunch(n) \/ CRemove(n)
         \/ CHalt

CSpec == CInit /\ [][CNext]_cvars
=============================================================================
