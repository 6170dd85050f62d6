------------------------------ MODULE KVStore ------------------------------
(***************************************************************************)
(* What memory.set, memory.get and memory.delete promise: one map, each    *)
(* call applied to it once and in one step, each answer taken from it; a   *)
(* crash of the kernel or a failed save leaves the whole map or an empty   *)
(* one.                                                                    *)
(***************************************************************************)
CONSTANTS Calls, Keys,
          Nil          \* stands for a key that is not present

VARIABLES mem,   \* the map
          op,    \* the operation each call asks for
          done,  \* the calls that have taken effect and been answered
          answer \* what each get was told

kvars == <<mem, op, done, answer>>

KInit == /\ mem = [k \in Keys |-> Nil]
         /\ done = {}

(* A set or a delete; the value of a delete is Nil.                        *)
KStore(c) == /\ op[c].kind \in {"set", "delete"}
             /\ mem' = [mem EXCEPT ![op[c].key] = op[c].val]
             /\ UNCHANGED answer

KGet(c) == /\ op[c].kind = "get"
           /\ answer' = [answer EXCEPT ![c] = mem[op[c].key]]
           /\ UNCHANGED mem

(* A set or delete that is cut short may lose the map, but then all of it. *)
KLose == /\ \E c \in Calls \ done : op[c].kind # "get"
         /\ mem' = [k \in Keys |-> Nil]
         /\ UNCHANGED <<op, done, answer>>

KNext ==
    \/ \E c \in Calls \ done : /\ KStore(c) \/ KGet(c)
                              /\ done' = done \cup {c}
                              /\ UNCHANGED op
    \/ KLose

KSpec == KInit /\ [][KNext]_kvars
=============================================================================
