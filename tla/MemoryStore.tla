---------------------------- MODULE MemoryStore ----------------------------
(***************************************************************************)
(* The agent's long-term memory (capabilities/memory.ts): one JSON file,   *)
(* loaded in full, changed in memory and written back in full by every     *)
(* set and delete.  Each `await` is a step: the read of the file, then     *)
(* (after mkdir) the opening of the file, which truncates it, then the     *)
(* write.  Handlers of different calls interleave at these steps, and the  *)
(* kernel may stop between any two of them.                                *)
(***************************************************************************)
EXTENDS Naturals, FiniteSets

CONSTANTS Calls,       \* memory calls made during the run
          Keys, Values,
          MaxInFlight, \* how many calls clients let overlap
          MaxCrashes   \* bound: kernel stops and failed saves followed

ASSUME BoundsAssumption == MaxInFlight \in Nat /\ MaxCrashes \in Nat

Nil   == "nil"    \* the key is not in the map
Maps  == [Keys -> Values \cup {Nil}]
NoMap == [k \in Keys |-> Nil]

(* The text of the file: none (absent, or truncated and not yet written),  *)
(* torn (not JSON any more), or the JSON of a map.                         *)
Files == [text : {"none", "torn"}, map : {NoMap}] \cup [text : {"json"}, map : Maps]
Empty == [text |-> "none", map |-> NoMap]
Torn  == [text |-> "torn", map |-> NoMap]
Json(m) == [text |-> "json", map |-> m]

Ops == [kind : {"set"}, key : Keys, val : Values]
       \cup [kind : {"delete", "get"}, key : Keys, val : {Nil}]

VARIABLES
    file,    \* the content of memory.json
    pc,      \* idle, loading, opening, writing, done; dead after a crash
             \* or a failed save
    op,      \* the operation of each call
    data,    \* the map a call holds in memory
    answer,  \* what a get was told
    crashes,
    durable  \* ghost: the map written last, or what a crash left of it

vars == <<file, pc, op, data, answer, crashes, durable>>

NoAnswer == "noanswer"

TypeOK ==
    /\ file \in Files
    /\ pc \in [Calls -> {"idle", "loading", "opening", "writing", "done", "dead"}]
    /\ op \in [Calls -> Ops]
    /\ data \in [Calls -> Maps]
    /\ answer \in [Calls -> Values \cup {Nil, NoAnswer}]
    /\ crashes \in 0 .. MaxCrashes
    /\ durable \in Maps

----------------------------------------------------------------------------
InFlight == {c \in Calls : pc[c] \in {"loading", "opening", "writing"}}

(* Keys and values have equal length: a map's text grows with its keys.    *)
Size(m) == Cardinality({k \in Keys : m[k] # Nil})

(* load(): anything that is not a map counts as the empty map.  (A read    *)
(* error on an intact file, which load() takes for one too, is left out.)  *)
load(f) == IF f.text = "json" THEN f.map ELSE NoMap

(* A write starts at the beginning of the file.  What was opened twice is  *)
(* overlaid: a shorter text leaves the tail of the longer one behind.      *)
Overlay(old, new) ==
    IF old = Empty THEN {Json(new)}
    ELSE IF old = Torn THEN {Json(new), Torn}
    ELSE IF Size(new) >= Size(old.map) THEN {Json(new)} ELSE {Torn}

Init ==
    /\ file = Empty /\ durable = NoMap /\ crashes = 0
    /\ pc = [c \in Calls |-> "idle"]
    /\ op \in [Calls -> Ops]
    /\ data = [c \in Calls |-> NoMap]
    /\ answer = [c \in Calls |-> NoAnswer]

Goto(c, stage) == pc' = [pc EXCEPT ![c] = stage]

Begin(c) ==
    /\ pc[c] = "idle" /\ Cardinality(InFlight) < MaxInFlight
    /\ Goto(c, "loading")
    /\ UNCHANGED <<file, op, data, answer, crashes, durable>>

(* Mutant: the change starts from what this call last saw, not the file.   *)
changedBlank(o, f) == [NoMap EXCEPT ![o.key] = o.val]

(* The map after the operation; val is Nil for a delete.                   *)
changed(o, f) == [load(f) EXCEPT ![o.key] = o.val]

(* memory.get (and memory.list, with every key for one): load and answer.  *)
Get(c) ==
    /\ pc[c] = "loading" /\ op[c].kind = "get"
    /\ answer' = [answer EXCEPT ![c] = load(file)[op[c].key]]
    /\ Goto(c, "done")
    /\ UNCHANGED <<file, op, data, crashes, durable>>

(* memory.set and memory.delete: load, then change the loaded map.         *)
Load(c) ==
    /\ pc[c] = "loading" /\ op[c].kind # "get"
    /\ data' = [data EXCEPT ![c] = changed(op[c], file)]
    /\ Goto(c, "opening")
    /\ UNCHANGED <<file, op, answer, crashes, durable>>

(* save(): writeFile opens the file for writing, which empties it ...      *)
Open(c) ==
    /\ pc[c] = "opening"
    /\ file' = Empty
    /\ Goto(c, "writing")
    /\ UNCHANGED <<op, data, answer, crashes, durable>>

(* ... and writes the whole text; then the call is answered.               *)
Write(c) ==
    /\ pc[c] = "writing"
    /\ file' \in Overlay(file, data[c])
    /\ durable' = data[c]
    /\ Goto(c, "done")
    /\ UNCHANGED <<op, data, answer, crashes>>

(* mkdir, the opening or the write fails (a full disk, say): the call is   *)
(* answered with the error, and what a write has truncated stays so.       *)
SaveFails(c) ==
    /\ crashes < MaxCrashes /\ pc[c] \in {"opening", "writing"}
    /\ crashes' = crashes + 1
    /\ IF pc[c] = "writing" THEN file' \in {file, Torn} /\ durable' = load(file')
       ELSE UNCHANGED <<file, durable>>
    /\ Goto(c, "dead")
    /\ UNCHANGED <<op, data, answer>>

(* The kernel stops; a write under way may have got part of its text out.  *)
Crash ==
    /\ crashes < MaxCrashes
    /\ crashes' = crashes + 1
    /\ file' \in {file} \cup (IF \E c \in Calls : pc[c] = "writing" THEN {Torn} ELSE {})
    /\ durable' = load(file')
    /\ pc' = [c \in Calls |-> IF c \in InFlight THEN "dead" ELSE pc[c]]
    /\ UNCHANGED <<op, data, answer>>

Next ==
    \/ \E c \in Calls : Begin(c) \/ Get(c) \/ Load(c) \/ Open(c) \/ Write(c)
                          \/ SaveFails(c)
    \/ Crash

Spec == Init /\ [][Next]_vars

----------------------------------------------------------------------------
(* Properties                                                              *)

Store == INSTANCE KVStore WITH
    mem <- durable, done <- {c \in Calls : pc[c] = "done"}

(***************************************************************************)
(* For clients that wait for each answer, the load-change-save cycle       *)
(* implements an atomic map: every save changes one key, every answer is   *)
(* the current value, and a kernel that stops or a save that fails leaves  *)
(* the last complete save or, cut short, an empty store, never a mixture.  *)
(***************************************************************************)
ImplementsStore == Store!KSpec

OnlyCallOnKey(c) ==
    \A d \in Calls \ {c} : op[d].key = op[c].key => pc[d] = "idle" \/ op[d].kind = "get"

(***************************************************************************)
(* memory.ts: "Persistent key/value store", memory.set: "Persist a value   *)
(* under a key".  Here: whenever no call is in flight, the value of an     *)
(* answered set is in the store if no other call ever touched its key.     *)
(* Overlapping calls lose it (both load before either saves) and so does a *)
(* kernel that stops while another key is being saved.                     *)
(***************************************************************************)
AnsweredSetIsStored ==
    InFlight = {} => \A c \in Calls :
        pc[c] = "done" /\ op[c].kind = "set" /\ OnlyCallOnKey(c) =>
            load(file)[op[c].key] = op[c].val
=============================================================================
