-------------------------- MODULE MemoryStoreProofs --------------------------
(***************************************************************************)
(* The memory file implements the abstract store for clients that wait for *)
(* each answer: proved for every set of calls, keys and values and every   *)
(* number of kernel stops and failed saves.                                *)
(***************************************************************************)
EXTENDS MemoryStore, FiniteSetTheorems, TLAPS

Change(c) == [durable EXCEPT ![op[c].key] = op[c].val]

(* At most one call is on its way.  The file holds the durable map, except *)
(* between the opening and the write of a save, when it is empty; the map  *)
(* a save is about to write is the durable one with its own change.        *)
Alone == /\ IsFiniteSet(InFlight)
         /\ \A c, d \in InFlight : c = d

FileInv ==
    /\ (\A c \in Calls : pc[c] # "writing") => load(file) = durable
    /\ \A c \in Calls : pc[c] = "writing" => file = Empty
    /\ \A c \in Calls : pc[c] \in {"opening", "writing"} =>
          op[c].kind # "get" /\ data[c] = Change(c)

StoreInv == TypeOK /\ Alone /\ FileInv

----------------------------------------------------------------------------
(* Facts about the types.                                                  *)

(* What is loaded from any file is a map.                                  *)
LEMMA LoadType == ASSUME NEW f \in Files PROVE load(f) \in Maps
BY DEF Files, load, Maps, NoMap

(* A changed map is a map.                                                 *)
LEMMA ChangeType ==
  ASSUME NEW m \in Maps, NEW o \in Ops
  PROVE  [m EXCEPT ![o.key] = o.val] \in Maps
BY DEF Maps, Ops

(* The operations have one of three kinds.                                 *)
LEMMA OpKinds ==
  ASSUME NEW o \in Ops, o.kind # "get"
  PROVE  o.kind \in {"set", "delete"}
BY DEF Ops

(* The files a save may leave are files.                                   *)
LEMMA FileTypes == /\ Empty \in Files /\ Torn \in Files
                   /\ \A m \in Maps : Json(m) \in Files /\ load(Json(m)) = m
                   /\ load(Empty) = NoMap /\ load(Torn) = NoMap /\ NoMap \in Maps
BY DEF Empty, Torn, Json, Files, load, Maps, NoMap

(* A call is in flight in three of its stages.                             *)
LEMMA InFlightDef ==
  ASSUME NEW c
  PROVE  c \in InFlight <=> c \in Calls /\ pc[c] \in {"loading", "opening", "writing"}
BY DEF InFlight

----------------------------------------------------------------------------
(* The invariant.                                                          *)

(* The store starts with no call under way and no file.                    *)
LEMMA InitStoreInv == Init => StoreInv
<1> SUFFICES ASSUME Init PROVE StoreInv
  OBVIOUS
<1>1. TypeOK
  <2>1. file \in Files /\ durable \in Maps /\ NoMap \in Maps
    BY FileTypes DEF Init
  <2>2. crashes \in 0 .. MaxCrashes
    BY BoundsAssumption DEF Init
  <2> QED BY <2>1, <2>2 DEF Init, TypeOK
<1>2. InFlight = {}
  BY DEF Init, InFlight
<1>3. Alone
  BY <1>2, FS_EmptySet DEF Alone
<1>4. FileInv
  BY FileTypes DEF Init, FileInv
<1> QED BY <1>1, <1>3, <1>4 DEF StoreInv

(* A step that leaves no new call under way leaves at most the one.        *)
LEMMA AloneKept ==
  ASSUME Alone, InFlight' \subseteq InFlight
  PROVE  Alone'
BY FS_Subset DEF Alone

(* A client that waits begins a call only when none is under way.          *)
LEMMA BeginAlone ==
  ASSUME StoreInv, MaxInFlight <= 1, NEW c \in Calls, Begin(c)
  PROVE  InFlight = {} /\ InFlight' = {c}
<1>1. InFlight = {}
  <2>1. Cardinality(InFlight) \in Nat
    BY FS_CardinalityType DEF StoreInv, Alone
  <2>2. Cardinality(InFlight) = 0
    BY <2>1, BoundsAssumption DEF Begin
  <2> QED BY <2>2, FS_EmptySet DEF StoreInv, Alone
<1>2. ASSUME NEW d \in Calls PROVE d \in InFlight' <=> d = c
  BY <1>1 DEF InFlight, Begin, Goto, StoreInv, TypeOK
<1> QED BY <1>1, <1>2 DEF InFlight

(* Each step keeps the invariant.                                          *)
LEMMA NextStoreInv == StoreInv /\ MaxInFlight <= 1 /\ [Next]_vars => StoreInv'
<1> SUFFICES ASSUME StoreInv, MaxInFlight <= 1, [Next]_vars PROVE StoreInv'
  OBVIOUS
<1>t. TypeOK /\ Alone /\ FileInv
  BY DEF StoreInv
<1>1. ASSUME NEW c \in Calls, Begin(c) PROVE StoreInv'
  <2>1. TypeOK'
    BY <1>1, <1>t DEF Begin, Goto, TypeOK
  <2>2. InFlight = {} /\ InFlight' = {c}
    BY <1>1, BeginAlone
  <2>3. Alone'
    BY <2>2, FS_Singleton DEF Alone
  <2>4. \A d \in Calls : pc'[d] \notin {"opening", "writing"} /\ pc[d] # "writing"
    BY <1>1, <1>t, <2>2 DEF Begin, Goto, TypeOK, InFlight
  <2>5. FileInv'
    BY <1>1, <1>t, <2>4 DEF Begin, FileInv
  <2> QED BY <2>1, <2>3, <2>5 DEF StoreInv
<1>2. ASSUME NEW c \in Calls, Get(c) PROVE StoreInv'
  <2>0. load(file)[op[c].key] \in Values \cup {Nil}
    <3>1. load(file) \in Maps /\ op[c] \in Ops
      BY <1>t, LoadType DEF TypeOK
    <3> QED BY <3>1 DEF Maps, Ops
  <2>1. TypeOK'
    BY <1>2, <1>t, <2>0 DEF Get, Goto, TypeOK
  <2>3. Alone'
    <3>1. InFlight' \subseteq InFlight
      BY <1>2, <1>t DEF InFlight, Get, Goto, TypeOK
    <3> QED BY <1>t, <3>1, AloneKept
  <2>4. \A d \in Calls : pc'[d] \in {"opening", "writing"} <=> pc[d] \in {"opening", "writing"}
    BY <1>2, <1>t DEF Get, Goto, TypeOK
  <2>5. \A d \in Calls : pc'[d] = "writing" <=> pc[d] = "writing"
    BY <1>2, <1>t DEF Get, Goto, TypeOK
  <2>6. FileInv'
    BY <1>2, <1>t, <2>4, <2>5 DEF Get, FileInv, Change
  <2> QED BY <2>1, <2>3, <2>6 DEF StoreInv
<1>3. ASSUME NEW c \in Calls, Load(c) PROVE StoreInv'
  <2>0. load(file) \in Maps /\ op[c] \in Ops
    BY <1>t, LoadType DEF TypeOK
  <2>1. TypeOK'
    <3>1. changed(op[c], file) \in Maps
      BY <2>0, ChangeType DEF changed
    <3> QED BY <1>3, <1>t, <3>1 DEF Load, Goto, TypeOK
  <2>3. Alone'
    <3>1. InFlight' \subseteq InFlight
      BY <1>3, <1>t DEF InFlight, Load, Goto, TypeOK
    <3> QED BY <1>t, <3>1, AloneKept
  <2>4. \A d \in Calls : pc[d] \in {"opening", "writing"} => FALSE
    <3>1. c \in InFlight /\ pc[c] = "loading"
      BY <1>3 DEF InFlight, Load
    <3> QED BY <3>1, <1>t DEF Alone, InFlight
  <2>5. \A d \in Calls : pc'[d] # "writing" /\ (pc'[d] = "opening" => d = c)
    BY <1>3, <1>t, <2>4 DEF Load, Goto, TypeOK
  <2>6. load(file) = durable
    BY <1>t, <2>4 DEF FileInv
  <2>7. data'[c] = Change(c)' /\ op'[c].kind # "get"
    BY <1>3, <1>t, <2>6 DEF Load, changed, Change, TypeOK
  <2>8. FileInv'
    BY <1>3, <2>5, <2>6, <2>7 DEF Load, FileInv
  <2> QED BY <2>1, <2>3, <2>8 DEF StoreInv
<1>4. ASSUME NEW c \in Calls, Open(c) PROVE StoreInv'
  <2>1. TypeOK'
    BY <1>4, <1>t, FileTypes DEF Open, Goto, TypeOK
  <2>3. Alone'
    <3>1. InFlight' \subseteq InFlight
      BY <1>4, <1>t DEF InFlight, Open, Goto, TypeOK
    <3> QED BY <1>t, <3>1, AloneKept
  <2>4. \A d \in Calls : pc'[d] \in {"opening", "writing"} <=> pc[d] \in {"opening", "writing"}
    BY <1>4, <1>t DEF Open, Goto, TypeOK
  <2>5. pc'[c] = "writing" /\ file' = Empty
    BY <1>4, <1>t DEF Open, Goto, TypeOK
  <2>6. FileInv'
    BY <1>4, <1>t, <2>4, <2>5 DEF Open, FileInv, Change
  <2> QED BY <2>1, <2>3, <2>6 DEF StoreInv
<1>5. ASSUME NEW c \in Calls, Write(c) PROVE StoreInv'
  <2>0. file = Empty /\ data[c] \in Maps
    BY <1>5, <1>t DEF Write, FileInv, TypeOK
  <2>1. file' = Json(data[c]) /\ load(file') = data[c] /\ file' \in Files
    BY <1>5, <2>0, FileTypes DEF Write, Overlay
  <2>2. TypeOK'
    BY <1>5, <1>t, <2>0, <2>1 DEF Write, Goto, TypeOK
  <2>3. Alone'
    <3>1. InFlight' \subseteq InFlight
      BY <1>5, <1>t DEF InFlight, Write, Goto, TypeOK
    <3> QED BY <1>t, <3>1, AloneKept
  <2>4. \A d \in Calls : pc'[d] \notin {"opening", "writing"}
    <3>1. \A d \in Calls : d # c => pc[d] \notin {"opening", "writing"}
      <4>1. c \in InFlight
        BY <1>5 DEF InFlight, Write
      <4> QED BY <4>1, <1>t DEF Alone, InFlight
    <3> QED BY <1>5, <1>t, <3>1 DEF Write, Goto, TypeOK
  <2>5. FileInv'
    BY <1>5, <2>1, <2>4 DEF Write, FileInv
  <2> QED BY <2>2, <2>3, <2>5 DEF StoreInv
<1>6. ASSUME Crash PROVE StoreInv'
  <2>1. file' \in Files
    BY <1>6, <1>t, FileTypes DEF Crash, TypeOK
  <2>2. durable' = load(file') /\ durable' \in Maps
    BY <1>6, <2>1, LoadType DEF Crash
  <2>3. crashes' \in 0 .. MaxCrashes
    BY <1>6, <1>t, BoundsAssumption DEF Crash, TypeOK
  <2>4. TypeOK'
    BY <1>6, <1>t, <2>1, <2>2, <2>3 DEF Crash, TypeOK
  <2>5. \A d \in Calls : pc'[d] \notin {"loading", "opening", "writing"}
    BY <1>6 DEF Crash, InFlight
  <2>6. InFlight' \subseteq InFlight
    BY <2>5 DEF InFlight
  <2>7. Alone'
    BY <1>t, <2>6, AloneKept
  <2>8. FileInv'
    BY <2>2, <2>5 DEF FileInv
  <2> QED BY <2>4, <2>7, <2>8 DEF StoreInv
<1>8. ASSUME NEW c \in Calls, SaveFails(c) PROVE StoreInv'
  <2>1. file' \in Files /\ durable' \in Maps
    BY <1>8, <1>t, FileTypes, LoadType DEF SaveFails, TypeOK
  <2>2. crashes' \in 0 .. MaxCrashes
    BY <1>8, <1>t, BoundsAssumption DEF SaveFails, TypeOK
  <2>3. TypeOK'
    BY <1>8, <1>t, <2>1, <2>2 DEF SaveFails, Goto, TypeOK
  <2>4. Alone'
    <3>1. InFlight' \subseteq InFlight
      BY <1>8, <1>t DEF InFlight, SaveFails, Goto, TypeOK
    <3> QED BY <1>t, <3>1, AloneKept
  <2>5. /\ \A d \in Calls : pc'[d] \notin {"opening", "writing"}
        /\ \A d \in Calls : d # c => pc[d] \notin {"opening", "writing"}
    <3>1. \A d \in Calls : d # c => pc[d] \notin {"opening", "writing"}
      <4>1. c \in InFlight
        BY <1>8 DEF InFlight, SaveFails
      <4> QED BY <4>1, <1>t DEF Alone, InFlight
    <3> QED BY <1>8, <1>t, <3>1 DEF SaveFails, Goto, TypeOK
  <2>6. load(file') = durable'
    <3>1. CASE pc[c] = "writing"
      BY <1>8, <3>1 DEF SaveFails
    <3>2. CASE pc[c] # "writing"
      BY <1>8, <1>t, <2>5, <3>2 DEF SaveFails, FileInv
    <3> QED BY <3>1, <3>2
  <2>7. FileInv'
    BY <2>5, <2>6 DEF FileInv
  <2> QED BY <2>3, <2>4, <2>7 DEF StoreInv
<1>7. ASSUME UNCHANGED vars PROVE StoreInv'
  BY <1>7, <1>t DEF vars, StoreInv, TypeOK, Alone, InFlight, FileInv, Change
<1> QED BY <1>1, <1>2, <1>3, <1>4, <1>5, <1>6, <1>7, <1>8 DEF Next

----------------------------------------------------------------------------
(* The refinement.                                                         *)

(* The calls that have been answered, as the abstract store sees them.     *)
Done == {c \in Calls : pc[c] = "done"}

(* Each step is a step of the abstract store or leaves it alone: a get is  *)
(* answered where it loads, a set or delete takes effect where it writes,  *)
(* and a stop or a failure loses the map only if it cut a save short.      *)
LEMMA NextStore ==
  StoreInv /\ MaxInFlight <= 1 /\ [Next]_vars => [Store!KNext]_(Store!kvars)
<1> SUFFICES ASSUME StoreInv, MaxInFlight <= 1, [Next]_vars
             PROVE  [Store!KNext]_(Store!kvars)
  OBVIOUS
<1> DEFINE Same == /\ durable' = durable /\ op' = op /\ answer' = answer
                   /\ Done' = Done
<1>t. TypeOK /\ Alone /\ FileInv
  BY DEF StoreInv
<1>s. Same => [Store!KNext]_(Store!kvars)
  BY DEF Store!kvars, Done
<1>1. ASSUME NEW c \in Calls, Begin(c) \/ Load(c) \/ Open(c) PROVE Same
  <2>1. \A d \in Calls : pc'[d] = "done" <=> pc[d] = "done"
    BY <1>1, <1>t DEF Begin, Load, Open, Goto, TypeOK
  <2> QED BY <1>1, <2>1 DEF Begin, Load, Open, Done
<1>2. ASSUME NEW c \in Calls, Get(c) \/ Write(c)
      PROVE c \in Calls \ Done /\ Done' = Done \cup {c} /\ op' = op
  <2>1. pc[c] # "done" /\ \A d \in Calls : pc'[d] = "done" <=> (pc[d] = "done" \/ d = c)
    BY <1>2, <1>t DEF Get, Write, Goto, TypeOK
  <2> QED BY <1>2, <2>1 DEF Get, Write, Done
<1>3. ASSUME NEW c \in Calls, Get(c) PROVE Store!KGet(c)
  <2>1. load(file) = durable
    <3>1. c \in InFlight /\ pc[c] = "loading"
      BY <1>3 DEF InFlight, Get
    <3>2. \A d \in Calls : pc[d] # "writing"
      BY <3>1, <1>t DEF Alone, InFlight
    <3> QED BY <3>2, <1>t DEF FileInv
  <2> QED BY <1>3, <2>1 DEF Get, Store!KGet
<1>4. ASSUME NEW c \in Calls, Write(c) PROVE Store!KStore(c)
  <2>1. data[c] = Change(c) /\ op[c].kind # "get" /\ op[c] \in Ops
    BY <1>4, <1>t DEF Write, FileInv, TypeOK
  <2>2. op[c].kind \in {"set", "delete"}
    BY <2>1, OpKinds
  <2> QED BY <1>4, <2>1, <2>2 DEF Write, Change, Store!KStore
<1>5. ASSUME Crash PROVE [Store!KNext]_(Store!kvars)
  <2>1. \A d \in Calls : pc'[d] = "done" <=> pc[d] = "done"
    BY <1>5 DEF Crash, InFlight
  <2>2. Done' = Done /\ op' = op /\ answer' = answer
    BY <1>5, <2>1 DEF Crash, Done
  <2>3. CASE \A d \in Calls : pc[d] # "writing"
    <3>1. durable' = durable
      BY <1>5, <1>t, <2>3 DEF Crash, FileInv
    <3> QED BY <3>1, <2>2, <1>s
  <2>4. ASSUME NEW d \in Calls, pc[d] = "writing" PROVE [Store!KNext]_(Store!kvars)
    <3>1. file = Empty /\ op[d].kind # "get" /\ d \notin Done
      BY <2>4, <1>t DEF FileInv, Done
    <3>2. durable' = NoMap
      BY <1>5, <3>1, FileTypes DEF Crash
    <3>3. Store!KLose
      BY <2>2, <3>1, <3>2 DEF Store!KLose, Done, NoMap
    <3> QED BY <3>3 DEF Store!KNext
  <2> QED BY <2>3, <2>4
<1>8. ASSUME NEW c \in Calls, SaveFails(c) PROVE [Store!KNext]_(Store!kvars)
  <2>1. \A d \in Calls : pc'[d] = "done" <=> pc[d] = "done"
    BY <1>8, <1>t DEF SaveFails, Goto, TypeOK
  <2>2. Done' = Done /\ op' = op /\ answer' = answer
    BY <1>8, <2>1 DEF SaveFails, Done
  <2>3. CASE pc[c] = "opening"
    BY <1>8, <1>s, <2>2, <2>3 DEF SaveFails
  <2>4. CASE pc[c] = "writing"
    <3>1. file = Empty /\ op[c].kind # "get" /\ c \notin Done
      BY <2>4, <1>t DEF FileInv, Done
    <3>2. durable' = NoMap
      BY <1>8, <2>4, <3>1, FileTypes DEF SaveFails
    <3>3. Store!KLose
      BY <2>2, <3>1, <3>2 DEF Store!KLose, Done, NoMap
    <3> QED BY <3>3 DEF Store!KNext
  <2> QED BY <1>8, <2>3, <2>4 DEF SaveFails
<1>6. ASSUME UNCHANGED vars PROVE Same
  BY <1>6 DEF vars, Done
<1>7. ASSUME NEW c \in Calls, Get(c) \/ Write(c) PROVE Store!KNext
  <2>1. c \in Calls \ Done /\ Done' = Done \cup {c} /\ op' = op
    BY <1>7, <1>2
  <2>2. Store!KStore(c) \/ Store!KGet(c)
    BY <1>7, <1>3, <1>4
  <2> QED BY <2>1, <2>2 DEF Store!KNext, Done
<1> HIDE DEF Same
<1> QED BY <1>s, <1>1, <1>5, <1>6, <1>7, <1>8 DEF Next

(* For clients that wait for each answer, memory.set, memory.get and       *)
(* memory.delete behave as one map changed in one step each, and a kernel  *)
(* that stops or a save that fails leaves the whole map or an empty one.   *)
THEOREM StoreCorrect == ASSUME MaxInFlight <= 1 PROVE Spec => ImplementsStore
<1>1. Init => StoreInv /\ Store!KInit
  <2>1. Init => Store!KInit
    BY DEF Init, Store!KInit, NoMap
  <2> QED BY <2>1, InitStoreInv
<1>2. StoreInv /\ [Next]_vars => StoreInv'
  BY NextStoreInv
<1>3. StoreInv /\ [Next]_vars => [Store!KNext]_(Store!kvars)
  BY NextStore
<1> QED BY <1>1, <1>2, <1>3, PTL DEF Spec, ImplementsStore, Store!KSpec
=============================================================================
