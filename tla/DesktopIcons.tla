---------------------------- MODULE DesktopIcons ----------------------------
(***************************************************************************)
(* The icons of the /os desktop (initDesktopIcons of ui/static/os.js): the *)
(* files of the rootfs folder /Desktop, at places the page keeps in        *)
(* `layout` and stores under the key desktop.layout (memory.set).  Every   *)
(* menu entry is a chain of requests, each sent when the one before is     *)
(* answered; chains overlap as the user clicks on, requests may be refused *)
(* and answers lost, and the page may be reloaded at any time.  The file   *)
(* behind memory.get and set is everybody's: another client that stores    *)
(* something else reads all of it and writes all of it back.               *)
(***************************************************************************)
EXTENDS Integers, Sequences, FiniteSets

CONSTANTS Names,    \* names of files in /Desktop
          Seeds,    \* the files a first render writes, in order
          Far,      \* a place icons are dragged to
          NoChain,  \* no chain in a slot
          IconsOut, \* bound: chains under way at a time
          MaxOps    \* bound: things the user and other clients do

Slots == 1 .. IconsOut
Places == 0 .. Cardinality(Names) \cup {Far}   \* 0: no place

VARIABLES
    folder,  \* names in /Desktop
    mem,     \* the value of desktop.layout: [pos, seeded]
    other,   \* what another client's memory.set, which has read the file, may
             \* leave of it; empty when there is none under way
    layout,  \* the page's layout
    icons,   \* the layer: the place each name is shown at, 0 for not shown
    ready,   \* the stored layout has been fetched
    chain,   \* per slot: where a chain of requests is
    ops,     \* things done so far
    meant,   \* ghost: where the user last dragged each icon, 0 for nowhere
    seeds,   \* ghost: times the folder was seeded to the end
    crossed, \* ghost: chains overlapped, a request failed, someone else
             \* changed the folder or stored something while the layout was
             \* saved, since a render was asked for alone
    forgot   \* ghost: the stored layout could not be fetched or the user did
             \* not wait for it, the page was reloaded in the middle of
             \* something, or two renders seeded

iconsVars == <<folder, mem, other, layout, icons, ready, chain, ops, meant, seeds, crossed, forgot>>

NoPos == [n \in Names |-> 0]
Empty == [pos |-> NoPos, seeded |-> FALSE]

(* A chain: the request it waits for, the name it is about, what a list    *)
(* answered or a set stores, and what comes after it.                      *)
Chain == [op : {"get", "list", "seed", "relist", "write", "remove", "mv", "set"},
          at : {"sent", "ok", "error"}, name : Names, to : Names,
          items : SUBSET Names, val : [pos : [Names -> Places], seeded : BOOLEAN],
          k : 1 .. Len(Seeds), then : {"end", "render", "gone"}]

ASSUME NamesAssumption == IsFiniteSet(Names) /\ Seeds \in Seq(Names) /\ Seeds # <<>> /\ Far # 0
ASSUME NoChainAssumption == NoChain \notin Chain
ASSUME IconsBounds == IconsOut \in Nat \ {0} /\ MaxOps \in Nat

IconsTypeOK ==
    /\ folder \subseteq Names /\ mem \in [pos : [Names -> Places], seeded : BOOLEAN]
    /\ other \subseteq [pos : [Names -> Places], seeded : BOOLEAN]
    /\ layout \in [pos : [Names -> Places], seeded : BOOLEAN]
    /\ icons \in [Names -> Places] /\ ready \in BOOLEAN
    /\ chain \in [Slots -> Chain \cup {NoChain}]
    /\ ops \in 0 .. MaxOps /\ meant \in [Names -> {0, Far}] /\ seeds \in Nat
    /\ crossed \in BOOLEAN /\ forgot \in BOOLEAN

Any == CHOOSE n \in Names : TRUE
Call(op) == [op |-> op, at |-> "sent", name |-> Any, to |-> Any, items |-> {},
             val |-> Empty, k |-> 1, then |-> "end"]
Goes(s, c) == chain' = [chain EXCEPT ![s] = c]
Alone(s) == \A t \in Slots \ {s} : chain[t] = NoChain

(* The page has just been opened: initDesktopIcons sends memory.get.       *)
IconsInit ==
    /\ folder \in SUBSET {Any} /\ mem = Empty /\ other = {}
    /\ layout = Empty /\ icons = NoPos
    /\ ready = FALSE /\ chain = [s \in Slots |-> IF s = 1 THEN Call("get") ELSE NoChain]
    /\ ops = 0 /\ meant = NoPos /\ seeds = 0 /\ crossed = FALSE /\ forgot = FALSE

----------------------------------------------------------------------------
(* The user, who need not wait for the stored layout.                      *)
MayAct(s) ==
    /\ chain[s] = NoChain /\ ops < MaxOps /\ ops' = ops + 1
    /\ forgot' = (forgot \/ ~ready)

(* What overlapping does to the ghost; a chain begun alone that renders    *)
(* puts things right again.                                                *)
Begins(s, renders) == crossed' = (~Alone(s) \/ (crossed /\ ~renders))

(* "Refresh", "New File" and "New Folder", "Delete", "Rename".             *)
Menu(s) ==
    /\ MayAct(s) /\ Begins(s, TRUE)
    /\ \/ Goes(s, Call("list"))
       \/ \E n \in Names : Goes(s, [Call("write") EXCEPT !.name = n])
       \/ \E n \in Names : icons[n] # 0 /\ Goes(s, [Call("remove") EXCEPT !.name = n])
       \/ \E n, m \in Names : /\ icons[n] # 0 /\ m # n
                              /\ Goes(s, [Call("mv") EXCEPT !.name = n, !.to = m])
    /\ UNCHANGED <<folder, mem, other, layout, icons, ready, meant, seeds>>

saveLayout(then) == [Call("set") EXCEPT !.val = layout', !.then = then]

(* Mutant: the icon moves and its place is stored at the next render.      *)
DragUnsaved(s, n) ==
    /\ MayAct(s) /\ icons[n] # 0 /\ Begins(s, FALSE)
    /\ layout' = [layout EXCEPT !.pos[n] = Far] /\ icons' = [icons EXCEPT ![n] = Far]
    /\ meant' = [meant EXCEPT ![n] = Far]
    /\ UNCHANGED <<folder, mem, other, ready, chain, seeds>>

(* An icon is dropped.                                                     *)
Drag(s, n) ==
    /\ MayAct(s) /\ icons[n] # 0 /\ Begins(s, FALSE)
    /\ layout' = [layout EXCEPT !.pos[n] = Far] /\ icons' = [icons EXCEPT ![n] = Far]
    /\ meant' = [meant EXCEPT ![n] = Far]
    /\ Goes(s, saveLayout("end"))
    /\ UNCHANGED <<folder, mem, other, ready, seeds>>

(* The page starts anew; requests that are out may still reach the kernel, *)
(* their answers nobody.                                                   *)
Reload ==
    /\ ops < MaxOps /\ ops' = ops + 1
    /\ \E s \in Slots :
         /\ chain[s] = NoChain
         /\ chain' = [t \in Slots |-> IF t = s THEN Call("get")
                        ELSE IF chain[t] # NoChain /\ chain[t].at = "sent"
                               THEN [chain[t] EXCEPT !.then = "gone"] ELSE NoChain]
    /\ forgot' = (forgot \/ crossed \/ \E s \in Slots : chain[s] # NoChain)
    /\ layout' = Empty /\ icons' = NoPos /\ ready' = FALSE
    /\ crossed' = \E s \in Slots : chain[s] # NoChain /\ chain[s].at = "sent"
    /\ UNCHANGED <<folder, mem, other, meant, seeds>>

(* Another client adds or removes a file.                                  *)
Elsewhere(n) ==
    /\ ops < MaxOps /\ ops' = ops + 1 /\ crossed' = TRUE
    /\ folder' = IF n \in folder THEN folder \ {n} ELSE folder \cup {n}
    /\ UNCHANGED <<mem, other, layout, icons, ready, chain, meant, seeds, forgot>>

Saving == \E s \in Slots : chain[s] # NoChain /\ chain[s].op = "set" /\ chain[s].at = "sent"

(* A file truncated by one save while another call loads or saves it reads *)
(* as an empty one, and two saves at once may leave it so.                 *)
Torn(overlap) == IF overlap THEN {Empty} ELSE {}

(* Another client's memory.set of some other key loads the file ...        *)
OtherLoads ==
    /\ ops < MaxOps /\ ops' = ops + 1 /\ other = {}
    /\ other' = {mem} \cup Torn(Saving)
    /\ UNCHANGED <<folder, mem, layout, icons, ready, chain, meant, seeds, crossed, forgot>>

(* ... and saves it with the layout it found.                              *)
OtherSaves ==
    /\ other # {} /\ other' = {}
    /\ mem' \in other \cup Torn(Saving)
    /\ crossed' = (crossed \/ Saving)
    /\ UNCHANGED <<folder, layout, icons, ready, chain, ops, meant, seeds, forgot>>

----------------------------------------------------------------------------
(* mv, whose failure is only an exit code: a missing name is not moved,    *)
(* and one moved onto a folder or a file may or may not go.                *)
moved(n, m) ==
    IF n \notin folder THEN {folder}
    ELSE {(folder \ {n}) \cup {m}} \cup (IF m \in folder THEN {folder} ELSE {})

(* The kernel: memory.get and set, fs.list, write and remove, and mv.  Its *)
(* answer (at) may be lost, or be an error after the effect.  load() takes *)
(* a file that cannot be read, or that another client is just writing, for *)
(* an empty one, and says nothing of it.  A save that ends after one it    *)
(* overlapped may leave the file torn too: overlapping saves have set      *)
(* crossed, which stands for that here and allows it somewhat more often.  *)
Kernel(s, at) ==
    LET c == chain[s] IN
    /\ c # NoChain /\ c.at = "sent"
    /\ folder' \in CASE c.op = "write" -> {folder \cup {c.name}}
                     [] c.op = "seed" -> {folder \cup {Seeds[c.k]}}
                     [] c.op = "remove" -> {folder \ {c.name}}
                     [] c.op = "mv" -> moved(c.name, c.to)
                     [] OTHER -> {folder}
    /\ IF c.op = "set"
         THEN /\ mem' \in {c.val} \cup Torn(crossed \/ other # {} \/ at = "error")
              /\ other' = other \cup Torn(other # {})
              /\ crossed' = (crossed \/ other # {})
         ELSE UNCHANGED <<mem, other, crossed>>
    /\ \E read \in IF c.op = "get" /\ at = "ok" THEN {mem, Empty} ELSE {c.val} :
         /\ forgot' = (forgot \/ (c.op = "get" /\ at = "ok" /\ read # mem))
         /\ Goes(s, IF c.then = "gone" THEN NoChain
                    ELSE [c EXCEPT !.at = at, !.val = read,
                                   !.items = IF c.op \in {"list", "relist"} /\ at = "ok"
                                               THEN folder ELSE @])
    /\ UNCHANGED <<layout, icons, ready, ops, meant, seeds>>

(* The policy refuses, or the gate cannot be reached.                      *)
Refused(s) ==
    /\ chain[s] # NoChain /\ chain[s].at = "sent"
    /\ Goes(s, IF chain[s].then = "gone" THEN NoChain ELSE [chain[s] EXCEPT !.at = "error"])
    /\ UNCHANGED <<folder, mem, other, layout, icons, ready, ops, meant, seeds, crossed, forgot>>

----------------------------------------------------------------------------
(* The page goes on.                                                       *)
Answered(s, op) == chain[s] # NoChain /\ chain[s].op = op /\ chain[s].at # "sent"
Failed(s) == chain[s].at = "error"

(* Names without a place get those of the grid from its beginning, in the  *)
(* order of the listing.                                                   *)
Placed(items) ==
    LET new == {n \in items : layout.pos[n] = 0}
        rank == CHOOSE f \in [new -> 1 .. Cardinality(new)] :
                    \A a, b \in new : a # b => f[a] # f[b]
    IN  [n \in Names |-> IF n \in new THEN rank[n] ELSE layout.pos[n]]

(* Mutant: the layer is not cleared before the icons are added.            *)
DrawsOver(s, items) ==
    /\ layout' = [layout EXCEPT !.pos = Placed(items)]
    /\ icons' = [n \in Names |-> IF n \in items THEN layout'.pos[n] ELSE icons[n]]
    /\ Goes(s, saveLayout("end"))

(* The end of render(): the layer is redrawn and the layout saved.         *)
Draws(s, items) ==
    /\ layout' = [layout EXCEPT !.pos = Placed(items)]
    /\ icons' = [n \in Names |-> IF n \in items THEN layout'.pos[n] ELSE 0]
    /\ Goes(s, saveLayout("end"))

(* initDesktopIcons: a layout that cannot be fetched counts as none.       *)
gotLayout(s) ==
    /\ Answered(s, "get")
    /\ layout' = chain[s].val
    /\ forgot' = (forgot \/ Failed(s))
    /\ ready' = TRUE /\ Goes(s, Call("list"))
    /\ UNCHANGED <<folder, mem, other, icons, ops, meant, seeds, crossed>>

(* Mutant: an empty desktop is seeded whenever it is drawn.                *)
toSeedAlways(items) == items = {}

toSeed(items) == items = {} /\ ~layout.seeded

(* render() after fs.list; a failed listing counts as an empty one.        *)
gotList(s) ==
    /\ Answered(s, "list")
    /\ crossed' = (crossed \/ Failed(s))
    /\ IF toSeed(chain[s].items)
         THEN Goes(s, Call("seed")) /\ UNCHANGED <<layout, icons>>
         ELSE Draws(s, chain[s].items)
    /\ UNCHANGED <<folder, mem, other, ready, ops, meant, seeds, forgot>>

(* A rejection of anything render() awaits without a catch ends it.        *)
Breaks(s) ==
    /\ \E op \in {"seed", "relist", "write", "remove", "mv"} : Answered(s, op)
    /\ Failed(s)
    /\ Goes(s, NoChain) /\ crossed' = TRUE
    /\ UNCHANGED <<folder, mem, other, layout, icons, ready, ops, meant, seeds, forgot>>

gotSeed(s) ==
    /\ Answered(s, "seed") /\ ~Failed(s)
    /\ IF chain[s].k < Len(Seeds)
         THEN /\ Goes(s, [Call("seed") EXCEPT !.k = chain[s].k + 1])
              /\ UNCHANGED <<layout, seeds, forgot>>
         ELSE /\ Goes(s, Call("relist"))
              /\ layout' = [layout EXCEPT !.seeded = TRUE]
              /\ seeds' = seeds + 1 /\ forgot' = (forgot \/ ~Alone(s))
    /\ UNCHANGED <<folder, mem, other, icons, ready, ops, meant, crossed>>

gotRelist(s) ==
    /\ Answered(s, "relist") /\ ~Failed(s)
    /\ Draws(s, chain[s].items)
    /\ UNCHANGED <<folder, mem, other, ready, ops, meant, seeds, crossed, forgot>>

(* "New File": then render.                                                *)
gotWrite(s) ==
    /\ Answered(s, "write") /\ ~Failed(s)
    /\ Goes(s, Call("list"))
    /\ UNCHANGED <<folder, mem, other, layout, icons, ready, ops, meant, seeds, crossed, forgot>>

(* "Delete" and "Rename": forget the place, save, then render.             *)
gotChange(s) ==
    /\ Answered(s, "remove") \/ Answered(s, "mv")
    /\ ~Failed(s)
    /\ layout' = [layout EXCEPT !.pos[chain[s].name] = 0]
    /\ meant' = [meant EXCEPT ![chain[s].name] = 0]
    /\ Goes(s, saveLayout("render"))
    /\ UNCHANGED <<folder, mem, other, icons, ready, ops, seeds, crossed, forgot>>

(* saveLayout() swallows its errors.                                       *)
gotSet(s) ==
    /\ Answered(s, "set")
    /\ crossed' = (crossed \/ Failed(s))
    /\ Goes(s, IF chain[s].then = "render" THEN Call("list") ELSE NoChain)
    /\ UNCHANGED <<folder, mem, other, layout, icons, ready, ops, meant, seeds, forgot>>

Page(s) ==
    \/ gotLayout(s) \/ gotList(s) \/ gotSeed(s) \/ gotRelist(s)
    \/ gotWrite(s) \/ gotChange(s) \/ gotSet(s) \/ Breaks(s)

IconsNext ==
    \/ \E s \in Slots : \/ Menu(s) \/ Refused(s) \/ Page(s)
                        \/ \E at \in {"ok", "error"} : Kernel(s, at)
    \/ \E s \in Slots, n \in Names : Drag(s, n)
    \/ Reload
    \/ OtherLoads \/ OtherSaves
    \/ \E n \in Names : Elsewhere(n)

IconsSpec == IconsInit /\ [][IconsNext]_iconsVars

----------------------------------------------------------------------------
AtRest == ready /\ \A s \in Slots : chain[s] = NoChain

(***************************************************************************)
(* At rest the layer shows the folder as it is, each icon where the layout *)
(* has it, and the kernel's memory holds that layout, so that a reload     *)
(* changes nothing.  Only overlapping chains, failed requests or another   *)
(* client can make it otherwise, the latter by a change to the folder or   *)
(* by a memory.set, of any key, that overlaps the saving of the layout;    *)
(* the next render asked for alone puts it right.                          *)
(***************************************************************************)
IconsAreCurrent ==
    AtRest /\ ~crossed =>
        /\ \A n \in Names : icons[n] = IF n \in folder THEN layout.pos[n] ELSE 0
        /\ \A n \in folder : icons[n] # 0
        /\ mem = layout

(***************************************************************************)
(* An icon stays where the user dragged it, over renders, reloads and      *)
(* changes to other icons, until it is deleted or renamed.  What breaks    *)
(* this: a reload that cannot fetch the layout takes it for an empty one,  *)
(* and its first render stores that.  It is not told so when the kernel    *)
(* could not read the file, or read it while another client wrote to it.   *)
(***************************************************************************)
DraggedIconsStay ==
    AtRest /\ ~crossed /\ ~forgot =>
        \A n \in folder : meant[n] # 0 => icons[n] = meant[n] /\ mem.pos[n] = meant[n]

(***************************************************************************)
(* The folder is seeded at most once, however often the user empties it    *)
(* and reloads: the flag in the layout is stored with it and lost with it, *)
(* as above.                                                               *)
(***************************************************************************)
SeededOnce == ~forgot => seeds <= 1
=============================================================================
