------------------------------ MODULE FilesApp ------------------------------
(***************************************************************************)
(* The Files window of the /os desktop (ui/static/os.js) over the kernel's *)
(* fs.* capabilities.  Every button of the window sends a request and goes *)
(* on when its answer arrives; the browser sends the requests on separate  *)
(* connections, the Console serves each in a thread of its own and the     *)
(* kernel runs them concurrently, so answers come back in any order.  A    *)
(* closed window is removed from the page, but its pending callbacks still *)
(* run.  The directory tree is a set of existing paths; names are model    *)
(* values, a path is known by its parent.                                  *)
(***************************************************************************)
EXTENDS Integers, Sequences, FiniteSets

CONSTANTS Dirs, Files,   \* paths that are directories, and files
          Root,          \* "/"
          Parent,        \* parentPath, a function from paths to directories
          Keep,          \* the ".keep" file a new folder is created with
          Others,        \* paths another client of the kernel may remove
          NoEntry,       \* null: no selection, no request
          FilesOut,      \* bound: requests out at a time
          MaxHist,       \* bound: length of the back history
          MaxWins        \* bound: windows opened one after the other

Paths == Dirs \cup Files
Conns == 1 .. FilesOut
Wins == 1 .. MaxWins

ASSUME TreeAssumption ==
  /\ Root \in Dirs /\ Dirs \cap Files = {}
  /\ Parent \in [Paths -> Dirs]
  /\ NoEntry \notin Paths /\ Parent[Root] = Root
  /\ Keep \in [Dirs \ {Root} -> Files]
  /\ \A d \in Dirs \ {Root} : Parent[Keep[d]] = d

VARIABLES disk,     \* the paths that exist
          win,      \* per window: open, cwd, hist, sel and what the grid shows
          cur,      \* singletons["files"]: the window on the page, or 0
          made,     \* windows made so far
          sent,     \* per connection: the request out, or NoEntry
          overlap,  \* ghost: two requests were out at once, or another client
                    \* changed the disk, since a listing was asked for alone
          unseen    \* ghost: a change that was made, in part or altogether, was
                    \* answered with an error, and no listing asked for since

filesVars == <<disk, win, cur, made, sent, overlap, unseen>>

Loading == [kind |-> "loading", dir |-> Root, items |-> {}]
ErrorGrid == [kind |-> "error", dir |-> Root, items |-> {}]
Listing(d, s) == [kind |-> "list", dir |-> d, items |-> s]
Grids == {Loading, ErrorGrid}
           \cup [kind : {"list"}, dir : Dirs, items : SUBSET Paths]

FsRequest == [w : Wins, op : {"list", "write", "remove"}, path : Paths,
            at : {"sent", "made", "ok", "error"}, items : SUBSET Paths]

ASSUME NoEntryAssumption == NoEntry \notin FsRequest
ASSUME FilesBounds == FilesOut \in Nat /\ MaxHist \in Nat /\ MaxWins \in Nat

FilesTypeOK ==
  /\ disk \subseteq Paths /\ Root \in disk
  /\ win \in [Wins -> [cwd : Dirs, hist : Seq(Dirs),
                       sel : Paths \cup {NoEntry}, grid : Grids]]
  /\ cur \in Wins \cup {0} /\ made \in 0 .. MaxWins
  /\ sent \in [Conns -> FsRequest \cup {NoEntry}]
  /\ overlap \in BOOLEAN /\ unseen \in BOOLEAN

Children(d) == {p \in disk \ {Root} : Parent[p] = d}

(* A path with every directory above it, and all that is under a path. *)
Upward == [p \in Paths |->
             {q \in Paths : \A S \in SUBSET Paths :
                             p \in S /\ (\A x \in S : Parent[x] \in S) => q \in S}]
Under(p) == {q \in Paths : p \in Upward[q]}

Fresh == [cwd |-> Root, hist |-> <<>>, sel |-> NoEntry, grid |-> Loading]

FilesInit ==
  /\ disk \in {d \in SUBSET Paths : /\ Root \in d
                                    /\ \A p \in d : Parent[p] \in d}
  /\ win = [w \in Wins |-> Fresh]
  /\ cur = 0 /\ made = 0
  /\ sent = [s \in Conns |-> NoEntry] /\ overlap = FALSE /\ unseen = FALSE

(* sys(): a request goes out. *)
Send(s, w, op, p) ==
  /\ sent' = [sent EXCEPT ![s] = [w |-> w, op |-> op, path |-> p, at |-> "sent",
                                items |-> {}]]
  /\ LET lists == op = "list" /\ (w = cur \/ w > made) IN
       /\ overlap' = ((overlap /\ ~lists) \/ \E t \in Conns \ {s} : sent[t] # NoEntry)
       /\ unseen' = (unseen /\ ~lists)

(* A click reaches a window on the page; a connection is free for it. *)
MayClick(w, s) == w = cur /\ w # 0 /\ sent[s] = NoEntry

(* Mutant: load() keeps the selection. *)
LoadedKeepsSel(w, dir, h) ==
  win' = [win EXCEPT ![w].cwd = dir, ![w].hist = h, ![w].grid = Loading]

(* load(): show the path, forget the selection, ask for the listing. *)
Loaded(w, dir, h) ==
  win' = [win EXCEPT ![w] = [cwd |-> dir, hist |-> h, sel |-> NoEntry,
                             grid |-> Loading]]

load(w, s, dir, h) ==
  /\ Len(h) <= MaxHist
  /\ Loaded(w, dir, h)
  /\ Send(s, w, "list", dir)

Push(w) == Append(win[w].hist, win[w].cwd)

(* win.navigate: openFiles on a window that is already on the page. *)
navigate(w, s, p) ==
  load(w, s, p, IF p # win[w].cwd THEN Push(w) ELSE win[w].hist)

(* openFiles(startPath): one window, from the dock or a desktop icon. *)
openFiles(p) ==
  \E s \in Conns :
    /\ sent[s] = NoEntry
    /\ IF cur # 0
         THEN navigate(cur, s, p) /\ UNCHANGED <<disk, cur, made>>
         ELSE /\ made < MaxWins
              /\ made' = made + 1 /\ cur' = made + 1
              /\ load(made + 1, s, p, <<>>)
              /\ UNCHANGED disk

(* closeWin: off the page and out of singletons; callbacks are not stopped. *)
(* Of a window off the page only cwd matters.  The last window the bound   *)
(* MaxWins allows stays open.                                              *)
closeWin ==
  /\ cur # 0 /\ made < MaxWins
  /\ cur' = 0
  /\ win' = [win EXCEPT ![cur] = [Fresh EXCEPT !.cwd = win[cur].cwd]]
  /\ UNCHANGED <<disk, made, sent, overlap, unseen>>

refresh(w) == \E s \in Conns : /\ MayClick(w, s)
                               /\ load(w, s, win[w].cwd, win[w].hist)
                               /\ UNCHANGED <<disk, cur, made>>

upDir(w) == \E s \in Conns : /\ MayClick(w, s)
                             /\ load(w, s, Parent[win[w].cwd], Push(w))
                             /\ UNCHANGED <<disk, cur, made>>

back(w) ==
  \E s \in Conns :
    /\ MayClick(w, s)
    /\ win[w].hist # <<>>
    /\ LET n == Len(win[w].hist) IN
         load(w, s, win[w].hist[n], SubSeq(win[w].hist, 1, n - 1))
    /\ UNCHANGED <<disk, cur, made>>

Shown(w) == IF win[w].grid.kind = "list" THEN win[w].grid.items ELSE {}

(* A click on an item of the grid selects the entry it was drawn for. *)
click(w, e) ==
  /\ w = cur /\ e \in Shown(w)
  /\ win' = [win EXCEPT ![w].sel = e]
  /\ UNCHANGED <<disk, cur, made, sent, overlap, unseen>>

(* A double click on a folder; one on a file opens an editor, not modelled. *)
dblclick(w, e) ==
  \E s \in Conns :
    /\ MayClick(w, s)
    /\ e \in Shown(w) \cap Dirs
    /\ load(w, s, e, Push(w))
    /\ UNCHANGED <<disk, cur, made>>

(* "+ File" and "+ Folder": write, and load only when that is answered. *)
newfile(w, f) ==
  \E s \in Conns :
    /\ MayClick(w, s)
    /\ Parent[f] = win[w].cwd
    /\ Send(s, w, "write", f)
    /\ UNCHANGED <<disk, win, cur, made>>

newfolder(w, d) ==
  \E s \in Conns :
    /\ MayClick(w, s)
    /\ d # Root /\ Parent[d] = win[w].cwd
    /\ Send(s, w, "write", Keep[d])
    /\ UNCHANGED <<disk, win, cur, made>>

(* "Delete": removes the selected entry by its own path, then loads. *)
del(w) ==
  \E s \in Conns :
    /\ MayClick(w, s)
    /\ win[w].sel # NoEntry
    /\ Send(s, w, "remove", win[w].sel)
    /\ UNCHANGED <<disk, win, cur, made>>

------------------------------------------------------------------------------
(* The kernel's side of a request. *)

fsList(s) ==
  /\ sent[s] # NoEntry /\ sent[s].op = "list" /\ sent[s].at = "sent"
  /\ sent' = IF sent[s].path \in disk
              THEN [sent EXCEPT ![s].at = "ok", ![s].items = Children(sent[s].path)]
              ELSE [sent EXCEPT ![s].at = "error"]
  /\ UNCHANGED <<disk, win, cur, made, overlap, unseen>>

(* mkdir recursive, and in a later step writeFile. *)
fsMkdir(s) ==
  /\ sent[s] # NoEntry /\ sent[s].op = "write" /\ sent[s].at = "sent"
  /\ disk' = disk \cup (Upward[sent[s].path] \ {sent[s].path})
  /\ sent' = [sent EXCEPT ![s].at = "made"]
  /\ UNCHANGED <<win, cur, made, overlap, unseen>>

fsWrite(s) ==
  /\ sent[s] # NoEntry /\ sent[s].at = "made"
  /\ IF Parent[sent[s].path] \in disk
       THEN /\ disk' = disk \cup {sent[s].path}
            /\ sent' = [sent EXCEPT ![s].at = "ok"]
            /\ UNCHANGED unseen
       ELSE /\ sent' = [sent EXCEPT ![s].at = "error"]
            /\ unseen' = TRUE
            /\ UNCHANGED disk
  /\ UNCHANGED <<win, cur, made, overlap>>

(* rm recursive, force: a path that is gone is no error. *)
fsRemove(s) ==
  /\ sent[s] # NoEntry /\ sent[s].op = "remove" /\ sent[s].at = "sent"
  /\ disk' = disk \ Under(sent[s].path)
  /\ sent' = [sent EXCEPT ![s].at = "ok"]
  /\ UNCHANGED <<win, cur, made, overlap, unseen>>

(* The policy refuses the call, or the Console cannot reach the gate. *)
Refuse(s) ==
  /\ sent[s] # NoEntry /\ sent[s].at = "sent"
  /\ sent' = [sent EXCEPT ![s].at = "error"]
  /\ UNCHANGED <<disk, win, cur, made, overlap, unseen>>

(* A call that fails half way: writeFile after mkdir, with or without an   *)
(* empty file, or rm when some of what is under the path is gone.          *)
Fails(s) ==
  /\ sent[s] # NoEntry
  /\ \/ sent[s].at = "made" /\ disk' \in {disk, disk \cup {sent[s].path}}
     \/ /\ sent[s].op = "remove" /\ sent[s].at = "sent"
        /\ disk' \in {d \in SUBSET disk : /\ disk \ d \subseteq Under(sent[s].path)
                                          /\ \A p \in d : Parent[p] \in d}
  /\ sent' = [sent EXCEPT ![s].at = "error"] /\ unseen' = TRUE
  /\ UNCHANGED <<win, cur, made, overlap>>

(* The answer to a call that worked is lost: sys() rejects all the same. *)
Lose(s) ==
  /\ sent[s] # NoEntry /\ sent[s].at = "ok"
  /\ sent' = [sent EXCEPT ![s].at = "error"]
  /\ unseen' = (unseen \/ sent[s].op # "list")
  /\ UNCHANGED <<disk, win, cur, made, overlap>>

(* Another client of the kernel removes something. *)
RemovedElsewhere ==
  \E p \in Others : /\ disk' = disk \ Under(p)
                    /\ p \in disk /\ overlap' = TRUE
                    /\ UNCHANGED <<win, cur, made, sent, unseen>>

------------------------------------------------------------------------------
(* Mutant: load() has no catch. *)
listAnswerUncaught(s) ==
  /\ sent[s] # NoEntry /\ sent[s].op = "list" /\ sent[s].at \in {"ok", "error"}
  /\ win' = IF sent[s].w = cur /\ sent[s].at = "ok"
              THEN [win EXCEPT ![sent[s].w].grid = Listing(sent[s].path, sent[s].items)]
              ELSE win
  /\ sent' = [sent EXCEPT ![s] = NoEntry]
  /\ UNCHANGED <<disk, cur, made, overlap, unseen>>

(* Mutant: a change is not followed by a load. *)
changeAnswerIdle(s) ==
  /\ sent[s] # NoEntry /\ sent[s].op # "list" /\ sent[s].at = "ok"
  /\ sent' = [sent EXCEPT ![s] = NoEntry]
  /\ UNCHANGED <<disk, win, cur, made, overlap, unseen>>

(* The answers.  Whatever load() it is, its listing replaces the grid. *)
listAnswer(s) ==
  /\ sent[s] # NoEntry /\ sent[s].op = "list" /\ sent[s].at \in {"ok", "error"}
  /\ win' = IF sent[s].w # cur THEN win
              ELSE [win EXCEPT ![cur].grid =
                      IF sent[s].at = "ok" THEN Listing(sent[s].path, sent[s].items)
                                          ELSE ErrorGrid]
  /\ sent' = [sent EXCEPT ![s] = NoEntry]
  /\ UNCHANGED <<disk, cur, made, overlap, unseen>>

(* After a write or a remove that worked: load() of the window's cwd now. *)
changeAnswer(s) ==
  /\ sent[s] # NoEntry /\ sent[s].op # "list" /\ sent[s].at = "ok"
  /\ LET w == sent[s].w IN load(w, s, win[w].cwd, win[w].hist)
  /\ UNCHANGED <<disk, cur, made>>

(* One that failed: the promise is rejected and nothing is loaded. *)
changeFails(s) ==
  /\ sent[s] # NoEntry /\ sent[s].op # "list" /\ sent[s].at = "error"
  /\ sent' = [sent EXCEPT ![s] = NoEntry]
  /\ UNCHANGED <<disk, win, cur, made, overlap, unseen>>

FsKernel(s) == fsList(s) \/ fsMkdir(s) \/ fsWrite(s) \/ fsRemove(s)
Answer(s) == listAnswer(s) \/ changeAnswer(s) \/ changeFails(s)

User ==
  \/ \E p \in Dirs : openFiles(p)
  \/ closeWin
  \/ \E w \in Wins :
       \/ refresh(w) \/ upDir(w) \/ back(w) \/ del(w)
       \/ \E e \in Paths : click(w, e) \/ dblclick(w, e)
       \/ \E f \in Files : newfile(w, f)
       \/ \E d \in Dirs : newfolder(w, d)

FilesNext ==
  \/ User
  \/ \E s \in Conns : FsKernel(s) \/ Refuse(s) \/ Fails(s) \/ Lose(s) \/ Answer(s)
  \/ RemovedElsewhere

FilesSpec == FilesInit /\ [][FilesNext]_filesVars

(* The event loop of the kernel and of the page run what is ready. *)
FilesFairSpec ==
  FilesSpec /\ \A s \in Conns : WF_filesVars(FsKernel(s)) /\ WF_filesVars(Answer(s))

------------------------------------------------------------------------------
(* What the user is shown (os.js 156-180). *)

OnPage(w) == w = cur

(***************************************************************************)
(* What Delete would remove is an item the user sees in the grid, unless   *)
(* requests overlapped: an overtaken listing redraws the grid and leaves   *)
(* the selection.                                                          *)
(***************************************************************************)
SelectionIsShown ==
  ~overlap => \A w \in Wins : OnPage(w) /\ win[w].sel # NoEntry
                              => win[w].sel \in Shown(w)

(***************************************************************************)
(* A window at rest shows the folder named in its path bar as it is on     *)
(* disk: creating or deleting something is followed by a listing taken     *)
(* after it.  Three things can leave it otherwise until the next listing   *)
(* asked for alone: requests that overlapped, another client, and a change *)
(* that was made and answered with an error, because it failed half way or *)
(* its answer was lost: no button catches that, and none lists again.      *)
(***************************************************************************)
RestIsCurrent ==
  ~overlap /\ ~unseen /\ (\A s \in Conns : sent[s] = NoEntry) =>
    \A w \in Wins : OnPage(w) /\ win[w].grid.kind = "list"
      => win[w].grid = Listing(win[w].cwd, Children(win[w].cwd))

(* "loading..." never stays: an answer, also a failed one, replaces it,    *)
(* however the user goes on clicking.                                      *)
LoadingEnds ==
  \A w \in Wins : []<>(OnPage(w) => win[w].grid.kind # "loading")

=============================================================================
