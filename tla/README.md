# voidOS in TLA+

Specifications of the moving parts of voidOS, model-checked with TLC, with
theorems checked by TLAPS. Every definition is translated from the source; the
docs and comments of the repository supply only the promises that some
properties state. `PROJECT.json` maps each definition to the lines it models,
lists the runs, the hazards the properties are aimed at, and for each property a
plausible bug (a "mutant", defined next to the operator it replaces) that breaks
it.

## The system

voidOS is a set of processes around one **kernel** (TypeScript, one Node event
loop) that exposes *capabilities* through a **syscall gate**: a Unix socket, one
JSON-RPC request per line. The **mind** (Python) is an agent loop that calls a
language model and turns its tool calls into syscalls; **voidsh** is the
operator's shell around it. **voidinit** (Python) is PID 1: it starts the kernel
and the **Console** (Python HTTP server, a thread per request), and hands the
scheduler's wakeups to the mind. The Console serves the pages: the voice surface
(`her.js`), the dashboard with its chat (`app.js`), the `/os` desktop, whose
windows and icons (`os.js`) call capabilities over HTTP, and `/desktop`
(`desktop.js`), which shows the desktop the kernel itself composes.

### Inventory

| component | state | operations | what makes it correct |
|---|---|---|---|
| syscall gate (`bus.ts`, `policy.ts`, `socket.ts`, `sys.ts`, `index.ts`) | mode, operator token, grant ledger, calls in progress, audit file | a line arrives, is refused or started, its handler settles, its audit line is appended; `sys.grant`, `sys.revoke`; boot, shutdown | no risky handler without this boot's operator; uses neither overspent nor lost; what the running kernel settled is audited once |
| service supervisor (`services.ts`) | entry objects in a map: wish, status, restart counter, child, timer | define, start, stop, remove, child exit, restart timer, shutdown | one incarnation, bounded crash loop, stop and remove are final, the listing tells which shells run, none is left unsignalled |
| scheduler (`scheduler.ts`) | job objects in a map, timers, running commands, wakeup queue | schedule, fire, command ends, cancel, drain, shutdown | a job neither stalls nor overlaps itself, limits hold, wakeups at most once and in order |
| memory (`memory.ts`) | one JSON file, the copies handlers hold | set, get, delete, in steps at each `await`; crash | an atomic map |
| process manager (`procman.ts`) | processes by id | spawn, stop, exit, remove, shutdown | the list tells which shells run, none is forgotten while it lives |
| network manager (`net.ts`) | servers by name, ports, connections, traffic counters | serve, listening, bind error, connect, request, answer, stop, shutdown | what listens is listed; counters belong to their server |
| `shell.exec` (`shell.ts`) | one command: shell, children, pipes, timer | spawn, timeout, `error`, `close`, kernel shutdown | answered truthfully, completely, and in the end |
| window manager and scene (`wm.ts`, `theme.ts`, `scene.ts`, `compositor.ts`) | windows, stacking, drag; what is painted where | launch, press, move, release; compose a frame | a drag ends with the button; a press acts on what is seen |
| `/desktop` page (`desktop.js`, `/api/frame`, `/api/input`) | button held, inputs and frames under way, the picture shown | mouse events, refresh, interval, load, error | the picture never goes back and catches up |
| mind and voidsh (`agent.py`, `client.py`, `shell.py`) | history, pending calls, "always" answers, token | a turn: consult, execute calls, ask, grant, retry; ctrl-C; lost kernel | risky runs never outnumber approvals; a well-formed history |
| model backends (`backends.py`) | none (translations of the history) | Ollama, OpenAI and Anthropic form of a history | the same conversation for every provider |
| voidinit (`voidinit.py`) | phase, children, drained batch | boot, build the mind, boot task, shell, supervise, wakeups, signals, shutdown | every wakeup run once and in order, orderly stop, halts when the kernel dies |
| Console (`server.py`) | environment, two cached agents, chat lock | `/api/chat`, `/api/her`, backend switch | the companion is current, its turns are authorised, the voice surface does not wait behind a stuck turn (chat and switch do) |
| chat pages (`her.js`, `app.js`, Mind window of `os.js`) | question and answer shown, orb, its timer, disabled inputs | ask, submit, answer, timer | every question is answered, nothing stays disabled or "thinking" |
| desktop icons (`os.js`, `memory.ts`, `fs.ts`) | layout, layer, chains of requests out | render and seed, drag, new, delete, rename, refresh, reload | shown, laid out and stored agree; icons stay where they were put |
| Files window (`os.js`, `fs.ts`) | folder, history, selection, grid, requests out | open, navigate, select, new file/folder, delete, refresh, close, answers | shows its folder as it is, never stuck at "loading" |
| virtual paths, `web.fetch`, `sys` introspection, scanout, command-line client, dashboard, images | none or pure | - | not modelled, see below |

How they interact: mind, Console, voidinit and other clients call the gate;
handlers of the gate drive the supervisor, scheduler, process and network
managers, shell, memory and window manager, all in the kernel's one event loop;
the scheduler's wakeup queue is drained by voidinit, which runs the mind; the
Console shares one mind between threads; a kernel shutdown ends all of the
kernel's parts in one tick and leaves their children to the operating system.

What is hard: callbacks (child exits, timers, bind results) that hold an object
rather than its name and arrive after the name was removed or reused; a check
and its use separated by an `await`; lines of one connection settling out of
order; kernel reboots that change the token and forget the ledger under running
clients; failed spawns; signals between a fork and the assignment that records
it, and inside the handler of the signal before; browser requests that overtake
each other, and chains of them that overlap; errors and lost answers after the
effect; a file that several clients rewrite in full. The full list, with the line
where each bites, is `hazards` in `PROJECT.json`.

## Modules

| module | models |
|---|---|
| `SyscallGate` | the gate. A call is a line that goes through `sent`, `running`, `answered`, or ends `rejected`, `refused`, `dropped` or `cut` by a shutdown; `Refuse`/`Start...` are the synchronous part of `dispatch` up to the handler's first `await`, `Finish` the part after it, `AuditWrite` the un-awaited append |
| `ServiceSupervisor` | `services.ts`; entries and names are kept apart because callbacks hold entries |
| `ServiceContract` | abstract: what the `svc` capabilities promise about each *name* |
| `Scheduler` | `scheduler.ts` with what `cron.ts` lets clients ask for |
| `VoidInit` | `voidinit.py` with its children as processes |
| `WakePipeline` | composes these two: what `cron.wakeups` drains in one is the batch of the other, the death of the kernel process empties the scheduler, any other client may drain, a poll may be refused or its answer lost |
| `MemoryStore`, `KVStore` | `memory.ts` in steps at its awaits, with a file that can be truncated or torn; the atomic map it should be |
| `ProcessManager`, `NetManager`, `ShellExec` | `procman.ts`, `net.ts`, `shell.ts` |
| `KernelHost` | composes these three under one kernel life: their actions interleave, `Halt` is joint, and so is `Crash`, an HTTP request that ends the process |
| `WindowManager` | `wm.ts` with its real geometry, and what `scene.ts` paints of it: each primitive of the compositor is a predicate on pixels, `composeDesktop` the thing painted last |
| `Desktop` | extends it with the page and its requests: `net` are inputs on their way, in any order, `frames` the pictures under way |
| `Backends` | the three translations of `backends.py`, as operators on sequences |
| `Mind` | `agent.py`, `client.py`, `shell.py` against the ledger of the gate, with other clients |
| `Console` | the chat side of `server.py` with threads, lock, environment and kernel |
| `ConsolePages` | extends it with the pages that ask: the voice surface, which takes questions at any time, and chat windows, which take one at a time |
| `DesktopIcons` | the icon layer of `os.js`. A menu entry is a chain of requests, kept in a slot with the request it waits for; slots advance independently; the memory file is shared with other clients, whose saves read and write it as a whole |
| `FilesApp` | the Files window of `os.js` with `fs.list/write/remove`, which may fail half way or lose their answer |
| `SyscallGateProofs`, `ServiceSupervisorProofs`, `WakePipelineProofs`, `KernelHostProofs`, `MemoryStoreProofs`, `DesktopProofs`, `MindProofs` | theorems about the module of that name |
| `ConsolePagesProofs` | theorems about `Console`, `ConsolePages`, `FilesApp` and `DesktopIcons` |
| `MC...` | definitions that cannot be written in a `.cfg` (sequences, functions, symmetry sets) |

Data is abstracted to what the properties tell apart: arguments are valid or
not, a payload, prompt or output has no content, time is "a pending timer may
fire". Control is kept: each action is a whole handler or callback, or the part
of it between two awaits.

Some variables are ghosts, which no action reads to decide anything. `issued`,
`ran` and `vouched` (gate), `yes`, `issued`, `ran` (mind) count what an operator
allowed and what happened. `streak` and `asked` (supervisor) record launches
since the last manual start and the last request. `durable` (memory) is the map
last written in full. `raced` (desktop page), `crossed` (icons), `overlap`
(files), `mixed` (voice surface), `broken` (mind) and `forgot` (icons) record
that an event was lost or overtaken, that requests overlapped, that an exception
broke a turn off, that a stored layout was not waited for: properties that hold
only otherwise say so.
`past` (gate: calls of an earlier boot), `late` (net: servers that took a request
after their `close()`), `unseen` (files: a change answered with an error) and
`stale` (Console: agents older than the loss of their grant) are of the same kind.
`end`, `handed` (voidinit), `taken` (wakeups), `calls` (desktop), `meant` and
`seeds` (icons) record history. `strays` and `stray`, what a shell has started,
are no ghosts: they are processes the code knows nothing of.

## Runs

| run | instance | states | shows |
|---|---|---|---|
| `gate` | 3 lines of any content, 2 boots, all modes, one-shot and unlimited grants, appends that fail | 853 000 | `LedgerBalances`, `RiskyRunIsVouched`, `SettledIsAudited`, `LedgerChangeHasCause` |
| `services` | 2 names, 2 entries, `always` and `on-failure`, maxRestarts 0 and 2, descendants of the shells, kernel crashes | 670 000 | `OneIncarnation`, `CrashLoopBound`, `ShellsAreAccounted`, `LaunchWasAsked`, `RestartSettles`, and that the per-name contract is implemented |
| `wake` | 1 name, 2 jobs, limits 0, 1 and none, 3 wakeups, 2 signals, 4 boot configurations, grants and revocations | 951 000 | `OnePendingStep`, `RunsWithinCount`, `WakeupsExactlyOnce`, `OrderlyStop`, `WakeupsAreRun`, `HaltsInTheEnd` |
| `memory` | 4 calls in turn, 2 keys, 2 values, 2 kernel stops or failed saves | 96 000 | `ImplementsStore`: an atomic map that a cut save leaves whole or empty |
| `host` | 1 process, 2 servers on 2 ports under 1 name with connections, 1 request, 1 command with 1 child, descendants | 1 521 000 | `ProcessesAreKnown`, `ListenersAreListed`, `TrafficIsPerServer`, `AnswerIsTrue`, `CallIsAnswered` |
| `desktop` | 3 inputs or launches at telling points of the 1100 x 720 screen, frames without limit, painting compared with pressing at 26 pixels | 135 000 | `DragIsHeld`, `PressHitsWhatIsSeen`, `FramesInOrder`, `ScreenCatchesUp` |
| `page` | 2 files, 2 chains under way, 3 things done by the user or another client, whose saves of the memory file interleave | 4 369 000 | `IconsAreCurrent`, `DraggedIconsStay`, `SeededOnce` |
| `mind` | 2 turns of up to 2 replies with up to 2 calls of 3 tools, a history of up to 6 messages, 2 boots, all modes, other clients | 811 000 | `RunsWereApproved`, `ResultsAreGrouped`, `SameConversation` |
| `console` | 2 questions from 3 surfaces, 2 backends of which 1 can be built, 1 reboot, grants and revocations | 396 000 | `CompanionIsCurrent`, `SurfaceAnswers`, `HerIsPrompt`, `PagesAreAnswered`, `TurnsAreAuthorised` |
| `files` | 2 folders, 2 files, 2 requests out, 2 windows, another client, failures half way and lost answers | 1 768 000 | `SelectionIsShown`, `RestIsCurrent`, `LoadingEnds` |
| `services_lost_start` | 1 name, 1 entry | - | **violated** `StartIsHonoured` |
| `memory_race` | 2 overlapping calls | - | **violated** `AnsweredSetIsStored` |

Why the bounds are enough. Each is the smallest at which the case the property is
about arises, plus room for a bystander. Three lines are a grant, a call that
spends it and a rival for it; two boots make a stale token. Two entries under two
names allow a removed entry with a callback pending beside the entry that took
over its name; `maxRestarts` 0 is the boundary and 2 the first loop longer than
one. Two jobs under one name are a cancelled job whose command still runs and its
successor; three wakeups are one handed over, one drained and one queued; two
signals are a handler and one inside it. Two servers under one name on two ports
make every race in `net.serve`, and one request suffices to come in on a
connection to the first when the second has its name. Three inputs are press, move
and release, in any order, or a launch among them; the pixels are edges, corners,
gaps and overlaps of windows, dock and tiles, and a press on a tile and one beside
it are among the inputs. On the icon layer two chains are the least that overlap,
and three things are enough to drag, delete and reload. Two replies of two calls
give a call that fails in the middle of a group, and a second turn after it. Two
questions are the least that meet at the lock and on the voice surface; one
backend that can be built and one that cannot give every way out of a switch. The
bounds named in the modules (`MaxFires`, `MaxOps`, `FilesOut`, ...) only cut runs
short; no guard of the code depends on them, except `MaxSteps`, which is the
code's own `MAX_STEPS`. Deadlock is not checked where the system may really stop:
the kernel was shut down for good, or all lines of the run were sent.

Symmetry is used for the lines of the gate and for calls, keys and values of the
memory store, in runs without liveness properties.

### Fairness

Liveness is checked under fairness of what the runtime guarantees and nothing
else, weak unless said otherwise.

- Kernel timers fire and delivered events are handled while the kernel is up:
  the restart timer (`services`), the callbacks of `shell.exec` (`host`).
  Nothing makes a child process end, and no job timer is assumed to fire (`wake`).
- The Console's threads run, `_chat_lock.acquire(timeout=2)` returns, with the
  lock or without, answers reach the page and its timer fires (`console`). A turn
  that holds the lock need not end: `HerIsPrompt` holds all the same, and
  `PagesAreAnswered` has "turns end" as its hypothesis.
- Inputs reach the kernel, the `/desktop` page runs its callbacks and its interval,
  and of the frames it asks for again and again some are composed and loaded
  (`desktop`; strong fairness, since each may fail).
- voidinit's loop goes on, the kernel answers a poll that it lets through, and
  voidinit's wait for the kernel has a timeout (`wake`). A turn begun by a wakeup
  runs in that loop and need not end, for a call to the kernel has no timeout
  (`client.py`:42): `WakeupsAreRun`, and `HaltsInTheEnd` where it speaks of a
  kernel that died, have "turns end" (`TurnsEnd`) as their hypothesis. A voidinit
  that was sent a signal halts without it.
- The kernel executes and answers an `fs` request, and the page runs the callback
  (`files`).

## Proofs

All theorems hold for every value of the constants that satisfies the named
assumptions: names are distinct from the reserved ones, bounds are numbers.
Nothing bounds the number of clients, lines, boots, names, entries, jobs, windows
or requests. Every invariant and action property that a passing run checks is
also a theorem, and so are the two refinements. Each inductive invariant was
checked with TLC on the instance of its run before it was proved.

**Gate** (`SyscallGateProofs`; `NamesAssumption`, `BoundsAssumption`).

- `TypeCorrect`: the type invariant, together with "a running kernel has
  booted", which sending needs (clients hold tokens of this and the previous
  boot).
- `LedgerCorrect`: `[]LedgerBalances`. Inductive relative to the type
  invariant; the heart is that the key `permitKey` returns is live at the moment
  `consume` takes a use from it, because both are in one tick.
- `AuditCorrect`: `[]SettledIsAudited`. One lemma says that answering and
  queueing the line happen in the same step; from there the line is appended or
  its call is in `failed`, and a halt puts every call sent so far in `past`.
- `AuthorityCorrect`: `[]RiskyRunIsVouched`. Not inductive by itself. The
  strengthening `AuthorityInv` adds that every live grant is vouched for, that so
  is every waiting grant request that carries the current token, and that a
  kernel that is down holds no call, so that a boot may change token and mode.
- `CauseCorrect`: the action property `LedgerChangeHasCause`, one step per
  action: only the synchronous part of `dispatch` and the two operator calls
  touch the ledger within a boot.

**Supervisor** (`ServiceSupervisorProofs`; `PolicyAssumption`,
`EntryAssumption`). `OneIncarnationCorrect`, `CrashLoopCorrect`,
`ShellsCorrect` and the action property `LaunchWasAskedCorrect` rest on one
inductive invariant `IInv`. Its part `Shape` says what an entry object looks like
between two ticks: a live shell only under status `running`; a pending restart
only under `restarting`, for a service that is wanted, with the launches so far
covered by the restart counter and the counter within its limit. Its part
`Placed` says that a wanted service is in the map, and `Told` that a shell no
record of a running kernel shows was signalled. Each method has a lemma about
one entry object (`StartShape`, `StopShape`, `ExitShape`, ...); `PutInv` lifts
them to the map; `NextInv` has one step per action. `Placed` is what makes a late
exit or timer of a removed entry harmless: removal withdraws the wish, and every
launch from a callback needs it. `ContractCorrect` is the refinement of
`ServiceContract`: under `IInv` each step of an entry object maps to a step of
its name, and a step of an entry that is no longer in the map to a stutter.

**Scheduler and voidinit** (`WakePipelineProofs`; `PipelineAssumption`). Three
invariants, one per concern. `StopInv` says from voidinit's phase which children
have been told to stop; it makes `OrderlyStop` inductive under signals that nest.
`JobsInv` says that a job object has at most one timer or command pending, that a
pending timer of a limited job has a run left to it, and that a job is in the map
under one name only; `OnePendingStep` and `RunsWithinCount` follow. For
`WakeupsExactlyOnce`, `OrderInv` orders the four places a wakeup may be in
(queued, drained by voidinit, handed over, in an answer voidinit did not get), and
`CountInv` says that together they hold the numbers 1 to `seq`, once each.

**Host** (`KernelHostProofs`; `HostAssumption`). `HostRunsItsParts` shows that
the composition implements each part's specification; then each part has an
invariant of its own. `ProcsInv`: a living shell is listed as running, and what is
listed so has one or could not be spawned.
`NetsInv` strengthens `ListenersAreListed` and `TrafficIsPerServer` with
`Overlaps` (two servers of one name of which one is still binding are already
known as rivals), with where each open request is counted, and with `Connected`:
connections are to servers that listened once. `ExecsInv`: what
each exit code of `shell.exec` implies about shell and timer, and that a settled
call has no timer.

**Memory** (`MemoryStoreProofs`; `BoundsAssumption`). `StoreCorrect` has the
hypothesis `MaxInFlight <= 1`, that is, clients wait for each answer; without it
the statement is false, which is what `memory_race` shows. `StoreInv` says that
the file holds the durable map except between the truncation and the write of a
save, and that what a save will write is the durable map with its own change; the
refinement maps the write to the abstract step.

**Desktop** (`DesktopProofs`; `GeometryAssumption`, `PageAssumption`).
`DragInv` numbers the inputs on their way and says that with no button held the
release is the last of them. `FrameInv` says that at most one frame is under way
and that it is not older than the screen. `WindowsInv` says that windows have
different apps and different heights; from it and the geometry alone,
`SeenIsPressed` shows for every pixel that the loop which paints and the loop
which looks for the window pressed agree; `UnpaintedTile` and `TilesApart` do it
for the dock. `GeometryAssumption` asks for whole
numbers, apps higher than their title bar, a title bar of at least 8 pixels (it
then covers the rounded upper corners) and an opening that lists no app twice;
the constants of `theme.ts` and `wm.ts` satisfy it.

**Mind and backends** (`MindProofs`; `CapsAssumption`, `BoundsAssumption`).

- `ApprovalCorrect`: `ApprovalInv` keeps an account per capability; runs and
  grants left are covered by grants issued, and these by approvals, one of which
  may be owed between the answer and the grant.
- `GroupedCorrect`: `GroupInv` describes the Anthropic form of the history while
  a reply's calls are carried out: results so far in order in the message after
  the reply, the pending calls numbered from there.
- `ConversationCorrect`: `TalkInv` says that the two id-keyed forms agree after
  ungrouping, that each result bears the name of its call, and that so will those
  of the pending calls.

The translation is a loop over the history, a recursive function in `Backends`.
That it is what the loop computes after each message is not proved by the
library's induction theorems, whose parameter is an operator, but by taking the
least length at which it fails (`Least`, from the well-foundedness of `<`). The
same argument gives the windows a fresh desktop opens.

**Console and pages** (`ConsolePagesProofs`; `BackendsAssumption`).
`CompanionCorrect`, `SurfaceCorrect` and `AuthorityCorrect` rest on `IInv`: an
agent built since the grant was last taken away exists only with kernel up and
granted (`Authority`); who builds or takes a turn has the lock, so that no switch
replaces the agent of a turn (`Holding`); a busy input waits for a question of its
window (`Inputs`); a thinking surface has its last question out, and a surface
whose questions did not overlap has no other (`Surface`).

The module also extends `FilesApp` and `DesktopIcons`, whose state is disjoint
from the Console's, for the **Files window** (`TreeAssumption`: the tree is a
tree and folders are no files; `NoEntryAssumption`, `FilesBounds`) and the **icon
layer** (`NamesAssumption`: the names are finitely many and some are seeded;
`NoChainAssumption`, `IconsBounds`).

- `SelectionCorrect`, `RestCorrect` from `FilesInv`: when requests did not
  overlap, one at most is out; a listing finds grid and selection cleared and
  brings what is still so; a change that has not reached the disk leaves the grid
  true, unless an earlier one did unseen.
- `IconsCorrect`, `DraggedCorrect`, `SeededCorrect` from `IconsInv`: a page
  without its layout is about to fetch it (`Fetching`); a chain that no other
  crosses carries what is still so, and saves the layout that was drawn
  (`Uncrossed`); another client that has read the file writes the same layout back
  (`Stored`); the layout that will be used, on the page or in the kernel's
  memory, has the places the user chose and tells whether the folder was seeded
  (`Remembering`).

Only model-checked: the liveness properties `RestartSettles`, `WakeupsAreRun`,
`HaltsInTheEnd`, `CallIsAnswered`, `ScreenCatchesUp`, `HerIsPrompt`,
`PagesAreAnswered` and `LoadingEnds`, since fairness and `ENABLED` are beyond the
prover.

## What the code does that one may not expect

Two promises of the repository are refuted by runs (`findings`): `svc.start` while
a `svc.stop` is pending is dropped, and two overlapping `memory.set` of different
keys lose one of them.

Other behaviour seen while modelling, part of the models, and excluded by an
explicit condition in the property concerned or left without a property:

- shutdown exits before pending audit lines are appended, a handler it cuts off
  leaves no record, and an append that fails is only logged, although
  `docs/security.md`:60 has "every dispatch" recorded (`index.ts`:94,
  `policy.ts`:69); `SettledIsAudited` says what is left of that promise;
- services and processes are `/bin/sh -c` in the kernel's own process group, and
  only that shell is listed and signalled: what it has started survives stop,
  remove, restart and shutdown and shows in no list (`services.ts`:127,
  `procman.ts`:39; `strays`, `stray`);
- an HTTP request whose path cannot be decoded throws outside the `try` of
  `handle()` and, being an unhandled rejection, ends the kernel without
  `shutdown()` (`net.ts`:116; `Crash` in `KernelHost`);
- `net.stop` leaves open connections open: their requests are still served, and
  counted on the server that has the name by then (`net.ts`:97, 115; `late`);
- a command whose shell a signal ended is answered with exit code 0, like a success
  (`code ?? 0`, `shell.ts`:102; "null" in `ShellExec`);
- a failed spawn leaves a service or a process listed as running for good
  (`services.ts`:143, `procman.ts`:61);
- `cron.cancel` of a recurring shell job while its command runs does not end it:
  the completion re-arms the deleted job (`scheduler.ts`:93), which
  `OnePendingStep` states as the only exception;
- a job with `count` 0 runs once (`scheduler.ts`:150);
- a kernel stopped while it writes the memory file leaves no valid JSON, and the
  next load starts from an empty store (`memory.ts`:23; `KLose` in `KVStore`);
- two `net.serve` of one name that overlap both listen and the first is no longer
  listed (`net.ts`:58; the ghost `rival`);
- wakeups go to whichever client calls `cron.wakeups` first (`cron.ts`:83): one
  drained elsewhere, or by a poll whose answer was lost (`voidinit.py`:88), never
  reaches the mind, which `WakeupsAreRun` states;
- PID 1 runs the mind's turns in its own loop: while one does not end, no wakeup is
  drained and the kernel's death goes unnoticed (`voidinit.py`:94); and once the
  grant `all` is revoked under a guarded policy its polls are refused for good,
  since `cron.wakeups` counts as a write (`cron.ts`:81);
- an exception in the middle of a reply's tool calls leaves the rest of them
  unanswered in the history (`agent.py`:118; the ghost `broken`);
- a grant obtained for a call that then fails validation stays in the ledger
  (`agent.py`:114): another client's call may spend it. `RunsWereApproved` counts
  runs against grants, whoever's call it is;
- a signal that reaches voidinit before a `Popen` object is assigned finds no
  child to stop (`voidinit.py`:143), and an exception of the boot task ends
  voidinit alone (`voidinit.py`:167). A signal during `shutdown` runs it again
  from the beginning and the outer one is never returned to; the stop is orderly
  all the same;
- a descendant that leaves the process group and keeps the pipes open delays the
  answer of `shell.exec` for as long as it lives (`shell.ts`:102), and a shutdown
  of the kernel drops the timeout of a running command (`shell.ts`:72);
- a backend switch that cannot be built is not undone (`server.py`:151), an
  OpenAI key alone is refused (`server.py`:94), and an agent cached before a kernel
  reboot or a `sys.revoke` is used without a new grant (`server.py`:92); a switch
  mends that for the companion, nothing for the desktop's agent;
- overlapping listings of the Files window may be drawn out of order
  (`os.js`:161), and a change that was made but answered with an error, half way
  (`fs.ts`:35) or on the way back, leaves the old grid (`os.js`:178; `unseen`);
- the dock is painted over the windows but windows get its presses
  (`scene.ts`:125, `wm.ts`:97), and a window takes presses one pixel right of and
  below what is painted, and in its rounded lower corners (`wm.ts`:92); a tile of
  the dock does the same at its edges and corners (`wm.ts`:109, `scene.ts`:129);
- while a button is held, a frame asked for during the last one is not asked for
  again (`desktop.js`:10): the picture may stay old until the release; a release
  that is lost or overtaken leaves a window stuck to the pointer;
- a stored icon layout that cannot be fetched, or that the kernel reads while
  another client's `memory.set` has the file truncated, which it answers without
  an error, counts as none and is overwritten by the first render, and one that
  arrives after the user has acted replaces what he did (`os.js`:429); overlapping
  renders may show or store an older state (`os.js`:370), and a refused request
  leaves the layer as it was;
- a new question on the voice surface does not stop the timer of the last answer,
  which ends "thinking" early (`her.js`:133), and the answer that arrives last
  stays, whichever question it belongs to (`her.js`:127);
- Ollama is told the tool a result belongs to and not the call (`backends.py`:62):
  two results of one tool are told apart by their order alone.

## Not modelled

- Virtual path resolution (`vpath.ts`: one stateless function, string work done by
  Node's `path.resolve`), schema validation (arguments are valid or not) and
  `web.fetch` (stateless).
- `sys.info/list/audit` and the other reading capabilities: they change nothing.
- Of the kernel's desktop: colours, text, fonts, PNG encoding, surfaces, scanout
  and the framebuffer demo; `desktop.render`, which writes a frame to a file.
- Of the pages: the polling dashboard of `app.js`, the orb's drawing, the editor,
  terminal and status windows of `os.js` (each reads and shows, or writes one file
  on command).
- The command-line client (one request, one reply), the image and boot scripts
  (run once).
- A read error on an intact memory file, which `load()` takes for an empty store
  (`memory.ts`:15), in `MemoryStore`; `DesktopIcons` has it.
- The policy mode `paranoid` in the wakeup pipeline: nobody can schedule there.
- Logs, output buffers, formatting and wording, everywhere. The width of
  `setTimeout`: a delay above 2^31 - 1 ms is "later" here.

## Plan

1. done: gate, supervisor with contract, scheduler, memory, host, window manager,
   mind and backends, voidinit, Console, Files window; gate and supervisor
   theorems.
2. done: scheduler and voidinit as one wakeup pipeline with nested signals; the
   window manager with its painting and the `/desktop` page; the Console with the
   pages that use it; the icon layer; the third provider.
3. done: theorems for the invariants and action properties of every module, and
   the two refinements.
4. left: what still holds where a property now makes an exception. A Files window
   or an icon layer whose requests overlapped is right again after the next
   listing made alone; overlapping `memory.set` calls lose whole updates but never
   invent one.

## Running

    tlc -workers 2 -config SyscallGate.cfg MCSyscallGate
    tlapm ServiceSupervisorProofs.tla

Module and configuration of each run, and the module of each theorem, are in
`PROJECT.json`. A proof module takes up to a few minutes from scratch.
