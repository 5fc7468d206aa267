# A verification project for Loci Terminal

Loci Terminal serves persistent terminals to browsers. Every tab is a tmux
session `lt_<id>`; a Go server keeps the tabs' rows in SQLite and connects each
browser's WebSocket to a `tmux attach` client of its own; a React front end
keeps the list of tabs, one xterm and one socket per tab, and notices when a
tab in the background has become quiet.

This directory holds TLA+ modules of that system, TLC configurations that
check them on small instances, and proofs checked by TLAPS.

## 1. Inventory

| component | state | operations | how it interacts |
|---|---|---|---|
| `internal/tmux` Manager | `mu`, `sessions` (id -> handle), `lastSize` (id -> size) | Attach, Detach, Resize, KillSession, Shutdown | called by WebSocket and REST handlers concurrently; runs tmux commands, some of them under the lock |
| `internal/tmux` Session (a handle) | `closed`, the pty master, the attach client process | Read, Write, Resize, Close, ClosePTMX | owned by one WebSocket handler, closed by it, by a newer Attach, by KillSession or Shutdown |
| tmux server (external) | sessions by name, window sizes, attach clients | has-session, new-session, attach-session, resize-window, kill-session | sessions end on their own when their shell exits; the server outlives ours |
| `internal/ws` HandleTerminal | per connection: the handler, two pumps, `done`, `once` | attach, announce, forward both ways, shutdown, detach | handler and pumps are goroutines; the handler does not wait for the pumps |
| `internal/api` workspaces, sessions | none between statements | list, create, update, delete | several SQL statements and tmux commands per request, no transaction |
| `internal/store` SQLite | workspaces, sessions (foreign key, cascade), auth_config | one statement each | |
| `internal/server` auth, `internal/api` auth | session tokens, WebSocket tickets, password hash | setup, login, logout, ticket, requireAuth | every handler is behind requireAuth |
| `internal/api` upload, `TerminalView` | files in `~/uploads`; per drop, the file it awaits | drop, upload, paste the path | overlapping uploads of one name; pastes into a tab's terminal |
| `cmd/lociterm` main | | start, shutdown on a signal | stops tmux clients and the store before the HTTP server |
| front end `appStore` | workspaces, sessions, active ids, requests in flight | init, create, delete, rename, switch, poll | awaits the REST API in the middle of most operations |
| front end activity tracking | busy bursts, idle timers, unread flags, toasts | markSessionOutput and its timer, view, dismiss | fed by every output frame |
| front end `useTerminal` | per tab: socket, ticket request, reconnect timer, sent size | connect, reconnect with backoff, resize | drives HandleTerminal |
| terminal input (`useTerminal`, `shiftEnter`, `MobileInputBar`, `TerminalView`) | per tab: listeners bound, `composing`, the suppression after a composition, the textarea's lock; the bar's text | key, composition, paste, bar, change of screen | IME and browser on one side, the socket on the other |
| page start (`App`, `LoginForm`, `init`) | `authState`, the form's `loading`, what init has read so far | check, set up, log in, list, create what is missing | one request after another to auth and REST handlers |
| `Sidebar` names | `editingId`, `editName`, `contextMenu`, the new-workspace field | edit, commit, menu, create, delete | overlapping requests whose answers replace entries of the store |
| rendering, themes, installer | | | not modelled: presentation and I/O; only what rendering throws on is in `AppStore` and `PageStart` |

What is hard here is concurrency between connections to the same tab, things
that change behind the back of a cache or a flag (a shell that exits, a tmux
session that is killed), operations made of several statements that others
interleave with or a stop cuts short, answers that arrive after the state they
were computed from has changed, and browsers that reconnect whatever happens.
`PROJECT.json` lists the single hazards, each at its line.

What makes each part correct:

- manager: one live attach client per tab, the newest connection's; nothing a
  late caller does takes another's client away; no client process without an
  owner; the size cache never contradicts what was sent.
- WebSocket handler: it returns when displaced or left, its goroutines end, its
  client is reaped, and it calls the manager as the manager expects.
- REST, store and tmux together: rows have parents, order follows creation, and
  a tmux session without a row has a known reason.
- browser store: alone, it shows what the server has; disturbed, the poll
  repairs it as long as the page is up; alerts are kept until something about their tab ends them.
- browser connection: one at a time, never none for good, the right size.
- authentication: with a password, nothing without a live token or a ticket; a
  password that was accepted stays.
- page start: it ends with a usable form or with a tab, makes a Default
  workspace for want of any, and fails only for a reason.
- terminal input: what is entered is sent once, in order, and never in pieces.
- names: a workspace gets the name meant for it, and the sidebar shows it.
- uploads: nothing overwrites or removes another's file; failures clean up;
  the path arrives where the file was dropped.

## 2. Modules

| module | models | against |
|---|---|---|
| `AttachSlot` | what the manager promises its callers: at most one live client per tab, the newest connection's; nobody else's client is taken away by a detach | abstract |
| `TmuxManager` | `internal/tmux` and, as an external part, the tmux server | refines `AttachSlot` |
| `TerminalHandler` | `internal/ws` over `INSTANCE TmuxManager` | refines `TmuxManager` |
| `SessionLifecycle` | REST create and delete, the store's rows, the tmux sessions behind them, reconnecting browsers, server restarts | |
| `AppStore` | the browser store under overlapping requests, polls and other browsers; bursts, idle timers, unread marks, toasts | |
| `TerminalSocket` | a browser's connection to one tab: tickets, sockets, reconnects, sizes; the page's sign-in and the server's check of it | |
| `FileUpload` | files dropped on a terminal: the browser's loop and the upload handlers | |
| `TerminalInput` | from keys, compositions, pastes and the input bar to the socket | |
| `PageStart` | loading the page: check, set-up, login and init of several browsers, and the server's shutdown and restart under them | |
| `WorkspaceNames` | the sidebar's editor, menu and field, and the requests behind them | |
| `TmuxManagerProofs`, `TerminalHandlerProofs`, `SessionLifecycleProofs`, `AppStoreProofs`, `TerminalSocketProofs`, `FileUploadProofs`, `TerminalInputProofs`, `PageStartProofs` | theorems about them; those about `WorkspaceNames` are the second part of `TerminalInputProofs` | |
| `MC*` | the instances TLC checks | |

### TmuxManager

A *handle* is the `*Session` of one WebSocket connection; `SessionOf` says which
tab it asked for. `sessions` and `lastSize` are the manager's maps, `mu` its
lock, `handle`/`ptmx`/`client` the state of each handle, its pty and its attach
client process. `alive`, `winSize` and `ended` are the tmux server.

Attach takes the lock and runs two commands under it, with tmux free to move in
between, so it is `AttachEnsure` (has-session, new-session) followed by
`AttachInstall` (attach-session, close a prior handle, take the slot) or, on an
error, `AttachNoSession`/`AttachNoPty`. KillSession is `KillLocked`, then
`KillTmux` after the unlock. Detach, Resize and Shutdown contain nothing that
another actor could see half done and are one step each. tmux sessions end at
any time (`ShellExit`), and the process may end at any time (`Restart`).

The environment is the most general one that keeps the contract in Attach's
comment: every connection attaches at most once, detaches its own handle at most once,
and may call Resize and ClosePTMX from the moment it has a handle to after its
detach. `TerminalHandler` is then shown to be such an environment.

### TerminalHandler

Per connection the handler's `pc`, the two pumps, `done`, and `once`, which is
the step `shutdown` is at (the second caller of `once.Do` waits). Blocking reads
and writes are actions that are only enabled when they return. Terminal bytes
carry no data: what matters of a read or a write is whether it returns, blocks
or fails. A browser may close its end (`PeerLeaves`) or simply send nothing more.

### SessionLifecycle

A request is a program counter and what it read so far; every SQL statement and
every tmux command is a step. Workspace and session rows are one table whose
rows have a parent (`Root` or a workspace). A browser can connect to every tab
it has ever seen, because HandleTerminal does not look at the database. Titles
and names are left out, and so are the updates that only change them: those of
workspaces are in `WorkspaceNames`.

### AppStore

The variables of the store have its names; `track` and `timers` are the module
variables `busyTrack` and `idleTimers` beside it. An operation that awaits the
server is a `call`: a step of the user or of the poll sends it, `Serve` lets the
server carry it out and remember the answer, and an `Apply...` action is the
code after the await, which updates whatever the store holds by then. `Fail` is
a request that is lost, `Foreign` another browser. `Refuse` is an answer with an
error, a 401 or a 500: client.ts:5 does not look at the status, so the promise
resolves and the code after the await goes on with the error's body. Taken for a
tab or a workspace, it is one without an id (`Undefined`, which createWorkspace
then asks a first tab for); taken for a list, it is `ErrorBody`, which is stored
by the poll and by a toast's click like any list. Spreading it, filtering it or
going through it throws: the `Apply...` actions say what has been changed by
then. Rendering it throws as well, in the tab bar for the active workspace and in
the sidebar, when it is on screen, for any; no error boundary catches that, so
the whole page goes (`Rendered`, `broken`), and with it the poll's interval, the
listeners and all that can be clicked, until the page is loaded again. The store,
its idle timers and the sockets live on. init may have left such lists, too.
The user's steps carry the
conditions of the interface that offers them (a tab can be clicked when it is
listed, a toast when it is shown). An operation with two requests, such as
createWorkspace, is two calls, the second sent by the code after the first.

Ids are handed out once (`Issue`), and the lists `init` finds are lists of rows
with primary keys: no workspace twice, no tab in two workspaces. JavaScript's
`filter` is `KeepIn`, which is written with the positions of what is kept and not
with SelectSeq, a recursive operator, so that it can be reasoned about;
`MCAppStore` compares the two on all short lists.

`Output` is a frame of a tab that has a terminal, `Fire` its idle timer, whose
callback decides between a mark, a toast and nothing. Time is abstracted to
whether a burst has lasted longer than MIN_BUSY_MS when it becomes silent.

### TerminalSocket

An *attempt* is one run of connectWebSocket: asking for a ticket, then a socket.
`ws`, `connecting`, `attached`, `lastSent` and the two timers are fields of the
TerminalInstance. `Mount` and `Unmount` are the effect of `useTerminal` and its
cleanup; the instance lives on when its element is taken out of the page, and
so do its timers. The server's side is `Authorized` and `Admits` (requireAuth),
tickets, and for each attempt the size of the pty that HandleTerminal attached.
What goes wrong is a constant set, `Disturbances`: a lost request, a connection
that is dropped, a token or ticket that expires, a password set from elsewhere,
a restart, a page loaded again.

### FileUpload

A file is its drop and its place in it. `tab` and `named` are what the closure
of `onDrop` has, `at` the file it awaits; a request of its own has a handler
that goes through Check, Stat (one turn of uniqueUploadPath), Create and
Copy or CopyFails, whether or not the browser still waits for it.
`Candidates` gives the paths tried for a name, so that two names can share
some, as `f.txt` and `f (1).txt` do. Files stay when the process stops; a user
may take away any that nobody is writing.

### TerminalInput

An input is what the user is done with: a key, a composed text, a paste, a line
of the bar. It is a number, in the order of entry; `Piece` is any intermediate
form of a text still being composed. `composing` and `suppressing` are the two
gates of the onData listener, `listeners` counts how often it is bound, `sent`
is what was written to the socket. The IME is external: `preedit` is the truth
`composing` follows, pieces may leak into onData, a composed text may come again
(`Echo`), and a composition whose textarea leaves the page or is locked may end
with or without an event (`Interrupt`). `back` is a text an Enter in
mid-composition has sent from the bar and the browser has put back.

### PageStart

`page` says which form is shown or which answer is awaited, `wire` where the
page's one request is: asked, inside Setup (`checked`), answered. Each request
has a `Serve...` action of the server and one of the page for the code after the
await, which sends the next. `server` is up, `closing` (Server.Shutdown has
closed the store and HTTP still serves, so `HasPassword` fails and its callers
take that for no password) or down; `Restart` forgets every session. A page may
be loaded again and a connection may break at any time. The request the page was
waiting for is then lost with its answer, or it is the browser's `stray`: its
handler goes on (`StrayCheck`, `StrayStore`, `StrayCreate`, `StrayAdd`), and what
it writes nobody is told. A session may expire. A page that has come up makes and
deletes workspaces and opens and closes tabs (`Use`), the rows that another
page's init reads. Passwords and hashes are the same thing, a tab is the workspace
it is in. `failed` is set when an await rejects or the body is an error's, until
the page is loaded again; a page that got an error's body for its list of tabs is
`blank`, because TabBar cannot map it and React takes the whole page down.
`looked` says how many workspaces had been made when a page's listing was answered.

### WorkspaceNames

`name` are the rows, `listed` is the store's list, `calls` the requests under
way, handled and answered in any order, a rename in the two statements of
UpdateWorkspace. The editor, the menu and the field have their React state's
names; `focus` decides which events can happen, so that a click on something
else is the blur that commits first. An error's body in place of a workspace is
`Broken`: it has no id, so nothing later finds it. `own` remembers the names
meant for a workspace, `disturbed` those for which the two sides may differ.

## 3. Runs

| run | checks | instance |
|---|---|---|
| `tmux_manager` | TypeOK, SlotsHoldTheLive, CacheNotContradicted, ImplementsAttachSlot | 2 tabs, 2 connections on the first and 1 on the second, 1 delete at a time, 2 sizes, 1 restart |
| `terminal_handler` | TypeOK, ReturnedIsReaped, LegalManagerUse | 2 handlers on one tab with all their goroutines, 1 delete |
| `terminal_handler_live` | HandlersReturn, PumpsEnd | 2 handlers on one tab, 1 size, 1 restart |
| `session_lifecycle` | TypeOK, CreatesSortInOrder, OrphansHaveExcuse | 1 workspace, 2 tabs, 2 requests at a time, 1 restart |
| `app_store` | TypeOK, SoleActorIsExact, PollRepairs | 2 workspaces and a third to create, 3 tabs and a fourth, 2 requests in flight, 4 acts, no output; any of init's lists an error |
| `app_activity` | ToastsAreCurrent, TimersMatchBursts, AlertsOutliveOthers | the same lists, 1 request in flight, 2 noisy tabs, 1 toast, 4 acts |
| `terminal_socket` | TypeOK, OneConnection, NeverStranded, SizeIsCurrent, ComesBack | 3 attempts, 2 sizes, every disturbance, 8 acts |
| `file_upload` | TypeOK, UploadsAreKept, NoStrayFiles, PastedWhereDropped, DropsEnd | 2 tabs, drops of 2 files and of 1, 2 names sharing a path, 3 paths, 1 of them taken, 2 acts |
| `terminal_input` | TypeOK, SentAsEntered, LossIsExcused, LockFollowsScreen | 2 tabs, 3 inputs |
| `page_start` | TypeOK, SetupIsKept, ReadyShowsATab, DefaultOnlyWhenEmpty, PagesComeUp | 2 browsers, with and without a session of before, 1 of them sure of an answer, 2 passwords, no workspace at first, 4 at most, 4 acts, 1 fault, 1 request left behind per browser |
| `workspace_names` | NamesTypeOK, NamesAgree, OwnNames | 2 workspaces and a third to create, 2 new names, 2 requests at a time, 9 acts, 1 fault |
| `deleted_is_terminated` | DeletedIsTerminated, violated | that of `session_lifecycle` |

Why the bounds are enough: every race in the manager is between two connections
to one tab, a delete and tmux; the second tab is there to see that one tab's
operations leave the other's alone, and the second size so that a resize can
differ from the cached one. Two handlers are a displaced one and the one that
displaces it. `MCBound` keeps the second handler of the liveness run from
serving: it displaces the first, fails to be announced and leaves; the first
goes through all of its states. Symmetry is used for sizes, handles, tabs and
requests in runs of safety properties only. `CHECK_DEADLOCK FALSE` stands where
the instance runs out of connections, ids or drops, or where users may simply
do nothing more.

In the browser modules `MaxActs` bounds what users, other browsers and failures
do; timers, answers and polls are not bounded by it, so every run continues
until things have settled, and "once nothing disturbs it" is
`<>[][acts' = acts]_vars`. A lost or refused request is one of these acts. `app_store` leaves the activity tracking out
(`Noisy = {}`) and `app_activity` has one request in flight: overlap and alerts
are checked apart to keep each instance small, and the proofs about alerts
cover both together. `MaxListed` bounds the lists a user adds to. One toast is
the smallest stack that two tabs can compete for. Correct code needs two
attempts at a time, the one that closes and the one that follows; the third is
there for code that starts one too many. In `file_upload` the second candidate
of one name is the first of the other, so that the two drops race for a path
both for the same and for different names, and run out of candidates.

Three inputs are a composed text, the repetition a browser makes of it and one
more that may get in between, on the same terminal or on the other. Two browsers
overlap in every step of Setup and of init. Four acts are two loads and two
forms, a load again while a set-up or a create is under way, or two loads while
the first page deletes the workspace and makes another. One fault is a shutdown
with its restart, a broken connection or a session that expires; a reload leaves
requests behind without one. A browser leaves at most one request behind that
writes. The browsers are alike, so it is enough that the liveness is checked of
one (`Attended`); the other's requests may hang. The workspace that a page of an
earlier day would find is the one the first page makes.
In `workspace_names` a rename takes three acts (open, type, commit), so
nine are two overlapping renames and a third that repairs them; there is a
second workspace for the editor to move to and the third for a create to overlap.

One property is violated. It states what README.md:135 says of deleting a tab
(quoted in `PROJECT.json`, "findings"): `DeletedIsTerminated`. A browser that
still shows a deleted tab reconnects and re-creates its tmux session.

The models show other behaviour a reader may not expect. It is no violation of
anything a run states; the properties are written around it, and say so. Of the
backend:

- the *recreated* flag is also set for the first connection to a new tab
  (manager.go:97), which is told that its previous session was lost;
- the size cache survives the end of the tmux session, so a resize of its
  replacement may be skipped (manager.go:173); `CacheNotContradicted` says how
  far the cache can be wrong;
- the flag is lost with the Attach that set it: when that one fails after
  new-session (manager.go:101), or its attached frame cannot be written
  (handler.go:89), the next one reports an old session, although the comment at
  manager.go:70 has the banner in mind for just this;
- two set-ups at the same time are both answered with success, and the password
  is that of the one that stored last (auth.go:50, 70);
- between the close of the store and the end of HTTP (main.go:62), HasPassword's
  error counts as no password: a page loaded in that window shows the set-up form
  until it is loaded again, and what is entered there is refused;
- of two uploads that find the same name free, the second to create it gets a
  500 instead of the next name (upload.go:88).

Of the page and its connections:

- after a restart with a password set, an open page's session is forgotten: its
  tickets are refused and it goes on trying, without ever asking for the password,
  until it is loaded again (server.go:36, useTerminal.ts:222; README.md:133
  speaks of a reattach as if nothing had happened);
- a terminal that reconnects while another tab is shown comes back on display
  with a pty of 120 x 40, because the size sent on the old connection is taken
  for this one's (useTerminal.ts:358);
- a fetch that rejects leaves the password form disabled (LoginForm.tsx:23), or
  the page at "Loading..."; so does an error's body as the list of workspaces,
  while as the answer to a create it is taken for a workspace (appStore.ts:124);
- two pages that start at the same time may each make a Default workspace; so may
  one that is loaded again while its create is under way;
- an error's body in answer to a poll or a toast's click (a session that has
  expired or that a restart has forgotten, or a store that fails) is stored as the
  workspace's list, on which the tab bar throws: the page goes blank, and only
  loading it again helps (appStore.ts:271, TabBar.tsx:60). `PollRepairs` is about
  pages that are up. In answer to a create it becomes a tab without an id, which
  the next poll takes away;
- closing a tab puts another on display without clearing its unread mark
  (appStore.ts:184, 300);
- a click on a toast first treats the tab its workspace remembers as viewed, and
  drops that tab's burst (ToastContainer.tsx:39);
- two drops on one page share one "Uploading" label, which the first to end
  takes away (TerminalView.tsx:95); the label is not modelled;
- the terminal instance of a deleted tab is never disposed of: nothing but a
  test calls disposeTerminal.

Of the input:

- what is entered within 50 ms after a composition, or while the socket is not
  open, is dropped without a sign; so is the path of an upload that comes to be
  pasted then, since it goes through onData too;
- Shift+Enter does not pass the gate, so it overtakes the text being composed;
- a composition whose end the browser does not report leaves the terminal deaf
  until the next composition (useTerminal.ts:155);
- the bar clears its text whether or not sendToTerminal could send it, and loses
  it when the window becomes wide (MobileInputBar.tsx:50, TerminalPanel.tsx:34);
- an Enter that ends a composition in the bar sends the text, and a browser may
  put it back, to be sent again (MobileInputBar.tsx:59).

Of the names:

- renames of one workspace that overlap may leave list and server with different
  names, and nothing lists the workspaces again, so another browser's changes do
  not show either;
- the answer to a rename closes whichever editor is open by then (Sidebar.tsx:69);
- an error's body in answer to a rename replaces the entry by one without an id,
  which stays until the page is loaded again (appStore.ts:211);
- Enter twice in the new-workspace field creates two;
- README.md:120 and 146 promise a context menu on tabs; TabBar.tsx has none, and
  nothing calls the store's renameSession.

### Fairness

- `TerminalHandler`: weak fairness for each goroutine's steps that are not
  waiting for somebody else (Go schedules every runnable goroutine) and for a
  KillSession call that has begun. Nothing is assumed of browsers, shells,
  output or frames, nor that an attach client ever reads its input; the
  properties say so where it matters (`HandlersReturn` excepts a pump that is
  stuck typing).
- `AppStore`: the poll's interval fires, the server answers requests that are
  not lost, and the code after an await runs. Idle timers are not assumed.
- `TerminalSocket`: timers, callbacks and the ResizeObserver run, the server
  takes its steps and frames arrive unless the connection is dropped.
- `FileUpload`: handlers run, and answers that are not lost are received.
- `PageStart`: for each browser whose page is to come up, the handler of its
  request runs, its answer is received, or a server that is down refuses it.
  Nothing is assumed of the others' requests, nothing says that a server is
  started again, nor that a request left behind is ever handled.

Nothing is ever assumed of users. The other modules state no fairness.

## 4. Proofs

For all values of the constants, under the named assumption on the constants of
each module:

- `TmuxManagerProofs`: `TypeCorrect`, `NoClientLeaks`,
  `CacheIsSound`, `Implementation`. The inductive invariant `IInv` adds to the
  checked invariants whose Attach holds the lock (`LockHolder`: without it
  AttachInstall could install a handle nobody began) and that a handle is open
  exactly while it has a process to reap (`OpenHasClient`: it links the map,
  which speaks of handles, with the processes). The
  cache invariant is inductive relative to typing. The refinement shows that
  every action maps to an action of `AttachSlot` or a stutter; that Take closes
  exactly the tab's live clients needs that no client is leaked.
- `TerminalHandlerProofs`: `HandlersAreLegalCallers` (every step of the
  handlers is a step of TmuxManager or leaves it alone) and
  `NoClientOutlivesItsHandler`, from `HandleMatchesPc`, which says what the
  manager has for a handler at each point of its program, and the manager's
  `IInv`, which is carried over through the first theorem. `HandlerTypes` adds
  the types of the shutdown (`ShutdownTypes`).
- `SessionLifecycleProofs`: `NoDanglingRow` (no row without its workspace's row),
  from which ids can have rows and what a request in the middle of something
  holds, and `NoOtherOrphans`. `KeepsCreationOrder` rests on `OrderInv`: the rows
  a create has to sort after are still at or below the maximum it read when it
  inserts. That there is a maximum to read does not need an induction over the
  rows: their positions are bounded, which is part of the invariant, and the
  distances to the bound are natural numbers, of which one is least
  (`MaxOfBounded`). `LifecycleTypes` follows.
- `AppStoreProofs`: all of it holds for any number of overlapping requests and
  any output. What the filter of lists returns comes first: `KeepIn` keeps the
  order and just the elements asked for (`KeepInPositions`, `KeepInIs`,
  `WithoutIs`). Its induction over the positions is by least elements: the rank
  of a position grows by one from each kept position to the next (`RankStep`,
  `RankExists`). `StoreTyped` needs that an answer, or the error's body in its
  place, has what the code after the await is going to read (`CallOK`), and that
  what cannot be read throws before a list is changed. `BurstsHaveTimers` and the action property
  `AlertsAreKept` need the typing only. `ToastsCurrent` is inductive with it: of
  each step it is shown that it unmarks tabs with their toasts, marks one, or
  pushes a toast (`AlertSteps`), and that each of these keeps the stack.
- `SoleActor`, in the same module, is about a store that nothing interferes with.
  The checked invariant speaks of the moments without a request; in between, its
  inductive form `SoleInv` says by what the server's rows are ahead of the store's
  lists while the one request is under way (`Ahead`), that what is active,
  remembered or in a toast is listed (`Shown`, from which no list is an error's
  body, so that the page stays up), and, of the rows alone and
  whatever happens, that no id is in two places (`RowsDistinct`): without it a
  close could take away a tab of another workspace. `Alone` adds that there is one
  request at a time.
- `TerminalSocketProofs`: `SingleConnection` and `AlwaysRetries` are inductive
  together with the typing of attempts (`ConnectInv`): each is the reason the
  other's callbacks are legal. `NoResizeIsLost` needs what is between the
  terminal and the pty: the last size in the pipe, or the pty's if it is empty,
  is the last one sent (`SentIsLatest`), and a size not sent yet has a timer, a
  report or an attached frame on the way (`UnsentIsPending`). `TypeCorrect`
  follows.
- `FileUploadProofs`: `DropInv` says where a drop's loop is and which requests it
  has made (`LoopOK`). `DiskInv` adds to the two checked properties that a
  handler's candidate exists (`TriedOK`), that a handler that copies has its own
  file at its path (`WritesItsOwn`), that a file is at one path at most (`OnePath`: without it
  a removal could miss a copy), and what a stop leaves (`CutShort`): `UploadsStay`,
  `FailuresCleanUp`. `PasteInv` adds that what was pasted is behind the loop:
  `PathsArriveInOrder`. `TypeCorrect` combines them.
- `TerminalInputProofs`: `GateInv` ties `composing` and `suppressing` to what the
  IME does: composing holds for every text being composed, and besides only
  after an end that was not reported. `LineInv` says that what was sent ascends
  but for what came back. Every action is first shown to have the same `Effect`,
  a line that grows by at most the next input, and the effect to keep the
  invariant: `WritesAsEntered`, `LosesNothingElse`, `LocksWithScreen`,
  `TerminalInputTypes`.
- `TerminalInputProofs`, second part: `NamesTyped`, `SidebarAgrees` and
  `NamesAreOwn`. The proofs extend both modules, so that the definitions of
  `WorkspaceNames` are `NamesInit`, `NamesNext`, `NamesSpec` and `NamesTypeOK`.
  Every step is first shown to be one of few cases (`NamesSteps`): a request is
  handled, received, sent, lost or refused, or another browser changes a row. `NewOK`: before a workspace is
  listed, nothing but the request that made it is about it. `RepairsOK`: a rename
  that makes good is alone, and has read what is there. `CalmInv`: of a workspace
  that is not disturbed, all requests ask for the same, so that their order is
  of no matter, and until one is handled the list shows the row; `NamesAgree` is
  the case of no request. `GivenOK`, for the names: wherever a name is going to be
  taken from, the list, an answer or the editor, there are only names meant for
  that workspace.
- `PageStartProofs`: `FormInv` (who is between the two statements of Setup, for a
  page or for nobody, has no accepted password of another before it that did not
  overlap) gives `KeepsTheSetup`. `EmptyInv` (whoever is about to make a workspace,
  a page or a request left behind, knows that there is none, or one was made since
  it looked) gives `MakesOneDefault`. `TabInv` (what init has read is a tab that is
  there, or of a workspace in which one was closed or that was deleted) and
  `CalmInv` (while nothing failed and nothing was deleted, whoever is in init has
  its cookie and finds its workspace) give `StartsWithATab`. `PageStartTypes` is
  proved in four parts: the wire, the page, the rows and the requests left behind.

Only model-checked:

- liveness (`PumpsEnd`, `HandlersReturn`, `PollRepairs`, `ComesBack`, `DropsEnd`,
  `PagesComeUp`): TLAPS does not handle ENABLED, on which fairness rests.

Every invariant and every other action property that a passing run checks is
proved.

## 5. Not modelled, and the plan

In order:

1. Two browsers that show one tab and displace each other, each reconnecting
   when it is closed (manager.go:110): `TerminalSocket` composed with `AttachSlot`.
   Only both and the server together show that it goes on; each by itself takes
   the other for a handler that hangs.
2. Tickets that are never used: with a valid cookie, or no password, each
   reconnect leaves one behind in `wsTickets` (auth.go:65). `TerminalSocket` keeps
   one ticket per attempt.

Not modelled:

- themes and contrast, the sidebar's width and drawer, the permission banner:
  presentation without concurrency;
- the installer and the container images: I/O without state of the running system;
- which keys and queries the keyboard and media hooks recognise: what follows
  from them is in `TerminalInput`;
- GetCwd and the listing of tmux sessions (read only);
- a tab's title, which is written when the tab is created and by nothing the user
  interface reaches; `Manager.CreateSession`, `Session.Done` and the store's
  `renameSession`, `fetchWorkspaces` and `fetchSessions` (never called).
