------------------------------ MODULE AppStore -------------------------------
(***************************************************************************)
(* The browser's store (frontend/src/stores/appStore.ts) with the parts of *)
(* the user interface that call it.  Every operation that talks to the     *)
(* server is a request and, an await later, an update of whatever the      *)
(* store holds by then; in between the user, the 5 s poll, other requests  *)
(* and other browsers go on.  The second half is the activity tracking: a  *)
(* burst of output of a tab nobody looks at becomes, once it is silent for *)
(* IDLE_MS, an unread mark and a toast.                                    *)
(*                                                                         *)
(* A tab or workspace is its id.  Names, titles, cwd and timestamps are    *)
(* left out, and with them renaming.  Undefined is what JavaScript reads   *)
(* from a missing key.                                                     *)
(*                                                                         *)
(* api/client.ts does not look at the status of an answer: a 401 or 500    *)
(* resolves with its JSON body, and the continuation goes on with that.    *)
(* Where it expects a tab or a workspace the body has the id Undefined,    *)
(* and where it expects a list the body, ErrorBody, is no list: an update  *)
(* that iterates over it throws and changes nothing, and a component that  *)
(* renders it throws, which takes the whole page down.                     *)
(***************************************************************************)
EXTENDS Integers, SequencesExt

CONSTANTS
    Workspaces, Tabs,   \* ids
    Calls,              \* requests that can be in flight
    None, Undefined,    \* null, undefined
    ErrorBody,          \* the body of an error, in place of a list
    StartSpaces,        \* the workspaces init() finds, in their order
    StartTabs,          \* and the tabs of each
    MaxToasts,          \* MAX_TOASTS
    Noisy,              \* bound: tabs whose output is considered
    MaxListed,          \* bound on a list the user adds a tab to
    MaxActs             \* bound on steps of the user, of other browsers, and failures

(* What the browser takes for the id of a workspace *)
Spaces == Workspaces \cup {Undefined}

ASSUME AppStoreAssumption ==
    /\ None \notin Workspaces \cup Tabs \cup Seq(Tabs \cup {Undefined})
    /\ ErrorBody \notin {None} \cup Seq(Workspaces \cup Tabs \cup {Undefined})
    /\ Undefined \notin Workspaces \cup Tabs \cup {None}
    /\ StartSpaces \in Seq(Workspaces) /\ Len(StartSpaces) > 0 /\ IsInjective(StartSpaces)
    /\ StartTabs \in [Workspaces -> Seq(Tabs)]
    /\ Len(StartTabs[StartSpaces[1]]) > 0
    /\ \A w \in Workspaces : w \notin ToSet(StartSpaces) => StartTabs[w] = <<>>
    /\ \A v, w \in Workspaces : v # w => ToSet(StartTabs[v]) \cap ToSet(StartTabs[w]) = {}
    /\ Noisy \subseteq Tabs
    /\ MaxToasts \in Nat \ {0} /\ MaxActs \in Nat

VARIABLES
    (* the server *)
    spaces, tabs,           \* rows, in sort order: workspaces, tabs of each
    issued,                 \* ids handed out
    (* the store *)
    workspaces, sessions,
    activeWorkspaceId, activeSessionId, activeSessionByWorkspace,
    unread, toasts,         \* tabs with sessionActivity.unread; [tab, ws]
    (* beside the store *)
    broken,                 \* React has unmounted the page after an error
    track,                  \* busyTrack: no burst, a burst under MIN_BUSY_MS, a longer one
    timers,                 \* keys of idleTimers
    call,                   \* awaited requests
    visible,                \* document.visibilityState
    opened,                 \* Noisy tabs with an xterm and a socket
    (* history *)
    raced,                  \* a request overlapped something else, failed or was refused
    acts                    \* steps counted by MaxActs

serverVars == <<spaces, tabs, issued>>
listVars == <<workspaces, sessions>>
viewVars == <<activeWorkspaceId, activeSessionId, activeSessionByWorkspace>>
alertVars == <<unread, toasts, track, timers>>
vars == <<serverVars, listVars, viewVars, alertVars, broken, call, visible, opened, raced, acts>>

Call(op, w, t, at, reply) == [op |-> op, ws |-> w, tab |-> t, at |-> at, reply |-> reply]
NoCall == Call("none", None, None, "sent", <<>>)

TypeOK ==
    /\ spaces \in Seq(Workspaces) /\ tabs \in [Workspaces -> Seq(Tabs)]
    /\ issued \subseteq Workspaces \cup Tabs
    /\ workspaces \in Seq(Spaces)
    /\ sessions \in [Spaces -> Seq(Tabs \cup {Undefined}) \cup {None, ErrorBody}]
    /\ activeWorkspaceId \in Spaces \cup {None}
    /\ activeSessionId \in Tabs \cup {None, Undefined}
    /\ activeSessionByWorkspace \in [Spaces -> Tabs \cup {Undefined}]
    /\ unread \subseteq Tabs
    /\ toasts \in Seq([tab : Tabs, ws : Spaces])
    /\ track \in [Tabs -> {"none", "short", "long"}]
    /\ timers \subseteq Tabs
    /\ call \in [Calls -> [op : {"none", "poll", "click", "create", "close", "space", "first", "drop"},
                           ws : Spaces \cup {None}, tab : Tabs \cup {None, Undefined},
                           at : {"sent", "answered"},
                           reply : Seq(Workspaces \cup Tabs \cup {Undefined}) \cup {ErrorBody}]]
    /\ broken \in BOOLEAN /\ visible \in BOOLEAN /\ opened \subseteq Noisy
    /\ raced \in BOOLEAN /\ acts \in 0 .. MaxActs

(* list[0]?.id ?? null *)
FirstId(list) ==
    IF list \in {<<>>, ErrorBody} \/ Head(list) = Undefined THEN None ELSE Head(list)

Orphan(id) == id \in {None, Undefined}
ListOf(w) == IF w = None \/ sessions[w] = None THEN <<>> ELSE sessions[w]

(* Rendering an error's body as a list throws: the tab bar shows the       *)
(* active workspace's list, the sidebar all of them.  There is no error    *)
(* boundary, so the page is gone until it is loaded again, with its        *)
(* interval and its listeners; the store, its timers and the sockets go on.*)
TabBarThrows == ~Orphan(activeWorkspaceId) /\ ListOf(activeWorkspaceId) = ErrorBody
SidebarThrows == \E w \in ToSet(workspaces) : ListOf(w) = ErrorBody

(* What init() leaves: all lists loaded, in each workspace the first tab   *)
(* remembered, the first workspace active.  A store without workspaces, or *)
(* a first workspace without tabs, has got one by then.  Any of the lists  *)
(* may have been refused.                                                  *)
Init ==
    /\ spaces = StartSpaces /\ tabs = StartTabs
    /\ issued = ToSet(StartSpaces) \cup UNION {ToSet(StartTabs[w]) : w \in Workspaces}
    /\ workspaces = StartSpaces
    /\ \E refused \in SUBSET ToSet(StartSpaces) :
        /\ sessions = [w \in Spaces |-> IF w \in refused THEN ErrorBody
                                       ELSE IF w \in ToSet(StartSpaces) THEN StartTabs[w] ELSE None]
        /\ activeSessionByWorkspace = [w \in Spaces |->
                IF w \in ToSet(StartSpaces) \ refused /\ StartTabs[w] # <<>> THEN StartTabs[w][1]
                ELSE Undefined]
        /\ raced = (refused # {})
    /\ activeWorkspaceId = StartSpaces[1]
    /\ activeSessionId = FirstId(sessions[StartSpaces[1]])
    /\ unread = {} /\ toasts = <<>>
    /\ track = [t \in Tabs |-> "none"] /\ timers = {}
    /\ call = [c \in Calls |-> NoCall]
    /\ broken \in BOOLEAN /\ (TabBarThrows => broken) /\ (broken => SidebarThrows)
    /\ visible = TRUE /\ opened = IF broken THEN {} ELSE {activeSessionId} \cap Noisy
    /\ acts = 0

-----------------------------------------------------------------------------
(* Helpers *)

InFlight == \E c \in Calls : call[c] # NoCall

(* An error's body has no tabs. *)
Ids(list) == IF list = ErrorBody THEN {} ELSE ToSet(list)

(* What the user can see and click *)
Usable == visible /\ ~broken
SidebarUp == Usable /\ ~SidebarThrows

(* The elements of s that are in S, in their order.  Spelled out by their  *)
(* positions, so that it can be reasoned about: the n-th one is the one    *)
(* with n of them up to it.                                                *)
Kept(s, S) == {i \in 1 .. Len(s) : s[i] \in S}
Rank(K, i) == Cardinality({k \in K : k <= i})
KeepIn(s, S) ==
    LET K == Kept(s, S)
    IN  [n \in 1 .. Cardinality(K) |-> s[CHOOSE i \in K : Rank(K, i) = n]]

Without(list, x) == KeepIn(list, ToSet(list) \ {x})

(* The tab setActiveWorkspace shows: the remembered one if the list still  *)
(* has it, else the first.                                                 *)
NextActive(w, list) ==
    LET last == activeSessionByWorkspace[w]
    IN  IF last # Undefined /\ last \in Ids(list) THEN last ELSE FirstId(list)

(* MUTANT of CancelTracking: clears the timer only. *)
CancelTimer(S) == timers' = timers \ S /\ UNCHANGED track

(* cancelIdleTracking *)
CancelTracking(S) ==
    /\ timers' = timers \ S
    /\ track' = [t \in Tabs |-> IF t \in S THEN "none" ELSE track[t]]

(* MUTANT of ClearAlerts: the toast stays. *)
Unmark(S) == unread' = unread \ S /\ UNCHANGED toasts

(* MUTANT of ClearAlerts: clears them all. *)
ClearAll(S) == unread' = {} /\ toasts' = <<>>

ClearAlerts(S) ==
    /\ unread' = unread \ S
    /\ toasts' = KeepIn(toasts, {x \in ToSet(toasts) : x.tab \notin S})

Seen(S) == CancelTracking(S) /\ ClearAlerts(S)

(* A new request takes a free slot; which one makes no difference. *)
Send(op, w, t) ==
    /\ \E c \in Calls : call[c] = NoCall
    /\ call' = [call EXCEPT ![CHOOSE c \in Calls : call[c] = NoCall] =
                    Call(op, w, t, "sent", <<>>)]

Request(op, w, t) ==
    /\ Send(op, w, t)
    /\ UNCHANGED <<serverVars, listVars, viewVars, alertVars, visible>>

(* Bound: ids are left for the requests under way and one more. *)
Pending(ops) == Cardinality({c \in Calls : call[c].op \in ops})
SpareTab == Cardinality(Tabs \ issued) > Pending({"space", "create", "first"})

Local == UNCHANGED <<serverVars, call>>

-----------------------------------------------------------------------------
(* The user, while the page is visible *)

NewTab ==
    /\ Usable /\ ~Orphan(activeWorkspaceId)
    /\ SpareTab
    /\ Len(ListOf(activeWorkspaceId)) < MaxListed
    /\ Request("create", activeWorkspaceId, None)

(* The tab bar shows no close button on a single tab. *)
CloseTab(t) ==
    /\ Usable /\ ~Orphan(activeWorkspaceId)
    /\ Len(ListOf(activeWorkspaceId)) > 1
    /\ t \in ToSet(ListOf(activeWorkspaceId))
    /\ Request("close", None, t)

NewSpace ==
    /\ SidebarUp /\ SpareTab
    /\ Cardinality(Workspaces \ issued) > Pending({"space"})
    /\ Request("space", None, None)

(* The menu offers no delete for a single workspace. *)
DropSpace(w) ==
    /\ SidebarUp /\ Len(workspaces) > 1 /\ w \in ToSet(workspaces)
    /\ Request("drop", w, None)

(* setActiveWorkspace with the list at hand *)
Switch(w) ==
    /\ SidebarUp /\ w \in ToSet(workspaces) /\ sessions[w] # None
    /\ LET next == NextActive(w, sessions[w])
       IN  /\ activeSessionId' = next
           /\ activeSessionByWorkspace' =
                IF next = None THEN activeSessionByWorkspace
                ELSE [activeSessionByWorkspace EXCEPT ![w] = next]
           /\ Seen({next})
    /\ activeWorkspaceId' = w
    /\ Local /\ UNCHANGED <<listVars, visible>>

(* setActiveSession *)
Activate(t) ==
    /\ activeSessionId' = t
    /\ activeSessionByWorkspace' =
            IF Orphan(activeWorkspaceId) THEN activeSessionByWorkspace
            ELSE [activeSessionByWorkspace EXCEPT ![activeWorkspaceId] = t]
    /\ Seen({t})
    /\ UNCHANGED <<listVars, activeWorkspaceId>>

Select(t) ==
    /\ Usable /\ ~Orphan(activeWorkspaceId) /\ t \in ToSet(ListOf(activeWorkspaceId))
    /\ Activate(t)
    /\ Local /\ UNCHANGED visible

(* setActiveWorkspace, then setActiveSession, as one: nothing can run in   *)
(* between but the continuation itself.  The tab the workspace would have  *)
(* shown counts as seen, too.  Looking for a remembered tab in an error's  *)
(* body throws before anything has changed.                                *)
ShowFromToast(w, t, list) ==
    IF list = ErrorBody /\ activeSessionByWorkspace[w] # Undefined
    THEN UNCHANGED <<listVars, viewVars, alertVars>>
    ELSE /\ sessions' = [sessions EXCEPT ![w] = list]
         /\ activeWorkspaceId' = w
         /\ activeSessionId' = t
         /\ activeSessionByWorkspace' = [activeSessionByWorkspace EXCEPT ![w] = t]
         /\ Seen({NextActive(w, list), t})
         /\ UNCHANGED workspaces

(* The last alternative is a toast whose workspace this browser has deleted. *)
ClickToast(t, w) ==
    /\ Usable /\ [tab |-> t, ws |-> w] \in ToSet(toasts)
    /\ \/ /\ w = activeWorkspaceId
          /\ Activate(t) /\ Local /\ UNCHANGED visible
       \/ /\ w # activeWorkspaceId /\ sessions[w] # None
          /\ ShowFromToast(w, t, sessions[w]) /\ Local /\ UNCHANGED visible
       \/ /\ w # activeWorkspaceId /\ sessions[w] = None
          /\ Request("click", w, t)

Hide ==
    /\ visible /\ visible' = FALSE
    /\ Local /\ UNCHANGED <<listVars, viewVars, alertVars>>

(* onVisibility: clearSessionUnread of the tab that is on display.  The    *)
(* listener goes with the page.                                            *)
Show ==
    /\ ~visible /\ visible' = TRUE
    /\ IF broken \/ Orphan(activeSessionId) THEN UNCHANGED alertVars ELSE Seen({activeSessionId})
    /\ Local /\ UNCHANGED <<listVars, viewVars>>

-----------------------------------------------------------------------------
(* Polls and answers.  What the server does for a request is one step here *)
(* (SessionLifecycle has the detail).                                      *)

Poll ==
    /\ Usable /\ ~Orphan(activeWorkspaceId)
    /\ Request("poll", activeWorkspaceId, None)

Answer(c, reply) ==
    LET k == call[c]
    IN  call' = [call EXCEPT ![c] = Call(k.op, k.ws, k.tab, "answered", reply)]

(* The next id, which one makes no difference *)
Issue(S, id) ==
    /\ id \in S \ issued
    /\ id = CHOOSE x \in S \ issued : TRUE
    /\ issued' = issued \cup {id}

(* What the body of an error is for the continuation *)
Refusal(op) ==
    IF op \in {"poll", "click"} THEN ErrorBody
    ELSE IF op \in {"create", "first", "space"} THEN <<Undefined>>
    ELSE <<>>

Serve(c) ==
    LET k == call[c] IN
    /\ k.op # "none" /\ k.at = "sent"
    /\ \/ /\ k.op \in {"poll", "click"}
          /\ Answer(c, IF k.ws = Undefined THEN <<>> ELSE tabs[k.ws])
          /\ UNCHANGED serverVars
       \/ /\ k.op \in {"create", "first"} /\ k.ws \in ToSet(spaces)
          /\ \E t \in Tabs :
                /\ Issue(Tabs, t)
                /\ tabs' = [tabs EXCEPT ![k.ws] = Append(@, t)]
                /\ Answer(c, <<t>>)
          /\ UNCHANGED spaces
       \/ /\ k.op \in {"create", "first"} /\ k.ws \notin ToSet(spaces)
          /\ Answer(c, Refusal(k.op)) /\ UNCHANGED serverVars
       \/ /\ k.op = "close"
          /\ tabs' = [w \in Workspaces |-> Without(tabs[w], k.tab)]
          /\ Answer(c, <<>>) /\ UNCHANGED <<spaces, issued>>
       \/ /\ k.op = "space"
          /\ \E w \in Workspaces :
                /\ Issue(Workspaces, w)
                /\ spaces' = Append(spaces, w)
                /\ Answer(c, <<w>>)
          /\ UNCHANGED tabs
       \/ /\ k.op = "drop"
          /\ spaces' = Without(spaces, k.ws)
          /\ tabs' = [w \in Workspaces |-> IF w = k.ws THEN <<>> ELSE tabs[w]]
          /\ Answer(c, <<>>) /\ UNCHANGED issued
    /\ UNCHANGED <<listVars, viewVars, alertVars, visible>>

Answered(c, op) == call[c].op = op /\ call[c].at = "answered"
Done(c) == call' = [call EXCEPT ![c] = NoCall]
Background == UNCHANGED <<serverVars, visible>>

(* MUTANT of sessionsEqual: compares the lengths only. *)
SameLength(a, b) == a = b \/ (ErrorBody \notin {a, b} /\ Len(a) = Len(b))

sessionsEqual(a, b) == a = b

(* pollActive: the list replaces the one of the workspace that was active *)
(* when the poll was sent, unless it is the same; and so does an error.    *)
ApplyPoll(c) ==
    /\ Answered(c, "poll")
    /\ sessions' = IF sessionsEqual(ListOf(call[c].ws), call[c].reply) THEN sessions
                   ELSE [sessions EXCEPT ![call[c].ws] = call[c].reply]
    /\ Done(c) /\ Background /\ UNCHANGED <<workspaces, viewVars, alertVars>>

ApplyClick(c) ==
    /\ Answered(c, "click")
    /\ ShowFromToast(call[c].ws, call[c].tab, call[c].reply)
    /\ Done(c) /\ Background

(* createSession: the tab becomes active whatever workspace is by now; but *)
(* an error's body cannot be spread into a list.                           *)
ApplyCreate(c) ==
    LET w == call[c].ws
        t == Head(call[c].reply)
    IN  /\ Answered(c, "create")
        /\ IF ListOf(w) = ErrorBody
           THEN UNCHANGED <<sessions, activeSessionId, activeSessionByWorkspace>>
           ELSE /\ sessions' = [sessions EXCEPT ![w] = Append(ListOf(w), t)]
                /\ activeSessionId' = t
                /\ activeSessionByWorkspace' = [activeSessionByWorkspace EXCEPT ![w] = t]
        /\ Done(c) /\ Background /\ UNCHANGED <<workspaces, activeWorkspaceId, alertVars>>

(* MUTANT of AfterClose: leaves the memory alone. *)
KeepsMemory(w, t, next) == activeSessionByWorkspace

(* MUTANT of AfterClose: remembers null. *)
RemembersNull(w, t, next) ==
    IF activeSessionByWorkspace[w] # t THEN activeSessionByWorkspace
    ELSE [activeSessionByWorkspace EXCEPT ![w] = next]

(* What is remembered when t is closed in w and next is active then *)
AfterClose(w, t, next) ==
    IF activeSessionByWorkspace[w] # t THEN activeSessionByWorkspace
    ELSE [activeSessionByWorkspace EXCEPT ![w] = IF Orphan(next) THEN Undefined ELSE next]

(* deleteSession: taken out of the workspace that is active by now, if     *)
(* there is one and it has a list.                                         *)
ApplyClose(c) ==
    LET t == call[c].tab
        w == activeWorkspaceId
        left == Without(ListOf(w), t)
        next == IF activeSessionId = t THEN FirstId(left) ELSE activeSessionId
    IN  /\ Answered(c, "close")
        /\ CancelTracking({t})
        /\ IF Orphan(w) \/ ListOf(w) = ErrorBody
           THEN UNCHANGED <<sessions, viewVars, unread, toasts>>
           ELSE /\ sessions' = [sessions EXCEPT ![w] = left]
                /\ activeSessionId' = next
                /\ activeSessionByWorkspace' = AfterClose(w, t, next)
                /\ ClearAlerts({t})
                /\ UNCHANGED activeWorkspaceId
        /\ Done(c) /\ Background /\ UNCHANGED workspaces

(* createWorkspace is two requests: the workspace, then its first tab. *)
ApplySpace(c) ==
    /\ Answered(c, "space")
    /\ call' = [call EXCEPT ![c] = Call("first", Head(call[c].reply), None, "sent", <<>>)]
    /\ Background /\ UNCHANGED <<listVars, viewVars, alertVars>>

ApplyFirst(c) ==
    LET w == call[c].ws
        t == Head(call[c].reply)
    IN  /\ Answered(c, "first")
        /\ workspaces' = Append(workspaces, w)
        /\ sessions' = [sessions EXCEPT ![w] = <<t>>]
        /\ activeWorkspaceId' = w
        /\ activeSessionId' = t
        /\ activeSessionByWorkspace' = [activeSessionByWorkspace EXCEPT ![w] = t]
        /\ Done(c) /\ Background /\ UNCHANGED alertVars

(* deleteWorkspace: on to the first workspace, whichever was deleted.  It  *)
(* goes through the tabs of the deleted one first.                         *)
ApplyDrop(c) ==
    LET w == call[c].ws
        left == Without(workspaces, w)
        next == IF left = <<>> THEN None ELSE Head(left)
    IN  /\ Answered(c, "drop")
        /\ IF ListOf(w) = ErrorBody THEN UNCHANGED <<listVars, viewVars, alertVars>>
           ELSE /\ workspaces' = left
                /\ sessions' = [sessions EXCEPT ![w] = None]
                /\ activeWorkspaceId' = next
                /\ activeSessionByWorkspace' = [activeSessionByWorkspace EXCEPT ![w] = Undefined]
                /\ activeSessionId' =
                        IF Orphan(next) THEN None
                        ELSE IF activeSessionByWorkspace'[next] # Undefined
                                THEN activeSessionByWorkspace'[next]
                        ELSE FirstId(ListOf(next))
                /\ Seen(ToSet(ListOf(w)))
        /\ Done(c) /\ Background

Apply(c) ==
    ApplyPoll(c) \/ ApplyClick(c) \/ ApplyCreate(c) \/ ApplyClose(c)
        \/ ApplySpace(c) \/ ApplyFirst(c) \/ ApplyDrop(c)

(* A request is lost, before or after the server saw it, or its answer is  *)
(* no JSON: the promise is rejected and nothing after the await runs.      *)
Fail(c) ==
    /\ call[c] # NoCall
    /\ Done(c) /\ Background /\ UNCHANGED <<listVars, viewVars, alertVars>>

(* A request is answered with an error, for a token that has expired or a  *)
(* store that fails or is closed, and changes nothing on the server.  Its  *)
(* promise is resolved with the body.                                      *)
Refuse(c) ==
    /\ call[c].op # "none" /\ call[c].at = "sent"
    /\ Answer(c, Refusal(call[c].op))
    /\ Background /\ UNCHANGED <<listVars, viewVars, alertVars>>

(* Another browser deletes or creates. *)
Foreign ==
    /\ \/ \E w \in ToSet(spaces) : \E t \in ToSet(tabs[w]) :
            tabs' = [tabs EXCEPT ![w] = Without(@, t)] /\ UNCHANGED <<spaces, issued>>
       \/ \E w \in ToSet(spaces), t \in Tabs :
            /\ SpareTab
            /\ Issue(Tabs, t)
            /\ tabs' = [tabs EXCEPT ![w] = Append(@, t)]
            /\ UNCHANGED spaces
       \/ \E w \in ToSet(spaces) :
            /\ spaces' = Without(spaces, w) /\ tabs' = [tabs EXCEPT ![w] = <<>>]
            /\ UNCHANGED issued
    /\ UNCHANGED <<listVars, viewVars, alertVars, call, visible>>

-----------------------------------------------------------------------------
(* Activity *)

OnDisplay(t) == t = activeSessionId /\ visible

(* markSessionOutput, for each frame of a tab that has a socket *)
Output(t) ==
    /\ t \in opened
    /\ IF OnDisplay(t) THEN CancelTracking({t})
       ELSE /\ timers' = timers \cup {t}
            /\ \E burst \in IF track[t] = "none" THEN {"short"} ELSE {track[t], "long"} :
                    track' = [track EXCEPT ![t] = burst]
    /\ Local /\ UNCHANGED <<listVars, viewVars, unread, toasts, visible>>

(* The toast of t replaces an older one, and only MAX_TOASTS are kept. *)
PushToast(t, w) ==
    LET others == {x \in ToSet(toasts) : x.tab # t}
        kept == Append(KeepIn(toasts, others), [tab |-> t, ws |-> w])
    IN  toasts' = IF Len(kept) > MaxToasts THEN Tail(kept) ELSE kept

Homes(t) == {w \in Spaces : t \in Ids(ListOf(w))}
SomeErrorBody == \E w \in Spaces : ListOf(w) = ErrorBody

(* A tab that no list has gets no toast. *)
Announce(t) ==
    IF Homes(t) = {} THEN UNCHANGED toasts ELSE \E w \in Homes(t) : PushToast(t, w)

(* IDLE_MS of silence.  The lists are searched one after the other, and    *)
(* searching an error's body throws before anything is marked.             *)
Fire(t) ==
    /\ t \in timers
    /\ CancelTracking({t})
    /\ LET alert == track[t] = "long" /\ ~OnDisplay(t) /\ t \notin unread
       IN  \/ (alert => SomeErrorBody) /\ UNCHANGED <<unread, toasts>>
           \/ /\ alert /\ (Homes(t) = {} => ~SomeErrorBody)
              /\ unread' = unread \cup {t} /\ Announce(t)
    /\ Local /\ UNCHANGED <<listVars, viewVars, visible>>

(* dismissToast: the user's, or after TOAST_DURATION_MS on a page that is up *)
Dismiss(x) ==
    /\ ~broken /\ x \in ToSet(toasts)
    /\ toasts' = Without(toasts, x)
    /\ Local /\ UNCHANGED <<listVars, viewVars, unread, track, timers, visible>>

-----------------------------------------------------------------------------
UserStep ==
    \/ NewTab \/ NewSpace \/ Hide \/ Show
    \/ \E t \in Tabs \cup {Undefined} : CloseTab(t) \/ Select(t)
    \/ \E w \in Spaces : DropSpace(w) \/ Switch(w)
    \/ \E t \in Tabs, w \in Spaces : ClickToast(t, w)

Trouble == Foreign \/ \E c \in Calls : Fail(c) \/ Refuse(c)

Quiet ==
    \/ \E c \in Calls : Serve(c) \/ Apply(c)
    \/ \E t \in Tabs : Output(t) \/ Fire(t)
    \/ \E x \in ToSet(toasts) : Dismiss(x)

(* After each step the page is rendered, and the tab it shows is opened.   *)
(* Whether the sidebar is on screen, always on a wide one and on demand on *)
(* a narrow one, is not modelled: a step may find it there.                *)
Rendered ==
    /\ broken' \in BOOLEAN
    /\ broken \/ TabBarThrows' => broken'
    /\ broken' => broken \/ TabBarThrows' \/ SidebarThrows'
    /\ opened' = opened \cup IF broken' THEN {} ELSE {activeSessionId'} \cap Noisy

Counted == acts < MaxActs /\ acts' = acts + 1 /\ Rendered
Polled == raced' = (raced \/ InFlight) /\ UNCHANGED acts /\ Rendered
Calm == UNCHANGED <<raced, acts>> /\ Rendered

Next ==
    \/ UserStep /\ raced' = (raced \/ InFlight) /\ Counted
    \/ Trouble /\ raced' = TRUE /\ Counted
    \/ Poll /\ Polled
    \/ Quiet /\ Calm

(* Requests are answered and their continuations run, and the poll's       *)
(* interval expires.                                                       *)
Fairness ==
    /\ WF_vars(Poll /\ Polled)
    /\ \A c \in Calls : WF_vars(Serve(c) /\ Calm) /\ WF_vars(Apply(c) /\ Calm)

Spec == Init /\ [][Next]_vars /\ Fairness
-----------------------------------------------------------------------------
(* Properties *)

(* A browser that nobody disturbed shows what the server has: while no     *)
(* request overlapped another step and none failed or was refused, and     *)
(* none is under way, the page is up, all lists are the server's, the      *)
(* active tab is one of the active workspace's, and what is remembered for *)
(* a workspace is one of its tabs.                                         *)
(* deleteSession and deleteWorkspace have to choose a next tab, repair the *)
(* memory and drop the lists for this (appStore.ts:175-321).               *)
SoleActorIsExact ==
    ~raced /\ ~InFlight =>
        /\ ~broken /\ workspaces = spaces
        /\ \A w \in Workspaces :
            /\ sessions[w] = IF w \in ToSet(spaces) THEN tabs[w] ELSE None
            /\ activeSessionByWorkspace[w] \in ToSet(tabs[w]) \cup {Undefined}
        /\ activeWorkspaceId \in ToSet(spaces)
        /\ IF tabs[activeWorkspaceId] = <<>> THEN activeSessionId = None
           ELSE activeSessionId \in ToSet(tabs[activeWorkspaceId])

(* Once users, failures, refusals and other browsers (the steps acts       *)
(* counts) stop disturbing it, the 5 s poll makes the list of the active   *)
(* workspace on a visible page the server's for good, whatever stale       *)
(* answers were applied before, and whatever a refused create had put into *)
(* the list: a poll that left a different list alone (sessionsEqual) would *)
(* break this.  It does not repair a page that an error's body in place of *)
(* a list has taken down (appStore.ts:271-276, TabBar.tsx:60): that page   *)
(* has no poll any more, and has to be loaded again.                       *)
PollRepairs ==
    <>[][acts' = acts]_vars
        => <>[](Usable /\ ~Orphan(activeWorkspaceId) =>
                    ListOf(activeWorkspaceId) = tabs[activeWorkspaceId])

(* The toasts agree with the unread marks: a toast is of a tab that is     *)
(* marked unread (whatever unmarks a tab takes its toast away), no tab has *)
(* two, and there are at most MAX_TOASTS.                                  *)
ToastsAreCurrent ==
    /\ Len(toasts) <= MaxToasts
    /\ \A i \in 1 .. Len(toasts) :
        /\ toasts[i].tab \in unread
        /\ \A j \in 1 .. Len(toasts) : toasts[i].tab = toasts[j].tab => i = j

(* busyTrack and idleTimers are two maps with the same keys: a burst       *)
(* without a timer would never be noticed, a timer left behind by a view   *)
(* or a delete would mark the tab that was just seen or removed.           *)
TimersMatchBursts == timers = {t \in Tabs : track[t] # "none"}

(* An alert or a running burst of a tab is only dropped by something about *)
(* that tab: it comes on display, it is the one its workspace shows when   *)
(* that is switched to, its timer fires, or this browser deletes it.       *)
(* Deleting or viewing another tab must not take it away.                  *)
AlertKept(t) ==
    \/ t \in unread /\ t \notin unread'
    \/ track[t] # "none" /\ track'[t] = "none" /\ t \notin unread'
    => \/ activeSessionId' = t
       \/ \E w \in {activeWorkspaceId'} \ {None} : NextActive(w, sessions'[w]) = t
       \/ t \in timers /\ Fire(t)
       \/ \E c \in Calls : ApplyClose(c) /\ call[c].tab = t
       \/ \E c \in Calls : ApplyDrop(c) /\ t \in Ids(ListOf(call[c].ws))

AlertsOutliveOthers == [][\A t \in Tabs : AlertKept(t)]_vars
==============================================================================
