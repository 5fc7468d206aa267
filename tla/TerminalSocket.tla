--------------------------- MODULE TerminalSocket ----------------------------
(***************************************************************************)
(* A browser's connection to one tab: the TerminalInstance of              *)
(* frontend/src/hooks/useTerminal.ts, the part of the server its requests  *)
(* go through (internal/server/auth.go, requireAuth), and the page around  *)
(* it (App.tsx, LoginForm.tsx).  The instance outlives its place on the    *)
(* page: when another tab is shown only its element is taken out of the    *)
(* container, and timers, socket and output go on.                         *)
(*                                                                         *)
(* An attempt is one run of connectWebSocket: the request for a ticket,    *)
(* then the WebSocket.  Terminal bytes, the backoff's delays and ticket    *)
(* and token strings are left out: a ticket is the attempt that has it,    *)
(* and there is one cookie, this browser's.  TmuxManager and               *)
(* TerminalHandler have the server's side of a connection in full; here it *)
(* is the size of the attach client's pty.                                 *)
(***************************************************************************)
EXTENDS Integers, Sequences

CONSTANTS
    Attempts,
    Sizes,          \* of the container, in columns and rows
    AttachSize,     \* the 120 x 40 HandleTerminal attaches with
    None,
    Disturbances,   \* bound: what can go wrong
    MaxActs         \* bound on steps of the user and disturbances

ASSUME TerminalSocketAssumption ==
    /\ None \notin Attempts \cup Sizes \cup {AttachSize}
    /\ MaxActs \in Nat

VARIABLES
    (* the server *)
    hasPassword,        \* auth_config has a row
    signedIn,           \* the cookie's token is in sessions, and not expired
    wsTickets,          \* attempts whose ticket is in wsTickets, and not expired
    server,             \* what it does for an attempt; denied: not upgraded
    pty,                \* size of the attach client's pty
    (* on the way *)
    greeting,           \* attached frames
    resizes,            \* resize frames
    (* the page *)
    page,               \* authState
    exists,             \* instances.has(sessionId)
    shown,              \* its element is in the container
    size,               \* the container's
    notice,             \* the ResizeObserver has to be told
    (* the instance *)
    attempt,            \* runs of connectWebSocket and their sockets' readyState
    ws, connecting, attached, lastSent,
    reconnectTimer, resizeDebounceTimer,
    (* history *)
    blind,              \* the last attached frame came while it was not shown
    acts                \* steps counted by MaxActs

serverVars == <<hasPassword, signedIn, wsTickets, server, pty>>
wireVars == <<greeting, resizes>>
pageVars == <<page, exists, shown, size>>
sizeVars == <<notice, resizeDebounceTimer, attached, lastSent, blind>>
connectVars == <<attempt, ws, connecting, reconnectTimer>>
vars == <<serverVars, wireVars, pageVars, sizeVars, connectVars, acts>>

Awaiting == {"asking", "granted", "refused"}    \* the ticket
Live == Awaiting \cup {"connecting", "open"}

TypeOK ==
    /\ hasPassword \in BOOLEAN /\ signedIn \in BOOLEAN
    /\ wsTickets \subseteq Attempts
    /\ server \in [Attempts -> {"none", "denied", "attaching", "serving", "gone"}]
    /\ pty \in [Attempts -> Sizes \cup {AttachSize, None}]
    /\ greeting \subseteq Attempts
    /\ resizes \in [Attempts -> Seq(Sizes)]
    /\ page \in {"setup", "login", "app"}
    /\ exists \in BOOLEAN /\ shown \in BOOLEAN /\ size \in Sizes /\ notice \in BOOLEAN
    /\ attempt \in [Attempts -> Live \cup {"idle", "closed"}]
    /\ ws \in Attempts \cup {None} /\ connecting \in BOOLEAN
    /\ attached \in BOOLEAN /\ lastSent \in Sizes \cup {None}
    /\ reconnectTimer \in BOOLEAN /\ resizeDebounceTimer \in BOOLEAN
    /\ blind \in BOOLEAN /\ acts \in 0 .. MaxActs

(* checkAuth *)
Landing == IF ~hasPassword THEN "setup" ELSE IF signedIn THEN "app" ELSE "login"

Init ==
    /\ hasPassword \in BOOLEAN /\ signedIn = FALSE
    /\ wsTickets = {}
    /\ server = [a \in Attempts |-> "none"] /\ pty = [a \in Attempts |-> None]
    /\ greeting = {} /\ resizes = [a \in Attempts |-> <<>>]
    /\ page = Landing
    /\ exists = FALSE /\ shown = FALSE /\ size \in Sizes /\ notice = FALSE
    /\ attempt = [a \in Attempts |-> "idle"] /\ ws = None /\ connecting = FALSE
    /\ attached = FALSE /\ lastSent = None
    /\ reconnectTimer = FALSE /\ resizeDebounceTimer = FALSE
    /\ blind = FALSE /\ acts = 0

-----------------------------------------------------------------------------
(* Connecting *)

Idle == CHOOSE a \in Attempts : attempt[a] = "idle"
ReadyState == IF ws = None THEN "none" ELSE attempt[ws]

(* MUTANT of Busy: forgets that a ticket is awaited. *)
SocketBusy == ReadyState \in {"connecting", "open"}

Busy == connecting \/ ReadyState \in {"connecting", "open"}

(* connectWebSocket up to its await *)
Connect ==
    IF Busy THEN UNCHANGED <<attempt, connecting>>
    ELSE /\ \E a \in Attempts : attempt[a] = "idle"
         /\ connecting' = TRUE
         /\ attempt' = [attempt EXCEPT ![Idle] = "asking"]

(* The reconnect timer expires. *)
Reconnect ==
    /\ reconnectTimer /\ reconnectTimer' = FALSE
    /\ Connect
    /\ UNCHANGED <<serverVars, wireVars, pageVars, sizeVars, ws>>

(* MUTANT of TicketFailed: gives up. *)
TicketDropped(a) ==
    /\ attempt[a] = "refused"
    /\ connecting' = FALSE
    /\ attempt' = [attempt EXCEPT ![a] = "idle"]
    /\ UNCHANGED <<serverVars, wireVars, pageVars, sizeVars, ws, reconnectTimer>>

(* The catch of connectWebSocket.  Setting the timer again replaces it. *)
TicketFailed(a) ==
    /\ attempt[a] = "refused"
    /\ connecting' = FALSE /\ reconnectTimer' = TRUE
    /\ attempt' = [attempt EXCEPT ![a] = "idle"]
    /\ UNCHANGED <<serverVars, wireVars, pageVars, sizeVars, ws>>

(* The rest of connectWebSocket: a closed socket makes way for a new one. *)
GotTicket(a) ==
    /\ attempt[a] = "granted"
    /\ attempt' = [b \in Attempts |->
            IF b = a THEN "connecting"
            ELSE IF attempt[b] = "closed" THEN "idle" ELSE attempt[b]]
    /\ ws' = a
    /\ UNCHANGED <<serverVars, wireVars, pageVars, sizeVars, connecting, reconnectTimer>>

(* onopen *)
Opened(a) ==
    /\ attempt[a] = "connecting" /\ server[a] \notin {"none", "denied"}
    /\ attempt' = [attempt EXCEPT ![a] = "open"]
    /\ connecting' = FALSE /\ attached' = FALSE
    /\ UNCHANGED <<serverVars, wireVars, pageVars, ws, reconnectTimer,
                   notice, resizeDebounceTimer, lastSent, blind>>

(* onclose, after onerror or not.  Frames still on the way are lost. *)
Closed(a) ==
    /\ attempt[a] \in {"connecting", "open"} /\ server[a] \in {"denied", "gone"}
    /\ attempt' = [attempt EXCEPT ![a] = IF a = ws THEN "closed" ELSE "idle"]
    /\ connecting' = FALSE /\ reconnectTimer' = TRUE
    /\ server' = [server EXCEPT ![a] = "none"]
    /\ wsTickets' = wsTickets \ {a}
    /\ greeting' = greeting \ {a} /\ resizes' = [resizes EXCEPT ![a] = <<>>]
    /\ UNCHANGED <<hasPassword, signedIn, pty, pageVars, sizeVars, ws>>

-----------------------------------------------------------------------------
(* The size.  A terminal that is not in the page has no dimensions. *)

(* proposeDimensions *)
Dimensions == IF shown THEN size ELSE None

(* MUTANT of CanSend: dimensions are not checked. *)
SocketOpen == ReadyState = "open"

CanSend == Dimensions # None /\ ReadyState = "open"

(* inst.ws.send: to whichever socket the instance has by now *)
SendSize ==
    /\ lastSent' = Dimensions
    /\ resizes' = [resizes EXCEPT ![ws] = Append(@, Dimensions)]

(* MUTANT of Greeted: skips a size it has sent before. *)
GreetedDeduped(a) ==
    /\ attempt[a] = "open" /\ a \in greeting
    /\ greeting' = greeting \ {a}
    /\ attached' = TRUE /\ blind' = ~shown
    /\ IF CanSend /\ lastSent # size THEN SendSize ELSE UNCHANGED <<lastSent, resizes>>
    /\ UNCHANGED <<serverVars, pageVars, connectVars, notice, resizeDebounceTimer>>

(* onmessage of an attached frame *)
Greeted(a) ==
    /\ attempt[a] = "open" /\ a \in greeting
    /\ greeting' = greeting \ {a}
    /\ attached' = TRUE /\ blind' = ~shown
    /\ IF CanSend THEN SendSize ELSE UNCHANGED <<lastSent, resizes>>
    /\ UNCHANGED <<serverVars, pageVars, connectVars, notice, resizeDebounceTimer>>

(* The ResizeObserver's callback.  It leaves a running timer alone when    *)
(* there is nothing to send.                                               *)
Observed ==
    /\ notice /\ notice' = FALSE
    /\ resizeDebounceTimer' = (resizeDebounceTimer \/ size # lastSent)
    /\ UNCHANGED <<serverVars, wireVars, pageVars, connectVars, attached, lastSent, blind>>

(* The debounce timer expires. *)
Debounced ==
    /\ resizeDebounceTimer /\ resizeDebounceTimer' = FALSE
    /\ IF size # lastSent /\ attached /\ CanSend THEN SendSize ELSE UNCHANGED <<lastSent, resizes>>
    /\ UNCHANGED <<serverVars, greeting, pageVars, connectVars, notice, attached, blind>>

-----------------------------------------------------------------------------
(* The user *)

(* The effect runs: the tab is shown, or the theme has changed.  Its       *)
(* cleanup has cleared the debounce timer; a new observer reports at once. *)
Mount ==
    /\ page = "app"
    /\ exists' = TRUE /\ shown' = TRUE
    /\ notice' = TRUE /\ resizeDebounceTimer' = FALSE
    /\ IF ReadyState \in {"none", "closed"} THEN Connect ELSE UNCHANGED <<attempt, connecting>>
    /\ UNCHANGED <<serverVars, wireVars, page, size, attached, lastSent, blind, ws, reconnectTimer>>

(* Another tab takes the container: cleanup and detachFromContainer *)
Unmount ==
    /\ shown /\ shown' = FALSE
    /\ notice' = FALSE /\ resizeDebounceTimer' = FALSE
    /\ UNCHANGED <<serverVars, wireVars, page, exists, size, attached, lastSent, blind, connectVars>>

ChangeSize ==
    /\ size' \in Sizes \ {size}
    /\ notice' = (notice \/ shown)
    /\ UNCHANGED <<serverVars, wireVars, page, exists, shown,
                   resizeDebounceTimer, attached, lastSent, blind, connectVars>>

(* The form's submit: Setup unless there is a password by now, or Login. *)
SignIn ==
    /\ \/ page = "setup" /\ ~hasPassword
       \/ page = "login" /\ hasPassword
    /\ hasPassword' = TRUE /\ signedIn' = TRUE
    /\ page' = "app"
    /\ UNCHANGED <<wsTickets, server, pty, wireVars, exists, shown, size, sizeVars, connectVars>>

(* The page is loaded again: nothing of the instance is left. *)
Reload ==
    /\ page' = Landing
    /\ exists' = FALSE /\ shown' = FALSE /\ notice' = FALSE
    /\ attempt' = [a \in Attempts |-> "idle"] /\ ws' = None /\ connecting' = FALSE
    /\ attached' = FALSE /\ lastSent' = None /\ blind' = FALSE
    /\ reconnectTimer' = FALSE /\ resizeDebounceTimer' = FALSE
    /\ greeting' = {} /\ resizes' = [a \in Attempts |-> <<>>]
    /\ wsTickets' = {} /\ server' = [a \in Attempts |-> "none"]
    /\ pty' = [a \in Attempts |-> None]
    /\ UNCHANGED <<hasPassword, signedIn, size>>

-----------------------------------------------------------------------------
(* The server *)

Background == UNCHANGED <<pageVars, sizeVars, ws, connecting, reconnectTimer>>

(* What requireAuth asks of a request that is not an upgrade *)
Authorized == ~hasPassword \/ signedIn

(* handleWebSocketTicket behind requireAuth *)
AnswerTicket(a) ==
    /\ attempt[a] = "asking"
    /\ attempt' = [attempt EXCEPT ![a] = IF Authorized THEN "granted" ELSE "refused"]
    /\ wsTickets' = IF Authorized THEN wsTickets \cup {a} ELSE wsTickets
    /\ UNCHANGED <<hasPassword, signedIn, server, pty, wireVars>> /\ Background

(* MUTANT of Admits: asks for the cookie before there is a password. *)
AdmitsCookie(a) == signedIn

Admits(a) == Authorized \/ a \in wsTickets

(* requireAuth and the upgrade.  A ticket is consumed only if it is needed. *)
Upgrade(a) ==
    /\ attempt[a] = "connecting" /\ server[a] = "none"
    /\ server' = [server EXCEPT ![a] = IF Admits(a) THEN "attaching" ELSE "denied"]
    /\ wsTickets' = IF Authorized THEN wsTickets ELSE wsTickets \ {a}
    /\ UNCHANGED <<hasPassword, signedIn, pty, wireVars, attempt>> /\ Background

(* HandleTerminal attaches and says so. *)
Attach(a) ==
    /\ server[a] = "attaching"
    /\ server' = [server EXCEPT ![a] = "serving"]
    /\ pty' = [pty EXCEPT ![a] = AttachSize]
    /\ greeting' = greeting \cup {a}
    /\ UNCHANGED <<hasPassword, signedIn, wsTickets, resizes, attempt>> /\ Background

(* A resize frame *)
Resize(a) ==
    /\ server[a] = "serving" /\ resizes[a] # <<>>
    /\ pty' = [pty EXCEPT ![a] = Head(resizes[a])]
    /\ resizes' = [resizes EXCEPT ![a] = Tail(@)]
    /\ UNCHANGED <<hasPassword, signedIn, wsTickets, server, greeting, attempt>> /\ Background

-----------------------------------------------------------------------------
(* Disturbances *)

(* A request for a ticket gets no answer. *)
LoseRequest(a) ==
    /\ attempt[a] = "asking"
    /\ attempt' = [attempt EXCEPT ![a] = "refused"]
    /\ UNCHANGED <<serverVars, wireVars>> /\ Background

(* The server's end of a connection is gone: attach-session failed, the    *)
(* attach client ended or was displaced, the network broke.                *)
Hangup(a) ==
    /\ \/ server[a] \in {"attaching", "serving"} /\ server' = [server EXCEPT ![a] = "gone"]
       \/ /\ server[a] = "none" /\ attempt[a] = "connecting"
          /\ server' = [server EXCEPT ![a] = "denied"]
    /\ pty' = [pty EXCEPT ![a] = None]
    /\ UNCHANGED <<hasPassword, signedIn, wsTickets, wireVars, attempt>> /\ Background

(* 7 days for a token, 30 s for a ticket *)
Expire ==
    /\ \/ signedIn /\ signedIn' = FALSE /\ UNCHANGED wsTickets
       \/ wsTickets # {} /\ wsTickets' = {} /\ UNCHANGED signedIn
    /\ UNCHANGED <<hasPassword, server, pty, wireVars, attempt>> /\ Background

(* The first visit of another browser sets the password. *)
OtherSetup ==
    /\ ~hasPassword /\ hasPassword' = TRUE
    /\ UNCHANGED <<signedIn, wsTickets, server, pty, wireVars, attempt>> /\ Background

(* The process ends and starts again, with an empty authManager.  That is  *)
(* also how a forgotten password is removed (README.md:339).               *)
Restart ==
    /\ signedIn' = FALSE /\ wsTickets' = {}
    /\ hasPassword' \in {hasPassword} \cup IF "reset" \in Disturbances THEN {FALSE} ELSE {}
    /\ server' = [a \in Attempts |->
            IF server[a] \in {"attaching", "serving"} THEN "gone"
            ELSE IF attempt[a] = "connecting" /\ server[a] = "none" THEN "denied"
            ELSE server[a]]
    /\ pty' = [a \in Attempts |-> None]
    /\ attempt' = [a \in Attempts |-> IF attempt[a] = "asking" THEN "refused" ELSE attempt[a]]
    /\ UNCHANGED wireVars /\ Background

-----------------------------------------------------------------------------
UserStep == Mount \/ Unmount \/ ChangeSize \/ SignIn \/ Reload

Disturbance ==
    \/ "lost" \in Disturbances /\ \E a \in Attempts : LoseRequest(a)
    \/ "hangup" \in Disturbances /\ \E a \in Attempts : Hangup(a)
    \/ "expiry" \in Disturbances /\ Expire
    \/ "setup" \in Disturbances /\ OtherSetup
    \/ "restart" \in Disturbances /\ Restart

BrowserStep(a) == TicketFailed(a) \/ GotTicket(a) \/ Opened(a) \/ Greeted(a) \/ Closed(a)
ServerStep(a) == AnswerTicket(a) \/ Upgrade(a) \/ Attach(a) \/ Resize(a)

Timers == Reconnect \/ Observed \/ Debounced
Calm == UNCHANGED acts

Next ==
    \/ (UserStep \/ Disturbance) /\ acts < MaxActs /\ acts' = acts + 1
    \/ Timers /\ Calm
    \/ \E a \in Attempts : (BrowserStep(a) \/ ServerStep(a)) /\ Calm

(* The browser runs its timers and callbacks, requests that nothing        *)
(* disturbs are answered, and frames arrive.  Nothing is assumed of the    *)
(* user.                                                                   *)
Fairness ==
    /\ WF_vars(Reconnect /\ Calm) /\ WF_vars(Observed /\ Calm) /\ WF_vars(Debounced /\ Calm)
    /\ \A a \in Attempts :
        WF_vars(BrowserStep(a) /\ Calm) /\ WF_vars(ServerStep(a) /\ Calm)

Spec == Init /\ [][Next]_vars /\ Fairness
-----------------------------------------------------------------------------
(* Properties *)

(* The reconnect timer, the tab switch and a ticket that arrives can each  *)
(* lead to a socket (useTerminal.ts:205, 347, 221): there is at most one   *)
(* attempt at a time, connecting is set exactly until it has a socket that *)
(* is open or given up, and an open socket is the one input is sent to.    *)
OneConnection ==
    /\ \A a, b \in Attempts : attempt[a] \in Live /\ attempt[b] \in Live => a = b
    /\ connecting <=> \E a \in Attempts : attempt[a] \in Live \ {"open"}
    /\ \A a \in Attempts : attempt[a] \in {"connecting", "open"} => ws = a

(* A terminal never stays without a connection: one exists or is under     *)
(* way, or the reconnect timer runs, whichever callback came last.         *)
NeverStranded == exists => reconnectTimer \/ \E a \in Attempts : attempt[a] \in Live

Working ==
    /\ ReadyState = "open" /\ server[ws] = "serving" /\ attached
    /\ ws \notin greeting /\ resizes[ws] = <<>>

(* Nothing about the size is under way: no report, no timer, no frame. *)
Settled == Working /\ shown /\ ~notice /\ ~resizeDebounceTimer

(* Skipped resizes are redundant: a terminal on display whose attached     *)
(* frame came while it was on display has, at rest, the size of its pty,   *)
(* however resizes, tab switches, debouncing and reconnects were mixed     *)
(* (useTerminal.ts:253-260, 353-376).                                      *)
SizeIsCurrent == Settled /\ ~blind => pty[ws] = size

(* Once users and failures stop disturbing it, and as long as the server   *)
(* knows the browser's cookie, an opened terminal comes back for good, and *)
(* then comes to rest: every way out of an attempt leads to another one.   *)
ComesBack ==
    <>[][acts' = acts]_vars /\ <>[]Authorized
        => <>[](exists => Working /\ (shown => Settled))
=============================================================================
