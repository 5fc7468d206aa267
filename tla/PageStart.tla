------------------------------ MODULE PageStart -------------------------------
(***************************************************************************)
(* How a browser's page comes up: checkAuth of App.tsx, LoginForm.tsx and  *)
(* init of stores/appStore.ts, against the handlers they call              *)
(* (internal/api/auth.go, workspace.go, session.go behind requireAuth of   *)
(* internal/server/server.go) and the rows those read and write            *)
(* (internal/store/sqlite.go), for several browsers and a server that is   *)
(* shut down and started again.                                            *)
(*                                                                         *)
(* A page waits for one request at most, but the server goes on with those *)
(* that a reload or a broken connection left behind (stray).  Passwords    *)
(* and hashes are the same thing, a token is the browser that got it, a    *)
(* tab is the workspace it is in, and of the lists of tabs that init reads *)
(* only the first one matters.  What happens on a page that has come up is *)
(* in AppStore and SessionLifecycle; here it is what it does to the rows.  *)
(***************************************************************************)
EXTENDS Integers, Sequences

CONSTANTS
    Browsers,
    Attended,       \* browsers whose requests are handled and answered, see Fairness
    Passwords,
    None,
    FirstSpaces,    \* workspaces there are at first
    MaxSpaces,      \* bound on workspaces
    MaxActs,        \* bound on what users do
    MaxFaults       \* bound on lost answers, expiries, shutdowns

ASSUME PageStartAssumption ==
    /\ None \notin Passwords /\ Attended \subseteq Browsers
    /\ FirstSpaces \in Nat /\ MaxSpaces \in Nat /\ FirstSpaces <= MaxSpaces
    /\ MaxActs \in Nat /\ MaxFaults \in Nat

VARIABLES
    (* the server *)
    server,         \* up; closing: the store is closed, HTTP still serves; down
    password,       \* the row of auth_config
    workspaces,     \* rows, in their order
    tabs,           \* workspaces that have a tab
    (* per browser *)
    page,           \* what it shows, or which answer it awaits
    loading,        \* of LoginForm
    typed,          \* the password in the form
    cookie,         \* has a token that is in sessions, and not expired
    wire,           \* its request: none, asked, checked (Setup), answered
    reply,          \* the answer, if there is one
    token,          \* which brings a token that is in sessions
    stray,          \* a request of its that is handled though no page waits for it
    first,          \* wid of init; 0 is the id of an error
    active,         \* activeSessionId, 0 if it is no session
    opened,         \* browsers whose page has come up since the server started
    (* history *)
    made,           \* workspaces so far
    defaults,       \* those that init made
    acts, faults,
    accepted,       \* the password a browser's latest set-up stored
    overlapped,     \* browsers one of whose set-ups overlapped with another's
    looked,         \* what was made when its listing was answered
    closed,         \* workspaces in which a tab was closed
    deleted,        \* workspaces that were deleted
    failed          \* browsers one of whose requests failed since the page loaded

rowVars == <<password, workspaces, tabs, made, defaults>>
formVars == <<loading, typed>>
wireVars == <<wire, reply, token>>
initVars == <<first, active, opened>>
goneVars == <<closed, deleted>>
historyVars == <<acts, faults, accepted, overlapped, looked, goneVars>>
vars == <<server, rowVars, page, formVars, cookie, wireVars, stray, initVars, historyVars, failed>>

InInit == {"listing", "creating", "fetching", "adding"}
Forms == {"needs-setup", "needs-login"}
Writing == {"needs-setup", "creating", "adding"}
NoReply == [ok |-> FALSE, list |-> <<>>]
NoStray == [of |-> "none", at |-> "asked", password |-> None, ws |-> 0, looked |-> 0]

TypeOK ==
    /\ server \in {"up", "closing", "down"}
    /\ password \in Passwords \cup {None}
    /\ workspaces \in Seq(1 .. made) /\ tabs \subseteq 1 .. made
    /\ page \in [Browsers -> InInit \cup Forms \cup {"closed", "check", "probe", "ready", "blank"}]
    /\ loading \subseteq Browsers /\ typed \in [Browsers -> Passwords \cup {None}]
    /\ cookie \subseteq Browsers
    /\ wire \in [Browsers -> {"none", "asked", "checked", "answered"}]
    /\ reply \in [Browsers -> [ok : BOOLEAN, list : Seq(1 .. made)]]
    /\ token \subseteq Browsers
    /\ stray \in [Browsers -> [of : Writing \cup {"none"}, at : {"asked", "checked"},
                              password : Passwords \cup {None}, ws : 0 .. made, looked : 0 .. made]]
    /\ first \in [Browsers -> 0 .. made] /\ active \in [Browsers -> 0 .. made]
    /\ opened \subseteq Browsers
    /\ made \in 0 .. MaxSpaces /\ defaults \in 0 .. made
    /\ acts \in 0 .. MaxActs /\ faults \in 0 .. MaxFaults
    /\ accepted \in [Browsers -> Passwords \cup {None}]
    /\ overlapped \subseteq Browsers /\ failed \subseteq Browsers
    /\ looked \in [Browsers -> 0 .. made] /\ closed \subseteq 1 .. made /\ deleted \subseteq 1 .. made

Init ==
    /\ server = "up" /\ password \in Passwords \cup {None}
    /\ made \in 0 .. FirstSpaces /\ defaults = 0
    /\ workspaces = [i \in 1 .. made |-> i] /\ tabs \in SUBSET (1 .. made)
    /\ page = [b \in Browsers |-> "closed"]
    /\ loading = {} /\ typed = [b \in Browsers |-> None]
    /\ cookie \in SUBSET Browsers /\ (password = None => cookie = {})
    /\ wire = [b \in Browsers |-> "none"] /\ reply = [b \in Browsers |-> NoReply] /\ token = {}
    /\ stray = [b \in Browsers |-> NoStray] /\ opened = {}
    /\ first = [b \in Browsers |-> 0] /\ active = [b \in Browsers |-> 0]
    /\ acts = 0 /\ faults = 0
    /\ accepted = [b \in Browsers |-> None] /\ overlapped = {}
    /\ looked = [b \in Browsers |-> 0] /\ closed = {} /\ deleted = {} /\ failed = {}

Act == acts < MaxActs /\ acts' = acts + 1 /\ UNCHANGED <<faults, accepted, overlapped>>
Fault == faults < MaxFaults /\ faults' = faults + 1
         /\ UNCHANGED <<acts, accepted, overlapped, looked, goneVars>>

-----------------------------------------------------------------------------
(* The server *)

(* HasPassword, for callers that drop its error *)
HasPassword == server = "up" /\ password # None

(* requireAuth *)
Admitted(b) == ~HasPassword \/ b \in cookie

Answer(b, ok, list) ==
    /\ wire' = [wire EXCEPT ![b] = "answered"]
    /\ reply' = [reply EXCEPT ![b] = [ok |-> ok, list |-> list]]

Serves(b, state, pages) == server # "down" /\ wire[b] = state /\ page[b] \in pages

(* AuthHandler.Check, and a GET whose status is all that is looked at *)
ServeCheck(b) ==
    /\ Serves(b, "asked", {"check", "probe"})
    /\ Answer(b, IF page[b] = "check" THEN ~HasPassword ELSE Admitted(b), <<>>)
    /\ UNCHANGED <<server, rowVars, page, formVars, cookie, token, stray, initVars, historyVars, failed>>

(* Browsers a set-up of which has looked and not stored *)
Hashing == {c \in Browsers : wire[c] = "checked" \/ stray[c].at = "checked"}

(* A set-up of b comes to hash while others do. *)
Overlap(b) == overlapped' = overlapped \cup Hashing \cup (IF Hashing = {} THEN {} ELSE {b})

(* MUTANT of SetupCheck: forgets to look. *)
SetupUnchecked(b) ==
    /\ Serves(b, "asked", {"needs-setup"})
    /\ wire' = [wire EXCEPT ![b] = "checked"]
    /\ UNCHANGED <<reply, overlapped>>
    /\ UNCHANGED <<server, rowVars, page, formVars, cookie, token, stray, initVars,
                   acts, faults, accepted, looked, goneVars, failed>>

(* AuthHandler.Setup: is there a password?  Then it hashes the new one. *)
SetupCheck(b) ==
    /\ Serves(b, "asked", {"needs-setup"})
    /\ IF HasPassword THEN Answer(b, FALSE, <<>>) /\ UNCHANGED overlapped
       ELSE wire' = [wire EXCEPT ![b] = "checked"] /\ Overlap(b) /\ UNCHANGED reply
    /\ UNCHANGED <<server, rowVars, page, formVars, cookie, token, stray, initVars,
                   acts, faults, accepted, looked, goneVars, failed>>

(* SetPasswordHash writes over what is there. *)
Save(b, p) == password' = p /\ accepted' = [accepted EXCEPT ![b] = p]

(* and then createSession *)
SetupStore(b) ==
    /\ Serves(b, "checked", {"needs-setup"})
    /\ IF server = "up"
       THEN Answer(b, TRUE, <<>>) /\ Save(b, typed[b]) /\ token' = token \cup {b}
       ELSE Answer(b, FALSE, <<>>) /\ UNCHANGED <<password, token, accepted>>
    /\ UNCHANGED <<server, workspaces, tabs, made, defaults, page, formVars, cookie, stray,
                   initVars, acts, faults, overlapped, looked, goneVars, failed>>

(* AuthHandler.Login *)
ServeLogin(b) ==
    /\ Serves(b, "asked", {"needs-login"})
    /\ LET ok == HasPassword /\ typed[b] = password IN
       Answer(b, ok, <<>>) /\ token' = IF ok THEN token \cup {b} ELSE token
    /\ UNCHANGED <<server, rowVars, page, formVars, cookie, stray, initVars, historyVars, failed>>

Found(w) == \E i \in DOMAIN workspaces : workspaces[i] = w

(* WorkspaceHandler.List and SessionHandler.List, which knows of no error *)
(* but the store's                                                        *)
ServeList(b) ==
    /\ Serves(b, "asked", {"listing", "fetching"})
    /\ LET ok == Admitted(b) /\ server = "up" IN
       /\ Answer(b, ok, IF ~ok THEN <<>>
                        ELSE IF page[b] = "listing" THEN workspaces
                        ELSE IF Found(first[b]) /\ first[b] \in tabs THEN <<first[b]>> ELSE <<>>)
       /\ looked' = IF ok /\ page[b] = "listing" THEN [looked EXCEPT ![b] = made] ELSE looked
    /\ UNCHANGED <<server, rowVars, page, formVars, cookie, token, stray, initVars,
                   acts, faults, accepted, overlapped, goneVars, failed>>

(* CreateWorkspace of the store: the new one is the last. *)
InsertWorkspace ==
    /\ made < MaxSpaces /\ made' = made + 1
    /\ workspaces' = Append(workspaces, made + 1)

(* WorkspaceHandler.Create *)
ServeCreate(b) ==
    /\ Serves(b, "asked", {"creating"})
    /\ IF Admitted(b) /\ server = "up"
       THEN InsertWorkspace /\ defaults' = defaults + 1 /\ Answer(b, TRUE, <<made + 1>>)
       ELSE Answer(b, FALSE, <<>>) /\ UNCHANGED <<made, defaults, workspaces>>
    /\ UNCHANGED <<server, password, tabs, page, formVars, cookie, token, stray, initVars,
                   historyVars, failed>>

(* SessionHandler.Create: the insert fails for want of the workspace. *)
ServeAdd(b) ==
    /\ Serves(b, "asked", {"adding"})
    /\ IF Admitted(b) /\ server = "up" /\ Found(first[b])
       THEN tabs' = tabs \cup {first[b]} /\ Answer(b, TRUE, <<first[b]>>)
       ELSE Answer(b, FALSE, <<>>) /\ UNCHANGED tabs
    /\ UNCHANGED <<server, password, workspaces, made, defaults, page, formVars, cookie, token,
                   stray, initVars, historyVars, failed>>

Serve(b) ==
    \/ ServeCheck(b) \/ SetupCheck(b) \/ SetupStore(b) \/ ServeLogin(b)
    \/ ServeList(b) \/ ServeCreate(b) \/ ServeAdd(b)

(* The same handlers for a request that no page waits for: what they write *)
(* is written, and the answer goes nowhere, with the session of a set-up.  *)
(* While the store is closed they write nothing, see Stop.                 *)
Strays(b, page_, at) == server = "up" /\ stray[b].of = page_ /\ stray[b].at = at
Done(b) == stray' = [stray EXCEPT ![b] = NoStray]

StrayCheck(b) ==
    /\ Strays(b, "needs-setup", "asked")
    /\ IF HasPassword THEN Done(b) /\ UNCHANGED overlapped
       ELSE stray' = [stray EXCEPT ![b].at = "checked"] /\ Overlap(b)
    /\ UNCHANGED <<server, rowVars, page, formVars, cookie, wireVars, initVars,
                   acts, faults, accepted, looked, goneVars, failed>>

StrayStore(b) ==
    /\ Strays(b, "needs-setup", "checked") /\ Done(b)
    /\ Save(b, stray[b].password)
    /\ UNCHANGED <<server, workspaces, tabs, made, defaults, page, formVars, cookie, wireVars,
                   initVars, acts, faults, overlapped, looked, goneVars, failed>>

StrayCreate(b) ==
    /\ Strays(b, "creating", "asked") /\ Done(b)
    /\ IF Admitted(b) THEN InsertWorkspace /\ defaults' = defaults + 1
       ELSE UNCHANGED <<made, defaults, workspaces>>
    /\ UNCHANGED <<server, password, tabs, page, formVars, cookie, wireVars, initVars,
                   historyVars, failed>>

StrayAdd(b) ==
    /\ Strays(b, "adding", "asked") /\ Done(b)
    /\ tabs' = IF Admitted(b) /\ Found(stray[b].ws) THEN tabs \cup {stray[b].ws} ELSE tabs
    /\ UNCHANGED <<server, password, workspaces, made, defaults, page, formVars, cookie, wireVars,
                   initVars, historyVars, failed>>

ServeStray(b) == StrayCheck(b) \/ StrayStore(b) \/ StrayCreate(b) \/ StrayAdd(b)

-----------------------------------------------------------------------------
(* The page *)

Ask(b) == wire' = [wire EXCEPT ![b] = "asked"] /\ UNCHANGED <<reply, token>>

(* The answer is taken: the next request, or none.  A cookie comes with it. *)
Take(b, next) ==
    /\ wire' = [wire EXCEPT ![b] = next]
    /\ reply' = [reply EXCEPT ![b] = NoReply] /\ token' = token \ {b}
    /\ cookie' = cookie \cup ({b} \cap token)

Receives(b, pages) == wire[b] = "answered" /\ page[b] \in pages
Turn(b, next) == page' = [page EXCEPT ![b] = next]

(* The page no longer waits for its request, if it did.  Has the request   *)
(* reached the server, its handler goes on all the same; only one that     *)
(* writes is worth following, and at most one of each browser.             *)
Abandon(b) ==
    \/ (wire[b] # "checked" \/ server = "down") /\ UNCHANGED stray
    \/ /\ server # "down" /\ wire[b] \in {"asked", "checked"}
       /\ page[b] \in Writing /\ stray[b] = NoStray
       /\ stray' = [stray EXCEPT ![b] =
             [of |-> page[b], at |-> wire[b], password |-> typed[b], ws |-> first[b],
              looked |-> looked[b]]]

(* and a cookie that came with the answer is kept *)
KeepCookie(b) == token' = token \ {b} /\ cookie' \in {cookie, cookie \cup ({b} \cap token)}

(* The page is loaded, if need be once more: checkAuth. *)
Load(b) ==
    /\ Act
    /\ Abandon(b) /\ KeepCookie(b)
    /\ Turn(b, "check") /\ wire' = [wire EXCEPT ![b] = "asked"]
    /\ reply' = [reply EXCEPT ![b] = NoReply]
    /\ loading' = loading \ {b} /\ typed' = [typed EXCEPT ![b] = None]
    /\ first' = [first EXCEPT ![b] = 0] /\ active' = [active EXCEPT ![b] = 0]
    /\ looked' = [looked EXCEPT ![b] = 0]
    /\ failed' = failed \ {b}
    /\ UNCHANGED <<server, rowVars, opened, goneVars>>

(* authState is authenticated: init *)
StartInit(b) == Take(b, "asked") /\ Turn(b, "listing")

CheckAnswered(b) ==
    /\ Receives(b, {"check"})
    /\ IF reply[b].ok THEN Turn(b, "needs-setup") /\ Take(b, "none")
                      ELSE Turn(b, "probe") /\ Take(b, "asked")
    /\ UNCHANGED <<server, rowVars, formVars, stray, initVars, historyVars, failed>>

ProbeAnswered(b) ==
    /\ Receives(b, {"probe"})
    /\ IF reply[b].ok THEN StartInit(b) ELSE Turn(b, "needs-login") /\ Take(b, "none")
    /\ UNCHANGED <<server, rowVars, formVars, stray, initVars, historyVars, failed>>

(* handleSubmit; the button is disabled while it is loading *)
Submit(b) ==
    /\ Act
    /\ page[b] \in Forms /\ b \notin loading
    /\ loading' = loading \cup {b}
    /\ \E p \in Passwords : typed' = [typed EXCEPT ![b] = p]
    /\ Ask(b)
    /\ UNCHANGED <<server, rowVars, page, cookie, stray, initVars, looked, goneVars, failed>>

(* MUTANT of SubmitAnswered: no setLoading(false) after a refusal. *)
SubmitAnsweredOnce(b) ==
    /\ Receives(b, Forms)
    /\ loading' = IF reply[b].ok THEN loading \ {b} ELSE loading
    /\ IF reply[b].ok THEN StartInit(b) /\ typed' = [typed EXCEPT ![b] = None]
       ELSE Take(b, "none") /\ UNCHANGED <<page, typed>>
    /\ UNCHANGED <<server, rowVars, stray, initVars, historyVars, failed>>

(* setLoading(false); a form that is no longer shown has no text. *)
SubmitAnswered(b) ==
    /\ Receives(b, Forms)
    /\ loading' = loading \ {b}
    /\ IF reply[b].ok THEN StartInit(b) /\ typed' = [typed EXCEPT ![b] = None]
       ELSE Take(b, "none") /\ UNCHANGED <<page, typed>>
    /\ UNCHANGED <<server, rowVars, stray, initVars, historyVars, failed>>

Fail(b) == failed' = failed \cup {b}

(* MUTANT of Listed: <= for < in the test for an empty list. *)
ListedFew(b) ==
    /\ Receives(b, {"listing"}) /\ reply[b].ok
    /\ IF Len(reply[b].list) <= 1
       THEN Turn(b, "creating") /\ Take(b, "asked") /\ UNCHANGED first
       ELSE /\ Turn(b, "fetching") /\ Take(b, "asked")
            /\ first' = [first EXCEPT ![b] = Head(reply[b].list)]
    /\ UNCHANGED <<server, rowVars, formVars, stray, active, opened, historyVars, failed>>

(* listWorkspaces.  An error's body has no length and no map: init throws, *)
(* and the page says Loading... until it is loaded again.                  *)
Listed(b) ==
    /\ Receives(b, {"listing"})
    /\ \/ ~reply[b].ok /\ Take(b, "none") /\ Fail(b) /\ UNCHANGED <<page, first>>
       \/ /\ reply[b].ok /\ reply[b].list = <<>>
          /\ Turn(b, "creating") /\ Take(b, "asked") /\ UNCHANGED <<first, failed>>
       \/ /\ reply[b].ok /\ reply[b].list # <<>>
          /\ Turn(b, "fetching") /\ Take(b, "asked") /\ UNCHANGED failed
          /\ first' = [first EXCEPT ![b] = Head(reply[b].list)]
    /\ UNCHANGED <<server, rowVars, formVars, stray, active, opened, historyVars>>

(* MUTANT of Created: counts one workspace too far. *)
CreatedNext(b) ==
    /\ Receives(b, {"creating"})
    /\ first' = [first EXCEPT ![b] = made + 1]
    /\ Turn(b, "fetching") /\ Take(b, "asked")
    /\ UNCHANGED <<server, rowVars, formVars, stray, active, opened, historyVars, failed>>

(* createWorkspace('Default').  An error's body is taken for a workspace. *)
Created(b) ==
    /\ Receives(b, {"creating"})
    /\ IF reply[b].ok
       THEN first' = [first EXCEPT ![b] = Head(reply[b].list)] /\ UNCHANGED failed
       ELSE Fail(b) /\ UNCHANGED first
    /\ Turn(b, "fetching") /\ Take(b, "asked")
    /\ UNCHANGED <<server, rowVars, formVars, stray, active, opened, historyVars>>

(* The set at init's end: activeSessionId is the first tab, null if none. *)
Set(b, next, w) == Turn(b, next) /\ Take(b, "none") /\ active' = [active EXCEPT ![b] = w]
Show(b, w) == Set(b, "ready", w) /\ opened' = opened \cup {b}

(* MUTANT of Fetched: makes no tab where there is none. *)
FetchedOnly(b) ==
    /\ Receives(b, {"fetching"})
    /\ Show(b, IF reply[b].list = <<>> THEN 0 ELSE first[b])
    /\ IF reply[b].ok THEN UNCHANGED failed ELSE Fail(b)
    /\ UNCHANGED <<server, rowVars, formVars, stray, first, historyVars>>

(* listSessions.  The length of an error's body is not 0, and TabBar cannot *)
(* map one: nothing is left of the page.                                    *)
Fetched(b) ==
    /\ Receives(b, {"fetching"})
    /\ \/ ~reply[b].ok /\ Set(b, "blank", 0) /\ Fail(b) /\ UNCHANGED opened
       \/ /\ reply[b].ok /\ reply[b].list = <<>>
          /\ Turn(b, "adding") /\ Take(b, "asked") /\ UNCHANGED <<active, opened, failed>>
       \/ reply[b].ok /\ reply[b].list # <<>> /\ Show(b, first[b]) /\ UNCHANGED failed
    /\ UNCHANGED <<server, rowVars, formVars, stray, first, historyVars>>

(* createSession.  An error's body has no id. *)
Added(b) ==
    /\ Receives(b, {"adding"})
    /\ IF reply[b].ok THEN Show(b, first[b]) /\ UNCHANGED failed ELSE Show(b, 0) /\ Fail(b)
    /\ UNCHANGED <<server, rowVars, formVars, stray, first, historyVars>>

Receive(b) ==
    \/ CheckAnswered(b) \/ ProbeAnswered(b) \/ SubmitAnswered(b)
    \/ Listed(b) \/ Created(b) \/ Fetched(b) \/ Added(b)

(* What a page that came up asks for, handled now or once it is loaded     *)
(* again: createWorkspace, createSession, deleteSession, deleteWorkspace.  *)
(* The tab of a new workspace is a request of its own.                     *)
Uses(b) ==
    /\ Act /\ b \in opened /\ server = "up" /\ Admitted(b)
    /\ UNCHANGED <<server, password, defaults, page, formVars, cookie, wireVars, stray, initVars,
                   looked, failed>>

AddWorkspace(b) == Uses(b) /\ InsertWorkspace /\ UNCHANGED <<tabs, goneVars>>

AddTab(b) ==
    /\ Uses(b)
    /\ \E i \in DOMAIN workspaces : tabs' = tabs \cup {workspaces[i]}
    /\ UNCHANGED <<made, workspaces, goneVars>>

(* of a workspace that may have others left *)
CloseTab(b) ==
    /\ Uses(b)
    /\ \E w \in tabs : tabs' \in {tabs, tabs \ {w}} /\ closed' = closed \cup {w}
    /\ UNCHANGED <<made, workspaces, deleted>>

(* and with it its tabs *)
DeleteWorkspace(b) ==
    /\ Uses(b)
    /\ \E i \in DOMAIN workspaces :
          /\ workspaces' = [j \in 1 .. Len(workspaces) - 1 |->
                               workspaces[IF j < i THEN j ELSE j + 1]]
          /\ tabs' = tabs \ {workspaces[i]} /\ deleted' = deleted \cup {workspaces[i]}
    /\ UNCHANGED <<made, closed>>

Use(b) == AddWorkspace(b) \/ AddTab(b) \/ CloseTab(b) \/ DeleteWorkspace(b)

-----------------------------------------------------------------------------
(* What goes wrong *)

(* fetch rejects: nothing catches it, neither checkAuth, nor handleSubmit, *)
(* nor init.                                                               *)
Reject(b) ==
    /\ wire' = [wire EXCEPT ![b] = "none"] /\ reply' = [reply EXCEPT ![b] = NoReply] /\ Fail(b)
    /\ UNCHANGED <<server, rowVars, page, formVars, initVars>>

(* The connection breaks: before the server has the request, while it      *)
(* handles it, or with the answer under way.                               *)
Lose(b) ==
    /\ Fault /\ wire[b] # "none"
    /\ Abandon(b) /\ KeepCookie(b) /\ Reject(b)

(* There is no server to answer. *)
Refuse(b) ==
    /\ server = "down" /\ wire[b] \in {"asked", "checked"} /\ Reject(b)
    /\ UNCHANGED <<cookie, token, stray, historyVars>>

(* A session expires, or its browser logs out. *)
Expire(b) ==
    /\ Fault /\ b \in cookie /\ cookie' = cookie \ {b}
    /\ UNCHANGED <<server, rowVars, page, formVars, wireVars, stray, initVars, failed>>

(* SIGTERM: srv.Shutdown closes the store, then httpServer.Shutdown waits. *)
BeginShutdown ==
    /\ Fault /\ server = "up" /\ server' = "closing"
    /\ UNCHANGED <<rowVars, page, formVars, cookie, wireVars, stray, initVars, failed>>

Stop ==
    /\ server = "closing" /\ server' = "down"
    /\ stray' = [b \in Browsers |-> NoStray]
    /\ UNCHANGED <<rowVars, page, formVars, cookie, wireVars, initVars, historyVars, failed>>

(* newAuthManager: no session of before counts.  Handlers do not live on: *)
(* the connections of those that were hashing are refused by now.         *)
Restart ==
    /\ server = "down" /\ server' = "up" /\ \A b \in Browsers : wire[b] # "checked"
    /\ cookie' = {} /\ token' = {}
    /\ opened' = {b \in opened : page[b] = "ready"}
    /\ UNCHANGED <<rowVars, page, formVars, wire, reply, stray, first, active, historyVars, failed>>

-----------------------------------------------------------------------------
Next ==
    \/ \E b \in Browsers :
          \/ Load(b) \/ Submit(b) \/ Use(b)
          \/ Serve(b) \/ ServeStray(b) \/ Receive(b)
          \/ Lose(b) \/ Refuse(b) \/ Expire(b)
    \/ BeginShutdown \/ Stop \/ Restart

(* Handlers return, and answers reach the page that waits for them; those  *)
(* of the other browsers may hang for ever.                                *)
Fairness == \A b \in Attended : WF_vars(Serve(b) \/ Receive(b) \/ Refuse(b))

Spec == Init /\ [][Next]_vars /\ Fairness

-----------------------------------------------------------------------------
(* A password that was accepted stays what it is, whatever forms were open *)
(* in other browsers: only set-ups that were under way at the same time    *)
(* may replace each other's, those that nobody waits for any more among    *)
(* them (AuthHandler.Setup looks and stores in two statements, with the    *)
(* hashing between).                                                       *)
SetupIsKept == \A b \in Browsers :
    accepted[b] # None => password = accepted[b] \/ b \in overlapped

(* A page that comes up with no request of its failed shows a tab, and the *)
(* tab is there, unless one in its workspace was closed or the workspace   *)
(* was deleted; and no request of a start fails but for what failures did  *)
(* or a workspace that was deleted: not for a missing cookie, a set-up     *)
(* elsewhere, the empty first run or a tab that was closed in between.     *)
ReadyShowsATab == \A b \in Browsers :
    /\ page[b] = "ready" /\ b \notin failed =>
          active[b] # 0 /\ active[b] \in tabs \cup closed \cup deleted
    /\ b \in failed => faults > 0 \/ deleted # {}

(* init makes a Default workspace beside another only if some workspace    *)
(* was made after it had found none, by another page or by a request that  *)
(* a reload or a broken connection left behind: never for a lost answer, a *)
(* restart or an answer that is an error.                                  *)
DefaultOnlyWhenEmpty ==
    [][defaults' # defaults =>
          \/ workspaces = <<>>
          \/ \E b \in Browsers : \/ ServeCreate(b) /\ made > looked[b]
                                 \/ StrayCreate(b) /\ made > stray[b].looked]_vars

(* A page that waits for an answer ends up with a form one can use, or     *)
(* ready, or a request of its has failed: no wait is forgotten, across a   *)
(* shutdown and a restart too, and whatever becomes of other browsers.     *)
PagesComeUp == \A b \in Attended :
    wire[b] # "none" ~> \/ page[b] \in Forms /\ b \notin loading
                        \/ page[b] = "ready"
                        \/ b \in failed
===============================================================================
