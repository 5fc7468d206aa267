-------------------------- MODULE SessionLifecycle ---------------------------
(***************************************************************************)
(* The life of a tab across the three places it exists in: its row in      *)
(* SQLite (internal/store), the REST handlers that create and delete rows  *)
(* (internal/api) and the tmux session behind it (internal/tmux, here only *)
(* what of it outlives a connection).  Requests are concurrent and each is *)
(* a sequence of separate database statements and tmux commands; nothing   *)
(* puts them in a transaction.  A browser connects to any tab it has ever  *)
(* seen a row of: HandleTerminal does not look at the database.            *)
(*                                                                         *)
(* Workspace rows and session rows are one table here: a row has a parent, *)
(* Root for a workspace and the workspace for a session, and sort_order is *)
(* per parent.                                                             *)
(***************************************************************************)
EXTENDS Integers, FiniteSets, FiniteSetsExt

CONSTANTS
    Workspaces,     \* ids workspaces can get
    Tabs,           \* ids sessions can get
    Requests,       \* REST requests that can run at the same time
    Root,
    None,
    MaxBoots        \* restarts of the server considered

ASSUME LifecycleAssumption ==
    /\ Workspaces \cap Tabs = {}
    /\ Root \notin Workspaces \cup Tabs
    /\ None \notin Workspaces \cup Tabs \cup {Root}
    /\ MaxBoots \in Nat

Ids == Workspaces \cup Tabs

VARIABLES
    (* SQLite *)
    rows,       \* ids that have a row
    parent,     \* parent[x]: Root or the workspace_id it was created under
    sortOrder,  \* sort_order column
    (* tmux *)
    alive,      \* tabs with a tmux session
    linked,     \* tabs with a connected browser
    (* REST requests *)
    pc,         \* "idle", "insert", "cascade", "lock", "kill"
    target,     \* the id the request creates or deletes
    maxOrder,   \* what its SELECT MAX(sort_order) gave
    todo,       \* tabs whose onDelete it has still to call
    boots,
    (* history *)
    issued,     \* ids that were generated, and ids that ever had a row
    shown,
    before,     \* before[x]: ids whose create had answered when x's began
    answered,   \* ids whose create answered 201
    excuse,     \* tabs that may have a tmux session without a row, see below
    killed      \* tabs a delete has run kill-session for

dbVars == <<rows, parent, sortOrder>>
tmuxVars == <<alive, linked>>
requestVars == <<pc, target, maxOrder, todo>>
createHistory == <<issued, shown, before, answered>>
deleteHistory == <<excuse, killed>>
vars == <<dbVars, tmuxVars, requestVars, boots, createHistory, deleteHistory>>

TypeOK ==
    /\ rows \subseteq Ids
    /\ parent \in [Ids -> Workspaces \cup {Root}]
    /\ sortOrder \in [Ids -> Nat]
    /\ alive \subseteq Tabs
    /\ linked \subseteq Tabs
    /\ pc \in [Requests -> {"idle", "insert", "cascade", "lock", "kill"}]
    /\ target \in [Requests -> Ids \cup {None}]
    /\ maxOrder \in [Requests -> Nat \cup {-1}]
    /\ todo \in [Requests -> SUBSET Tabs]
    /\ boots \in Nat
    /\ issued \subseteq Ids /\ shown \subseteq issued /\ answered \subseteq shown
    /\ before \in [Ids -> SUBSET Ids]
    /\ excuse \subseteq Tabs
    /\ killed \subseteq Tabs

Init ==
    /\ rows = {}
    /\ parent = [x \in Ids |-> Root]
    /\ sortOrder = [x \in Ids |-> 0]
    /\ alive = {}
    /\ linked = {}
    /\ pc = [r \in Requests |-> "idle"]
    /\ target = [r \in Requests |-> None]
    /\ maxOrder = [r \in Requests |-> -1]
    /\ todo = [r \in Requests |-> {}]
    /\ boots = 0
    /\ issued = {}
    /\ shown = {}
    /\ before = [x \in Ids |-> {}]
    /\ answered = {}
    /\ excuse = {}
    /\ killed = {}

-----------------------------------------------------------------------------
Children(p) == {x \in rows : parent[x] = p}

(* COALESCE(MAX(sort_order), -1) *)
MaxSortOrder(p) == Max({sortOrder[x] : x \in Children(p)} \cup {-1})

Respond(r) ==
    /\ pc' = [pc EXCEPT ![r] = "idle"]
    /\ target' = [target EXCEPT ![r] = None]
    /\ maxOrder' = [maxOrder EXCEPT ![r] = -1]

(* A create generates x and reads the largest sort_order under p.  A read  *)
(* that fails goes unnoticed and leaves a zero; nothing is claimed then    *)
(* about where x sorts.                                                    *)
ReadMax(r, x, p) ==
    /\ pc[r] = "idle"
    /\ x \notin issued
    /\ issued' = issued \cup {x}
    /\ pc' = [pc EXCEPT ![r] = "insert"]
    /\ target' = [target EXCEPT ![r] = x]
    /\ parent' = [parent EXCEPT ![x] = p]
    /\ \/ /\ maxOrder' = [maxOrder EXCEPT ![r] = MaxSortOrder(p)]
          /\ before' = [before EXCEPT ![x] = answered]
       \/ /\ maxOrder' = [maxOrder EXCEPT ![r] = 0]
          /\ UNCHANGED before
    /\ UNCHANGED <<rows, sortOrder, tmuxVars, todo, boots, shown, answered, deleteHistory>>

CreateWorkspace(r) == \E w \in Workspaces : ReadMax(r, w, Root)

(* The workspace in the path is not looked up first; it may be gone. *)
CreateSession(r) == \E t \in Tabs, w \in Workspaces \cap shown : ReadMax(r, t, w)

(* MUTANT of Insert: sort_order is the maximum itself, -1 in an empty list. *)
InsertAtMax(r) ==
    LET x == target[r] IN
    /\ pc[r] = "insert"
    /\ parent[x] \in rows \cup {Root}
    /\ rows' = rows \cup {x}
    /\ sortOrder' = [sortOrder EXCEPT ![x] = maxOrder[r]]
    /\ shown' = shown \cup {x}
    /\ answered' = answered \cup {x}
    /\ Respond(r)
    /\ UNCHANGED <<parent, tmuxVars, todo, boots, issued, before, deleteHistory>>

(* The INSERT: refused by the foreign key when the workspace is gone.  The *)
(* row is there for others before the answer is; both are one step.        *)
Insert(r) ==
    LET x == target[r] IN
    /\ pc[r] = "insert"
    /\ parent[x] \in rows \cup {Root}
    /\ rows' = rows \cup {x}
    /\ sortOrder' = [sortOrder EXCEPT ![x] = maxOrder[r] + 1]
    /\ shown' = shown \cup {x}
    /\ answered' = answered \cup {x}
    /\ Respond(r)
    /\ UNCHANGED <<parent, tmuxVars, todo, boots, issued, before, deleteHistory>>

(* 500: the foreign key, or the database. *)
InsertFails(r) ==
    /\ pc[r] = "insert"
    /\ Respond(r)
    /\ UNCHANGED <<dbVars, tmuxVars, todo, boots, createHistory, deleteHistory>>

(* DELETE /sessions/:id, up to the DELETE statement. *)
DeleteSession(r, t) ==
    /\ pc[r] = "idle"
    /\ rows' = rows \ {t}
    /\ todo' = [todo EXCEPT ![r] = {t}]
    /\ pc' = [pc EXCEPT ![r] = "lock"]
    /\ UNCHANGED <<parent, sortOrder, tmuxVars, target, maxOrder, boots, createHistory,
                   deleteHistory>>

(* DELETE /workspaces/:id lists the sessions to kill; an error of that     *)
(* query is ignored and leaves the list empty.                             *)
ListForDelete(r, w) ==
    /\ pc[r] = "idle"
    /\ pc' = [pc EXCEPT ![r] = "cascade"]
    /\ target' = [target EXCEPT ![r] = w]
    /\ \/ /\ todo' = [todo EXCEPT ![r] = Children(w)]
          /\ UNCHANGED excuse
       \/ /\ UNCHANGED todo
          /\ excuse' = excuse \cup Children(w)
    /\ UNCHANGED <<dbVars, tmuxVars, maxOrder, boots, createHistory, killed>>

AfterList(r, ts) == IF ts = {} THEN "idle" ELSE "lock"

(* MUTANT of Cascade: only one of the listed sessions is passed on. *)
CascadeForgets(r) ==
    LET w == target[r]
        ts == IF todo[r] = {} THEN {} ELSE {CHOOSE t \in todo[r] : TRUE}
    IN
    /\ pc[r] = "cascade"
    /\ rows' = rows \ (Children(w) \cup {w})
    /\ excuse' = excuse \cup (Children(w) \ todo[r])
    /\ todo' = [todo EXCEPT ![r] = ts]
    /\ pc' = [pc EXCEPT ![r] = AfterList(r, ts)]
    /\ target' = [target EXCEPT ![r] = None]
    /\ UNCHANGED <<parent, sortOrder, tmuxVars, maxOrder, boots, createHistory, killed>>

(* DeleteWorkspace: the row and, ON DELETE CASCADE, its sessions' rows.  A *)
(* session inserted since the listing loses its row and is not killed.     *)
Cascade(r) ==
    LET w == target[r] IN
    /\ pc[r] = "cascade"
    /\ rows' = rows \ (Children(w) \cup {w})
    /\ excuse' = excuse \cup (Children(w) \ todo[r])
    /\ pc' = [pc EXCEPT ![r] = AfterList(r, todo[r])]
    /\ target' = [target EXCEPT ![r] = None]
    /\ UNCHANGED <<parent, sortOrder, tmuxVars, maxOrder, todo, boots, createHistory, killed>>

(* Either DELETE statement fails: 500, and nothing is killed. *)
DeleteFails(r) ==
    /\ pc[r] = "cascade"
    /\ pc' = [pc EXCEPT ![r] = "idle"]
    /\ target' = [target EXCEPT ![r] = None]
    /\ todo' = [todo EXCEPT ![r] = {}]
    /\ UNCHANGED <<dbVars, tmuxVars, maxOrder, boots, createHistory, deleteHistory>>

(* KillSession of one listed tab, under the lock: its connection goes. *)
KillLocked(r) ==
    /\ pc[r] = "lock"
    /\ \E t \in todo[r] :
         /\ target' = [target EXCEPT ![r] = t]
         /\ linked' = linked \ {t}
    /\ pc' = [pc EXCEPT ![r] = "kill"]
    /\ UNCHANGED <<dbVars, alive, maxOrder, todo, boots, createHistory, deleteHistory>>

(* ... and then without it: kill-session, whose failure goes unnoticed.    *)
(* Once it ran nothing excuses a tmux session that was there.              *)
KillTmux(r) ==
    LET t == target[r] IN
    /\ pc[r] = "kill"
    /\ todo' = [todo EXCEPT ![r] = @ \ {t}]
    /\ pc' = [pc EXCEPT ![r] = AfterList(r, todo[r] \ {t})]
    /\ target' = [target EXCEPT ![r] = None]
    /\ \/ /\ alive' = alive \ {t}
          /\ linked' = linked \ {t}
          /\ excuse' = excuse \ {t}
          /\ killed' = killed \cup {t}
       \/ /\ excuse' = excuse \cup {t}
          /\ UNCHANGED <<tmuxVars, killed>>
    /\ UNCHANGED <<dbVars, maxOrder, boots, createHistory>>

-----------------------------------------------------------------------------
(* A browser that has seen tab t connects or reconnects: Attach makes sure *)
(* there is a tmux session.                                                *)
Connect(t) ==
    /\ t \in shown \ linked
    /\ linked' = linked \cup {t}
    /\ alive' = alive \cup {t}
    /\ excuse' = IF t \in rows THEN excuse ELSE excuse \cup {t}
    /\ UNCHANGED <<dbVars, requestVars, boots, createHistory, killed>>

Disconnect(t) ==
    /\ t \in linked
    /\ linked' = linked \ {t}
    /\ UNCHANGED <<dbVars, alive, requestVars, boots, createHistory, deleteHistory>>

ShellExit(t) ==
    /\ t \in alive
    /\ alive' = alive \ {t}
    /\ linked' = linked \ {t}
    /\ excuse' = excuse \ {t}
    /\ UNCHANGED <<dbVars, requestVars, boots, createHistory, killed>>

(* The server stops between any two steps and is started again: requests   *)
(* are gone, rows and tmux sessions stay.                                  *)
Restart ==
    /\ boots < MaxBoots
    /\ boots' = boots + 1
    /\ linked' = {}
    /\ pc' = [r \in Requests |-> "idle"]
    /\ target' = [r \in Requests |-> None]
    /\ maxOrder' = [r \in Requests |-> -1]
    /\ todo' = [r \in Requests |-> {}]
    /\ excuse' = excuse \cup UNION {todo[r] : r \in Requests}
    /\ UNCHANGED <<dbVars, alive, createHistory, killed>>

Next ==
    \/ \E r \in Requests :
         \/ CreateWorkspace(r) \/ CreateSession(r) \/ Insert(r) \/ InsertFails(r)
         \/ \E t \in Tabs \cap shown : DeleteSession(r, t)
         \/ \E w \in Workspaces \cap shown : ListForDelete(r, w)
         \/ Cascade(r) \/ DeleteFails(r) \/ KillLocked(r) \/ KillTmux(r)
    \/ \E t \in Tabs : Connect(t) \/ Disconnect(t) \/ ShellExit(t)
    \/ Restart

Spec == Init /\ [][Next]_vars

-----------------------------------------------------------------------------
(* Tabs and workspaces keep the order they were created in: a create that  *)
(* began after another one answered sorts strictly after it, whatever was  *)
(* created or deleted meanwhile.  Only creates that overlap may tie.       *)
CreatesSortInOrder ==
    \A x, y \in rows :
        x \in before[y] /\ parent[x] = parent[y] => sortOrder[x] < sortOrder[y]

(* A session's row never outlives its workspace's (ON DELETE CASCADE and   *)
(* the foreign key, with the insert of a create racing the delete).        *)
RowsHaveParents == \A x \in rows : parent[x] \in rows \cup {Root}

Deleting == {r \in Requests : pc[r] \in {"lock", "kill"}}

Pending == UNION {todo[r] : r \in Deleting}

(* A tmux session without a row is one that a request is about to kill, or *)
(* there is an excuse: its kill-session failed, the server stopped before  *)
(* it, the workspace was listed before the tab was inserted (or not at     *)
(* all), or a browser attached after the row was gone.  There is no other  *)
(* way to leave an orphan behind.                                          *)
OrphansHaveExcuse == alive \subseteq rows \cup Pending \cup excuse

-----------------------------------------------------------------------------
(* README.md:135 and 379: deleting a tab kills its tmux session and so     *)
(* terminates its processes: once a delete has run kill-session the tab    *)
(* has no tmux session any more.                                           *)
DeletedIsTerminated == alive \cap killed = {}
=============================================================================
