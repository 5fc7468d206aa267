---------------------------- MODULE WorkspaceNames ----------------------------
(***************************************************************************)
(* The names in the sidebar: its editor, context menu and field for a new  *)
(* workspace (Sidebar.tsx), renameWorkspace, deleteWorkspace and           *)
(* createWorkspace of stores/appStore.ts, and the rows of                  *)
(* internal/store/sqlite.go behind internal/api/workspace.go.              *)
(*                                                                         *)
(* Requests are under way together and are handled and answered in any     *)
(* order.  createWorkspace's second request is part of its first.  An      *)
(* entry made of an error's body has no id: it is Broken, and nothing on   *)
(* it is an operation on the workspace it was.  Which workspace and tab    *)
(* are active is AppStore's.                                               *)
(***************************************************************************)
EXTENDS Integers

CONSTANTS
    Workspaces,
    StartSpaces,    \* those there are at first
    Names,
    StartName,      \* their name
    Calls,          \* requests that may be under way
    Blank, Null, Gone, Broken,
    MaxActs,        \* bound on user events
    MaxFaults       \* bound on failures and on what other browsers do

ASSUME WorkspaceNamesAssumption ==
    /\ StartSpaces \subseteq Workspaces /\ StartName \in Names
    /\ {Blank, Null, Gone, Broken} \cap (Names \cup Workspaces) = {} /\ Gone # Broken
    /\ MaxActs \in Nat /\ MaxFaults \in Nat

VARIABLES
    name,           \* the rows; Gone: there is none
    unborn,         \* workspaces that were never created
    listed,         \* workspaces of the store
    editingId, editName,
    creating, newName,
    contextMenu,    \* its workspaceId
    focus,          \* the input that has it
    calls,
    (* history *)
    own,            \* names a workspace was given or that were typed in its editor
    disturbed,      \* workspaces whose requests overlapped or failed, or that others changed
    repairs,        \* renames of a workspace that is there, with no other change of it since
    acts, faults

rowVars == <<name, unborn>>
editorVars == <<editingId, editName>>
fieldVars == <<creating, newName>>
namesVars == <<rowVars, listed, editorVars, fieldVars, contextMenu, focus, calls, own, disturbed,
               repairs, acts, faults>>

Texts == Names \cup {Blank}
NoCall == [op |-> "none", ws |-> Null, name |-> Blank, at |-> "idle", got |-> Broken]

NamesTypeOK ==
    /\ name \in [Workspaces -> Names \cup {Gone}] /\ unborn \subseteq Workspaces
    /\ listed \in [Workspaces -> Names \cup {Gone, Broken}]
    /\ editingId \in Workspaces \cup {Null} /\ editName \in Texts
    /\ creating \in BOOLEAN /\ newName \in Texts
    /\ contextMenu \in Workspaces \cup {Null}
    /\ focus \in {"none", "editor", "field"}
    /\ calls \in [Calls -> [op : {"none", "rename", "delete", "create"},
                            ws : Workspaces \cup {Null}, name : Texts,
                            at : {"idle", "sent", "updated", "answered"},
                            got : Names \cup {Broken}]]
    /\ own \in [Workspaces -> SUBSET Names]
    /\ disturbed \subseteq Workspaces /\ repairs \subseteq Calls
    /\ acts \in 0 .. MaxActs /\ faults \in 0 .. MaxFaults

NamesInit ==
    /\ name = [w \in Workspaces |-> IF w \in StartSpaces THEN StartName ELSE Gone]
    /\ unborn = Workspaces \ StartSpaces
    /\ listed = name
    /\ editingId = Null /\ editName = Blank /\ creating = FALSE /\ newName = Blank
    /\ contextMenu = Null /\ focus = "none"
    /\ calls = [c \in Calls |-> NoCall]
    /\ own = [w \in Workspaces |-> {name[w]} \cap Names] /\ disturbed = {} /\ repairs = {}
    /\ acts = 0 /\ faults = 0

-----------------------------------------------------------------------------
(* Requests *)

About(w) == {c \in Calls : calls[c].ws = w}
Sent(op, w, n) == [op |-> op, ws |-> w, name |-> n, at |-> "sent", got |-> Broken]

(* Two requests about a workspace disturb it unless they ask for the same. *)
Send(op, w, n) == \E c \in Calls :
    /\ calls[c] = NoCall
    /\ calls' = [calls EXCEPT ![c] = Sent(op, w, n)]
    /\ LET others == IF w = Null THEN {} ELSE About(w) IN
       /\ disturbed' = IF \E d \in others : calls[d].op # op \/ calls[d].name # n
                       THEN disturbed \cup {w} ELSE disturbed
       /\ repairs' = IF op = "rename" /\ others = {} /\ name[w] # Gone
                     THEN repairs \cup {c} ELSE repairs \ others

At(c, op, at) == calls[c].op = op /\ calls[c].at = at
Answer(c, w, n) == calls' = [calls EXCEPT ![c].at = "answered", ![c].ws = w, ![c].got = n]

sidebarVars == <<listed, editorVars, fieldVars, contextMenu, focus>>

(* UpdateWorkspace: UPDATE, and then a SELECT for the answer *)
Update(c) ==
    /\ At(c, "rename", "sent")
    /\ LET w == calls[c].ws IN
       IF name[w] # Gone
       THEN /\ name' = [name EXCEPT ![w] = calls[c].name]
            /\ calls' = [calls EXCEPT ![c].at = "updated"]
       ELSE Answer(c, w, Broken) /\ UNCHANGED name
    /\ UNCHANGED <<unborn, sidebarVars, own, disturbed, repairs, acts, faults>>

Updated(c) ==
    /\ At(c, "rename", "updated")
    /\ LET w == calls[c].ws IN Answer(c, w, IF name[w] # Gone THEN name[w] ELSE Broken)
    /\ UNCHANGED <<rowVars, sidebarVars, own, disturbed, repairs, acts, faults>>

Delete(c) ==
    /\ At(c, "delete", "sent")
    /\ name' = [name EXCEPT ![calls[c].ws] = Gone] /\ Answer(c, calls[c].ws, Broken)
    /\ UNCHANGED <<unborn, sidebarVars, own, disturbed, repairs, acts, faults>>

Create(c) ==
    /\ At(c, "create", "sent")
    /\ \E w \in unborn :
          /\ unborn' = unborn \ {w} /\ name' = [name EXCEPT ![w] = calls[c].name]
          /\ own' = [own EXCEPT ![w] = {calls[c].name}]
          /\ Answer(c, w, calls[c].name)
    /\ UNCHANGED <<sidebarVars, disturbed, repairs, acts, faults>>

-----------------------------------------------------------------------------
(* Answers reach the page. *)

Taken(c, op) ==
    /\ At(c, op, "answered") /\ calls' = [calls EXCEPT ![c] = NoCall]
    /\ disturbed' = IF c \in repairs THEN disturbed \ {calls[c].ws} ELSE disturbed
    /\ repairs' = repairs \ {c}
    /\ UNCHANGED <<rowVars, contextMenu, own, acts, faults>>

Unfocus(input) == focus' = IF focus = input THEN "none" ELSE focus

(* MUTANT of RenameAnswered: lists what is in the editor by now. *)
RenameAnsweredByEditor(c) ==
    /\ Taken(c, "rename")
    /\ LET w == calls[c].ws IN
       listed' = IF listed[w] \in Names /\ editName # Blank
                 THEN [listed EXCEPT ![w] = editName] ELSE listed
    /\ editingId' = Null /\ UNCHANGED editName /\ Unfocus("editor")
    /\ UNCHANGED fieldVars

(* renameWorkspace replaces the entry; handleRename closes the editor, *)
(* whichever is open by now.                                           *)
RenameAnswered(c) ==
    /\ Taken(c, "rename")
    /\ LET w == calls[c].ws IN
       listed' = IF listed[w] \in Names THEN [listed EXCEPT ![w] = calls[c].got] ELSE listed
    /\ editingId' = Null /\ UNCHANGED editName /\ Unfocus("editor")
    /\ UNCHANGED fieldVars

DeleteAnswered(c) ==
    /\ Taken(c, "delete")
    /\ LET w == calls[c].ws IN
       listed' = IF listed[w] = Broken THEN listed ELSE [listed EXCEPT ![w] = Gone]
    /\ UNCHANGED <<editorVars, fieldVars, focus>>

(* An error's entry is of no workspace.  handleCreate closes the field. *)
CreateAnswered(c) ==
    /\ Taken(c, "create")
    /\ LET w == calls[c].ws IN
       listed' = IF w = Null THEN listed ELSE [listed EXCEPT ![w] = calls[c].got]
    /\ creating' = FALSE /\ newName' = Blank /\ Unfocus("field")
    /\ UNCHANGED editorVars

-----------------------------------------------------------------------------
(* The user *)

Act == acts < MaxActs /\ acts' = acts + 1 /\ UNCHANGED <<rowVars, listed, faults>>

(* The editor is in the entry with the id. *)
EditorShown == editingId # Null /\ listed[editingId] \in Names
InEditor == EditorShown /\ focus = "editor"
InField == creating /\ focus = "field"

TypeName(n) ==
    /\ Act /\ InEditor /\ editName' = n
    /\ own' = [own EXCEPT ![editingId] = @ \cup ({n} \cap Names)]
    /\ UNCHANGED <<editingId, fieldVars, contextMenu, focus, calls, disturbed, repairs>>

(* Enter, or the focus goes elsewhere: handleRename.  An empty name closes *)
(* the editor, another one leaves it open until the answer.                *)
Commit(left) ==
    /\ Act /\ InEditor
    /\ IF editName = Blank
       THEN editingId' = Null /\ focus' = "none" /\ UNCHANGED <<calls, disturbed, repairs>>
       ELSE /\ Send("rename", editingId, editName)
            /\ focus' = left /\ UNCHANGED editingId
    /\ UNCHANGED <<editName, fieldVars, contextMenu, own>>

Escape ==
    /\ Act /\ InEditor /\ editingId' = Null /\ focus' = "none"
    /\ UNCHANGED <<editName, fieldVars, contextMenu, calls, own, disturbed, repairs>>

(* The click that goes elsewhere has taken the focus from an input before. *)
Elsewhere == Act /\ ~InEditor /\ ~InField

(* A click outside of the menu closes it. *)
Click ==
    /\ Elsewhere
    /\ \/ EditorShown /\ focus' = "editor"
       \/ creating /\ focus' = "field"
       \/ contextMenu # Null /\ UNCHANGED focus
    /\ contextMenu' = Null
    /\ UNCHANGED <<editorVars, fieldVars, calls, own, disturbed, repairs>>

(* MUTANT of StartRename: leaves the text of the last editor. *)
StartRenameAsIs(w) ==
    /\ contextMenu' = Null /\ editingId' = w /\ UNCHANGED editName
    /\ focus' = IF EditorShown /\ editingId = w THEN focus ELSE "editor"
    /\ UNCHANGED <<fieldVars, calls, own, disturbed, repairs>>

(* startRename; the input takes the focus when it appears. *)
StartRename(w) ==
    /\ contextMenu' = Null /\ editingId' = w /\ editName' = listed[w]
    /\ focus' = IF EditorShown /\ editingId = w THEN focus ELSE "editor"
    /\ UNCHANGED <<fieldVars, calls, own, disturbed, repairs>>

DoubleClick(w) ==
    /\ Elsewhere /\ listed[w] \in Names /\ ~(EditorShown /\ editingId = w) /\ StartRename(w)

(* A right click in the editor is one on its entry too. *)
OpenMenu(w) ==
    /\ Act /\ ~InField /\ (InEditor => w = editingId)
    /\ listed[w] \in Names /\ contextMenu' = w
    /\ UNCHANGED <<editorVars, fieldVars, focus, calls, own, disturbed, repairs>>

(* MUTANT of MenuRename: does not look whether the workspace is still there. *)
MenuRenameBlind ==
    /\ Elsewhere /\ contextMenu # Null /\ StartRename(contextMenu)

MenuRename ==
    /\ Elsewhere /\ contextMenu # Null /\ listed[contextMenu] \in Names
    /\ StartRename(contextMenu)

(* Delete is there for the last but one. *)
MenuDelete ==
    /\ Elsewhere /\ contextMenu # Null
    /\ \E w \in Workspaces \ {contextMenu} : listed[w] # Gone
    /\ Send("delete", contextMenu, Blank) /\ contextMenu' = Null
    /\ UNCHANGED <<editorVars, fieldVars, focus, own>>

OpenField ==
    /\ Elsewhere /\ creating' = TRUE /\ contextMenu' = Null
    /\ focus' = IF creating THEN focus ELSE "field"
    /\ UNCHANGED <<editorVars, newName, calls, own, disturbed, repairs>>

TypeNew(n) ==
    /\ Act /\ InField /\ newName' = n
    /\ UNCHANGED <<editorVars, creating, contextMenu, focus, calls, own, disturbed, repairs>>

EnterNew ==
    /\ Act /\ InField /\ newName # Blank /\ Send("create", Null, newName)
    /\ UNCHANGED <<editorVars, fieldVars, contextMenu, focus, own>>

(* Escape, or the focus goes elsewhere *)
LeaveField(escape) ==
    /\ Act /\ InField /\ focus' = "none"
    /\ creating' = (~escape /\ newName # Blank)
    /\ newName' = IF escape THEN Blank ELSE newName
    /\ UNCHANGED <<editorVars, contextMenu, calls, own, disturbed, repairs>>

User ==
    \/ \E n \in Texts : TypeName(n) \/ TypeNew(n)
    \/ \E left \in {"none", "editor"} : Commit(left)
    \/ \E w \in Workspaces : DoubleClick(w) \/ OpenMenu(w)
    \/ Escape \/ Click \/ MenuRename \/ MenuDelete \/ OpenField \/ EnterNew
    \/ \E escape \in BOOLEAN : LeaveField(escape)

-----------------------------------------------------------------------------
(* What goes wrong *)

Fault == faults < MaxFaults /\ faults' = faults + 1 /\ UNCHANGED <<sidebarVars, unborn, acts>>

(* fetch rejects: an editor or a field that waits for it stays open. *)
Lose(c) ==
    /\ Fault /\ calls[c] # NoCall /\ calls' = [calls EXCEPT ![c] = NoCall]
    /\ disturbed' = IF calls[c].at = "sent" THEN disturbed
                    ELSE disturbed \cup ({calls[c].ws} \cap Workspaces)
    /\ repairs' = repairs \ {c}
    /\ UNCHANGED <<name, own>>

(* The answer is an error: the session has expired, or the store is closed. *)
Refuse(c) ==
    /\ Fault /\ calls[c].at = "sent" /\ Answer(c, calls[c].ws, Broken)
    /\ disturbed' = disturbed \cup ({calls[c].ws} \cap Workspaces)
    /\ repairs' = repairs \ {c} /\ UNCHANGED <<name, own>>

(* Another browser renames or deletes a workspace.  Nothing lists them anew. *)
Theirs(w, n) ==
    /\ Fault /\ name[w] # Gone /\ name' = [name EXCEPT ![w] = n]
    /\ own' = [own EXCEPT ![w] = @ \cup ({n} \cap Names)]
    /\ disturbed' = disturbed \cup {w} /\ repairs' = repairs \ About(w)
    /\ UNCHANGED calls

-----------------------------------------------------------------------------
NamesNext ==
    \/ User
    \/ \E c \in Calls :
          \/ Update(c) \/ Updated(c) \/ Delete(c) \/ Create(c)
          \/ RenameAnswered(c) \/ DeleteAnswered(c) \/ CreateAnswered(c)
          \/ Lose(c) \/ Refuse(c)
    \/ \E w \in Workspaces, n \in Names \cup {Gone} : Theirs(w, n)

NamesSpec == NamesInit /\ [][NamesNext]_namesVars

-----------------------------------------------------------------------------
(* The sidebar shows the server's names: of a workspace that no request is *)
(* about, unless requests about it were different ones and overlapped, one *)
(* of them failed, or another browser changed it; and a rename by itself   *)
(* makes good for all of these while the workspace exists.                 *)
NamesAgree == \A w \in Workspaces :
    About(w) = {} /\ w \notin disturbed => listed[w] = name[w]

(* A workspace only ever gets a name that was given to it: one that was    *)
(* typed in its own editor, not in another one that was open before,       *)
(* although the editors share editName and requests are late.              *)
OwnNames == \A w \in Workspaces :
    /\ name[w] # Gone => name[w] \in own[w]
    /\ \A c \in About(w) : calls[c].op = "rename" => calls[c].name \in own[w]
===============================================================================
