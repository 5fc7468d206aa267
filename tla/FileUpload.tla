------------------------------ MODULE FileUpload ------------------------------
(***************************************************************************)
(* Files dropped on a terminal: onDrop of TerminalView.tsx, uploadFile of  *)
(* api/upload.ts, and the Upload handler of internal/api/upload.go.        *)
(*                                                                         *)
(* A drop uploads its files one after the other; each is a request, with a *)
(* handler that goes on when the browser has given up on it.  Drops of     *)
(* several pages, and several drops on one, overlap.  Contents are left    *)
(* out: a file is known by its drop and its place in it.                   *)
(***************************************************************************)
EXTENDS Integers, Sequences

CONSTANTS
    Tabs, Drops,
    Names,          \* of dropped files, sanitized
    Paths,
    Candidates,     \* the paths uniqueUploadPath tries for a name, in order
    None,
    Other,          \* a file nobody here has uploaded
    Earlier,        \* the paths that have one at first
    MaxFiles,       \* bound on the files of each drop
    MaxActs         \* bound on what users do besides, and on what goes wrong

ASSUME FileUploadAssumption ==
    /\ Candidates \in [Names -> Seq(Paths) \ {<<>>}]
    /\ MaxFiles \in [Drops -> Nat] /\ MaxActs \in Nat
    /\ {None, Other} \cap (Drops \X Nat) = {} /\ None # Other
    /\ None \notin Tabs /\ Earlier \subseteq Paths

Files == UNION {{d} \X (1 .. MaxFiles[d]) : d \in Drops}

VARIABLES
    rows,       \* tabs with a row in sessions
    disk,       \* what is at a path
    whole,      \* paths of files whose io.Copy has ended
    pc, tried,  \* of a file's request; how many candidates it has tried
    active,     \* the tab on display
    tab, named, \* of a drop: sessionId and files, as its closure has them
    at,         \* the file it awaits
    pasted,     \* files whose path was pasted into a tab's terminal
    moved, cut, \* history: files taken out of uploads; cut short by a stop
    acts        \* steps counted by MaxActs

serverVars == <<rows, disk, whole, pc, tried>>
dropVars == <<tab, named, at, pasted>>
vars == <<serverVars, active, dropVars, moved, cut, acts>>

Handled == {"searching", "creating", "copying"}

TypeOK ==
    /\ rows \subseteq Tabs
    /\ disk \in [Paths -> Files \cup {None, Other}]
    /\ whole \subseteq Paths
    /\ pc \in [Files -> {"none", "sent", "ok", "error"} \cup Handled]
    /\ tried \in [Files -> Nat]
    /\ active \in Tabs
    /\ tab \in [Drops -> Tabs \cup {None}]
    /\ named \in [Drops -> Seq(Names)]
    /\ at \in [Drops -> Nat] /\ \A d \in Drops : at[d] <= Len(named[d]) + 1
    /\ pasted \in [Tabs -> Seq(Files)]
    /\ moved \subseteq Files /\ cut \subseteq Files
    /\ acts \in 0 .. MaxActs

Init ==
    /\ rows = Tabs
    /\ disk = [p \in Paths |-> IF p \in Earlier THEN Other ELSE None]
    /\ whole = Earlier
    /\ pc = [f \in Files |-> "none"] /\ tried = [f \in Files |-> 1]
    /\ active \in Tabs
    /\ tab = [d \in Drops |-> None] /\ named = [d \in Drops |-> <<>>]
    /\ at = [d \in Drops |-> 0]
    /\ pasted = [t \in Tabs |-> <<>>]
    /\ moved = {} /\ cut = {}
    /\ acts = 0

-----------------------------------------------------------------------------
(* The browser *)

Awaited(d) == <<d, at[d]>>

(* MUTANT of UnderWay: the loop does not end. *)
Started(d) == at[d] > 0

UnderWay(d) == at[d] \in 1 .. Len(named[d])

(* onDrop, up to its first await *)
Drop(d) ==
    /\ at[d] = 0
    /\ tab' = [tab EXCEPT ![d] = active]
    /\ \E n \in 1 .. MaxFiles[d] : \E fs \in [1 .. n -> Names] : named' = [named EXCEPT ![d] = fs]
    /\ at' = [at EXCEPT ![d] = 1]
    /\ pc' = [pc EXCEPT ![<<d, 1>>] = "sent"]
    /\ UNCHANGED <<rows, disk, whole, tried, active, pasted, moved, cut>>

(* The next turn of the loop, if there is one *)
NextFile(d) ==
    /\ at' = [at EXCEPT ![d] = @ + 1]
    /\ pc' = IF at[d] < Len(named[d]) THEN [pc EXCEPT ![<<d, at[d] + 1>>] = "sent"] ELSE pc
    /\ UNCHANGED <<rows, disk, whole, tried, active, tab, named, moved, cut>>

(* MUTANT of Uploaded: pastes into the terminal on display. *)
UploadedHere(d) ==
    /\ UnderWay(d) /\ pc[Awaited(d)] = "ok"
    /\ pasted' = [pasted EXCEPT ![active] = Append(@, Awaited(d))]
    /\ NextFile(d)

(* The answer has a path: it is pasted into the terminal the file was      *)
(* dropped on, which still exists, be it on display or not.                *)
Uploaded(d) ==
    /\ UnderWay(d) /\ pc[Awaited(d)] = "ok"
    /\ pasted' = [pasted EXCEPT ![tab[d]] = Append(@, Awaited(d))]
    /\ NextFile(d)

(* MUTANT of Refused: the error ends the loop, not just its turn. *)
RefusedForGood(d) == FALSE

(* The answer is an error, which is shown. *)
Refused(d) ==
    /\ UnderWay(d) /\ pc[Awaited(d)] = "error"
    /\ NextFile(d) /\ UNCHANGED pasted

(* fetch fails.  The handler, if there is one, does not know. *)
Lost(d) == UnderWay(d) /\ NextFile(d) /\ UNCHANGED pasted

(* The page is closed, or loaded again. *)
Leave(d) ==
    /\ UnderWay(d)
    /\ at' = [at EXCEPT ![d] = Len(named[d]) + 1]
    /\ UNCHANGED <<serverVars, active, tab, named, pasted, moved, cut>>

Select(t) ==
    /\ active # t /\ active' = t
    /\ UNCHANGED <<serverVars, dropVars, moved, cut>>

-----------------------------------------------------------------------------
(* The Upload handler *)

Name(f) == named[f[1]][f[2]]
Path(f) == Candidates[Name(f)][tried[f]]

Goto(f, where) == pc' = [pc EXCEPT ![f] = where]
BrowserWaits == UNCHANGED <<rows, active, dropVars, moved, cut>>

(* GetSession; then parsing, which shares nothing.  It ends in an error    *)
(* if there is no row, a query or the directory fails, or the form is too  *)
(* large, cut off, or has no file or no usable name in it.                 *)
Check(f) ==
    /\ pc[f] = "sent"
    /\ \/ tab[f[1]] \in rows /\ Goto(f, "searching")
       \/ Goto(f, "error")
    /\ UNCHANGED <<disk, whole, tried>> /\ BrowserWaits

(* One turn of uniqueUploadPath *)
Stat(f) ==
    /\ pc[f] = "searching"
    /\ \/ disk[Path(f)] = None /\ Goto(f, "creating") /\ UNCHANGED tried
       \/ /\ disk[Path(f)] # None
          /\ IF tried[f] < Len(Candidates[Name(f)])
             THEN tried' = [tried EXCEPT ![f] = @ + 1] /\ UNCHANGED pc
             ELSE Goto(f, "error") /\ UNCHANGED tried
    /\ UNCHANGED <<disk, whole>> /\ BrowserWaits

(* MUTANT of Create: without O_EXCL. *)
CreateAnyway(f) ==
    /\ pc[f] = "creating"
    /\ disk' = [disk EXCEPT ![Path(f)] = f]
    /\ whole' = whole \ {Path(f)}
    /\ Goto(f, "copying")
    /\ UNCHANGED tried /\ BrowserWaits

(* os.OpenFile with O_CREATE and O_EXCL *)
Create(f) ==
    /\ pc[f] = "creating"
    /\ \/ disk[Path(f)] = None /\ disk' = [disk EXCEPT ![Path(f)] = f] /\ Goto(f, "copying")
       \/ Goto(f, "error") /\ UNCHANGED disk
    /\ UNCHANGED <<whole, tried>> /\ BrowserWaits

Copy(f) ==
    /\ pc[f] = "copying"
    /\ whole' = whole \cup {Path(f)}
    /\ Goto(f, "ok")
    /\ UNCHANGED <<disk, tried>> /\ BrowserWaits

(* MUTANT of CopyFails: leaves what was written. *)
CopyLeaves(f) ==
    /\ pc[f] = "copying" /\ Goto(f, "error")
    /\ UNCHANGED <<disk, whole, tried>> /\ BrowserWaits

CopyFails(f) ==
    /\ pc[f] = "copying" /\ Goto(f, "error")
    /\ disk' = [disk EXCEPT ![Path(f)] = None]
    /\ UNCHANGED <<whole, tried>> /\ BrowserWaits

-----------------------------------------------------------------------------
(* Around it *)

DeleteTab(t) ==
    /\ t \in rows /\ rows' = rows \ {t}
    /\ UNCHANGED <<disk, whole, pc, tried, active, dropVars, moved, cut>>

(* The user takes a file that nobody is writing out of uploads. *)
TakeAway(p) ==
    /\ disk[p] \notin {None} \cup {f \in Files : pc[f] = "copying"}
    /\ disk' = [disk EXCEPT ![p] = None]
    /\ whole' = whole \ {p}
    /\ moved' = moved \cup ({disk[p]} \cap Files)
    /\ UNCHANGED <<rows, pc, tried, active, dropVars, cut>>

(* The process ends and starts again: files stay as they are. *)
Restart ==
    /\ pc' = [f \in Files |-> IF pc[f] \in {"none", "ok"} THEN pc[f] ELSE "error"]
    /\ cut' = cut \cup {f \in Files : pc[f] = "copying"}
    /\ UNCHANGED <<rows, disk, whole, tried, active, dropVars, moved>>

-----------------------------------------------------------------------------
Receive(d) == Uploaded(d) \/ Refused(d)
Handle(f) == Check(f) \/ Stat(f) \/ Create(f) \/ Copy(f) \/ CopyFails(f)

Disturb ==
    \/ \E d \in Drops : Lost(d) \/ Leave(d)
    \/ \E t \in Tabs : Select(t) \/ DeleteTab(t)
    \/ \E p \in Paths : TakeAway(p)
    \/ Restart

Calm == UNCHANGED acts

Next ==
    \/ Disturb /\ acts < MaxActs /\ acts' = acts + 1
    \/ \E d \in Drops : (Drop(d) \/ Receive(d)) /\ Calm
    \/ \E f \in Files : Handle(f) /\ Calm

(* Handlers run and answers that are not lost are received; nothing is     *)
(* assumed of users.                                                       *)
Fairness ==
    /\ \A d \in Drops : WF_vars(Receive(d) /\ Calm)
    /\ \A f \in Files : WF_vars(Handle(f) /\ Calm)

Spec == Init /\ [][Next]_vars /\ Fairness
-----------------------------------------------------------------------------
(* Properties *)

(* "Collision-safe naming" (README.md:156) with os.Stat and OpenFile apart *)
(* (upload.go:82-88): the path an upload was answered with has the whole   *)
(* file, whatever is uploaded beside or after it, until the user takes it  *)
(* away.                                                                   *)
UploadsAreKept ==
    \A f \in Files : pc[f] = "ok" /\ f \notin moved => disk[Path(f)] = f /\ Path(f) \in whole

(* A failed upload leaves nothing behind (upload.go:95-96), and removes    *)
(* nothing of another's: what is in uploads and not whole is being written *)
(* or was cut short by a stop.                                             *)
NoStrayFiles ==
    \A p \in Paths : disk[p] \in Files =>
        disk[p] \in cut \/ pc[disk[p]] = "copying" \/ (pc[disk[p]] = "ok" /\ p \in whole)

(* "The resulting absolute path is automatically pasted at your prompt"    *)
(* (README.md:157): in the terminal it was dropped on, although the tab on *)
(* display may be another by then, the paths of a drop in the order of its *)
(* files, each once, and only of files that are there.                     *)
PastedWhereDropped ==
    \A t \in Tabs :
        /\ \A i \in DOMAIN pasted[t] : tab[pasted[t][i][1]] = t /\ pc[pasted[t][i]] = "ok"
        /\ \A i, j \in DOMAIN pasted[t] :
              i < j /\ pasted[t][i][1] = pasted[t][j][1] => pasted[t][i][2] < pasted[t][j][2]

(* Every drop comes to its end: a file that fails, or whose answer is      *)
(* lost, does not keep the others from being uploaded, nor the page from   *)
(* taking the "Uploading" label away (TerminalView.tsx:86-95).             *)
DropsEnd == \A d \in Drops : UnderWay(d) ~> at[d] > Len(named[d])
==============================================================================
