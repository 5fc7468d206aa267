---------------------------- MODULE TmuxManager -----------------------------
(***************************************************************************)
(* internal/tmux: the Manager (manager.go), its Session handles            *)
(* (session.go) and, as an external part, the tmux server they drive.      *)
(*                                                                         *)
(* A handle is the *Session of one WebSocket connection.  The callers are  *)
(* the most general ones the package admits: a connection attaches once,   *)
(* may resize from the moment it has its handle until after its own        *)
(* Detach (the read pump is not waited for), and detaches itself, once.    *)
(* Manager.mu is a lock variable: Attach runs two commands under it with   *)
(* the tmux server and the shells free to move in between, while Detach,   *)
(* Resize and Shutdown contain nothing another actor could observe half    *)
(* done, so each is one step.  KillSession runs its tmux command after it  *)
(* released the lock.                                                      *)
(***************************************************************************)
EXTENDS Naturals, FiniteSets

CONSTANTS
    Sessions,   \* session ids (tabs)
    Handles,    \* attach handles, one per WebSocket connection
    Admins,     \* KillSession calls that can run at the same time
    SessionOf,  \* SessionOf[h]: the session id in h's request path
    Sizes,      \* (cols, rows) pairs a client can ask for
    None,
    Fresh,      \* size of a window no resize-window was sent to
    MaxBoots    \* restarts of the process considered

ASSUME ConstantsAssumption ==
    /\ SessionOf \in [Handles -> Sessions]
    /\ None \notin Handles \cup Sessions \cup Admins \cup Sizes
    /\ Fresh \notin Sizes
    /\ MaxBoots \in Nat

VARIABLES
    (* Manager *)
    mu,         \* handle whose Attach holds Manager.mu, or None
    sessions,   \* Manager.sessions: id -> handle, None where there is no entry
    lastSize,   \* Manager.lastSize: id -> size, None where there is no entry
    (* Session *)
    handle,     \* "none", "attaching", "failed", "open", "closed" (Session.closed)
                \* or "lost" with the process it lived in
    ptmx,       \* ptmx[h]: the pty master is open
    recreated,  \* AttachResult.Recreated
    (* tmux server *)
    client,     \* attach client process: "none", "running", "exited", "reaped"
    alive,      \* alive[s]: the server has a session of that name
    winSize,    \* winSize[s]: last size resize-window set on it
    ended,      \* ended[s]: some session of that name has ended before
    (* callers *)
    detached,   \* handles whose handler called Detach
    deleting,   \* deleting[a]: id whose kill-session call a has still to run
    stopping,   \* Shutdown ran
    boots       \* restarts so far

managerVars == <<mu, sessions, lastSize>>
handleVars == <<handle, ptmx, client>>
tmuxVars == <<alive, winSize, ended>>
callVars == <<detached, deleting, stopping, boots>>
vars == <<managerVars, handleVars, recreated, tmuxVars, callVars>>

TypeOK ==
    /\ mu \in Handles \cup {None}
    /\ sessions \in [Sessions -> Handles \cup {None}]
    /\ lastSize \in [Sessions -> Sizes \cup {None}]
    /\ handle \in [Handles -> {"none", "attaching", "failed", "open", "closed", "lost"}]
    /\ ptmx \in [Handles -> BOOLEAN]
    /\ recreated \in [Handles -> BOOLEAN]
    /\ client \in [Handles -> {"none", "running", "exited", "reaped"}]
    /\ alive \in [Sessions -> BOOLEAN]
    /\ winSize \in [Sessions -> Sizes \cup {Fresh}]
    /\ ended \in [Sessions -> BOOLEAN]
    /\ detached \subseteq Handles
    /\ deleting \in [Admins -> Sessions \cup {None}]
    /\ stopping \in BOOLEAN
    /\ boots \in Nat

(* NewManager: empty maps.  tmux may hold sessions of an earlier process.  *)
Init ==
    /\ mu = None
    /\ sessions = [s \in Sessions |-> None]
    /\ lastSize = [s \in Sessions |-> None]
    /\ handle = [h \in Handles |-> "none"]
    /\ ptmx = [h \in Handles |-> FALSE]
    /\ recreated = [h \in Handles |-> FALSE]
    /\ client = [h \in Handles |-> "none"]
    /\ alive \in [Sessions -> BOOLEAN]
    /\ winSize = [s \in Sessions |-> Fresh]
    /\ ended = [s \in Sessions |-> FALSE]
    /\ detached = {}
    /\ deleting = [a \in Admins |-> None]
    /\ stopping = FALSE
    /\ boots = 0

-----------------------------------------------------------------------------
(* Session.Close of every handle in H: idempotent, closes the pty, kills   *)
(* the attach client and waits for it.                                     *)
Close(H) ==
    /\ handle' = [g \in Handles |-> IF g \in H THEN "closed" ELSE handle[g]]
    /\ ptmx' = [g \in Handles |-> g \notin H /\ ptmx[g]]
    /\ client' = [g \in Handles |-> IF g \in H THEN "reaped" ELSE client[g]]

(* The handle Manager.sessions has for s, as a set. *)
Slot(s) == {sessions[s]} \ {None}

(* Attach, up to its tmux commands: has-session, then new-session when     *)
(* there is none.                                                          *)
AttachEnsure(h) ==
    LET s == SessionOf[h] IN
    /\ handle[h] = "none"
    /\ mu = None
    /\ mu' = h
    /\ handle' = [handle EXCEPT ![h] = "attaching"]
    /\ recreated' = [recreated EXCEPT ![h] = ~alive[s]]
    /\ alive' = [alive EXCEPT ![s] = TRUE]
    /\ winSize' = [winSize EXCEPT ![s] = IF alive[s] THEN @ ELSE Fresh]
    /\ UNCHANGED <<sessions, lastSize, ptmx, client, ended, callVars>>

(* new-session fails: Attach returns the error. *)
AttachNoSession(h) ==
    /\ handle[h] = "none"
    /\ mu = None
    /\ ~alive[SessionOf[h]]
    /\ handle' = [handle EXCEPT ![h] = "failed"]
    /\ UNCHANGED <<managerVars, ptmx, client, recreated, tmuxVars, callVars>>

(* pty.StartWithSize fails: Attach returns the error, the tmux session     *)
(* stays.                                                                  *)
AttachNoPty(h) ==
    /\ mu = h
    /\ mu' = None
    /\ handle' = [handle EXCEPT ![h] = "failed"]
    /\ UNCHANGED <<sessions, lastSize, ptmx, client, recreated, tmuxVars, callVars>>

(* MUTANT of AttachInstall: the slot is overwritten, the prior handle stays open. *)
AttachOverwrites(h) ==
    LET s == SessionOf[h] IN
    /\ mu = h
    /\ mu' = None
    /\ handle' = [handle EXCEPT ![h] = "open"]
    /\ ptmx' = [ptmx EXCEPT ![h] = TRUE]
    /\ client' = [client EXCEPT ![h] = IF alive[s] THEN "running" ELSE "exited"]
    /\ sessions' = [sessions EXCEPT ![s] = h]
    /\ UNCHANGED <<lastSize, recreated, tmuxVars, callVars>>

(* The rest of Attach: start the attach client (it exits again when the    *)
(* session has ended meanwhile), close a prior handle, take the slot.      *)
AttachInstall(h) ==
    LET s == SessionOf[h] IN
    /\ mu = h
    /\ mu' = None
    /\ handle' = [g \in Handles |-> IF g = h THEN "open"
                                    ELSE IF g \in Slot(s) THEN "closed"
                                    ELSE handle[g]]
    /\ ptmx' = [g \in Handles |-> g = h \/ (g \notin Slot(s) /\ ptmx[g])]
    /\ client' = [g \in Handles |->
                    IF g = h THEN IF alive[s] THEN "running" ELSE "exited"
                    ELSE IF g \in Slot(s) THEN "reaped"
                    ELSE client[g]]
    /\ sessions' = [sessions EXCEPT ![s] = h]
    /\ UNCHANGED <<lastSize, recreated, tmuxVars, callVars>>

(* MUTANT of Detach: looks the handle up by id only, the bug the Concurrency *)
(* contract of Attach recalls.                                             *)
DetachById(h) ==
    LET s == SessionOf[h] IN
    /\ handle[h] \in {"open", "closed"}
    /\ h \notin detached
    /\ mu = None
    /\ detached' = detached \cup {h}
    /\ Close(Slot(s))
    /\ sessions' = [sessions EXCEPT ![s] = None]
    /\ UNCHANGED <<mu, lastSize, recreated, tmuxVars, deleting, stopping, boots>>

(* Detach(sessionID, sess) by the handler that owns h: the slot is cleared *)
(* only if it still holds h; h itself is closed in any case.               *)
Detach(h) ==
    LET s == SessionOf[h] IN
    /\ handle[h] \in {"open", "closed"}
    /\ h \notin detached
    /\ mu = None
    /\ detached' = detached \cup {h}
    /\ sessions' = [sessions EXCEPT ![s] = IF @ = h THEN None ELSE @]
    /\ Close({h})
    /\ UNCHANGED <<mu, lastSize, recreated, tmuxVars, deleting, stopping, boots>>

(* Session.ClosePTMX: the pty only; nothing once Close ran. *)
ClosePTMX(h) ==
    /\ handle[h] \in {"open", "closed"}
    /\ ptmx' = [ptmx EXCEPT ![h] = FALSE]
    /\ UNCHANGED <<managerVars, handle, client, recreated, tmuxVars, callVars>>

(* MUTANT of Resize: caches the size although the command failed. *)
ResizeCachesFailure(h, z) ==
    LET s == SessionOf[h] IN
    /\ handle[h] \in {"open", "closed"}
    /\ mu = None
    /\ lastSize' = [lastSize EXCEPT ![s] = z]
    /\ \/ UNCHANGED winSize
       \/ alive[s] /\ winSize' = [winSize EXCEPT ![s] = z]
    /\ UNCHANGED <<mu, sessions, handleVars, recreated, alive, ended, callVars>>

(* Manager.Resize: nothing for the cached dimensions.  Otherwise           *)
(* resize-window, then the cache.  The command fails when there is no such *)
(* session, and may fail at any other time; then nothing is cached.        *)
Resize(h, z) ==
    LET s == SessionOf[h] IN
    /\ handle[h] \in {"open", "closed"}
    /\ mu = None
    /\ \/ /\ lastSize[s] = z
          /\ UNCHANGED <<winSize, lastSize>>
       \/ /\ lastSize[s] # z
          /\ UNCHANGED <<winSize, lastSize>>
       \/ /\ lastSize[s] # z
          /\ alive[s]
          /\ winSize' = [winSize EXCEPT ![s] = z]
          /\ lastSize' = [lastSize EXCEPT ![s] = z]
    /\ UNCHANGED <<mu, sessions, handleVars, recreated, alive, ended, callVars>>

(* MUTANT of KillLocked: stores the zero size instead of deleting the entry. *)
KillZeroesCache(a, s) ==
    /\ deleting[a] = None
    /\ mu = None
    /\ deleting' = [deleting EXCEPT ![a] = s]
    /\ Close(Slot(s))
    /\ sessions' = [sessions EXCEPT ![s] = None]
    /\ lastSize' = [lastSize EXCEPT ![s] = Fresh]
    /\ UNCHANGED <<mu, recreated, tmuxVars, detached, stopping, boots>>

(* KillSession under the lock: close what the slot holds and forget it and *)
(* the cached size.                                                        *)
KillLocked(a, s) ==
    /\ deleting[a] = None
    /\ mu = None
    /\ deleting' = [deleting EXCEPT ![a] = s]
    /\ Close(Slot(s))
    /\ sessions' = [sessions EXCEPT ![s] = None]
    /\ lastSize' = [lastSize EXCEPT ![s] = None]
    /\ UNCHANGED <<mu, recreated, tmuxVars, detached, stopping, boots>>

(* A tmux session ends: its attach clients exit. *)
EndSession(s) ==
    /\ alive' = [alive EXCEPT ![s] = FALSE]
    /\ ended' = [ended EXCEPT ![s] = ended[s] \/ alive[s]]
    /\ client' = [h \in Handles |->
                    IF SessionOf[h] = s /\ client[h] = "running" THEN "exited"
                    ELSE client[h]]

(* KillSession after the unlock: kill-session, its error dropped. *)
KillTmux(a) ==
    /\ deleting[a] # None
    /\ deleting' = [deleting EXCEPT ![a] = None]
    /\ \/ EndSession(deleting[a])
       \/ UNCHANGED <<alive, ended, client>>
    /\ UNCHANGED <<managerVars, handle, ptmx, recreated, winSize, detached, stopping, boots>>

(* Shutdown: close and forget every entry of the map. *)
Shutdown ==
    /\ ~stopping
    /\ mu = None
    /\ stopping' = TRUE
    /\ Close(UNION {Slot(s) : s \in Sessions})
    /\ sessions' = [s \in Sessions |-> None]
    /\ UNCHANGED <<mu, lastSize, recreated, tmuxVars, detached, deleting, boots>>

(* The shell of a tmux session exits, and the session with it. *)
ShellExit(s) ==
    /\ alive[s]
    /\ EndSession(s)
    /\ UNCHANGED <<managerVars, handle, ptmx, recreated, winSize, callVars>>

(* The process ends (at any point) and a new one starts: everything in its *)
(* memory is gone, its attach clients are hung up, the tmux server stays.  *)
(* A host restart is this followed by ShellExit of every session.          *)
Restart ==
    /\ boots < MaxBoots
    /\ boots' = boots + 1
    /\ mu' = None
    /\ sessions' = [s \in Sessions |-> None]
    /\ lastSize' = [s \in Sessions |-> None]
    /\ handle' = [h \in Handles |->
                    IF handle[h] = "attaching" THEN "failed"
                    ELSE IF handle[h] \in {"open", "closed"} THEN "lost"
                    ELSE handle[h]]
    /\ ptmx' = [h \in Handles |-> FALSE]
    /\ client' = [h \in Handles |-> IF client[h] = "none" THEN "none" ELSE "reaped"]
    /\ deleting' = [a \in Admins |-> None]
    /\ stopping' = FALSE
    /\ UNCHANGED <<recreated, tmuxVars, detached>>

Next ==
    \/ \E h \in Handles :
         \/ AttachEnsure(h)
         \/ AttachNoSession(h)
         \/ AttachNoPty(h)
         \/ AttachInstall(h)
         \/ Detach(h)
         \/ ClosePTMX(h)
    \/ \E h \in Handles, z \in Sizes : Resize(h, z)
    \/ \E a \in Admins, s \in Sessions : KillLocked(a, s)
    \/ \E a \in Admins : KillTmux(a)
    \/ Shutdown
    \/ \E s \in Sessions : ShellExit(s)
    \/ Restart

Spec == Init /\ [][Next]_vars

-----------------------------------------------------------------------------
(* What Manager.sessions holds for an id is a handle for that id that      *)
(* nobody has closed yet (Attach, Detach, KillSession, Shutdown keep map   *)
(* and handles in step).                                                   *)
SlotOpen ==
    \A s \in Sessions : sessions[s] # None =>
        /\ handle[sessions[s]] = "open"
        /\ SessionOf[sessions[s]] = s

(* No attach client outlives its place in the map: every client process    *)
(* that was not reaped is the one Manager.sessions has for its id, so each *)
(* tmux session has at most one of ours and Shutdown reaches all of them.  *)
NoLeakedClient ==
    \A h \in Handles : client[h] \in {"running", "exited"} =>
        sessions[SessionOf[h]] = h

(* Manager.sessions and the handles stay in step: the map holds open       *)
(* handles, each under its own id, and no attach client lives outside it.  *)
SlotsHoldTheLive == SlotOpen /\ NoLeakedClient

(* The size Resize believes it sent is the window's, unless the tmux       *)
(* session has ended behind the cache's back, and then the window is one   *)
(* nothing was sent to: it never has another size than the cached one that *)
(* we sent it ourselves.                                                   *)
CacheNotContradicted ==
    \A s \in Sessions : lastSize[s] # None =>
        /\ ~ended[s] => alive[s] /\ winSize[s] = lastSize[s]
        /\ alive[s] => winSize[s] \in {lastSize[s], Fresh}

(* The strengthening the proofs need: whose Attach holds the lock, and      *)
(* which handles have a process to reap.                                   *)
LockHolder == \A h \in Handles : handle[h] = "attaching" <=> mu = h
OpenHasClient ==
    \A h \in Handles : handle[h] = "open" <=> client[h] \in {"running", "exited"}

IInv == TypeOK /\ LockHolder /\ OpenHasClient /\ SlotOpen /\ NoLeakedClient

(* The handles as a caller sees them. *)
phaseOf == [h \in Handles |-> CASE handle[h] = "open" -> "live"
                               [] handle[h] \in {"closed", "lost"} -> "gone"
                               [] OTHER -> "idle"]

Slots == INSTANCE AttachSlot WITH phase <- phaseOf

(* The manager hands out clients as AttachSlot promises: in particular a   *)
(* Detach never takes away anybody's client but its caller's.              *)
ImplementsAttachSlot == Slots!Spec

=============================================================================
