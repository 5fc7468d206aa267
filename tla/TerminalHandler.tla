--------------------------- MODULE TerminalHandler ---------------------------
(***************************************************************************)
(* internal/ws: HandleTerminal, its two pumps and the shutdown they share, *)
(* running against TmuxManager.  One handler per WebSocket connection; the *)
(* handler, the goroutine that copies pty output to the socket ("pty") and *)
(* the one that reads the socket ("ws") are separate threads.  A handler   *)
(* does not wait for its pumps, so they may still move, and still call     *)
(* Resize, after it has detached and returned.                             *)
(* Terminal bytes carry no data here: what is kept of a read or a write is *)
(* whether it returns, blocks or fails.                                    *)
(***************************************************************************)
EXTENDS Naturals, FiniteSets

CONSTANTS Sessions, Handles, Admins, SessionOf, Sizes, None, Fresh, MaxBoots

ASSUME HandlerAssumption ==
    /\ SessionOf \in [Handles -> Sessions]
    /\ None \notin Handles \cup Sessions \cup Admins \cup Sizes
    /\ Fresh \notin Sizes
    /\ MaxBoots \in Nat

VARIABLES
    (* TmuxManager's *)
    mu, sessions, lastSize, handle, ptmx, recreated, client, alive, winSize,
    ended, detached, deleting, stopping, boots,
    (* HandleTerminal, per connection *)
    pc,         \* "idle", "attach", "announce", "serve", "detach", "returned",
                \* or "lost" with the process
    gone,       \* gone[h]: the browser closed its end; one that vanishes without
                \* a trace is a browser from which nothing comes any more
    conn,       \* conn[h]: the server has not closed its end
    done,       \* done[h]: the done channel is closed
    once,       \* shutdown: "new", "conn", "ptmx" (the step it is at), "finished"
    ptyPump,    \* "off", "reading", "shutdown", "exited"
    wsPump,     \* "off", "reading", "typing", "resizing", "shutdown", "exited"
    wanted      \* size of the resize frame the ws pump is handling, or None

M == INSTANCE TmuxManager

tmuxVars == <<mu, sessions, lastSize, handle, ptmx, recreated, client, alive,
              winSize, ended, detached, deleting, stopping, boots>>
connVars == <<gone, conn>>
shutVars == <<done, once>>
pumpVars == <<ptyPump, wsPump, wanted>>
handlerVars == <<pc, connVars, shutVars, pumpVars>>
vars == <<tmuxVars, handlerVars>>

TypeOK ==
    /\ M!TypeOK
    /\ pc \in [Handles -> {"idle", "attach", "announce", "serve", "detach",
                           "returned", "lost"}]
    /\ gone \in [Handles -> BOOLEAN]
    /\ conn \in [Handles -> BOOLEAN]
    /\ done \in [Handles -> BOOLEAN]
    /\ once \in [Handles -> {"new", "conn", "ptmx", "finished"}]
    /\ ptyPump \in [Handles -> {"off", "reading", "shutdown", "exited"}]
    /\ wsPump \in [Handles -> {"off", "reading", "typing", "resizing", "shutdown",
                               "exited"}]
    /\ wanted \in [Handles -> Sizes \cup {None}]

Init ==
    /\ M!Init
    /\ pc = [h \in Handles |-> "idle"]
    /\ gone = [h \in Handles |-> FALSE]
    /\ conn = [h \in Handles |-> FALSE]
    /\ done = [h \in Handles |-> FALSE]
    /\ once = [h \in Handles |-> "new"]
    /\ ptyPump = [h \in Handles |-> "off"]
    /\ wsPump = [h \in Handles |-> "off"]
    /\ wanted = [h \in Handles |-> None]

-----------------------------------------------------------------------------
(* The upgrade succeeded; Attach is next. *)
Upgrade(h) ==
    /\ pc[h] = "idle"
    /\ pc' = [pc EXCEPT ![h] = "attach"]
    /\ conn' = [conn EXCEPT ![h] = TRUE]
    /\ UNCHANGED <<tmuxVars, gone, shutVars, pumpVars>>

(* Attach gets the lock and makes sure there is a tmux session. *)
CallAttach(h) ==
    /\ pc[h] = "attach"
    /\ M!AttachEnsure(h)
    /\ UNCHANGED handlerVars

(* Attach fails: the error frame is written, the connection closed. *)
AttachFails(h) ==
    /\ pc[h] = "attach"
    /\ M!AttachNoSession(h) \/ M!AttachNoPty(h)
    /\ pc' = [pc EXCEPT ![h] = "returned"]
    /\ conn' = [conn EXCEPT ![h] = FALSE]
    /\ UNCHANGED <<gone, shutVars, pumpVars>>

Attached(h) ==
    /\ pc[h] = "attach"
    /\ M!AttachInstall(h)
    /\ pc' = [pc EXCEPT ![h] = "announce"]
    /\ UNCHANGED <<connVars, shutVars, pumpVars>>

(* The `attached` frame is accepted by the socket and the pumps start. *)
Announce(h) ==
    /\ pc[h] = "announce"
    /\ pc' = [pc EXCEPT ![h] = "serve"]
    /\ ptyPump' = [ptyPump EXCEPT ![h] = "reading"]
    /\ wsPump' = [wsPump EXCEPT ![h] = "reading"]
    /\ UNCHANGED <<tmuxVars, connVars, shutVars, wanted>>

(* MUTANT of AnnounceFails: Detach is deferred only after the write. *)
AnnounceFailsUndetached(h) ==
    /\ pc[h] = "announce"
    /\ gone[h]
    /\ pc' = [pc EXCEPT ![h] = "returned"]
    /\ conn' = [conn EXCEPT ![h] = FALSE]
    /\ UNCHANGED <<tmuxVars, gone, shutVars, pumpVars>>

(* The `attached` frame cannot be written: straight to the deferred Detach.*)
AnnounceFails(h) ==
    /\ pc[h] = "announce"
    /\ gone[h]
    /\ pc' = [pc EXCEPT ![h] = "detach"]
    /\ UNCHANGED <<tmuxVars, connVars, shutVars, pumpVars>>

(* <-done *)
Wake(h) ==
    /\ pc[h] = "serve"
    /\ done[h]
    /\ pc' = [pc EXCEPT ![h] = "detach"]
    /\ UNCHANGED <<tmuxVars, connVars, shutVars, pumpVars>>

(* The deferred calls: Detach, then conn.Close. *)
CallDetach(h) ==
    /\ pc[h] = "detach"
    /\ M!Detach(h)
    /\ pc' = [pc EXCEPT ![h] = "returned"]
    /\ conn' = [conn EXCEPT ![h] = FALSE]
    /\ UNCHANGED <<gone, shutVars, pumpVars>>

-----------------------------------------------------------------------------
(* pty -> WebSocket.  Copying a chunk leaves the pump where it is; writing *)
(* it fails on a closed connection, on one whose browser is gone, and when *)
(* the write deadline passes.                                              *)
PtyForwardFails(h) ==
    /\ ptyPump[h] = "reading"
    /\ ptmx[h] /\ client[h] = "running"
    /\ ptyPump' = [ptyPump EXCEPT ![h] = "shutdown"]
    /\ UNCHANGED <<tmuxVars, pc, connVars, shutVars, wsPump, wanted>>

(* MUTANT of PtyEOF: the pump returns without calling shutdown. *)
PtyEOFQuiet(h) ==
    /\ ptyPump[h] = "reading"
    /\ ~ptmx[h] \/ client[h] # "running"
    /\ ptyPump' = [ptyPump EXCEPT ![h] = "exited"]
    /\ UNCHANGED <<tmuxVars, pc, connVars, shutVars, wsPump, wanted>>

(* sess.Read fails: the pty is closed, or nobody has its other end open. *)
PtyEOF(h) ==
    /\ ptyPump[h] = "reading"
    /\ ~ptmx[h] \/ client[h] # "running"
    /\ ptyPump' = [ptyPump EXCEPT ![h] = "shutdown"]
    /\ UNCHANGED <<tmuxVars, pc, connVars, shutVars, wsPump, wanted>>

(* MUTANT of ReadFrame: a resize to zero columns or rows is let through. *)
ReadFrameUnchecked(h) ==
    /\ wsPump[h] = "reading"
    /\ conn[h] /\ ~gone[h]
    /\ \E z \in Sizes \cup {Fresh} :
         /\ wsPump' = [wsPump EXCEPT ![h] = "resizing"]
         /\ wanted' = [wanted EXCEPT ![h] = z]
    /\ UNCHANGED <<tmuxVars, pc, connVars, shutVars, ptyPump>>

(* WebSocket -> pty: a frame arrives.  Binary ones are typed, resize ones  *)
(* are applied.  A ping is answered, or the answer cannot be written.      *)
ReadFrame(h) ==
    /\ wsPump[h] = "reading"
    /\ conn[h] /\ ~gone[h]
    /\ \/ wsPump' = [wsPump EXCEPT ![h] = "typing"] /\ UNCHANGED wanted
       \/ \E z \in Sizes :
            /\ wsPump' = [wsPump EXCEPT ![h] = "resizing"]
            /\ wanted' = [wanted EXCEPT ![h] = z]
       \/ wsPump' = [wsPump EXCEPT ![h] = "shutdown"] /\ UNCHANGED wanted
    /\ UNCHANGED <<tmuxVars, pc, connVars, shutVars, ptyPump>>

(* conn.ReadMessage fails: either end closed the connection.  There is no  *)
(* read deadline: a browser that vanished silently is not noticed here.    *)
ReadFails(h) ==
    /\ wsPump[h] = "reading"
    /\ ~conn[h] \/ gone[h]
    /\ wsPump' = [wsPump EXCEPT ![h] = "shutdown"]
    /\ UNCHANGED <<tmuxVars, pc, connVars, shutVars, ptyPump, wanted>>

(* sess.Write is done: the attach client took the input. *)
Typed(h) ==
    /\ wsPump[h] = "typing"
    /\ ptmx[h]
    /\ wsPump' = [wsPump EXCEPT ![h] = "reading"]
    /\ UNCHANGED <<tmuxVars, pc, connVars, shutVars, ptyPump, wanted>>

(* sess.Write fails, its result unused: the pty is closed. *)
TypingFails(h) ==
    /\ wsPump[h] = "typing"
    /\ ~ptmx[h]
    /\ wsPump' = [wsPump EXCEPT ![h] = "reading"]
    /\ UNCHANGED <<tmuxVars, pc, connVars, shutVars, ptyPump, wanted>>

(* sess.Resize (the pty's own size) and tmuxMgr.Resize, errors unused. *)
CallResize(h) ==
    /\ wsPump[h] = "resizing"
    /\ M!Resize(h, wanted[h])
    /\ wsPump' = [wsPump EXCEPT ![h] = "reading"]
    /\ wanted' = [wanted EXCEPT ![h] = None]
    /\ UNCHANGED <<pc, connVars, shutVars, ptyPump>>

(* shutdown(): the first pump to call it closes done, conn and the pty, in *)
(* that order; the other one waits in once.Do until that is finished.      *)
CloseDone(h) ==
    /\ "shutdown" \in {ptyPump[h], wsPump[h]}
    /\ once[h] = "new"
    /\ once' = [once EXCEPT ![h] = "conn"]
    /\ done' = [done EXCEPT ![h] = TRUE]
    /\ UNCHANGED <<tmuxVars, pc, connVars, pumpVars>>

(* MUTANT of CloseConn: shutdown waits for the other pump inside once.Do. *)
CloseConnWaits(h) ==
    /\ once[h] = "conn"
    /\ "exited" \in {ptyPump[h], wsPump[h]}
    /\ once' = [once EXCEPT ![h] = "ptmx"]
    /\ conn' = [conn EXCEPT ![h] = FALSE]
    /\ UNCHANGED <<tmuxVars, pc, gone, done, pumpVars>>

CloseConn(h) ==
    /\ once[h] = "conn"
    /\ once' = [once EXCEPT ![h] = "ptmx"]
    /\ conn' = [conn EXCEPT ![h] = FALSE]
    /\ UNCHANGED <<tmuxVars, pc, gone, done, pumpVars>>

(* MUTANT of CallClosePTMX: closes the handle behind the manager's back. *)
CloseHandle(h) ==
    /\ once[h] = "ptmx"
    /\ handle[h] \in {"open", "closed"}
    /\ M!Close({h})
    /\ once' = [once EXCEPT ![h] = "finished"]
    /\ UNCHANGED <<mu, sessions, lastSize, recreated, alive, winSize, ended,
                   detached, deleting, stopping, boots>>
    /\ UNCHANGED <<pc, connVars, done, pumpVars>>

CallClosePTMX(h) ==
    /\ once[h] = "ptmx"
    /\ M!ClosePTMX(h)
    /\ once' = [once EXCEPT ![h] = "finished"]
    /\ UNCHANGED <<pc, connVars, done, pumpVars>>

PtyPumpExits(h) ==
    /\ ptyPump[h] = "shutdown"
    /\ once[h] = "finished"
    /\ ptyPump' = [ptyPump EXCEPT ![h] = "exited"]
    /\ UNCHANGED <<tmuxVars, pc, connVars, shutVars, wsPump, wanted>>

WsPumpExits(h) ==
    /\ wsPump[h] = "shutdown"
    /\ once[h] = "finished"
    /\ wsPump' = [wsPump EXCEPT ![h] = "exited"]
    /\ UNCHANGED <<tmuxVars, pc, connVars, shutVars, ptyPump, wanted>>

-----------------------------------------------------------------------------
(* The world around the handlers. *)

(* The browser closes the connection while the handler runs. *)
PeerLeaves(h) ==
    /\ pc[h] \in {"attach", "announce", "serve", "detach"}
    /\ ~gone[h]
    /\ gone' = [gone EXCEPT ![h] = TRUE]
    /\ UNCHANGED <<tmuxVars, pc, conn, shutVars, pumpVars>>

(* KillSession by a REST handler; shells exit. *)
AdminLock(a, s) == M!KillLocked(a, s) /\ UNCHANGED handlerVars

AdminTmux(a) == M!KillTmux(a) /\ UNCHANGED handlerVars

ShellExit(s) == M!ShellExit(s) /\ UNCHANGED handlerVars

Shutdown == M!Shutdown /\ UNCHANGED handlerVars

(* The process is replaced: its handlers and pumps are gone. *)
Restart ==
    /\ M!Restart
    /\ pc' = [h \in Handles |-> IF pc[h] = "idle" THEN "idle" ELSE "lost"]
    /\ conn' = [h \in Handles |-> FALSE]
    /\ once' = [h \in Handles |-> IF once[h] = "new" THEN "new" ELSE "finished"]
    /\ ptyPump' = [h \in Handles |-> IF ptyPump[h] = "off" THEN "off" ELSE "exited"]
    /\ wsPump' = [h \in Handles |-> IF wsPump[h] = "off" THEN "off" ELSE "exited"]
    /\ wanted' = [h \in Handles |-> None]
    /\ UNCHANGED <<gone, done>>

-----------------------------------------------------------------------------
HandlerStep(h) ==
    \/ CallAttach(h) \/ AttachFails(h) \/ Attached(h)
    \/ Announce(h) \/ AnnounceFails(h)
    \/ Wake(h) \/ CallDetach(h)

PtyPumpStep(h) == PtyEOF(h) \/ PtyPumpExits(h)

WsPumpStep(h) ==
    ReadFails(h) \/ TypingFails(h) \/ CallResize(h) \/ WsPumpExits(h)

OnceStep(h) == CloseDone(h) \/ CloseConn(h) \/ CallClosePTMX(h)

Next ==
    \/ \E h \in Handles :
         \/ Upgrade(h) \/ PeerLeaves(h)
         \/ HandlerStep(h) \/ PtyPumpStep(h) \/ WsPumpStep(h) \/ OnceStep(h)
         \/ PtyForwardFails(h) \/ ReadFrame(h) \/ Typed(h)
    \/ \E a \in Admins, s \in Sessions : AdminLock(a, s)
    \/ \E a \in Admins : AdminTmux(a)
    \/ \E s \in Sessions : ShellExit(s)
    \/ Shutdown
    \/ Restart

(* Each thread of a handler keeps running; so does a KillSession call once *)
(* begun.  Nothing is assumed of browsers, shells, frames or output, nor   *)
(* that the attach client ever reads its input.                            *)
Fairness ==
    /\ \A h \in Handles :
         /\ WF_vars(HandlerStep(h))
         /\ WF_vars(PtyPumpStep(h))
         /\ WF_vars(WsPumpStep(h))
         /\ WF_vars(OnceStep(h))
    /\ \A a \in Admins : WF_vars(AdminTmux(a))

Spec == Init /\ [][Next]_vars /\ Fairness

-----------------------------------------------------------------------------
Over(h) == pc[h] \in {"returned", "lost"}

(* handler.go:85-87: every way out of HandleTerminal goes through Detach,  *)
(* so a handler that is over has no attach client left behind.             *)
ReturnedIsReaped ==
    \A h \in Handles : Over(h) => client[h] \in {"none", "reaped"}

(* How far a handler is tells what the manager has for it. *)
HandleMatchesPc ==
    \A h \in Handles :
        /\ pc[h] = "idle" => handle[h] = "none"
        /\ pc[h] = "attach" => handle[h] \in {"none", "attaching"}
        /\ pc[h] \in {"announce", "serve", "detach"} =>
             handle[h] \in {"open", "closed"}
        /\ Over(h) => handle[h] \notin {"attaching", "open"}

(* The handlers respect the manager's concurrency contract, so what holds  *)
(* of TmuxManager under any legal callers holds here.                      *)
LegalManagerUse == M!Spec

(* A handler whose attach client is gone (the shell exited, the tab was    *)
(* deleted, a newer connection took the slot) returns, even when its       *)
(* browser is idle or vanished and even when its pump was stuck typing;    *)
(* one whose browser closed the connection returns, unless the attach      *)
(* client never reads what was typed: only then can it be stuck.           *)
HandlersReturn ==
    \A h \in Handles :
        /\ (client[h] \in {"exited", "reaped"}) ~> Over(h)
        /\ gone[h] ~> (Over(h) \/ wsPump[h] = "typing")

(* handler.go:93-97: shutdown forces the other goroutine out of its        *)
(* blocking call: after a handler has returned both pumps end.             *)
PumpsEnd ==
    \A h \in Handles : Over(h) ~> /\ ptyPump[h] \in {"off", "exited"}
                                  /\ wsPump[h] \in {"off", "exited"}

=============================================================================
