----------------------------- MODULE AttachSlot -----------------------------
(***************************************************************************)
(* What internal/tmux promises the WebSocket handlers, without locks, maps *)
(* or processes: every browser connection gets at most one attach client   *)
(* for its tab; a tab has at most one live client; a newer connection      *)
(* displaces the older one; and a client is otherwise only taken away by   *)
(* its own handler, by deleting the tab, or with the whole process.        *)
(* TmuxManager is shown to implement this specification.                   *)
(***************************************************************************)
EXTENDS Naturals

CONSTANTS
    Sessions,   \* tabs
    Handles,    \* browser connections
    Admins,     \* calls that delete a tab
    SessionOf,  \* SessionOf[h]: the tab connection h is for
    None

VARIABLES
    phase,      \* phase[h]: "idle" before a client is handed out, "live", "gone"
    detached,   \* connections whose own handler gave its client up
    deleting,   \* deleting[a]: the tab that call a is deleting, or None
    stopping,   \* the process was told to shut down
    boots       \* number of times the process was restarted

slotVars == <<phase, detached, deleting, stopping, boots>>

LiveOn(s) == {h \in Handles : SessionOf[h] = s /\ phase[h] = "live"}
Live == {h \in Handles : phase[h] = "live"}

GoneAfter(H) == [h \in Handles |-> IF h \in H THEN "gone" ELSE phase[h]]

Init ==
    /\ phase = [h \in Handles |-> "idle"]
    /\ detached = {}
    /\ deleting = [a \in Admins |-> None]
    /\ stopping = FALSE
    /\ boots = 0

(* h becomes the client of its tab; whoever was there is gone. *)
Take(h) ==
    /\ phase[h] = "idle"
    /\ phase' = [g \in Handles |-> IF g = h THEN "live"
                                   ELSE IF g \in LiveOn(SessionOf[h]) THEN "gone"
                                   ELSE phase[g]]
    /\ UNCHANGED <<detached, deleting, stopping, boots>>

(* h is given up by its own handler, and nobody else is.  The client may be *)
(* gone already.                                                           *)
Release(h) ==
    /\ phase[h] # "idle"
    /\ h \notin detached
    /\ detached' = detached \cup {h}
    /\ phase' = GoneAfter({h})
    /\ UNCHANGED <<deleting, stopping, boots>>

(* Deleting tab s takes away whatever client it has. *)
Revoke(a, s) ==
    /\ deleting[a] = None
    /\ deleting' = [deleting EXCEPT ![a] = s]
    /\ phase' = GoneAfter(LiveOn(s))
    /\ UNCHANGED <<detached, stopping, boots>>

Finish(a) ==
    /\ deleting[a] # None
    /\ deleting' = [deleting EXCEPT ![a] = None]
    /\ UNCHANGED <<phase, detached, stopping, boots>>

Stop ==
    /\ ~stopping
    /\ stopping' = TRUE
    /\ phase' = GoneAfter(Live)
    /\ UNCHANGED <<detached, deleting, boots>>

Reboot ==
    /\ boots' = boots + 1
    /\ stopping' = FALSE
    /\ phase' = GoneAfter(Live)
    /\ deleting' = [a \in Admins |-> None]
    /\ UNCHANGED detached

Next ==
    \/ \E h \in Handles : Take(h) \/ Release(h)
    \/ \E a \in Admins, s \in Sessions : Revoke(a, s)
    \/ \E a \in Admins : Finish(a)
    \/ Stop
    \/ Reboot

Spec == Init /\ [][Next]_slotVars
=============================================================================
