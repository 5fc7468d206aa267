------------------------ MODULE TerminalHandlerProofs ------------------------
(***************************************************************************)
(* HandleTerminal is a legal caller of the manager, so the manager's       *)
(* theorems hold for the composed system; with them, no handler leaves an  *)
(* attach client behind.                                                   *)
(***************************************************************************)
EXTENDS TerminalHandler, TLAPS

MP == INSTANCE TmuxManagerProofs

(* A pump that applies a resize frame has its size. *)
WantedSize == \A h \in Handles : wsPump[h] = "resizing" => wanted[h] \in Sizes

PumpTypes ==
    /\ wsPump \in [Handles -> {"off", "reading", "typing", "resizing", "shutdown",
                               "exited"}]
    /\ wanted \in [Handles -> Sizes \cup {None}]

PumpInv == PumpTypes /\ WantedSize

-----------------------------------------------------------------------------
LEMMA InitPumps == Init => PumpInv
BY DEF Init, PumpInv, PumpTypes, WantedSize

LEMMA StepPumps == PumpInv /\ [Next]_vars => PumpInv'
<1> SUFFICES ASSUME PumpInv, [Next]_vars PROVE PumpInv'
  OBVIOUS
<1> USE DEF PumpInv, PumpTypes, WantedSize, pumpVars, handlerVars
<1>1. ASSUME NEW h \in Handles, Upgrade(h) \/ PeerLeaves(h) PROVE PumpInv'
  BY <1>1 DEF Upgrade, PeerLeaves
<1>2. ASSUME NEW h \in Handles, HandlerStep(h) PROVE PumpInv'
  BY <1>2 DEF HandlerStep, CallAttach, AttachFails, Attached, Announce,
              AnnounceFails, Wake, CallDetach
<1>3. ASSUME NEW h \in Handles, PtyPumpStep(h) \/ PtyForwardFails(h) PROVE PumpInv'
  BY <1>3 DEF PtyPumpStep, PtyEOF, PtyPumpExits, PtyForwardFails
<1>4. ASSUME NEW h \in Handles, WsPumpStep(h) \/ Typed(h) PROVE PumpInv'
  BY <1>4 DEF WsPumpStep, ReadFails, TypingFails, CallResize, WsPumpExits, Typed
<1>5. ASSUME NEW h \in Handles, ReadFrame(h) PROVE PumpInv'
  BY <1>5 DEF ReadFrame
<1>6. ASSUME NEW h \in Handles, OnceStep(h) PROVE PumpInv'
  BY <1>6 DEF OnceStep, CloseDone, CloseConn, CallClosePTMX
<1>7. ASSUME NEW a \in Admins, NEW s \in Sessions, AdminLock(a, s) PROVE PumpInv'
  BY <1>7 DEF AdminLock
<1>8. ASSUME NEW a \in Admins, AdminTmux(a) PROVE PumpInv'
  BY <1>8 DEF AdminTmux
<1>9. ASSUME NEW s \in Sessions, ShellExit(s) PROVE PumpInv'
  BY <1>9 DEF ShellExit
<1>10. CASE Shutdown
  BY <1>10 DEF Shutdown
<1>11. CASE Restart
  BY <1>11 DEF Restart
<1>12. CASE UNCHANGED vars
  BY <1>12 DEF vars
<1> QED
  BY <1>1, <1>2, <1>3, <1>4, <1>5, <1>6, <1>7, <1>8, <1>9, <1>10, <1>11, <1>12
     DEF Next

-----------------------------------------------------------------------------
LEMMA InitManager == Init => M!Init
BY DEF Init

LEMMA UnchangedManager == UNCHANGED tmuxVars => UNCHANGED M!vars
BY DEF tmuxVars, M!vars, M!managerVars, M!handleVars, M!tmuxVars, M!callVars

LEMMA StepManager == PumpInv /\ [Next]_vars => [M!Next]_M!vars
<1> SUFFICES ASSUME PumpInv, [Next]_vars PROVE [M!Next]_M!vars
  OBVIOUS
<1>1. ASSUME NEW h \in Handles, Upgrade(h) \/ PeerLeaves(h)
      PROVE  UNCHANGED M!vars
  BY <1>1, UnchangedManager DEF Upgrade, PeerLeaves
<1>2. ASSUME NEW h \in Handles, HandlerStep(h)
      PROVE  [M!Next]_M!vars
  <2>1. CASE CallAttach(h) \/ AttachFails(h) \/ Attached(h) \/ CallDetach(h)
    BY <2>1 DEF CallAttach, AttachFails, Attached, CallDetach, M!Next
  <2>2. CASE Announce(h) \/ AnnounceFails(h) \/ Wake(h)
    BY <2>2, UnchangedManager DEF Announce, AnnounceFails, Wake
  <2> QED
    BY <1>2, <2>1, <2>2 DEF HandlerStep
<1>3. ASSUME NEW h \in Handles, PtyPumpStep(h) \/ PtyForwardFails(h)
      PROVE  UNCHANGED M!vars
  BY <1>3, UnchangedManager DEF PtyPumpStep, PtyEOF, PtyPumpExits, PtyForwardFails
<1>4. ASSUME NEW h \in Handles, WsPumpStep(h)
      PROVE  [M!Next]_M!vars
  <2>1. CASE CallResize(h)
    <3>1. wanted[h] \in Sizes /\ M!Resize(h, wanted[h])
      BY <2>1 DEF CallResize, PumpInv, WantedSize
    <3> QED
      BY <3>1 DEF M!Next
  <2>2. CASE ReadFails(h) \/ TypingFails(h) \/ WsPumpExits(h)
    BY <2>2, UnchangedManager DEF ReadFails, TypingFails, WsPumpExits
  <2> QED
    BY <1>4, <2>1, <2>2 DEF WsPumpStep
<1>5. ASSUME NEW h \in Handles, ReadFrame(h) \/ Typed(h)
      PROVE  UNCHANGED M!vars
  BY <1>5, UnchangedManager DEF ReadFrame, Typed
<1>6. ASSUME NEW h \in Handles, OnceStep(h)
      PROVE  [M!Next]_M!vars
  <2>1. CASE CallClosePTMX(h)
    BY <2>1 DEF CallClosePTMX, M!Next
  <2>2. CASE CloseDone(h) \/ CloseConn(h)
    BY <2>2, UnchangedManager DEF CloseDone, CloseConn
  <2> QED
    BY <1>6, <2>1, <2>2 DEF OnceStep
<1>7. ASSUME NEW a \in Admins, NEW s \in Sessions, AdminLock(a, s)
      PROVE  M!Next
  BY <1>7 DEF AdminLock, M!Next
<1>8. ASSUME NEW a \in Admins, AdminTmux(a)
      PROVE  M!Next
  BY <1>8 DEF AdminTmux, M!Next
<1>9. ASSUME NEW s \in Sessions, ShellExit(s)
      PROVE  M!Next
  BY <1>9 DEF ShellExit, M!Next
<1>10. CASE Shutdown
  BY <1>10 DEF Shutdown, M!Next
<1>11. CASE Restart
  BY <1>11 DEF Restart, M!Next
<1>12. CASE UNCHANGED vars
  BY <1>12, UnchangedManager DEF vars
<1> QED
  BY <1>1, <1>2, <1>3, <1>4, <1>5, <1>6, <1>7, <1>8, <1>9, <1>10, <1>11, <1>12
     DEF Next

(* HandleTerminal, its pumps and the callers around it only ever call the  *)
(* manager as its contract allows.                                         *)
THEOREM HandlersAreLegalCallers == Spec => LegalManagerUse
<1>1. Spec => []PumpInv
  BY InitPumps, StepPumps, PTL DEF Spec
<1> QED
  BY <1>1, InitManager, StepManager, PTL DEF Spec, LegalManagerUse, M!Spec

-----------------------------------------------------------------------------
(* So the manager's inductive invariant holds of the composed system.  M   *)
(* and MP are instances of the same definitions: once these are expanded   *)
(* the theorem about MP is the one about M.                                *)
LEMMA ManagerInvariant == Spec => []M!IInv
<1>1. M!Spec => []M!IInv
  BY HandlerAssumption, MP!InductiveInvariant
     DEF M!Spec, MP!Spec, M!Init, MP!Init, M!Next, MP!Next, M!vars, MP!vars,
         M!managerVars, MP!managerVars, M!handleVars, MP!handleVars,
         M!tmuxVars, MP!tmuxVars, M!callVars, MP!callVars, M!Close, MP!Close,
         M!Slot, MP!Slot, M!AttachEnsure, MP!AttachEnsure,
         M!AttachNoSession, MP!AttachNoSession, M!AttachNoPty, MP!AttachNoPty,
         M!AttachInstall, MP!AttachInstall, M!Detach, MP!Detach,
         M!ClosePTMX, MP!ClosePTMX, M!Resize, MP!Resize,
         M!KillLocked, MP!KillLocked, M!EndSession, MP!EndSession,
         M!KillTmux, MP!KillTmux, M!Shutdown, MP!Shutdown,
         M!ShellExit, MP!ShellExit, M!Restart, MP!Restart, M!IInv, MP!IInv,
         M!TypeOK, MP!TypeOK, M!LockHolder, MP!LockHolder,
         M!OpenHasClient, MP!OpenHasClient, M!SlotOpen, MP!SlotOpen,
         M!NoLeakedClient, MP!NoLeakedClient
<1> QED
  BY <1>1, HandlersAreLegalCallers, PTL DEF LegalManagerUse

-----------------------------------------------------------------------------
PcType == pc \in [Handles -> {"idle", "attach", "announce", "serve", "detach",
                              "returned", "lost"}]

LEMMA InitPc == Init => PcType /\ HandleMatchesPc
BY DEF Init, M!Init, PcType, HandleMatchesPc, Over

LEMMA StepPc ==
    M!IInv /\ PcType /\ HandleMatchesPc /\ [Next]_vars => PcType' /\ HandleMatchesPc'
<1> SUFFICES ASSUME M!IInv, PcType, HandleMatchesPc, [Next]_vars
             PROVE  PcType' /\ HandleMatchesPc'
  OBVIOUS
<1> USE HandlerAssumption DEF PcType, HandleMatchesPc, Over
<1>a. /\ handle \in [Handles -> {"none", "attaching", "failed", "open", "closed", "lost"}]
      /\ \A h \in Handles : handle[h] = "attaching" <=> mu = h
      /\ \A s \in Sessions : \A g \in M!Slot(s) :
           g \in Handles /\ handle[g] = "open" /\ SessionOf[g] = s
  BY DEF M!IInv, M!TypeOK, M!LockHolder, M!SlotOpen, M!Slot
<1>1. ASSUME NEW h \in Handles, Upgrade(h) PROVE PcType' /\ HandleMatchesPc'
  BY <1>1, <1>a DEF Upgrade, tmuxVars
<1>2. ASSUME NEW h \in Handles, CallAttach(h) PROVE PcType' /\ HandleMatchesPc'
  BY <1>2, <1>a DEF CallAttach, M!AttachEnsure, handlerVars
<1>3. ASSUME NEW h \in Handles, AttachFails(h) PROVE PcType' /\ HandleMatchesPc'
  <2>1. pc[h] = "attach" /\ pc' = [pc EXCEPT ![h] = "returned"]
    BY <1>3 DEF AttachFails
  <2>2. handle' = [handle EXCEPT ![h] = "failed"]
    BY <1>3 DEF AttachFails, M!AttachNoSession, M!AttachNoPty
  <2> QED
    BY <2>1, <2>2, <1>a
<1>4. ASSUME NEW h \in Handles, Attached(h) PROVE PcType' /\ HandleMatchesPc'
  <2>1. SessionOf[h] \in Sessions
    OBVIOUS
  <2>2. handle' = [g \in Handles |-> IF g = h THEN "open"
                                    ELSE IF g \in M!Slot(SessionOf[h]) THEN "closed"
                                    ELSE handle[g]]
    BY <1>4 DEF Attached, M!AttachInstall
  <2>3. pc[h] = "attach" /\ pc' = [pc EXCEPT ![h] = "announce"]
    BY <1>4 DEF Attached
  <2>4. ASSUME NEW g \in M!Slot(SessionOf[h])
        PROVE  g \in Handles /\ handle[g] = "open"
    BY <2>1, <1>a
  <2> QED
    BY <2>2, <2>3, <2>4, <1>a
<1>5. ASSUME NEW h \in Handles, Announce(h) \/ AnnounceFails(h) \/ Wake(h)
      PROVE  PcType' /\ HandleMatchesPc'
  BY <1>5, <1>a DEF Announce, AnnounceFails, Wake, tmuxVars
<1>6. ASSUME NEW h \in Handles, CallDetach(h) PROVE PcType' /\ HandleMatchesPc'
  BY <1>6, <1>a DEF CallDetach, M!Detach, M!Close
<1>7. ASSUME UNCHANGED <<pc, handle>> PROVE PcType' /\ HandleMatchesPc'
  BY <1>7
<1>8. ASSUME NEW h \in Handles,
             PtyPumpStep(h) \/ PtyForwardFails(h) \/ ReadFrame(h) \/ Typed(h)
               \/ PeerLeaves(h)
      PROVE  UNCHANGED <<pc, handle>>
  BY <1>8 DEF PtyPumpStep, PtyEOF, PtyPumpExits, PtyForwardFails, ReadFrame, Typed,
              PeerLeaves, tmuxVars
<1>9. ASSUME NEW h \in Handles, WsPumpStep(h)
      PROVE  UNCHANGED <<pc, handle>>
  BY <1>9 DEF WsPumpStep, ReadFails, TypingFails, CallResize, WsPumpExits,
              M!Resize, M!handleVars, tmuxVars
<1>10. ASSUME NEW h \in Handles, OnceStep(h)
       PROVE  UNCHANGED <<pc, handle>>
  BY <1>10 DEF OnceStep, CloseDone, CloseConn, CallClosePTMX, M!ClosePTMX, tmuxVars
<1>11. ASSUME NEW a \in Admins, NEW s \in Sessions, AdminLock(a, s)
       PROVE  PcType' /\ HandleMatchesPc'
  <2>1. handle' = [g \in Handles |-> IF g \in M!Slot(s) THEN "closed" ELSE handle[g]]
    BY <1>11 DEF AdminLock, M!KillLocked, M!Close
  <2>2. UNCHANGED pc
    BY <1>11 DEF AdminLock, handlerVars
  <2>3. \A g \in M!Slot(s) : g \in Handles /\ handle[g] = "open"
    BY <1>a
  <2> QED
    BY <2>1, <2>2, <2>3, <1>a
<1>12. ASSUME NEW a \in Admins, AdminTmux(a)
       PROVE  UNCHANGED <<pc, handle>>
  BY <1>12 DEF AdminTmux, M!KillTmux, handlerVars
<1>13. ASSUME NEW s \in Sessions, ShellExit(s)
       PROVE  UNCHANGED <<pc, handle>>
  BY <1>13 DEF ShellExit, M!ShellExit, handlerVars
<1>14. CASE Shutdown
  <2>1. handle' = [g \in Handles |-> IF g \in UNION {M!Slot(s) : s \in Sessions}
                                    THEN "closed" ELSE handle[g]]
    BY <1>14 DEF Shutdown, M!Shutdown, M!Close
  <2>2. UNCHANGED pc
    BY <1>14 DEF Shutdown, handlerVars
  <2>3. \A g \in UNION {M!Slot(s) : s \in Sessions} : g \in Handles /\ handle[g] = "open"
    BY <1>a
  <2> QED
    BY <2>1, <2>2, <2>3, <1>a
<1>15. CASE Restart
  BY <1>15, <1>a DEF Restart, M!Restart
<1>16. CASE UNCHANGED vars
  BY <1>16 DEF vars, handlerVars, tmuxVars
<1> QED
  BY <1>1, <1>2, <1>3, <1>4, <1>5, <1>6, <1>7, <1>8, <1>9, <1>10, <1>11, <1>12,
     <1>13, <1>14, <1>15, <1>16
     DEF Next, HandlerStep

(* Whichever way a handler ends, its attach client process has been reaped *)
(* or never was started.                                                   *)
THEOREM NoClientOutlivesItsHandler == Spec => []ReturnedIsReaped
<1>1. Spec => [](PcType /\ HandleMatchesPc)
  BY InitPc, StepPc, ManagerInvariant, PTL DEF Spec
<1>2. M!IInv /\ HandleMatchesPc => ReturnedIsReaped
  BY DEF M!IInv, M!TypeOK, M!OpenHasClient, HandleMatchesPc, ReturnedIsReaped
<1> QED
  BY <1>1, <1>2, ManagerInvariant, PTL

-----------------------------------------------------------------------------
ShutdownTypes ==
    /\ gone \in [Handles -> BOOLEAN]
    /\ conn \in [Handles -> BOOLEAN]
    /\ done \in [Handles -> BOOLEAN]
    /\ once \in [Handles -> {"new", "conn", "ptmx", "finished"}]
    /\ ptyPump \in [Handles -> {"off", "reading", "shutdown", "exited"}]

LEMMA InitShutdown == Init => ShutdownTypes
BY DEF Init, ShutdownTypes

LEMMA StepShutdown == ShutdownTypes /\ [Next]_vars => ShutdownTypes'
<1> SUFFICES ASSUME ShutdownTypes, [Next]_vars PROVE ShutdownTypes'
  OBVIOUS
<1> USE DEF ShutdownTypes, connVars, shutVars, pumpVars, handlerVars
<1>1. ASSUME NEW h \in Handles, Upgrade(h) \/ PeerLeaves(h) PROVE ShutdownTypes'
  BY <1>1 DEF Upgrade, PeerLeaves
<1>2. ASSUME NEW h \in Handles, HandlerStep(h) PROVE ShutdownTypes'
  BY <1>2 DEF HandlerStep, CallAttach, AttachFails, Attached, Announce,
              AnnounceFails, Wake, CallDetach
<1>3. ASSUME NEW h \in Handles, PtyPumpStep(h) \/ PtyForwardFails(h)
      PROVE  ShutdownTypes'
  BY <1>3 DEF PtyPumpStep, PtyEOF, PtyPumpExits, PtyForwardFails
<1>4. ASSUME NEW h \in Handles, WsPumpStep(h) \/ ReadFrame(h) \/ Typed(h)
      PROVE  ShutdownTypes'
  BY <1>4 DEF WsPumpStep, ReadFails, TypingFails, CallResize, WsPumpExits,
              ReadFrame, Typed
<1>5. ASSUME NEW h \in Handles, OnceStep(h) PROVE ShutdownTypes'
  BY <1>5 DEF OnceStep, CloseDone, CloseConn, CallClosePTMX
<1>6. ASSUME UNCHANGED handlerVars PROVE ShutdownTypes'
  BY <1>6
<1>7. ASSUME NEW a \in Admins, NEW s \in Sessions, AdminLock(a, s)
      PROVE  UNCHANGED handlerVars
  BY <1>7 DEF AdminLock
<1>8. ASSUME NEW a \in Admins, AdminTmux(a) PROVE UNCHANGED handlerVars
  BY <1>8 DEF AdminTmux
<1>9. ASSUME NEW s \in Sessions, ShellExit(s) PROVE UNCHANGED handlerVars
  BY <1>9 DEF ShellExit
<1>10. CASE Shutdown
  BY <1>6, <1>10 DEF Shutdown
<1>11. CASE Restart
  BY <1>11 DEF Restart
<1>12. CASE UNCHANGED vars
  BY <1>6, <1>12 DEF vars
<1> QED
  BY <1>1, <1>2, <1>3, <1>4, <1>5, <1>6, <1>7, <1>8, <1>9, <1>10, <1>11, <1>12
     DEF Next

(* Type correctness of the composed system; the part that is not immediate *)
(* is the manager's, whose maps are typed because no handler misuses them. *)
THEOREM HandlerTypes == Spec => []TypeOK
<1>1. M!IInv /\ PcType /\ PumpInv /\ ShutdownTypes => TypeOK
  BY DEF M!IInv, PcType, PumpInv, PumpTypes, ShutdownTypes, TypeOK
<1> QED
  BY <1>1, ManagerInvariant, InitPc, StepPc, InitPumps, StepPumps, InitShutdown,
     StepShutdown, PTL DEF Spec
=============================================================================
