-------------------------- MODULE TmuxManagerProofs --------------------------
(***************************************************************************)
(* Proofs about TmuxManager, for any number of tabs, connections, delete   *)
(* calls, sizes and restarts.                                              *)
(***************************************************************************)
EXTENDS TmuxManager, TLAPS

-----------------------------------------------------------------------------
(* Slot(s) in the two forms the steps use it. *)
LEMMA SlotMember ==
    ASSUME NEW s \in Sessions, NEW g \in Slot(s), IInv
    PROVE  g \in Handles /\ g = sessions[s] /\ handle[g] = "open" /\ SessionOf[g] = s
BY DEF Slot, IInv, TypeOK, SlotOpen

(* Every open handle is the one its session's slot holds. *)
LEMMA OpenInSlot ==
    ASSUME IInv, NEW h \in Handles, handle[h] = "open"
    PROVE  /\ sessions[SessionOf[h]] = h
           /\ h \in Slot(SessionOf[h])
BY ConstantsAssumption DEF IInv, OpenHasClient, NoLeakedClient, Slot

-----------------------------------------------------------------------------
LEMMA InitIInv == Init => IInv
<1> SUFFICES ASSUME Init PROVE IInv
  OBVIOUS
<1> USE ConstantsAssumption DEF Init
<1>1. TypeOK
  BY DEF TypeOK
<1>2. LockHolder /\ OpenHasClient
  BY DEF LockHolder, OpenHasClient
<1>3. SlotOpen /\ NoLeakedClient
  BY DEF SlotOpen, NoLeakedClient
<1> QED
  BY <1>1, <1>2, <1>3 DEF IInv

LEMMA NextIInv == IInv /\ [Next]_vars => IInv'
<1> SUFFICES ASSUME IInv, [Next]_vars PROVE IInv'
  OBVIOUS
<1> USE ConstantsAssumption
        DEF IInv, TypeOK, LockHolder, OpenHasClient, SlotOpen, NoLeakedClient,
            managerVars, handleVars, tmuxVars, callVars
<1>1. ASSUME NEW h \in Handles, AttachEnsure(h) PROVE IInv'
  BY <1>1 DEF AttachEnsure
<1>2. ASSUME NEW h \in Handles, AttachNoSession(h) PROVE IInv'
  BY <1>2 DEF AttachNoSession
<1>3. ASSUME NEW h \in Handles, AttachNoPty(h) PROVE IInv'
  BY <1>3 DEF AttachNoPty
<1>4. ASSUME NEW h \in Handles, AttachInstall(h) PROVE IInv'
  BY <1>4 DEF AttachInstall, Slot
<1>5. ASSUME NEW h \in Handles, Detach(h) PROVE IInv'
  BY <1>5 DEF Detach, Close
<1>6. ASSUME NEW h \in Handles, ClosePTMX(h) PROVE IInv'
  BY <1>6 DEF ClosePTMX
<1>7. ASSUME NEW h \in Handles, NEW z \in Sizes, Resize(h, z) PROVE IInv'
  BY <1>7 DEF Resize
<1>8. ASSUME NEW a \in Admins, NEW s \in Sessions, KillLocked(a, s) PROVE IInv'
  BY <1>8 DEF KillLocked, Close, Slot
<1>9. ASSUME NEW a \in Admins, KillTmux(a) PROVE IInv'
  <2>1. CASE EndSession(deleting[a])
    <3>1. TypeOK'
      BY <1>9, <2>1 DEF KillTmux, EndSession
    <3>2. \A h \in Handles : client'[h] \in {"running", "exited"}
                             <=> client[h] \in {"running", "exited"}
      BY <2>1 DEF EndSession
    <3> QED
      BY <1>9, <3>1, <3>2 DEF KillTmux
  <2>2. CASE UNCHANGED <<alive, ended, client>>
    BY <1>9, <2>2 DEF KillTmux
  <2> QED
    BY <1>9, <2>1, <2>2 DEF KillTmux
<1>10. CASE Shutdown
  BY <1>10 DEF Shutdown, Close, Slot
<1>11. ASSUME NEW s \in Sessions, ShellExit(s) PROVE IInv'
  BY <1>11 DEF ShellExit, EndSession
<1>12. CASE Restart
  <2>1. handle' \in [Handles -> {"none", "failed", "lost"}]
    BY <1>12 DEF Restart
  <2>2. client' \in [Handles -> {"none", "reaped"}]
    BY <1>12 DEF Restart
  <2>3. TypeOK'
    <3>1. handle' \in [Handles -> {"none", "attaching", "failed", "open", "closed", "lost"}]
          /\ client' \in [Handles -> {"none", "running", "exited", "reaped"}]
      BY <2>1, <2>2
    <3>2. boots' \in Nat
      BY <1>12 DEF Restart
    <3>3. /\ mu' \in Handles \cup {None}
          /\ sessions' \in [Sessions -> Handles \cup {None}]
          /\ lastSize' \in [Sessions -> Sizes \cup {None}]
          /\ ptmx' \in [Handles -> BOOLEAN]
          /\ deleting' \in [Admins -> Sessions \cup {None}]
      BY <1>12 DEF Restart
    <3> QED
      BY <1>12, <3>1, <3>2, <3>3 DEF Restart
  <2>4. LockHolder' /\ OpenHasClient' /\ NoLeakedClient'
    BY <1>12, <2>1, <2>2 DEF Restart
  <2>5. SlotOpen'
    BY <1>12 DEF Restart
  <2> QED
    BY <2>3, <2>4, <2>5
<1>13. CASE UNCHANGED vars
  BY <1>13 DEF vars
<1> QED
  BY <1>1, <1>2, <1>3, <1>4, <1>5, <1>6, <1>7, <1>8, <1>9, <1>10, <1>11, <1>12, <1>13
     DEF Next

LEMMA InductiveInvariant == Spec => []IInv
BY InitIInv, NextIInv, PTL DEF Spec

(* Every variable of the manager keeps its type. *)
THEOREM TypeCorrect == Spec => []TypeOK
<1>1. IInv => TypeOK
  BY DEF IInv
<1> QED
  BY <1>1, InductiveInvariant, PTL

(* Manager.sessions only ever holds open handles, each under its own id,   *)
(* and no attach client process is left behind by an Attach that overtakes *)
(* an older handler, a stale Detach, KillSession or Shutdown.              *)
THEOREM NoClientLeaks == Spec => []SlotsHoldTheLive
<1>1. IInv => SlotsHoldTheLive
  BY DEF IInv, SlotsHoldTheLive
<1> QED
  BY <1>1, InductiveInvariant, PTL

-----------------------------------------------------------------------------
(* The size cache: inductive on its own beside the types. *)
LEMMA CacheStep == TypeOK /\ CacheNotContradicted /\ [Next]_vars => CacheNotContradicted'
<1> SUFFICES ASSUME TypeOK, CacheNotContradicted, [Next]_vars
             PROVE  CacheNotContradicted'
  OBVIOUS
<1> USE ConstantsAssumption
        DEF TypeOK, CacheNotContradicted, managerVars, handleVars, tmuxVars, callVars
<1>1. ASSUME NEW h \in Handles, AttachEnsure(h) PROVE CacheNotContradicted'
  BY <1>1 DEF AttachEnsure
<1>2. ASSUME NEW h \in Handles, NEW z \in Sizes, Resize(h, z)
      PROVE  CacheNotContradicted'
  BY <1>2 DEF Resize
<1>3. ASSUME NEW a \in Admins, NEW s \in Sessions, KillLocked(a, s)
      PROVE  CacheNotContradicted'
  BY <1>3 DEF KillLocked
<1>4. ASSUME NEW a \in Admins, KillTmux(a) PROVE CacheNotContradicted'
  BY <1>4 DEF KillTmux, EndSession
<1>5. ASSUME NEW s \in Sessions, ShellExit(s) PROVE CacheNotContradicted'
  BY <1>5 DEF ShellExit, EndSession
<1>6. CASE Restart
  BY <1>6 DEF Restart
<1>7. CASE UNCHANGED <<lastSize, alive, winSize, ended>>
  BY <1>7
<1>8. ASSUME NEW h \in Handles,
             AttachNoSession(h) \/ AttachNoPty(h) \/ AttachInstall(h)
               \/ Detach(h) \/ ClosePTMX(h)
      PROVE  UNCHANGED <<lastSize, alive, winSize, ended>>
  BY <1>8 DEF AttachNoSession, AttachNoPty, AttachInstall, Detach, ClosePTMX
<1>9. CASE Shutdown
  BY <1>9 DEF Shutdown
<1>10. CASE UNCHANGED vars
  BY <1>10 DEF vars
<1> QED
  BY <1>1, <1>2, <1>3, <1>4, <1>5, <1>6, <1>7, <1>8, <1>9, <1>10 DEF Next

(* The cache never names a size other than the one this process last set   *)
(* on the window that exists.                                              *)
THEOREM CacheIsSound == Spec => []CacheNotContradicted
<1>1. Init => CacheNotContradicted
  BY DEF Init, CacheNotContradicted
<1> QED
  BY <1>1, CacheStep, TypeCorrect, PTL DEF Spec

-----------------------------------------------------------------------------
(* Refinement of AttachSlot. *)
LEMMA InitSlots == Init => Slots!Init
BY DEF Init, Slots!Init, phaseOf

LEMMA StepSlots == IInv /\ [Next]_vars => [Slots!Next]_Slots!slotVars
<1> SUFFICES ASSUME IInv, [Next]_vars PROVE [Slots!Next]_Slots!slotVars
  OBVIOUS
<1> USE DEF Slots!slotVars, callVars
<1>1. ASSUME NEW h \in Handles, AttachEnsure(h) \/ AttachNoSession(h)
      PROVE  UNCHANGED Slots!slotVars
  BY <1>1 DEF AttachEnsure, AttachNoSession, phaseOf, IInv, TypeOK
<1>2. ASSUME NEW h \in Handles, AttachNoPty(h)
      PROVE  UNCHANGED Slots!slotVars
  <2>1. handle[h] = "attaching"
    BY <1>2 DEF AttachNoPty, IInv, LockHolder
  <2> QED
    BY <1>2, <2>1 DEF AttachNoPty, phaseOf, IInv, TypeOK
<1>3. ASSUME NEW h \in Handles, AttachInstall(h)
      PROVE  Slots!Take(h)
  <2>1. handle[h] = "attaching" /\ phaseOf[h] = "idle"
    BY <1>3 DEF AttachInstall, IInv, LockHolder, phaseOf
  <2>2. Slots!LiveOn(SessionOf[h]) = Slot(SessionOf[h])
    <3>1. ASSUME NEW g \in Slots!LiveOn(SessionOf[h]) PROVE g \in Slot(SessionOf[h])
      <4>1. g \in Handles /\ SessionOf[g] = SessionOf[h] /\ handle[g] = "open"
        BY <3>1 DEF Slots!LiveOn, phaseOf, IInv, TypeOK
      <4> QED
        BY <4>1, OpenInSlot
    <3>2. ASSUME NEW g \in Slot(SessionOf[h]) PROVE g \in Slots!LiveOn(SessionOf[h])
      <4>1. SessionOf[h] \in Sessions
        BY ConstantsAssumption
      <4> QED
        BY <3>2, <4>1, SlotMember DEF Slots!LiveOn, phaseOf
    <3> QED
      BY <3>1, <3>2
  <2>3. phaseOf' = [g \in Handles |-> IF g = h THEN "live"
                                   ELSE IF g \in Slots!LiveOn(SessionOf[h]) THEN "gone"
                                   ELSE phaseOf[g]]
    BY <1>3, <2>1, <2>2 DEF AttachInstall, phaseOf, IInv, TypeOK
  <2> QED
    BY <1>3, <2>1, <2>3 DEF AttachInstall, Slots!Take
<1>4. ASSUME NEW h \in Handles, Detach(h)
      PROVE  Slots!Release(h)
  BY <1>4 DEF Detach, Close, Slots!Release, Slots!GoneAfter, phaseOf, IInv, TypeOK
<1>5. ASSUME NEW h \in Handles, ClosePTMX(h)
      PROVE  UNCHANGED Slots!slotVars
  BY <1>5 DEF ClosePTMX, phaseOf
<1>6. ASSUME NEW h \in Handles, NEW z \in Sizes, Resize(h, z)
      PROVE  UNCHANGED Slots!slotVars
  BY <1>6 DEF Resize, handleVars, phaseOf
<1>7. ASSUME NEW a \in Admins, NEW s \in Sessions, KillLocked(a, s)
      PROVE  Slots!Revoke(a, s)
  <2>1. Slots!LiveOn(s) = Slot(s)
    <3>1. ASSUME NEW g \in Slots!LiveOn(s) PROVE g \in Slot(s)
      <4>1. g \in Handles /\ SessionOf[g] = s /\ handle[g] = "open"
        BY <3>1 DEF Slots!LiveOn, phaseOf, IInv, TypeOK
      <4> QED
        BY <4>1, OpenInSlot
    <3>2. ASSUME NEW g \in Slot(s) PROVE g \in Slots!LiveOn(s)
      BY <3>2, SlotMember DEF Slots!LiveOn, phaseOf
    <3> QED
      BY <3>1, <3>2
  <2>2. phaseOf' = [g \in Handles |-> IF g \in Slots!LiveOn(s) THEN "gone" ELSE phaseOf[g]]
    BY <1>7, <2>1 DEF KillLocked, Close, phaseOf, IInv, TypeOK
  <2> QED
    BY <1>7, <2>2 DEF KillLocked, Slots!Revoke, Slots!GoneAfter
<1>8. ASSUME NEW a \in Admins, KillTmux(a)
      PROVE  Slots!Finish(a)
  BY <1>8 DEF KillTmux, Slots!Finish, phaseOf
<1>9. ASSUME Shutdown
      PROVE  Slots!Stop
  <2>1. Slots!Live = UNION {Slot(s) : s \in Sessions}
    <3>1. ASSUME NEW g \in Slots!Live PROVE \E s \in Sessions : g \in Slot(s)
      <4>1. g \in Handles /\ handle[g] = "open"
        BY <3>1 DEF Slots!Live, phaseOf, IInv, TypeOK
      <4> QED
        BY <4>1, OpenInSlot, ConstantsAssumption
    <3>2. ASSUME NEW s \in Sessions, NEW g \in Slot(s) PROVE g \in Slots!Live
      BY <3>2, SlotMember DEF Slots!Live, phaseOf
    <3> QED
      BY <3>1, <3>2
  <2>2. phaseOf' = [g \in Handles |-> IF g \in Slots!Live THEN "gone" ELSE phaseOf[g]]
    BY <1>9, <2>1 DEF Shutdown, Close, phaseOf, IInv, TypeOK
  <2> QED
    BY <1>9, <2>2 DEF Shutdown, Slots!Stop, Slots!GoneAfter
<1>10. ASSUME Restart
       PROVE  Slots!Reboot
  <2>1. phaseOf' = [g \in Handles |-> IF g \in Slots!Live THEN "gone" ELSE phaseOf[g]]
    BY <1>10 DEF Restart, phaseOf, IInv, TypeOK, Slots!Live
  <2> QED
    BY <1>10, <2>1 DEF Restart, Slots!Reboot, Slots!GoneAfter
<1>11. ASSUME NEW s \in Sessions, ShellExit(s)
       PROVE  UNCHANGED Slots!slotVars
  BY <1>11 DEF ShellExit, phaseOf
<1>12. CASE UNCHANGED vars
  BY <1>12 DEF vars, handleVars, phaseOf
<1> QED
  BY <1>1, <1>2, <1>3, <1>4, <1>5, <1>6, <1>7, <1>8, <1>9, <1>10, <1>11, <1>12
     DEF Next, Slots!Next

(* The manager hands clients out, and takes them away, only as AttachSlot  *)
(* allows.                                                                 *)
THEOREM Implementation == Spec => ImplementsAttachSlot
BY InitSlots, StepSlots, InductiveInvariant, PTL
   DEF Spec, ImplementsAttachSlot, Slots!Spec
=============================================================================
