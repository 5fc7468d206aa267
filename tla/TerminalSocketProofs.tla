------------------------ MODULE TerminalSocketProofs -------------------------
(***************************************************************************)
(* Proofs about TerminalSocket, for any number of attempts, sizes, user    *)
(* steps and disturbances of every kind.                                   *)
(***************************************************************************)
EXTENDS TerminalSocket, SequenceTheorems, TLAPS

(* What a step of the page leaves alone, spelled out for the provers *)
AttemptOK ==
    /\ attempt \in [Attempts -> Live \cup {"idle", "closed"}]
    /\ ws \in Attempts \cup {None} /\ connecting \in BOOLEAN
    /\ ws # None => attempt[ws] \in {"connecting", "open", "closed"}

ConnectInv == AttemptOK /\ OneConnection /\ NeverStranded

LEMMA FreeSlot ==
    ASSUME NEW b \in Attempts, attempt[b] = "idle"
    PROVE  Idle \in Attempts /\ attempt[Idle] = "idle"
BY DEF Idle

(* connectWebSocket leaves one attempt, or starts one if there is none. *)
LEMMA ConnectStarts ==
    ASSUME AttemptOK, OneConnection, Connect, ws' = ws
    PROVE  /\ AttemptOK' /\ OneConnection'
           /\ \E a \in Attempts : attempt'[a] \in Live
<1> USE TerminalSocketAssumption DEF AttemptOK, OneConnection, Live, Awaiting
<1>1. CASE Busy
  <2>1. UNCHANGED <<attempt, connecting>>
    BY <1>1 DEF Connect
  <2>2. \E a \in Attempts : attempt[a] \in Live
    BY <1>1 DEF Busy, ReadyState
  <2> QED BY <2>1, <2>2
<1>2. CASE ~Busy
  <2>1. Idle \in Attempts /\ attempt[Idle] = "idle"
    BY <1>2, FreeSlot DEF Connect
  <2>2. connecting' = TRUE /\ attempt' = [attempt EXCEPT ![Idle] = "asking"]
    BY <1>2 DEF Connect
  <2>3. \A a \in Attempts : attempt[a] \notin Live
    <3> SUFFICES ASSUME NEW a \in Attempts, attempt[a] \in Live PROVE FALSE
      OBVIOUS
    <3>1. attempt[a] = "open"
      BY <1>2 DEF Busy
    <3> QED BY <1>2, <3>1 DEF Busy, ReadyState
  <2> QED BY <2>1, <2>2, <2>3
<1> QED BY <1>1, <1>2

LEMMA StepConnect == ConnectInv /\ [Next]_vars => ConnectInv'
<1> SUFFICES ASSUME ConnectInv, [Next]_vars PROVE ConnectInv'
  OBVIOUS
<1> USE TerminalSocketAssumption
    DEF ConnectInv, AttemptOK, OneConnection, NeverStranded, Live, Awaiting
<1>1. CASE Reconnect
  BY <1>1, ConnectStarts DEF Reconnect, pageVars
<1>2. ASSUME NEW a \in Attempts, TicketFailed(a) PROVE ConnectInv'
  BY <1>2 DEF TicketFailed, pageVars
<1>3. ASSUME NEW a \in Attempts, GotTicket(a) PROVE ConnectInv'
  <2>1. \A b \in Attempts : b # a => attempt[b] \in {"idle", "closed"}
    BY <1>3 DEF GotTicket
  <2>2. \A b \in Attempts : attempt'[b] = IF b = a THEN "connecting" ELSE "idle"
    BY <1>3, <2>1 DEF GotTicket
  <2>3. connecting /\ connecting' = connecting /\ ws' = a
    BY <1>3 DEF GotTicket
  <2>4. AttemptOK'
    BY <1>3, <2>2, <2>3 DEF GotTicket
  <2> QED BY <2>2, <2>3, <2>4
<1>4. ASSUME NEW a \in Attempts, Opened(a) PROVE ConnectInv'
  BY <1>4 DEF Opened, pageVars
<1>5. ASSUME NEW a \in Attempts, Closed(a) PROVE ConnectInv'
  BY <1>5 DEF Closed, pageVars
<1>6. CASE Mount
  <2>1. CASE ReadyState \in {"none", "closed"}
    BY <1>6, <2>1, ConnectStarts DEF Mount
  <2>2. CASE ReadyState \notin {"none", "closed"}
    <3>1. ws \in Attempts /\ attempt[ws] \in Live
      BY <2>2 DEF ReadyState
    <3>2. UNCHANGED <<attempt, ws, connecting>>
      BY <1>6, <2>2 DEF Mount
    <3> QED BY <3>1, <3>2
  <2> QED BY <2>1, <2>2
<1>7. CASE Reload
  BY <1>7 DEF Reload
<1>8. ASSUME NEW a \in Attempts, AnswerTicket(a) \/ LoseRequest(a) PROVE ConnectInv'
  BY <1>8 DEF AnswerTicket, LoseRequest, Background, pageVars
<1>9. CASE Restart
  <2>1. \A a \in Attempts :
            attempt'[a] = IF attempt[a] = "asking" THEN "refused" ELSE attempt[a]
    BY <1>9 DEF Restart
  <2>2. attempt' \in [Attempts -> Live \cup {"idle", "closed"}]
    BY <1>9 DEF Restart
  <2>3. UNCHANGED <<ws, connecting, exists, reconnectTimer>>
    BY <1>9 DEF Restart, Background, pageVars
  <2>4. \A a \in Attempts : /\ attempt'[a] \in Live <=> attempt[a] \in Live
                            /\ attempt'[a] = "open" <=> attempt[a] = "open"
                            /\ attempt'[a] = "connecting" <=> attempt[a] = "connecting"
    BY <2>1
  <2> QED BY <2>1, <2>2, <2>3, <2>4
<1>10. CASE UNCHANGED <<attempt, ws, connecting, reconnectTimer, exists>>
  BY <1>10
<1>11. \/ UNCHANGED vars \/ Unmount \/ ChangeSize \/ SignIn \/ Observed \/ Debounced
       \/ Expire \/ OtherSetup
       \/ \E a \in Attempts : Greeted(a) \/ Upgrade(a) \/ Attach(a) \/ Resize(a) \/ Hangup(a)
       => UNCHANGED <<attempt, ws, connecting, reconnectTimer, exists>>
  BY DEF vars, pageVars, connectVars, Unmount, ChangeSize, SignIn, Observed, Debounced, Expire,
         OtherSetup, Greeted, Upgrade, Attach, Resize, Hangup, Background
<1> QED BY <1>1, <1>2, <1>3, <1>4, <1>5, <1>6, <1>7, <1>8, <1>9, <1>10, <1>11
        DEF Next, UserStep, Disturbance, Timers, BrowserStep, ServerStep

LEMMA InitConnect == Init => ConnectInv
BY DEF Init, ConnectInv, AttemptOK, OneConnection, NeverStranded, Live, Awaiting

(* At any time at most one request or socket per terminal, and the open    *)
(* one is the one that input goes to (connectWebSocket and its callbacks). *)
THEOREM SingleConnection == Spec => []OneConnection
<1>1. ConnectInv => OneConnection
  BY DEF ConnectInv
<1> QED BY InitConnect, StepConnect, <1>1, PTL DEF Spec

(* Every callback of a connection that fails, and every tab switch, leaves *)
(* a terminal with a connection under way or a reconnect timer.            *)
THEOREM AlwaysRetries == Spec => []NeverStranded
<1>1. ConnectInv => NeverStranded
  BY DEF ConnectInv
<1> QED BY InitConnect, StepConnect, <1>1, PTL DEF Spec
-----------------------------------------------------------------------------
(* The size *)

SizeTypes ==
    /\ server \in [Attempts -> {"none", "denied", "attaching", "serving", "gone"}]
    /\ pty \in [Attempts -> Sizes \cup {AttachSize, None}]
    /\ greeting \subseteq Attempts
    /\ resizes \in [Attempts -> Seq(Sizes)]
    /\ shown \in BOOLEAN /\ size \in Sizes /\ notice \in BOOLEAN
    /\ attached \in BOOLEAN /\ lastSent \in Sizes \cup {None}
    /\ resizeDebounceTimer \in BOOLEAN /\ blind \in BOOLEAN

(* The size the pty has once the frames on their way have arrived *)
Latest(a) == IF resizes[a] = <<>> THEN pty[a] ELSE resizes[a][Len(resizes[a])]

(* An attached socket is open and served; the last size sent went to it.   *)
SentIsLatest ==
    ws # None /\ attempt[ws] = "open" /\ server[ws] = "serving" /\ attached
        /\ ws \notin greeting /\ ~blind
    => Latest(ws) = lastSent

(* A size that was not sent has been reported, or waits for the timer.     *)
UnsentIsPending ==
    ws # None /\ attempt[ws] = "open" /\ attached /\ shown /\ size # lastSent
    => notice \/ resizeDebounceTimer

SizeInv == SizeTypes /\ SentIsLatest /\ UnsentIsPending

LEMMA InitSize == Init => SizeInv
<1>1. Init => SizeTypes
  <2>1. <<>> \in Seq(Sizes)
    OBVIOUS
  <2> QED BY <2>1 DEF Init, SizeTypes
<1>2. Init => SentIsLatest /\ UnsentIsPending
  BY DEF Init, SentIsLatest, UnsentIsPending
<1> QED BY <1>1, <1>2 DEF SizeInv

(* Appending a frame makes it the latest one, reading one keeps it so.     *)
LEMMA LatestAppended ==
    ASSUME NEW S, NEW q \in Seq(S), NEW x \in S
    PROVE  /\ Append(q, x) \in Seq(S) /\ Append(q, x) # <<>>
           /\ Append(q, x)[Len(Append(q, x))] = x
BY AppendProperties

LEMMA LatestRead ==
    ASSUME NEW S, NEW q \in Seq(S), q # <<>>
    PROVE  /\ Tail(q) \in Seq(S) /\ Head(q) \in S
           /\ Tail(q) = <<>> => Head(q) = q[Len(q)]
           /\ Tail(q) # <<>> => Tail(q)[Len(Tail(q))] = q[Len(q)]
<1>1. /\ Head(q) \in S /\ Tail(q) \in Seq(S) /\ Len(Tail(q)) = Len(q) - 1
      /\ \A i \in 1 .. Len(Tail(q)) : Tail(q)[i] = q[i + 1]
  BY HeadTailProperties
<1>2. Len(q) \in Nat \ {0} /\ Head(q) = q[1]
  OBVIOUS
<1>3. CASE Tail(q) = <<>>
  <2>1. Len(q) = 1
    <3>1. Len(Tail(q)) = 0
      BY <1>3, EmptySeq
    <3>2. Len(q) \in Nat /\ 0 = Len(q) - 1
      BY <1>1, <1>2, <3>1
    <3> QED BY ONLY <3>2
  <2> QED BY <1>2, <1>3, <2>1, <1>1
<1>4. CASE Tail(q) # <<>>
  <2>1. Len(Tail(q)) \in 1 .. Len(Tail(q)) /\ Len(Tail(q)) + 1 = Len(q)
    BY <1>1, <1>2, <1>4
  <2> QED BY <1>1, <1>4, <2>1
<1> QED BY <1>3, <1>4

LEMMA StepSize == ConnectInv /\ SizeInv /\ [Next]_vars => SizeInv'
<1> SUFFICES ASSUME ConnectInv, SizeInv, [Next]_vars PROVE SizeInv'
  OBVIOUS
<1> USE TerminalSocketAssumption
<1>a. AttemptOK /\ OneConnection
  BY DEF ConnectInv
<1> USE DEF SizeInv, SizeTypes, SentIsLatest, UnsentIsPending, Latest, ReadyState,
            serverVars, wireVars, pageVars, sizeVars, connectVars
(* Sending a size on the open socket *)
<1>b. ASSUME ws # None, attempt[ws] = "open", shown, SendSize
      PROVE  /\ lastSent' = size /\ resizes' \in [Attempts -> Seq(Sizes)]
             /\ resizes'[ws] # <<>> /\ resizes'[ws][Len(resizes'[ws])] = size
  <2>1. ws \in Attempts /\ Dimensions = size
    BY <1>a, <1>b DEF AttemptOK, Dimensions
  <2>2. resizes'[ws] = Append(resizes[ws], size)
    BY <1>b, <2>1 DEF SendSize
  <2>3. /\ Append(resizes[ws], size) \in Seq(Sizes) /\ Append(resizes[ws], size) # <<>>
        /\ Append(resizes[ws], size)[Len(Append(resizes[ws], size))] = size
    BY <2>1, LatestAppended
  <2>4. resizes' \in [Attempts -> Seq(Sizes)]
    BY <1>b, <2>1, <2>3 DEF SendSize
  <2> QED BY <1>b, <2>1, <2>2, <2>3, <2>4 DEF SendSize
<1>1. ASSUME NEW a \in Attempts, Opened(a) PROVE SizeInv'
  BY <1>1 DEF Opened
<1>2. ASSUME NEW a \in Attempts, Closed(a) PROVE SizeInv'
  <2>1. ws # None => attempt'[ws] # "open"
    BY <1>a, <1>2 DEF Closed, AttemptOK, OneConnection, Live, Awaiting
  <2>2. resizes' \in [Attempts -> Seq(Sizes)]
    BY <1>2 DEF Closed
  <2>3. SizeTypes'
    BY <1>2, <2>2 DEF Closed
  <2> QED BY <1>2, <2>1, <2>3 DEF Closed
<1>3. ASSUME NEW a \in Attempts, GotTicket(a) PROVE SizeInv'
  BY <1>a, <1>3 DEF GotTicket, AttemptOK
<1>4. ASSUME NEW a \in Attempts, Greeted(a) PROVE SizeInv'
  <2>1. ws = a /\ attempt[ws] = "open" /\ ws # None
    BY <1>a, <1>4 DEF Greeted, OneConnection
  <2>2. CASE shown
    <3>1. SendSize
      BY <1>4, <2>1, <2>2 DEF Greeted, CanSend, Dimensions
    <3> QED BY <1>4, <1>b, <2>1, <2>2, <3>1 DEF Greeted
  <2>3. CASE ~shown
    BY <1>4, <2>1, <2>3 DEF Greeted, CanSend, Dimensions
  <2> QED BY <2>2, <2>3
<1>5. CASE Observed
  BY <1>5 DEF Observed
<1>6. CASE Debounced
  <2>1. CASE size # lastSent /\ attached /\ CanSend
    <3>1. ws # None /\ attempt[ws] = "open" /\ shown /\ SendSize
      BY <1>6, <2>1 DEF Debounced, CanSend, Dimensions
    <3> QED BY <1>6, <1>b, <3>1 DEF Debounced
  <2>2. CASE ~(size # lastSent /\ attached /\ CanSend)
    BY <1>6, <2>2 DEF Debounced, CanSend, Dimensions
  <2> QED BY <2>1, <2>2
<1>7. CASE Mount
  <2>1. ws # None => (attempt'[ws] = "open" => attempt[ws] = "open")
    <3>1. CASE UNCHANGED attempt
      BY <3>1
    <3>2. CASE attempt' = [attempt EXCEPT ![Idle] = "asking"]
      BY <1>a, <3>2 DEF AttemptOK
    <3> QED BY <1>7, <3>1, <3>2 DEF Mount, Connect
  <2> QED BY <1>7, <2>1 DEF Mount
<1>8. CASE Unmount \/ ChangeSize \/ SignIn
  <2>1. CASE Unmount
    BY <2>1 DEF Unmount
  <2>2. CASE ChangeSize
    BY <2>2 DEF ChangeSize
  <2>3. CASE SignIn
    BY <2>3 DEF SignIn
  <2> QED BY <1>8, <2>1, <2>2, <2>3
<1>9. CASE Reload
  <2>1. <<>> \in Seq(Sizes)
    OBVIOUS
  <2>2. SizeTypes'
    BY <1>9, <2>1 DEF Reload
  <2> QED BY <1>9, <2>2 DEF Reload
<1>10. CASE Reconnect
  <2>1. ws # None => (attempt'[ws] = "open" => attempt[ws] = "open")
    <3>1. CASE UNCHANGED attempt
      BY <3>1
    <3>2. CASE attempt' = [attempt EXCEPT ![Idle] = "asking"]
      BY <1>a, <3>2 DEF AttemptOK
    <3> QED BY <1>10, <3>1, <3>2 DEF Reconnect, Connect
  <2> QED BY <1>10, <2>1 DEF Reconnect
<1>11. ASSUME NEW a \in Attempts, TicketFailed(a) \/ AnswerTicket(a) \/ LoseRequest(a)
       PROVE  SizeInv'
  <2>1. ws # None => (attempt'[ws] = "open" => attempt[ws] = "open")
    BY <1>a, <1>11 DEF TicketFailed, AnswerTicket, LoseRequest, AttemptOK
  <2> QED BY <1>11, <2>1 DEF TicketFailed, AnswerTicket, LoseRequest, Background
<1>12. ASSUME NEW a \in Attempts, Upgrade(a) PROVE SizeInv'
  BY <1>12 DEF Upgrade, Background
<1>13. ASSUME NEW a \in Attempts, Attach(a) PROVE SizeInv'
  BY <1>13 DEF Attach, Background
<1>14. ASSUME NEW a \in Attempts, Resize(a) PROVE SizeInv'
  <2>1. /\ Tail(resizes[a]) \in Seq(Sizes) /\ Head(resizes[a]) \in Sizes
        /\ Tail(resizes[a]) = <<>> => Head(resizes[a]) = resizes[a][Len(resizes[a])]
        /\ Tail(resizes[a]) # <<>> =>
                Tail(resizes[a])[Len(Tail(resizes[a]))] = resizes[a][Len(resizes[a])]
    BY <1>14, LatestRead DEF Resize
  <2>2. /\ pty' = [pty EXCEPT ![a] = Head(resizes[a])]
        /\ resizes' = [resizes EXCEPT ![a] = Tail(resizes[a])]
        /\ resizes[a] # <<>>
    BY <1>14 DEF Resize
  <2>3. \A b \in Attempts : Latest(b)' = Latest(b)
    BY <2>1, <2>2
  <2>4. SizeTypes'
    BY <1>14, <2>1, <2>2 DEF Resize, Background
  <2>5. UNCHANGED <<ws, attempt, server, attached, greeting, blind, lastSent,
                    shown, size, notice, resizeDebounceTimer>>
    BY <1>14 DEF Resize, Background
  <2>6. ws # None => ws \in Attempts
    BY <1>a DEF AttemptOK
  <2>7. SentIsLatest'
    <3> SUFFICES ASSUME ws # None, attempt[ws] = "open", server[ws] = "serving", attached,
                        ws \notin greeting, ~blind
                 PROVE  Latest(ws)' = lastSent
      BY <2>5
    <3>1. Latest(ws)' = Latest(ws)
      BY ONLY <2>3, <2>5, <2>6, ws # None
    <3>2. Latest(ws) = lastSent
      BY ONLY SentIsLatest, ws # None, attempt[ws] = "open", server[ws] = "serving", attached,
              ws \notin greeting, ~blind DEF SentIsLatest
    <3> QED BY ONLY <3>1, <3>2
  <2> QED BY <2>4, <2>5, <2>7
<1>15. ASSUME NEW a \in Attempts, Hangup(a) PROVE SizeInv'
  <2>1. SizeTypes'
    BY <1>15 DEF Hangup, Background
  <2>2. ws # None => ws \in Attempts
    BY <1>a DEF AttemptOK
  <2>3. \A b \in Attempts : server'[b] = "serving" => b # a /\ server[b] = "serving"
    BY <1>15 DEF Hangup
  <2>4. SentIsLatest'
    BY <1>15, <2>2, <2>3 DEF Hangup, Background
  <2> QED BY <1>15, <2>1, <2>4 DEF Hangup, Background
<1>16. CASE Expire \/ OtherSetup
  BY <1>16 DEF Expire, OtherSetup, Background
<1>17. CASE Restart
  <2>1. ws # None => /\ ws \in Attempts /\ server'[ws] # "serving"
                     /\ attempt'[ws] = "open" => attempt[ws] = "open"
    BY <1>a, <1>17 DEF Restart, Background, AttemptOK
  <2> QED BY <1>17, <2>1 DEF Restart, Background
<1>18. CASE UNCHANGED vars
  BY <1>18 DEF vars
<1> QED BY <1>1, <1>2, <1>3, <1>4, <1>5, <1>6, <1>7, <1>8, <1>9, <1>10, <1>11, <1>12, <1>13,
           <1>14, <1>15, <1>16, <1>17, <1>18
        DEF Next, UserStep, Disturbance, Timers, BrowserStep, ServerStep

(* A terminal that was on display when it was attached has, at rest, the   *)
(* size of its pty: no resize that mattered was skipped by the comparison  *)
(* with lastSent, by the debounce timer or by the attached gate.           *)
THEOREM NoResizeIsLost == Spec => []SizeIsCurrent
<1>1. SizeInv => SizeIsCurrent
  BY DEF SizeInv, SizeIsCurrent, Settled, Working, ReadyState,
         SentIsLatest, UnsentIsPending, Latest
<1>2. ConnectInv /\ SizeInv /\ [Next]_vars => (ConnectInv /\ SizeInv)'
  BY StepConnect, StepSize
<1> QED BY InitConnect, InitSize, <1>1, <1>2, PTL DEF Spec
-----------------------------------------------------------------------------
(* Types *)

PlainTypes ==
    /\ hasPassword \in BOOLEAN /\ signedIn \in BOOLEAN /\ wsTickets \subseteq Attempts
    /\ page \in {"setup", "login", "app"} /\ exists \in BOOLEAN
    /\ reconnectTimer \in BOOLEAN /\ acts \in 0 .. MaxActs

LEMMA StepPlain == PlainTypes /\ [Next]_vars => PlainTypes'
<1> SUFFICES ASSUME PlainTypes, [Next]_vars PROVE PlainTypes'
  OBVIOUS
<1> USE TerminalSocketAssumption
    DEF PlainTypes, Landing, Background, serverVars, wireVars, pageVars, sizeVars, connectVars
<1>1. acts' \in 0 .. MaxActs
  BY DEF Next, Calm, vars
<1>2. CASE UserStep
  BY <1>1, <1>2 DEF UserStep, Mount, Unmount, ChangeSize, SignIn, Reload
<1>3. CASE Disturbance
  <2>1. ASSUME NEW a \in Attempts, LoseRequest(a) \/ Hangup(a) PROVE PlainTypes'
    BY <1>1, <2>1 DEF LoseRequest, Hangup
  <2>2. CASE Expire
    BY <1>1, <2>2 DEF Expire
  <2>3. CASE OtherSetup
    BY <1>1, <2>3 DEF OtherSetup
  <2>4. CASE Restart
    BY <1>1, <2>4 DEF Restart
  <2> QED BY <1>3, <2>1, <2>2, <2>3, <2>4 DEF Disturbance
<1>4. CASE Timers
  BY <1>1, <1>4 DEF Timers, Reconnect, Observed, Debounced
<1>5. ASSUME NEW a \in Attempts, BrowserStep(a) PROVE PlainTypes'
  BY <1>1, <1>5 DEF BrowserStep, TicketFailed, GotTicket, Opened, Greeted, Closed
<1>6. ASSUME NEW a \in Attempts, ServerStep(a) PROVE PlainTypes'
  BY <1>1, <1>6 DEF ServerStep, AnswerTicket, Upgrade, Attach, Resize
<1>7. CASE UNCHANGED vars
  BY <1>7 DEF vars
<1> QED BY <1>2, <1>3, <1>4, <1>5, <1>6, <1>7 DEF Next

(* Types; in particular a resize frame never carries the dimensions of a   *)
(* terminal that has none (useTerminal.ts:256, 365).                       *)
THEOREM TypeCorrect == Spec => []TypeOK
<1>1. Init => PlainTypes
  <2>1. Init => 0 \in 0 .. MaxActs /\ acts = 0
    BY TerminalSocketAssumption DEF Init
  <2>2. Init => page \in {"setup", "login", "app"}
    BY DEF Init, Landing
  <2>3. Init => /\ hasPassword \in BOOLEAN /\ signedIn \in BOOLEAN /\ exists \in BOOLEAN
                /\ wsTickets \subseteq Attempts /\ reconnectTimer \in BOOLEAN
    BY DEF Init
  <2> QED BY <2>1, <2>2, <2>3 DEF PlainTypes
<1>2. ConnectInv /\ SizeInv /\ PlainTypes => TypeOK
  BY DEF ConnectInv, AttemptOK, SizeInv, SizeTypes, PlainTypes, TypeOK
<1>3. ConnectInv /\ SizeInv /\ PlainTypes /\ [Next]_vars => (ConnectInv /\ SizeInv /\ PlainTypes)'
  BY StepConnect, StepSize, StepPlain
<1> QED BY InitConnect, InitSize, <1>1, <1>2, <1>3, PTL DEF Spec
==============================================================================
