--------------------------- MODULE PageStartProofs ----------------------------
(***************************************************************************)
(* Proofs about PageStart, for any number of browsers and passwords.       *)
(***************************************************************************)
EXTENDS PageStart, SequenceTheorems, TLAPS

(* Has looked and not stored, for its page or for nobody *)
Hashes(b) == wire[b] = "checked" \/ stray[b].at = "checked"

(* Who is between the two statements of Setup, and what was stored since *)
FormInv ==
    /\ \A b \in Browsers : wire[b] = "checked" => page[b] = "needs-setup"
    /\ \A b \in Browsers : page[b] \in Forms /\ wire[b] # "none" => typed[b] # None
    /\ \A b \in Browsers : stray[b].at = "checked" => stray[b].of = "needs-setup"
    /\ \A b \in Browsers : stray[b].of = "needs-setup" => stray[b].password # None
    /\ server = "down" => \A b \in Browsers : stray[b] = NoStray
    /\ \A b \in Browsers : accepted[b] # None => password # None
    /\ \A b, c \in Browsers : b # c /\ Hashes(b) /\ Hashes(c) => b \in overlapped
    /\ \A b, c \in Browsers :
          b # c /\ Hashes(b) /\ server = "up" /\ accepted[c] # None => c \in overlapped
    /\ SetupIsKept

(* About to make a workspace *)
FoundNone(b) ==
    \/ page[b] = "creating" /\ wire[b] = "asked"
    \/ page[b] = "listing" /\ wire[b] = "answered" /\ reply[b].ok /\ reply[b].list = <<>>

(* Who is about to make a workspace knows that there is none, or one was *)
(* made since.                                                           *)
EmptyInv == \A b \in Browsers :
    /\ FoundNone(b) => workspaces = <<>> \/ made > looked[b]
    /\ stray[b].of = "creating" => workspaces = <<>> \/ made > stray[b].looked

(* Where there is a tab, or was one *)
Tabs == tabs \cup closed \cup deleted

(* What init knows of the tab it is going to show *)
TabInv == \A b \in Browsers :
    /\ page[b] = "creating" /\ wire[b] = "answered" /\ reply[b].ok => reply[b].list # <<>>
    /\ b \notin failed =>
         /\ page[b] \in {"fetching", "adding"} => first[b] # 0
         /\ page[b] = "fetching" /\ wire[b] = "answered" /\ reply[b].ok /\ reply[b].list # <<>>
                => first[b] \in Tabs
         /\ page[b] = "adding" /\ wire[b] = "answered" /\ reply[b].ok
                => first[b] \in Tabs
         /\ page[b] = "ready" => active[b] # 0 /\ active[b] \in Tabs

AllFound(list) == \A i \in DOMAIN list : Found(list[i])

(* Without failures and deletes, whoever is in init has its cookie and     *)
(* works on workspaces that are there.                                     *)
CalmPage(b) ==
    /\ b \notin failed
    /\ page[b] \in InInit => b \in cookie /\ (wire[b] = "answered" => reply[b].ok)
    /\ page[b] \in Forms /\ wire[b] = "answered" /\ reply[b].ok => b \in token
    /\ page[b] = "probe" /\ wire[b] = "answered" /\ reply[b].ok => b \in cookie
    /\ page[b] = "probe" \/ (page[b] = "check" /\ wire[b] = "answered" /\ ~reply[b].ok)
          => password # None
    /\ page[b] \in {"fetching", "adding"} => Found(first[b])
    /\ page[b] \in {"listing", "creating"} /\ wire[b] = "answered" =>
          AllFound(reply[b].list)

CalmInv == faults = 0 /\ deleted = {} => server = "up" /\ \A b \in Browsers : CalmPage(b)

IInv == TypeOK /\ FormInv /\ EmptyInv /\ TabInv /\ CalmInv

-----------------------------------------------------------------------------
(* What the invariants but TypeOK need of the types *)
Shape ==
    /\ page = [b \in Browsers |-> page[b]] /\ wire = [b \in Browsers |-> wire[b]]
    /\ typed = [b \in Browsers |-> typed[b]] /\ accepted = [b \in Browsers |-> accepted[b]]
    /\ first = [b \in Browsers |-> first[b]] /\ active = [b \in Browsers |-> active[b]]
    /\ reply = [b \in Browsers |-> reply[b]] /\ stray = [b \in Browsers |-> stray[b]]
    /\ looked = [b \in Browsers |-> looked[b]]
    /\ \A b \in Browsers :
          stray[b] = [of |-> stray[b].of, at |-> stray[b].at, password |-> stray[b].password,
                      ws |-> stray[b].ws, looked |-> stray[b].looked]
    /\ None \notin Passwords
    /\ faults \in Nat

LEMMA Shapes == TypeOK => Shape
BY PageStartAssumption DEF TypeOK, Shape

LEMMA Answers ==
    ASSUME Shape, NEW b \in Browsers, NEW ok, NEW list, Answer(b, ok, list)
    PROVE  /\ wire'[b] = "answered" /\ reply'[b].ok = ok /\ reply'[b].list = list
           /\ \A c \in Browsers \ {b} : wire'[c] = wire[c] /\ reply'[c] = reply[c]
BY DEF Shape, Answer

Replies == [ok : BOOLEAN, list : Seq(1 .. made)]

WireTypes ==
    /\ wire \in [Browsers -> {"none", "asked", "checked", "answered"}]
    /\ reply \in [Browsers -> Replies]
    /\ token \subseteq Browsers /\ cookie \subseteq Browsers

PageTypes ==
    /\ page \in [Browsers -> InInit \cup Forms \cup {"closed", "check", "probe", "ready", "blank"}]
    /\ loading \subseteq Browsers /\ typed \in [Browsers -> Passwords \cup {None}]
    /\ first \in [Browsers -> 0 .. made] /\ active \in [Browsers -> 0 .. made]
    /\ accepted \in [Browsers -> Passwords \cup {None}]
    /\ overlapped \subseteq Browsers /\ failed \subseteq Browsers
    /\ opened \subseteq Browsers
    /\ closed \subseteq 1 .. made /\ deleted \subseteq 1 .. made

RowTypes ==
    /\ server \in {"up", "closing", "down"} /\ password \in Passwords \cup {None}
    /\ workspaces \in Seq(1 .. made) /\ tabs \subseteq 1 .. made
    /\ made \in 0 .. MaxSpaces /\ defaults \in 0 .. made
    /\ acts \in 0 .. MaxActs /\ faults \in 0 .. MaxFaults

StrayRows == [of : Writing \cup {"none"}, at : {"asked", "checked"},
              password : Passwords \cup {None}, ws : 0 .. made, looked : 0 .. made]

StrayTypes == stray \in [Browsers -> StrayRows] /\ looked \in [Browsers -> 0 .. made]

LEMMA Types == TypeOK <=> WireTypes /\ PageTypes /\ RowTypes /\ StrayTypes
BY DEF TypeOK, Replies, WireTypes, PageTypes, RowTypes, StrayRows, StrayTypes

LEMMA FoundTypes ==
    ASSUME RowTypes, NEW w, Found(w)
    PROVE  w \in 1 .. made
<1>1. \A i \in DOMAIN workspaces : workspaces[i] \in 1 .. made
  BY DEF RowTypes
<1> QED BY <1>1 DEF Found

LEMMA RepliesStay ==
    ASSUME RowTypes, made' \in {made, made + 1}
    PROVE  Replies \subseteq Replies' /\ NoReply \in Replies /\ Seq(1 .. made) \subseteq Seq(1 .. made')
<1>1. made \in Nat /\ 1 .. made \subseteq 1 .. made'
  BY PageStartAssumption DEF RowTypes
<1>2. Seq(1 .. made) \subseteq Seq(1 .. made')
  BY <1>1
<1>3. <<>> \in Seq(1 .. made)
  OBVIOUS
<1> QED BY <1>2, <1>3 DEF Replies, NoReply

LEMMA Replied ==
    ASSUME WireTypes, RowTypes, made' \in {made, made + 1}, UNCHANGED cookie,
           token' \subseteq Browsers, NEW b \in Browsers, NEW r \in Replies',
           wire' = [wire EXCEPT ![b] = "answered"], reply' = [reply EXCEPT ![b] = r]
    PROVE  WireTypes'
<1>1. Replies \subseteq Replies'
  BY RepliesStay
<1> QED BY <1>1 DEF WireTypes

LEMMA Heads ==
    ASSUME WireTypes, RowTypes, NEW b \in Browsers, reply[b].list # <<>>
    PROVE  /\ Head(reply[b].list) \in (Nat \ {0}) \cap (1 .. made)
           /\ AllFound(reply[b].list) => Found(Head(reply[b].list))
<1>1. reply[b].list \in Seq(1 .. made) /\ made \in Nat
  BY PageStartAssumption DEF WireTypes, RowTypes, Replies
<1>2. /\ Len(reply[b].list) \in Nat \ {0} /\ 1 \in DOMAIN reply[b].list
      /\ Head(reply[b].list) = reply[b].list[1] /\ reply[b].list[1] \in 1 .. made
  BY <1>1
<1> QED BY <1>1, <1>2 DEF AllFound

LEMMA Inserted ==
    ASSUME RowTypes, InsertWorkspace
    PROVE  /\ made' = made + 1 /\ made' \in 0 .. MaxSpaces /\ made \in Nat
           /\ 1 .. made \subseteq 1 .. made' /\ 0 .. made \subseteq 0 .. made'
           /\ workspaces \in Seq(1 .. made) /\ workspaces' = Append(workspaces, made')
           /\ workspaces' \in Seq(1 .. made')
<1>1. made' = made + 1 /\ made < MaxSpaces /\ made \in Nat /\ made' \in 0 .. MaxSpaces
  BY PageStartAssumption DEF InsertWorkspace, RowTypes
<1>2. workspaces \in Seq(1 .. made) /\ workspaces \in Seq(1 .. made') /\ made' \in 1 .. made'
  BY <1>1, RepliesStay DEF RowTypes
<1>3. workspaces' = Append(workspaces, made')
  BY <1>1 DEF InsertWorkspace
<1> QED BY <1>1, <1>2, <1>3

LEMMA Deleted ==
    ASSUME RowTypes, NEW i \in DOMAIN workspaces
    PROVE  /\ [j \in 1 .. Len(workspaces) - 1 |-> workspaces[IF j < i THEN j ELSE j + 1]]
                 \in Seq(1 .. made)
           /\ workspaces[i] \in 1 .. made
<1>1. Len(workspaces) - 1 \in Nat
  BY DEF RowTypes
<1>2. \A j \in 1 .. Len(workspaces) - 1 : workspaces[IF j < i THEN j ELSE j + 1] \in 1 .. made
  BY DEF RowTypes
<1> QED BY <1>1, <1>2 DEF RowTypes

LEMMA RowTypesStep ==
    ASSUME WireTypes, PageTypes, RowTypes, StrayTypes, TabInv, Next
    PROVE  RowTypes'
<1> USE PageStartAssumption DEF RowTypes, rowVars, formVars, wireVars, initVars, goneVars, historyVars
<1>1. ASSUME NEW b \in Browsers, Load(b) PROVE RowTypes'
  BY <1>1 DEF Load, Act, Turn, Abandon, KeepCookie
<1>2. ASSUME NEW b \in Browsers, Submit(b) PROVE RowTypes'
  BY <1>2 DEF Submit, Act, Ask
<1>3. ASSUME NEW b \in Browsers, Use(b) PROVE RowTypes'
  <2>1. acts' \in 0 .. MaxActs /\ UNCHANGED <<server, password, defaults, faults>>
    BY <1>3 DEF Use, AddWorkspace, AddTab, CloseTab, DeleteWorkspace, Uses, Act
  <2>2. CASE AddWorkspace(b)
    BY <2>1, <2>2, Inserted DEF AddWorkspace
  <2>3. CASE AddTab(b)
    BY <2>1, <2>3, Deleted DEF AddTab
  <2>4. CASE CloseTab(b)
    BY <2>1, <2>4 DEF CloseTab
  <2>5. CASE DeleteWorkspace(b)
    BY <2>1, <2>5, Deleted DEF DeleteWorkspace
  <2> QED BY <1>3, <2>2, <2>3, <2>4, <2>5 DEF Use
<1>4. ASSUME NEW b \in Browsers, ServeCheck(b) PROVE RowTypes'
  BY <1>4 DEF ServeCheck, Serves, Answer, Admitted, HasPassword
<1>5. ASSUME NEW b \in Browsers, SetupCheck(b) PROVE RowTypes'
  BY <1>5 DEF SetupCheck, Serves, Answer, HasPassword
<1>6. ASSUME NEW b \in Browsers, SetupStore(b) PROVE RowTypes'
  BY <1>6 DEF SetupStore, Save, PageTypes
<1>7. ASSUME NEW b \in Browsers, ServeLogin(b) PROVE RowTypes'
  BY <1>7 DEF ServeLogin, Serves, Answer, HasPassword
<1>8. ASSUME NEW b \in Browsers, ServeList(b) PROVE RowTypes'
  BY <1>8 DEF ServeList, Serves, Answer, Admitted, HasPassword
<1>9. ASSUME NEW b \in Browsers, ServeCreate(b) PROVE RowTypes'
  <2>1. CASE Admitted(b) /\ server = "up"
    <3>1. InsertWorkspace /\ defaults' = defaults + 1 /\ UNCHANGED <<tabs, password, server>>
      BY <1>9, <2>1 DEF ServeCreate
    <3> QED BY <1>9, <3>1, Inserted DEF ServeCreate
  <2>2. CASE ~(Admitted(b) /\ server = "up")
    BY <1>9, <2>2 DEF ServeCreate
  <2> QED BY <2>1, <2>2
<1>10. ASSUME NEW b \in Browsers, ServeAdd(b) PROVE RowTypes'
  <2>1. Found(first[b]) => first[b] \in 1 .. made
    BY DEF Found
  <2> QED BY <1>10, <2>1 DEF ServeAdd
<1>11. ASSUME NEW b \in Browsers, CheckAnswered(b) PROVE RowTypes'
  BY <1>11 DEF CheckAnswered, Receives, Turn, Take
<1>12. ASSUME NEW b \in Browsers, ProbeAnswered(b) PROVE RowTypes'
  BY <1>12 DEF ProbeAnswered, Receives, Turn, Take, StartInit
<1>13. ASSUME NEW b \in Browsers, SubmitAnswered(b) PROVE RowTypes'
  BY <1>13 DEF SubmitAnswered, Receives, Turn, Take, StartInit
<1>14. ASSUME NEW b \in Browsers, Listed(b) PROVE RowTypes'
  BY <1>14 DEF Listed, Receives, Turn, Take, Fail
<1>15. ASSUME NEW b \in Browsers, Created(b) PROVE RowTypes'
  BY <1>15 DEF Created, Receives, Turn, Take, Fail
<1>16. ASSUME NEW b \in Browsers, Fetched(b) PROVE RowTypes'
  BY <1>16 DEF Fetched, Receives, Turn, Take, Set, Show, Fail
<1>17. ASSUME NEW b \in Browsers, Added(b) PROVE RowTypes'
  BY <1>17 DEF Added, Receives, Turn, Take, Set, Show, Fail
<1>18. ASSUME NEW b \in Browsers, Lose(b) PROVE RowTypes'
  BY <1>18 DEF Lose, Fault, Abandon, KeepCookie, Reject, Fail
<1>19. ASSUME NEW b \in Browsers, Refuse(b) PROVE RowTypes'
  BY <1>19 DEF Refuse, Reject, Fail
<1>20. ASSUME NEW b \in Browsers, Expire(b) PROVE RowTypes'
  BY <1>20 DEF Expire, Fault
<1>21. ASSUME BeginShutdown PROVE RowTypes'
  BY <1>21 DEF BeginShutdown, Fault
<1>22. ASSUME Stop PROVE RowTypes'
  BY <1>22 DEF Stop
<1>23. ASSUME Restart PROVE RowTypes'
  BY <1>23 DEF Restart
<1>24. ASSUME NEW b \in Browsers, ServeStray(b) PROVE RowTypes'
  <2>1. CASE StrayCheck(b)
    BY <2>1 DEF StrayCheck
  <2>2. CASE StrayStore(b)
    <3>1. stray[b].password \in Passwords \cup {None}
      BY DEF StrayTypes, StrayRows
    <3> QED BY <2>2, <3>1 DEF StrayStore, Save
  <2>3. CASE StrayCreate(b)
    <3>1. UNCHANGED <<server, password, tabs, acts, faults>>
      BY <2>3 DEF StrayCreate
    <3>2. CASE Admitted(b)
      <4>1. InsertWorkspace /\ defaults' = defaults + 1
        BY <2>3, <3>2 DEF StrayCreate
      <4> QED BY <3>1, <4>1, Inserted
    <3>3. CASE ~Admitted(b)
      BY <2>3, <3>1, <3>3 DEF StrayCreate
    <3> QED BY <3>2, <3>3
  <2>4. CASE StrayAdd(b)
    <3>1. Found(stray[b].ws) => stray[b].ws \in 1 .. made
      BY FoundTypes
    <3> QED BY <2>4, <3>1 DEF StrayAdd
  <2> QED BY <1>24, <2>1, <2>2, <2>3, <2>4 DEF ServeStray
<1> QED
  BY <1>1, <1>2, <1>3, <1>4, <1>5, <1>6, <1>7, <1>8, <1>9, <1>10, <1>11, <1>12,
     <1>13, <1>14, <1>15, <1>16, <1>17, <1>18, <1>19, <1>20, <1>21, <1>22, <1>23, <1>24
  DEF Next, Serve, Receive

LEMMA PageTypesStep ==
    ASSUME WireTypes, PageTypes, RowTypes, StrayTypes, TabInv, Next
    PROVE  PageTypes'
<1> USE PageStartAssumption DEF PageTypes, RowTypes, InInit, Forms, rowVars, formVars, wireVars, initVars, goneVars, historyVars
<1>1. ASSUME NEW b \in Browsers, Load(b) PROVE PageTypes'
  BY <1>1 DEF Load, Act, Turn, Abandon, KeepCookie
<1>2. ASSUME NEW b \in Browsers, Submit(b) PROVE PageTypes'
  BY <1>2 DEF Submit, Act, Ask
<1>3. ASSUME NEW b \in Browsers, Use(b) PROVE PageTypes'
  <2>1. UNCHANGED <<page, loading, typed, first, active, accepted, overlapped, failed, opened>>
    BY <1>3 DEF Use, AddWorkspace, AddTab, CloseTab, DeleteWorkspace, Uses, Act
  <2>2. CASE AddWorkspace(b)
    BY <2>1, <2>2, Inserted DEF AddWorkspace
  <2>3. CASE AddTab(b)
    BY <2>1, <2>3 DEF AddTab
  <2>4. CASE CloseTab(b)
    BY <2>1, <2>4 DEF CloseTab
  <2>5. CASE DeleteWorkspace(b)
    BY <2>1, <2>5, Deleted DEF DeleteWorkspace
  <2> QED BY <1>3, <2>2, <2>3, <2>4, <2>5 DEF Use
<1>4. ASSUME NEW b \in Browsers, ServeCheck(b) PROVE PageTypes'
  BY <1>4 DEF ServeCheck, Serves, Answer, Admitted, HasPassword
<1>5. ASSUME NEW b \in Browsers, SetupCheck(b) PROVE PageTypes'
  BY <1>5 DEF SetupCheck, Overlap, Hashing
<1>6. ASSUME NEW b \in Browsers, SetupStore(b) PROVE PageTypes'
  BY <1>6 DEF SetupStore, Save, Serves, Answer
<1>7. ASSUME NEW b \in Browsers, ServeLogin(b) PROVE PageTypes'
  BY <1>7 DEF ServeLogin, Serves, Answer, HasPassword
<1>8. ASSUME NEW b \in Browsers, ServeList(b) PROVE PageTypes'
  BY <1>8 DEF ServeList, Serves, Answer, Admitted, HasPassword
<1>9. ASSUME NEW b \in Browsers, ServeCreate(b) PROVE PageTypes'
  BY <1>9, Inserted DEF ServeCreate
<1>10. ASSUME NEW b \in Browsers, ServeAdd(b) PROVE PageTypes'
  BY <1>10 DEF ServeAdd, Serves, Answer, Admitted, HasPassword
<1>11. ASSUME NEW b \in Browsers, CheckAnswered(b) PROVE PageTypes'
  BY <1>11 DEF CheckAnswered, Receives, Turn, Take
<1>12. ASSUME NEW b \in Browsers, ProbeAnswered(b) PROVE PageTypes'
  BY <1>12 DEF ProbeAnswered, Receives, Turn, Take, StartInit
<1>13. ASSUME NEW b \in Browsers, SubmitAnswered(b) PROVE PageTypes'
  BY <1>13 DEF SubmitAnswered, Receives, Turn, Take, StartInit
<1>14. ASSUME NEW b \in Browsers, Listed(b) PROVE PageTypes'
  <2>1. reply[b].list # <<>> => Head(reply[b].list) \in 0 .. made
    BY Heads
  <2>2. first' \in [Browsers -> 0 .. made]
    BY <1>14, <2>1 DEF Listed
  <2>3. /\ page' \in [Browsers -> InInit \cup Forms
                            \cup {"closed", "check", "probe", "ready", "blank"}]
        /\ failed' \subseteq Browsers
    BY <1>14 DEF Listed, Turn, Fail
  <2>4. UNCHANGED <<loading, typed, active, accepted, overlapped, opened, closed, deleted, made>>
    BY <1>14 DEF Listed
  <2> QED BY <2>2, <2>3, <2>4
<1>15. ASSUME NEW b \in Browsers, Created(b) PROVE PageTypes'
  <2>1. reply[b].list # <<>> => Head(reply[b].list) \in 0 .. made
    BY Heads
  <2> QED BY <1>15, <2>1 DEF Created, Receives, Turn, Fail, TabInv
<1>16. ASSUME NEW b \in Browsers, Fetched(b) PROVE PageTypes'
  <2>1. \A w \in 0 .. made : Set(b, "ready", w) \/ Set(b, "blank", w) =>
            /\ page' \in [Browsers -> InInit \cup Forms \cup {"closed", "check", "probe", "ready", "blank"}]
            /\ active' \in [Browsers -> 0 .. made]
    BY DEF Set, Turn
  <2>2. 0 \in 0 .. made /\ first[b] \in 0 .. made
    OBVIOUS
  <2> QED BY <1>16, <2>1, <2>2 DEF Fetched, Show, Turn, Fail
<1>17. ASSUME NEW b \in Browsers, Added(b) PROVE PageTypes'
  <2>1. \A w \in 0 .. made : Set(b, "ready", w) \/ Set(b, "blank", w) =>
            /\ page' \in [Browsers -> InInit \cup Forms \cup {"closed", "check", "probe", "ready", "blank"}]
            /\ active' \in [Browsers -> 0 .. made]
    BY DEF Set, Turn
  <2>2. 0 \in 0 .. made /\ first[b] \in 0 .. made
    OBVIOUS
  <2> QED BY <1>17, <2>1, <2>2 DEF Added, Show, Fail
<1>18. ASSUME NEW b \in Browsers, Lose(b) PROVE PageTypes'
  BY <1>18 DEF Lose, Fault, Abandon, KeepCookie, Reject, Fail
<1>19. ASSUME NEW b \in Browsers, Refuse(b) PROVE PageTypes'
  BY <1>19 DEF Refuse, Reject, Fail
<1>20. ASSUME NEW b \in Browsers, Expire(b) PROVE PageTypes'
  BY <1>20 DEF Expire, Fault
<1>21. ASSUME BeginShutdown PROVE PageTypes'
  BY <1>21 DEF BeginShutdown, Fault
<1>22. ASSUME Stop PROVE PageTypes'
  BY <1>22 DEF Stop
<1>23. ASSUME Restart PROVE PageTypes'
  BY <1>23 DEF Restart
<1>24. ASSUME NEW b \in Browsers, ServeStray(b) PROVE PageTypes'
  <2>1. CASE StrayCheck(b)
    BY <2>1 DEF StrayCheck, Overlap, Hashing
  <2>2. CASE StrayStore(b)
    <3>1. stray[b].password \in Passwords \cup {None}
      BY DEF StrayTypes, StrayRows
    <3> QED BY <2>2, <3>1 DEF StrayStore, Save
  <2>3. CASE StrayCreate(b)
    BY <2>3, Inserted DEF StrayCreate
  <2>4. CASE StrayAdd(b)
    BY <2>4 DEF StrayAdd
  <2> QED BY <1>24, <2>1, <2>2, <2>3, <2>4 DEF ServeStray
<1> QED
  BY <1>1, <1>2, <1>3, <1>4, <1>5, <1>6, <1>7, <1>8, <1>9, <1>10, <1>11, <1>12,
     <1>13, <1>14, <1>15, <1>16, <1>17, <1>18, <1>19, <1>20, <1>21, <1>22, <1>23, <1>24
  DEF Next, Serve, Receive

LEMMA WireTypesStep ==
    ASSUME WireTypes, PageTypes, RowTypes, StrayTypes, TabInv, Next
    PROVE  WireTypes'
<1> USE PageStartAssumption, RepliesStay DEF rowVars, formVars, wireVars, initVars, goneVars, historyVars
<1>1. ASSUME NEW b \in Browsers, Load(b) PROVE WireTypes'
  BY <1>1 DEF Load, Act, Turn, Abandon, KeepCookie, WireTypes
<1>2. ASSUME NEW b \in Browsers, Submit(b) PROVE WireTypes'
  BY <1>2 DEF Submit, Act, Ask, WireTypes
<1>3. ASSUME NEW b \in Browsers, Use(b) PROVE WireTypes'
  <2>1. UNCHANGED <<wire, reply, token, cookie>>
    BY <1>3 DEF Use, AddWorkspace, AddTab, CloseTab, DeleteWorkspace, Uses
  <2>2. made' \in {made, made + 1}
    BY <1>3 DEF Use, AddWorkspace, AddTab, CloseTab, DeleteWorkspace, InsertWorkspace
  <2> QED BY <2>1, <2>2, RepliesStay DEF WireTypes
<1>4. ASSUME NEW b \in Browsers, ServeCheck(b) PROVE WireTypes'
  <2>1. PICK x \in BOOLEAN : Answer(b, x, <<>>)
    BY <1>4, Zenon DEF ServeCheck, HasPassword, Admitted
  <2>2. [ok |-> x, list |-> <<>>] \in Replies'
    BY DEF Replies
  <2> QED BY <1>4, <2>1, <2>2, Replied DEF ServeCheck, Answer, WireTypes
<1>5. ASSUME NEW b \in Browsers, SetupCheck(b) PROVE WireTypes'
  <2>1. [ok |-> FALSE, list |-> <<>>] \in Replies'
    BY DEF Replies
  <2>2. CASE HasPassword
    BY <1>5, <2>1, <2>2, Replied DEF SetupCheck, Answer, WireTypes
  <2>3. CASE ~HasPassword
    BY <1>5, <2>3, RepliesStay DEF SetupCheck, WireTypes
  <2> QED BY <2>2, <2>3
<1>6. ASSUME NEW b \in Browsers, SetupStore(b) PROVE WireTypes'
  <2>1. \A x \in BOOLEAN : [ok |-> x, list |-> <<>>] \in Replies'
    BY DEF Replies
  <2> QED BY <1>6, <2>1, Replied DEF SetupStore, Save, Answer, WireTypes
<1>7. ASSUME NEW b \in Browsers, ServeLogin(b) PROVE WireTypes'
  <2>1. \A x \in BOOLEAN : [ok |-> x, list |-> <<>>] \in Replies'
    BY DEF Replies
  <2> QED BY <1>7, <2>1, Replied DEF ServeLogin, HasPassword, Answer, WireTypes
<1>8. ASSUME NEW b \in Browsers, ServeList(b) PROVE WireTypes'
  <2>1. PICK ok \in BOOLEAN, list \in Seq(1 .. made) : Answer(b, ok, list)
    <3>1. workspaces \in Seq(1 .. made) /\ <<>> \in Seq(1 .. made)
      BY DEF RowTypes
    <3>2. Found(first[b]) => <<first[b]>> \in Seq(1 .. made)
      <4>1. Found(first[b]) => first[b] \in 1 .. made
        BY FoundTypes
      <4> QED BY <4>1
    <3>3. CASE Admitted(b) /\ server = "up"
      BY <1>8, <3>1, <3>2, <3>3 DEF ServeList
    <3>4. CASE ~(Admitted(b) /\ server = "up")
      BY <1>8, <3>1, <3>4 DEF ServeList
    <3> QED BY <3>3, <3>4
  <2>2. [ok |-> ok, list |-> list] \in Replies'
    BY <1>8 DEF ServeList, Replies
  <2> QED BY <1>8, <2>1, <2>2, Replied DEF ServeList, Answer, WireTypes
<1>9. ASSUME NEW b \in Browsers, ServeCreate(b) PROVE WireTypes'
  <2>1. made \in Nat
    BY DEF RowTypes
  <2>2. CASE Admitted(b) /\ server = "up"
    <3>1. [ok |-> TRUE, list |-> <<made + 1>>] \in Replies'
      BY <1>9, <2>1, <2>2 DEF ServeCreate, InsertWorkspace, Replies
    <3> QED BY <1>9, <2>2, <3>1, Replied DEF ServeCreate, InsertWorkspace, Answer, WireTypes
  <2>3. CASE ~(Admitted(b) /\ server = "up")
    <3>1. [ok |-> FALSE, list |-> <<>>] \in Replies'
      BY DEF Replies
    <3> QED BY <1>9, <2>3, <3>1, Replied DEF ServeCreate, InsertWorkspace, Answer, WireTypes
  <2> QED BY <2>2, <2>3
<1>10. ASSUME NEW b \in Browsers, ServeAdd(b) PROVE WireTypes'
  <2>1. CASE Admitted(b) /\ server = "up" /\ Found(first[b])
    <3>1. first[b] \in 1 .. made
      BY <2>1 DEF Found, RowTypes
    <3>2. [ok |-> TRUE, list |-> <<first[b]>>] \in Replies'
      BY <1>10, <3>1 DEF ServeAdd, Replies
    <3> QED BY <1>10, <2>1, <3>2, Replied DEF ServeAdd, Answer, WireTypes
  <2>2. CASE ~(Admitted(b) /\ server = "up" /\ Found(first[b]))
    <3>1. [ok |-> FALSE, list |-> <<>>] \in Replies'
      BY DEF Replies
    <3> QED BY <1>10, <2>2, <3>1, Replied DEF ServeAdd, Answer, WireTypes
  <2> QED BY <2>1, <2>2
<1>11. ASSUME NEW b \in Browsers, CheckAnswered(b) PROVE WireTypes'
  BY <1>11 DEF CheckAnswered, Receives, Turn, Take, WireTypes
<1>12. ASSUME NEW b \in Browsers, ProbeAnswered(b) PROVE WireTypes'
  BY <1>12 DEF ProbeAnswered, Receives, Turn, Take, StartInit, WireTypes
<1>13. ASSUME NEW b \in Browsers, SubmitAnswered(b) PROVE WireTypes'
  BY <1>13 DEF SubmitAnswered, Receives, Turn, Take, StartInit, WireTypes
<1>14. ASSUME NEW b \in Browsers, Listed(b) PROVE WireTypes'
  BY <1>14 DEF Listed, Receives, Turn, Take, Fail, WireTypes
<1>15. ASSUME NEW b \in Browsers, Created(b) PROVE WireTypes'
  BY <1>15 DEF Created, Receives, Turn, Take, Fail, WireTypes
<1>16. ASSUME NEW b \in Browsers, Fetched(b) PROVE WireTypes'
  BY <1>16 DEF Fetched, Receives, Turn, Take, Set, Show, Fail, WireTypes
<1>17. ASSUME NEW b \in Browsers, Added(b) PROVE WireTypes'
  BY <1>17 DEF Added, Receives, Turn, Take, Set, Show, Fail, WireTypes
<1>18. ASSUME NEW b \in Browsers, Lose(b) PROVE WireTypes'
  BY <1>18 DEF Lose, Fault, Abandon, KeepCookie, Reject, Fail, WireTypes
<1>19. ASSUME NEW b \in Browsers, Refuse(b) PROVE WireTypes'
  BY <1>19 DEF Refuse, Reject, Fail, WireTypes
<1>20. ASSUME NEW b \in Browsers, Expire(b) PROVE WireTypes'
  BY <1>20 DEF Expire, Fault, WireTypes
<1>21. ASSUME BeginShutdown PROVE WireTypes'
  BY <1>21 DEF BeginShutdown, Fault, WireTypes
<1>22. ASSUME Stop PROVE WireTypes'
  BY <1>22 DEF Stop, WireTypes
<1>23. ASSUME Restart PROVE WireTypes'
  BY <1>23 DEF Restart, WireTypes
<1>24. ASSUME NEW b \in Browsers, ServeStray(b) PROVE WireTypes'
  <2>1. UNCHANGED <<wire, reply, token, cookie>>
    BY <1>24 DEF ServeStray, StrayCheck, StrayStore, StrayCreate, StrayAdd
  <2>2. made' \in {made, made + 1}
    BY <1>24 DEF ServeStray, StrayCheck, StrayStore, StrayCreate, StrayAdd, InsertWorkspace
  <2> QED BY <2>1, <2>2, RepliesStay DEF WireTypes
<1> QED
  BY <1>1, <1>2, <1>3, <1>4, <1>5, <1>6, <1>7, <1>8, <1>9, <1>10, <1>11, <1>12,
     <1>13, <1>14, <1>15, <1>16, <1>17, <1>18, <1>19, <1>20, <1>21, <1>22, <1>23, <1>24
  DEF Next, Serve, Receive

LEMMA StrayTypesStep ==
    ASSUME WireTypes, PageTypes, RowTypes, StrayTypes, TabInv, Next
    PROVE  StrayTypes'
<1> USE DEF rowVars, formVars, wireVars, initVars, goneVars, historyVars
<1>1. made \in Nat /\ NoStray \in StrayRows
  BY PageStartAssumption DEF RowTypes, NoStray, StrayRows
<1>2. made' \in {made, made + 1}
  BY DEF Next, Load, Submit, Use, Uses, AddWorkspace, AddTab, CloseTab, DeleteWorkspace, Serve,
         ServeCheck, SetupCheck, SetupStore, ServeLogin, ServeList, ServeCreate, ServeAdd,
         InsertWorkspace, ServeStray, StrayCheck, StrayStore, StrayCreate, StrayAdd, Receive,
         CheckAnswered, ProbeAnswered, SubmitAnswered, Listed, Created, Fetched, Added, Lose,
         Refuse, Reject, Expire, BeginShutdown, Stop, Restart
<1>3. 0 .. made \subseteq 0 .. made' /\ StrayRows \subseteq StrayRows'
  BY <1>1, <1>2 DEF StrayRows
<1>4. ASSUME NEW b \in Browsers, Abandon(b) PROVE stray' \in [Browsers -> StrayRows]
  <2>1. CASE UNCHANGED stray
    BY <2>1 DEF StrayTypes
  <2>2. CASE ~UNCHANGED stray
    <3> DEFINE kept == [of |-> page[b], at |-> wire[b], password |-> typed[b], ws |-> first[b],
                        looked |-> looked[b]]
    <3>1. /\ wire[b] \in {"asked", "checked"} /\ page[b] \in Writing
          /\ stray' = [stray EXCEPT ![b] = kept]
      BY <1>4, <2>2 DEF Abandon
    <3>2. typed[b] \in Passwords \cup {None} /\ first[b] \in 0 .. made /\ looked[b] \in 0 .. made
      BY DEF PageTypes, StrayTypes
    <3>3. kept \in StrayRows
      BY <3>1, <3>2 DEF StrayRows
    <3> QED BY <3>1, <3>3 DEF StrayTypes
  <2> QED BY <2>1, <2>2
<1>5. ASSUME NEW b \in Browsers, Done(b) PROVE stray' \in [Browsers -> StrayRows]
  BY <1>1, <1>5 DEF Done, StrayTypes
<1>6. ASSUME NEW b \in Browsers, StrayCheck(b) PROVE stray' \in [Browsers -> StrayRows]
  <2>1. CASE HasPassword
    BY <1>5, <1>6, <2>1 DEF StrayCheck
  <2>2. CASE ~HasPassword
    <3>1. stray[b] \in StrayRows /\ stray' = [stray EXCEPT ![b].at = "checked"]
      BY <1>6, <2>2 DEF StrayCheck, StrayTypes
    <3>2. [stray[b] EXCEPT !.at = "checked"] \in StrayRows
      BY <3>1 DEF StrayRows
    <3> QED BY <3>1, <3>2 DEF StrayTypes
  <2> QED BY <2>1, <2>2
<1>7. stray' \in [Browsers -> StrayRows]
  <2>1. \/ UNCHANGED stray
        \/ \E b \in Browsers : Abandon(b) \/ Done(b) \/ StrayCheck(b)
        \/ Stop
    BY DEF Next, Load, Submit, Use, Uses, AddWorkspace, AddTab, CloseTab, DeleteWorkspace, Serve,
           ServeCheck, SetupCheck, SetupStore, ServeLogin, ServeList, ServeCreate, ServeAdd,
           ServeStray, StrayStore, StrayCreate, StrayAdd, Receive, CheckAnswered, ProbeAnswered,
           SubmitAnswered, Listed, Created, Fetched, Added, Lose, Refuse, Expire, BeginShutdown,
           Restart
  <2>2. CASE UNCHANGED stray
    BY <2>2 DEF StrayTypes
  <2>3. CASE Stop
    BY <1>1, <2>3 DEF Stop
  <2> QED BY <1>4, <1>5, <1>6, <2>1, <2>2, <2>3
<1>8. looked' \in [Browsers -> 0 .. made]
  <2>1. UNCHANGED looked \/ \E b \in Browsers : Load(b) \/ ServeList(b)
    BY DEF Next, Submit, Use, Uses, AddWorkspace, AddTab, CloseTab, DeleteWorkspace, Serve,
           ServeCheck, SetupCheck, SetupStore, ServeLogin, ServeCreate, ServeAdd,
           ServeStray, StrayCheck, StrayStore, StrayCreate, StrayAdd, Receive, CheckAnswered,
           ProbeAnswered, SubmitAnswered, Listed, Created, Fetched, Added, Fault, Lose, Refuse,
           Expire, BeginShutdown, Stop, Restart
  <2>2. ASSUME NEW b \in Browsers, Load(b) PROVE looked' \in [Browsers -> 0 .. made]
    BY <1>1, <2>2 DEF Load, StrayTypes
  <2>3. ASSUME NEW b \in Browsers, ServeList(b) PROVE looked' \in [Browsers -> 0 .. made]
    BY <1>1, <2>3 DEF ServeList, StrayTypes
  <2> QED BY <2>1, <2>2, <2>3 DEF StrayTypes
<1> QED BY <1>3, <1>7, <1>8 DEF StrayTypes

LEMMA TypeStep ==
    ASSUME TypeOK, TabInv, Next
    PROVE  TypeOK'
<1>1. WireTypes /\ PageTypes /\ RowTypes /\ StrayTypes
  BY Types
<1>2. WireTypes' /\ PageTypes' /\ RowTypes' /\ StrayTypes'
  BY <1>1, RowTypesStep, PageTypesStep, WireTypesStep, StrayTypesStep
<1> QED BY <1>2 DEF TypeOK, WireTypes, PageTypes, RowTypes, StrayTypes, StrayRows, Replies

LEMMA OverlapsAll ==
    ASSUME NEW b \in Browsers, Overlap(b)
    PROVE  /\ \A c \in Browsers : c \in overlapped \/ Hashes(c) => c \in overlapped'
           /\ (\E c \in Browsers : Hashes(c)) => b \in overlapped'
BY DEF Overlap, Hashing, Hashes

(* Nobody comes to hash, and nothing is stored. *)
LEMMA FormWaits ==
    ASSUME Shape, FormInv, NEW b \in Browsers,
           UNCHANGED <<server, password, accepted, overlapped>>,
           UNCHANGED stray \/ Abandon(b),
           \A c \in Browsers \ {b} :
              wire'[c] = wire[c] /\ page'[c] = page[c] /\ typed'[c] = typed[c],
           wire'[b] # "checked",
           page'[b] \in Forms /\ wire'[b] # "none" => typed'[b] # None
    PROVE  FormInv'
<1>1. \A c \in Browsers :
         \/ stray'[c] = stray[c]
         \/ /\ c = b /\ server # "down" /\ stray'[c].of = page[b] /\ stray'[c].at = wire[b]
            /\ stray'[c].password = typed[b] /\ wire[b] \in {"asked", "checked"}
  BY DEF Abandon, Shape
<1>2. \A c \in Browsers : Hashes(c)' => Hashes(c)
  BY <1>1 DEF Hashes
<1>3. /\ \A c \in Browsers : wire'[c] = "checked" => page'[c] = "needs-setup"
      /\ \A c \in Browsers : page'[c] \in Forms /\ wire'[c] # "none" => typed'[c] # None
  BY DEF FormInv
<1>4. /\ \A c \in Browsers : stray'[c].at = "checked" => stray'[c].of = "needs-setup"
      /\ \A c \in Browsers : stray'[c].of = "needs-setup" => stray'[c].password # None
      /\ server' = "down" => \A c \in Browsers : stray'[c] = NoStray
  BY <1>1 DEF FormInv, Forms
<1>5. SetupIsKept'
  BY DEF FormInv, SetupIsKept
<1>6. /\ \A c \in Browsers : accepted'[c] # None => password' # None
      /\ \A c, d \in Browsers : c # d /\ Hashes(c)' /\ Hashes(d)' => c \in overlapped'
      /\ \A c, d \in Browsers :
            c # d /\ Hashes(c)' /\ server' = "up" /\ accepted'[d] # None => d \in overlapped'
  BY <1>2 DEF FormInv
<1> QED BY <1>3, <1>4, <1>5, <1>6 DEF FormInv, NoStray

LEMMA FormStep ==
    ASSUME Shape, FormInv, Next
    PROVE  FormInv'
<1> USE DEF Shape, FormInv, SetupIsKept, Hashes, InInit, Forms, NoReply, rowVars, formVars, wireVars, initVars, goneVars, historyVars
<1>1. ASSUME NEW b \in Browsers, Load(b) PROVE FormInv'
  <2>1. /\ UNCHANGED <<server, password, accepted, overlapped>> /\ Abandon(b)
        /\ \A c \in Browsers \ {b} :
              wire'[c] = wire[c] /\ page'[c] = page[c] /\ typed'[c] = typed[c]
        /\ wire'[b] # "checked"
        /\ page'[b] \in Forms /\ wire'[b] # "none" => typed'[b] # None
    BY <1>1 DEF Load, Act, Turn
  <2> QED BY <2>1, FormWaits
<1>2. ASSUME NEW b \in Browsers, Submit(b) PROVE FormInv'
  BY <1>2 DEF Submit, Act, Ask
<1>3. ASSUME NEW b \in Browsers, Use(b) PROVE FormInv'
  BY <1>3 DEF Use, Uses, AddWorkspace, AddTab, CloseTab, DeleteWorkspace, Act
<1>4. ASSUME NEW b \in Browsers, ServeCheck(b) PROVE FormInv'
  BY <1>4 DEF ServeCheck, Serves, Answer, Admitted, HasPassword
<1>5. ASSUME NEW b \in Browsers, SetupCheck(b) PROVE FormInv'
  <2>1. CASE HasPassword
    BY <1>5, <2>1 DEF SetupCheck, Serves, Answer
  <2>2. CASE ~HasPassword
    <3>1. /\ page[b] = "needs-setup" /\ wire[b] = "asked" /\ server # "down"
          /\ wire' = [wire EXCEPT ![b] = "checked"]
          /\ Overlap(b) /\ UNCHANGED <<server, page, typed, accepted, password, stray>>
      BY <1>5, <2>2 DEF SetupCheck, Serves
    <3>2. server = "up" => password = None
      BY <2>2 DEF HasPassword
    <3>3. \A c, d \in Browsers : c # d /\ Hashes(c)' /\ Hashes(d)' => c \in overlapped'
      <4>1. \A c \in Browsers : Hashes(c)' => c = b \/ Hashes(c)
        BY <3>1
      <4> QED BY <3>1, <4>1, OverlapsAll
    <3>4. overlapped \subseteq overlapped'
      BY <3>1 DEF Overlap
    <3> QED BY <3>1, <3>2, <3>3, <3>4
  <2> QED BY <2>1, <2>2
<1>6. ASSUME NEW b \in Browsers, SetupStore(b) PROVE FormInv'
  <2>1. /\ wire[b] = "checked" /\ page[b] = "needs-setup" /\ wire' = [wire EXCEPT ![b] = "answered"]
        /\ UNCHANGED <<server, page, typed, stray, overlapped>>
    BY <1>6 DEF SetupStore, Serves, Answer
  <2>2. CASE server = "up"
    <3>1. Save(b, typed[b]) /\ typed[b] # None
      BY <1>6, <2>1, <2>2 DEF SetupStore
    <3>2. \A c \in Browsers \ {b} : accepted'[c] = accepted[c]
          /\ (accepted[c] # None => c \in overlapped) /\ (Hashes(c) => b \in overlapped)
      BY <2>1, <2>2, <3>1 DEF Save
    <3>3. SetupIsKept'
      BY <2>1, <3>1, <3>2 DEF Save
    <3> QED BY <2>1, <3>1, <3>2, <3>3 DEF Save
  <2>3. CASE server # "up"
    BY <1>6, <2>1, <2>3 DEF SetupStore
  <2> QED BY <2>2, <2>3
<1>7. ASSUME NEW b \in Browsers, ServeLogin(b) PROVE FormInv'
  BY <1>7 DEF ServeLogin, Serves, Answer, HasPassword
<1>8. ASSUME NEW b \in Browsers, ServeList(b) PROVE FormInv'
  BY <1>8 DEF ServeList, Serves, Answer, Admitted, HasPassword
<1>9. ASSUME NEW b \in Browsers, ServeCreate(b) PROVE FormInv'
  BY <1>9 DEF ServeCreate, Serves, Answer, Admitted, HasPassword
<1>10. ASSUME NEW b \in Browsers, ServeAdd(b) PROVE FormInv'
  <2>1. /\ UNCHANGED <<server, password, accepted, overlapped, stray>>
        /\ \A c \in Browsers \ {b} :
              wire'[c] = wire[c] /\ page'[c] = page[c] /\ typed'[c] = typed[c]
        /\ wire'[b] # "checked"
        /\ page'[b] \in Forms /\ wire'[b] # "none" => typed'[b] # None
    BY <1>10 DEF ServeAdd, Serves, Answer
  <2> QED BY <2>1, FormWaits
<1>11. ASSUME NEW b \in Browsers, CheckAnswered(b) PROVE FormInv'
  <2>1. /\ UNCHANGED <<server, password, accepted, overlapped, stray>>
        /\ \A c \in Browsers \ {b} :
              wire'[c] = wire[c] /\ page'[c] = page[c] /\ typed'[c] = typed[c]
        /\ wire'[b] # "checked"
        /\ page'[b] \in Forms /\ wire'[b] # "none" => typed'[b] # None
    BY <1>11 DEF CheckAnswered, Receives, Turn, Take
  <2> QED BY <2>1, FormWaits
<1>12. ASSUME NEW b \in Browsers, ProbeAnswered(b) PROVE FormInv'
  <2>1. /\ UNCHANGED <<server, password, accepted, overlapped, stray>>
        /\ \A c \in Browsers \ {b} :
              wire'[c] = wire[c] /\ page'[c] = page[c] /\ typed'[c] = typed[c]
        /\ wire'[b] # "checked"
        /\ page'[b] \in Forms /\ wire'[b] # "none" => typed'[b] # None
    BY <1>12 DEF ProbeAnswered, Receives, Turn, Take, StartInit
  <2> QED BY <2>1, FormWaits
<1>13. ASSUME NEW b \in Browsers, SubmitAnswered(b) PROVE FormInv'
  <2>1. /\ UNCHANGED <<server, password, accepted, overlapped, stray>>
        /\ \A c \in Browsers \ {b} :
              wire'[c] = wire[c] /\ page'[c] = page[c] /\ typed'[c] = typed[c]
        /\ wire'[b] # "checked"
        /\ page'[b] \in Forms /\ wire'[b] # "none" => typed'[b] # None
    BY <1>13 DEF SubmitAnswered, Receives, Turn, Take, StartInit
  <2> QED BY <2>1, FormWaits
<1>14. ASSUME NEW b \in Browsers, Listed(b) PROVE FormInv'
  <2>1. /\ UNCHANGED <<server, password, accepted, overlapped, stray>>
        /\ \A c \in Browsers \ {b} :
              wire'[c] = wire[c] /\ page'[c] = page[c] /\ typed'[c] = typed[c]
        /\ wire'[b] # "checked"
        /\ page'[b] \in Forms /\ wire'[b] # "none" => typed'[b] # None
    BY <1>14 DEF Listed, Receives, Turn, Take, Fail
  <2> QED BY <2>1, FormWaits
<1>15. ASSUME NEW b \in Browsers, Created(b) PROVE FormInv'
  <2>1. /\ UNCHANGED <<server, password, accepted, overlapped, stray>>
        /\ \A c \in Browsers \ {b} :
              wire'[c] = wire[c] /\ page'[c] = page[c] /\ typed'[c] = typed[c]
        /\ wire'[b] # "checked"
        /\ page'[b] \in Forms /\ wire'[b] # "none" => typed'[b] # None
    BY <1>15 DEF Created, Receives, Turn, Take, Fail
  <2> QED BY <2>1, FormWaits
<1>16. ASSUME NEW b \in Browsers, Fetched(b) PROVE FormInv'
  <2>1. /\ UNCHANGED <<server, password, accepted, overlapped, stray>>
        /\ \A c \in Browsers \ {b} :
              wire'[c] = wire[c] /\ page'[c] = page[c] /\ typed'[c] = typed[c]
        /\ wire'[b] # "checked"
        /\ page'[b] \in Forms /\ wire'[b] # "none" => typed'[b] # None
    BY <1>16 DEF Fetched, Receives, Turn, Take, Set, Show, Fail
  <2> QED BY <2>1, FormWaits
<1>17. ASSUME NEW b \in Browsers, Added(b) PROVE FormInv'
  <2>1. /\ UNCHANGED <<server, password, accepted, overlapped, stray>>
        /\ \A c \in Browsers \ {b} :
              wire'[c] = wire[c] /\ page'[c] = page[c] /\ typed'[c] = typed[c]
        /\ wire'[b] # "checked"
        /\ page'[b] \in Forms /\ wire'[b] # "none" => typed'[b] # None
    BY <1>17 DEF Added, Receives, Turn, Take, Set, Show, Fail
  <2> QED BY <2>1, FormWaits
<1>18. ASSUME NEW b \in Browsers, Lose(b) PROVE FormInv'
  <2>1. /\ UNCHANGED <<server, password, accepted, overlapped>> /\ Abandon(b)
        /\ \A c \in Browsers \ {b} :
              wire'[c] = wire[c] /\ page'[c] = page[c] /\ typed'[c] = typed[c]
        /\ wire'[b] # "checked"
        /\ page'[b] \in Forms /\ wire'[b] # "none" => typed'[b] # None
    BY <1>18 DEF Lose, Fault, Reject
  <2> QED BY <2>1, FormWaits
<1>19. ASSUME NEW b \in Browsers, Refuse(b) PROVE FormInv'
  BY <1>19 DEF Refuse, Reject, Fail
<1>20. ASSUME NEW b \in Browsers, Expire(b) PROVE FormInv'
  BY <1>20 DEF Expire, Fault
<1>21. ASSUME BeginShutdown PROVE FormInv'
  BY <1>21 DEF BeginShutdown, Fault
<1>22. ASSUME Stop PROVE FormInv'
  <2>1. /\ \A b \in Browsers : stray'[b] = NoStray
        /\ UNCHANGED <<password, page, typed, wire, accepted, overlapped>> /\ server' = "down"
    BY <1>22 DEF Stop
  <2> QED BY <2>1 DEF NoStray
<1>23. ASSUME Restart PROVE FormInv'
  BY <1>23 DEF Restart
<1>24. ASSUME NEW b \in Browsers, ServeStray(b) PROVE FormInv'
  <2>1. CASE StrayCheck(b)
    <3>1. server = "up" /\ stray[b].of = "needs-setup"
          /\ UNCHANGED <<server, wire, page, typed, accepted, password>>
      BY <2>1 DEF StrayCheck, Strays
    <3>2. CASE HasPassword
      <4>1. Done(b) /\ UNCHANGED overlapped
        BY <2>1, <3>2 DEF StrayCheck
      <4> QED BY <3>1, <4>1 DEF Done, NoStray
    <3>3. CASE ~HasPassword
      <4>1. Overlap(b) /\ password = None /\ stray' = [stray EXCEPT ![b].at = "checked"]
        BY <2>1, <3>1, <3>3 DEF StrayCheck, HasPassword
      <4>2. /\ \A c \in Browsers \ {b} : stray'[c] = stray[c]
            /\ stray'[b].of = stray[b].of /\ stray'[b].password = stray[b].password
        BY <4>1
      <4>3. overlapped \subseteq overlapped' /\ \A c \in Browsers : Hashes(c)' => c = b \/ Hashes(c)
        BY <3>1, <4>1, <4>2 DEF Overlap
      <4>4. \A c, d \in Browsers : c # d /\ Hashes(c)' /\ Hashes(d)' => c \in overlapped'
        BY <4>1, <4>3, OverlapsAll
      <4> QED BY <3>1, <4>1, <4>2, <4>3, <4>4
    <3> QED BY <3>2, <3>3
  <2>2. CASE StrayStore(b)
    <3>1. /\ server = "up" /\ stray[b].of = "needs-setup" /\ stray[b].at = "checked"
          /\ Done(b) /\ Save(b, stray[b].password)
          /\ UNCHANGED <<server, wire, page, typed, overlapped>>
      BY <2>2 DEF StrayStore, Strays
    <3>2. \A c \in Browsers \ {b} : accepted'[c] = accepted[c]
          /\ (accepted[c] # None => c \in overlapped) /\ (Hashes(c) => b \in overlapped)
      BY <3>1 DEF Save
    <3>3. SetupIsKept'
      BY <3>1, <3>2 DEF Save
    <3> QED BY <3>1, <3>2, <3>3 DEF Done, Save, NoStray
  <2>3. CASE StrayCreate(b) \/ StrayAdd(b)
    <3>1. /\ Done(b) /\ server = "up"
          /\ UNCHANGED <<server, password, wire, page, typed, accepted, overlapped>>
      BY <2>3 DEF StrayCreate, StrayAdd, Strays
    <3>2. \A c \in Browsers :
             \/ stray'[c] = stray[c]
             \/ stray'[c].of = "none" /\ stray'[c].at = "asked"
      BY <3>1 DEF Done, NoStray
    <3>3. \A c \in Browsers : Hashes(c)' => Hashes(c)
      BY <3>1, <3>2
    <3>4. \A c, d \in Browsers : c # d /\ Hashes(c)' /\ Hashes(d)' => c \in overlapped'
      BY <3>1, <3>3
    <3>5. \A c, d \in Browsers :
             c # d /\ Hashes(c)' /\ server' = "up" /\ accepted'[d] # None => d \in overlapped'
      BY <3>1, <3>3
    <3>6. /\ \A c \in Browsers : stray'[c].at = "checked" => stray'[c].of = "needs-setup"
          /\ \A c \in Browsers : stray'[c].of = "needs-setup" => stray'[c].password # None
          /\ server' # "down"
      BY <3>1, <3>2
    <3>7. /\ \A c \in Browsers : wire'[c] = "checked" => page'[c] = "needs-setup"
          /\ \A c \in Browsers : page'[c] \in Forms /\ wire'[c] # "none" => typed'[c] # None
          /\ \A c \in Browsers : accepted'[c] # None => password' # None
          /\ SetupIsKept'
      BY <3>1
    <3> QED BY <3>4, <3>5, <3>6, <3>7
  <2> QED BY <1>24, <2>1, <2>2, <2>3 DEF ServeStray
<1> QED
  BY <1>1, <1>2, <1>3, <1>4, <1>5, <1>6, <1>7, <1>8, <1>9, <1>10, <1>11, <1>12,
     <1>13, <1>14, <1>15, <1>16, <1>17, <1>18, <1>19, <1>20, <1>21, <1>22, <1>23, <1>24
  DEF Next, Serve, Receive

(* A listing can only know of what is made. *)
LEMMA LooksBack ==
    ASSUME TypeOK
    PROVE  /\ made \in Nat
           /\ \A b \in Browsers : /\ looked[b] \in Int /\ looked[b] <= made
                                 /\ stray[b].looked \in Int /\ stray[b].looked <= made
<1>1. made \in Nat
  BY PageStartAssumption DEF TypeOK
<1>2. ASSUME NEW b \in Browsers PROVE looked[b] \in 0 .. made /\ stray[b].looked \in 0 .. made
  BY DEF TypeOK
<1> QED BY <1>1, <1>2

(* Nobody finds that there is none, and at most a workspace is added. *)
LEMMA NoneStays ==
    ASSUME TypeOK, EmptyInv,
           UNCHANGED <<workspaces, made>> \/ made' = made + 1,
           \A c \in Browsers : FoundNone(c)' => FoundNone(c) /\ looked'[c] = looked[c],
           \A c \in Browsers : stray'[c].of = "creating" =>
              \/ stray'[c] = stray[c]
              \/ FoundNone(c) /\ stray'[c].looked = looked[c]
    PROVE  EmptyInv'
BY LooksBack DEF EmptyInv

LEMMA AbandonsNone ==
    ASSUME Shape, NEW b \in Browsers, Abandon(b), wire[b] # "checked" \/ page[b] # "creating"
    PROVE  \A c \in Browsers : stray'[c].of = "creating" =>
              \/ stray'[c] = stray[c]
              \/ FoundNone(c) /\ stray'[c].looked = looked[c]
<1>1. \/ UNCHANGED stray
      \/ /\ wire[b] \in {"asked", "checked"}
         /\ \A c \in Browsers \ {b} : stray'[c] = stray[c]
         /\ stray'[b].of = page[b] /\ stray'[b].looked = looked[b]
  BY DEF Abandon, Shape
<1> QED BY <1>1 DEF FoundNone

LEMMA EmptyStep ==
    ASSUME TypeOK, Shape, FormInv, EmptyInv, Next
    PROVE  EmptyInv'
<1> USE LooksBack DEF Shape, EmptyInv, FoundNone, NoStray, InInit, Forms, NoReply, rowVars, formVars, wireVars, initVars, goneVars, historyVars
<1>1. ASSUME NEW b \in Browsers, Load(b) PROVE EmptyInv'
  <2>1. /\ UNCHANGED <<workspaces, made>> /\ Abandon(b)
        /\ \A c \in Browsers \ {b} :
              /\ page'[c] = page[c] /\ wire'[c] = wire[c] /\ reply'[c] = reply[c]
              /\ looked'[c] = looked[c]
        /\ ~FoundNone(b)'
    BY <1>1 DEF Load, Act, Turn
  <2>2. \A c \in Browsers : stray'[c].of = "creating" =>
            \/ stray'[c] = stray[c]
            \/ FoundNone(c) /\ stray'[c].looked = looked[c]
    BY <2>1, AbandonsNone DEF FormInv
  <2> QED BY <2>1, <2>2, NoneStays
<1>2. ASSUME NEW b \in Browsers, Submit(b) PROVE EmptyInv'
  BY <1>2 DEF Submit, Act, Ask
<1>3. ASSUME NEW b \in Browsers, Use(b) PROVE EmptyInv'
  <2>1. UNCHANGED <<page, wire, reply, looked, stray>>
    BY <1>3 DEF Use, Uses, AddWorkspace, AddTab, CloseTab, DeleteWorkspace
  <2>2. CASE AddWorkspace(b)
    BY <2>1, <2>2, NoneStays DEF AddWorkspace, InsertWorkspace
  <2>3. CASE AddTab(b) \/ CloseTab(b)
    BY <2>1, <2>3, NoneStays DEF AddTab, CloseTab
  <2>4. CASE DeleteWorkspace(b)
    <3>1. workspaces # <<>> /\ UNCHANGED made
      BY <2>4 DEF DeleteWorkspace
    <3> QED BY <2>1, <3>1
  <2> QED BY <1>3, <2>2, <2>3, <2>4 DEF Use
<1>4. ASSUME NEW b \in Browsers, ServeCheck(b) PROVE EmptyInv'
  BY <1>4 DEF ServeCheck, Serves, Answer, Admitted, HasPassword
<1>5. ASSUME NEW b \in Browsers, SetupCheck(b) PROVE EmptyInv'
  BY <1>5 DEF SetupCheck, Serves, Answer, HasPassword
<1>6. ASSUME NEW b \in Browsers, SetupStore(b) PROVE EmptyInv'
  BY <1>6 DEF SetupStore, Save, Serves, Answer
<1>7. ASSUME NEW b \in Browsers, ServeLogin(b) PROVE EmptyInv'
  BY <1>7 DEF ServeLogin, Serves, Answer, HasPassword
<1>8. ASSUME NEW b \in Browsers, ServeList(b) PROVE EmptyInv'
  BY <1>8 DEF ServeList, Serves, Answer, Admitted, HasPassword
<1>9. ASSUME NEW b \in Browsers, ServeCreate(b) PROVE EmptyInv'
  <2>1. /\ UNCHANGED <<workspaces, made>> \/ made' = made + 1
        /\ UNCHANGED <<page, looked, stray>>
        /\ \A c \in Browsers \ {b} : wire'[c] = wire[c] /\ reply'[c] = reply[c]
        /\ page[b] = "creating" /\ wire'[b] = "answered"
    BY <1>9 DEF ServeCreate, Serves, Answer, InsertWorkspace
  <2>2. ~FoundNone(b)'
    BY <2>1
  <2> QED BY <2>1, <2>2, NoneStays
<1>10. ASSUME NEW b \in Browsers, ServeAdd(b) PROVE EmptyInv'
  BY <1>10 DEF ServeAdd, Serves, Answer, Admitted, HasPassword
<1>11. ASSUME NEW b \in Browsers, CheckAnswered(b) PROVE EmptyInv'
  <2>1. /\ UNCHANGED <<workspaces, made, looked, stray>>
        /\ \A c \in Browsers \ {b} :
              page'[c] = page[c] /\ wire'[c] = wire[c] /\ reply'[c] = reply[c]
        /\ FoundNone(b)' => FoundNone(b)
    BY <1>11 DEF CheckAnswered, Receives, Turn, Take
  <2> QED BY <2>1, NoneStays
<1>12. ASSUME NEW b \in Browsers, ProbeAnswered(b) PROVE EmptyInv'
  <2>1. /\ UNCHANGED <<workspaces, made, looked, stray>>
        /\ \A c \in Browsers \ {b} :
              page'[c] = page[c] /\ wire'[c] = wire[c] /\ reply'[c] = reply[c]
        /\ FoundNone(b)' => FoundNone(b)
    BY <1>12 DEF ProbeAnswered, Receives, Turn, Take, StartInit
  <2> QED BY <2>1, NoneStays
<1>13. ASSUME NEW b \in Browsers, SubmitAnswered(b) PROVE EmptyInv'
  <2>1. /\ UNCHANGED <<workspaces, made, looked, stray>>
        /\ \A c \in Browsers \ {b} :
              page'[c] = page[c] /\ wire'[c] = wire[c] /\ reply'[c] = reply[c]
        /\ FoundNone(b)' => FoundNone(b)
    BY <1>13 DEF SubmitAnswered, Receives, Turn, Take, StartInit
  <2> QED BY <2>1, NoneStays
<1>14. ASSUME NEW b \in Browsers, Listed(b) PROVE EmptyInv'
  <2>1. /\ UNCHANGED <<workspaces, made, looked, stray>>
        /\ \A c \in Browsers \ {b} :
              page'[c] = page[c] /\ wire'[c] = wire[c] /\ reply'[c] = reply[c]
        /\ FoundNone(b)' => FoundNone(b)
    BY <1>14 DEF Listed, Receives, Turn, Take, Fail
  <2> QED BY <2>1, NoneStays
<1>15. ASSUME NEW b \in Browsers, Created(b) PROVE EmptyInv'
  <2>1. /\ UNCHANGED <<workspaces, made, looked, stray>>
        /\ \A c \in Browsers \ {b} :
              page'[c] = page[c] /\ wire'[c] = wire[c] /\ reply'[c] = reply[c]
        /\ FoundNone(b)' => FoundNone(b)
    BY <1>15 DEF Created, Receives, Turn, Take, Fail
  <2> QED BY <2>1, NoneStays
<1>16. ASSUME NEW b \in Browsers, Fetched(b) PROVE EmptyInv'
  <2>1. /\ UNCHANGED <<workspaces, made, looked, stray>>
        /\ \A c \in Browsers \ {b} :
              page'[c] = page[c] /\ wire'[c] = wire[c] /\ reply'[c] = reply[c]
        /\ FoundNone(b)' => FoundNone(b)
    BY <1>16 DEF Fetched, Receives, Turn, Take, Set, Show, Fail
  <2> QED BY <2>1, NoneStays
<1>17. ASSUME NEW b \in Browsers, Added(b) PROVE EmptyInv'
  <2>1. /\ UNCHANGED <<workspaces, made, looked, stray>>
        /\ \A c \in Browsers \ {b} :
              page'[c] = page[c] /\ wire'[c] = wire[c] /\ reply'[c] = reply[c]
        /\ FoundNone(b)' => FoundNone(b)
    BY <1>17 DEF Added, Receives, Turn, Take, Set, Show, Fail
  <2> QED BY <2>1, NoneStays
<1>18. ASSUME NEW b \in Browsers, Lose(b) PROVE EmptyInv'
  <2>1. /\ UNCHANGED <<workspaces, made>> /\ Abandon(b)
        /\ \A c \in Browsers \ {b} :
              /\ page'[c] = page[c] /\ wire'[c] = wire[c] /\ reply'[c] = reply[c]
              /\ looked'[c] = looked[c]
        /\ ~FoundNone(b)'
    BY <1>18 DEF Lose, Fault, Reject
  <2>2. \A c \in Browsers : stray'[c].of = "creating" =>
            \/ stray'[c] = stray[c]
            \/ FoundNone(c) /\ stray'[c].looked = looked[c]
    BY <2>1, AbandonsNone DEF FormInv
  <2> QED BY <2>1, <2>2, NoneStays
<1>19. ASSUME NEW b \in Browsers, Refuse(b) PROVE EmptyInv'
  BY <1>19 DEF Refuse, Reject, Fail
<1>20. ASSUME NEW b \in Browsers, Expire(b) PROVE EmptyInv'
  BY <1>20 DEF Expire, Fault
<1>21. ASSUME BeginShutdown PROVE EmptyInv'
  BY <1>21 DEF BeginShutdown, Fault
<1>22. ASSUME Stop PROVE EmptyInv'
  BY <1>22 DEF Stop
<1>23. ASSUME Restart PROVE EmptyInv'
  BY <1>23 DEF Restart
<1>24. ASSUME NEW b \in Browsers, ServeStray(b) PROVE EmptyInv'
  <2>1. /\ UNCHANGED <<workspaces, made>> \/ made' = made + 1
        /\ UNCHANGED <<page, wire, reply, looked>>
    BY <1>24 DEF ServeStray, StrayCheck, StrayStore, StrayCreate, StrayAdd, InsertWorkspace
  <2>2. \A c \in Browsers : stray'[c].of = "creating" => stray'[c] = stray[c]
    BY <1>24 DEF ServeStray, StrayCheck, StrayStore, StrayCreate, StrayAdd, Strays, Done
  <2> QED BY <2>1, <2>2, NoneStays
<1> QED
  BY <1>1, <1>2, <1>3, <1>4, <1>5, <1>6, <1>7, <1>8, <1>9, <1>10, <1>11, <1>12,
     <1>13, <1>14, <1>15, <1>16, <1>17, <1>18, <1>19, <1>20, <1>21, <1>22, <1>23, <1>24
  DEF Next, Serve, Receive

LEMMA TabStep ==
    ASSUME TypeOK, Shape, TabInv, Next
    PROVE  TabInv'
<1> USE DEF Shape, TabInv, Tabs, InInit, Forms, NoReply, rowVars, formVars, wireVars, initVars, goneVars, historyVars
<1>1. ASSUME NEW b \in Browsers, Load(b) PROVE TabInv'
  BY <1>1 DEF Load, Act, Turn, Abandon, KeepCookie
<1>2. ASSUME NEW b \in Browsers, Submit(b) PROVE TabInv'
  BY <1>2 DEF Submit, Act, Ask
<1>3. ASSUME NEW b \in Browsers, Use(b) PROVE TabInv'
  BY <1>3 DEF Use, Uses, AddWorkspace, AddTab, CloseTab, DeleteWorkspace, Act
<1>4. ASSUME NEW b \in Browsers, ServeCheck(b) PROVE TabInv'
  BY <1>4 DEF ServeCheck, Serves, Answer, Admitted, HasPassword
<1>5. ASSUME NEW b \in Browsers, SetupCheck(b) PROVE TabInv'
  BY <1>5 DEF SetupCheck, Serves, Answer, HasPassword
<1>6. ASSUME NEW b \in Browsers, SetupStore(b) PROVE TabInv'
  BY <1>6 DEF SetupStore, Save, Serves, Answer
<1>7. ASSUME NEW b \in Browsers, ServeLogin(b) PROVE TabInv'
  BY <1>7 DEF ServeLogin, Serves, Answer, HasPassword
<1>8. ASSUME NEW b \in Browsers, ServeList(b) PROVE TabInv'
  BY <1>8 DEF ServeList, Serves, Answer, Admitted, HasPassword
<1>9. ASSUME NEW b \in Browsers, ServeCreate(b) PROVE TabInv'
  <2>1. /\ page[b] = "creating" /\ wire'[b] = "answered"
        /\ reply'[b].ok => reply'[b].list = <<made + 1>>
        /\ \A c \in Browsers \ {b} : wire'[c] = wire[c] /\ reply'[c] = reply[c]
        /\ UNCHANGED <<page, first, active, tabs, closed, deleted, failed>>
    BY <1>9 DEF ServeCreate, Serves, Answer
  <2>2. <<made + 1>> # <<>>
    OBVIOUS
  <2> QED BY <2>1, <2>2
<1>10. ASSUME NEW b \in Browsers, ServeAdd(b) PROVE TabInv'
  BY <1>10 DEF ServeAdd, Serves, Answer, Admitted, HasPassword
<1>11. ASSUME NEW b \in Browsers, CheckAnswered(b) PROVE TabInv'
  <2>1. /\ page'[b] \notin {"creating", "fetching", "adding", "ready"}
        /\ \A c \in Browsers \ {b} :
              page'[c] = page[c] /\ wire'[c] = wire[c] /\ reply'[c] = reply[c]
        /\ UNCHANGED <<first, active, tabs, closed, deleted, failed>>
    BY <1>11 DEF CheckAnswered, Receives, Turn, Take
  <2> QED BY <2>1
<1>12. ASSUME NEW b \in Browsers, ProbeAnswered(b) PROVE TabInv'
  <2>1. /\ page'[b] \notin {"creating", "fetching", "adding", "ready"}
        /\ \A c \in Browsers \ {b} :
              page'[c] = page[c] /\ wire'[c] = wire[c] /\ reply'[c] = reply[c]
        /\ UNCHANGED <<first, active, tabs, closed, deleted, failed>>
    BY <1>12 DEF ProbeAnswered, Receives, Turn, Take, StartInit
  <2> QED BY <2>1
<1>13. ASSUME NEW b \in Browsers, SubmitAnswered(b) PROVE TabInv'
  <2>1. /\ page'[b] \notin {"creating", "fetching", "adding", "ready"}
        /\ \A c \in Browsers \ {b} :
              page'[c] = page[c] /\ wire'[c] = wire[c] /\ reply'[c] = reply[c]
        /\ UNCHANGED <<first, active, tabs, closed, deleted, failed>>
    BY <1>13 DEF SubmitAnswered, Receives, Turn, Take, StartInit
  <2> QED BY <2>1
<1>14. ASSUME NEW b \in Browsers, Listed(b) PROVE TabInv'
  <2>1. reply[b].list # <<>> => Head(reply[b].list) \in Nat \ {0}
    BY Heads, Types
  <2> QED BY <1>14, <2>1 DEF Listed, Receives, Turn, Take, Fail
<1>15. ASSUME NEW b \in Browsers, Created(b) PROVE TabInv'
  <2>1. reply[b].list # <<>> => Head(reply[b].list) \in Nat \ {0}
    BY Heads, Types
  <2> QED BY <1>15, <2>1 DEF Created, Receives, Turn, Take, Fail
<1>16. ASSUME NEW b \in Browsers, Fetched(b) PROVE TabInv'
  BY <1>16 DEF Fetched, Receives, Turn, Take, Set, Show, Fail
<1>17. ASSUME NEW b \in Browsers, Added(b) PROVE TabInv'
  BY <1>17 DEF Added, Receives, Turn, Take, Set, Show, Fail
<1>18. ASSUME NEW b \in Browsers, Lose(b) PROVE TabInv'
  BY <1>18 DEF Lose, Fault, Abandon, KeepCookie, Reject, Fail
<1>19. ASSUME NEW b \in Browsers, Refuse(b) PROVE TabInv'
  BY <1>19 DEF Refuse, Reject, Fail
<1>20. ASSUME NEW b \in Browsers, Expire(b) PROVE TabInv'
  BY <1>20 DEF Expire, Fault
<1>21. ASSUME BeginShutdown PROVE TabInv'
  BY <1>21 DEF BeginShutdown, Fault
<1>22. ASSUME Stop PROVE TabInv'
  BY <1>22 DEF Stop
<1>23. ASSUME Restart PROVE TabInv'
  BY <1>23 DEF Restart
<1>24. ASSUME NEW b \in Browsers, ServeStray(b) PROVE TabInv'
  BY <1>24 DEF ServeStray, StrayCheck, StrayStore, StrayCreate, StrayAdd, Strays, Done, Save
<1> QED
  BY <1>1, <1>2, <1>3, <1>4, <1>5, <1>6, <1>7, <1>8, <1>9, <1>10, <1>11, <1>12,
     <1>13, <1>14, <1>15, <1>16, <1>17, <1>18, <1>19, <1>20, <1>21, <1>22, <1>23, <1>24
  DEF Next, Serve, Receive

LEMMA FoundStays ==
    ASSUME TypeOK, Next, deleted' = {}
    PROVE  /\ \A w : Found(w) => Found(w)'
           /\ \A list : AllFound(list) => AllFound(list)'
<1>1. workspaces' = workspaces \/ workspaces' = Append(workspaces, made + 1)
  BY DEF Next, Load, Submit, Use, Uses, AddWorkspace, AddTab, CloseTab, DeleteWorkspace, Serve,
         ServeCheck, SetupCheck, SetupStore, ServeLogin, ServeList, ServeCreate, ServeAdd,
         InsertWorkspace, ServeStray, StrayCheck, StrayStore, StrayCreate, StrayAdd, Receive,
         CheckAnswered, ProbeAnswered, SubmitAnswered, Listed, Created, Fetched, Added, Lose,
         Refuse, Reject, Expire, BeginShutdown, Stop, Restart, rowVars
<1>2. workspaces \in Seq(1 .. made)
  BY DEF TypeOK
<1>3. \A w : Found(w) => Found(w)'
  BY <1>1, <1>2 DEF Found
<1> QED BY <1>3 DEF AllFound

LEMMA CalmStep ==
    ASSUME TypeOK, Shape, FormInv, TabInv, CalmInv, Next
    PROVE  CalmInv'
<1> USE FoundStays DEF Shape, CalmInv, CalmPage, InInit, Forms, NoReply, rowVars, formVars, wireVars, initVars, goneVars, historyVars
<1>1. ASSUME NEW b \in Browsers, Load(b) PROVE CalmInv'
  BY <1>1 DEF Load, Act, Turn, Abandon, KeepCookie
<1>2. ASSUME NEW b \in Browsers, Submit(b) PROVE CalmInv'
  BY <1>2 DEF Submit, Act, Ask
<1>3. ASSUME NEW b \in Browsers, Use(b) PROVE CalmInv'
  BY <1>3 DEF Use, Uses, AddWorkspace, AddTab, CloseTab, DeleteWorkspace, Act
<1>4. ASSUME NEW b \in Browsers, ServeCheck(b) PROVE CalmInv'
  <2> SUFFICES ASSUME (faults = 0 /\ deleted = {})', NEW c \in Browsers PROVE CalmPage(c)'
    BY <1>4 DEF ServeCheck
  <2>1. CASE c = b /\ page[b] = "check"
    BY <1>4, <2>1 DEF ServeCheck, Serves, Answer, HasPassword
  <2>2. CASE c = b /\ page[b] = "probe"
    BY <1>4, <2>2 DEF ServeCheck, Serves, Answer, Admitted, HasPassword
  <2>3. CASE c # b
    BY <1>4, <2>3 DEF ServeCheck, Answer
  <2> QED BY <1>4, <2>1, <2>2, <2>3 DEF ServeCheck, Serves
<1>5. ASSUME NEW b \in Browsers, SetupCheck(b) PROVE CalmInv'
  BY <1>5 DEF SetupCheck, Serves, Answer, HasPassword
<1>6. ASSUME NEW b \in Browsers, SetupStore(b) PROVE CalmInv'
  <2> SUFFICES ASSUME (faults = 0 /\ deleted = {})', NEW c \in Browsers PROVE CalmPage(c)'
    BY <1>6 DEF SetupStore
  <2>1. CASE c = b
    BY <1>6, <2>1 DEF SetupStore, Save, Serves, Answer
  <2>2. CASE c # b
    <3>1. /\ wire'[c] = wire[c] /\ reply'[c] = reply[c] /\ token \subseteq token'
          /\ password' # None
          /\ UNCHANGED <<page, cookie, first, failed, faults, deleted>>
      BY <1>6, <2>2 DEF SetupStore, Save, Serves, Answer, FormInv
    <3> QED BY <2>2, <3>1
  <2> QED BY <2>1, <2>2
<1>7. ASSUME NEW b \in Browsers, ServeLogin(b) PROVE CalmInv'
  <2> SUFFICES ASSUME (faults = 0 /\ deleted = {})', NEW c \in Browsers PROVE CalmPage(c)'
    BY <1>7 DEF ServeLogin
  <2>1. CASE c = b
    BY <1>7, <2>1 DEF ServeLogin, Serves, Answer, HasPassword
  <2>2. CASE c # b
    <3>1. /\ wire'[c] = wire[c] /\ reply'[c] = reply[c] /\ token \subseteq token'
          /\ UNCHANGED <<password, page, cookie, first, failed, faults, deleted>>
      BY <1>7, <2>2 DEF ServeLogin, Answer
    <3> QED BY <2>2, <3>1
  <2> QED BY <2>1, <2>2
<1>8. ASSUME NEW b \in Browsers, ServeList(b) PROVE CalmInv'
  <2> SUFFICES ASSUME (faults = 0 /\ deleted = {})', NEW c \in Browsers PROVE CalmPage(c)'
    BY <1>8 DEF ServeList
  <2>1. Admitted(b) /\ server = "up"
    BY <1>8 DEF ServeList, Serves, Admitted
  <2>2. CASE c = b
    <3>1. AllFound(workspaces)
      BY DEF AllFound, Found
    <3>2. /\ page[b] \in {"listing", "fetching"} /\ reply'[b].ok
          /\ page[b] = "listing" => reply'[b].list = workspaces
      BY <1>8, <2>1 DEF ServeList, Serves, Answer
    <3> QED BY <1>8, <2>2, <3>1, <3>2 DEF ServeList
  <2>3. CASE c # b
    BY <1>8, <2>3 DEF ServeList, Answer
  <2> QED BY <2>2, <2>3
<1>9. ASSUME NEW b \in Browsers, ServeCreate(b) PROVE CalmInv'
  <2> SUFFICES ASSUME (faults = 0 /\ deleted = {})', NEW c \in Browsers PROVE CalmPage(c)'
    BY <1>9 DEF ServeCreate
  <2>1. Admitted(b) /\ server = "up" /\ page[b] = "creating"
    BY <1>9 DEF ServeCreate, Serves, Admitted
  <2>2. CASE c = b
    <3>1. workspaces' = Append(workspaces, made + 1) /\ workspaces \in Seq(1 .. made)
      BY <1>9, <2>1 DEF ServeCreate, InsertWorkspace, TypeOK
    <3>2. reply'[b].ok /\ reply'[b].list = <<made + 1>>
      BY <1>9, <2>1 DEF ServeCreate, Answer
    <3>3. /\ Len(workspaces) + 1 \in DOMAIN workspaces'
          /\ workspaces'[Len(workspaces) + 1] = made + 1
      BY <3>1
    <3>4. \A i \in DOMAIN <<made + 1>> : <<made + 1>>[i] = made + 1
      OBVIOUS
    <3>5. AllFound(reply[b].list)'
      BY <3>2, <3>3, <3>4 DEF AllFound, Found
    <3> QED BY <1>9, <2>1, <2>2, <3>2, <3>5 DEF ServeCreate
  <2>3. CASE c # b
    BY <1>9, <2>1, <2>3 DEF ServeCreate, Answer
  <2> QED BY <2>2, <2>3
<1>10. ASSUME NEW b \in Browsers, ServeAdd(b) PROVE CalmInv'
  <2> SUFFICES ASSUME (faults = 0 /\ deleted = {})', NEW c \in Browsers PROVE CalmPage(c)'
    BY <1>10 DEF ServeAdd
  <2>1. CASE c = b
    BY <1>10, <2>1 DEF ServeAdd, Serves, Answer, Admitted
  <2>2. CASE c # b
    BY <1>10, <2>2 DEF ServeAdd, Answer
  <2> QED BY <2>1, <2>2
<1>11. ASSUME NEW b \in Browsers, CheckAnswered(b) PROVE CalmInv'
  <2> SUFFICES ASSUME (faults = 0 /\ deleted = {})', NEW c \in Browsers PROVE CalmPage(c)'
    BY <1>11 DEF CheckAnswered
  <2>1. /\ c \in token /\ c # b => c \in token'
        /\ cookie' = cookie \cup ({b} \cap token)
        /\ UNCHANGED <<server, password, workspaces, first, failed, faults, deleted>>
    BY <1>11 DEF CheckAnswered, Take
  <2>2. CASE c = b
    BY <1>11, <2>1, <2>2 DEF CheckAnswered, Receives, Turn, Take
  <2>3. CASE c # b
    <3>1. wire'[c] = wire[c] /\ reply'[c] = reply[c] /\ page'[c] = page[c]
      BY <1>11, <2>3 DEF CheckAnswered, Turn, Take
    <3> QED BY <2>1, <2>3, <3>1
  <2> QED BY <2>2, <2>3
<1>12. ASSUME NEW b \in Browsers, ProbeAnswered(b) PROVE CalmInv'
  <2> SUFFICES ASSUME (faults = 0 /\ deleted = {})', NEW c \in Browsers PROVE CalmPage(c)'
    BY <1>12 DEF ProbeAnswered
  <2>1. /\ c \in token /\ c # b => c \in token'
        /\ cookie' = cookie \cup ({b} \cap token)
        /\ UNCHANGED <<server, password, workspaces, first, failed, faults, deleted>>
    BY <1>12 DEF ProbeAnswered, Take, StartInit
  <2>2. CASE c = b
    BY <1>12, <2>1, <2>2 DEF ProbeAnswered, Receives, Turn, Take, StartInit
  <2>3. CASE c # b
    <3>1. wire'[c] = wire[c] /\ reply'[c] = reply[c] /\ page'[c] = page[c]
      BY <1>12, <2>3 DEF ProbeAnswered, Turn, Take, StartInit
    <3> QED BY <2>1, <2>3, <3>1
  <2> QED BY <2>2, <2>3
<1>13. ASSUME NEW b \in Browsers, SubmitAnswered(b) PROVE CalmInv'
  <2> SUFFICES ASSUME (faults = 0 /\ deleted = {})', NEW c \in Browsers PROVE CalmPage(c)'
    BY <1>13 DEF SubmitAnswered
  <2>1. /\ c \in token /\ c # b => c \in token'
        /\ cookie' = cookie \cup ({b} \cap token)
        /\ UNCHANGED <<server, password, workspaces, first, failed, faults, deleted>>
    BY <1>13 DEF SubmitAnswered, Take, StartInit
  <2>2. CASE c = b
    BY <1>13, <2>1, <2>2 DEF SubmitAnswered, Receives, Turn, Take, StartInit
  <2>3. CASE c # b
    <3>1. wire'[c] = wire[c] /\ reply'[c] = reply[c] /\ page'[c] = page[c]
      BY <1>13, <2>3 DEF SubmitAnswered, Turn, Take, StartInit
    <3> QED BY <2>1, <2>3, <3>1
  <2> QED BY <2>2, <2>3
<1>14. ASSUME NEW b \in Browsers, Listed(b) PROVE CalmInv'
  <2>1. reply[b].list # <<>> /\ AllFound(reply[b].list) => Found(Head(reply[b].list))
    BY Heads, Types
  <2> QED BY <1>14, <2>1 DEF Listed, Receives, Turn, Take, Fail
<1>15. ASSUME NEW b \in Browsers, Created(b) PROVE CalmInv'
  <2>1. reply[b].ok => reply[b].list # <<>>
    BY <1>15 DEF Created, Receives, TabInv
  <2>2. reply[b].list # <<>> /\ AllFound(reply[b].list) => Found(Head(reply[b].list))
    BY Heads, Types
  <2> QED BY <1>15, <2>1, <2>2 DEF Created, Receives, Turn, Take, Fail
<1>16. ASSUME NEW b \in Browsers, Fetched(b) PROVE CalmInv'
  BY <1>16 DEF Fetched, Receives, Turn, Take, Set, Show, Fail
<1>17. ASSUME NEW b \in Browsers, Added(b) PROVE CalmInv'
  <2> SUFFICES ASSUME (faults = 0 /\ deleted = {})', NEW c \in Browsers PROVE CalmPage(c)'
    BY <1>17 DEF Added
  <2>1. CASE c = b
    BY <1>17, <2>1 DEF Added, Receives, Turn, Take, Set, Show
  <2>2. CASE c # b
    <3>1. /\ wire'[c] = wire[c] /\ reply'[c] = reply[c] /\ page'[c] = page[c]
          /\ c \in token => c \in token'
          /\ cookie \subseteq cookie' /\ (c \in failed' => c \in failed)
          /\ UNCHANGED <<server, password, first, faults, deleted>>
      BY <1>17, <2>2 DEF Added, Turn, Take, Set, Show, Fail
    <3> QED BY <2>2, <3>1
  <2> QED BY <2>1, <2>2
<1>18. ASSUME NEW b \in Browsers, Lose(b) PROVE CalmInv'
  BY <1>18 DEF Lose, Fault, Abandon, KeepCookie, Reject, Fail
<1>19. ASSUME NEW b \in Browsers, Refuse(b) PROVE CalmInv'
  BY <1>19 DEF Refuse, Reject, Fail
<1>20. ASSUME NEW b \in Browsers, Expire(b) PROVE CalmInv'
  BY <1>20 DEF Expire, Fault
<1>21. ASSUME BeginShutdown PROVE CalmInv'
  BY <1>21 DEF BeginShutdown, Fault
<1>22. ASSUME Stop PROVE CalmInv'
  BY <1>22 DEF Stop
<1>23. ASSUME Restart PROVE CalmInv'
  BY <1>23 DEF Restart
<1>24. ASSUME NEW b \in Browsers, ServeStray(b) PROVE CalmInv'
  <2>1. UNCHANGED <<server, page, wire, reply, token, cookie, first, failed, faults, deleted>>
    BY <1>24 DEF ServeStray, StrayCheck, StrayStore, StrayCreate, StrayAdd
  <2>2. password # None => password' # None
    BY <1>24 DEF ServeStray, StrayCheck, StrayStore, StrayCreate, StrayAdd, Strays, Save, FormInv
  <2> QED BY <2>1, <2>2
<1> QED
  BY <1>1, <1>2, <1>3, <1>4, <1>5, <1>6, <1>7, <1>8, <1>9, <1>10, <1>11, <1>12,
     <1>13, <1>14, <1>15, <1>16, <1>17, <1>18, <1>19, <1>20, <1>21, <1>22, <1>23, <1>24
  DEF Next, Serve, Receive

-----------------------------------------------------------------------------
LEMMA InitInv == Init => IInv
<1> SUFFICES ASSUME Init PROVE IInv
  OBVIOUS
<1> USE PageStartAssumption DEF Init, NoReply
<1>1. TypeOK
  <2>1. RowTypes
    <3>1. [i \in 1 .. made |-> i] \in Seq(1 .. made)
      OBVIOUS
    <3> QED BY <3>1 DEF RowTypes
  <2>2. PageTypes
    <3>1. made \in Nat
      OBVIOUS
    <3>2. /\ first \in [Browsers -> 0 .. made] /\ active \in [Browsers -> 0 .. made]
          /\ page \in [Browsers -> InInit \cup Forms \cup {"closed", "check", "probe", "ready", "blank"}]
      BY <3>1
    <3> QED BY <3>2 DEF PageTypes
  <2>3. WireTypes
    BY DEF WireTypes, Replies
  <2>4. StrayTypes
    <3>1. NoStray \in StrayRows /\ 0 \in 0 .. made
      BY DEF NoStray, StrayRows
    <3> QED BY <3>1 DEF StrayTypes
  <2> QED BY <2>1, <2>2, <2>3, <2>4, Types
<1>2. FormInv /\ EmptyInv /\ TabInv
  BY DEF FormInv, SetupIsKept, Hashes, NoStray, EmptyInv, FoundNone, TabInv, InInit, Forms
<1>3. CalmInv
  BY DEF CalmInv, CalmPage, InInit, Forms
<1> QED BY <1>1, <1>2, <1>3 DEF IInv

LEMMA NextInv == IInv /\ [Next]_vars => IInv'
<1>1. ASSUME IInv, Next PROVE IInv'
  BY <1>1, Shapes, TypeStep, FormStep, EmptyStep, TabStep, CalmStep DEF IInv
<1>2. ASSUME IInv, UNCHANGED vars PROVE IInv'
  BY <1>2 DEF IInv, TypeOK, FormInv, SetupIsKept, Hashes, EmptyInv, FoundNone, TabInv, Tabs, CalmInv, CalmPage, AllFound,
              Found, vars, rowVars, formVars, wireVars, initVars, goneVars, historyVars
<1> QED BY <1>1, <1>2

LEMMA AlwaysInv == Spec => []IInv
BY InitInv, NextInv, PTL DEF Spec

(* The types of the variables *)
THEOREM PageStartTypes == Spec => []TypeOK
<1>1. IInv => TypeOK
  BY DEF IInv
<1> QED BY AlwaysInv, <1>1, PTL

(* Set-ups replace only set-ups that were under way with them, whatever    *)
(* the number of browsers and across restarts (AuthHandler.Setup).         *)
THEOREM KeepsTheSetup == Spec => []SetupIsKept
<1>1. IInv => SetupIsKept
  BY DEF IInv, FormInv
<1> QED BY AlwaysInv, <1>1, PTL

(* A start ends with a tab on display, one that is there unless tabs of    *)
(* its workspace were closed or it was deleted, whatever other pages make, *)
(* close and delete in the meantime and whatever requests a reload left    *)
(* behind; and without failures and deletes no request of a start fails    *)
(* (checkAuth, LoginForm, init).                                           *)
THEOREM StartsWithATab == Spec => []ReadyShowsATab
<1>1. IInv => ReadyShowsATab
  <2> SUFFICES ASSUME IInv, NEW b \in Browsers
               PROVE  /\ page[b] = "ready" /\ b \notin failed =>
                            active[b] # 0 /\ active[b] \in tabs \cup closed \cup deleted
                      /\ b \in failed => faults > 0 \/ deleted # {}
    BY DEF ReadyShowsATab
  <2>1. page[b] = "ready" /\ b \notin failed =>
            active[b] # 0 /\ active[b] \in tabs \cup closed \cup deleted
    BY DEF IInv, TabInv, Tabs
  <2>2. faults \in Nat
    BY Shapes DEF IInv, Shape
  <2>3. b \in failed => faults > 0 \/ deleted # {}
    BY <2>2 DEF IInv, CalmInv, CalmPage
  <2> QED BY <2>1, <2>3
<1> QED BY AlwaysInv, <1>1, PTL

(* A Default workspace is made for want of any, or by a request whose page *)
(* had found none before somebody made one, if the page still waits for it *)
(* or not (init).                                                          *)
THEOREM MakesOneDefault == Spec => DefaultOnlyWhenEmpty
<1> DEFINE Excused == \/ workspaces = <<>>
                      \/ \E b \in Browsers : \/ ServeCreate(b) /\ made > looked[b]
                                             \/ StrayCreate(b) /\ made > stray[b].looked
<1>1. IInv /\ [Next]_vars => [defaults' # defaults => Excused]_vars
  <2> SUFFICES ASSUME IInv, Next, defaults' # defaults PROVE Excused
    BY DEF vars, rowVars
  <2>1. \E b \in Browsers : ServeCreate(b) \/ StrayCreate(b)
    BY DEF Next, Load, Submit, Use, Uses, AddWorkspace, AddTab, CloseTab, DeleteWorkspace, Serve,
           ServeCheck, SetupCheck, SetupStore, ServeLogin, ServeList, ServeAdd, ServeStray,
           StrayCheck, StrayStore, StrayAdd, Receive, CheckAnswered, ProbeAnswered,
           SubmitAnswered, Listed, Created, Fetched, Added, Lose, Refuse, Reject, Expire,
           BeginShutdown, Stop, Restart, rowVars
  <2>2. ASSUME NEW b \in Browsers, ServeCreate(b) PROVE Excused
    <3>1. FoundNone(b)
      BY <2>2 DEF ServeCreate, Serves, FoundNone
    <3>2. workspaces = <<>> \/ made > looked[b]
      BY <3>1 DEF IInv, EmptyInv
    <3> QED BY <2>2, <3>2
  <2>3. ASSUME NEW b \in Browsers, StrayCreate(b) PROVE Excused
    <3>1. workspaces = <<>> \/ made > stray[b].looked
      BY <2>3 DEF StrayCreate, Strays, IInv, EmptyInv
    <3> QED BY <2>3, <3>1
  <2> QED BY <2>1, <2>2, <2>3
<1> QED BY AlwaysInv, <1>1, PTL DEF Spec, DefaultOnlyWhenEmpty
===============================================================================
