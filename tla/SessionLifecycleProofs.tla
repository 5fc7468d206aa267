----------------------- MODULE SessionLifecycleProofs ------------------------
(***************************************************************************)
(* Proofs about SessionLifecycle, for any number of workspaces, tabs,      *)
(* concurrent requests and restarts.                                       *)
(***************************************************************************)
EXTENDS SessionLifecycle, TLAPS, WellFoundedInduction

(* Which ids can have rows, and what a request in the middle of something  *)
(* holds.                                                                  *)
RowInv ==
    /\ rows \subseteq issued
    /\ issued \subseteq Ids
    /\ shown \subseteq issued
    /\ parent \in [Ids -> Workspaces \cup {Root}]
    /\ \A w \in Workspaces : parent[w] = Root
    /\ pc \in [Requests -> {"idle", "insert", "cascade", "lock", "kill"}]
    /\ target \in [Requests -> Ids \cup {None}]
    /\ todo \in [Requests -> SUBSET Tabs]
    /\ \A r \in Requests :
         /\ pc[r] = "insert" => target[r] \in issued
         /\ pc[r] = "cascade" => target[r] \in Workspaces

(* RowInv together with the property it is there for. *)
ParentInv == RowInv /\ RowsHaveParents

LEMMA InitParents == Init => ParentInv
BY LifecycleAssumption DEF Init, ParentInv, RowInv, RowsHaveParents, Ids

LEMMA StepParents == ParentInv /\ [Next]_vars => ParentInv'
<1> SUFFICES ASSUME ParentInv, [Next]_vars PROVE ParentInv'
  OBVIOUS
<1> USE LifecycleAssumption
        DEF ParentInv, RowInv, RowsHaveParents, Ids, dbVars, requestVars, createHistory
<1>1. ASSUME NEW r \in Requests, NEW x \in Ids, NEW p \in Workspaces \cup {Root},
             x \in Workspaces => p = Root, ReadMax(r, x, p)
      PROVE  ParentInv'
  BY <1>1 DEF ReadMax
<1>2. ASSUME NEW r \in Requests, CreateWorkspace(r) \/ CreateSession(r)
      PROVE  ParentInv'
  BY <1>1, <1>2 DEF CreateWorkspace, CreateSession
<1>3. ASSUME NEW r \in Requests, Insert(r) PROVE ParentInv'
  BY <1>3 DEF Insert, Respond
<1>4. ASSUME NEW r \in Requests, InsertFails(r) \/ DeleteFails(r) PROVE ParentInv'
  BY <1>4 DEF InsertFails, DeleteFails, Respond
<1>5. ASSUME NEW r \in Requests, NEW t \in Tabs, DeleteSession(r, t) PROVE ParentInv'
  BY <1>5 DEF DeleteSession
<1>6. ASSUME NEW r \in Requests, NEW w \in Workspaces, ListForDelete(r, w)
      PROVE  ParentInv'
  BY <1>6 DEF ListForDelete, Children
<1>7. ASSUME NEW r \in Requests, Cascade(r) PROVE ParentInv'
  <2>1. target[r] \in Workspaces /\ rows' = rows \ (Children(target[r]) \cup {target[r]})
    BY <1>7 DEF Cascade
  <2>2. RowsHaveParents'
    <3> SUFFICES ASSUME NEW x \in rows' PROVE parent[x] \in rows' \cup {Root}
      BY <1>7 DEF Cascade
    <3>1. x \in rows /\ parent[x] # target[r]
      BY <2>1 DEF Children
    <3>2. CASE parent[x] = Root
      BY <3>2
    <3>3. CASE parent[x] \in rows /\ parent[x] \in Workspaces
      (* a workspace is nobody's child *)
      <4>1. parent[x] \notin Children(target[r])
        BY <2>1, <3>3 DEF Children
      <4> QED
        BY <2>1, <3>1, <3>3, <4>1
    <3> QED
      BY <3>1, <3>2, <3>3
  <2>3. RowInv'
    BY <1>7 DEF Cascade, AfterList
  <2> QED
    BY <2>2, <2>3
<1>8. ASSUME NEW r \in Requests, KillLocked(r) PROVE ParentInv'
  BY <1>8 DEF KillLocked
<1>9. ASSUME NEW r \in Requests, KillTmux(r) PROVE ParentInv'
  BY <1>9 DEF KillTmux, AfterList
<1>10. ASSUME NEW t \in Tabs, Connect(t) \/ Disconnect(t) \/ ShellExit(t)
       PROVE  ParentInv'
  BY <1>10 DEF Connect, Disconnect, ShellExit
<1>11. CASE Restart
  BY <1>11 DEF Restart
<1>12. CASE UNCHANGED vars
  BY <1>12 DEF vars
<1> QED
  BY <1>2, <1>3, <1>4, <1>5, <1>6, <1>7, <1>8, <1>9, <1>10, <1>11, <1>12 DEF Next

(* No session row without its workspace's row, with creates and deletes    *)
(* of both interleaved statement by statement.                             *)
THEOREM NoDanglingRow == Spec => []RowsHaveParents
<1>1. ParentInv => RowsHaveParents
  BY DEF ParentInv
<1> QED
  BY <1>1, InitParents, StepParents, PTL DEF Spec

-----------------------------------------------------------------------------
(* What a delete still has to kill, and what excuses an orphan. *)
OrphanInv ==
    /\ RowInv
    /\ alive \subseteq Tabs
    /\ \A r \in Requests :
         /\ pc[r] \in {"idle", "insert"} => todo[r] = {}
         /\ pc[r] = "kill" => target[r] \in todo[r]
    /\ OrphansHaveExcuse

LEMMA InitOrphans == Init => OrphanInv
BY InitParents DEF ParentInv, Init, OrphanInv, OrphansHaveExcuse

LEMMA PendingMember ==
    \A t : t \in Pending <=> \E r \in Requests : pc[r] \in {"lock", "kill"} /\ t \in todo[r]
BY DEF Pending, Deleting

LEMMA PendingMemberNext ==
    \A t : t \in Pending' <=> \E r \in Requests : pc'[r] \in {"lock", "kill"} /\ t \in todo'[r]
BY DEF Pending, Deleting

LEMMA StepOrphans == OrphanInv /\ RowInv' /\ [Next]_vars => OrphanInv'
<1> SUFFICES ASSUME OrphanInv, RowInv', [Next]_vars PROVE OrphanInv'
  OBVIOUS
<1> USE LifecycleAssumption, PendingMember, PendingMemberNext
        DEF OrphanInv, RowInv, OrphansHaveExcuse, Ids, dbVars, tmuxVars, requestVars,
            createHistory, deleteHistory
<1>1. ASSUME NEW r \in Requests, CreateWorkspace(r) \/ CreateSession(r)
      PROVE  OrphanInv'
  BY <1>1 DEF CreateWorkspace, CreateSession, ReadMax
<1>2. ASSUME NEW r \in Requests, Insert(r) \/ InsertFails(r) PROVE OrphanInv'
  BY <1>2 DEF Insert, InsertFails, Respond
<1>3. ASSUME NEW r \in Requests, NEW t \in Tabs, DeleteSession(r, t) PROVE OrphanInv'
  BY <1>3 DEF DeleteSession
<1>4. ASSUME NEW r \in Requests, NEW w \in Workspaces, ListForDelete(r, w)
      PROVE  OrphanInv'
  BY <1>4 DEF ListForDelete, Children
<1>5. ASSUME NEW r \in Requests, Cascade(r) PROVE OrphanInv'
  BY <1>5 DEF Cascade, AfterList, Children
<1>6. ASSUME NEW r \in Requests, DeleteFails(r) PROVE OrphanInv'
  <2>1. \A t \in Pending : t \in Pending'
    BY <1>6 DEF DeleteFails
  <2> QED
    BY <1>6, <2>1 DEF DeleteFails
<1>7. ASSUME NEW r \in Requests, KillLocked(r) PROVE OrphanInv'
  BY <1>7 DEF KillLocked
<1>8. ASSUME NEW r \in Requests, KillTmux(r) PROVE OrphanInv'
  BY <1>8 DEF KillTmux, AfterList
<1>9. ASSUME NEW t \in Tabs, Connect(t) \/ Disconnect(t) \/ ShellExit(t)
      PROVE  OrphanInv'
  BY <1>9 DEF Connect, Disconnect, ShellExit
<1>10. CASE Restart
  BY <1>10 DEF Restart
<1>11. CASE UNCHANGED vars
  BY <1>11 DEF vars, Pending, Deleting
<1> QED
  BY <1>1, <1>2, <1>3, <1>4, <1>5, <1>6, <1>7, <1>8, <1>9, <1>10, <1>11 DEF Next

(* The five excuses are all the ways there are to leave a tmux session     *)
(* behind a deleted tab.                                                   *)
THEOREM NoOtherOrphans == Spec => []OrphansHaveExcuse
<1>1. OrphanInv => OrphansHaveExcuse
  BY DEF OrphanInv
<1>2. ParentInv => RowInv
  BY DEF ParentInv
<1> QED
  BY <1>1, <1>2, InitParents, StepParents, InitOrphans, StepOrphans, PTL DEF Spec

-----------------------------------------------------------------------------
(* A non-empty set of integers with an upper bound has a maximum: the      *)
(* distances to the bound are natural numbers, and those are well founded. *)
LEMMA MaxOfBounded ==
    ASSUME NEW S, S \subseteq Int, S # {}, NEW n \in Int, \A x \in S : x <= n
    PROVE  Max(S) \in S /\ \A x \in S : x <= Max(S)
<1> DEFINE T == {n - x : x \in S}
<1>1. T \subseteq Nat /\ T # {}
  <2>1. \A x \in S : n - x \in Nat
    OBVIOUS
  <2> QED
    BY <2>1
<1>2. PICK d \in T : \A e \in T : ~(<<e, d>> \in OpToRel(<, Nat))
  <2> HIDE DEF T
  <2> QED
    BY <1>1, WFMin, NatLessThanWellFounded
<1>3. \A e \in T : d <= e
  <2>1. ASSUME NEW e \in T PROVE ~(e < d)
    <3>1. e \in Nat /\ d \in Nat /\ <<e, d>> \notin OpToRel(<, Nat)
      BY <1>1, <1>2
    <3> QED
      BY <3>1, Zenon DEF OpToRel
  <2> QED
    BY <1>1, <2>1
<1>4. PICK m \in S : d = n - m
  BY <1>2
<1>5. \A x \in S : m >= x
  BY <1>3, <1>4
<1> QED
  BY <1>5 DEF Max

(* What the order of the rows rests on.  The positions are bounded, so     *)
(* that there is a maximum to read; the rows a create has to sort after    *)
(* are still where they were when it read it.                              *)
OrderInv ==
    /\ sortOrder \in [Ids -> Nat]
    /\ maxOrder \in [Requests -> Nat \cup {-1}]
    /\ before \in [Ids -> SUBSET answered]
    /\ rows \cup answered \subseteq shown
    /\ \E n \in Nat : \A x \in rows : sortOrder[x] <= n
    /\ \A x \in Ids \ issued : before[x] = {}
    /\ \A r \in Requests : pc[r] = "insert" =>
         /\ target[r] \notin shown
         /\ \A q \in Requests \ {r} : pc[q] = "insert" => target[q] # target[r]
         /\ \A x \in rows \cap before[target[r]] :
              parent[x] = parent[target[r]] => sortOrder[x] <= maxOrder[r]
    /\ CreatesSortInOrder

LEMMA InitOrder == Init => OrderInv
BY DEF Init, OrderInv, CreatesSortInOrder

LEMMA MaxSortOrderBounds ==
    ASSUME RowInv, OrderInv, NEW p
    PROVE  /\ MaxSortOrder(p) \in Nat \cup {-1}
           /\ \A x \in Children(p) : sortOrder[x] <= MaxSortOrder(p)
<1> DEFINE S == {sortOrder[x] : x \in Children(p)} \cup {-1}
<1>1. Children(p) \subseteq rows /\ rows \subseteq Ids
  BY DEF Children, RowInv
<1>2. S \subseteq Nat \cup {-1} /\ S # {}
  BY <1>1 DEF OrderInv
<1>3. PICK n \in Nat : \A x \in rows : sortOrder[x] <= n
  BY DEF OrderInv
<1>4. S \subseteq Int /\ n \in Int /\ \A i \in S : i <= n
  BY <1>1, <1>2, <1>3
<1>5. Max(S) \in S /\ \A i \in S : i <= Max(S)
  <2> HIDE DEF S
  <2> QED
    BY <1>2, <1>4, MaxOfBounded
<1> QED
  BY <1>2, <1>5 DEF MaxSortOrder

LEMMA StepOrder == RowInv /\ OrderInv /\ [Next]_vars => OrderInv'
<1> SUFFICES ASSUME RowInv, OrderInv, [Next]_vars PROVE OrderInv'
  OBVIOUS
<1> USE DEF Ids, dbVars, requestVars, createHistory
<1>r. /\ rows \subseteq issued /\ issued \subseteq Ids /\ shown \subseteq issued
      /\ parent \in [Ids -> Workspaces \cup {Root}]
      /\ pc \in [Requests -> {"idle", "insert", "cascade", "lock", "kill"}]
      /\ target \in [Requests -> Ids \cup {None}]
      /\ \A r \in Requests : pc[r] = "insert" => target[r] \in issued
  BY DEF RowInv
<1>1. ASSUME NEW r \in Requests, NEW x \in Ids, NEW p, ReadMax(r, x, p)
      PROVE  OrderInv'
  <2>1. /\ MaxSortOrder(p) \in Nat \cup {-1}
        /\ \A y \in rows : parent[y] = p => sortOrder[y] <= MaxSortOrder(p)
    BY MaxSortOrderBounds DEF Children
  <2>2. x \notin issued /\ before[x] = {}
    BY <1>1 DEF ReadMax, OrderInv
  <2>3. \A y \in rows : parent'[y] = parent[y]
    BY <1>1, <1>r, <2>2 DEF ReadMax
  <2>4. \A q \in Requests \ {r} : pc'[q] = "insert" =>
          pc[q] = "insert" /\ target'[q] = target[q] /\ target[q] # x
    BY <1>1, <1>r, <2>2 DEF ReadMax
  <2>5. /\ before'[x] \subseteq answered
        /\ maxOrder'[r] \in Nat \cup {-1}
        /\ \A y \in before'[x] \cap rows :
             parent[y] = p => sortOrder[y] <= maxOrder'[r]
    BY <1>1, <1>r, <2>1, <2>2 DEF ReadMax, OrderInv
  <2>6. /\ before' \in [Ids -> SUBSET answered]
        /\ maxOrder' \in [Requests -> Nat \cup {-1}]
        /\ \A y \in Ids \ {x} : before'[y] = before[y] /\ parent'[y] = parent[y]
        /\ \A q \in Requests \ {r} : maxOrder'[q] = maxOrder[q]
    BY <1>1, <1>r, <2>1, <2>5 DEF ReadMax, OrderInv
  <2>7. /\ pc'[r] = "insert" /\ target'[r] = x /\ parent'[x] = p
        /\ UNCHANGED <<rows, sortOrder, shown, answered>>
        /\ issued' = issued \cup {x}
    BY <1>1, <1>r DEF ReadMax
  <2>8. CreatesSortInOrder'
    BY <1>r, <2>2, <2>3, <2>6, <2>7 DEF OrderInv, CreatesSortInOrder
  <2>9. \A q \in Requests : pc'[q] = "insert" =>
         /\ target'[q] \notin shown
         /\ \A o \in Requests \ {q} : pc'[o] = "insert" => target'[o] # target'[q]
         /\ \A y \in rows \cap before'[target'[q]] :
              parent'[y] = parent'[target'[q]] => sortOrder[y] <= maxOrder'[q]
    BY <1>r, <2>2, <2>3, <2>4, <2>5, <2>6, <2>7 DEF OrderInv
  <2> QED
    BY <2>6, <2>7, <2>8, <2>9 DEF OrderInv
<1>2. ASSUME NEW r \in Requests, CreateWorkspace(r) \/ CreateSession(r)
      PROVE  OrderInv'
  BY <1>1, <1>2 DEF CreateWorkspace, CreateSession
<1>3. ASSUME NEW r \in Requests, Insert(r) PROVE OrderInv'
  <2> DEFINE x == target[r]
  <2>1. /\ pc[r] = "insert" /\ x \in issued /\ x \in Ids /\ x \notin shown
        /\ maxOrder[r] + 1 \in Nat
    BY <1>3, <1>r DEF Insert, OrderInv
  <2>2. /\ rows' = rows \cup {x} /\ shown' = shown \cup {x} /\ answered' = answered \cup {x}
        /\ sortOrder' = [sortOrder EXCEPT ![x] = maxOrder[r] + 1]
        /\ UNCHANGED <<parent, issued, before>>
        /\ pc' = [pc EXCEPT ![r] = "idle"] /\ target' = [target EXCEPT ![r] = None]
        /\ maxOrder' = [maxOrder EXCEPT ![r] = -1]
    BY <1>3 DEF Insert, Respond
  <2>3. /\ sortOrder' \in [Ids -> Nat] /\ maxOrder' \in [Requests -> Nat \cup {-1}]
        /\ sortOrder'[x] = maxOrder[r] + 1
        /\ \A y \in Ids \ {x} : sortOrder'[y] = sortOrder[y]
    BY <2>1, <2>2 DEF OrderInv
  <2>4. \E n \in Nat : \A y \in rows' : sortOrder'[y] <= n
    <3>1. PICK n \in Nat : \A y \in rows : sortOrder[y] <= n
      BY DEF OrderInv
    <3>2. n + maxOrder[r] + 1 \in Nat /\ \A y \in rows' : sortOrder'[y] <= n + maxOrder[r] + 1
      BY <1>r, <2>1, <2>2, <2>3, <3>1 DEF OrderInv
    <3> QED
      BY <3>2
  (* x answers now, so no create has it among those that answered before *)
  <2>5. \A y \in Ids : x \notin before[y]
    BY <2>1 DEF OrderInv
  <2>6. CreatesSortInOrder'
    <3> SUFFICES ASSUME NEW y \in rows', NEW z \in rows', y \in before[z],
                        parent[y] = parent[z]
                 PROVE  sortOrder'[y] < sortOrder'[z]
      BY <2>2 DEF CreatesSortInOrder
    <3>1. y # x /\ y \in rows /\ y \in Ids
      BY <1>r, <2>1, <2>2, <2>5
    <3>2. CASE z = x
      <4>1. sortOrder[y] <= maxOrder[r]
        BY <2>1, <3>1, <3>2 DEF OrderInv
      <4> QED
        BY <2>1, <2>3, <3>1, <3>2, <4>1 DEF OrderInv
    <3>3. CASE z # x
      BY <1>r, <2>2, <2>3, <3>1, <3>3 DEF OrderInv, CreatesSortInOrder
    <3> QED
      BY <3>2, <3>3
  <2>7. \A q \in Requests : pc'[q] = "insert" =>
         /\ q # r /\ pc[q] = "insert" /\ target'[q] = target[q] /\ target[q] # x
         /\ maxOrder'[q] = maxOrder[q]
    BY <1>r, <2>1, <2>2 DEF OrderInv
  <2>8. ASSUME NEW q \in Requests, pc'[q] = "insert"
        PROVE  /\ target'[q] \notin shown'
               /\ \A o \in Requests \ {q} : pc'[o] = "insert" => target'[o] # target'[q]
               /\ \A y \in rows' \cap before'[target'[q]] :
                    parent'[y] = parent'[target'[q]] => sortOrder'[y] <= maxOrder'[q]
    BY <1>r, <2>2, <2>3, <2>5, <2>7, <2>8 DEF OrderInv
  <2> QED
    BY <2>1, <2>2, <2>3, <2>4, <2>6, <2>8 DEF OrderInv
<1>4. ASSUME UNCHANGED <<sortOrder, parent, createHistory>>, rows' \subseteq rows,
             maxOrder' \in [Requests -> Nat \cup {-1}],
             \A r \in Requests : pc'[r] = "insert" =>
               pc[r] = "insert" /\ target'[r] = target[r] /\ maxOrder'[r] = maxOrder[r]
      PROVE  OrderInv'
  BY <1>4 DEF OrderInv, CreatesSortInOrder
<1>5. ASSUME NEW r \in Requests, InsertFails(r) PROVE OrderInv'
  BY <1>4, <1>5, <1>r DEF InsertFails, Respond, OrderInv
<1>6. ASSUME NEW r \in Requests, NEW t \in Tabs, DeleteSession(r, t) PROVE OrderInv'
  BY <1>4, <1>6, <1>r DEF DeleteSession, OrderInv
<1>7. ASSUME NEW r \in Requests, NEW w \in Workspaces, ListForDelete(r, w)
      PROVE  OrderInv'
  BY <1>4, <1>7, <1>r DEF ListForDelete, OrderInv
<1>8. ASSUME NEW r \in Requests, Cascade(r) \/ DeleteFails(r) PROVE OrderInv'
  BY <1>4, <1>8, <1>r DEF Cascade, DeleteFails, AfterList, OrderInv
<1>9. ASSUME NEW r \in Requests, KillLocked(r) \/ KillTmux(r) PROVE OrderInv'
  BY <1>4, <1>9, <1>r DEF KillLocked, KillTmux, AfterList, OrderInv
<1>10. ASSUME NEW t \in Tabs, Connect(t) \/ Disconnect(t) \/ ShellExit(t)
       PROVE  OrderInv'
  BY <1>4, <1>10 DEF Connect, Disconnect, ShellExit, OrderInv
<1>11. CASE Restart
  BY <1>4, <1>11 DEF Restart, OrderInv
<1>12. CASE UNCHANGED vars
  BY <1>4, <1>12 DEF vars, OrderInv
<1> QED
  BY <1>2, <1>3, <1>5, <1>6, <1>7, <1>8, <1>9, <1>10, <1>11, <1>12 DEF Next

(* Tabs and workspaces sort in the order of their creation, unless their   *)
(* creates overlapped, however requests interleave with the two statements *)
(* of CreateSession and CreateWorkspace.                                   *)
THEOREM KeepsCreationOrder == Spec => []CreatesSortInOrder
<1>1. ParentInv => RowInv
  BY DEF ParentInv
<1>2. OrderInv => CreatesSortInOrder
  BY DEF OrderInv
<1> QED
  BY <1>1, <1>2, InitParents, StepParents, InitOrder, StepOrder, PTL DEF Spec

-----------------------------------------------------------------------------
(* The sets of tabs that the other invariants do not speak of. *)
TabSets ==
    /\ linked \subseteq Tabs
    /\ excuse \subseteq Tabs
    /\ killed \subseteq Tabs
    /\ boots \in Nat

LEMMA InitTabSets == Init => TabSets
BY DEF Init, TabSets

LEMMA StepTabSets == OrphanInv /\ TabSets /\ [Next]_vars => TabSets'
<1> SUFFICES ASSUME OrphanInv, TabSets, [Next]_vars PROVE TabSets'
  OBVIOUS
<1> USE DEF TabSets, deleteHistory, tmuxVars
<1>t. /\ rows \subseteq Ids /\ todo \in [Requests -> SUBSET Tabs]
      /\ parent \in [Ids -> Workspaces \cup {Root}]
      /\ \A w \in Workspaces : parent[w] = Root
      /\ \A r \in Requests : pc[r] = "kill" => target[r] \in todo[r]
      /\ \A r \in Requests : pc[r] = "cascade" => target[r] \in Workspaces
  BY DEF OrphanInv, RowInv
(* a workspace's children are tabs: no workspace is the child of another *)
<1>c. \A w \in Workspaces : Children(w) \subseteq Tabs
  BY <1>t, LifecycleAssumption DEF Children, Ids
<1>1. ASSUME NEW r \in Requests, CreateWorkspace(r) \/ CreateSession(r)
      PROVE  TabSets'
  BY <1>1 DEF CreateWorkspace, CreateSession, ReadMax
<1>2. ASSUME NEW r \in Requests, Insert(r) \/ InsertFails(r) \/ DeleteFails(r)
      PROVE  TabSets'
  BY <1>2 DEF Insert, InsertFails, DeleteFails
<1>3. ASSUME NEW r \in Requests, NEW t \in Tabs, DeleteSession(r, t) PROVE TabSets'
  BY <1>3 DEF DeleteSession
<1>4. ASSUME NEW r \in Requests, NEW w \in Workspaces, ListForDelete(r, w)
      PROVE  TabSets'
  BY <1>4, <1>c DEF ListForDelete
<1>5. ASSUME NEW r \in Requests, Cascade(r) PROVE TabSets'
  BY <1>5, <1>c, <1>t DEF Cascade
<1>6. ASSUME NEW r \in Requests, KillLocked(r) PROVE TabSets'
  BY <1>6 DEF KillLocked
<1>7. ASSUME NEW r \in Requests, KillTmux(r) PROVE TabSets'
  <2>1. target[r] \in Tabs
    <3>1. pc[r] = "kill"
      BY <1>7 DEF KillTmux
    <3> QED
      BY <1>t, <3>1
  <2>2. linked' \subseteq linked /\ boots' = boots
    BY <1>7 DEF KillTmux
  <2>3. excuse' \subseteq excuse \cup {target[r]} /\ killed' \subseteq killed \cup {target[r]}
    BY <1>7 DEF KillTmux
  <2> QED
    BY <2>1, <2>2, <2>3
<1>8. ASSUME NEW t \in Tabs, Connect(t) \/ Disconnect(t) \/ ShellExit(t)
      PROVE  TabSets'
  BY <1>8 DEF Connect, Disconnect, ShellExit
<1>9. CASE Restart
  <2>1. UNION {todo[r] : r \in Requests} \subseteq Tabs
    BY <1>t
  <2>2. linked' = {} /\ excuse' \subseteq Tabs /\ killed' = killed
    BY <1>9, <2>1 DEF Restart
  <2>3. boots' \in Nat
    BY <1>9 DEF Restart
  <2> QED
    BY <2>2, <2>3
<1>10. CASE UNCHANGED vars
  BY <1>10 DEF vars
<1> QED
  BY <1>1, <1>2, <1>3, <1>4, <1>5, <1>6, <1>7, <1>8, <1>9, <1>10 DEF Next

(* Type correctness; in particular sort_order never goes below zero. *)
THEOREM LifecycleTypes == Spec => []TypeOK
<1>1. ParentInv => RowInv
  BY DEF ParentInv
<1>2. RowInv /\ OrphanInv /\ OrderInv /\ TabSets => TypeOK
  BY DEF RowInv, OrphanInv, OrderInv, TabSets, TypeOK, Ids
<1> QED
  BY <1>1, <1>2, InitParents, StepParents, InitOrphans, StepOrphans, InitOrder,
     StepOrder, InitTabSets, StepTabSets, PTL DEF Spec
=============================================================================
