--------------------------- MODULE AppStoreProofs ----------------------------
(***************************************************************************)
(* Proofs about AppStore, for any workspaces, tabs and number of           *)
(* overlapping requests: typing, the activity tracking, the toast stack,   *)
(* and that an undisturbed store shows what the server has.                *)
(***************************************************************************)
EXTENDS AppStore, FiniteSetTheorems, WellFoundedInduction, TLAPS

-----------------------------------------------------------------------------
(* KeepIn, the filter of lists *)

LEMMA PartSize ==
    ASSUME NEW m \in Nat, NEW A \in SUBSET (1 .. m)
    PROVE  IsFiniteSet(A) /\ Cardinality(A) \in Nat /\ Cardinality(A) <= m
<1>1. IsFiniteSet(1 .. m) /\ Cardinality(1 .. m) = m
  BY FS_Interval
<1>2. IsFiniteSet(A) /\ Cardinality(A) <= m
  BY <1>1, FS_Subset
<1> QED BY <1>2, FS_CardinalityType

LEMMA SmallerPart ==
    ASSUME NEW B, IsFiniteSet(B), NEW A \in SUBSET B
    PROVE  /\ Cardinality(A) \in Nat /\ Cardinality(B) \in Nat
           /\ Cardinality(A) <= Cardinality(B)
           /\ A # B => Cardinality(A) < Cardinality(B)
<1>1. /\ IsFiniteSet(A) /\ Cardinality(A) <= Cardinality(B)
      /\ Cardinality(B) = Cardinality(A) => B = A
  BY FS_Subset
<1>2. Cardinality(A) \in Nat /\ Cardinality(B) \in Nat
  BY <1>1, FS_CardinalityType
<1> QED BY <1>1, <1>2

(* The rank of a position counts the kept ones up to it. *)
LEMMA RankStep ==
    ASSUME NEW m \in Nat, NEW K \in SUBSET (1 .. m), NEW i \in Nat
    PROVE  /\ Rank(K, i) \in Nat
           /\ Rank(K, i + 1) = IF i + 1 \in K THEN Rank(K, i) + 1 ELSE Rank(K, i)
<1> DEFINE A == {k \in K : k <= i}
           B == {k \in K : k <= i + 1}
<1>0. \A k \in K : k \in Int /\ 1 <= k /\ k <= m
  OBVIOUS
<1>1. A \in SUBSET (1 .. m) /\ B = IF i + 1 \in K THEN A \cup {i + 1} ELSE A
  <2>1. \A k \in K : k <= i + 1 <=> k <= i \/ k = i + 1
    BY <1>0
  <2>2. A \in SUBSET K
    OBVIOUS
  <2>3. CASE i + 1 \in K
    BY <2>1, <2>2, <2>3
  <2>4. CASE i + 1 \notin K
    BY <2>1, <2>2, <2>4
  <2> QED BY <2>3, <2>4
<1>2. i + 1 \notin A
  OBVIOUS
<1>3. Rank(K, i) = Cardinality(A) /\ Rank(K, i + 1) = Cardinality(B)
  BY DEF Rank
<1> HIDE DEF A, B
<1>4. IsFiniteSet(A) /\ Cardinality(A) \in Nat
  BY <1>1, PartSize
<1>5. Cardinality(A \cup {i + 1}) = Cardinality(A) + 1
  BY <1>2, <1>4, FS_AddElement
<1> QED BY <1>1, <1>3, <1>4, <1>5

LEMMA RankEnds ==
    ASSUME NEW m \in Nat, NEW K \in SUBSET (1 .. m)
    PROVE  Rank(K, 0) = 0 /\ Rank(K, m) = Cardinality(K)
<1>0. \A k \in K : k \in Int /\ 1 <= k /\ k <= m
  OBVIOUS
<1>1. {k \in K : k <= 0} = {} /\ {k \in K : k <= m} = K
  <2>1. \A k \in K : ~(k <= 0)
    BY <1>0
  <2>2. {k \in K : k <= m} = K
    BY <1>0, Zenon
  <2> QED BY <2>1, <2>2, Zenon
<1> QED BY <1>1, FS_EmptySet DEF Rank

LEMMA RankGrows ==
    ASSUME NEW m \in Nat, NEW K \in SUBSET (1 .. m),
           NEW i \in K, NEW k \in K, i < k
    PROVE  Rank(K, i) < Rank(K, k)
<1> DEFINE A == {x \in K : x <= i}
           B == {x \in K : x <= k}
<1>0. K \subseteq 1 .. m /\ \A x \in K : x <= i => x <= k
  OBVIOUS
<1>1. B \in SUBSET (1 .. m) /\ A \in SUBSET B
  BY <1>0, Zenon
<1>2. k \in B /\ k \notin A
  OBVIOUS
<1>3. Rank(K, i) = Cardinality(A) /\ Rank(K, k) = Cardinality(B)
  BY DEF Rank
<1> HIDE DEF A, B
<1>4. IsFiniteSet(B)
  BY <1>1, PartSize
<1> QED BY <1>1, <1>2, <1>3, <1>4, SmallerPart

LEMMA RankExists ==
    ASSUME NEW m \in Nat, NEW K \in SUBSET (1 .. m), NEW n \in 1 .. Cardinality(K)
    PROVE  \E i \in K : Rank(K, i) = n
<1> DEFINE T == {i \in Nat : Rank(K, i) >= n}
<1>0. Cardinality(K) \in Nat
  BY PartSize
<1>1. m \in T
  BY <1>0, RankEnds
<1>2. PICK i \in T : \A e \in T : ~(<<e, i>> \in OpToRel(<, Nat))
  <2>1. T \subseteq Nat
    OBVIOUS
  <2> HIDE DEF T
  <2> QED BY <1>1, <2>1, WFMin, NatLessThanWellFounded
<1>3. \A e \in T : ~(e < i)
  <2>1. ASSUME NEW e \in T PROVE ~(e < i)
    <3>1. e \in Nat /\ i \in Nat /\ <<e, i>> \notin OpToRel(<, Nat)
      BY <1>2
    <3> QED BY <3>1, Zenon DEF OpToRel
  <2> QED BY <2>1
<1>4. i # 0
  BY <1>0, RankEnds
<1>5. i - 1 \in Nat /\ i - 1 \notin T
  BY <1>3, <1>4
<1>6. Rank(K, i - 1) \in Nat /\ Rank(K, (i - 1) + 1) = IF (i - 1) + 1 \in K THEN Rank(K,
        i - 1) + 1 ELSE Rank(K, i - 1)
  BY <1>5, RankStep
<1>7. i \in K /\ Rank(K, i) = n
  BY <1>5, <1>6
<1> QED BY <1>7

(* What KeepIn returns: the positions it picks are among those kept,       *)
(* different ones for different places, and each of them is picked.        *)
LEMMA KeepInPositions ==
    ASSUME NEW T, NEW s \in Seq(T), NEW S
    PROVE  \E pos \in [1 .. Len(KeepIn(s, S)) -> Kept(s, S)] :
            /\ KeepIn(s, S) = [n \in 1 .. Len(KeepIn(s, S)) |-> s[pos[n]]]
            /\ \A i, k \in 1 .. Len(KeepIn(s, S)) : pos[i] = pos[k] => i = k
            /\ \A i \in Kept(s, S) : \E n \in 1 .. Len(KeepIn(s, S)) : pos[n] = i
            /\ Len(KeepIn(s, S)) <= Len(s)
            /\ Len(KeepIn(s, S)) \in Nat
<1> DEFINE K == Kept(s, S)
           size == Cardinality(K)
           Pick(n) == CHOOSE i \in K : Rank(K, i) = n
           pos == [n \in 1 .. size |-> Pick(n)]
<1>1. Len(s) \in Nat /\ K \in SUBSET (1 .. Len(s))
  BY DEF Kept
<1>2. IsFiniteSet(K) /\ size \in Nat /\ size <= Len(s)
  <2> HIDE DEF K
  <2> QED BY <1>1, PartSize
<1>3. ASSUME NEW n \in 1 .. size PROVE Pick(n) \in K /\ Rank(K, Pick(n)) = n
  <2>1. \E i \in K : Rank(K, i) = n
    <3> HIDE DEF K
    <3> QED BY <1>1, <1>2, RankExists
  <2> HIDE DEF K
  <2> QED BY <2>1
<1>4. KeepIn(s, S) = [n \in 1 .. size |-> s[Pick(n)]]
  BY DEF KeepIn
<1> HIDE DEF K
<1>5. pos \in [1 .. size -> K]
  BY <1>3
<1> HIDE DEF Pick
<1>6. KeepIn(s, S) = [n \in 1 .. size |-> s[pos[n]]]
  BY <1>4
<1>7. Len(KeepIn(s, S)) = size
  BY <1>2, <1>6
<1>8. \A i, k \in 1 .. size : pos[i] = pos[k] => i = k
  BY <1>3
<1>9. ASSUME NEW i \in K PROVE \E n \in 1 .. size : pos[n] = i
  <2>1. Rank(K, i) \in 1 .. size
    <3>1. Rank(K, Len(s)) = size
      BY <1>1, RankEnds
    <3>2. i \in 1 .. Len(s) /\ i \in Nat /\ i - 1 \in Nat
      BY <1>1
    <3>3. Rank(K, i) \in Nat /\ Rank(K, i) >= 1
      <4> DEFINE h == i - 1
      <4>1. h \in Nat /\ h + 1 = i
        BY <3>2
      <4> HIDE DEF h
      <4>2. Rank(K, h) \in Nat /\ Rank(K, h + 1) = Rank(K, h) + 1
        BY <1>1, <4>1, RankStep
      <4> QED BY <4>1, <4>2
    <3>4. Rank(K, i) <= size
      <4>1. {k \in K : k <= i} \in SUBSET K
        OBVIOUS
      <4>2. Cardinality({k \in K : k <= i}) <= Cardinality(K)
        BY <1>2, <4>1, SmallerPart
      <4> QED BY <4>2 DEF Rank
    <3> QED BY <1>2, <3>3, <3>4
  <2>2. Pick(Rank(K, i)) \in K /\ Rank(K, Pick(Rank(K, i))) = Rank(K, i)
    BY <1>3, <2>1
  <2>3. Pick(Rank(K, i)) = i
    <3> DEFINE p == Pick(Rank(K, i))
    <3>0. p \in K /\ Rank(K, p) = Rank(K, i) /\ Rank(K, i) \in Int
      BY <2>1, <2>2
    <3> HIDE DEF p
    <3>1. i \in Int /\ p \in Int
      BY <1>1, <3>0
    <3>2. ~(i < p) /\ ~(p < i)
      <4>1. i < p => Rank(K, i) < Rank(K, p)
        BY <1>1, <3>0, RankGrows
      <4>2. p < i => Rank(K, p) < Rank(K, i)
        BY <1>1, <3>0, RankGrows
      <4> QED BY <3>0, <4>1, <4>2
    <3>3. i = p
      BY <3>1, <3>2
    <3> QED BY <3>3 DEF p
  <2> QED BY <2>1, <2>3
<1> QED BY <1>2, <1>5, <1>6, <1>7, <1>8, <1>9 DEF K

LEMMA KeepInIs ==
    ASSUME NEW T, NEW s \in Seq(T), NEW S
    PROVE  /\ KeepIn(s, S) \in Seq(T)
           /\ ToSet(KeepIn(s, S)) = ToSet(s) \cap S
           /\ Len(KeepIn(s, S)) <= Len(s)
           /\ IsInjective(s) => IsInjective(KeepIn(s, S))
<1> DEFINE r == KeepIn(s, S)
           size == Len(r)
           K == Kept(s, S)
<1>1. PICK pos \in [1 .. size -> K] :
        /\ r = [n \in 1 .. size |-> s[pos[n]]]
        /\ \A i, k \in 1 .. size : pos[i] = pos[k] => i = k
        /\ \A i \in K : \E n \in 1 .. size : pos[n] = i
        /\ size <= Len(s) /\ size \in Nat
  BY KeepInPositions
<1> HIDE DEF r, size
<1>2. \A n \in 1 .. size : pos[n] \in 1 .. Len(s) /\ s[pos[n]] \in S /\ s[pos[n]] \in T
  BY <1>1 DEF Kept
<1>3. r \in [1 .. size -> T]
  BY <1>1, <1>2
<1>4. r \in Seq(T)
  BY <1>1, <1>3
<1>5. ToSet(r) = ToSet(s) \cap S
  <2>1. DOMAIN r = 1 .. size /\ DOMAIN s = 1 .. Len(s)
    BY <1>1
  <2>2. ASSUME NEW x \in ToSet(r) PROVE x \in ToSet(s) \cap S
    <3>1. PICK n \in 1 .. size : x = s[pos[n]]
      BY <1>1, <2>1 DEF ToSet
    <3> QED BY <1>2, <2>1, <3>1 DEF ToSet
  <2>3. ASSUME NEW x \in ToSet(s) \cap S PROVE x \in ToSet(r)
    <3>1. PICK i \in 1 .. Len(s) : x = s[i]
      BY <2>1 DEF ToSet
    <3>2. i \in K
      BY <3>1 DEF Kept
    <3>3. PICK n \in 1 .. size : pos[n] = i
      BY <1>1, <3>2
    <3> QED BY <1>1, <2>1, <3>1, <3>3 DEF ToSet
  <2> QED BY <2>2, <2>3
<1>6. ASSUME IsInjective(s) PROVE IsInjective(r)
  <2>1. \A i, k \in 1 .. Len(s) : s[i] = s[k] => i = k
    BY <1>6 DEF IsInjective
  <2>2. ASSUME NEW i \in 1 .. size, NEW k \in 1 .. size, r[i] = r[k] PROVE i = k
    BY <1>1, <1>2, <2>1, <2>2
  <2> QED BY <1>1, <2>2 DEF IsInjective
<1> QED BY <1>1, <1>4, <1>5, <1>6 DEF r, size

(* If all are kept, nothing changes. *)
LEMMA KeepInAll ==
    ASSUME NEW T, NEW s \in Seq(T), NEW S, ToSet(s) \subseteq S
    PROVE  KeepIn(s, S) = s
<1> DEFINE m == Len(s)
           K == 1 .. m
<1>1. m \in Nat /\ DOMAIN s = K
  OBVIOUS
<1>2. Kept(s, S) = K
  BY <1>1 DEF Kept, ToSet
<1>3. Cardinality(K) = m
  BY <1>1, FS_Interval
<1>4. ASSUME NEW i \in K PROVE Rank(K, i) = i
  <2>1. {k \in K : k <= i} = 1 .. i
    BY <1>1
  <2>2. i \in Int /\ i >= 1
    BY <1>1
  <2>3. Cardinality(1 .. i) = i
    BY <2>2, FS_Interval
  <2> QED BY <2>1, <2>3 DEF Rank
<1>5. \A n \in 1 .. m : (CHOOSE i \in K : Rank(K, i) = n) = n
  BY <1>4
<1>6. KeepIn(s, S) = [n \in 1 .. m |-> s[CHOOSE i \in K : Rank(K, i) = n]]
  BY <1>2, <1>3 DEF KeepIn
<1> HIDE DEF K
<1>7. KeepIn(s, S) = [n \in 1 .. m |-> s[n]]
  BY <1>5, <1>6
<1> QED BY <1>1, <1>7 DEF K

LEMMA WithoutIs ==
    ASSUME NEW T, NEW s \in Seq(T), NEW x
    PROVE  /\ Without(s, x) \in Seq(T)
           /\ ToSet(Without(s, x)) = ToSet(s) \ {x}
           /\ IsInjective(s) => IsInjective(Without(s, x))
           /\ x \notin ToSet(s) => Without(s, x) = s
<1>1. x \notin ToSet(s) => Without(s, x) = s
  BY KeepInAll DEF Without
<1> QED BY <1>1, KeepInIs DEF Without

LEMMA ToSetFacts ==
    ASSUME NEW T, NEW s \in Seq(T)
    PROVE  /\ ToSet(s) \subseteq T
           /\ s = <<>> <=> ToSet(s) = {}
           /\ s # <<>> => Head(s) \in ToSet(s)
           /\ \A x \in T : ToSet(Append(s, x)) = ToSet(s) \cup {x}
           /\ \A i \in 1 .. Len(s) : s[i] \in ToSet(s)
           /\ \A x \in ToSet(s) : \E i \in 1 .. Len(s) : x = s[i]
<1>1. DOMAIN s = 1 .. Len(s) /\ Len(s) \in Nat
  OBVIOUS
<1>2. s # <<>> => 1 \in 1 .. Len(s) /\ Head(s) = s[1]
  OBVIOUS
<1>3. s = <<>> => ToSet(s) = {}
  BY DEF ToSet
<1>4. ASSUME NEW x \in T PROVE ToSet(Append(s, x)) = ToSet(s) \cup {x}
  <2>1. /\ DOMAIN Append(s, x) = 1 .. Len(s) + 1
        /\ \A i \in 1 .. Len(s) : Append(s, x)[i] = s[i]
        /\ Append(s, x)[Len(s) + 1] = x
    BY <1>1
  <2>2. \A i : i \in 1 .. Len(s) + 1 <=> i \in 1 .. Len(s) \/ i = Len(s) + 1
    BY <1>1
  <2> QED BY <1>1, <2>1, <2>2 DEF ToSet
<1>5. \A i \in 1 .. Len(s) : s[i] \in ToSet(s) /\ s[i] \in T
  BY <1>1 DEF ToSet
<1>6. \A x \in ToSet(s) : \E i \in 1 .. Len(s) : x = s[i]
  BY <1>1 DEF ToSet
<1> QED BY <1>2, <1>3, <1>4, <1>5, <1>6

LEMMA AppendInjective2 ==
    ASSUME NEW T, NEW s \in Seq(T), IsInjective(s), NEW x \in T, x \notin ToSet(s)
    PROVE  IsInjective(Append(s, x))
<1>1. \A i \in 1 .. Len(s) : s[i] # x
  BY DEF ToSet
<1> QED BY <1>1 DEF IsInjective

-----------------------------------------------------------------------------
(* Types *)

CallOps == {"none", "poll", "click", "create", "close", "space", "first", "drop"}
Replies == Workspaces \cup Tabs \cup {Undefined}
CallTypes == [op : CallOps, ws : Spaces \cup {None}, tab : Tabs \cup {None, Undefined},
              at : {"sent", "answered"}, reply : Seq(Replies) \cup {ErrorBody}]
ToastTypes == [tab : Tabs, ws : Spaces]

(* What is stored as the list of a workspace *)
Bodies == Seq(Tabs \cup {Undefined}) \cup {ErrorBody}

(* A request carries what its continuation is going to read. *)
CallOK(k) ==
    /\ k \in CallTypes
    /\ k.op \in {"poll", "click", "create", "first", "drop"} => k.ws \in Spaces
    /\ k.op = "click" => k.tab \in Tabs
    /\ k.op = "close" => k.tab \in Tabs \cup {Undefined}
    /\ k.at = "answered" =>
        /\ k.op \in {"poll", "click"} => k.reply \in Bodies
        /\ k.op \in {"create", "first"} => \E t \in Tabs \cup {Undefined} : k.reply = <<t>>
        /\ k.op = "space" => \E w \in Spaces : k.reply = <<w>>

CallsOK == call = [c \in Calls |-> call[c]] /\ \A c \in Calls : CallOK(call[c])

RowsOK ==
    /\ spaces \in Seq(Workspaces) /\ tabs \in [Workspaces -> Seq(Tabs)]
    /\ issued \subseteq Workspaces \cup Tabs
ListsOK ==
    /\ workspaces \in Seq(Spaces)
    /\ sessions \in [Spaces -> Bodies \cup {None}]
ViewOK ==
    /\ activeWorkspaceId \in Spaces \cup {None}
    /\ activeSessionId \in Tabs \cup {None, Undefined}
    /\ activeSessionByWorkspace \in [Spaces -> Tabs \cup {Undefined}]
AlertsOK ==
    /\ unread \subseteq Tabs /\ toasts \in Seq(ToastTypes)
    /\ track \in [Tabs -> {"none", "short", "long"}] /\ timers \subseteq Tabs
ServerOK == RowsOK /\ CallsOK
StoreOK == ListsOK /\ ViewOK /\ AlertsOK /\ visible \in BOOLEAN
TypeInv == ServerOK /\ StoreOK

LEMMA AssumedIds ==
    /\ None \notin Workspaces /\ None \notin Tabs /\ None \notin Spaces
    /\ Undefined \notin Workspaces /\ Undefined \notin Tabs /\ Undefined # None
    /\ Workspaces \subseteq Spaces /\ Undefined \in Spaces
    /\ \A list \in Seq(Tabs \cup {Undefined}) : list # None /\ list # ErrorBody
    /\ ErrorBody # None /\ None \notin Bodies
<1>1. ErrorBody \notin Seq(Tabs \cup {Undefined})
  <2>1. ErrorBody \notin Seq(Workspaces \cup Tabs \cup {Undefined})
    BY AppStoreAssumption DEF AppStoreAssumption
  <2>2. \A list \in Seq(Tabs \cup {Undefined}) : list \in Seq(Workspaces \cup Tabs \cup {Undefined})
    OBVIOUS
  <2> QED BY <2>1, <2>2
<1>2. ErrorBody # None /\ None \notin Seq(Tabs \cup {Undefined})
  BY AppStoreAssumption DEF AppStoreAssumption
<1>3. None \notin Bodies
  BY <1>2 DEF Bodies
<1>4. /\ None \notin Workspaces /\ None \notin Tabs
      /\ Undefined \notin Workspaces /\ Undefined \notin Tabs /\ Undefined # None
  BY AppStoreAssumption DEF AppStoreAssumption
<1> QED BY <1>1, <1>2, <1>3, <1>4 DEF Spaces

-----------------------------------------------------------------------------
(* The helpers *)

LEMMA ListOfTyped ==
    ASSUME ListsOK, NEW w \in Spaces \cup {None}
    PROVE  ListOf(w) \in Bodies
<1>1. <<>> \in Bodies
  BY DEF Bodies
<1>2. CASE w = None
  BY <1>1, <1>2 DEF ListOf
<1>3. CASE w \in Spaces
  <2>1. sessions[w] \in Bodies \cup {None}
    BY <1>3 DEF ListsOK
  <2> QED BY <1>1, <2>1 DEF ListOf
<1> QED BY <1>2, <1>3

LEMMA FirstIdTyped ==
    ASSUME NEW list \in Bodies
    PROVE  FirstId(list) \in Tabs \cup {None}
<1>1. list # ErrorBody /\ list # <<>> => Head(list) \in Tabs \cup {Undefined}
  BY DEF Bodies
<1> QED BY <1>1, AssumedIds DEF FirstId

LEMMA NextActiveTyped ==
    ASSUME ViewOK, NEW w \in Spaces, NEW list \in Bodies
    PROVE  NextActive(w, list) \in Tabs \cup {None}
BY FirstIdTyped DEF NextActive, ViewOK

LEMMA ClearAlertsTyped ==
    ASSUME AlertsOK, NEW S, ClearAlerts(S)
    PROVE  unread' \subseteq Tabs /\ toasts' \in Seq(ToastTypes)
<1>1. toasts \in Seq(ToastTypes)
  BY DEF AlertsOK
<1>2. \A S2 : KeepIn(toasts, S2) \in Seq(ToastTypes)
  BY <1>1, KeepInIs
<1> QED BY <1>2 DEF ClearAlerts, AlertsOK

LEMMA CancelTyped ==
    ASSUME AlertsOK, NEW S, CancelTracking(S)
    PROVE  track' \in [Tabs -> {"none", "short", "long"}] /\ timers' \subseteq Tabs
BY DEF CancelTracking, AlertsOK

LEMMA SeenTyped ==
    ASSUME AlertsOK, NEW S, Seen(S)
    PROVE  AlertsOK'
BY ClearAlertsTyped, CancelTyped DEF Seen, AlertsOK

LEMMA SendTyped ==
    ASSUME CallsOK, NEW op, NEW w, NEW t, Send(op, w, t), CallOK(Call(op, w, t, "sent", <<>>))
    PROVE  CallsOK'
<1> DEFINE d == CHOOSE c \in Calls : call[c] = NoCall
           k == Call(op, w, t, "sent", <<>>)
<1>1. d \in Calls
  BY DEF Send
<1>2. call' = [call EXCEPT ![d] = k]
  BY DEF Send
<1> HIDE DEF d, k
<1>3. \A c \in Calls : call'[c] = call[c] \/ call'[c] = k
  BY <1>1, <1>2 DEF CallsOK
<1>4. CallOK(k)
  BY DEF k
<1> QED BY <1>2, <1>3, <1>4 DEF CallsOK

LEMMA PutTyped ==
    ASSUME CallsOK, NEW c \in Calls, NEW k, CallOK(k), call' = [call EXCEPT ![c] = k]
    PROVE  CallsOK'
<1>1. \A d \in Calls : call'[d] = call[d] \/ call'[d] = k
  BY DEF CallsOK
<1> QED BY <1>1 DEF CallsOK

LEMMA NoCallTyped == CallOK(NoCall)
BY DEF CallOK, CallTypes, CallOps, NoCall, Call

LEMMA DoneTyped ==
    ASSUME CallsOK, NEW c \in Calls, Done(c)
    PROVE  CallsOK'
BY NoCallTyped, PutTyped DEF Done

LEMMA RequestTyped ==
    ASSUME TypeInv, NEW op, NEW w, NEW t, Request(op, w, t),
           CallOK(Call(op, w, t, "sent", <<>>))
    PROVE  TypeInv'
<1>1. CallsOK'
  BY SendTyped DEF Request, TypeInv, ServerOK
<1> QED
  BY <1>1 DEF Request, TypeInv, ServerOK, StoreOK, RowsOK, ListsOK, ViewOK, AlertsOK,
              serverVars, listVars, viewVars, alertVars

LEMMA LocalTyped ==
    ASSUME ServerOK, Local
    PROVE  ServerOK'
BY DEF Local, serverVars, ServerOK, RowsOK, CallsOK

-----------------------------------------------------------------------------
LEMMA ActivateTyped ==
    ASSUME StoreOK, NEW t \in Tabs \cup {Undefined}, Activate(t), visible' = visible
    PROVE  StoreOK'
<1>1. AlertsOK'
  BY SeenTyped DEF Activate, StoreOK
<1>2. ViewOK'
  BY DEF Activate, StoreOK, ViewOK
<1> QED BY <1>1, <1>2 DEF Activate, StoreOK, ListsOK, listVars

LEMMA ShowFromToastTyped ==
    ASSUME StoreOK, NEW w \in Spaces, NEW t \in Tabs, NEW list \in Bodies,
           ShowFromToast(w, t, list), visible' = visible
    PROVE  StoreOK'
<1>1. CASE list = ErrorBody /\ activeSessionByWorkspace[w] # Undefined
  BY <1>1 DEF ShowFromToast, StoreOK, ListsOK, ViewOK, AlertsOK, listVars, viewVars, alertVars
<1>2. CASE ~(list = ErrorBody /\ activeSessionByWorkspace[w] # Undefined)
  <2>1. AlertsOK'
    BY <1>2, SeenTyped DEF ShowFromToast, StoreOK
  <2>2. ViewOK'
    BY <1>2 DEF ShowFromToast, StoreOK, ViewOK
  <2>3. ListsOK'
    BY <1>2 DEF ShowFromToast, StoreOK, ListsOK
  <2> QED BY <2>1, <2>2, <2>3 DEF StoreOK
<1> QED BY <1>1, <1>2

LEMMA UserStepTyped ==
    ASSUME TypeInv, UserStep
    PROVE  TypeInv'
<1>1. ASSUME NEW op \in CallOps, NEW w \in Spaces \cup {None}, NEW t \in Tabs \cup {None,
        Undefined},
             op \in {"poll", "click", "create", "first", "drop"} => w \in Spaces,
             op = "click" => t \in Tabs,
             op = "close" => t \in Tabs \cup {Undefined}
      PROVE  CallOK(Call(op, w, t, "sent", <<>>))
  BY <1>1 DEF CallOK, CallTypes, Call
<1>2. CASE NewTab
  BY <1>1, <1>2, RequestTyped DEF NewTab, CallOps, Orphan, TypeInv, StoreOK, ViewOK
<1>3. CASE NewSpace
  BY <1>1, <1>3, RequestTyped DEF NewSpace, CallOps
<1>4. CASE Hide
  BY <1>4, LocalTyped DEF Hide, TypeInv, StoreOK, ListsOK, ViewOK, AlertsOK, listVars, viewVars,
          alertVars
<1>5. CASE Show
  <2>1. AlertsOK'
    BY <1>5, SeenTyped DEF Show, TypeInv, StoreOK, AlertsOK, alertVars
  <2> QED BY <1>5, <2>1, LocalTyped DEF Show, TypeInv, StoreOK, ListsOK, ViewOK, listVars, viewVars
<1>6. ASSUME NEW t \in Tabs \cup {Undefined}, CloseTab(t) PROVE TypeInv'
  BY <1>1, <1>6, RequestTyped DEF CloseTab, CallOps
<1>7. ASSUME NEW t \in Tabs \cup {Undefined}, Select(t) PROVE TypeInv'
  BY <1>7, ActivateTyped, LocalTyped DEF Select, TypeInv
<1>8. ASSUME NEW w \in Spaces, DropSpace(w) PROVE TypeInv'
  BY <1>1, <1>8, RequestTyped DEF DropSpace, CallOps
<1>9. ASSUME NEW w \in Spaces, Switch(w) PROVE TypeInv'
  <2>1. sessions[w] \in Bodies
    BY <1>9 DEF Switch, TypeInv, StoreOK, ListsOK
  <2>2. NextActive(w, sessions[w]) \in Tabs \cup {None}
    BY <2>1, NextActiveTyped DEF TypeInv, StoreOK
  <2>3. AlertsOK'
    BY <1>9, SeenTyped DEF Switch, TypeInv, StoreOK
  <2>4. ViewOK'
    BY <1>9, <2>2 DEF Switch, TypeInv, StoreOK, ViewOK
  <2> QED BY <1>9, <2>3, <2>4, LocalTyped DEF Switch, TypeInv, StoreOK, ListsOK, listVars
<1>10. ASSUME NEW t \in Tabs, NEW w \in Spaces, ClickToast(t, w) PROVE TypeInv'
  <2>1. CASE Activate(t) /\ Local /\ UNCHANGED visible
    BY <2>1, ActivateTyped, LocalTyped DEF TypeInv
  <2>2. CASE sessions[w] # None /\ ShowFromToast(w, t, sessions[w]) /\ Local /\ UNCHANGED visible
    <3>1. sessions[w] \in Bodies
      BY <2>2 DEF TypeInv, StoreOK, ListsOK
    <3> QED BY <2>2, <3>1, ShowFromToastTyped, LocalTyped DEF TypeInv
  <2>3. CASE Request("click", w, t)
    BY <1>1, <2>3, RequestTyped DEF CallOps
  <2> QED BY <1>10, <2>1, <2>2, <2>3 DEF ClickToast
<1> QED BY <1>2, <1>3, <1>4, <1>5, <1>6, <1>7, <1>8, <1>9, <1>10 DEF UserStep

-----------------------------------------------------------------------------
LEMMA IssueTyped ==
    ASSUME NEW S, NEW id, Issue(S, id), S \subseteq Workspaces \cup Tabs,
           issued \subseteq Workspaces \cup Tabs
    PROVE  issued' \subseteq Workspaces \cup Tabs
BY DEF Issue

LEMMA AnswerTyped ==
    ASSUME CallsOK, NEW c \in Calls, NEW reply \in Seq(Replies) \cup {ErrorBody}, Answer(c, reply),
           call[c].op \in {"poll", "click"} => reply \in Bodies,
           call[c].op \in {"create", "first"} => \E t \in Tabs \cup {Undefined} : reply = <<t>>,
           call[c].op = "space" => \E w \in Spaces : reply = <<w>>
    PROVE  CallsOK'
<1> DEFINE k == Call(call[c].op, call[c].ws, call[c].tab, "answered", reply)
<1>1. CallOK(call[c])
  BY DEF CallsOK
<1>2. CallOK(k)
  BY <1>1 DEF CallOK, CallTypes, Call
<1> HIDE DEF k
<1>3. call' = [call EXCEPT ![c] = k]
  BY DEF Answer, k
<1> QED BY <1>2, <1>3, PutTyped

(* A refusal holds what its continuation reads. *)
LEMMA RefusalTyped ==
    ASSUME CallsOK, NEW c \in Calls, Answer(c, Refusal(call[c].op))
    PROVE  CallsOK'
<1>1. PICK op : op = call[c].op
  OBVIOUS
<1>2. CASE op \in {"poll", "click"}
  <2>1. Refusal(op) = ErrorBody
    BY <1>2 DEF Refusal
  <2> QED BY <1>1, <1>2, <2>1, AnswerTyped DEF Bodies
<1>3. CASE op \in {"create", "first", "space"}
  <2>1. Refusal(op) = <<Undefined>>
    BY <1>3 DEF Refusal
  <2>2. <<Undefined>> \in Seq(Replies)
    BY DEF Replies
  <2>3. /\ \E t \in Tabs \cup {Undefined} : <<Undefined>> = <<t>>
        /\ \E w \in Spaces : <<Undefined>> = <<w>>
    BY DEF Spaces
  <2> QED BY <1>1, <1>3, <2>1, <2>2, <2>3, AnswerTyped
<1>4. CASE op \notin {"poll", "click", "create", "first", "space"}
  <2>1. Refusal(op) = <<>>
    BY <1>4 DEF Refusal
  <2>2. <<>> \in Seq(Replies)
    OBVIOUS
  <2> QED BY <1>1, <1>4, <2>1, <2>2, AnswerTyped
<1> QED BY <1>2, <1>3, <1>4

LEMMA ServeTyped ==
    ASSUME TypeInv, NEW c \in Calls, Serve(c)
    PROVE  TypeInv'
<1> DEFINE k == call[c]
<1>1. StoreOK'
  BY DEF Serve, TypeInv, StoreOK, ListsOK, ViewOK, AlertsOK, listVars, viewVars, alertVars
<1>2. /\ k.op \in {"poll", "click", "create", "first", "drop"} => k.ws \in Spaces
      /\ RowsOK /\ CallsOK
  BY DEF TypeInv, ServerOK, CallsOK, CallOK
<1>r. <<>> \in Seq(Replies) /\ \A x \in Replies : <<x>> \in Seq(Replies)
  OBVIOUS
<1>3. CASE /\ k.op \in {"poll", "click"} /\ UNCHANGED serverVars
           /\ Answer(c, IF k.ws = Undefined THEN <<>> ELSE tabs[k.ws])
  <2>1. PICK list : list = IF k.ws = Undefined THEN <<>> ELSE tabs[k.ws]
    OBVIOUS
  <2>2. list \in Seq(Tabs)
    BY <1>2, <1>3, <2>1 DEF RowsOK, Spaces
  <2>3. CallsOK'
    <3>1. list \in Seq(Replies) /\ list \in Seq(Tabs \cup {Undefined})
      BY <2>2 DEF Replies
    <3> QED BY <1>2, <1>3, <2>1, <3>1, AnswerTyped DEF Bodies
  <2> QED BY <1>1, <1>2, <1>3, <2>3 DEF TypeInv, ServerOK, RowsOK, serverVars
<1>4. ASSUME NEW t \in Tabs, k.op \in {"create", "first"}, k.ws \in ToSet(spaces), Issue(Tabs, t),
             tabs' = [tabs EXCEPT ![k.ws] = Append(@, t)], Answer(c, <<t>>), spaces' = spaces
      PROVE  TypeInv'
  <2>1. CallsOK'
    <3>1. <<t>> \in Seq(Replies) /\ \E u \in Tabs \cup {Undefined} : <<t>> = <<u>>
      BY <1>r DEF Replies
    <3> QED BY <1>2, <1>4, <3>1, AnswerTyped
  <2>2. RowsOK'
    <3>1. k.ws \in Workspaces
      BY <1>2, <1>4, ToSetFacts DEF RowsOK
    <3>2. Append(tabs[k.ws], t) \in Seq(Tabs)
      BY <1>2, <3>1 DEF RowsOK
    <3>3. issued' \subseteq Workspaces \cup Tabs
      BY <1>2, <1>4, IssueTyped DEF RowsOK
    <3> QED BY <1>2, <1>4, <3>2, <3>3 DEF RowsOK
  <2> QED BY <1>1, <2>1, <2>2 DEF TypeInv, ServerOK
<1>5. CASE Answer(c, Refusal(k.op)) /\ UNCHANGED serverVars
  <2>1. CallsOK'
    BY <1>2, <1>5, RefusalTyped
  <2> QED BY <1>1, <1>2, <1>5, <2>1 DEF TypeInv, ServerOK, RowsOK, serverVars
<1>6. CASE /\ k.op = "close" /\ Answer(c, <<>>) /\ UNCHANGED <<spaces, issued>>
           /\ tabs' = [w \in Workspaces |-> Without(tabs[w], k.tab)]
  <2>1. CallsOK'
    BY <1>2, <1>6, <1>r, AnswerTyped
  <2>2. \A w \in Workspaces : Without(tabs[w], k.tab) \in Seq(Tabs)
    BY <1>2, WithoutIs DEF RowsOK
  <2> QED BY <1>1, <1>2, <1>6, <2>1, <2>2 DEF TypeInv, ServerOK, RowsOK
<1>7. ASSUME NEW w \in Workspaces, k.op = "space", Issue(Workspaces, w),
             spaces' = Append(spaces, w), Answer(c, <<w>>), tabs' = tabs
      PROVE  TypeInv'
  <2>1. CallsOK'
    <3>1. <<w>> \in Seq(Replies) /\ \E v \in Spaces : <<w>> = <<v>>
      BY <1>r DEF Replies, Spaces
    <3> QED BY <1>2, <1>7, <3>1, AnswerTyped
  <2>2. RowsOK'
    <3>1. Append(spaces, w) \in Seq(Workspaces)
      BY <1>2 DEF RowsOK
    <3>2. issued' \subseteq Workspaces \cup Tabs
      BY <1>2, <1>7, IssueTyped DEF RowsOK
    <3> QED BY <1>2, <1>7, <3>1, <3>2 DEF RowsOK
  <2> QED BY <1>1, <2>1, <2>2 DEF TypeInv, ServerOK
<1>8. CASE /\ k.op = "drop" /\ Answer(c, <<>>) /\ issued' = issued
           /\ spaces' = Without(spaces, k.ws)
           /\ tabs' = [w \in Workspaces |-> IF w = k.ws THEN <<>> ELSE tabs[w]]
  <2>1. CallsOK'
    BY <1>2, <1>8, <1>r, AnswerTyped
  <2>2. Without(spaces, k.ws) \in Seq(Workspaces)
    BY <1>2, WithoutIs DEF RowsOK
  <2> QED BY <1>1, <1>2, <1>8, <2>1, <2>2 DEF TypeInv, ServerOK, RowsOK
<1> QED
  BY <1>3, <1>4, <1>5, <1>6, <1>7, <1>8 DEF Serve

LEMMA TroubleTyped ==
    ASSUME TypeInv, Trouble
    PROVE  TypeInv'
<1>1. ASSUME NEW c \in Calls, Fail(c) PROVE TypeInv'
  <2>1. CallsOK'
    BY <1>1, DoneTyped DEF Fail, TypeInv, ServerOK
  <2> QED BY <1>1, <2>1 DEF Fail, Background, TypeInv, ServerOK, StoreOK, RowsOK, ListsOK,
          ViewOK, AlertsOK,
              serverVars, listVars, viewVars, alertVars
<1>3. ASSUME NEW c \in Calls, Refuse(c) PROVE TypeInv'
  <2>1. CallsOK'
    BY <1>3, RefusalTyped DEF Refuse, TypeInv, ServerOK
  <2> QED BY <1>3, <2>1 DEF Refuse, Background, TypeInv, ServerOK, StoreOK, RowsOK, ListsOK,
          ViewOK, AlertsOK,
              serverVars, listVars, viewVars, alertVars
<1>2. CASE Foreign
  <2>1. StoreOK' /\ CallsOK'
    BY <1>2 DEF Foreign, TypeInv, ServerOK, StoreOK, CallsOK, ListsOK, ViewOK, AlertsOK,
                listVars, viewVars, alertVars
  <2>2. RowsOK /\ ToSet(spaces) \subseteq Workspaces
    BY ToSetFacts DEF TypeInv, ServerOK, RowsOK
  <2>3. ASSUME NEW w \in Workspaces, NEW t, tabs' = [tabs EXCEPT ![w] = Without(@, t)],
               UNCHANGED <<spaces, issued>>
        PROVE  RowsOK'
    <3>1. Without(tabs[w], t) \in Seq(Tabs)
      BY <2>2, WithoutIs DEF RowsOK
    <3> QED BY <2>2, <2>3, <3>1 DEF RowsOK
  <2>4. ASSUME NEW w \in Workspaces, NEW t \in Tabs, Issue(Tabs, t),
               tabs' = [tabs EXCEPT ![w] = Append(@, t)], spaces' = spaces
        PROVE  RowsOK'
    BY <2>2, <2>4, IssueTyped DEF RowsOK
  <2>5. ASSUME NEW w \in Workspaces, spaces' = Without(spaces, w),
          tabs' = [tabs EXCEPT ![w] = <<>>],
               issued' = issued
        PROVE  RowsOK'
    <3>1. Without(spaces, w) \in Seq(Workspaces)
      BY <2>2, WithoutIs DEF RowsOK
    <3> QED BY <2>2, <2>5, <3>1 DEF RowsOK
  <2>6. RowsOK'
    BY <1>2, <2>2, <2>3, <2>4, <2>5 DEF Foreign
  <2> QED BY <2>1, <2>6 DEF TypeInv, ServerOK
<1> QED BY <1>1, <1>2, <1>3 DEF Trouble

-----------------------------------------------------------------------------
LEMMA AfterCloseTyped ==
    ASSUME ViewOK, NEW w \in Spaces, NEW t, NEW next \in Tabs \cup {None, Undefined}
    PROVE  AfterClose(w, t, next) \in [Spaces -> Tabs \cup {Undefined}]
BY DEF AfterClose, Orphan, ViewOK

(* What an answer holds when its continuation runs *)
LEMMA AnsweredTyped ==
    ASSUME CallsOK, NEW c \in Calls, NEW op, Answered(c, op)
    PROVE  /\ op \in {"poll", "click", "create", "first", "drop"} => call[c].ws \in Spaces
           /\ op = "click" => call[c].tab \in Tabs
           /\ op \in {"poll", "click"} => call[c].reply \in Bodies
           /\ op \in {"create", "first"} => Head(call[c].reply) \in Tabs \cup {Undefined}
           /\ op = "space" => Head(call[c].reply) \in Spaces
<1>1. CallOK(call[c]) /\ call[c].op = op /\ call[c].at = "answered"
  BY DEF Answered, CallsOK
<1>2. \A x : Head(<<x>>) = x
  OBVIOUS
<1>3. op \in {"poll", "click"} => call[c].reply \in Bodies
  BY <1>1 DEF CallOK
<1>4. op \in {"create", "first"} => Head(call[c].reply) \in Tabs \cup {Undefined}
  BY <1>1, <1>2 DEF CallOK
<1>5. op = "space" => Head(call[c].reply) \in Spaces
  BY <1>1, <1>2 DEF CallOK
<1> QED BY <1>1, <1>3, <1>4, <1>5 DEF CallOK

LEMMA ApplyTyped ==
    ASSUME TypeInv, NEW c \in Calls, Apply(c)
    PROVE  TypeInv'
<1> DEFINE w == call[c].ws
           t == Head(call[c].reply)
<1>0. RowsOK /\ CallsOK /\ ListsOK /\ ViewOK /\ AlertsOK /\ StoreOK /\ visible \in BOOLEAN
  BY DEF TypeInv, ServerOK, StoreOK
<1>1. ASSUME Done(c), Background PROVE ServerOK' /\ visible' \in BOOLEAN
  <2>1. CallsOK'
    BY <1>0, <1>1, DoneTyped
  <2> QED BY <1>0, <1>1, <2>1 DEF Background, serverVars, ServerOK, RowsOK
<1>2. CASE ApplyPoll(c)
  <2>1. w \in Spaces /\ call[c].reply \in Bodies
    BY <1>0, <1>2, AnsweredTyped DEF ApplyPoll
  <2>2. ListsOK'
    BY <1>0, <1>2, <2>1 DEF ApplyPoll, ListsOK
  <2> QED BY <1>0, <1>1, <1>2, <2>2 DEF ApplyPoll, TypeInv, StoreOK, ViewOK, AlertsOK, viewVars,
          alertVars
<1>3. CASE ApplyClick(c)
  <2>1. w \in Spaces /\ call[c].tab \in Tabs /\ call[c].reply \in Bodies
    BY <1>0, <1>3, AnsweredTyped DEF ApplyClick
  <2>2. StoreOK'
    BY <1>0, <1>3, <2>1, ShowFromToastTyped DEF ApplyClick, Background
  <2> QED BY <1>1, <1>3, <2>2 DEF ApplyClick, TypeInv
<1>4. CASE ApplyCreate(c)
  <2>1. w \in Spaces /\ t \in Tabs \cup {Undefined}
    BY <1>0, <1>4, AnsweredTyped DEF ApplyCreate
  <2>2. CASE ListOf(w) = ErrorBody
    BY <1>0, <1>1, <1>4, <2>2 DEF ApplyCreate, TypeInv, StoreOK, AlertsOK, alertVars, ListsOK,
          ViewOK
  <2>3. CASE ListOf(w) # ErrorBody
    <3>1. ListOf(w) \in Seq(Tabs \cup {Undefined})
      BY <1>0, <2>1, <2>3, ListOfTyped DEF Bodies
    <3>2. Append(ListOf(w), t) \in Bodies
      BY <2>1, <3>1 DEF Bodies
    <3>3. ListsOK'
      BY <1>0, <1>4, <2>1, <2>3, <3>2 DEF ApplyCreate, ListsOK
    <3>4. ViewOK'
      BY <1>0, <1>4, <2>1, <2>3 DEF ApplyCreate, ViewOK
    <3> QED BY <1>0, <1>1, <1>4, <3>3, <3>4 DEF ApplyCreate, TypeInv, StoreOK, AlertsOK, alertVars
  <2> QED BY <2>2, <2>3
<1>5. CASE ApplyClose(c)
  <2> DEFINE u == call[c].tab
             v == activeWorkspaceId
             left == Without(ListOf(v), u)
             next == IF activeSessionId = u THEN FirstId(left) ELSE activeSessionId
  <2>1. CASE Orphan(v) \/ ListOf(v) = ErrorBody
    <3>1. AlertsOK'
      BY <1>0, <1>5, <2>1, CancelTyped DEF ApplyClose, AlertsOK
    <3> QED BY <1>0, <1>1, <1>5, <2>1, <3>1
            DEF ApplyClose, TypeInv, StoreOK, ListsOK, ViewOK, viewVars
  <2>2. CASE ~(Orphan(v) \/ ListOf(v) = ErrorBody)
    <3>1. v \in Spaces
      BY <1>0, <2>2 DEF ViewOK, Orphan
    <3>2. ListOf(v) \in Seq(Tabs \cup {Undefined})
      BY <1>0, <2>2, <3>1, ListOfTyped DEF Bodies
    <3>3. left \in Seq(Tabs \cup {Undefined}) /\ left \in Bodies
      BY <3>2, WithoutIs DEF Bodies
    <3>4. next \in Tabs \cup {None, Undefined}
      BY <1>0, <3>3, FirstIdTyped DEF ViewOK
    <3>5. /\ CancelTracking({u}) /\ ClearAlerts({u})
          /\ sessions' = [sessions EXCEPT ![v] = left] /\ workspaces' = workspaces
          /\ activeSessionId' = next /\ activeWorkspaceId' = v
          /\ activeSessionByWorkspace' = AfterClose(v, u, next)
          /\ Done(c) /\ Background
      BY <1>5, <2>2 DEF ApplyClose
    <3> HIDE DEF left, next
    <3>6. AlertsOK'
      BY <1>0, <3>5, CancelTyped, ClearAlertsTyped DEF AlertsOK
    <3>7. ListsOK'
      BY <1>0, <3>3, <3>5 DEF ListsOK
    <3>8. ViewOK'
      BY <1>0, <3>1, <3>4, <3>5, AfterCloseTyped DEF ViewOK
    <3> QED BY <1>1, <3>5, <3>6, <3>7, <3>8 DEF TypeInv, StoreOK
  <2> QED BY <2>1, <2>2
<1>6. CASE ApplySpace(c)
  <2> DEFINE k == Call("first", t, None, "sent", <<>>)
  <2>1. t \in Spaces
    BY <1>0, <1>6, AnsweredTyped DEF ApplySpace
  <2>2. CallOK(k)
    BY <2>1 DEF CallOK, CallTypes, CallOps, Call
  <2>3. CallsOK'
    <3> HIDE DEF k
    <3>1. call' = [call EXCEPT ![c] = k]
      BY <1>6 DEF ApplySpace, k
    <3> QED BY <1>0, <2>2, <3>1, PutTyped
  <2> QED BY <1>0, <1>6, <2>3 DEF ApplySpace, Background, TypeInv, ServerOK, StoreOK, RowsOK,
          ListsOK, ViewOK,
              AlertsOK, serverVars, listVars, viewVars, alertVars
<1>7. CASE ApplyFirst(c)
  <2>1. w \in Spaces /\ t \in Tabs \cup {Undefined}
    BY <1>0, <1>7, AnsweredTyped DEF ApplyFirst
  <2>2. <<t>> \in Bodies /\ Append(workspaces, w) \in Seq(Spaces)
    BY <1>0, <2>1 DEF ListsOK, Bodies
  <2>3. ListsOK'
    BY <1>0, <1>7, <2>1, <2>2 DEF ApplyFirst, ListsOK
  <2>4. ViewOK'
    BY <1>0, <1>7, <2>1 DEF ApplyFirst, ViewOK
  <2> QED BY <1>0, <1>1, <1>7, <2>3, <2>4 DEF ApplyFirst, TypeInv, StoreOK, AlertsOK, alertVars
<1>8. CASE ApplyDrop(c)
  <2> DEFINE left == Without(workspaces, w)
             next == IF left = <<>> THEN None ELSE Head(left)
  <2>1. w \in Spaces
    BY <1>0, <1>8, AnsweredTyped DEF ApplyDrop
  <2>2. CASE ListOf(w) = ErrorBody
    BY <1>0, <1>1, <1>8, <2>2
       DEF ApplyDrop, TypeInv, StoreOK, ListsOK, ViewOK, AlertsOK, listVars, viewVars, alertVars
  <2>3. CASE ListOf(w) # ErrorBody
    <3>1. left \in Seq(Spaces)
      BY <1>0, WithoutIs DEF ListsOK
    <3>2. next \in Spaces \cup {None}
      BY <3>1
    <3>3. FirstId(ListOf(next)) \in Tabs \cup {None}
      BY <1>0, <3>2, ListOfTyped, FirstIdTyped
    <3>4. /\ workspaces' = left /\ sessions' = [sessions EXCEPT ![w] = None]
          /\ activeWorkspaceId' = next
          /\ activeSessionByWorkspace' = [activeSessionByWorkspace EXCEPT ![w] = Undefined]
          /\ activeSessionId' =
                  IF Orphan(next) THEN None
                  ELSE IF activeSessionByWorkspace'[next] # Undefined
                          THEN activeSessionByWorkspace'[next]
                  ELSE FirstId(ListOf(next))
          /\ Seen(ToSet(ListOf(w))) /\ Done(c) /\ Background
      BY <1>8, <2>3 DEF ApplyDrop
    <3> HIDE DEF left, next
    <3>5. AlertsOK'
      BY <1>0, <3>4, SeenTyped
    <3>6. ListsOK'
      BY <1>0, <2>1, <3>1, <3>4 DEF ListsOK
    <3>7. activeSessionByWorkspace' \in [Spaces -> Tabs \cup {Undefined}]
      BY <1>0, <3>4 DEF ViewOK
    <3>8. ~Orphan(next) => next \in Spaces
      BY <3>2 DEF Orphan
    <3>9. ViewOK'
      BY <3>2, <3>3, <3>4, <3>7, <3>8 DEF ViewOK
    <3> QED BY <1>1, <3>4, <3>5, <3>6, <3>9 DEF TypeInv, StoreOK
  <2> QED BY <2>2, <2>3
<1> QED BY <1>2, <1>3, <1>4, <1>5, <1>6, <1>7, <1>8 DEF Apply

-----------------------------------------------------------------------------
LEMMA PushToastTyped ==
    ASSUME toasts \in Seq(ToastTypes), NEW t \in Tabs, NEW w \in Spaces, PushToast(t, w)
    PROVE  toasts' \in Seq(ToastTypes)
<1> DEFINE others == {x \in ToSet(toasts) : x.tab # t}
           old == KeepIn(toasts, others)
           new == [tab |-> t, ws |-> w]
           kept == Append(old, new)
<1>1. old \in Seq(ToastTypes)
  BY KeepInIs
<1>2. new \in ToastTypes
  BY DEF ToastTypes
<1>4. toasts' = kept \/ toasts' = Tail(kept)
  BY DEF PushToast
<1> HIDE DEF old, new
<1>3. kept \in Seq(ToastTypes) /\ kept # <<>>
  BY <1>1, <1>2
<1> HIDE DEF kept
<1> QED BY <1>3, <1>4

LEMMA ActivityTyped ==
    ASSUME TypeInv, NEW t \in Tabs, Output(t) \/ Fire(t)
    PROVE  TypeInv'
<1>0. AlertsOK /\ StoreOK
  BY DEF TypeInv, StoreOK
<1>1. CASE Output(t)
  <2>1. AlertsOK'
    <3>1. CASE OnDisplay(t)
      BY <1>0, <1>1, <3>1, CancelTyped DEF Output, AlertsOK
    <3>2. CASE ~OnDisplay(t)
      <4>1. PICK burst \in IF track[t] = "none" THEN {"short"} ELSE {track[t], "long"} :
                track' = [track EXCEPT ![t] = burst]
        BY <1>1, <3>2 DEF Output
      <4>2. burst \in {"none", "short", "long"}
        BY <1>0, <4>1 DEF AlertsOK
      <4> QED BY <1>0, <1>1, <3>2, <4>1, <4>2 DEF Output, AlertsOK
    <3> QED BY <3>1, <3>2
  <2> QED BY <1>1, <2>1, LocalTyped DEF Output, TypeInv, StoreOK, ListsOK, ViewOK, listVars,
          viewVars
<1>2. CASE Fire(t)
  <2>1. CancelTracking({t})
    BY <1>2 DEF Fire
  <2>2. track' \in [Tabs -> {"none", "short", "long"}] /\ timers' \subseteq Tabs
    BY <1>0, <2>1, CancelTyped
  <2>3. unread' \subseteq Tabs
    BY <1>0, <1>2 DEF Fire, AlertsOK
  <2>4. toasts' \in Seq(ToastTypes)
    <3>1. toasts' = toasts \/ \E w \in Spaces : PushToast(t, w)
      BY <1>2 DEF Fire, Announce, Homes
    <3> QED BY <1>0, <3>1, PushToastTyped DEF AlertsOK
  <2>5. AlertsOK'
    BY <2>2, <2>3, <2>4 DEF AlertsOK
  <2> QED BY <1>2, <2>5, LocalTyped DEF Fire, TypeInv, StoreOK, ListsOK, ViewOK, listVars, viewVars
<1> QED BY <1>1, <1>2

LEMMA DismissTyped ==
    ASSUME TypeInv, NEW x, Dismiss(x)
    PROVE  TypeInv'
<1>1. Without(toasts, x) \in Seq(ToastTypes)
  BY WithoutIs DEF TypeInv, StoreOK, AlertsOK
<1> QED BY <1>1, LocalTyped DEF Dismiss, TypeInv, StoreOK, AlertsOK, ListsOK, ViewOK, listVars,
        viewVars

LEMMA StepTyped == TypeInv /\ [Next]_vars => TypeInv'
<1> SUFFICES ASSUME TypeInv, [Next]_vars PROVE TypeInv'
  OBVIOUS
<1>1. CASE UNCHANGED vars
  BY <1>1 DEF vars, serverVars, listVars, viewVars, alertVars, TypeInv, ServerOK, StoreOK,
              RowsOK, CallsOK, ListsOK, ViewOK, AlertsOK
<1>2. CASE Poll
  <2>1. activeWorkspaceId \in Spaces
    BY <1>2 DEF Poll, Orphan, TypeInv, StoreOK, ViewOK
  <2>2. CallOK(Call("poll", activeWorkspaceId, None, "sent", <<>>))
    BY <2>1 DEF CallOK, CallTypes, CallOps, Call
  <2> QED BY <1>2, <2>2, RequestTyped DEF Poll
<1>3. CASE Quiet
  BY <1>3, ServeTyped, ApplyTyped, ActivityTyped, DismissTyped DEF Quiet
<1> QED BY <1>1, <1>2, <1>3, UserStepTyped, TroubleTyped DEF Next

LEMMA InitTyped == Init => TypeInv
<1> SUFFICES ASSUME Init PROVE TypeInv
  OBVIOUS
<1>1. /\ StartSpaces \in Seq(Workspaces) /\ StartTabs \in [Workspaces -> Seq(Tabs)]
      /\ StartSpaces[1] \in Workspaces
      /\ ToSet(StartSpaces) \subseteq Workspaces
  <2>1. /\ StartSpaces \in Seq(Workspaces) /\ StartTabs \in [Workspaces -> Seq(Tabs)]
        /\ Len(StartSpaces) > 0
    BY AppStoreAssumption DEF AppStoreAssumption
  <2>2. StartSpaces[1] \in Workspaces
    BY <2>1
  <2> QED BY <2>1, <2>2, ToSetFacts
<1>2. RowsOK
  <2>1. \A w \in Workspaces : ToSet(StartTabs[w]) \subseteq Tabs
    BY <1>1, ToSetFacts
  <2> QED BY <1>1, <2>1 DEF Init, RowsOK
<1>3. CallsOK
  BY NoCallTyped DEF Init, CallsOK
<1>4. PICK refused \in SUBSET ToSet(StartSpaces) :
        /\ sessions = [w \in Spaces |-> IF w \in refused THEN ErrorBody
                                       ELSE IF w \in ToSet(StartSpaces) THEN StartTabs[w] ELSE None]
        /\ activeSessionByWorkspace = [w \in Spaces |->
                IF w \in ToSet(StartSpaces) \ refused /\ StartTabs[w] # <<>> THEN StartTabs[w][1]
                ELSE Undefined]
  BY DEF Init
<1>5. ListsOK
  <2>1. \A w \in Workspaces : StartTabs[w] \in Bodies
    BY <1>1 DEF Bodies
  <2>2. sessions \in [Spaces -> Bodies \cup {None}]
    BY <1>1, <1>4, <2>1 DEF Bodies
  <2>3. workspaces \in Seq(Spaces)
    BY <1>1 DEF Init, Spaces
  <2> QED BY <2>2, <2>3 DEF ListsOK
<1>6. ViewOK
  <2>1. \A w \in Workspaces : StartTabs[w] # <<>> => StartTabs[w][1] \in Tabs
    BY <1>1
  <2>2. activeSessionByWorkspace \in [Spaces -> Tabs \cup {Undefined}]
    BY <1>1, <1>4, <2>1
  <2>3. activeWorkspaceId \in Spaces /\ activeWorkspaceId = StartSpaces[1]
    BY <1>1 DEF Init, Spaces
  <2>4. sessions[StartSpaces[1]] \in Bodies
    <3>1. StartSpaces[1] \in ToSet(StartSpaces)
      <4>1. 1 \in DOMAIN StartSpaces
        BY <1>1, AppStoreAssumption DEF AppStoreAssumption
      <4> QED BY <4>1 DEF ToSet
    <3>2. sessions[StartSpaces[1]] \in {ErrorBody, StartTabs[StartSpaces[1]]}
      BY <1>1, <1>4, <3>1 DEF Spaces
    <3> QED BY <1>1, <3>2 DEF Bodies
  <2>5. activeSessionId \in Tabs \cup {None}
    BY <2>4, FirstIdTyped DEF Init
  <2> QED BY <2>2, <2>3, <2>5 DEF ViewOK
<1>7. AlertsOK
  BY DEF Init, AlertsOK
<1> QED BY <1>2, <1>3, <1>5, <1>6, <1>7 DEF Init, TypeInv, ServerOK, StoreOK

(* Whatever order requests are answered in, and whether they are answered  *)
(* with what was asked for or with the body of an error, every answer is   *)
(* put where its type belongs: a list of tabs, the body of an error, or    *)
(* none yet under a workspace, and what is active or remembered is an id,  *)
(* or the undefined one of an error's body.  A continuation that would     *)
(* iterate over an error's body throws before it stores anything           *)
(* (client.ts:5-11, appStore.ts:121-360).                                  *)
THEOREM StoreTyped == Spec => []TypeOK
<1> DEFINE Inv == /\ TypeInv /\ opened \subseteq Noisy /\ broken \in BOOLEAN
                  /\ raced \in BOOLEAN /\ acts \in 0 .. MaxActs
<1>1. Init => Inv
  <2>1. MaxActs \in Nat
    BY AppStoreAssumption DEF AppStoreAssumption
  <2> SUFFICES ASSUME Init PROVE Inv
    OBVIOUS
  <2>2. opened \subseteq Noisy /\ broken \in BOOLEAN
    BY DEF Init
  <2>3. raced \in BOOLEAN
    BY DEF Init
  <2>4. acts \in 0 .. MaxActs
    BY <2>1 DEF Init
  <2>5. TypeInv
    BY InitTyped
  <2> QED BY <2>2, <2>3, <2>4, <2>5
<1>2. Inv /\ [Next]_vars => Inv'
  <2> SUFFICES ASSUME Inv, [Next]_vars
               PROVE  /\ opened' \subseteq Noisy /\ broken' \in BOOLEAN
                      /\ raced' \in BOOLEAN /\ acts' \in 0 .. MaxActs
    BY StepTyped
  <2>1. opened' \subseteq Noisy /\ broken' \in BOOLEAN
    <3>1. CASE UNCHANGED vars
      BY <3>1 DEF vars
    <3>2. CASE Rendered
      BY <3>2 DEF Rendered
    <3> QED BY <3>1, <3>2 DEF Next, Counted, Polled, Calm
  <2>2. raced' \in BOOLEAN
    <3>1. raced' \in {raced, raced \/ InFlight, TRUE}
      BY DEF Next, vars, Counted, Polled, Calm
    <3>2. (raced \/ InFlight) \in BOOLEAN
      OBVIOUS
    <3> QED BY <3>1, <3>2
  <2>3. acts' \in 0 .. MaxActs
    <3>1. MaxActs \in Nat
      BY AppStoreAssumption DEF AppStoreAssumption
    <3>2. acts' = acts \/ (acts < MaxActs /\ acts' = acts + 1)
      BY DEF Next, vars, Counted, Polled, Calm
    <3> QED BY <3>1, <3>2
  <2> QED BY <2>1, <2>2, <2>3
<1>3. Inv => TypeOK
  <2> SUFFICES ASSUME Inv PROVE TypeOK
    OBVIOUS
  <2>1. call \in [Calls -> CallTypes]
    BY DEF TypeInv, ServerOK, CallsOK, CallOK
  <2>2. sessions \in [Spaces -> Seq(Tabs \cup {Undefined}) \cup {None, ErrorBody}]
    <3>1. Bodies \cup {None} = Seq(Tabs \cup {Undefined}) \cup {None, ErrorBody}
      BY DEF Bodies
    <3> QED BY <3>1 DEF TypeInv, StoreOK, ListsOK
  <2> QED BY <2>1, <2>2 DEF TypeOK, TypeInv, ServerOK, StoreOK, RowsOK, ListsOK, ViewOK, AlertsOK,
              CallTypes, CallOps, Replies, ToastTypes
<1> QED BY <1>1, <1>2, <1>3, PTL DEF Spec

-----------------------------------------------------------------------------
(* Activity *)

(* Each step treats the bursts in one of these ways. *)
LEMMA BurstSteps ==
    ASSUME TypeInv, [Next]_vars
    PROVE  \/ UNCHANGED <<track, timers>>
           \/ \E S : CancelTracking(S)
           \/ \E t \in Tabs, burst \in {"short", "long"} :
                timers' = timers \cup {t} /\ track' = [track EXCEPT ![t] = burst]
<1>0. track \in [Tabs -> {"none", "short", "long"}]
  BY DEF TypeInv, StoreOK, AlertsOK
<1>1. CASE UNCHANGED vars
  BY <1>1 DEF vars, alertVars
<1>2. CASE UserStep
  <2>1. CASE NewTab \/ NewSpace \/ Hide
    BY <2>1 DEF NewTab, NewSpace, Hide, Request, alertVars
  <2>2. CASE Show
    BY <2>2 DEF Show, Seen, alertVars
  <2>3. ASSUME NEW t \in Tabs \cup {Undefined}, CloseTab(t) \/ Select(t)
        PROVE  \/ UNCHANGED <<track, timers>>
               \/ \E S : CancelTracking(S)
    BY <2>3 DEF CloseTab, Select, Activate, Seen, Request, alertVars
  <2>4. ASSUME NEW w \in Spaces, DropSpace(w) \/ Switch(w)
        PROVE  \/ UNCHANGED <<track, timers>>
               \/ \E S : CancelTracking(S)
    BY <2>4 DEF DropSpace, Switch, Seen, Request, alertVars
  <2>5. ASSUME NEW t \in Tabs, NEW w \in Spaces, ClickToast(t, w)
        PROVE  \/ UNCHANGED <<track, timers>>
               \/ \E S : CancelTracking(S)
    BY <2>5 DEF ClickToast, Activate, ShowFromToast, Seen, Request, alertVars
  <2> QED BY <1>2, <2>1, <2>2, <2>3, <2>4, <2>5 DEF UserStep
<1>3. CASE Trouble \/ Poll
  BY <1>3 DEF Trouble, Foreign, Fail, Refuse, Poll, Request, alertVars
<1>4. ASSUME NEW c \in Calls, Serve(c) \/ Apply(c)
      PROVE  \/ UNCHANGED <<track, timers>>
             \/ \E S : CancelTracking(S)
  <2>1. CASE Serve(c)
    BY <2>1 DEF Serve, alertVars
  <2>2. CASE ApplyPoll(c) \/ ApplyCreate(c) \/ ApplySpace(c) \/ ApplyFirst(c)
    BY <2>2 DEF ApplyPoll, ApplyCreate, ApplySpace, ApplyFirst, alertVars
  <2>3. CASE ApplyClick(c)
    BY <2>3 DEF ApplyClick, ShowFromToast, Seen, alertVars
  <2>4. CASE ApplyClose(c)
    BY <2>4 DEF ApplyClose
  <2>5. CASE ApplyDrop(c)
    BY <2>5 DEF ApplyDrop, Seen, alertVars
  <2> QED BY <1>4, <2>1, <2>2, <2>3, <2>4, <2>5 DEF Apply
<1>5. ASSUME NEW t \in Tabs, Output(t) \/ Fire(t)
      PROVE  \/ \E S : CancelTracking(S)
             \/ \E burst \in {"short", "long"} :
                    timers' = timers \cup {t} /\ track' = [track EXCEPT ![t] = burst]
  <2>1. CASE Output(t)
    <3>1. CASE OnDisplay(t)
      BY <2>1, <3>1 DEF Output
    <3>2. CASE ~OnDisplay(t)
      BY <1>0, <2>1, <3>2 DEF Output
    <3> QED BY <3>1, <3>2
  <2>2. CASE Fire(t)
    BY <2>2 DEF Fire
  <2> QED BY <1>5, <2>1, <2>2
<1>6. ASSUME NEW x, Dismiss(x)
      PROVE  UNCHANGED <<track, timers>>
  BY <1>6 DEF Dismiss
<1> QED
  BY <1>1, <1>2, <1>3, <1>4, <1>5, <1>6 DEF Next, Quiet

(* A burst is tracked exactly while its idle timer is pending: a burst     *)
(* without one would never be noticed, a timer without one is left over    *)
(* from a tab that was viewed or deleted (cancelIdleTracking and the timer *)
(* of markSessionOutput, appStore.ts:34-47 and 378-395).                   *)
THEOREM BurstsHaveTimers == Spec => []TimersMatchBursts
<1> DEFINE Inv == TypeInv /\ TimersMatchBursts
<1>1. Init => Inv
  BY InitTyped DEF Init, TimersMatchBursts
<1>2. Inv /\ [Next]_vars => Inv'
  <2> SUFFICES ASSUME Inv, [Next]_vars PROVE TimersMatchBursts'
    BY StepTyped
  <2>0. track \in [Tabs -> {"none", "short", "long"}] /\ timers \subseteq Tabs
    BY DEF TypeInv, StoreOK, AlertsOK
  <2> USE DEF TimersMatchBursts
  <2>1. CASE UNCHANGED <<track, timers>>
    BY <2>1
  <2>2. ASSUME NEW S, CancelTracking(S) PROVE TimersMatchBursts'
    BY <2>0, <2>2 DEF CancelTracking
  <2>3. ASSUME NEW t \in Tabs, NEW burst \in {"short", "long"},
               timers' = timers \cup {t}, track' = [track EXCEPT ![t] = burst]
        PROVE  TimersMatchBursts'
    BY <2>0, <2>3
  <2> QED BY <2>1, <2>2, <2>3, BurstSteps
<1> QED BY <1>1, <1>2, PTL DEF Spec

-----------------------------------------------------------------------------
(* Steps that leave the alerts alone, or touch those of one tab that comes *)
(* on display. *)
LEMMA Untouched ==
    ASSUME NEW t, UNCHANGED <<unread, track>>
    PROVE  AlertKept(t)
BY DEF AlertKept

LEMMA SeenOnly ==
    ASSUME TypeInv, NEW S, Seen(S), NEW t \in Tabs, t \in S => AlertKept(t)
    PROVE  AlertKept(t)
BY DEF AlertKept, Seen, CancelTracking, ClearAlerts

LEMMA ToastShows ==
    ASSUME TypeInv, NEW w \in Spaces, NEW u, NEW list,
           ShowFromToast(w, u, list), NEW t \in Tabs
    PROVE  AlertKept(t)
<1>1. CASE list = ErrorBody /\ activeSessionByWorkspace[w] # Undefined
  BY <1>1, Untouched DEF ShowFromToast, alertVars
<1>2. CASE ~(list = ErrorBody /\ activeSessionByWorkspace[w] # Undefined)
  <2>1. sessions'[w] = list
    BY <1>2 DEF ShowFromToast, TypeInv, StoreOK, ListsOK
  <2>2. t \in {NextActive(w, list), u} => AlertKept(t)
    BY <1>2, <2>1, AssumedIds DEF ShowFromToast, AlertKept
  <2> QED BY <1>2, <2>2, SeenOnly DEF ShowFromToast
<1> QED BY <1>1, <1>2

LEMMA StepKeepsAlerts ==
    ASSUME TypeInv, Next, NEW t \in Tabs
    PROVE  AlertKept(t)
<1>1. CASE UserStep
  <2>1. CASE NewTab \/ NewSpace \/ Hide
    BY <2>1, Untouched DEF NewTab, NewSpace, Hide, Request, alertVars
  <2>2. CASE Show
    <3>1. activeSessionId' = activeSessionId
      BY <2>2 DEF Show, viewVars
    <3>2. CASE UNCHANGED alertVars
      BY <3>2, Untouched DEF alertVars
    <3>3. CASE Seen({activeSessionId})
      BY <3>1, <3>3, SeenOnly DEF AlertKept
    <3> QED BY <2>2, <3>2, <3>3 DEF Show
  <2>3. ASSUME NEW u \in Tabs \cup {Undefined}, CloseTab(u) PROVE AlertKept(t)
    BY <2>3, Untouched DEF CloseTab, Request, alertVars
  <2>4. ASSUME NEW u, Activate(u) PROVE AlertKept(t)
    BY <2>4, SeenOnly DEF Activate, AlertKept
  <2>5. ASSUME NEW w \in Spaces, DropSpace(w) PROVE AlertKept(t)
    BY <2>5, Untouched DEF DropSpace, Request, alertVars
  <2>6. ASSUME NEW w \in Spaces, Switch(w) PROVE AlertKept(t)
    BY <2>6, SeenOnly DEF Switch, AlertKept
  <2>7. ASSUME NEW u \in Tabs, NEW w \in Spaces, ClickToast(u, w)
        PROVE  AlertKept(t)
    <3>1. CASE ShowFromToast(w, u, sessions[w])
      BY <3>1, ToastShows
    <3>2. CASE Request("click", w, u)
      BY <3>2, Untouched DEF Request, alertVars
    <3> QED BY <2>4, <2>7, <3>1, <3>2 DEF ClickToast
  <2> QED BY <1>1, <2>1, <2>2, <2>3, <2>4, <2>5, <2>6, <2>7 DEF UserStep, Select
<1>2. CASE Trouble \/ Poll
  BY <1>2, Untouched DEF Trouble, Foreign, Fail, Refuse, Poll, Request, alertVars
<1>3. ASSUME NEW c \in Calls, Serve(c) PROVE AlertKept(t)
  BY <1>3, Untouched DEF Serve, alertVars
<1>4. ASSUME NEW c \in Calls, Apply(c) PROVE AlertKept(t)
  <2>1. CASE ApplyPoll(c) \/ ApplyCreate(c) \/ ApplySpace(c) \/ ApplyFirst(c)
    BY <2>1, Untouched DEF ApplyPoll, ApplyCreate, ApplySpace, ApplyFirst, alertVars
  <2>2. CASE ApplyClick(c)
    <3>1. call[c].ws \in Spaces
      BY <2>2, AnsweredTyped DEF ApplyClick, TypeInv, ServerOK
    <3> QED BY <2>2, <3>1, ToastShows DEF ApplyClick
  <2>3. CASE ApplyClose(c)
    <3>1. CASE t = call[c].tab
      BY <2>3, <3>1 DEF AlertKept
    <3>2. CASE t # call[c].tab
      BY <2>3, <3>2 DEF ApplyClose, AlertKept, CancelTracking, ClearAlerts
    <3> QED BY <3>1, <3>2
  <2>4. CASE ApplyDrop(c)
    <3>1. CASE ListOf(call[c].ws) = ErrorBody
      BY <2>4, <3>1, Untouched DEF ApplyDrop, alertVars
    <3>2. CASE ListOf(call[c].ws) # ErrorBody
      <4>1. Seen(ToSet(ListOf(call[c].ws)))
        BY <2>4, <3>2 DEF ApplyDrop
      <4>2. t \in ToSet(ListOf(call[c].ws)) => AlertKept(t)
        BY <2>4, <3>2 DEF AlertKept, Ids
      <4> QED BY <4>1, <4>2, SeenOnly
    <3> QED BY <3>1, <3>2
  <2> QED BY <1>4, <2>1, <2>2, <2>3, <2>4 DEF Apply
<1>5. ASSUME NEW u \in Tabs, Output(u) PROVE AlertKept(t)
  <2>1. unread' = unread /\ activeSessionId' = activeSessionId
    BY <1>5 DEF Output, viewVars
  <2>2. CASE OnDisplay(u)
    BY <1>5, <2>1, <2>2 DEF Output, OnDisplay, CancelTracking, AlertKept
  <2>3. CASE ~OnDisplay(u)
    <3>1. PICK burst \in IF track[u] = "none" THEN {"short"} ELSE {track[u], "long"} :
            track' = [track EXCEPT ![u] = burst]
      BY <1>5, <2>3 DEF Output
    <3> QED BY <2>1, <3>1 DEF TypeInv, StoreOK, AlertsOK, AlertKept
  <2> QED BY <2>2, <2>3
<1>6. ASSUME NEW u \in Tabs, Fire(u) PROVE AlertKept(t)
  <2>1. unread \subseteq unread'
    BY <1>6 DEF Fire
  <2>2. CASE t = u
    BY <1>6, <2>1, <2>2 DEF Fire, AlertKept
  <2>3. CASE t # u
    BY <1>6, <2>1, <2>3 DEF Fire, CancelTracking, AlertKept
  <2> QED BY <2>2, <2>3
<1>7. ASSUME NEW x, Dismiss(x) PROVE AlertKept(t)
  BY <1>7, Untouched DEF Dismiss
<1> QED BY <1>1, <1>2, <1>3, <1>4, <1>5, <1>6, <1>7 DEF Next, Quiet

(* No step takes away the unread mark or the running burst of a tab it is  *)
(* not about: deleteSession, deleteWorkspace, setActiveSession,            *)
(* setActiveWorkspace and the idle timer touch no other tab's              *)
(* (appStore.ts:175-255, 291-360, 389-455).                                *)
THEOREM AlertsAreKept == Spec => AlertsOutliveOthers
<1>1. Init => TypeInv
  BY InitTyped
<1>2. TypeInv /\ [Next]_vars => TypeInv'
  BY StepTyped
<1>3. TypeInv /\ [Next]_vars => [\A t \in Tabs : AlertKept(t)]_vars
  BY StepKeepsAlerts
<1> QED BY <1>1, <1>2, <1>3, PTL DEF Spec, AlertsOutliveOthers

-----------------------------------------------------------------------------
(* Toasts *)

(* Each step treats the unread marks and the toasts in one of these ways. *)
LEMMA AlertSteps ==
    ASSUME [Next]_vars
    PROVE  \/ UNCHANGED <<unread, toasts>>
           \/ \E S : ClearAlerts(S)
           \/ \E t \in Tabs : /\ t \notin unread /\ unread' = unread \cup {t}
                              /\ toasts' = toasts \/ \E w \in Spaces : PushToast(t, w)
           \/ \E x : unread' = unread /\ toasts' = Without(toasts, x)
<1> DEFINE Seens == UNCHANGED <<unread, toasts>> \/ \E S : ClearAlerts(S)
<1>1. CASE UNCHANGED vars
  BY <1>1 DEF vars, alertVars
<1>2. CASE UserStep
  <2>1. CASE NewTab \/ NewSpace \/ Hide
    BY <2>1 DEF NewTab, NewSpace, Hide, Request, alertVars
  <2>2. CASE Show
    BY <2>2 DEF Show, Seen, alertVars
  <2>3. ASSUME NEW t \in Tabs \cup {Undefined}, CloseTab(t) \/ Select(t) PROVE Seens
    BY <2>3 DEF CloseTab, Select, Activate, Seen, Request, alertVars
  <2>4. ASSUME NEW w \in Spaces, DropSpace(w) \/ Switch(w) PROVE Seens
    BY <2>4 DEF DropSpace, Switch, Seen, Request, alertVars
  <2>5. ASSUME NEW t \in Tabs, NEW w \in Spaces, ClickToast(t, w) PROVE Seens
    BY <2>5 DEF ClickToast, Activate, ShowFromToast, Seen, Request, alertVars
  <2> QED BY <1>2, <2>1, <2>2, <2>3, <2>4, <2>5 DEF UserStep
<1>3. CASE Trouble \/ Poll
  BY <1>3 DEF Trouble, Foreign, Fail, Refuse, Poll, Request, alertVars
<1>4. ASSUME NEW c \in Calls, Serve(c) \/ Apply(c) PROVE Seens
  <2>1. CASE Serve(c)
    BY <2>1 DEF Serve, alertVars
  <2>2. CASE ApplyPoll(c) \/ ApplyCreate(c) \/ ApplySpace(c) \/ ApplyFirst(c)
    BY <2>2 DEF ApplyPoll, ApplyCreate, ApplySpace, ApplyFirst, alertVars
  <2>3. CASE ApplyClick(c)
    BY <2>3 DEF ApplyClick, ShowFromToast, Seen, alertVars
  <2>4. CASE ApplyClose(c)
    BY <2>4 DEF ApplyClose
  <2>5. CASE ApplyDrop(c)
    BY <2>5 DEF ApplyDrop, Seen, alertVars
  <2> QED BY <1>4, <2>1, <2>2, <2>3, <2>4, <2>5 DEF Apply
<1>5. ASSUME NEW t \in Tabs, Output(t) PROVE UNCHANGED <<unread, toasts>>
  BY <1>5 DEF Output
<1>6. ASSUME NEW t \in Tabs, Fire(t)
      PROVE  \/ UNCHANGED <<unread, toasts>>
             \/ /\ t \notin unread /\ unread' = unread \cup {t}
                /\ toasts' = toasts \/ \E w \in Spaces : PushToast(t, w)
  BY <1>6 DEF Fire, Announce, Homes
<1>7. ASSUME NEW x, Dismiss(x) PROVE unread' = unread /\ toasts' = Without(toasts, x)
  BY <1>7 DEF Dismiss
<1> QED
  BY <1>1, <1>2, <1>3, <1>4, <1>5, <1>6, <1>7 DEF Next, Quiet

(* A stack of toasts that are all of tabs in U, no two of one tab *)
Stack(q, U) ==
    /\ q \in Seq(ToastTypes)
    /\ \A i \in 1 .. Len(q) : q[i].tab \in U
    /\ \A i, j \in 1 .. Len(q) : q[i].tab = q[j].tab => i = j

LEMMA StackKept ==
    ASSUME NEW q, NEW U, Stack(q, U), NEW S, NEW V, \A x \in S : x.tab \in U => x.tab \in V
    PROVE  Stack(KeepIn(q, S), V) /\ Len(KeepIn(q, S)) <= Len(q)
<1> DEFINE r == KeepIn(q, S)
<1>1. q \in Seq(ToastTypes)
  BY DEF Stack
<1>2. r \in Seq(ToastTypes) /\ Len(r) <= Len(q)
  BY <1>1, KeepInIs
<1>3. PICK pos \in [1 .. Len(r) -> Kept(q, S)] :
        /\ r = [n \in 1 .. Len(r) |-> q[pos[n]]]
        /\ \A i, k \in 1 .. Len(r) : pos[i] = pos[k] => i = k
  BY <1>1, KeepInPositions
<1> HIDE DEF r
<1>4. \A n \in 1 .. Len(r) : pos[n] \in 1 .. Len(q) /\ q[pos[n]] \in S /\ r[n] = q[pos[n]]
  BY <1>3 DEF Kept
<1>5. \A n \in 1 .. Len(r) : r[n].tab \in V
  BY <1>4 DEF Stack
<1>6. ASSUME NEW i \in 1 .. Len(r), NEW j \in 1 .. Len(r), r[i].tab = r[j].tab
      PROVE  i = j
  <2>1. pos[i] = pos[j]
    BY <1>4, <1>6 DEF Stack
  <2> QED BY <1>3, <2>1
<1>7. Stack(r, V)
  BY <1>2, <1>5, <1>6 DEF Stack
<1> QED BY <1>2, <1>7 DEF r

LEMMA StackPushed ==
    ASSUME NEW q, NEW U, Stack(q, U), NEW t \in U, NEW x \in ToastTypes, x.tab = t,
           \A i \in 1 .. Len(q) : q[i].tab # t
    PROVE  Stack(Append(q, x), U) /\ Stack(Tail(Append(q, x)), U)
<1> DEFINE r == Append(q, x)
           s == Tail(r)
<1>1. q \in Seq(ToastTypes)
  BY DEF Stack
<1>2. /\ r \in Seq(ToastTypes) /\ Len(r) = Len(q) + 1 /\ r # <<>>
      /\ \A i \in 1 .. Len(q) : r[i] = q[i]
      /\ r[Len(q) + 1] = x
  BY <1>1
<1>3. Len(q) \in Nat
  BY <1>1
<1> HIDE DEF r
<1>4. ASSUME NEW i \in 1 .. Len(r) PROVE i \in 1 .. Len(q) \/ (i = Len(q) + 1 /\ r[i] = x)
  BY <1>2, <1>3
<1>5. \A i \in 1 .. Len(r) : r[i].tab \in U
  BY <1>2, <1>4 DEF Stack
<1>6. ASSUME NEW i \in 1 .. Len(r), NEW j \in 1 .. Len(r), r[i].tab = r[j].tab PROVE i = j
  BY <1>2, <1>4, <1>6 DEF Stack
<1>7. Stack(r, U)
  BY <1>2, <1>5, <1>6 DEF Stack
<1>8. /\ s \in Seq(ToastTypes) /\ Len(s) = Len(q)
      /\ \A i \in 1 .. Len(s) : s[i] = r[i + 1] /\ i + 1 \in 1 .. Len(r)
  BY <1>2, <1>3
<1> HIDE DEF s
<1>9. \A i \in 1 .. Len(s) : s[i].tab \in U
  BY <1>5, <1>8
<1>10. ASSUME NEW i \in 1 .. Len(s), NEW j \in 1 .. Len(s), s[i].tab = s[j].tab PROVE i = j
  <2>1. i + 1 = j + 1
    BY <1>6, <1>8, <1>10
  <2> QED BY <1>3, <1>8, <2>1
<1>11. Stack(s, U)
  BY <1>8, <1>9, <1>10 DEF Stack
<1> QED BY <1>7, <1>11 DEF r, s

(* Whatever unmarks a tab takes its toast away, a new toast replaces the   *)
(* older one of its tab, and only MAX_TOASTS are kept (fireIdle,           *)
(* setActiveSession and dismissToast, appStore.ts:339-360, 397-455).       *)
THEOREM ToastsCurrent == Spec => []ToastsAreCurrent
<1> DEFINE Inv == TypeInv /\ ToastsAreCurrent
<1>0. MaxToasts \in Nat /\ MaxToasts > 0
  BY AppStoreAssumption DEF AppStoreAssumption
<1>3. ASSUME toasts \in Seq(ToastTypes)
      PROVE  ToastsAreCurrent <=> Stack(toasts, unread) /\ Len(toasts) <= MaxToasts
  BY <1>3 DEF ToastsAreCurrent, Stack
<1>1. Init => Inv
  <2>1. Init => toasts = <<>>
    BY DEF Init
  <2> QED BY <1>0, <2>1, InitTyped DEF ToastsAreCurrent
<1>2. Inv /\ [Next]_vars => Inv'
  <2> SUFFICES ASSUME Inv, [Next]_vars PROVE ToastsAreCurrent'
    BY StepTyped
  <2>0. toasts \in Seq(ToastTypes) /\ toasts' \in Seq(ToastTypes)
    BY StepTyped DEF TypeInv, StoreOK, AlertsOK
  <2>1. Stack(toasts, unread) /\ Len(toasts) <= MaxToasts
    BY <1>3, <2>0
  <2> SUFFICES Stack(toasts', unread') /\ Len(toasts') <= MaxToasts
    BY <2>0 DEF ToastsAreCurrent, Stack
  <2>2. CASE UNCHANGED <<unread, toasts>>
    BY <2>1, <2>2
  <2>3. ASSUME NEW S, ClearAlerts(S) PROVE Stack(toasts', unread') /\ Len(toasts') <= MaxToasts
    <3> DEFINE K == {x \in ToSet(toasts) : x.tab \notin S}
    <3>1. unread' = unread \ S /\ toasts' = KeepIn(toasts, K)
      BY <2>3 DEF ClearAlerts
    <3>2. \A x \in K : x.tab \in unread => x.tab \in unread \ S
      OBVIOUS
    <3> HIDE DEF K
    <3>3. Stack(KeepIn(toasts, K), unread \ S) /\ Len(KeepIn(toasts, K)) <= Len(toasts)
      BY <2>1, <3>2, StackKept
    <3> QED BY <1>0, <2>0, <2>1, <3>1, <3>3
  <2>4. ASSUME NEW t \in Tabs, unread' = unread \cup {t}, toasts' = toasts
        PROVE  Stack(toasts', unread') /\ Len(toasts') <= MaxToasts
    BY <2>1, <2>4 DEF Stack
  <2>5. ASSUME NEW t \in Tabs, unread' = unread \cup {t}, NEW w \in Spaces, PushToast(t, w)
        PROVE  Stack(toasts', unread') /\ Len(toasts') <= MaxToasts
    <3> DEFINE K == {x \in ToSet(toasts) : x.tab # t}
               q == KeepIn(toasts, K)
               x == [tab |-> t, ws |-> w]
               r == Append(q, x)
    <3>1. toasts' = IF Len(r) > MaxToasts THEN Tail(r) ELSE r
      BY <2>5 DEF PushToast
    <3>2. x \in ToastTypes /\ x.tab = t /\ t \in unread'
      BY <2>5 DEF ToastTypes
    <3>3. Stack(q, unread') /\ Len(q) <= Len(toasts)
      <4>1. \A y \in K : y.tab \in unread => y.tab \in unread'
        BY <2>5
      <4> HIDE DEF K
      <4> QED BY <2>1, <4>1, StackKept
    <3>4. \A i \in 1 .. Len(q) : q[i].tab # t
      <4>1. q \in Seq(ToastTypes) /\ ToSet(q) \subseteq K
        BY <2>0, KeepInIs
      <4>2. \A y \in K : y.tab # t
        OBVIOUS
      <4> HIDE DEF q, K
      <4> QED BY <4>1, <4>2, ToSetFacts
    <3> HIDE DEF q, x
    <3>5. Stack(r, unread') /\ Stack(Tail(r), unread')
      BY <3>2, <3>3, <3>4, StackPushed
    <3>6. Len(r) = Len(q) + 1 /\ Len(Tail(r)) = Len(q) /\ Len(q) \in Nat
      <4>1. q \in Seq(ToastTypes)
        BY <3>3 DEF Stack
      <4>2. \A p \in Seq(ToastTypes), y \in ToastTypes :
                /\ Len(p) \in Nat /\ Len(Append(p, y)) = Len(p) + 1
                /\ Len(Tail(Append(p, y))) = Len(p)
        OBVIOUS
      <4> QED BY <3>2, <4>1, <4>2
    <3> HIDE DEF r
    <3> QED BY <1>0, <2>0, <2>1, <3>1, <3>3, <3>5, <3>6
  <2>6. ASSUME NEW x, unread' = unread, toasts' = Without(toasts, x)
        PROVE  Stack(toasts', unread') /\ Len(toasts') <= MaxToasts
    <3>1. /\ Stack(Without(toasts, x), unread)
          /\ Len(Without(toasts, x)) <= Len(toasts)
      BY <2>1, StackKept DEF Without
    <3> QED BY <1>0, <2>0, <2>1, <2>6, <3>1
  <2> QED BY <2>2, <2>3, <2>4, <2>5, <2>6, AlertSteps
<1> QED BY <1>1, <1>2, PTL DEF Spec

-----------------------------------------------------------------------------
(* The lists *)

(* Rows are the server's alone: ids are handed out once, a tab is in one   *)
(* workspace, and a workspace that is gone has no tabs.                    *)
RowsDistinct ==
    /\ IsInjective(spaces) /\ ToSet(spaces) \subseteq issued
    /\ \A w \in Workspaces :
        /\ ToSet(tabs[w]) \subseteq issued
        /\ w \notin ToSet(spaces) => tabs[w] = <<>>
        /\ \A v \in Workspaces \ {w} : ToSet(tabs[v]) \cap ToSet(tabs[w]) = {}

(* What the page shows is consistent in itself. *)
Shown ==
    /\ workspaces \in Seq(Workspaces) /\ sessions[Undefined] = None
    /\ activeWorkspaceId \in ToSet(workspaces)
    /\ \A w \in Workspaces :
        /\ sessions[w] = None <=> w \notin ToSet(workspaces)
        /\ ListOf(w) \in Seq(Tabs)
        /\ activeSessionByWorkspace[w] \in ToSet(ListOf(w)) \cup {Undefined}
    /\ IF ListOf(activeWorkspaceId) = <<>> THEN activeSessionId = None
       ELSE activeSessionId \in ToSet(ListOf(activeWorkspaceId))
    /\ \A x \in ToSet(toasts) : x.ws \in Workspaces /\ x.tab \in ToSet(ListOf(x.ws))

(* The server's rows, as the store's lists and the one request under way   *)
(* determine them: an answer that has not been applied is what they are    *)
(* ahead by.                                                               *)
InStep == spaces = workspaces /\ \A w \in Workspaces : tabs[w] = ListOf(w)

SpacesAhead(k) ==
    IF k.op = "first" THEN Append(workspaces, k.ws)
    ELSE IF k.op = "space" /\ k.at = "answered" THEN Append(workspaces, Head(k.reply))
    ELSE IF k.op = "drop" /\ k.at = "answered" THEN Without(workspaces, k.ws)
    ELSE workspaces

TabsAhead(k, w) ==
    IF k.at = "sent" THEN ListOf(w)
    ELSE IF k.op = "close" THEN Without(ListOf(w), k.tab)
    ELSE IF k.op \in {"create", "first"} /\ w = k.ws THEN Append(ListOf(w), Head(k.reply))
    ELSE IF k.op = "drop" /\ w = k.ws THEN <<>>
    ELSE ListOf(w)

Ahead(k) ==
    /\ spaces = SpacesAhead(k)
    /\ \A w \in Workspaces : tabs[w] = TabsAhead(k, w)
    /\ k.op # "click"
    /\ k.op \in {"poll", "create", "drop"} => k.ws \in ToSet(workspaces)
    /\ k.op = "create" => k.ws = activeWorkspaceId
    /\ k.op = "poll" /\ k.at = "answered" => k.reply = ListOf(k.ws)
    /\ k.op \in {"create", "first"} /\ k.at = "answered" => Head(k.reply) \in Tabs
    /\ k.op = "close" => \A w \in Workspaces \ {activeWorkspaceId} : k.tab \notin ToSet(ListOf(w))
    /\ k.op = "first" => k.ws \in Workspaces \ ToSet(workspaces)
    /\ k.op = "space" /\ k.at = "answered" => Head(k.reply) \in Workspaces \ ToSet(workspaces)
    /\ k.op = "drop" => \E w \in ToSet(workspaces) : w # k.ws

Alone ==
    /\ \A c, d \in Calls : call[c] # NoCall /\ call[d] # NoCall => c = d
    /\ \A c \in Calls : call[c] # NoCall => Ahead(call[c])
    /\ ~InFlight => InStep

SoleInv == RowsDistinct /\ (~raced => ~broken /\ Shown /\ Alone)

-----------------------------------------------------------------------------
(* What is shown does not depend on the rows. *)
LEMMA ListsKept ==
    ASSUME sessions' = sessions
    PROVE  \A w : ListOf(w)' = ListOf(w)
BY DEF ListOf

LEMMA ShownKept ==
    ASSUME Shown, UNCHANGED <<listVars, viewVars>>, ToSet(toasts') \subseteq ToSet(toasts)
    PROVE  Shown'
BY ListsKept DEF Shown, listVars, viewVars

LEMMA ToastsLeft ==
    ASSUME TypeInv, NEW S, ClearAlerts(S)
    PROVE  /\ ToSet(toasts') \subseteq ToSet(toasts)
           /\ \A x \in ToSet(toasts') : x.tab \notin S
<1>1. toasts \in Seq(ToastTypes)
  BY DEF TypeInv, StoreOK, AlertsOK
<1>2. ToSet(toasts') = ToSet(toasts) \cap {x \in ToSet(toasts) : x.tab \notin S}
  BY <1>1, KeepInIs DEF ClearAlerts
<1> QED BY <1>2

(* Another tab of a workspace comes on display. *)
LEMMA ViewShown ==
    ASSUME TypeInv, Shown, UNCHANGED listVars, NEW S, ClearAlerts(S),
           NEW w \in ToSet(workspaces), activeWorkspaceId' = w,
           NEW t, activeSessionId' = t,
           IF ListOf(w) = <<>> THEN t = None ELSE t \in ToSet(ListOf(w)),
           \/ activeSessionByWorkspace' = activeSessionByWorkspace
           \/ /\ t \in ToSet(ListOf(w))
              /\ activeSessionByWorkspace' = [activeSessionByWorkspace EXCEPT ![w] = t]
    PROVE  Shown'
<1>1. /\ ToSet(toasts') \subseteq ToSet(toasts) /\ sessions' = sessions /\ workspaces' = workspaces
      /\ \A v : ListOf(v)' = ListOf(v)
  BY ToastsLeft, ListsKept DEF listVars
<1>2. activeSessionByWorkspace \in [Spaces -> Tabs \cup {Undefined}] /\ Workspaces \subseteq Spaces
  BY AssumedIds DEF TypeInv, StoreOK, ViewOK
<1>3. \A v \in Workspaces : activeSessionByWorkspace'[v] \in ToSet(ListOf(v)) \cup {Undefined}
  BY <1>2 DEF Shown
<1> QED BY <1>1, <1>3 DEF Shown

LEMMA ListedWorkspaces ==
    ASSUME TypeInv, Shown
    PROVE  /\ ToSet(workspaces) \subseteq Workspaces
           /\ \A w \in ToSet(workspaces) : sessions[w] # None /\ ListOf(w) = sessions[w]
           /\ \A w \in Workspaces : ToSet(ListOf(w)) \subseteq Tabs
           /\ \A w \in Workspaces : ListOf(w) # ErrorBody
           /\ activeWorkspaceId \in Workspaces /\ ~Orphan(activeWorkspaceId)
<1>1. ToSet(workspaces) \subseteq Workspaces
  BY ToSetFacts DEF Shown
<1>2. \A w \in Workspaces : ToSet(ListOf(w)) \subseteq Tabs
  BY ToSetFacts DEF Shown
<1>3. \A w \in Workspaces : ListOf(w) # ErrorBody
  <2>1. \A w \in Workspaces : ListOf(w) \in Seq(Tabs \cup {Undefined})
    BY DEF Shown
  <2> QED BY <2>1, AssumedIds
<1>4. \A w \in ToSet(workspaces) : sessions[w] # None
  BY <1>1 DEF Shown
<1>5. \A w \in ToSet(workspaces) : ListOf(w) = sessions[w]
  BY <1>1, <1>4, AssumedIds DEF ListOf
<1>6. activeWorkspaceId \in Workspaces /\ ~Orphan(activeWorkspaceId)
  BY <1>1, AssumedIds DEF Shown, Orphan
<1> QED BY <1>1, <1>2, <1>3, <1>4, <1>5, <1>6

LEMMA ListUpdated ==
    ASSUME ListsOK, NEW w \in Workspaces, NEW list \in Seq(Tabs \cup {Undefined}) \cup {None},
           sessions' = [sessions EXCEPT ![w] = list]
    PROVE  /\ \A v \in Workspaces : sessions'[v] = IF v = w THEN list ELSE sessions[v]
           /\ \A v \in Workspaces \ {w} : ListOf(v)' = ListOf(v)
           /\ ListOf(w)' = IF list = None THEN <<>> ELSE list
           /\ sessions'[Undefined] = sessions[Undefined]
<1>1. /\ \A v \in Workspaces : sessions'[v] = IF v = w THEN list ELSE sessions[v]
      /\ sessions'[Undefined] = sessions[Undefined]
  BY AssumedIds DEF ListsOK
<1> QED BY <1>1, AssumedIds DEF ListOf

LEMMA ToastPlaces ==
    ASSUME TypeInv, Shown
    PROVE  \A x \in ToSet(toasts) : x.tab \in Tabs /\ x.ws \in Workspaces
<1>1. ToSet(toasts) \subseteq ToastTypes
  BY ToSetFacts DEF TypeInv, StoreOK, AlertsOK
<1> QED BY <1>1 DEF ToastTypes, Shown

LEMMA FirstIdIs ==
    ASSUME NEW list \in Seq(Tabs)
    PROVE  IF list = <<>> THEN FirstId(list) = None ELSE FirstId(list) \in ToSet(list)
<1>1. list # <<>> => Head(list) \in ToSet(list) /\ Head(list) \in Tabs
  BY ToSetFacts
<1>2. list \in Seq(Tabs \cup {Undefined})
  OBVIOUS
<1> QED BY <1>1, <1>2, AssumedIds DEF FirstId

LEMMA NextActiveIs ==
    ASSUME Shown, NEW w \in Workspaces
    PROVE  IF ListOf(w) = <<>> THEN NextActive(w, ListOf(w)) = None
           ELSE NextActive(w, ListOf(w)) \in ToSet(ListOf(w))
<1>1. ListOf(w) \in Seq(Tabs)
  BY DEF Shown
<1>2. ListOf(w) = <<>> => ToSet(ListOf(w)) = {}
  BY <1>1, ToSetFacts
<1>3. ListOf(w) # ErrorBody
  <2>1. ListOf(w) \in Seq(Tabs \cup {Undefined})
    BY <1>1
  <2> QED BY <2>1, AssumedIds
<1> QED BY <1>1, <1>2, <1>3, FirstIdIs DEF NextActive, Ids

-----------------------------------------------------------------------------
(* One request at a time *)
LEMMA AheadKept ==
    ASSUME NEW k, Ahead(k), UNCHANGED <<spaces, tabs, workspaces, sessions, activeWorkspaceId>>
    PROVE  Ahead(k)'
<1>1. \A w : ListOf(w)' = ListOf(w)
  BY ListsKept
<1> QED BY <1>1 DEF Ahead, SpacesAhead, TabsAhead

LEMMA QuietAlone ==
    ASSUME Alone, UNCHANGED <<serverVars, listVars, activeWorkspaceId, call>>
    PROVE  Alone'
<1>1. InStep => InStep'
  BY ListsKept DEF InStep, serverVars, listVars
<1>2. \A k : Ahead(k) => Ahead(k)'
  BY AheadKept DEF serverVars, listVars
<1>3. \A c \in Calls : call[c] # NoCall => Ahead(call[c])'
  <2> SUFFICES ASSUME NEW c \in Calls, call[c] # NoCall PROVE Ahead(call[c])'
    OBVIOUS
  <2>1. PICK k : k = call[c]
    OBVIOUS
  <2>2. Ahead(k)
    BY <2>1 DEF Alone
  <2>3. k = call'[c]
    BY <2>1
  <2>4. Ahead(k)'
    BY <1>2, <2>2
  <2> QED BY <2>3, <2>4
<1> QED BY <1>1, <1>3 DEF Alone, InFlight

LEMMA SendAlone ==
    ASSUME CallsOK, ~InFlight, NEW op, NEW w, NEW t, Request(op, w, t), op # "none",
           Ahead(Call(op, w, t, "sent", <<>>))
    PROVE  Alone'
<1> DEFINE k == Call(op, w, t, "sent", <<>>)
<1>1. PICK d \in Calls : call' = [call EXCEPT ![d] = k]
  BY DEF Request, Send
<1>2. Ahead(k)'
  <2>1. Ahead(k)
    OBVIOUS
  <2> HIDE DEF k
  <2> QED BY <2>1, AheadKept DEF Request, serverVars, listVars, viewVars
<1>3. k # NoCall
  BY DEF NoCall, Call
<1> HIDE DEF k
<1>4. \A c \in Calls : call'[c] = IF c = d THEN k ELSE NoCall
  BY <1>1 DEF CallsOK, InFlight
<1> QED BY <1>2, <1>3, <1>4 DEF Alone, InFlight

LEMMA PutAlone ==
    ASSUME CallsOK, Alone, NEW c \in Calls, call[c] # NoCall, NEW k, k # NoCall,
           call' = [call EXCEPT ![c] = k], Ahead(k)'
    PROVE  Alone'
<1>1. \A d \in Calls : call'[d] = IF d = c THEN k ELSE NoCall
  BY DEF CallsOK, Alone
<1> QED BY <1>1 DEF Alone, InFlight

LEMMA DoneAlone ==
    ASSUME CallsOK, Alone, NEW c \in Calls, call[c] # NoCall, Done(c), InStep'
    PROVE  Alone'
<1>1. \A d \in Calls : call'[d] = NoCall
  BY DEF CallsOK, Alone, Done
<1> QED BY <1>1 DEF Alone, InFlight

(* What the user does while nothing is under way *)
LEMMA UserAlone ==
    ASSUME TypeInv, RowsDistinct, ~InFlight, Shown, InStep, UserStep \/ Poll
    PROVE  Shown' /\ Alone'
<1>0. CallsOK /\ Alone
  BY DEF TypeInv, ServerOK, Alone, InFlight
<1>1. ASSUME NEW op, NEW w, NEW t, Request(op, w, t), op \in CallOps \ {"none"},
             Ahead(Call(op, w, t, "sent", <<>>))
      PROVE  Shown' /\ Alone'
  BY <1>0, <1>1, SendAlone, ShownKept DEF Request, alertVars
<1>2. ASSUME NEW op, NEW w, NEW t,
             op \in {"poll", "create", "drop", "close", "space"},
             op \in {"poll", "create", "drop"} => w \in ToSet(workspaces),
             op = "create" => w = activeWorkspaceId,
             op = "close" => t \in ToSet(ListOf(activeWorkspaceId)),
             op = "drop" => \E v \in ToSet(workspaces) : v # w
      PROVE  Ahead(Call(op, w, t, "sent", <<>>))
  <2> DEFINE k == Call(op, w, t, "sent", <<>>)
  <2>1. k.op = op /\ k.ws = w /\ k.tab = t /\ k.at = "sent"
    BY DEF Call
  <2>2. op = "close" => \A v \in Workspaces \ {activeWorkspaceId} : t \notin ToSet(ListOf(v))
    BY <1>2, ListedWorkspaces DEF RowsDistinct, InStep
  <2> HIDE DEF k
  <2>3. spaces = SpacesAhead(k) /\ \A v \in Workspaces : tabs[v] = TabsAhead(k, v)
    BY <1>2, <2>1 DEF InStep, SpacesAhead, TabsAhead
  <2>4. Ahead(k)
    BY <1>2, <2>1, <2>2, <2>3 DEF Ahead
  <2> QED BY <2>4 DEF k
<1>3. CASE Poll
  BY <1>1, <1>2, <1>3 DEF Poll, CallOps, Shown
<1>4. CASE NewTab
  BY <1>1, <1>2, <1>4 DEF NewTab, CallOps, Shown
<1>5. CASE NewSpace
  BY <1>1, <1>2, <1>5 DEF NewSpace, CallOps
<1>6. ASSUME NEW t \in Tabs \cup {Undefined}, CloseTab(t) PROVE Shown' /\ Alone'
  BY <1>1, <1>2, <1>6 DEF CloseTab, CallOps
<1>7. ASSUME NEW w \in Spaces, DropSpace(w) PROVE Shown' /\ Alone'
  <2>1. \E v \in ToSet(workspaces) : v # w
    <3>1. workspaces \in Seq(Workspaces) /\ Len(workspaces) > 1 /\ IsInjective(workspaces)
      BY <1>7 DEF DropSpace, Shown, RowsDistinct, InStep
    <3>2. 1 \in 1 .. Len(workspaces) /\ 2 \in 1 .. Len(workspaces)
            /\ DOMAIN workspaces = 1 .. Len(workspaces)
      BY <3>1
    <3>3. workspaces[1] # workspaces[2]
      BY <3>1, <3>2 DEF IsInjective
    <3>4. workspaces[1] \in ToSet(workspaces) /\ workspaces[2] \in ToSet(workspaces)
      BY <3>1, <3>2, ToSetFacts
    <3> QED BY <3>3, <3>4
  <2> QED BY <1>1, <1>2, <1>7, <2>1 DEF DropSpace, CallOps
<1>8. ASSUME UNCHANGED listVars, Local, Shown' PROVE Shown' /\ Alone'
  <2>1. InStep' /\ call' = call
    BY <1>8, ListsKept DEF Local, InStep, listVars, serverVars
  <2> QED BY <1>0, <1>8, <2>1 DEF Alone, InFlight
<1>9. CASE Hide
  BY <1>8, <1>9, ShownKept DEF Hide, alertVars
<1>10. CASE Show
  <2>1. ToSet(toasts') \subseteq ToSet(toasts)
    BY <1>10, ToastsLeft DEF Show, Seen, alertVars
  <2> QED BY <1>8, <1>10, <2>1, ShownKept DEF Show
<1>11. ASSUME NEW t \in ToSet(ListOf(activeWorkspaceId)), Activate(t), Local
       PROVE  Shown' /\ Alone'
  <2>1. activeWorkspaceId \in ToSet(workspaces) /\ ~Orphan(activeWorkspaceId)
    BY ListedWorkspaces DEF Shown
  <2>2. ListOf(activeWorkspaceId) # <<>>
    BY <2>1, ToSetFacts, ListedWorkspaces DEF Shown
  <2>3. PICK w : w = activeWorkspaceId
    OBVIOUS
  <2>4. Shown'
    BY <1>11, <2>1, <2>2, <2>3, ViewShown DEF Activate, Seen
  <2> QED BY <1>8, <1>11, <2>4 DEF Activate
<1>12. ASSUME NEW t \in Tabs \cup {Undefined}, Select(t) PROVE Shown' /\ Alone'
  BY <1>11, <1>12 DEF Select
<1>13. ASSUME NEW w \in Spaces, Switch(w) PROVE Shown' /\ Alone'
  <2>1. w \in ToSet(workspaces) /\ ListOf(w) = sessions[w] /\ w \in Workspaces
    BY <1>13, ListedWorkspaces DEF Switch
  <2>2. PICK t : t = NextActive(w, sessions[w])
    OBVIOUS
  <2>3. IF ListOf(w) = <<>> THEN t = None ELSE t \in ToSet(ListOf(w))
    BY <2>1, <2>2, NextActiveIs
  <2>4. ToSet(ListOf(w)) \subseteq Tabs
    BY <2>1, ListedWorkspaces
  <2>5. t = None => ListOf(w) = <<>>
    BY <2>3, <2>4, AssumedIds
  <2>6. /\ activeWorkspaceId' = w /\ activeSessionId' = t /\ ClearAlerts({t})
        /\ activeSessionByWorkspace' =
             IF t = None THEN activeSessionByWorkspace
             ELSE [activeSessionByWorkspace EXCEPT ![w] = t]
        /\ UNCHANGED listVars /\ Local
    BY <1>13, <2>2 DEF Switch, Seen
  <2>7. Shown'
    BY <2>1, <2>3, <2>5, <2>6, ViewShown
  <2> QED BY <1>8, <2>6, <2>7
<1>14. ASSUME NEW t \in Tabs, NEW w \in Spaces, ClickToast(t, w) PROVE Shown' /\ Alone'
  <2>1. t \in ToSet(ListOf(w)) /\ w \in Workspaces
    <3>1. \A x \in ToSet(toasts) : x.ws \in Workspaces /\ x.tab \in ToSet(ListOf(x.ws))
      BY DEF Shown
    <3>2. [tab |-> t, ws |-> w] \in ToSet(toasts)
      BY <1>14 DEF ClickToast
    <3> QED BY <3>1, <3>2
  <2>2. ListOf(w) # <<>> /\ ListOf(w) \in Seq(Tabs)
    BY <2>1, ToSetFacts DEF Shown
  <2>3. sessions[w] # None /\ ListOf(w) = sessions[w] /\ w \in ToSet(workspaces)
    BY <2>1, <2>2 DEF ListOf, Shown
  <2>4. CASE w = activeWorkspaceId /\ Activate(t) /\ Local
    BY <1>11, <2>1, <2>4
  <2>5. CASE ShowFromToast(w, t, sessions[w]) /\ Local
    <3>1. sessions' = sessions
      <4>1. sessions = [v \in Spaces |-> sessions[v]]
        BY DEF TypeInv, StoreOK, ListsOK
      <4>2. sessions' = [sessions EXCEPT ![w] = sessions[w]]
        BY <2>1, <2>3, <2>5, ListedWorkspaces DEF ShowFromToast
      <4> QED BY <4>1, <4>2
    <3>2. UNCHANGED listVars
      BY <2>5, <3>1 DEF ShowFromToast, listVars
    <3>3. sessions[w] # ErrorBody
      BY <2>1, <2>3, ListedWorkspaces
    <3>4. Shown'
      BY <2>1, <2>2, <2>3, <2>5, <3>2, <3>3, ViewShown DEF ShowFromToast, Seen
    <3> QED BY <1>8, <2>5, <3>2, <3>4
  <2> QED BY <1>14, <2>3, <2>4, <2>5 DEF ClickToast
<1> QED
  BY <1>3, <1>4, <1>5, <1>6, <1>7, <1>9, <1>10, <1>12, <1>13, <1>14 DEF UserStep

-----------------------------------------------------------------------------
(* The rows *)
LEMMA RowsStep ==
    ASSUME TypeInv, RowsDistinct, [Next]_vars
    PROVE  RowsDistinct'
<1>0. RowsOK /\ RowsOK'
  BY StepTyped DEF TypeInv, ServerOK
<1>1. CASE UNCHANGED serverVars
  BY <1>1 DEF RowsDistinct, serverVars
<1>2. ASSUME NEW w \in Workspaces, w \in ToSet(spaces), NEW t \in Tabs, Issue(Tabs, t),
             tabs' = [tabs EXCEPT ![w] = Append(@, t)], spaces' = spaces
      PROVE  RowsDistinct'
  <2>1. ToSet(Append(tabs[w], t)) = ToSet(tabs[w]) \cup {t}
    BY <1>0, ToSetFacts DEF RowsOK
  <2>2. \A v \in Workspaces : ToSet(tabs'[v]) = IF v = w THEN ToSet(tabs[v]) \cup {t}
          ELSE ToSet(tabs[v])
    BY <1>0, <1>2, <2>1 DEF RowsOK
  <2>3. t \notin issued /\ issued' = issued \cup {t}
    BY <1>2 DEF Issue
  <2>4. \A v \in Workspaces : v \notin ToSet(spaces) => tabs'[v] = <<>>
    BY <1>0, <1>2 DEF RowsOK, RowsDistinct
  <2>5. \A v \in Workspaces : ToSet(tabs'[v]) \subseteq issued'
    BY <2>2, <2>3 DEF RowsDistinct
  <2>6. ASSUME NEW u \in Workspaces, NEW v \in Workspaces \ {u}
        PROVE  ToSet(tabs'[v]) \cap ToSet(tabs'[u]) = {}
    <3>1. ToSet(tabs[v]) \cap ToSet(tabs[u]) = {} /\ t \notin ToSet(tabs[v])
            /\ t \notin ToSet(tabs[u])
      BY <2>3 DEF RowsDistinct
    <3> QED BY <2>2, <3>1
  <2>7. IsInjective(spaces') /\ ToSet(spaces') \subseteq issued'
    BY <1>2, <2>3 DEF RowsDistinct
  <2> QED BY <1>2, <2>4, <2>5, <2>6, <2>7 DEF RowsDistinct
<1>3. ASSUME UNCHANGED <<spaces, issued>>,
             \A v \in Workspaces : ToSet(tabs'[v]) \subseteq ToSet(tabs[v])
      PROVE  RowsDistinct'
  <2>1. ASSUME NEW v \in Workspaces, v \notin ToSet(spaces) PROVE tabs'[v] = <<>>
    <3>1. ToSet(tabs[v]) = {}
      BY <1>0, <2>1, ToSetFacts DEF RowsDistinct, RowsOK
    <3>2. tabs'[v] \in Seq(Tabs) /\ ToSet(tabs'[v]) = {}
      BY <1>0, <1>3, <3>1 DEF RowsOK
    <3> QED BY <3>2, ToSetFacts
  <2>2. \A v, w \in Workspaces : v # w => ToSet(tabs'[v]) \cap ToSet(tabs'[w]) = {}
    BY <1>3 DEF RowsDistinct
  <2>3. \A v \in Workspaces : ToSet(tabs'[v]) \subseteq issued'
    BY <1>3 DEF RowsDistinct
  <2> QED BY <1>3, <2>1, <2>2, <2>3 DEF RowsDistinct
<1>4. ASSUME NEW w \in Workspaces, Issue(Workspaces, w), spaces' = Append(spaces, w), tabs' = tabs
      PROVE  RowsDistinct'
  <2>1. spaces \in Seq(Workspaces)
    BY <1>0 DEF RowsOK
  <2>2. w \notin issued /\ issued' = issued \cup {w}
    BY <1>4 DEF Issue
  <2>3. ToSet(spaces') = ToSet(spaces) \cup {w} /\ w \notin ToSet(spaces)
    BY <1>4, <2>1, <2>2, ToSetFacts DEF RowsDistinct
  <2>4. IsInjective(spaces')
    BY <1>4, <2>1, <2>3, AppendInjective2 DEF RowsDistinct
  <2> QED BY <1>4, <2>2, <2>3, <2>4 DEF RowsDistinct
<1>5. ASSUME NEW w \in Spaces, spaces' = Without(spaces, w), issued' = issued,
             tabs' = [v \in Workspaces |-> IF v = w THEN <<>> ELSE tabs[v]]
      PROVE  RowsDistinct'
  <2>1. spaces \in Seq(Workspaces) /\ tabs \in [Workspaces -> Seq(Tabs)]
    BY <1>0 DEF RowsOK
  <2>2. ToSet(spaces') = ToSet(spaces) \ {w} /\ IsInjective(spaces')
    BY <1>5, <2>1, WithoutIs DEF RowsDistinct
  <2>3. \A v \in Workspaces : tabs'[v] = IF v = w THEN <<>> ELSE tabs[v]
    BY <1>5, <2>1
  <2>4. ToSet(<<>>) = {}
    BY DEF ToSet
  <2>5. \A v \in Workspaces : ToSet(tabs'[v]) \subseteq ToSet(tabs[v])
    BY <2>3, <2>4
  <2> QED BY <1>5, <2>2, <2>3, <2>5 DEF RowsDistinct
<1>6. ASSUME NEW c \in Calls, Serve(c) PROVE RowsDistinct'
  <2> DEFINE k == call[c]
  <2>1. k.op \in {"poll", "click", "create", "first", "drop"} => k.ws \in Spaces
    BY DEF TypeInv, ServerOK, CallsOK, CallOK
  <2>2. CASE k.op = "close" /\ tabs' = [w \in Workspaces |-> Without(tabs[w], k.tab)]
          /\ UNCHANGED <<spaces, issued>>
    <3>1. \A v \in Workspaces : ToSet(Without(tabs[v], k.tab)) \subseteq ToSet(tabs[v])
      BY <1>0, WithoutIs DEF RowsOK
    <3> QED BY <1>3, <2>2, <3>1
  <2>3. CASE k.op = "drop" /\ spaces' = Without(spaces, k.ws) /\ issued' = issued
             /\ tabs' = [w \in Workspaces |-> IF w = k.ws THEN <<>> ELSE tabs[w]]
    BY <1>5, <2>1, <2>3
  <2>4. CASE k.op = "space" /\ \E w \in Workspaces :
                Issue(Workspaces, w) /\ spaces' = Append(spaces, w) /\ tabs' = tabs
    BY <1>4, <2>4
  <2>5. CASE /\ k.op \in {"create", "first"} /\ k.ws \in ToSet(spaces)
             /\ \E t \in Tabs : Issue(Tabs, t) /\ spaces' = spaces
                                /\ tabs' = [tabs EXCEPT ![k.ws] = Append(@, t)]
    <3>1. k.ws \in Workspaces
      BY <1>0, <2>5, ToSetFacts DEF RowsOK
    <3> QED BY <1>2, <2>5, <3>1
  <2> QED BY <1>1, <1>6, <2>2, <2>3, <2>4, <2>5 DEF Serve
<1>7. CASE Foreign
  <2>1. ToSet(spaces) \subseteq Workspaces
    BY <1>0, ToSetFacts DEF RowsOK
  <2>2. ASSUME NEW w \in Workspaces, NEW t, tabs' = [tabs EXCEPT ![w] = Without(@, t)],
               UNCHANGED <<spaces, issued>>
        PROVE  RowsDistinct'
    <3>1. ToSet(Without(tabs[w], t)) \subseteq ToSet(tabs[w])
      BY <1>0, WithoutIs DEF RowsOK
    <3>2. \A v \in Workspaces : ToSet(tabs'[v]) \subseteq ToSet(tabs[v])
      BY <1>0, <2>2, <3>1 DEF RowsOK
    <3> QED BY <1>3, <2>2, <3>2
  <2>3. ASSUME NEW w \in Workspaces, spaces' = Without(spaces, w), issued' = issued,
               tabs' = [tabs EXCEPT ![w] = <<>>]
        PROVE  RowsDistinct'
    <3>1. tabs' = [v \in Workspaces |-> IF v = w THEN <<>> ELSE tabs[v]]
      BY <1>0, <2>3 DEF RowsOK
    <3> QED BY <1>5, <2>3, <3>1, AssumedIds
  <2> QED BY <1>2, <1>7, <2>1, <2>2, <2>3 DEF Foreign
<1>8. ASSUME NEW c \in Calls, Fail(c) \/ Refuse(c) \/ Apply(c) PROVE RowsDistinct'
  BY <1>1, <1>8 DEF Fail, Refuse, Background, Apply, ApplyPoll, ApplyClick, ApplyCreate, ApplyClose,
          ApplySpace,
                    ApplyFirst, ApplyDrop
<1>9. CASE UserStep
  BY <1>1, <1>9 DEF UserStep, NewTab, NewSpace, Hide, Show, CloseTab, Select, DropSpace, Switch,
          ClickToast,
                    Request, Local
<1>10. CASE Poll
  BY <1>1, <1>10 DEF Poll, Request
<1>11. ASSUME NEW t \in Tabs, Output(t) \/ Fire(t) PROVE RowsDistinct'
  BY <1>1, <1>11 DEF Output, Fire, Local
<1>12. ASSUME NEW x, Dismiss(x) PROVE RowsDistinct'
  BY <1>1, <1>12 DEF Dismiss, Local
<1>13. CASE UNCHANGED vars
  BY <1>1, <1>13 DEF vars
<1> QED
  BY <1>6, <1>7, <1>8, <1>9, <1>10, <1>11, <1>12, <1>13 DEF Next, Trouble, Quiet

-----------------------------------------------------------------------------
(* The server answers the one request there is. *)
LEMMA ServeAlone ==
    ASSUME TypeInv, RowsDistinct, Shown, Alone, NEW c \in Calls, Serve(c)
    PROVE  Shown' /\ Alone'
<1>1. CallsOK /\ RowsOK /\ UNCHANGED <<listVars, viewVars, alertVars>>
  BY DEF TypeInv, ServerOK, Serve
<1>2. Shown'
  BY <1>1, ShownKept DEF alertVars
<1>3. \A w : ListOf(w)' = ListOf(w)
  BY <1>1, ListsKept DEF listVars
<1>4. PICK k : k = call[c]
  OBVIOUS
<1>5. k.op # "none" /\ k.at = "sent" /\ k # NoCall /\ CallOK(k)
  BY <1>1, <1>4 DEF Serve, NoCall, Call, CallsOK
<1>6. Ahead(k)
  BY <1>4, <1>5 DEF Alone
<1>7. /\ spaces = IF k.op = "first" THEN Append(workspaces, k.ws) ELSE workspaces
      /\ \A w \in Workspaces : tabs[w] = ListOf(w)
  BY <1>5, <1>6 DEF Ahead, SpacesAhead, TabsAhead
<1>8. UNCHANGED <<workspaces, sessions, activeWorkspaceId>>
  BY <1>1 DEF listVars, viewVars
<1>9. ASSUME NEW r, Answer(c, r), Ahead(Call(k.op, k.ws, k.tab, "answered", r))' PROVE Alone'
  <2> DEFINE a == Call(k.op, k.ws, k.tab, "answered", r)
  <2>1. a # NoCall
    BY DEF NoCall, Call
  <2>2. call' = [call EXCEPT ![c] = a]
    BY <1>4, <1>9 DEF Answer
  <2>3. Ahead(a)'
    BY <1>9
  <2> HIDE DEF a
  <2> QED BY <1>1, <1>4, <1>5, <2>1, <2>2, <2>3, PutAlone
<1>10. ASSUME NEW r PROVE LET a == Call(k.op, k.ws, k.tab, "answered", r)
                          IN  a.op = k.op /\ a.ws = k.ws /\ a.tab = k.tab
                                  /\ a.at = "answered" /\ a.reply = r
  BY DEF Call
<1>11. CASE k.op = "poll"
  <2>1. PICK r : r = tabs[k.ws]
    OBVIOUS
  <2> DEFINE a == Call(k.op, k.ws, k.tab, "answered", r)
  <2>2. a.op = "poll" /\ a.ws = k.ws /\ a.at = "answered" /\ a.reply = r
    BY <1>10, <1>11
  <2>4. k.ws \in Workspaces /\ k.ws \in ToSet(workspaces) /\ r = ListOf(k.ws)
    BY <1>6, <1>7, <1>11, <2>1, ListedWorkspaces DEF Ahead
  <2>3. Answer(c, r) /\ UNCHANGED serverVars
    BY <1>4, <1>11, <2>1, <2>4, AssumedIds DEF Serve
  <2> HIDE DEF a
  <2>5. Ahead(a)'
    BY <1>3, <1>7, <1>8, <1>11, <2>2, <2>3, <2>4 DEF Ahead, SpacesAhead, TabsAhead, serverVars
  <2> QED BY <1>2, <1>9, <2>3, <2>5 DEF a
<1>12. CASE k.op \in {"create", "first"}
  <2>1. k.ws \in Workspaces /\ k.ws \in ToSet(spaces)
    <3>1. k.ws \in Workspaces /\ workspaces \in Seq(Workspaces)
      BY <1>6, <1>12, ListedWorkspaces DEF Ahead, Shown
    <3>2. ToSet(Append(workspaces, k.ws)) = ToSet(workspaces) \cup {k.ws}
      BY <3>1, ToSetFacts
    <3> QED BY <1>6, <1>7, <1>12, <3>1, <3>2 DEF Ahead
  <2>2. PICK t \in Tabs : /\ tabs' = [tabs EXCEPT ![k.ws] = Append(@, t)]
                          /\ Answer(c, <<t>>) /\ spaces' = spaces
    BY <1>4, <1>12, <2>1 DEF Serve
  <2> DEFINE a == Call(k.op, k.ws, k.tab, "answered", <<t>>)
  <2>3. a.op = k.op /\ a.ws = k.ws /\ a.at = "answered" /\ a.reply = <<t>>
    BY <1>10
  <2>4. Head(a.reply) = t
    BY <2>3
  <2>5. \A w \in Workspaces : tabs'[w] = IF w = k.ws THEN Append(ListOf(w), t) ELSE ListOf(w)
    BY <1>1, <1>7, <2>2 DEF RowsOK
  <2>6. /\ k.op = "create" => k.ws \in ToSet(workspaces) /\ k.ws = activeWorkspaceId
        /\ k.op = "first" => k.ws \in Workspaces \ ToSet(workspaces)
    BY <1>6 DEF Ahead
  <2> HIDE DEF a
  <2>7. Ahead(a)'
    BY <1>3, <1>7, <1>8, <1>12, <2>2, <2>3, <2>4, <2>5, <2>6 DEF Ahead, SpacesAhead, TabsAhead
  <2> QED BY <1>2, <1>9, <2>2, <2>7 DEF a
<1>13. CASE k.op = "close"
  <2>1. /\ tabs' = [w \in Workspaces |-> Without(tabs[w], k.tab)]
        /\ Answer(c, <<>>) /\ spaces' = spaces
    BY <1>4, <1>13 DEF Serve
  <2> DEFINE a == Call(k.op, k.ws, k.tab, "answered", <<>>)
  <2>2. a.op = "close" /\ a.tab = k.tab /\ a.at = "answered"
    BY <1>10, <1>13
  <2>3. \A w \in Workspaces \ {activeWorkspaceId} : k.tab \notin ToSet(ListOf(w))
    BY <1>6, <1>13 DEF Ahead
  <2> HIDE DEF a
  <2>4. Ahead(a)'
    BY <1>3, <1>7, <1>8, <1>13, <2>1, <2>2, <2>3 DEF Ahead, SpacesAhead, TabsAhead
  <2> QED BY <1>2, <1>9, <2>1, <2>4 DEF a
<1>14. CASE k.op = "space"
  <2>1. PICK w \in Workspaces : /\ Issue(Workspaces, w) /\ spaces' = Append(spaces, w)
                                /\ Answer(c, <<w>>) /\ tabs' = tabs
    BY <1>4, <1>14 DEF Serve
  <2> DEFINE a == Call(k.op, k.ws, k.tab, "answered", <<w>>)
  <2>2. a.op = "space" /\ a.at = "answered" /\ a.reply = <<w>>
    BY <1>10, <1>14
  <2>3. Head(a.reply) = w
    BY <2>2
  <2>4. w \notin ToSet(workspaces)
    BY <1>7, <1>14, <2>1 DEF Issue, RowsDistinct
  <2> HIDE DEF a
  <2>5. Ahead(a)'
    BY <1>3, <1>7, <1>8, <1>14, <2>1, <2>2, <2>3, <2>4 DEF Ahead, SpacesAhead, TabsAhead
  <2> QED BY <1>2, <1>9, <2>1, <2>5 DEF a
<1>15. CASE k.op = "drop"
  <2>1. /\ spaces' = Without(spaces, k.ws) /\ Answer(c, <<>>)
        /\ tabs' = [w \in Workspaces |-> IF w = k.ws THEN <<>> ELSE tabs[w]]
    BY <1>4, <1>15 DEF Serve
  <2> DEFINE a == Call(k.op, k.ws, k.tab, "answered", <<>>)
  <2>2. a.op = "drop" /\ a.ws = k.ws /\ a.at = "answered"
    BY <1>10, <1>15
  <2>3. k.ws \in ToSet(workspaces) /\ \E w \in ToSet(workspaces) : w # k.ws
    BY <1>6, <1>15 DEF Ahead
  <2>4. \A w \in Workspaces : tabs'[w] = IF w = k.ws THEN <<>> ELSE ListOf(w)
    BY <1>1, <1>7, <2>1 DEF RowsOK
  <2> HIDE DEF a
  <2>5. Ahead(a)'
    BY <1>3, <1>7, <1>8, <1>15, <2>1, <2>2, <2>3, <2>4 DEF Ahead, SpacesAhead, TabsAhead
  <2> QED BY <1>2, <1>9, <2>1, <2>5 DEF a
<1> QED
  <2>1. k.op \in CallOps /\ k.op # "click"
    BY <1>5, <1>6 DEF CallOK, CallTypes, Ahead
  <2> QED BY <1>5, <1>11, <1>12, <1>13, <1>14, <1>15, <2>1 DEF CallOps

-----------------------------------------------------------------------------
(* Its continuation catches up with the server. *)
LEMMA ApplyAlone ==
    ASSUME TypeInv, RowsDistinct, RowsDistinct', TypeInv', Shown, Alone, NEW c \in Calls, Apply(c)
    PROVE  Shown' /\ Alone'
<1>1. CallsOK /\ RowsOK /\ ListsOK /\ ViewOK /\ UNCHANGED serverVars
  BY DEF TypeInv, ServerOK, StoreOK, Apply, ApplyPoll, ApplyClick, ApplyCreate, ApplyClose,
          ApplySpace,
         ApplyFirst, ApplyDrop, Background
<1>2. PICK k : k = call[c]
  OBVIOUS
<1>3. k.at = "answered" /\ k.op # "none" /\ k # NoCall /\ CallOK(k)
  BY <1>1, <1>2 DEF Apply, ApplyPoll, ApplyClick, ApplyCreate, ApplyClose, ApplySpace,
          ApplyFirst, ApplyDrop,
         Answered, NoCall, Call, CallsOK
<1>4. Ahead(k)
  BY <1>2, <1>3 DEF Alone
<1>5. ASSUME Done(c), InStep' PROVE Alone'
  BY <1>1, <1>2, <1>3, <1>5, DoneAlone
<1>6. spaces' = SpacesAhead(k) /\ \A w \in Workspaces : tabs'[w] = TabsAhead(k, w)
  BY <1>1, <1>4 DEF Ahead, serverVars
<1>7. \A w \in Workspaces : ToSet(ListOf(w)) \subseteq Tabs /\ ListOf(w) \in Seq(Tabs)
  BY ListedWorkspaces DEF Shown
<1>8. CASE ApplyPoll(c)
  <2>1. k.op = "poll" /\ k.reply = ListOf(k.ws)
    BY <1>2, <1>4, <1>8 DEF ApplyPoll, Answered, Ahead
  <2>2. sessions' = sessions
    BY <1>2, <1>8, <2>1 DEF ApplyPoll, sessionsEqual
  <2>3. UNCHANGED <<listVars, viewVars>> /\ toasts' = toasts /\ Done(c)
    BY <1>8, <2>2 DEF ApplyPoll, listVars, alertVars
  <2>4. InStep'
    BY <1>6, <2>1, <2>3, ListsKept DEF InStep, SpacesAhead, TabsAhead, listVars
  <2> QED BY <1>5, <2>3, <2>4, ShownKept
<1>9. CASE ApplyClick(c)
  BY <1>2, <1>4, <1>9 DEF ApplyClick, Answered, Ahead
<1>10. CASE ApplyCreate(c)
  <2>1. k.op = "create"
    BY <1>2, <1>10 DEF ApplyCreate, Answered
  <2>2. PICK t : t = Head(k.reply)
    OBVIOUS
  <2>3. /\ t \in Tabs /\ k.ws \in ToSet(workspaces) /\ k.ws \in Workspaces
        /\ ListOf(k.ws) # ErrorBody
    BY <1>3, <1>4, <2>1, <2>2, ListedWorkspaces DEF Ahead
  <2>4. PICK w : w = k.ws
    OBVIOUS
  <2>14. /\ sessions' = [sessions EXCEPT ![w] = Append(ListOf(w), t)] /\ workspaces' = workspaces
        /\ activeSessionId' = t /\ activeWorkspaceId' = activeWorkspaceId
        /\ activeSessionByWorkspace' = [activeSessionByWorkspace EXCEPT ![w] = t]
        /\ toasts' = toasts /\ Done(c)
    BY <1>2, <1>10, <2>2, <2>3, <2>4 DEF ApplyCreate, alertVars
  <2>5. w = activeWorkspaceId
    BY <1>4, <2>1, <2>4 DEF Ahead
  <2>6. PICK list : list = Append(ListOf(w), t)
    OBVIOUS
  <2>7. list \in Seq(Tabs) /\ ToSet(list) = ToSet(ListOf(w)) \cup {t} /\ list # <<>>
    BY <1>7, <2>3, <2>4, <2>6, ToSetFacts
  <2>8. list # None /\ list \in Seq(Tabs \cup {Undefined})
    BY <2>7, AssumedIds
  <2>9. /\ \A v \in Workspaces : sessions'[v] = None <=> sessions[v] = None
        /\ \A v \in Workspaces : ListOf(v)' = IF v = w THEN list ELSE ListOf(v)
        /\ sessions'[Undefined] = sessions[Undefined]
    <3>1. w \in Workspaces /\ sessions[w] # None /\ sessions' = [sessions EXCEPT ![w] = list]
      BY <2>3, <2>4, <2>14, <2>6, ListedWorkspaces
    <3>2. /\ \A v \in Workspaces : sessions'[v] = IF v = w THEN list ELSE sessions[v]
          /\ \A v \in Workspaces : ListOf(v)' = IF v = w THEN list ELSE ListOf(v)
          /\ sessions'[Undefined] = sessions[Undefined]
      BY <1>1, <2>8, <3>1, ListUpdated
    <3> QED BY <2>8, <3>1, <3>2
  <2>10. \A v \in Workspaces : activeSessionByWorkspace'[v] =
            IF v = w THEN t ELSE activeSessionByWorkspace[v]
    BY <1>1, <2>14, AssumedIds DEF ViewOK
  <2>11. \A x \in ToSet(toasts) : x.tab \in ToSet(ListOf(x.ws)')
    BY <2>7, <2>9, ToastPlaces DEF Shown
  <2>12. Shown'
    BY <2>3, <2>4, <2>5, <2>14, <2>7, <2>9, <2>10, <2>11, ListedWorkspaces DEF Shown
  <2>13. InStep'
    BY <1>3, <1>6, <2>1, <2>2, <2>4, <2>14, <2>6, <2>9 DEF InStep, SpacesAhead, TabsAhead
  <2> QED BY <1>5, <2>14, <2>12, <2>13
<1>11. CASE ApplyClose(c)
  <2>1. PICK t, w : t = k.tab /\ w = activeWorkspaceId
    OBVIOUS
  <2>2. k.op = "close" /\ \A v \in Workspaces \ {w} : t \notin ToSet(ListOf(v))
    BY <1>2, <1>4, <1>11, <2>1 DEF ApplyClose, Answered, Ahead
  <2>3. /\ w \in Workspaces /\ ~Orphan(w) /\ w \in ToSet(workspaces)
        /\ sessions[w] # None /\ ListOf(w) # ErrorBody
    BY <2>1, ListedWorkspaces DEF Shown
  <2>4. PICK left : left = Without(ListOf(w), t)
    OBVIOUS
  <2>5. PICK next : next = IF activeSessionId = t THEN FirstId(left) ELSE activeSessionId
    OBVIOUS
  <2>6. /\ sessions' = [sessions EXCEPT ![w] = left] /\ workspaces' = workspaces
        /\ activeSessionId' = next /\ activeWorkspaceId' = w
        /\ activeSessionByWorkspace' = AfterClose(w, t, next)
        /\ ClearAlerts({t}) /\ Done(c)
    BY <1>2, <1>11, <2>1, <2>3, <2>4, <2>5 DEF ApplyClose
  <2>7. /\ left \in Seq(Tabs) /\ ToSet(left) = ToSet(ListOf(w)) \ {t}
        /\ left = <<>> <=> ToSet(left) = {}
        /\ ToSet(left) \subseteq Tabs
    <3>1. left \in Seq(Tabs) /\ ToSet(left) = ToSet(ListOf(w)) \ {t}
      BY <1>7, <2>3, <2>4, WithoutIs
    <3> QED BY <3>1, ToSetFacts
  <2>8. left # None /\ left \in Seq(Tabs \cup {Undefined})
    BY <2>7, AssumedIds
  <2>9. /\ \A v \in Workspaces : sessions'[v] = None <=> sessions[v] = None
        /\ \A v \in Workspaces : ListOf(v)' = IF v = w THEN left ELSE ListOf(v)
        /\ sessions'[Undefined] = sessions[Undefined]
    <3>1. /\ \A v \in Workspaces : sessions'[v] = IF v = w THEN left ELSE sessions[v]
          /\ \A v \in Workspaces : ListOf(v)' = IF v = w THEN left ELSE ListOf(v)
          /\ sessions'[Undefined] = sessions[Undefined]
      BY <1>1, <2>3, <2>6, <2>8, ListUpdated
    <3> QED BY <2>3, <2>8, <3>1
  <2>10. IF left = <<>> THEN next = None ELSE next \in ToSet(left)
    <3>1. CASE activeSessionId = t
      BY <2>5, <2>7, <3>1, FirstIdIs
    <3>2. CASE activeSessionId # t
      <4>1. CASE ListOf(w) = <<>>
        BY <1>7, <2>1, <2>3, <2>5, <2>7, <3>2, <4>1, ToSetFacts DEF Shown
      <4>2. CASE ListOf(w) # <<>>
        BY <2>1, <2>5, <2>7, <3>2, <4>2 DEF Shown
      <4> QED BY <4>1, <4>2
    <3> QED BY <3>1, <3>2
  <2>11. \A v \in Workspaces : activeSessionByWorkspace'[v] \in ToSet(ListOf(v)') \cup {Undefined}
    <3>1. /\ activeSessionByWorkspace \in [Spaces -> Tabs \cup {Undefined}]
          /\ Workspaces \subseteq Spaces
      BY <1>1, AssumedIds DEF ViewOK
    <3>2. \A v \in Workspaces : activeSessionByWorkspace[v] \in ToSet(ListOf(v)) \cup {Undefined}
      BY DEF Shown
    <3>3. CASE activeSessionByWorkspace[w] # t
      BY <2>6, <2>7, <2>9, <3>2, <3>3 DEF AfterClose
    <3>4. CASE activeSessionByWorkspace[w] = t
      <4>1. \A v \in Workspaces : activeSessionByWorkspace'[v] =
               IF v = w THEN (IF Orphan(next) THEN Undefined ELSE next)
                       ELSE activeSessionByWorkspace[v]
        BY <2>6, <3>1, <3>4 DEF AfterClose
      <4>2. ~Orphan(next) => next \in ToSet(left)
        BY <2>10 DEF Orphan
      <4> QED BY <2>9, <3>2, <4>1, <4>2
    <3> QED BY <3>3, <3>4
  <2>12. \A x \in ToSet(toasts') : x.ws \in Workspaces /\ x.tab \in ToSet(ListOf(x.ws)')
    BY <2>6, <2>7, <2>9, ToastsLeft, ToastPlaces DEF Shown
  <2>13. Shown'
    BY <2>3, <2>6, <2>7, <2>9, <2>10, <2>11, <2>12 DEF Shown
  <2>14. InStep'
    <3>1. \A v \in Workspaces : TabsAhead(k, v) = Without(ListOf(v), t)
      BY <1>3, <2>1, <2>2 DEF TabsAhead
    <3>2. \A v \in Workspaces \ {w} : Without(ListOf(v), t) = ListOf(v)
      BY <1>7, <2>2, WithoutIs
    <3> QED BY <1>6, <2>2, <2>4, <2>6, <2>9, <3>1, <3>2 DEF InStep, SpacesAhead
  <2> QED BY <1>5, <2>6, <2>13, <2>14
<1>12. CASE ApplySpace(c)
  <2>1. PICK w : w = Head(k.reply)
    OBVIOUS
  <2>2. k.op = "space" /\ w \in Workspaces \ ToSet(workspaces)
    BY <1>2, <1>3, <1>4, <1>12, <2>1 DEF ApplySpace, Answered, Ahead
  <2> DEFINE a == Call("first", w, None, "sent", <<>>)
  <2>3. call' = [call EXCEPT ![c] = a] /\ UNCHANGED <<listVars, viewVars, alertVars>>
    BY <1>2, <1>12, <2>1 DEF ApplySpace
  <2>4. a.op = "first" /\ a.ws = w /\ a.at = "sent" /\ a # NoCall
    BY DEF Call, NoCall
  <2> HIDE DEF a
  <2>5. Ahead(a)'
    <3>1. \A v : ListOf(v)' = ListOf(v)
      BY <2>3, ListsKept DEF listVars
    <3> QED BY <1>3, <1>6, <2>1, <2>2, <2>3, <2>4, <3>1 DEF Ahead, SpacesAhead, TabsAhead, listVars
  <2>6. Shown'
    BY <2>3, ShownKept DEF alertVars
  <2> QED BY <1>1, <1>2, <1>3, <2>3, <2>4, <2>5, <2>6, PutAlone
<1>13. CASE ApplyFirst(c)
  <2>1. PICK t, w : t = Head(k.reply) /\ w = k.ws
    OBVIOUS
  <2>2. k.op = "first"
    BY <1>2, <1>13 DEF ApplyFirst, Answered
  <2>3. w \in Workspaces /\ w \notin ToSet(workspaces) /\ t \in Tabs
    BY <1>3, <1>4, <2>1, <2>2 DEF Ahead
  <2>4. PICK list : list = <<t>>
    OBVIOUS
  <2>5. /\ workspaces' = Append(workspaces, w) /\ sessions' = [sessions EXCEPT ![w] = list]
        /\ activeWorkspaceId' = w /\ activeSessionId' = t
        /\ activeSessionByWorkspace' = [activeSessionByWorkspace EXCEPT ![w] = t]
        /\ toasts' = toasts /\ Done(c)
    BY <1>2, <1>13, <2>1, <2>4 DEF ApplyFirst, alertVars
  <2>6. list \in Seq(Tabs) /\ ToSet(list) = {t} /\ list # <<>>
    BY <2>3, <2>4 DEF ToSet
  <2>7. list # None /\ list \in Seq(Tabs \cup {Undefined})
    BY <2>6, AssumedIds
  <2>8. /\ \A v \in Workspaces : sessions'[v] = IF v = w THEN list ELSE sessions[v]
        /\ \A v \in Workspaces : ListOf(v)' = IF v = w THEN list ELSE ListOf(v)
        /\ sessions'[Undefined] = sessions[Undefined]
    BY <1>1, <2>3, <2>5, <2>7, ListUpdated
  <2>9. ListOf(w) = <<>> /\ ToSet(ListOf(w)) = {}
    BY <2>3 DEF Shown, ListOf, ToSet
  <2>10. ToSet(workspaces') = ToSet(workspaces) \cup {w} /\ workspaces' \in Seq(Workspaces)
    <3>1. workspaces \in Seq(Workspaces)
      BY DEF Shown
    <3> QED BY <2>3, <2>5, <3>1, ToSetFacts
  <2>11. \A v \in Workspaces : activeSessionByWorkspace'[v] =
            IF v = w THEN t ELSE activeSessionByWorkspace[v]
    BY <1>1, <2>5, AssumedIds DEF ViewOK
  <2>12. \A x \in ToSet(toasts') : x.tab \in ToSet(ListOf(x.ws)')
    BY <2>5, <2>8, <2>9, ToastPlaces DEF Shown
  <2>13. Shown'
    BY <2>3, <2>5, <2>6, <2>7, <2>8, <2>10, <2>11, <2>12 DEF Shown
  <2>14. InStep'
    <3>1. tabs'[w] = list
      <4>1. tabs'[w] = Append(ListOf(w), t)
        BY <1>3, <1>6, <2>1, <2>2, <2>3 DEF TabsAhead
      <4>2. Append(<<>>, t) = <<t>>
        OBVIOUS
      <4> QED BY <2>4, <2>9, <4>1, <4>2
    <3> QED BY <1>3, <1>6, <2>1, <2>2, <2>5, <2>8, <3>1 DEF InStep, SpacesAhead, TabsAhead
  <2> QED BY <1>5, <2>5, <2>13, <2>14
<1>14. CASE ApplyDrop(c)
  <2>1. PICK w, left : w = k.ws /\ left = Without(workspaces, w)
    OBVIOUS
  <2>2. PICK next : next = IF left = <<>> THEN None ELSE Head(left)
    OBVIOUS
  <2>3. k.op = "drop"
    BY <1>2, <1>14 DEF ApplyDrop, Answered
  <2>4. /\ w \in Workspaces /\ ListOf(w) # ErrorBody
        /\ \E v \in ToSet(workspaces) : v # w
    BY <1>3, <1>4, <2>1, <2>3, ListedWorkspaces DEF Ahead
  <2>5. /\ workspaces' = left /\ sessions' = [sessions EXCEPT ![w] = None]
        /\ activeWorkspaceId' = next
        /\ activeSessionByWorkspace' = [activeSessionByWorkspace EXCEPT ![w] = Undefined]
        /\ activeSessionId' =
                IF Orphan(next) THEN None
                ELSE IF activeSessionByWorkspace'[next] # Undefined
                        THEN activeSessionByWorkspace'[next]
                ELSE FirstId(ListOf(next))
        /\ ClearAlerts(ToSet(ListOf(w))) /\ Done(c)
    BY <1>2, <1>14, <2>1, <2>2, <2>4 DEF ApplyDrop, Seen
  <2>6. /\ left \in Seq(Workspaces) /\ ToSet(left) = ToSet(workspaces) \ {w}
        /\ next \in ToSet(left) /\ next \in Workspaces /\ ~Orphan(next) /\ next # w
    <3>1. left \in Seq(Workspaces) /\ ToSet(left) = ToSet(workspaces) \ {w}
      BY <2>1, WithoutIs DEF Shown
    <3>2. ToSet(left) # {}
      BY <2>4, <3>1
    <3>3. left # <<>> /\ Head(left) \in ToSet(left) /\ ToSet(left) \subseteq Workspaces
      BY <3>1, <3>2, ToSetFacts
    <3> QED BY <2>2, <3>1, <3>3, AssumedIds DEF Orphan
  <2>7. /\ \A v \in Workspaces : sessions'[v] = IF v = w THEN None ELSE sessions[v]
        /\ \A v \in Workspaces : ListOf(v)' = IF v = w THEN <<>> ELSE ListOf(v)
        /\ sessions'[Undefined] = sessions[Undefined]
    BY <1>1, <2>4, <2>5, ListUpdated
  <2>8. \A v \in Workspaces : activeSessionByWorkspace'[v] =
            IF v = w THEN Undefined ELSE activeSessionByWorkspace[v]
    BY <1>1, <2>5, AssumedIds DEF ViewOK
  <2>9. IF ListOf(next) = <<>> THEN activeSessionId' = None
          ELSE activeSessionId' \in ToSet(ListOf(next))
    <3>1. activeSessionByWorkspace'[next] \in ToSet(ListOf(next)) \cup {Undefined}
      BY <2>6, <2>8 DEF Shown
    <3>2. ListOf(next) = <<>> => ToSet(ListOf(next)) = {}
      BY <1>7, <2>6, ToSetFacts
    <3>3. IF ListOf(next) = <<>> THEN FirstId(ListOf(next)) = None
          ELSE FirstId(ListOf(next)) \in ToSet(ListOf(next))
      BY <1>7, <2>6, FirstIdIs
    <3> QED BY <2>5, <2>6, <3>1, <3>2, <3>3
  <2>10. \A x \in ToSet(toasts') : x.ws \in Workspaces /\ x.tab \in ToSet(ListOf(x.ws)')
    BY <2>5, <2>7, ToastsLeft, ToastPlaces DEF Shown
  <2>11. \A v \in Workspaces : ListOf(v)' \in Seq(Tabs)
    <3>1. <<>> \in Seq(Tabs)
      OBVIOUS
    <3> QED BY <1>7, <2>7, <3>1
  <2>12. Shown'
    BY <2>5, <2>6, <2>7, <2>8, <2>9, <2>10, <2>11 DEF Shown
  <2>13. InStep'
    BY <1>3, <1>6, <2>1, <2>3, <2>5, <2>7 DEF InStep, SpacesAhead, TabsAhead
  <2> QED BY <1>5, <2>5, <2>12, <2>13
<1> QED BY <1>8, <1>9, <1>10, <1>11, <1>12, <1>13, <1>14 DEF Apply

-----------------------------------------------------------------------------
(* Activity leaves the lists alone; a new toast is of a tab some list has. *)
LEMMA ActivityAlone ==
    ASSUME TypeInv, Shown, Alone,
           \/ \E t \in Tabs : Output(t) \/ Fire(t)
           \/ \E x : Dismiss(x)
    PROVE  Shown' /\ Alone'
<1>1. UNCHANGED <<serverVars, call, listVars, viewVars>>
  BY DEF Output, Fire, Dismiss, Local
<1>2. Alone'
  BY <1>1, QuietAlone DEF viewVars
<1>3. toasts \in Seq(ToastTypes)
  BY DEF TypeInv, StoreOK, AlertsOK
<1>4. CASE \E t \in Tabs : Output(t)
  BY <1>1, <1>2, <1>4, ShownKept DEF Output
<1>5. CASE \E x : Dismiss(x)
  <2>1. \A x : ToSet(Without(toasts, x)) \subseteq ToSet(toasts)
    BY <1>3, WithoutIs
  <2> QED BY <1>1, <1>2, <1>5, <2>1, ShownKept DEF Dismiss
<1>6. ASSUME NEW t \in Tabs, Fire(t) PROVE Shown'
  <2>1. CASE toasts' = toasts
    BY <1>1, <2>1, ShownKept
  <2>2. ASSUME NEW w \in Workspaces, t \in ToSet(ListOf(w)), PushToast(t, w) PROVE Shown'
    <3> DEFINE others == {x \in ToSet(toasts) : x.tab # t}
               old == KeepIn(toasts, others)
               new == [tab |-> t, ws |-> w]
               kept == Append(old, new)
    <3>1. old \in Seq(ToastTypes) /\ ToSet(old) \subseteq ToSet(toasts)
      BY <1>3, KeepInIs
    <3>2. new \in ToastTypes /\ new.tab = t /\ new.ws = w
      BY AssumedIds DEF ToastTypes
    <3>3. toasts' = kept \/ toasts' = Tail(kept)
      BY <2>2 DEF PushToast
    <3> HIDE DEF old, new
    <3>4. kept \in Seq(ToastTypes) /\ kept # <<>> /\ ToSet(kept) = ToSet(old) \cup {new}
      <4>1. ToSet(kept) = ToSet(old) \cup {new}
        BY <3>1, <3>2, ToSetFacts
      <4>2. kept \in Seq(ToastTypes) /\ kept # <<>>
        <5>1. \A s \in Seq(ToastTypes), x \in ToastTypes :
                Append(s, x) \in Seq(ToastTypes) /\ Append(s, x) # <<>>
          OBVIOUS
        <5> QED BY <3>1, <3>2, <5>1
      <4> QED BY <4>1, <4>2
    <3> HIDE DEF kept
    <3>5. ToSet(Tail(kept)) \subseteq ToSet(kept)
      BY <3>4 DEF ToSet
    <3>6. \A x \in ToSet(toasts') : x \in ToSet(toasts) \/ x = new
      <4>1. ToSet(toasts') \subseteq ToSet(kept)
        BY <3>3, <3>5
      <4> QED BY <3>1, <3>4, <4>1
    <3>7. \A x \in ToSet(toasts') : x.ws \in Workspaces /\ x.tab \in ToSet(ListOf(x.ws))
      BY <2>2, <3>2, <3>6 DEF Shown
    <3> QED BY <1>1, <3>7, ListsKept DEF Shown, listVars, viewVars
  <2>3. \A w \in Homes(t) : w \in Workspaces /\ t \in ToSet(ListOf(w))
    <3>1. ListOf(Undefined) = <<>>
      BY DEF Shown, ListOf
    <3>2. ToSet(<<>>) = {}
      BY DEF ToSet
    <3>3. \A w \in Spaces : ListOf(w) # ErrorBody
      <4>1. <<>> # ErrorBody
        <5>1. <<>> \in Seq(Tabs \cup {Undefined})
          OBVIOUS
        <5> QED BY <5>1, AssumedIds
      <4> QED BY <3>1, <4>1, ListedWorkspaces DEF Spaces
    <3>4. \A w \in Homes(t) : w \in Spaces /\ t \in ToSet(ListOf(w))
      BY <3>3 DEF Homes, Ids
    <3> QED BY <3>1, <3>2, <3>4 DEF Spaces
  <2> QED BY <1>6, <2>1, <2>2, <2>3 DEF Fire, Announce
<1> QED BY <1>2, <1>4, <1>5, <1>6

LEMMA SoleStep == TypeInv /\ SoleInv /\ [Next]_vars => SoleInv'
<1> SUFFICES ASSUME TypeInv, SoleInv, [Next]_vars PROVE SoleInv'
  OBVIOUS
<1>1. RowsDistinct' /\ TypeInv'
  BY RowsStep, StepTyped DEF SoleInv
<1> SUFFICES ASSUME ~raced' PROVE ~broken' /\ Shown' /\ Alone'
  BY <1>1 DEF SoleInv
<1>2. CASE UNCHANGED vars
  <2>1. ~raced
    BY <1>2 DEF vars
  <2> QED BY <1>2, <2>1, ShownKept, QuietAlone DEF SoleInv, vars, alertVars, viewVars
<1>3. ASSUME Shown', ~broken, Rendered PROVE ~broken'
  <2>1. \A w \in Workspaces : ListOf(w)' # ErrorBody
    <3>1. \A w \in Workspaces : ListOf(w)' \in Seq(Tabs \cup {Undefined})
      BY <1>3 DEF Shown
    <3> QED BY <3>1, AssumedIds
  <2>2. ToSet(workspaces') \subseteq Workspaces /\ activeWorkspaceId' \in Workspaces
    BY <1>3, ToSetFacts DEF Shown
  <2>3. ~TabBarThrows' /\ ~SidebarThrows'
    BY <2>1, <2>2 DEF TabBarThrows, SidebarThrows, ListOf
  <2> QED BY <1>3, <2>3 DEF Rendered
<1>4. CASE (UserStep \/ Poll) /\ raced' = (raced \/ InFlight) /\ Rendered
  <2>1. ~raced /\ ~InFlight
    BY <1>4
  <2> QED BY <1>3, <1>4, <2>1, UserAlone DEF SoleInv, Alone
<1>5. CASE Quiet /\ Calm
  <2>1. ~raced /\ Rendered
    BY <1>5 DEF Calm
  <2>2. Shown' /\ Alone'
    BY <1>1, <1>5, <2>1, ServeAlone, ApplyAlone, ActivityAlone DEF SoleInv, Quiet
  <2> QED BY <1>3, <2>1, <2>2 DEF SoleInv
<1> QED BY <1>2, <1>4, <1>5 DEF Next, Counted, Polled

LEMMA InitSole == Init => SoleInv
<1> SUFFICES ASSUME Init PROVE SoleInv
  OBVIOUS
<1>1. /\ StartSpaces \in Seq(Workspaces) /\ IsInjective(StartSpaces) /\ Len(StartSpaces) > 0
      /\ StartTabs \in [Workspaces -> Seq(Tabs)] /\ Len(StartTabs[StartSpaces[1]]) > 0
      /\ \A w \in Workspaces : w \notin ToSet(StartSpaces) => StartTabs[w] = <<>>
      /\ \A v, w \in Workspaces : v # w => ToSet(StartTabs[v]) \cap ToSet(StartTabs[w]) = {}
  BY AppStoreAssumption DEF AppStoreAssumption
<1>2. StartSpaces[1] \in ToSet(StartSpaces) /\ StartSpaces[1] \in Workspaces
  <2>1. 1 \in 1 .. Len(StartSpaces)
    BY <1>1
  <2> QED BY <1>1, <2>1, ToSetFacts
<1>3. RowsDistinct
  <2>1. \A w \in Workspaces : ToSet(StartTabs[w]) \subseteq issued
    BY DEF Init
  <2> QED BY <1>1, <2>1 DEF Init, RowsDistinct
<1> SUFFICES ASSUME ~raced PROVE ~broken /\ Shown /\ Alone
  BY <1>3 DEF SoleInv
<1>4. \A w \in Workspaces : StartTabs[w] \in Seq(Tabs) /\ StartTabs[w] # None
  <2>1. \A w \in Workspaces : StartTabs[w] \in Seq(Tabs \cup {Undefined})
    BY <1>1
  <2> QED BY <1>1, <2>1, AssumedIds
<1>5. /\ sessions = [w \in Spaces |-> IF w \in ToSet(StartSpaces) THEN StartTabs[w] ELSE None]
      /\ activeSessionByWorkspace = [w \in Spaces |->
            IF w \in ToSet(StartSpaces) /\ StartTabs[w] # <<>> THEN StartTabs[w][1] ELSE Undefined]
  <2>1. PICK refused \in SUBSET ToSet(StartSpaces) :
            /\ sessions = [w \in Spaces |-> IF w \in refused THEN ErrorBody
                        ELSE IF w \in ToSet(StartSpaces) THEN StartTabs[w] ELSE None]
            /\ activeSessionByWorkspace = [w \in Spaces |->
                    IF w \in ToSet(StartSpaces) \ refused /\ StartTabs[w] # <<>>
                    THEN StartTabs[w][1] ELSE Undefined]
            /\ raced = (refused # {})
    BY DEF Init
  <2>2. refused = {}
    BY <2>1
  <2> QED BY <2>1, <2>2
<1>6. \A w \in Workspaces : /\ sessions[w] = None <=> w \notin ToSet(StartSpaces)
                            /\ ListOf(w) = StartTabs[w]
  BY <1>1, <1>4, <1>5, AssumedIds DEF ListOf
<1>7. sessions[Undefined] = None
  <2>1. Undefined \notin ToSet(StartSpaces)
    BY <1>1, ToSetFacts, AssumedIds
  <2> QED BY <1>5, <2>1, AssumedIds
<1>8. \A w \in Workspaces : activeSessionByWorkspace[w] \in ToSet(ListOf(w)) \cup {Undefined}
  <2>1. \A w \in Workspaces : StartTabs[w] # <<>> => StartTabs[w][1] \in ToSet(StartTabs[w])
    <3>1. \A w \in Workspaces : StartTabs[w] # <<>> => 1 \in 1 .. Len(StartTabs[w])
      BY <1>1
    <3> QED BY <1>1, <3>1, ToSetFacts
  <2> QED BY <1>5, <1>6, <2>1, AssumedIds
<1>9. ListOf(activeWorkspaceId) # <<>> /\ activeSessionId \in ToSet(ListOf(activeWorkspaceId))
  <2>1. PICK list : list = StartTabs[StartSpaces[1]]
    OBVIOUS
  <2>2. list \in Seq(Tabs) /\ list # <<>>
    BY <1>1, <1>2, <2>1
  <2>3. sessions[StartSpaces[1]] = list /\ ListOf(StartSpaces[1]) = list
    BY <1>2, <1>5, <1>6, <2>1, AssumedIds
  <2>4. activeSessionId = FirstId(list) /\ activeWorkspaceId = StartSpaces[1]
    BY <2>3 DEF Init
  <2> QED BY <2>2, <2>3, <2>4, FirstIdIs
<1>10. ToSet(toasts) = {}
  BY DEF Init, ToSet
<1>11. Shown
  <2>1. workspaces = StartSpaces /\ activeWorkspaceId = StartSpaces[1]
    BY DEF Init
  <2> QED BY <1>1, <1>2, <1>4, <1>6, <1>7, <1>8, <1>9, <1>10, <2>1 DEF Shown
<1>12. ~broken
  BY <1>11, InitTyped, ListedWorkspaces DEF Init, SidebarThrows
<1>13. Alone
  BY <1>6 DEF Init, Alone, InFlight, InStep
<1> QED BY <1>11, <1>12, <1>13

(* As long as a request never overlaps another step and none fails or is   *)
(* refused, the page is up, the lists are the server's whenever no request *)
(* is under way, and what is active and remembered is in them              *)
(* (appStore.ts:175-360).                                                  *)
THEOREM SoleActor == Spec => []SoleActorIsExact
<1> DEFINE Inv == TypeInv /\ SoleInv
<1>1. Init => Inv
  BY InitTyped, InitSole
<1>2. Inv /\ [Next]_vars => Inv'
  BY StepTyped, SoleStep
<1>3. Inv => SoleActorIsExact
  <2> SUFFICES ASSUME Inv, ~raced, ~InFlight PROVE SoleActorIsExact
    BY DEF SoleActorIsExact
  <2>1. ~broken /\ Shown /\ spaces = workspaces /\ \A w \in Workspaces : tabs[w] = ListOf(w)
    BY DEF SoleInv, Alone, InStep
  <2>2. \A w \in Workspaces : sessions[w] = IF w \in ToSet(spaces) THEN tabs[w] ELSE None
    BY <2>1, ListedWorkspaces DEF Shown
  <2>3. tabs[activeWorkspaceId] = ListOf(activeWorkspaceId)
    BY <2>1, ListedWorkspaces
  <2> QED BY <2>1, <2>2, <2>3 DEF Shown, SoleActorIsExact
<1> QED BY <1>1, <1>2, <1>3, PTL DEF Spec
==============================================================================
