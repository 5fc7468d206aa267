------------------------- MODULE TerminalInputProofs --------------------------
(*************************************************************************)
(* Proofs about what is entered on the page: TerminalInput, for any number *)
(* of tabs and inputs; and, in the second part, WorkspaceNames, for any  *)
(* number of workspaces, names and requests under way.  The parts share no *)
(* variable, and neither uses anything of the other.                     *)
(*************************************************************************)
EXTENDS TerminalInput, WorkspaceNames, SequenceTheorems, TLAPS

(* inst.composing and the suppression against what the IME really does *)
GateInv ==
    /\ shown # None => shown \in opened
    /\ \A t \in Tabs : listeners[t] = IF t \in opened THEN 1 ELSE 0
    /\ preedit \subseteq composing /\ composing \subseteq preedit \cup cut
    /\ suppressing = recent
    /\ \A t \in Tabs : echo[t] # Nothing => t \in opened

(* A line in which only members of D come back, and none is above n *)
Good(s, D, n) ==
    /\ s \in Seq(Inputs)
    /\ \A i \in 1 .. Len(s) :
          s[i] <= n /\ \A j \in 1 .. i - 1 : s[j] < s[i] \/ s[i] \in D

Has(s, x) == \E i \in 1 .. Len(s) : s[i] = x

LineInv ==
    /\ \A t \in Tabs : Good(sent[t], doubled, inputs)
    /\ \A t \in Tabs : \A x \in owed[t] : Has(sent[t], x)
    /\ \A t \in Tabs : echo[t] <= inputs
    /\ doubled \subseteq 1 .. inputs
    /\ back # Nothing => back \in doubled

IInv == TypeOK /\ GateInv /\ LineInv

-----------------------------------------------------------------------------
(* Lines *)

LEMMA GoodGrows ==
    ASSUME NEW s, NEW D, NEW E, NEW n \in Nat, NEW m \in Nat,
           Good(s, D, n), D \subseteq E, n <= m
    PROVE  Good(s, E, m)
<1> USE DEF Good
<1>1. \A i \in 1 .. Len(s) : s[i] \in Int
  BY ElementOfSeq, TerminalInputAssumption DEF Inputs
<1> QED BY <1>1

(* One more at the end of a line: it is new, or known to come back. *)
LEMMA GoodAppend ==
    ASSUME NEW s, NEW D, NEW E, NEW n \in Nat, NEW m \in Nat, NEW x \in Inputs,
           Good(s, D, n), D \subseteq E, n <= m, x <= m, x > n \/ x \in E
    PROVE  /\ Good(s \o <<x>>, E, m)
           /\ Has(s \o <<x>>, x)
           /\ \A y : Has(s, y) => Has(s \o <<x>>, y)
<1> USE TerminalInputAssumption DEF Good, Inputs
<1>1. s \in Seq(Inputs) /\ <<x>> \in Seq(Inputs) /\ Len(<<x>>) = 1 /\ <<x>>[1] = x
  OBVIOUS
<1>2. /\ s \o <<x>> \in Seq(Inputs)
      /\ Len(s \o <<x>>) = Len(s) + 1
      /\ \A i \in 1 .. Len(s) + 1 :
            (s \o <<x>>)[i] = IF i <= Len(s) THEN s[i] ELSE x
  BY <1>1, ConcatProperties
<1>3. Len(s) \in Nat
  BY <1>1, LenProperties
<1>4. \A i \in 1 .. Len(s) : s[i] \in Inputs
  BY <1>1, ElementOfSeq
<1>5. ASSUME NEW i \in 1 .. Len(s \o <<x>>), NEW j \in 1 .. i - 1
      PROVE  (s \o <<x>>)[j] < (s \o <<x>>)[i] \/ (s \o <<x>>)[i] \in E
  BY <1>2, <1>3, <1>4, <1>5
<1>6. \A i \in 1 .. Len(s \o <<x>>) : (s \o <<x>>)[i] <= m
  BY <1>2, <1>3, <1>4
<1>7. \A y : Has(s, y) => Has(s \o <<x>>, y)
  BY <1>2, <1>3 DEF Has
<1>8. Has(s \o <<x>>, x)
  BY <1>2, <1>3 DEF Has
<1> QED BY <1>2, <1>5, <1>6, <1>7, <1>8

-----------------------------------------------------------------------------
(* What a step does to a tab's line *)

Keeps(t) == sent'[t] = sent[t] /\ owed'[t] = owed[t]

Repeats(t) ==
    /\ \E d \in doubled' : sent'[t] = sent[t] \o <<d>>
    /\ owed'[t] = owed[t]

Adds(t) ==
    /\ \/ sent'[t] = sent[t] \o <<inputs'>>
       \/ \E d \in doubled : sent'[t] = sent[t] \o (<<d>> \o <<inputs'>>)
    /\ inputs' = inputs + 1
    /\ owed'[t] \in {owed[t], owed[t] \cup {inputs'}}

Grows(t) == Keeps(t) \/ Repeats(t) \/ Adds(t)

LEMMA OneCopy ==
    ASSUME TypeOK, GateInv, NEW t \in opened, NEW x
    PROVE  Copies(t, x) = <<x>>
<1>1. listeners[t] = 1
  BY DEF TypeOK, GateInv
<1> QED BY <1>1 DEF Copies

(* Writing a new input that is owed only if nothing keeps it *)
LEMMA EnterWrites ==
    ASSUME TypeOK, GateInv, NEW t \in opened, NEW u \in Tabs, NEW excuse \in BOOLEAN,
           Enter(t, excuse),
           Write(t, <<inputs + 1>>) \/ (UNCHANGED sent /\ excuse)
    PROVE  Keeps(u) \/ Adds(u)
BY DEF TypeOK, Enter, Write, Line, Keeps, Adds

LEMMA OnDataWrites ==
    ASSUME TypeOK, GateInv, NEW t \in opened, NEW x, OnData(t, x)
    PROVE  \/ Write(t, <<x>>) /\ t \notin suppressing /\ t \notin composing
           \/ UNCHANGED sent /\ t \in preedit \cup recent \cup cut
BY OneCopy DEF OnData, Passes, GateInv

(* The end of a composition, wherever it comes from *)
LEMMA EndWrites ==
    ASSUME TypeOK, GateInv, NEW t \in opened, NEW u \in Tabs, EndOfComposition(t)
    PROVE  /\ Keeps(u) \/ Adds(u)
           /\ composing' = composing \ {t} /\ suppressing' = suppressing \cup {t}
           /\ preedit' = preedit \ {t} /\ recent' = recent \cup {t} /\ cut' = cut \ {t}
           /\ inputs' \in {inputs, inputs + 1} /\ inputs' \in 0 .. MaxInputs
           /\ \/ UNCHANGED echo
              \/ \E x \in {Nothing, inputs'} : echo' = [echo EXCEPT ![t] = x]
<1>1. CASE Enter(t, FALSE) /\ CompositionEnded(t, inputs + 1)
           /\ \E x \in {Nothing, inputs + 1} : echo' = [echo EXCEPT ![t] = x]
  <2>1. Write(t, <<inputs + 1>>)
    BY <1>1, OneCopy DEF CompositionEnded, TypeOK, Nothing
  <2>2. Keeps(u) \/ Adds(u)
    BY <1>1, <2>1, EnterWrites
  <2> QED BY <1>1, <2>2, TerminalInputAssumption
          DEF EndOfComposition, CompositionEnded, Enter, TypeOK
<1>2. CASE CompositionEnded(t, Nothing) /\ UNCHANGED <<echo, inputs, owed>>
  BY <1>2 DEF EndOfComposition, CompositionEnded, Keeps, TypeOK
<1> QED BY <1>1, <1>2 DEF EndOfComposition

-----------------------------------------------------------------------------
(* Everything but the lines *)

TypeRest ==
    /\ shown \in Tabs \cup {None} /\ isMobile \in BOOLEAN /\ readonly \subseteq Tabs
    /\ opened \subseteq Tabs /\ listeners \in [Tabs -> {0, 1}] /\ wsOpen \subseteq opened
    /\ composing \subseteq Tabs /\ suppressing \subseteq Tabs
    /\ back \in Inputs \cup {Nothing} /\ barComposing \in BOOLEAN
    /\ preedit \subseteq opened /\ recent \subseteq Tabs /\ cut \subseteq Tabs
    /\ echo \in [Tabs -> Inputs \cup {Nothing}]
    /\ inputs \in 0 .. MaxInputs
    /\ doubled \subseteq Inputs
    /\ sent = [t \in Tabs |-> sent[t]] /\ owed \in [Tabs -> SUBSET Inputs]

RestInv ==
    /\ TypeRest /\ GateInv
    /\ \A t \in Tabs : echo[t] <= inputs
    /\ doubled \subseteq 1 .. inputs
    /\ back # Nothing => back \in doubled

Effect ==
    /\ RestInv' /\ inputs <= inputs' /\ doubled \subseteq doubled'
    /\ \A t \in Tabs : Grows(t)

LEMMA SeqMonotone == ASSUME NEW s \in Seq(Inputs) PROVE s \in Seq(Inputs \cup {Piece})
<1>1. Len(s) \in Nat /\ s = [i \in 1 .. Len(s) |-> s[i]]
  BY LenProperties
<1>2. \A i \in 1 .. Len(s) : s[i] \in Inputs \cup {Piece}
  BY ElementOfSeq
<1> QED BY <1>1, <1>2, IsASeq

(* What Effect says of the lines keeps them good. *)
LEMMA EffectKeeps == IInv /\ Effect => IInv'
<1> SUFFICES ASSUME IInv, Effect PROVE IInv'
  OBVIOUS
<1> USE TerminalInputAssumption
<1>1. /\ TypeRest' /\ inputs <= inputs' /\ doubled \subseteq doubled'
      /\ inputs \in Nat /\ inputs' \in Nat /\ doubled' \subseteq 1 .. inputs'
      /\ doubled' \subseteq Inputs /\ doubled \subseteq 1 .. inputs
      /\ inputs' \in 0 .. MaxInputs
  BY DEF IInv, TypeOK, LineInv, Effect, RestInv, TypeRest
<1>2. ASSUME NEW t \in Tabs
      PROVE  /\ Good(sent'[t], doubled', inputs')
             /\ \A x \in owed'[t] : Has(sent'[t], x)
  <2>1. /\ Good(sent[t], doubled, inputs)
        /\ \A x \in owed[t] : Has(sent[t], x)
    BY DEF IInv, LineInv
  <2>2. CASE Keeps(t)
    BY <1>1, <2>1, <2>2, GoodGrows DEF Keeps
  <2>3. CASE Repeats(t)
    <3>1. PICK d \in doubled' : sent'[t] = sent[t] \o <<d>>
      BY <2>3 DEF Repeats
    <3>2. d \in Inputs /\ d <= inputs'
      BY <1>1
    <3>3. /\ Good(sent[t] \o <<d>>, doubled', inputs')
          /\ \A y : Has(sent[t], y) => Has(sent[t] \o <<d>>, y)
      BY <1>1, <2>1, <3>2, GoodAppend
    <3>4. owed'[t] = owed[t]
      BY <2>3 DEF Repeats
    <3> QED BY <2>1, <3>1, <3>3, <3>4, Zenon
  <2>4. CASE Adds(t)
    <3>1. inputs' > inputs /\ inputs' <= inputs' /\ inputs' \in Inputs
      BY <1>1, <2>4 DEF Adds, Inputs
    <3>2. CASE sent'[t] = sent[t] \o <<inputs'>>
      <4>1. /\ Good(sent[t] \o <<inputs'>>, doubled', inputs')
            /\ Has(sent[t] \o <<inputs'>>, inputs')
            /\ \A y : Has(sent[t], y) => Has(sent[t] \o <<inputs'>>, y)
        BY <1>1, <2>1, <3>1, GoodAppend
      <4>2. \A x \in owed'[t] : x \in owed[t] \/ x = inputs'
        BY <2>4 DEF Adds
      <4> QED BY <2>1, <3>2, <4>1, <4>2, Zenon
    <3>3. ASSUME NEW d \in doubled, sent'[t] = sent[t] \o (<<d>> \o <<inputs'>>)
          PROVE  /\ Good(sent'[t], doubled', inputs')
                 /\ \A x \in owed'[t] : Has(sent'[t], x)
      <4>1. d \in Inputs /\ d <= inputs /\ d \in doubled
        BY <1>1
      <4>2. /\ Good(sent[t] \o <<d>>, doubled, inputs)
            /\ \A y : Has(sent[t], y) => Has(sent[t] \o <<d>>, y)
        BY <1>1, <2>1, <4>1, GoodAppend
      <4>3. sent'[t] = (sent[t] \o <<d>>) \o <<inputs'>>
        <5>1. sent[t] \in Seq(Inputs) /\ <<d>> \in Seq(Inputs) /\ <<inputs'>> \in Seq(Inputs)
          BY <2>1, <3>1, <4>1 DEF Good
        <5> QED BY <3>3, <5>1, ConcatAssociative
      <4>4. /\ Good((sent[t] \o <<d>>) \o <<inputs'>>, doubled', inputs')
            /\ Has((sent[t] \o <<d>>) \o <<inputs'>>, inputs')
            /\ \A y : Has(sent[t] \o <<d>>, y) => Has((sent[t] \o <<d>>) \o <<inputs'>>, y)
        BY <1>1, <3>1, <4>2, GoodAppend
      <4>5. \A x \in owed'[t] : x \in owed[t] \/ x = inputs'
        BY <2>4 DEF Adds
      <4> QED BY <2>1, <4>2, <4>3, <4>4, <4>5, Zenon
    <3> QED BY <2>4, <3>2, <3>3 DEF Adds
  <2> QED BY <2>2, <2>3, <2>4 DEF Effect, Grows
<1>3. LineInv'
  BY <1>2 DEF Effect, RestInv, LineInv
<1>4. sent' \in [Tabs -> Seq(Inputs \cup {Piece})]
  <2>1. sent' = [t \in Tabs |-> sent'[t]]
    BY <1>1 DEF TypeRest
  <2>2. \A t \in Tabs : sent'[t] \in Seq(Inputs \cup {Piece})
    BY <1>2, SeqMonotone DEF Good
  <2> QED BY <2>1, <2>2
<1> QED BY <1>3, <1>4 DEF Effect, RestInv, IInv, TypeOK, TypeRest

-----------------------------------------------------------------------------
(* The steps.  Interrupt and EndOfComposition come with a rest that they   *)
(* share with no other step: Ends is what they have in common.             *)

Ends(t) ==
    /\ \A u \in Tabs : Keeps(u) \/ Adds(u)
    /\ composing' \subseteq preedit' \cup cut' /\ preedit' \subseteq composing'
    /\ suppressing' = recent' /\ composing' \subseteq Tabs
    /\ preedit' \subseteq preedit /\ recent' \subseteq Tabs /\ cut' \subseteq Tabs
    /\ inputs <= inputs' /\ inputs' \in 0 .. MaxInputs
    /\ echo' \in [Tabs -> Inputs \cup {Nothing}] /\ \A u \in Tabs : echo'[u] <= inputs'
    /\ \A u \in Tabs : echo'[u] # Nothing => u \in opened
    /\ sent' = [u \in Tabs |-> sent'[u]] /\ owed' \in [Tabs -> SUBSET Inputs]

LEMMA EndOfCompositionEnds ==
    ASSUME IInv, NEW t \in opened, EndOfComposition(t)
    PROVE  Ends(t)
<1> USE TerminalInputAssumption DEF IInv
<1>1. \A u \in Tabs : Keeps(u) \/ Adds(u)
  BY EndWrites
<1>2. /\ composing' = composing \ {t} /\ suppressing' = suppressing \cup {t}
      /\ preedit' = preedit \ {t} /\ recent' = recent \cup {t} /\ cut' = cut \ {t}
      /\ inputs' \in {inputs, inputs + 1} /\ inputs' \in 0 .. MaxInputs
      /\ \/ UNCHANGED echo
         \/ \E x \in {Nothing, inputs'} : echo' = [echo EXCEPT ![t] = x]
      /\ t \in Tabs
  BY EndWrites DEF TypeOK
<1>3. inputs \in Nat /\ inputs' \in Nat /\ inputs <= inputs'
  BY <1>2 DEF TypeOK
<1>4. /\ echo' \in [Tabs -> Inputs \cup {Nothing}]
      /\ \A u \in Tabs : echo'[u] <= inputs'
      /\ \A u \in Tabs : echo'[u] # Nothing => u \in opened
  <2>1. /\ echo \in [Tabs -> Inputs \cup {Nothing}]
        /\ \A u \in Tabs : echo[u] <= inputs /\ (echo[u] # Nothing => u \in opened)
    BY DEF TypeOK, LineInv, GateInv
  <2>2. CASE UNCHANGED echo
    BY <1>3, <2>1, <2>2 DEF Inputs, Nothing
  <2>3. ASSUME NEW x \in {Nothing, inputs'}, echo' = [echo EXCEPT ![t] = x]
        PROVE  /\ echo' \in [Tabs -> Inputs \cup {Nothing}]
               /\ \A u \in Tabs : echo'[u] <= inputs'
               /\ \A u \in Tabs : echo'[u] # Nothing => u \in opened
    BY <1>2, <1>3, <2>1, <2>3 DEF Inputs, Nothing
  <2> QED BY <1>2, <2>2, <2>3
<1>5. sent' = [u \in Tabs |-> sent'[u]]
  BY DEF EndOfComposition, CompositionEnded, Write, TypeOK
<1>6. owed' \in [Tabs -> SUBSET Inputs]
  <2>1. CASE UNCHANGED owed
    BY <2>1 DEF TypeOK
  <2>2. CASE Enter(t, FALSE)
    <3>1. inputs + 1 \in Inputs
      BY <1>3, <2>2 DEF Enter, Inputs
    <3> QED BY <2>2, <3>1 DEF Enter, TypeOK
  <2> QED BY <2>1, <2>2 DEF EndOfComposition
<1>7. /\ composing' \subseteq preedit' \cup cut' /\ preedit' \subseteq composing'
      /\ suppressing' = recent' /\ composing' \subseteq Tabs
      /\ preedit' \subseteq preedit /\ recent' \subseteq Tabs /\ cut' \subseteq Tabs
  BY <1>2 DEF GateInv, TypeOK
<1> QED BY <1>1, <1>2, <1>3, <1>4, <1>5, <1>6, <1>7 DEF Ends

LEMMA LinesStay ==
    ASSUME IInv, UNCHANGED <<echo, sent, inputs, owed>>
    PROVE  /\ \A u \in Tabs : Keeps(u)
           /\ inputs <= inputs' /\ inputs' \in 0 .. MaxInputs
           /\ echo' \in [Tabs -> Inputs \cup {Nothing}] /\ \A u \in Tabs : echo'[u] <= inputs'
           /\ \A u \in Tabs : echo'[u] # Nothing => u \in opened
           /\ sent' = [u \in Tabs |-> sent'[u]] /\ owed' \in [Tabs -> SUBSET Inputs]
BY TerminalInputAssumption DEF IInv, TypeOK, LineInv, GateInv, Keeps

LEMMA InterruptEnds ==
    ASSUME IInv, NEW t \in opened \cup {None}, Interrupt(t)
    PROVE  Ends(t)
<1> USE TerminalInputAssumption
<1>1. CASE t \in preedit /\ EndOfComposition(t)
  BY <1>1, EndOfCompositionEnds DEF IInv, TypeOK
<1>2. CASE t \in preedit /\ EndUnreported(t)
  <2>1. UNCHANGED <<composing, suppressing, recent, echo, sent, inputs, owed>>
    BY <1>2 DEF EndUnreported, gateVars
  <2>2. preedit' = preedit \ {t} /\ cut' = cut \cup {t} /\ t \in Tabs
    BY <1>2 DEF EndUnreported, IInv, TypeOK
  <2> QED BY <2>1, <2>2, LinesStay DEF IInv, TypeOK, GateInv, Ends
<1>3. CASE t \notin preedit /\ UNCHANGED <<gateVars, imeVars, sent, inputs, owed>>
  <2>1. UNCHANGED <<composing, suppressing, preedit, cut, recent, echo, sent, inputs, owed>>
    BY <1>3 DEF gateVars, imeVars
  <2> QED BY <2>1, LinesStay DEF IInv, TypeOK, GateInv, Ends
<1> QED BY <1>1, <1>2, <1>3 DEF Interrupt

(* What an input with a write of its own does *)
LEMMA EnterEffect ==
    ASSUME IInv, NEW t \in opened, NEW excuse \in BOOLEAN, Enter(t, excuse),
           Write(t, <<inputs + 1>>) \/ (UNCHANGED sent /\ excuse),
           UNCHANGED <<pageVars, boundVars, wsOpen, barVars, gateVars, imeVars, doubled>>
    PROVE  Effect
<1>1. \A u \in Tabs : Grows(u)
  BY EnterWrites DEF IInv, Grows
<1>2. inputs' = inputs + 1 /\ inputs \in Nat /\ inputs' \in 0 .. MaxInputs
  BY TerminalInputAssumption DEF IInv, Enter, TypeOK
<1>3. owed' \in [Tabs -> SUBSET Inputs]
  BY <1>2, TerminalInputAssumption DEF IInv, TypeOK, Enter, Inputs
<1>4. sent' = [u \in Tabs |-> sent'[u]]
  BY DEF IInv, TypeOK, Write
<1>5. UNCHANGED <<shown, isMobile, readonly, opened, listeners, wsOpen, back, barComposing,
                  composing, suppressing, preedit, recent, echo, cut, doubled>>
  BY DEF pageVars, boundVars, barVars, gateVars, imeVars
<1>6. /\ \A u \in Tabs : echo'[u] <= inputs'
      /\ doubled' \subseteq 1 .. inputs'
  BY <1>2, <1>5, TerminalInputAssumption DEF IInv, LineInv, TypeOK, Inputs, Nothing
<1>7. TypeRest'
  BY <1>2, <1>3, <1>4, <1>5 DEF IInv, TypeOK, TypeRest
<1>8. GateInv' /\ (back' # Nothing => back' \in doubled')
  BY <1>5 DEF IInv, GateInv, LineInv
<1> QED BY <1>1, <1>2, <1>5, <1>6, <1>7, <1>8 DEF Effect, RestInv

LEMMA OnDataEffect ==
    ASSUME IInv, NEW t \in opened, Enter(t, Excuse(t)), OnData(t, inputs + 1),
           UNCHANGED <<pageVars, boundVars, wsOpen, barVars, gateVars, imeVars, doubled>>
    PROVE  Effect
<1>1. Write(t, <<inputs + 1>>) \/ (UNCHANGED sent /\ Excuse(t))
  BY OnDataWrites DEF IInv, Excuse
<1>2. Excuse(t) \in BOOLEAN
  BY DEF Excuse
<1> QED BY <1>1, <1>2, EnterEffect

LEMMA StepEffect == IInv /\ [Next]_vars => Effect
<1> SUFFICES ASSUME IInv, [Next]_vars PROVE Effect
  OBVIOUS
<1> USE TerminalInputAssumption
<1>a. shown # None => shown \in opened
  BY DEF IInv, GateInv
<1>b. ASSUME NEW t \in Tabs, t = shown PROVE t \in opened
  BY <1>a, <1>b
<1>1. ASSUME NEW t \in Tabs, Key(t) PROVE Effect
  BY <1>1, <1>b, OnDataEffect DEF Key
<1>2. ASSUME NEW t \in Tabs, CompositionStart(t) PROVE Effect
  BY <1>2, <1>b DEF CompositionStart, pageVars, boundVars, barVars, IInv, TypeOK, GateInv, LineInv,
                    Effect, RestInv, TypeRest, Grows, Keeps
<1>3. ASSUME NEW t \in Tabs, Leak(t) PROVE Effect
  <2>1. UNCHANGED sent
    BY <1>3 DEF Leak, OnData, Passes, IInv, GateInv
  <2>2. UNCHANGED <<sent, pageVars, boundVars, wsOpen, barVars, gateVars, imeVars,
                    inputs, owed, doubled>>
    BY <1>3, <2>1 DEF Leak
  <2> QED BY <2>2 DEF pageVars, boundVars, barVars, gateVars, imeVars, IInv, TypeOK, GateInv,
                      LineInv, Effect, RestInv, TypeRest, Grows, Keeps
<1>4. ASSUME NEW t \in Tabs, CompositionEnd(t) PROVE Effect
  <2>1. t \in opened
    BY <1>4 DEF CompositionEnd, IInv, TypeOK
  <2>2. Ends(t)
    BY <1>4, <2>1, EndOfCompositionEnds DEF CompositionEnd
  <2> QED BY <1>4, <2>2 DEF CompositionEnd, Ends, pageVars, boundVars, barVars, IInv, TypeOK,
                GateInv, LineInv, Effect, RestInv, TypeRest, Grows
<1>5. ASSUME NEW t \in Tabs, Echo(t) PROVE Effect
  <2>1. t \in opened /\ echo[t] \in 1 .. inputs
    BY <1>5 DEF Echo, IInv, GateInv, LineInv, TypeOK, Inputs, Nothing
  <2>2. \/ Write(t, <<echo[t]>>) /\ doubled' = doubled \cup {echo[t]}
        \/ UNCHANGED sent /\ doubled' \in {doubled, doubled \cup {echo[t]}}
    BY <1>5, <2>1, OnDataWrites DEF Echo, IInv, GateInv
  <2>3. /\ echo' = [echo EXCEPT ![t] = Nothing]
        /\ UNCHANGED <<shown, isMobile, readonly, opened, listeners, wsOpen, back, barComposing,
                       composing, suppressing, preedit, recent, cut, inputs, owed>>
    BY <1>5 DEF Echo, pageVars, boundVars, barVars, gateVars
  <2>4. \A u \in Tabs : Keeps(u) \/ Repeats(u)
    <3>1. CASE UNCHANGED sent
      BY <2>3, <3>1 DEF Keeps
    <3>2. CASE Write(t, <<echo[t]>>) /\ echo[t] \in doubled'
      <4>1. \A u \in Tabs : sent'[u] \in {sent[u], sent[u] \o <<echo[t]>>}
        BY <3>2 DEF Write, Line, IInv, TypeOK
      <4> QED BY <2>3, <3>2, <4>1 DEF Keeps, Repeats
    <3> QED BY <2>2, <3>1, <3>2
  <2>5. sent' = [u \in Tabs |-> sent'[u]]
    BY <2>2 DEF Write, IInv, TypeOK
  <2>6. doubled' \subseteq 1 .. inputs' /\ doubled \subseteq doubled' /\ doubled' \subseteq Inputs
    <3>1. doubled' \in {doubled, doubled \cup {echo[t]}}
      BY <2>2
    <3>2. 1 .. inputs \subseteq Inputs /\ inputs' = inputs /\ doubled \subseteq 1 .. inputs
      BY <2>3 DEF IInv, LineInv, TypeOK, Inputs
    <3> QED BY <2>1, <3>1, <3>2
  <2>7. /\ echo' \in [Tabs -> Inputs \cup {Nothing}]
        /\ \A u \in Tabs : echo'[u] <= inputs' /\ (echo'[u] # Nothing => u \in opened)
    BY <2>3 DEF IInv, TypeOK, LineInv, GateInv, Nothing
  <2>8. TypeRest' /\ inputs <= inputs'
    BY <2>3, <2>5, <2>6, <2>7 DEF IInv, TypeOK, TypeRest
  <2>9. GateInv' /\ (back' # Nothing => back' \in doubled')
    BY <2>3, <2>6, <2>7 DEF IInv, GateInv, LineInv
  <2> QED BY <2>4, <2>6, <2>7, <2>8, <2>9 DEF Effect, RestInv, Grows
<1>6. ASSUME NEW t \in Tabs, Elapse(t) PROVE Effect
  BY <1>6 DEF Elapse, pageVars, boundVars, barVars, IInv, TypeOK, GateInv, LineInv,
              Effect, RestInv, TypeRest, Grows, Keeps
<1>7. ASSUME NEW t \in Tabs, Direct(t) PROVE Effect
  BY <1>7, <1>b, EnterEffect DEF Direct
<1>8. ASSUME NEW t \in Tabs, Paste(t) PROVE Effect
  BY <1>8, OnDataEffect DEF Paste
<1>9. CASE ToolKey
  BY <1>9, <1>a, EnterEffect DEF ToolKey
<1>10. CASE BarType
  BY <1>10 DEF BarType, pageVars, boundVars, gateVars, imeVars, IInv, TypeOK, GateInv, LineInv,
               Effect, RestInv, TypeRest, Grows, Keeps
<1>11. CASE BarSend
  <2>1. shown \in opened /\ shown \in Tabs
    BY <1>11, <1>a DEF BarSend, IInv, TypeOK
  <2>2. Enter(shown, FALSE) /\ Write(shown, BarText)
    BY <1>11 DEF BarSend
  <2>3. inputs' = inputs + 1 /\ inputs \in Nat /\ inputs' \in 0 .. MaxInputs /\ inputs' \in Inputs
    BY <2>2 DEF Enter, IInv, TypeOK, Inputs
  <2>4. BarText = <<inputs'>> \/ \E d \in doubled : BarText = <<d>> \o <<inputs'>>
    <3>1. CASE back = Nothing
      <4>1. <<inputs'>> \in Seq(Inputs)
        BY <2>3
      <4>2. BarText = <<>> \o <<inputs'>>
        BY <2>3, <3>1 DEF BarText
      <4> QED BY <4>1, <4>2, ConcatEmptySeq
    <3>2. CASE back # Nothing
      BY <2>3, <3>2 DEF BarText, IInv, LineInv
    <3> QED BY <3>1, <3>2
  <2>5. \A u \in Tabs : Keeps(u) \/ Adds(u)
    BY <2>1, <2>2, <2>3, <2>4 DEF Enter, Write, Line, Keeps, Adds, IInv, TypeOK
  <2>6. /\ back' \in Inputs \cup {Nothing} /\ (back' # Nothing => back' \in doubled')
        /\ doubled' \subseteq 1 .. inputs' /\ doubled \subseteq doubled' /\ doubled' \subseteq Inputs
    BY <1>11, <2>3 DEF BarSend, IInv, LineInv, TypeOK, Inputs, Nothing
  <2>7. /\ UNCHANGED <<shown, isMobile, readonly, opened, listeners, wsOpen,
                       composing, suppressing, preedit, recent, echo, cut>>
        /\ barComposing' = FALSE
    BY <1>11 DEF BarSend, pageVars, boundVars, gateVars, imeVars
  <2>8. sent' = [u \in Tabs |-> sent'[u]] /\ owed' \in [Tabs -> SUBSET Inputs]
    BY <2>2, <2>3 DEF Enter, Write, IInv, TypeOK
  <2>9. \A u \in Tabs : echo'[u] <= inputs'
    BY <2>3, <2>7 DEF IInv, LineInv, TypeOK, Inputs, Nothing
  <2>10. TypeRest'
    BY <2>3, <2>6, <2>7, <2>8 DEF IInv, TypeOK, TypeRest
  <2>11. GateInv' /\ inputs <= inputs'
    BY <2>3, <2>7 DEF IInv, GateInv
  <2> QED BY <2>5, <2>6, <2>9, <2>10, <2>11 DEF Effect, RestInv, Grows
<1>12. ASSUME NEW t \in Tabs, Show(t) PROVE Effect
  <2>1. Ends(shown)
    BY <1>12, <1>a, InterruptEnds DEF Show
  <2>2. /\ opened' = opened \cup {t} /\ opened' \subseteq Tabs
        /\ listeners' \in [Tabs -> {0, 1}]
        /\ \A u \in Tabs : listeners'[u] = IF u \in opened' THEN 1 ELSE 0
    BY <1>12 DEF Show, Bind, boundVars, IInv, TypeOK, GateInv
  <2>3. readonly' \subseteq Tabs
    BY <1>12 DEF Show, Lock, IInv, TypeOK
  <2> QED BY <1>12, <2>1, <2>2, <2>3 DEF Show, Ends, barVars, IInv, TypeOK,
                GateInv, LineInv, Effect, RestInv, TypeRest, Grows
<1>13. CASE ShowNone
  <2>1. Ends(shown)
    BY <1>13, <1>a, InterruptEnds DEF ShowNone
  <2> QED BY <1>13, <2>1 DEF ShowNone, Ends, boundVars, barVars, IInv, TypeOK,
                GateInv, LineInv, Effect, RestInv, TypeRest, Grows
<1>14. CASE ChangeScreen
  <2>1. Ends(shown)
    <3>1. CASE isMobile
      <4>1. UNCHANGED <<composing, suppressing, preedit, cut, recent, echo, sent, inputs, owed>>
        BY <1>14, <3>1 DEF ChangeScreen, gateVars, imeVars
      <4> QED BY <4>1, LinesStay DEF IInv, TypeOK, GateInv, Ends
    <3>2. CASE ~isMobile
      BY <1>14, <3>2, <1>a, InterruptEnds DEF ChangeScreen
    <3> QED BY <3>1, <3>2
  <2>2. readonly' \subseteq Tabs
    BY <1>14 DEF ChangeScreen, Lock, IInv, TypeOK
  <2>3. /\ UNCHANGED <<shown, opened, listeners, wsOpen, doubled>>
        /\ isMobile' \in BOOLEAN /\ back' = Nothing /\ barComposing' = FALSE
    BY <1>14 DEF ChangeScreen, boundVars, IInv, TypeOK
  <2>4. TypeRest'
    BY <2>1, <2>2, <2>3 DEF Ends, IInv, TypeOK, TypeRest
  <2>5. GateInv'
    BY <2>1, <2>3 DEF Ends, IInv, GateInv
  <2>6. doubled' \subseteq 1 .. inputs'
    BY <2>1, <2>3 DEF Ends, IInv, TypeOK, LineInv
  <2> QED BY <2>1, <2>3, <2>4, <2>5, <2>6 DEF Ends, Effect, RestInv, Grows
<1>15. ASSUME NEW t \in Tabs, Reconnect(t) PROVE Effect
  BY <1>15 DEF Reconnect, pageVars, boundVars, barVars, gateVars, imeVars, IInv, TypeOK, GateInv,
               LineInv, Effect, RestInv, TypeRest, Grows, Keeps
<1>16. CASE UNCHANGED vars
  BY <1>16 DEF vars, pageVars, boundVars, barVars, gateVars, imeVars, IInv, TypeOK, GateInv,
               LineInv, Effect, RestInv, TypeRest, Grows, Keeps
<1> QED BY <1>1, <1>2, <1>3, <1>4, <1>5, <1>6, <1>7, <1>8, <1>9, <1>10, <1>11, <1>12, <1>13,
           <1>14, <1>15, <1>16 DEF Next

LEMMA InitInv == Init => IInv
<1> SUFFICES ASSUME Init PROVE IInv
  OBVIOUS
<1> USE TerminalInputAssumption DEF Init
<1>1. TypeOK
  <2>1. <<>> \in Seq(Inputs \cup {Piece})
    OBVIOUS
  <2>2. sent \in [Tabs -> Seq(Inputs \cup {Piece})]
    BY <2>1
  <2>3. /\ listeners \in [Tabs -> {0, 1}] /\ echo \in [Tabs -> Inputs \cup {Nothing}]
        /\ owed \in [Tabs -> SUBSET Inputs] /\ inputs \in 0 .. MaxInputs
    BY DEF Nothing
  <2> QED BY <2>2, <2>3 DEF TypeOK
<1>2. GateInv
  BY DEF GateInv
<1>3. LineInv
  <2>1. <<>> \in Seq(Inputs) /\ Len(<<>>) = 0
    OBVIOUS
  <2>2. Good(<<>>, doubled, inputs)
    BY <2>1 DEF Good
  <2> QED BY <2>2 DEF LineInv, Nothing
<1> QED BY <1>1, <1>2, <1>3 DEF IInv

LEMMA StepInv == IInv /\ [Next]_vars => IInv'
BY StepEffect, EffectKeeps

LEMMA AlwaysInv == Spec => []IInv
BY InitInv, StepInv, PTL DEF Spec

(* The listeners are bound once to every terminal that is open, whatever   *)
(* the tabs and the screen do (bindInputListeners).                        *)
THEOREM TerminalInputTypes == Spec => []TypeOK
<1>1. IInv => TypeOK
  BY DEF IInv
<1> QED BY AlwaysInv, <1>1, PTL

(* Whole texts, each once and in order, on every tab: what the gate holds  *)
(* back and what goes past it never mix into anything else.                *)
THEOREM WritesAsEntered == Spec => []SentAsEntered
<1>1. IInv => SentAsEntered
  <2> SUFFICES ASSUME IInv, NEW t \in Tabs, NEW i \in 1 .. Len(sent[t])
               PROVE  /\ sent[t][i] # Piece
                      /\ \A j \in 1 .. i - 1 : sent[t][j] < sent[t][i] \/ sent[t][i] \in doubled
    BY DEF SentAsEntered
  <2>1. Good(sent[t], doubled, inputs)
    BY DEF IInv, LineInv
  <2>2. sent[t][i] \in Inputs
    BY <2>1, ElementOfSeq DEF Good
  <2> QED BY <2>1, <2>2 DEF Good, Inputs, Piece
<1> QED BY AlwaysInv, <1>1, PTL

(* An input that neither the connection nor the IME keeps back is written: *)
(* inst.composing is never left set by a composition whose end was         *)
(* reported.                                                               *)
THEOREM LosesNothingElse == Spec => []LossIsExcused
<1>1. IInv => LossIsExcused
  BY DEF IInv, LineInv, Has, LossIsExcused
<1> QED BY AlwaysInv, <1>1, PTL

(* The textarea of the terminal shown is locked on a small screen only,    *)
(* whichever tab is shown when the screen changes (TerminalView).          *)
THEOREM LocksWithScreen == Spec => []LockFollowsScreen
<1> DEFINE Locked == readonly \subseteq Tabs /\ LockFollowsScreen
<1>1. Init => Locked
  BY DEF Init, LockFollowsScreen
<1>2. TypeOK /\ Locked /\ [Next]_vars => Locked'
  <2> SUFFICES ASSUME TypeOK, Locked, [Next]_vars PROVE Locked'
    OBVIOUS
  <2>1. CASE UNCHANGED <<shown, isMobile, readonly>>
    BY <2>1 DEF LockFollowsScreen
  <2>2. ASSUME NEW t \in Tabs, Show(t) PROVE Locked'
    BY <2>2, TerminalInputAssumption DEF Show, Lock, LockFollowsScreen
  <2>3. CASE ShowNone
    BY <2>3 DEF ShowNone, LockFollowsScreen
  <2>4. CASE ChangeScreen
    BY <2>4 DEF ChangeScreen, Lock, LockFollowsScreen, TypeOK
  <2>5. \/ \E t \in Tabs : \/ Key(t) \/ CompositionStart(t) \/ Leak(t) \/ CompositionEnd(t)
                           \/ Echo(t) \/ Elapse(t) \/ Direct(t) \/ Paste(t) \/ Reconnect(t)
        \/ BarType \/ BarSend \/ ToolKey \/ UNCHANGED vars
        => UNCHANGED <<shown, isMobile, readonly>>
    BY DEF Key, CompositionStart, Leak, CompositionEnd, Echo, Elapse, Direct, Paste, Reconnect,
           BarType, BarSend, ToolKey, vars, pageVars
  <2> QED BY <2>1, <2>2, <2>3, <2>4, <2>5 DEF Next
<1>3. Locked => LockFollowsScreen
  OBVIOUS
<1> QED BY <1>1, <1>2, <1>3, TerminalInputTypes, PTL DEF Spec

-----------------------------------------------------------------------------
(***************************************************************************)
(* The names of the workspaces (WorkspaceNames)                            *)
(***************************************************************************)
CallTypes == [op : {"none", "rename", "delete", "create"},
              ws : Workspaces \cup {Null}, name : Names \cup {Blank},
              at : {"idle", "sent", "updated", "answered"}, got : Names \cup {Broken}]

(* A request carries what its handler and its continuation are going to    *)
(* read.                                                                   *)
CallOK(k) ==
    /\ k \in CallTypes
    /\ k.op = "none" => k = NoCall
    /\ k.op # "none" => k.at # "idle"
    /\ k.op \in {"rename", "delete"} => k.ws \in Workspaces
    /\ k.op \in {"rename", "create"} => k.name \in Names
    /\ k.op = "delete" => k.name = Blank /\ k.got = Broken
    /\ k.op = "create" /\ k.at = "sent" => k.ws = Null
    /\ k.at = "updated" => k.op = "rename"

CallsOK == calls = [c \in Calls |-> calls[c]] /\ \A c \in Calls : CallOK(calls[c])
NamesInv == NamesTypeOK /\ CallsOK

LEMMA NoCallOK ==
    CallOK(NoCall)
BY WorkspaceNamesAssumption DEF CallOK, CallTypes, NoCall, WorkspaceNamesAssumption

(* One request changes, to something that is a request. *)
LEMMA OneCallOK ==
    ASSUME CallsOK, NEW c \in Calls, NEW k, CallOK(k), calls' = [calls EXCEPT ![c] = k]
    PROVE  CallsOK'
BY DEF CallsOK

LEMMA AnswerOK ==
    ASSUME CallsOK, NEW c \in Calls, NEW w \in Workspaces \cup {Null},
            NEW n \in Names \cup {Broken},
           Answer(c, w, n), calls[c].op # "none",
           calls[c].op \in {"rename", "delete"} => w = calls[c].ws,
           calls[c].op = "delete" => n = Broken
    PROVE  CallsOK'
<1> DEFINE k == [calls[c] EXCEPT !.at = "answered", !.ws = w, !.got = n]
<1>0. CallOK(calls[c])
  BY DEF CallsOK
<1>1. CallOK(k)
  BY <1>0 DEF CallOK, CallTypes
<1>2. calls' = [calls EXCEPT ![c] = k]
  BY DEF Answer, CallsOK
<1> QED BY <1>1, <1>2, OneCallOK

LEMMA SendOK ==
    ASSUME NamesInv,
           NEW op, NEW w, NEW n, Send(op, w, n),
           \/ op = "rename" /\ w \in Workspaces /\ n \in Names
           \/ op = "delete" /\ w \in Workspaces /\ n = Blank
           \/ op = "create" /\ w = Null /\ n \in Names
    PROVE  CallsOK' /\ disturbed' \subseteq Workspaces /\ repairs' \subseteq Calls
           /\ calls' \in [Calls -> CallTypes]
<1>1. PICK c \in Calls : Send(op, w, n)!(c)
  BY DEF Send
<1>2. CallOK(Sent(op, w, n))
  BY WorkspaceNamesAssumption DEF CallOK, CallTypes, Sent, WorkspaceNamesAssumption
<1>3. CallsOK'
  BY <1>1, <1>2, OneCallOK DEF NamesInv
<1>4. disturbed' \subseteq Workspaces /\ repairs' \subseteq Calls
  BY <1>1 DEF NamesInv, NamesTypeOK
<1> QED BY <1>3, <1>4 DEF CallsOK, CallOK

LEMMA TakenOK ==
    ASSUME NamesInv, NEW c \in Calls, NEW op, Taken(c, op)
    PROVE  /\ CallsOK' /\ disturbed' \subseteq Workspaces /\ repairs' \subseteq Calls
           /\ calls[c].op = op /\ CallOK(calls[c])
<1>1. CallsOK'
  BY NoCallOK, OneCallOK DEF NamesInv, Taken
<1> QED BY <1>1 DEF Taken, At, NamesInv, NamesTypeOK, CallsOK

LEMMA CallsTyped == CallsOK' => calls' \in [Calls -> CallTypes]
BY DEF CallsOK, CallOK

LEMMA RequestStepTyped ==
    ASSUME NamesInv, NEW c \in Calls,
           \/ Update(c) \/ Updated(c) \/ Delete(c) \/ Create(c)
           \/ RenameAnswered(c) \/ DeleteAnswered(c) \/ CreateAnswered(c)
    PROVE  NamesInv'
<1>0. CallOK(calls[c]) /\ calls[c] \in CallTypes
  BY DEF NamesInv, CallsOK, CallOK
<1>1. CASE Update(c)
  <2>1. calls[c].op = "rename" /\ calls[c].ws \in Workspaces /\ calls[c].name \in Names
    BY <1>0, <1>1 DEF Update, At, CallOK
  <2>2. CallsOK'
    <3>1. CASE name[calls[c].ws] = Gone
      BY <1>1, <2>1, <3>1, AnswerOK DEF Update, NamesInv
    <3>2. CASE name[calls[c].ws] # Gone
      <4>1. CallOK([calls[c] EXCEPT !.at = "updated"])
        BY <1>0, <2>1 DEF CallOK, CallTypes
      <4>2. calls' = [calls EXCEPT ![c] = [calls[c] EXCEPT !.at = "updated"]]
        BY <1>1, <3>2 DEF Update, CallsOK, NamesInv
      <4> QED BY <4>1, <4>2, OneCallOK DEF NamesInv
    <3> QED BY <3>1, <3>2
  <2>3. name' \in [Workspaces -> Names \cup {Gone}]
    BY <1>1, <2>1 DEF Update, NamesInv, NamesTypeOK
  <2> QED BY <1>1, <2>2, <2>3, CallsTyped DEF Update, sidebarVars, editorVars, fieldVars,
      NamesInv, NamesTypeOK, CallTypes, Texts
<1>2. CASE Updated(c)
  <2>1. calls[c].op = "rename" /\ calls[c].ws \in Workspaces
    BY <1>0, <1>2 DEF Updated, At, CallOK
  <2>2. CallsOK'
    BY <1>2, <2>1, AnswerOK DEF Updated, NamesInv, NamesTypeOK
  <2> QED
    BY <1>2, <2>2, CallsTyped DEF Updated, rowVars, sidebarVars, editorVars, fieldVars,
        NamesInv, NamesTypeOK, CallTypes, Texts
<1>3. CASE Delete(c)
  <2>1. calls[c].op = "delete" /\ calls[c].ws \in Workspaces
    BY <1>0, <1>3 DEF Delete, At, CallOK
  <2>2. CallsOK'
    BY <1>3, <2>1, AnswerOK DEF Delete, NamesInv
  <2>3. name' \in [Workspaces -> Names \cup {Gone}]
    BY <1>3 DEF Delete, NamesInv, NamesTypeOK
  <2> QED BY <1>3, <2>2, <2>3, CallsTyped DEF Delete, sidebarVars, editorVars, fieldVars,
      NamesInv, NamesTypeOK, CallTypes, Texts
<1>4. CASE Create(c)
  <2>1. calls[c].op = "create" /\ calls[c].name \in Names
    BY <1>0, <1>4 DEF Create, At, CallOK
  <2>2. PICK w \in unborn :
            /\ unborn' = unborn \ {w} /\ name' = [name EXCEPT ![w] = calls[c].name]
            /\ own' = [own EXCEPT ![w] = {calls[c].name}]
            /\ Answer(c, w, calls[c].name)
    BY <1>4 DEF Create
  <2>3. CallsOK'
    BY <2>1, <2>2, AnswerOK DEF NamesInv, NamesTypeOK
  <2>4. /\ name' \in [Workspaces -> Names \cup {Gone}] /\ unborn' \subseteq Workspaces
        /\ own' \in [Workspaces -> SUBSET Names]
    BY <2>1, <2>2 DEF NamesInv, NamesTypeOK
  <2> QED BY <1>4, <2>3, <2>4, CallsTyped DEF Create, sidebarVars, editorVars, fieldVars,
      NamesInv, NamesTypeOK, CallTypes, Texts
<1>5. CASE RenameAnswered(c)
  <2>1. /\ CallsOK' /\ disturbed' \subseteq Workspaces /\ repairs' \subseteq Calls
    BY <1>5, TakenOK DEF RenameAnswered
  <2>2. listed' \in [Workspaces -> Names \cup {Gone, Broken}]
    BY <1>0, <1>5 DEF RenameAnswered, NamesInv, NamesTypeOK, CallTypes
  <2>3. focus' \in {"none", "editor", "field"}
    BY <1>5 DEF RenameAnswered, Unfocus, NamesInv, NamesTypeOK
  <2> QED BY <1>5, <2>1, <2>2, <2>3, CallsTyped DEF RenameAnswered, Taken, rowVars,
      fieldVars, NamesInv, NamesTypeOK, CallTypes, Texts
<1>6. CASE DeleteAnswered(c)
  <2>1. /\ CallsOK' /\ disturbed' \subseteq Workspaces /\ repairs' \subseteq Calls
    BY <1>6, TakenOK DEF DeleteAnswered
  <2>2. listed' \in [Workspaces -> Names \cup {Gone, Broken}]
    BY <1>6 DEF DeleteAnswered, NamesInv, NamesTypeOK
  <2> QED BY <1>6, <2>1, <2>2, CallsTyped DEF DeleteAnswered, Taken, rowVars,
      editorVars, fieldVars, NamesInv, NamesTypeOK, CallTypes, Texts
<1>7. CASE CreateAnswered(c)
  <2>1. /\ CallsOK' /\ disturbed' \subseteq Workspaces /\ repairs' \subseteq Calls
    BY <1>7, TakenOK DEF CreateAnswered
  <2>2. listed' \in [Workspaces -> Names \cup {Gone, Broken}]
    BY <1>0, <1>7 DEF CreateAnswered, NamesInv, NamesTypeOK, CallTypes
  <2>3. focus' \in {"none", "editor", "field"}
    BY <1>7 DEF CreateAnswered, Unfocus, NamesInv, NamesTypeOK
  <2> QED BY <1>7, <2>1, <2>2, <2>3, CallsTyped DEF CreateAnswered, Taken, rowVars,
      editorVars, NamesInv, NamesTypeOK, CallTypes, Texts
<1> QED BY <1>1, <1>2, <1>3, <1>4, <1>5, <1>6, <1>7

LEMMA UserTyped ==
    ASSUME NamesInv, User
    PROVE  NamesInv'
<1> USE DEF Act, rowVars, editorVars, fieldVars, Texts, NamesInv
<1>0. acts' \in 0 .. MaxActs
  BY WorkspaceNamesAssumption DEF NamesTypeOK, User, TypeName, TypeNew, Commit, DoubleClick, OpenMenu,
         Escape, Click, MenuRename, MenuDelete, OpenField, EnterNew, LeaveField, Elsewhere,
         WorkspaceNamesAssumption
<1>a. EditorShown => editingId \in Workspaces
  BY DEF EditorShown, NamesTypeOK
<1>b. CallsOK /\ calls' = calls => CallsOK'
  BY DEF CallsOK
<1>1. ASSUME NEW n \in Texts, TypeName(n) PROVE NamesInv'
  <2>1. own' \in [Workspaces -> SUBSET Names]
    BY <1>1, <1>a DEF TypeName, InEditor, NamesTypeOK
  <2> QED BY <1>0, <1>b, <1>1, <2>1 DEF TypeName, NamesTypeOK
<1>2. ASSUME NEW n \in Texts, TypeNew(n) PROVE NamesInv'
  BY <1>0, <1>b, <1>2 DEF TypeNew, NamesTypeOK
<1>3. ASSUME NEW left \in {"none", "editor"}, Commit(left) PROVE NamesInv'
  <2>1. CASE editName = Blank
    BY <1>0, <1>b, <1>3, <2>1 DEF Commit, NamesTypeOK
  <2>2. CASE editName # Blank
    <3>1. editingId \in Workspaces /\ editName \in Names /\ Send("rename", editingId, editName)
      BY <1>a, <1>3, <2>2 DEF Commit, InEditor, NamesTypeOK
    <3>2. CallsOK' /\ disturbed' \subseteq Workspaces /\ repairs' \subseteq Calls
      BY <3>1, SendOK
    <3>3. calls' \in [Calls -> CallTypes]
      BY <3>2, CallsTyped
    <3> QED BY <1>0, <1>3, <2>2, <3>2, <3>3 DEF Commit, NamesTypeOK, CallTypes
  <2> QED BY <2>1, <2>2
<1>4. ASSUME NEW w \in Workspaces, listed[w] \in Names, StartRename(w), acts' = acts + 1,
             acts < MaxActs, UNCHANGED <<name, unborn, listed, faults>>
      PROVE  NamesInv'
  BY <1>0, <1>b, <1>4 DEF StartRename, NamesTypeOK
<1>5. ASSUME NEW w \in Workspaces, DoubleClick(w) PROVE NamesInv'
  BY <1>4, <1>5 DEF DoubleClick, Elsewhere
<1>6. ASSUME NEW w \in Workspaces, OpenMenu(w) PROVE NamesInv'
  BY <1>0, <1>b, <1>6 DEF OpenMenu, NamesTypeOK
<1>7. CASE Escape \/ Click
  BY <1>0, <1>b, <1>7 DEF Escape, Click, Elsewhere, NamesTypeOK
<1>8. CASE MenuRename
  <2>1. contextMenu \in Workspaces
    BY <1>8 DEF MenuRename, NamesTypeOK
  <2> QED BY <1>4, <1>8, <2>1 DEF MenuRename, Elsewhere
<1>9. CASE MenuDelete
  <2>1. contextMenu \in Workspaces /\ Send("delete", contextMenu, Blank)
    BY <1>9 DEF MenuDelete, NamesTypeOK
  <2>2. CallsOK' /\ disturbed' \subseteq Workspaces /\ repairs' \subseteq Calls
    BY <2>1, SendOK
  <2>3. calls' \in [Calls -> CallTypes]
    BY <2>2, CallsTyped
  <2> QED BY <1>0, <1>9, <2>2, <2>3 DEF MenuDelete, Elsewhere, NamesTypeOK, CallTypes
<1>10. CASE OpenField
  BY <1>0, <1>b, <1>10 DEF OpenField, Elsewhere, NamesTypeOK
<1>11. CASE EnterNew
  <2>1. newName \in Names /\ Send("create", Null, newName)
    BY <1>11 DEF EnterNew, NamesTypeOK
  <2>2. CallsOK' /\ disturbed' \subseteq Workspaces /\ repairs' \subseteq Calls
    BY <2>1, SendOK
  <2>3. calls' \in [Calls -> CallTypes]
    BY <2>2, CallsTyped
  <2> QED BY <1>0, <1>11, <2>2, <2>3 DEF EnterNew, NamesTypeOK, CallTypes
<1>12. ASSUME NEW escape \in BOOLEAN, LeaveField(escape) PROVE NamesInv'
  BY <1>0, <1>b, <1>12 DEF LeaveField, NamesTypeOK
<1> QED BY <1>1, <1>2, <1>3, <1>5, <1>6, <1>7, <1>8, <1>9, <1>10, <1>11, <1>12 DEF User

LEMMA FaultTyped ==
    ASSUME NamesInv,
           \/ \E c \in Calls : Lose(c) \/ Refuse(c)
           \/ \E w \in Workspaces, n \in Names \cup {Gone} : Theirs(w, n)
    PROVE  NamesInv'
<1> USE DEF Fault, sidebarVars, editorVars, fieldVars, NamesInv
<1>0. faults' \in 0 .. MaxFaults
  BY WorkspaceNamesAssumption DEF NamesTypeOK, Lose, Refuse, Theirs, WorkspaceNamesAssumption
<1>1. ASSUME NEW c \in Calls, Lose(c) PROVE NamesInv'
  <2>1. CallsOK'
    BY <1>1, NoCallOK, OneCallOK DEF Lose
  <2>2. disturbed' \subseteq Workspaces /\ repairs' \subseteq Calls
    BY <1>1 DEF Lose, NamesTypeOK
  <2> QED BY <1>0, <1>1, <2>1, <2>2, CallsTyped DEF Lose, NamesTypeOK, CallTypes, Texts
<1>2. ASSUME NEW c \in Calls, Refuse(c) PROVE NamesInv'
  <2>1. CallOK(calls[c]) /\ calls[c].ws \in Workspaces \cup {Null} /\ calls[c].op # "none"
    BY <1>2 DEF Refuse, CallsOK, CallOK, CallTypes, NoCall
  <2>2. CallsOK'
    BY <1>2, <2>1, AnswerOK DEF Refuse, CallOK
  <2>3. disturbed' \subseteq Workspaces /\ repairs' \subseteq Calls
    BY <1>2 DEF Refuse, NamesTypeOK
  <2> QED BY <1>0, <1>2, <2>2, <2>3, CallsTyped DEF Refuse, NamesTypeOK, CallTypes, Texts
<1>3. ASSUME NEW w \in Workspaces, NEW n \in Names \cup {Gone}, Theirs(w, n) PROVE NamesInv'
  <2>1. CallsOK'
    BY <1>3 DEF Theirs, CallsOK
  <2>2. /\ name' \in [Workspaces -> Names \cup {Gone}] /\ own' \in [Workspaces -> SUBSET Names]
        /\ disturbed' \subseteq Workspaces /\ repairs' \subseteq Calls
    BY <1>3 DEF Theirs, NamesTypeOK
  <2> QED BY <1>0, <1>3, <2>1, <2>2 DEF Theirs, NamesTypeOK
<1> QED BY <1>1, <1>2, <1>3

LEMMA NamesStepTyped ==
    NamesInv /\ [NamesNext]_namesVars => NamesInv'
<1>1. ASSUME NamesInv, UNCHANGED namesVars PROVE NamesInv'
  BY <1>1 DEF namesVars, rowVars, editorVars, fieldVars, NamesInv, NamesTypeOK, Texts,
      CallsOK
<1> QED BY <1>1, UserTyped, RequestStepTyped, FaultTyped DEF NamesNext

LEMMA NamesInitTyped ==
    NamesInit => NamesInv
<1> SUFFICES ASSUME NamesInit PROVE NamesInv
  OBVIOUS
<1>1. CallsOK /\ calls \in [Calls -> CallTypes]
  BY NoCallOK DEF NamesInit, CallsOK, CallOK
<1>2. StartName \in Names /\ MaxActs \in Nat /\ MaxFaults \in Nat
  BY WorkspaceNamesAssumption DEF WorkspaceNamesAssumption
<1>3. name \in [Workspaces -> Names \cup {Gone}] /\ unborn \subseteq Workspaces
  BY <1>2 DEF NamesInit
<1>4. own \in [Workspaces -> SUBSET Names]
  BY DEF NamesInit
<1>5. listed \in [Workspaces -> Names \cup {Gone, Broken}]
  BY <1>3 DEF NamesInit
<1>6. /\ editingId = Null /\ editName = Blank /\ creating = FALSE /\ newName = Blank
      /\ contextMenu = Null /\ focus = "none" /\ disturbed = {} /\ repairs = {}
      /\ acts \in 0 .. MaxActs /\ faults \in 0 .. MaxFaults
  BY <1>2 DEF NamesInit
<1>7. NamesTypeOK
  BY <1>1, <1>3, <1>4, <1>5, <1>6 DEF NamesTypeOK, Texts, CallTypes
<1> QED BY <1>1, <1>7 DEF NamesInv

(* Every answer and every click finds what it needs: a rename and a delete *)
(* are about a workspace, a name is never blank, and the editor is opened  *)
(* with a name, although entries may turn into an error's body at any time *)
(* (Sidebar.tsx:57-82, 175-200, 339-366; appStore.ts:158-213).             *)
THEOREM NamesTyped ==
    NamesSpec => []NamesTypeOK
<1>1. NamesInv => NamesTypeOK
  BY DEF NamesInv, NamesTypeOK
<1> QED BY <1>1, NamesInitTyped, NamesStepTyped, PTL DEF NamesSpec

-----------------------------------------------------------------------------
(* What the steps do to the requests *)

Others(c) == \A d \in Calls \ {c} : calls'[d] = calls[d]
Freed(c) == calls'[c] = NoCall /\ Others(c)
Moved(c, w, at, got) ==
    /\ calls'[c] = [op |-> calls[c].op, ws |-> w, name |-> calls[c].name, at |-> at, got |-> got]
    /\ Others(c)
Added(c, op, w, n) == calls[c] = NoCall /\ calls'[c] = Sent(op, w, n) /\ Others(c)

LEMMA AnswerMoves ==
    ASSUME CallsOK, NEW c \in Calls, NEW w, NEW n, Answer(c, w, n)
    PROVE  Moved(c, w, "answered", n)
<1>1. calls[c] \in CallTypes
  BY DEF CallsOK, CallOK
<1> QED BY <1>1 DEF Answer, Moved, Others, CallTypes, CallsOK

LEMMA FreeFrees ==
    ASSUME CallsOK, NEW c \in Calls, calls' = [calls EXCEPT ![c] = NoCall]
    PROVE  Freed(c)
BY DEF Freed, Others, CallsOK

(* A request that is handled: what becomes of it and of the rows. *)
Handled(c) ==
    LET w == calls[c].ws IN
    \/ /\ calls[c].op = "rename" /\ calls[c].at = "sent" /\ w \in Workspaces /\ name[w] # Gone
       /\ name' = [name EXCEPT ![w] = calls[c].name] /\ Moved(c, w, "updated", calls[c].got)
       /\ UNCHANGED <<unborn, own>>
    \/ /\ calls[c].op = "rename" /\ w \in Workspaces /\ name[w] = Gone
       /\ Moved(c, w, "answered", Broken) /\ UNCHANGED <<name, unborn, own>>
    \/ /\ calls[c].op = "rename" /\ calls[c].at = "updated" /\ w \in Workspaces /\ name[w] # Gone
       /\ Moved(c, w, "answered", name[w]) /\ UNCHANGED <<name, unborn, own>>
    \/ /\ calls[c].op = "delete" /\ w \in Workspaces
       /\ name' = [name EXCEPT ![w] = Gone] /\ Moved(c, w, "answered", Broken)
       /\ UNCHANGED <<unborn, own>>
    \/ /\ calls[c].op = "create" /\ w = Null
       /\ \E v \in unborn : /\ unborn' = unborn \ {v} /\ name' = [name EXCEPT ![v] = calls[c].name]
                            /\ own' = [own EXCEPT ![v] = {calls[c].name}]
                            /\ Moved(c, v, "answered", calls[c].name)

LEMMA HandledSteps ==
    ASSUME NamesInv, NEW c \in Calls, Update(c) \/ Updated(c) \/ Delete(c) \/ Create(c)
    PROVE  Handled(c) /\ UNCHANGED <<sidebarVars, disturbed, repairs>>
<1>0. CallOK(calls[c]) /\ calls[c] \in CallTypes
  BY DEF NamesInv, CallsOK, CallOK
<1>1. CASE Update(c)
  <2>1. calls[c].op = "rename" /\ calls[c].at = "sent" /\ calls[c].ws \in Workspaces
    BY <1>0, <1>1 DEF Update, At, CallOK
  <2>2. CASE name[calls[c].ws] = Gone
    BY <1>1, <2>1, <2>2, AnswerMoves DEF Update, Handled, NamesInv
  <2>3. CASE name[calls[c].ws] # Gone
    <3>1. Moved(c, calls[c].ws, "updated", calls[c].got)
      BY <1>0, <1>1, <2>3 DEF Update, Moved, Others, CallTypes, NamesInv, CallsOK
    <3> QED BY <1>1, <2>1, <2>3, <3>1 DEF Update, Handled
  <2> QED BY <1>1, <2>2, <2>3 DEF Update
<1>2. CASE Updated(c)
  <2>1. calls[c].op = "rename" /\ calls[c].at = "updated" /\ calls[c].ws \in Workspaces
    BY <1>0, <1>2 DEF Updated, At, CallOK
  <2> QED BY <1>2, <2>1, AnswerMoves DEF Updated, rowVars, Handled, NamesInv
<1>3. CASE Delete(c)
  <2>1. calls[c].op = "delete" /\ calls[c].ws \in Workspaces
    BY <1>0, <1>3 DEF Delete, At, CallOK
  <2> QED BY <1>3, <2>1, AnswerMoves DEF Delete, Handled, NamesInv
<1>4. CASE Create(c)
  <2>1. calls[c].op = "create" /\ calls[c].ws = Null
    BY <1>0, <1>4 DEF Create, At, CallOK
  <2>2. \A v \in unborn : Answer(c, v, calls[c].name) => Moved(c, v, "answered", calls[c].name)
    BY AnswerMoves DEF NamesInv
  <2> QED BY <1>4, <2>1, <2>2 DEF Create, Handled
<1> QED BY <1>1, <1>2, <1>3, <1>4

(* An answer that reaches the page: what becomes of the entry and of what  *)
(* is known of the workspace.                                              *)
Received(c) ==
    LET w == calls[c].ws IN
    /\ Freed(c) /\ calls[c].at = "answered"
    /\ disturbed' = IF c \in repairs THEN disturbed \ {w} ELSE disturbed
    /\ repairs' = repairs \ {c}
    /\ \/ /\ calls[c].op = "rename" /\ w \in Workspaces
          /\ listed' = IF listed[w] \in Names THEN [listed EXCEPT ![w] = calls[c].got] ELSE listed
       \/ /\ calls[c].op = "delete" /\ w \in Workspaces
          /\ listed' = IF listed[w] = Broken THEN listed ELSE [listed EXCEPT ![w] = Gone]
       \/ /\ calls[c].op = "create"
          /\ listed' = IF w = Null THEN listed ELSE [listed EXCEPT ![w] = calls[c].got]

LEMMA ReceivedSteps ==
    ASSUME NamesInv, NEW c \in Calls,
           RenameAnswered(c) \/ DeleteAnswered(c) \/ CreateAnswered(c)
    PROVE  /\ Received(c) /\ UNCHANGED <<rowVars, contextMenu, own, editName>>
           /\ editingId' \in {editingId, Null}
<1>0. CallOK(calls[c])
  BY DEF NamesInv, CallsOK, CallOK
<1>1. ASSUME NEW op, Taken(c, op)
      PROVE  /\ Freed(c) /\ calls[c].at = "answered" /\ calls[c].op = op
             /\ disturbed' = IF c \in repairs THEN disturbed \ {calls[c].ws} ELSE disturbed
             /\ repairs' = repairs \ {c} /\ UNCHANGED <<rowVars, contextMenu, own>>
  BY <1>1, FreeFrees DEF Taken, At, NamesInv
<1>2. CASE RenameAnswered(c)
  BY <1>0, <1>1, <1>2 DEF RenameAnswered, Received, CallOK
<1>3. CASE DeleteAnswered(c)
  BY <1>0, <1>1, <1>3 DEF DeleteAnswered, editorVars, Received, CallOK
<1>4. CASE CreateAnswered(c)
  BY <1>1, <1>4 DEF CreateAnswered, editorVars, Received
<1> QED BY <1>2, <1>3, <1>4

(* The user sends one request at most, about the entry with the editor or  *)
(* with the menu.                                                          *)
Requested(c, op, w, n) ==
    /\ Added(c, op, w, n)
    /\ LET others == IF w = Null THEN {} ELSE About(w) IN
       /\ disturbed' = IF \E d \in others : calls[d].op # op \/ calls[d].name # n
                       THEN disturbed \cup {w} ELSE disturbed
       /\ repairs' = IF op = "rename" /\ others = {} /\ name[w] # Gone
                     THEN repairs \cup {c} ELSE repairs \ others
    /\ \/ op = "rename" /\ w \in Workspaces /\ w = editingId /\ listed[w] \in Names
          /\ n \in Names /\ n = editName
       \/ op = "delete" /\ w \in Workspaces /\ w = contextMenu /\ n = Blank
       \/ op = "create" /\ w = Null /\ n \in Names

MenuMoves ==
    \/ contextMenu' \in {contextMenu, Null}
    \/ contextMenu' \in Workspaces /\ listed[contextMenu'] \in Names
EditorMoves ==
    \/ UNCHANGED <<editingId, editName, own>>
    \/ editingId' = Null /\ UNCHANGED <<editName, own>>
    \/ /\ editingId' \in Workspaces /\ listed[editingId'] \in Names
       /\ editName' = listed[editingId'] /\ UNCHANGED own
    \/ /\ editingId' = editingId /\ editingId \in Workspaces /\ editName' \in Texts
       /\ own' = [own EXCEPT ![editingId] = @ \cup ({editName'} \cap Names)]

LEMMA SendRequests ==
    ASSUME NamesInv, NEW op, NEW w, NEW n, Send(op, w, n),
           \/ op = "rename" /\ w \in Workspaces /\ w = editingId /\ listed[w] \in Names
              /\ n \in Names /\ n = editName
           \/ op = "delete" /\ w \in Workspaces /\ w = contextMenu /\ n = Blank
           \/ op = "create" /\ w = Null /\ n \in Names
    PROVE  \E c \in Calls : Requested(c, op, w, n)
<1>1. PICK c \in Calls : Send(op, w, n)!(c)
  BY DEF Send
<1>2. Added(c, op, w, n)
  BY <1>1 DEF Added, Others, NamesInv, CallsOK
<1> QED BY <1>1, <1>2 DEF Requested

LEMMA UserMoves ==
    ASSUME NamesInv, User
    PROVE  /\ UNCHANGED <<name, unborn, listed>> /\ MenuMoves /\ EditorMoves
           /\ \/ UNCHANGED <<calls, disturbed, repairs>>
              \/ \E c \in Calls, op \in {"rename", "delete", "create"},
                    w \in Workspaces \cup {Null}, n \in Names \cup {Blank} :
                    Requested(c, op, w, n)
<1> DEFINE Asked == \/ UNCHANGED <<calls, disturbed, repairs>>
                    \/ \E c \in Calls, op \in {"rename", "delete", "create"},
                          w \in Workspaces \cup {Null}, n \in Names \cup {Blank} :
                          Requested(c, op, w, n)
           Goal == UNCHANGED <<name, unborn, listed>> /\ MenuMoves /\ EditorMoves /\ Asked
<1> USE DEF Act, rowVars, editorVars, fieldVars
<1>1. ASSUME NEW n \in Texts, TypeName(n) PROVE Goal
  <2>1. editingId \in Workspaces
    BY <1>1 DEF TypeName, InEditor, EditorShown, NamesInv, NamesTypeOK
  <2> QED BY <1>1, <2>1 DEF TypeName, MenuMoves, EditorMoves
<1>2. ASSUME NEW n \in Texts, TypeNew(n) PROVE Goal
  BY <1>2 DEF TypeNew, MenuMoves, EditorMoves
<1>3. ASSUME NEW left \in {"none", "editor"}, Commit(left) PROVE Goal
  <2>1. editingId' \in {editingId, Null} /\
        UNCHANGED <<name, unborn, listed, editName, own, contextMenu>>
    BY <1>3 DEF Commit
  <2>2. CASE editName = Blank
    BY <1>3, <2>1, <2>2 DEF Commit, MenuMoves, EditorMoves
  <2>3. CASE editName # Blank
    <3>1. /\ editingId \in Workspaces /\ listed[editingId] \in Names /\ editName \in Names
          /\ Send("rename", editingId, editName)
      BY <1>3, <2>3 DEF Commit, InEditor, EditorShown, NamesInv, NamesTypeOK, Texts
    <3>2. \E c \in Calls : Requested(c, "rename", editingId, editName)
      BY <3>1, SendRequests
    <3> QED BY <2>1, <3>1, <3>2 DEF MenuMoves, EditorMoves
  <2> QED BY <2>2, <2>3
<1>4. ASSUME NEW w \in Workspaces, listed[w] \in Names, StartRename(w),
             UNCHANGED <<name, unborn, listed>>
      PROVE  Goal
  BY <1>4 DEF StartRename, MenuMoves, EditorMoves
<1>5. ASSUME NEW w \in Workspaces, DoubleClick(w) PROVE Goal
  BY <1>4, <1>5 DEF DoubleClick, Elsewhere
<1>6. ASSUME NEW w \in Workspaces, OpenMenu(w) PROVE Goal
  BY <1>6 DEF OpenMenu, MenuMoves, EditorMoves
<1>7. CASE Escape \/ Click
  BY <1>7 DEF Escape, Click, Elsewhere, MenuMoves, EditorMoves
<1>8. CASE MenuRename
  <2>1. contextMenu \in Workspaces
    BY <1>8 DEF MenuRename, NamesInv, NamesTypeOK
  <2> QED BY <1>4, <1>8, <2>1 DEF MenuRename, Elsewhere
<1>9. CASE MenuDelete
  <2>1. contextMenu \in Workspaces /\ Send("delete", contextMenu, Blank)
    BY <1>9 DEF MenuDelete, NamesInv, NamesTypeOK
  <2>2. \E c \in Calls : Requested(c, "delete", contextMenu, Blank)
    BY <2>1, SendRequests
  <2> QED BY <1>9, <2>1, <2>2 DEF MenuDelete, Elsewhere, MenuMoves, EditorMoves
<1>10. CASE OpenField
  BY <1>10 DEF OpenField, Elsewhere, MenuMoves, EditorMoves
<1>11. CASE EnterNew
  <2>1. newName \in Names /\ Send("create", Null, newName)
    BY <1>11 DEF EnterNew, NamesInv, NamesTypeOK, Texts
  <2>2. \E c \in Calls : Requested(c, "create", Null, newName)
    BY <2>1, SendRequests
  <2> QED BY <1>11, <2>1, <2>2 DEF EnterNew, MenuMoves, EditorMoves
<1>12. ASSUME NEW escape \in BOOLEAN, LeaveField(escape) PROVE Goal
  BY <1>12 DEF LeaveField, MenuMoves, EditorMoves
<1> QED BY <1>1, <1>2, <1>3, <1>5, <1>6, <1>7, <1>8, <1>9, <1>10, <1>11, <1>12 DEF User

(* A request that is lost or refused, and what other browsers do *)
Lost(c) ==
    /\ Freed(c) /\ repairs' = repairs \ {c} /\ UNCHANGED <<name, own>>
    /\ disturbed' = IF calls[c].at = "sent" THEN disturbed
                    ELSE disturbed \cup ({calls[c].ws} \cap Workspaces)
Refused(c) ==
    /\ calls[c].at = "sent" /\ Moved(c, calls[c].ws, "answered", Broken)
    /\ disturbed' = disturbed \cup ({calls[c].ws} \cap Workspaces)
    /\ repairs' = repairs \ {c} /\ UNCHANGED <<name, own>>
Changed(w, n) ==
    /\ name[w] # Gone /\ name' = [name EXCEPT ![w] = n]
    /\ own' = [own EXCEPT ![w] = @ \cup ({n} \cap Names)]
    /\ disturbed' = disturbed \cup {w} /\ repairs' = repairs \ About(w) /\ UNCHANGED calls

(* A step does one of these, and then to nothing else. *)
pageState == <<listed, editingId, editName, contextMenu>>
Cases ==
    \/ \E c \in Calls : Handled(c) /\ UNCHANGED <<pageState, disturbed, repairs>>
    \/ \E c \in Calls : /\ Received(c) /\ UNCHANGED <<name, unborn, contextMenu, own, editName>>
                        /\ editingId' \in {editingId, Null}
    \/ /\ UNCHANGED <<name, unborn, listed>> /\ MenuMoves /\ EditorMoves
       /\ \/ UNCHANGED <<calls, disturbed, repairs>>
          \/ \E c \in Calls, op \in {"rename", "delete", "create"},
                w \in Workspaces \cup {Null}, n \in Names \cup {Blank} :
                Requested(c, op, w, n)
    \/ \E c \in Calls : (Lost(c) \/ Refused(c)) /\ UNCHANGED <<pageState, unborn>>
    \/ \E w \in Workspaces, n \in Names \cup {Gone} :
            Changed(w, n) /\ UNCHANGED <<pageState, unborn>>

LEMMA NamesSteps ==
    ASSUME NamesInv, [NamesNext]_namesVars
    PROVE  Cases
<1> USE DEF sidebarVars, editorVars, rowVars, pageState
<1>1. CASE UNCHANGED namesVars
  BY <1>1 DEF namesVars, Cases, MenuMoves, EditorMoves
<1>2. CASE User
  BY <1>2, UserMoves DEF Cases
<1>3. ASSUME NEW c \in Calls, Update(c) \/ Updated(c) \/ Delete(c) \/ Create(c)
      PROVE  Cases
  BY <1>3, HandledSteps DEF Cases
<1>4. ASSUME NEW c \in Calls, RenameAnswered(c) \/ DeleteAnswered(c) \/ CreateAnswered(c)
      PROVE  Cases
  BY <1>4, ReceivedSteps DEF Cases
<1>5. ASSUME NEW c \in Calls, Lose(c) PROVE Cases
  BY <1>5, FreeFrees DEF Lose, Fault, Lost, Cases, NamesInv
<1>6. ASSUME NEW c \in Calls, Refuse(c) PROVE Cases
  BY <1>6, AnswerMoves DEF Refuse, Fault, Refused, Cases, NamesInv
<1>7. ASSUME NEW w \in Workspaces, NEW n \in Names \cup {Gone}, Theirs(w, n) PROVE Cases
  BY <1>7 DEF Theirs, Fault, Changed, Cases
<1> QED BY <1>1, <1>2, <1>3, <1>4, <1>5, <1>6, <1>7 DEF NamesNext

-----------------------------------------------------------------------------
(* Workspaces that are new *)

Alone(c) == \A d \in Calls : calls[d].ws = calls[c].ws => d = c

(* Nothing on the page and no request is about a workspace before it is    *)
(* made, and until it is listed nothing but the request that made it.      *)
UnbornOK(w) ==
    /\ name[w] = Gone /\ listed[w] = Gone /\ contextMenu # w /\ editingId # w
    /\ \A c \in Calls : calls[c].ws # w
NewbornOK(c) ==
    calls[c].op = "create" /\ calls[c].ws # Null =>
        listed[calls[c].ws] = Gone /\ contextMenu # calls[c].ws /\ Alone(c)
NewOK == (\A w \in unborn : UnbornOK(w)) /\ (\A c \in Calls : NewbornOK(c))

LEMMA NewStep ==
    ASSUME NamesInv, NewOK, Cases
    PROVE  NewOK'
<1>0. /\ Gone \notin Names /\ Broken \notin Names /\ Gone # Broken /\ Null \notin Workspaces
      /\ unborn \subseteq Workspaces /\ name \in [Workspaces -> Names \cup {Gone}]
      /\ listed \in [Workspaces -> Names \cup {Gone, Broken}]
  BY WorkspaceNamesAssumption DEF WorkspaceNamesAssumption, NamesInv, NamesTypeOK
<1>t. \A c \in Calls : CallOK(calls[c]) /\ calls[c].ws \in Workspaces \cup {Null}
  BY DEF NamesInv, CallsOK, CallOK, CallTypes
<1>1. ASSUME NEW c \in Calls, Handled(c), UNCHANGED pageState PROVE NewOK'
  <2>1. CASE UNCHANGED unborn /\ calls'[c].op = calls[c].op /\ calls'[c].ws = calls[c].ws
          /\ Others(c)
             /\ calls[c].op # "create" /\ (\A w \in unborn : name'[w] = Gone)
    BY <1>1, <2>1 DEF NewOK, UnbornOK, NewbornOK, Alone, Others, pageState
  <2>2. ASSUME NEW v \in unborn, unborn' = unborn \ {v}, name' = [name EXCEPT ![v] = calls[c].name],
               calls[c].op = "create", Moved(c, v, "answered", calls[c].name)
        PROVE  NewOK'
    <3>1. \A w \in unborn' : UnbornOK(w)'
      BY <1>0, <1>1, <2>2 DEF NewOK, UnbornOK, Moved, Others, pageState
    <3>2. \A d \in Calls : NewbornOK(d)'
      BY <1>0, <1>1, <2>2 DEF NewOK, UnbornOK, NewbornOK, Alone, Moved, Others, pageState
    <3> QED BY <3>1, <3>2 DEF NewOK
  <2>3. CASE calls[c].op = "create"
    BY <1>1, <2>2, <2>3 DEF Handled
  <2>4. CASE calls[c].op # "create"
    <3>1. /\ UNCHANGED unborn /\ calls'[c].op = calls[c].op /\ calls'[c].ws = calls[c].ws
          /\ Others(c) /\ \A v \in Workspaces : v # calls[c].ws => name'[v] = name[v]
      BY <1>0, <1>1, <2>4 DEF Handled, Moved
    <3>2. \A w \in unborn : name'[w] = Gone
      BY <1>0, <3>1 DEF NewOK, UnbornOK
    <3> QED BY <2>1, <2>4, <3>1, <3>2
  <2> QED BY <2>3, <2>4
<1>2. ASSUME NEW c \in Calls, Received(c), UNCHANGED <<name, unborn, contextMenu>>,
             editingId' \in {editingId, Null}
      PROVE  NewOK'
  <2>1. calls'[c] = NoCall /\ Others(c) /\ NoCall.ws = Null /\ NoCall.op = "none"
    BY <1>2 DEF Received, Freed, NoCall
  <2>2. \A v \in Workspaces : v # calls[c].ws => listed'[v] = listed[v]
    BY <1>0, <1>2 DEF Received
  <2>3. \A w \in unborn' : UnbornOK(w)'
    BY <1>0, <1>2, <2>1, <2>2 DEF NewOK, UnbornOK, Others
  <2>4. \A d \in Calls : NewbornOK(d)'
    BY <1>0, <1>t, <1>2, <2>1, <2>2 DEF NewOK, NewbornOK, Alone, Others
  <2> QED BY <2>3, <2>4 DEF NewOK
<1>3. ASSUME UNCHANGED <<name, unborn, listed>>, MenuMoves, EditorMoves PROVE
        /\ \A w \in unborn' : /\ name'[w] = Gone /\ listed'[w] = Gone
                              /\ contextMenu' # w /\ editingId' # w
        /\ \A c \in Calls : calls[c].op = "create" /\ calls[c].ws # Null =>
                listed'[calls[c].ws] = Gone /\ contextMenu' # calls[c].ws
  <2>1. contextMenu' \in {contextMenu, Null} \/ listed[contextMenu'] \in Names
    BY <1>3 DEF MenuMoves
  <2>2. editingId' \in {editingId, Null} \/ listed[editingId'] \in Names
    BY <1>3 DEF EditorMoves
  <2> QED BY <1>0, <1>t, <1>3, <2>1, <2>2 DEF NewOK, UnbornOK, NewbornOK
<1>4. ASSUME UNCHANGED <<name, unborn, listed>>, MenuMoves, EditorMoves, UNCHANGED calls
      PROVE  NewOK'
  BY <1>3, <1>4 DEF NewOK, UnbornOK, NewbornOK, Alone
<1>5. ASSUME UNCHANGED <<name, unborn, listed>>, MenuMoves, EditorMoves,
             NEW c \in Calls, NEW op \in {"rename", "delete", "create"},
             NEW w \in Workspaces \cup {Null}, NEW n \in Names \cup {Blank}, Requested(c, op, w, n)
      PROVE  NewOK'
  <2>1. calls'[c].op = op /\ calls'[c].ws = w /\ Others(c) /\ calls[c].ws = Null
    BY <1>5 DEF Requested, Added, Sent, NoCall
  <2>2. w \notin unborn /\ (op = "create" => w = Null)
        /\ \A d \in Calls : calls[d].op = "create" /\ calls[d].ws # Null => calls[d].ws # w
    BY <1>0, <1>5 DEF Requested, NewOK, UnbornOK, NewbornOK
  <2>3. \A v \in unborn' : UnbornOK(v)'
    BY <1>0, <1>3, <1>5, <2>1, <2>2 DEF NewOK, UnbornOK, Others
  <2>4. \A d \in Calls : NewbornOK(d)'
    BY <1>0, <1>3, <1>5, <2>1, <2>2 DEF NewOK, NewbornOK, Alone, Others
  <2> QED BY <2>3, <2>4 DEF NewOK
<1>6. ASSUME NEW c \in Calls, Lost(c) \/ Refused(c), UNCHANGED <<pageState, unborn>> PROVE NewOK'
  <2>1. Others(c) /\ name' = name
        /\ \/ calls'[c].ws = Null /\ calls'[c].op = "none"
           \/ calls'[c].ws = calls[c].ws /\ calls'[c].op = calls[c].op
    BY <1>6 DEF Lost, Refused, Freed, Moved, NoCall
  <2>2. \A v \in unborn' : UnbornOK(v)'
    BY <1>0, <1>6, <2>1 DEF NewOK, UnbornOK, Others, pageState
  <2>3. \A d \in Calls : NewbornOK(d)'
    BY <1>0, <1>6, <2>1 DEF NewOK, NewbornOK, Alone, Others, pageState
  <2> QED BY <2>2, <2>3 DEF NewOK
<1>7. ASSUME NEW w \in Workspaces, NEW n \in Names \cup {Gone}, Changed(w, n),
             UNCHANGED <<pageState, unborn>>
      PROVE  NewOK'
  <2>1. w \notin unborn
    BY <1>7 DEF Changed, NewOK, UnbornOK
  <2> QED BY <1>0, <1>7, <2>1 DEF Changed, NewOK, UnbornOK, NewbornOK, Alone, pageState
<1> QED BY <1>1, <1>2, <1>4, <1>5, <1>6, <1>7 DEF Cases

-----------------------------------------------------------------------------
(* Renames that make good *)

(* Such a rename is the only request about a workspace that is there, and  *)
(* what it has read is what is there.                                      *)
RepairOK(c) ==
    /\ calls[c].op = "rename" /\ Alone(c)
    /\ name[calls[c].ws] # Gone /\ listed[calls[c].ws] \in Names
    /\ calls[c].at = "updated" => name[calls[c].ws] = calls[c].name
    /\ calls[c].at = "answered" => calls[c].got = name[calls[c].ws]
RepairsOK == \A c \in repairs : RepairOK(c)

LEMMA RepairStep ==
    ASSUME NamesInv, NewOK, RepairsOK, Cases
    PROVE  RepairsOK'
<1>0. /\ Gone \notin Names /\ Null \notin Workspaces /\ unborn \subseteq Workspaces
      /\ repairs \subseteq Calls
      /\ name \in [Workspaces -> Names \cup {Gone}]
      /\ listed \in [Workspaces -> Names \cup {Gone, Broken}]
  BY WorkspaceNamesAssumption DEF WorkspaceNamesAssumption, NamesInv, NamesTypeOK
<1>t. \A c \in Calls : calls[c].op = "rename" => calls[c].ws \in Workspaces
        /\ calls[c].name \in Names
  BY DEF NamesInv, CallsOK, CallOK
(* A rename that makes good is not disturbed by what is not about its workspace. *)
<1>k. ASSUME NEW c \in Calls, Others(c), NEW d \in repairs, d # c, calls'[c].ws # calls[d].ws,
             name'[calls[d].ws] = name[calls[d].ws], listed'[calls[d].ws] = listed[calls[d].ws]
      PROVE  RepairOK(d)'
  BY <1>0, <1>k DEF RepairsOK, RepairOK, Alone, Others
<1>1. ASSUME NEW c \in Calls, Handled(c), UNCHANGED <<pageState, repairs>> PROVE RepairsOK'
  <2>1. Others(c)
    BY <1>1 DEF Handled, Moved
  <2>2. ASSUME NEW d \in repairs, d # c PROVE RepairOK(d)'
    <3>1. calls[c].ws # calls[d].ws /\ calls[d].ws \in Workspaces
      BY <1>0, <1>t, <2>2 DEF RepairsOK, RepairOK, Alone
    <3>2. calls[d].ws \notin unborn
      BY <1>0, <2>2 DEF NewOK, UnbornOK
    <3>3. calls'[c].ws # calls[d].ws /\ name'[calls[d].ws] = name[calls[d].ws]
      <4>1. CASE calls[c].op = "create"
        <5>1. PICK v \in unborn : /\ name' = [name EXCEPT ![v] = calls[c].name]
                                  /\ Moved(c, v, "answered", calls[c].name)
          BY <1>1, <4>1 DEF Handled
        <5>2. calls'[c].ws = v
          BY <5>1 DEF Moved
        <5> QED BY <1>0, <3>1, <3>2, <5>1, <5>2
      <4>2. CASE calls[c].op # "create"
        BY <1>0, <1>1, <3>1, <4>2 DEF Handled, Moved
      <4> QED BY <4>1, <4>2
    <3> QED BY <1>k, <1>1, <2>1, <2>2, <3>3 DEF pageState
  <2>3. CASE c \in repairs
    <3>1. /\ calls[c].op = "rename" /\ Alone(c) /\ name[calls[c].ws] # Gone
            /\ calls[c].ws \in Workspaces
          /\ listed[calls[c].ws] \in Names /\ calls[c].name \in Names
      BY <1>t, <2>3 DEF RepairsOK, RepairOK
    <3>2. ASSUME calls[c].at = "sent", Moved(c, calls[c].ws, "updated", calls[c].got),
                 name' = [name EXCEPT ![calls[c].ws] = calls[c].name]
          PROVE  RepairOK(c)'
      BY <1>0, <1>1, <3>1, <3>2 DEF RepairOK, Alone, Moved, Others, pageState
    <3>3. ASSUME Moved(c, calls[c].ws, "answered", name[calls[c].ws]), UNCHANGED name
          PROVE  RepairOK(c)'
      BY <1>1, <3>1, <3>3 DEF RepairOK, Alone, Moved, Others, pageState
    <3>4. RepairOK(c)'
      BY <1>1, <3>1, <3>2, <3>3 DEF Handled
    <3> QED BY <1>1, <2>2, <3>4 DEF RepairsOK
  <2> QED BY <1>1, <2>2, <2>3 DEF RepairsOK
<1>2. ASSUME NEW c \in Calls, Received(c), UNCHANGED <<name, unborn, contextMenu>> PROVE RepairsOK'
  <2>1. Others(c) /\ calls'[c].ws = Null /\ repairs' = repairs \ {c}
    BY <1>2 DEF Received, Freed, NoCall
  <2>2. \A v \in Workspaces : v # calls[c].ws => listed'[v] = listed[v]
    BY <1>0, <1>2 DEF Received
  <2>3. \A d \in repairs \ {c} : calls[d].ws \in Workspaces /\ calls[d].ws # calls[c].ws
    BY <1>0, <1>t DEF RepairsOK, RepairOK, Alone
  <2> QED BY <1>0, <1>k, <1>2, <2>1, <2>2, <2>3 DEF RepairsOK
<1>4. ASSUME UNCHANGED <<name, unborn, listed, calls, repairs>> PROVE RepairsOK'
  BY <1>4 DEF RepairsOK, RepairOK, Alone
<1>5. ASSUME UNCHANGED <<name, unborn, listed>>,
             NEW c \in Calls, NEW op \in {"rename", "delete", "create"},
             NEW w \in Workspaces \cup {Null}, NEW n \in Names \cup {Blank}, Requested(c, op, w, n)
      PROVE  RepairsOK'
  <2>1. /\ calls'[c].op = op /\ calls'[c].ws = w /\ calls'[c].at = "sent" /\ Others(c)
        /\ calls[c].ws = Null /\ calls[c].op = "none"
    BY <1>5 DEF Requested, Added, Sent, NoCall
  <2>2. ASSUME NEW d \in repairs, calls[d].ws # w PROVE RepairOK(d)'
    <3>1. d # c
      BY <2>1 DEF RepairsOK, RepairOK
    <3> QED BY <1>k, <1>5, <2>1, <2>2, <3>1
  <2>3. \A d \in repairs : calls[d].ws \in Workspaces
    BY <1>0, <1>t DEF RepairsOK, RepairOK
  <2>4. CASE op = "rename" /\ About(w) = {} /\ name[w] # Gone
    <3>1. w \in Workspaces /\ listed[w] \in Names
      BY <2>4, <1>5 DEF Requested
    <3>2. \A d \in Calls : calls[d].ws # w
      BY <2>4 DEF About
    <3>3. RepairOK(c)'
      BY <1>5, <2>1, <2>4, <3>1, <3>2 DEF RepairOK, Alone, Others
    <3>4. repairs' \subseteq repairs \cup {c}
      BY <1>0, <1>5, <2>4, <3>1 DEF Requested
    <3> QED BY <1>0, <2>2, <3>2, <3>3, <3>4 DEF RepairsOK
  <2>5. CASE op = "rename" /\ ~(About(w) = {} /\ name[w] # Gone)
    <3>1. w \in Workspaces /\ repairs' = repairs \ About(w)
      BY <1>0, <1>5, <2>5 DEF Requested
    <3>2. \A d \in repairs' : d \in repairs /\ calls[d].ws # w
      BY <1>0, <3>1 DEF About
    <3> QED BY <2>2, <3>2 DEF RepairsOK
  <2>6. CASE op # "rename"
    <3>1. \A d \in repairs' : d \in repairs /\ calls[d].ws # w
      BY <1>0, <1>5, <2>3, <2>6 DEF Requested, About
    <3> QED BY <2>2, <3>1 DEF RepairsOK
  <2> QED BY <2>4, <2>5, <2>6
<1>6. ASSUME NEW c \in Calls, Lost(c) \/ Refused(c), UNCHANGED <<pageState, unborn>>
      PROVE  RepairsOK'
  <2>1. Others(c) /\ name' = name /\ repairs' = repairs \ {c}
        /\ calls'[c].ws \in {Null, calls[c].ws}
    BY <1>6 DEF Lost, Refused, Freed, Moved, NoCall
  <2>2. \A d \in repairs \ {c} : calls[d].ws # calls[c].ws /\ calls[d].ws # Null
    BY <1>0, <1>t DEF RepairsOK, RepairOK, Alone
  <2> QED BY <1>k, <1>6, <2>1, <2>2 DEF RepairsOK, pageState
<1>7. ASSUME NEW w \in Workspaces, NEW n \in Names \cup {Gone}, Changed(w, n),
             UNCHANGED <<pageState, unborn>>
      PROVE  RepairsOK'
  <2>1. \A d \in repairs' : d \in repairs /\ calls[d].ws # w
    BY <1>0, <1>7 DEF Changed, About
  <2>2. \A d \in repairs' : name'[calls[d].ws] = name[calls[d].ws]
    BY <1>0, <1>t, <1>7, <2>1 DEF Changed, RepairsOK, RepairOK
  <2> QED BY <1>7, <2>1, <2>2 DEF Changed, RepairsOK, RepairOK, Alone, pageState
<1> QED BY <1>1, <1>2, <1>4, <1>5, <1>6, <1>7 DEF Cases

-----------------------------------------------------------------------------
(* Workspaces that nothing has disturbed *)

(* All requests about one ask for the same, so that it does not matter     *)
(* which of them is handled or answered last: what one has read is what is *)
(* there, and before any has been handled the page shows what is there.    *)
InOrder(c) ==
    LET w == calls[c].ws IN
    /\ calls[c].op = "rename" => name[w] # Gone /\ listed[w] \in Names
    /\ calls[c].op = "rename" /\ calls[c].at # "sent" => name[w] = calls[c].name
    /\ calls[c].at = "answered" => IF calls[c].op = "delete" THEN name[w] = Gone
                                   ELSE calls[c].got = name[w]
CalmOK(w) ==
    /\ listed[w] # Broken
    /\ \A c \in Calls : calls[c].ws = w => InOrder(c)
    /\ \A c, d \in Calls : calls[c].ws = w /\ calls[d].ws = w =>
            calls[c].op = calls[d].op /\ calls[c].name = calls[d].name
    /\ (\A c \in Calls : calls[c].ws = w => calls[c].at = "sent") => listed[w] = name[w]
CalmInv == \A w \in Workspaces \ disturbed : CalmOK(w)

(* Steps about other workspaces *)
LEMMA CalmElsewhere ==
    ASSUME CalmInv, NEW w \in Workspaces \ disturbed,
           name'[w] = name[w], listed'[w] = listed[w],
           NEW c \in Calls, Others(c), calls[c].ws # w, calls'[c].ws # w
    PROVE  CalmOK(w)'
BY DEF CalmInv, CalmOK, InOrder, Others

LEMMA CalmHandled ==
    ASSUME NamesInv, NewOK, CalmInv,
           NEW c \in Calls, Handled(c), UNCHANGED <<pageState, disturbed>>,
           NEW w \in Workspaces \ disturbed
    PROVE  CalmOK(w)'
<1>0. /\ Gone \notin Names /\ Gone # Broken /\ Null \notin Workspaces /\ unborn \subseteq Workspaces
      /\ name \in [Workspaces -> Names \cup {Gone}]
  BY WorkspaceNamesAssumption DEF WorkspaceNamesAssumption, NamesInv, NamesTypeOK
<1>1. CallOK(calls[c]) /\ CalmOK(w) /\ UNCHANGED listed
  BY DEF NamesInv, CallsOK, CalmInv, pageState
<1>2. CASE calls[c].op = "create"
  <2>1. PICK v \in unborn : /\ name' = [name EXCEPT ![v] = calls[c].name]
                            /\ Moved(c, v, "answered", calls[c].name)
    BY <1>2 DEF Handled
  <2>2. calls'[c].ws = v /\ Others(c) /\ calls[c].ws = Null /\ calls'[c].at = "answered"
        /\ calls'[c].op = "create" /\ calls'[c].got = calls[c].name
    BY <1>2, <2>1 DEF Moved, Handled
  <2>3. CASE w # v
    BY <1>0, <1>1, <2>1, <2>2, <2>3, CalmElsewhere
  <2>4. CASE w = v
    <3>1. name'[w] = calls[c].name /\ listed'[w] = Gone
            /\ \A d \in Calls : calls'[d].ws = w => d = c
      BY <1>0, <1>1, <2>1, <2>2, <2>4 DEF NewOK, UnbornOK, Others
    <3> QED BY <1>0, <2>2, <2>4, <3>1 DEF CalmOK, InOrder
  <2> QED BY <2>3, <2>4
<1>3. CASE calls[c].op # "create" /\ calls[c].ws # w
  <2>1. Others(c) /\ calls'[c].ws = calls[c].ws /\ name'[w] = name[w]
    BY <1>0, <1>3 DEF Handled, Moved
  <2> QED BY <1>1, <1>3, <2>1, CalmElsewhere
<1>4. CASE calls[c].op # "create" /\ calls[c].ws = w
  <2>0. /\ \A d \in Calls : calls[d].ws = w =>
               InOrder(d) /\ calls[d].op = calls[c].op /\ calls[d].name = calls[c].name
        /\ listed'[w] = listed[w] /\ listed[w] # Broken
    BY <1>1, <1>4 DEF CalmOK
  <2>1. ASSUME calls[c].op = "rename", calls[c].at = "sent",
          name' = [name EXCEPT ![w] = calls[c].name],
               Moved(c, w, "updated", calls[c].got)
        PROVE  CalmOK(w)'
    <3>1. name'[w] = calls[c].name /\ calls[c].name \in Names
      BY <1>0, <1>1, <2>1 DEF CallOK
    <3>2. /\ calls'[c].op = "rename" /\ calls'[c].ws = w /\ calls'[c].name = calls[c].name
          /\ calls'[c].at = "updated" /\ Others(c)
      BY <2>1 DEF Moved
    <3>3. \A d \in Calls : calls'[d].ws = w =>
              calls'[d].op = "rename" /\ calls'[d].name = calls[c].name /\ InOrder(d)'
      BY <1>0, <1>4, <2>0, <2>1, <3>1, <3>2 DEF InOrder, Others
    <3> QED BY <2>0, <3>2, <3>3 DEF CalmOK
  <2>2. ASSUME calls[c].op = "rename", name[w] = Gone PROVE FALSE
    BY <1>4, <2>0, <2>2 DEF InOrder
  <2>3. ASSUME calls[c].op = "rename", calls[c].at = "updated", UNCHANGED name,
               Moved(c, w, "answered", name[w])
        PROVE  CalmOK(w)'
    <3>2. /\ calls'[c].op = "rename" /\ calls'[c].ws = w /\ calls'[c].name = calls[c].name
          /\ calls'[c].at = "answered" /\ calls'[c].got = name[w] /\ Others(c)
      BY <2>3 DEF Moved
    <3>3. \A d \in Calls : calls'[d].ws = w =>
              calls'[d].op = "rename" /\ calls'[d].name = calls[c].name /\ InOrder(d)'
      BY <1>0, <1>4, <2>0, <2>3, <3>2 DEF InOrder, Others
    <3> QED BY <2>0, <3>2, <3>3 DEF CalmOK
  <2>4. ASSUME calls[c].op = "delete", name' = [name EXCEPT ![w] = Gone],
               Moved(c, w, "answered", Broken)
        PROVE  CalmOK(w)'
    <3>1. name'[w] = Gone
      BY <1>0, <2>4
    <3>2. /\ calls'[c].op = "delete" /\ calls'[c].ws = w /\ calls'[c].name = calls[c].name
          /\ calls'[c].at = "answered" /\ Others(c)
      BY <2>4 DEF Moved
    <3>3. \A d \in Calls : calls'[d].ws = w =>
              calls'[d].op = "delete" /\ calls'[d].name = calls[c].name /\ InOrder(d)'
      BY <1>4, <2>0, <2>4, <3>1, <3>2 DEF InOrder, Others
    <3> QED BY <2>0, <3>2, <3>3 DEF CalmOK
  <2> QED BY <1>4, <2>1, <2>2, <2>3, <2>4 DEF Handled
<1> QED BY <1>2, <1>3, <1>4

LEMMA CalmReceived ==
    ASSUME NamesInv, NewOK, RepairsOK, CalmInv,
           NEW c \in Calls, Received(c), UNCHANGED name,
           NEW w \in Workspaces, w \notin disturbed'
    PROVE  CalmOK(w)'
<1>0. /\ Gone \notin Names /\ Gone # Broken /\ Broken \notin Names /\ Null \notin Workspaces
      /\ name \in [Workspaces -> Names \cup {Gone}]
      /\ listed \in [Workspaces -> Names \cup {Gone, Broken}]
  BY WorkspaceNamesAssumption DEF WorkspaceNamesAssumption, NamesInv, NamesTypeOK
<1>1. /\ CallOK(calls[c]) /\ calls'[c].ws = Null /\ Others(c) /\ calls[c].at = "answered"
      /\ disturbed' = IF c \in repairs THEN disturbed \ {calls[c].ws} ELSE disturbed
  BY DEF NamesInv, CallsOK, Received, Freed, NoCall
<1>2. CASE calls[c].ws # w
  <2>1. w \notin disturbed /\ listed'[w] = listed[w]
    BY <1>0, <1>1, <1>2 DEF Received
  <2> QED BY <1>0, <1>1, <1>2, <2>1, CalmElsewhere
<1>3. CASE calls[c].ws = w
  <2>1. CASE c \in repairs
    <3>1. /\ calls[c].op = "rename" /\ listed[w] \in Names /\ calls[c].got = name[w]
          /\ \A d \in Calls : calls[d].ws = w => d = c
      BY <1>1, <1>3, <2>1 DEF RepairsOK, RepairOK, Alone
    <3>2. listed'[w] = name[w] /\ \A d \in Calls : calls'[d].ws # w
      BY <1>0, <1>1, <1>3, <3>1 DEF Received, Others
    <3> QED BY <1>0, <3>2 DEF CalmOK
  <2>2. CASE c \notin repairs
    <3>1. /\ CalmOK(w) /\ InOrder(c)
          /\ \A d \in Calls : calls[d].ws = w => calls[d].op = calls[c].op /\ InOrder(d)
      BY <1>1, <1>3, <2>2 DEF CalmInv, CalmOK
    <3>2. listed'[w] = name[w]
      BY <1>0, <1>1, <1>3, <3>1 DEF Received, CalmOK, InOrder
    <3>3. ASSUME NEW d \in Calls, calls'[d].ws = w
          PROVE  d # c /\ calls'[d] = calls[d] /\ calls[d].ws = w
      BY <1>0, <1>1, <3>3 DEF Others
    <3>4. \A d \in Calls : calls'[d].ws = w => InOrder(d)'
      BY <1>0, <1>3, <3>1, <3>2, <3>3 DEF InOrder
    <3> QED BY <1>0, <3>1, <3>2, <3>3, <3>4 DEF CalmOK
  <2> QED BY <2>1, <2>2
<1> QED BY <1>2, <1>3

LEMMA CalmRequested ==
    ASSUME NamesInv, CalmInv, UNCHANGED <<name, unborn, listed>>,
           NEW c \in Calls, NEW op \in {"rename", "delete", "create"},
           NEW u \in Workspaces \cup {Null}, NEW n \in Names \cup {Blank}, Requested(c, op, u, n),
           NEW w \in Workspaces, w \notin disturbed'
    PROVE  CalmOK(w)'
<1>0. Gone \notin Names /\ Null \notin Workspaces
  BY WorkspaceNamesAssumption DEF WorkspaceNamesAssumption
<1>1. /\ calls'[c].op = op /\ calls'[c].ws = u /\ calls'[c].name = n /\ calls'[c].at = "sent"
      /\ Others(c) /\ calls[c].ws = Null
  BY DEF Requested, Added, Sent, NoCall
<1>2. w \notin disturbed
  BY DEF Requested
<1>3. CASE u # w
  BY <1>0, <1>1, <1>2, <1>3, CalmElsewhere
<1>4. CASE u = w
  <2>1. \A d \in Calls : calls[d].ws = w => calls[d].op = op /\ calls[d].name = n
    BY <1>0, <1>4 DEF Requested, About
  <2>2. CalmOK(w)
    BY <1>2 DEF CalmInv
  <2>3. op = "rename" => listed[w] \in Names
    BY <1>4 DEF Requested
  <2>4. op = "rename" => name[w] # Gone
    <3>1. CASE \E d \in Calls : calls[d].ws = w
      BY <2>1, <2>2, <3>1 DEF CalmOK, InOrder
    <3>2. CASE \A d \in Calls : calls[d].ws # w
      BY <1>0, <2>2, <2>3, <3>2 DEF CalmOK
    <3> QED BY <3>1, <3>2
  <2>5. \A d \in Calls : calls'[d].ws = w =>
            calls'[d].op = op /\ calls'[d].name = n /\ InOrder(d)'
    BY <1>1, <1>4, <2>1, <2>2, <2>3, <2>4 DEF CalmOK, InOrder, Others
  <2>6. (\A d \in Calls : calls'[d].ws = w => calls'[d].at = "sent") => listed[w] = name[w]
    BY <1>0, <1>1, <2>2 DEF CalmOK, Others
  <2> QED BY <2>2, <2>5, <2>6 DEF CalmOK
<1> QED BY <1>3, <1>4

LEMMA CalmStep ==
    ASSUME NamesInv, NewOK, RepairsOK, CalmInv, Cases
    PROVE  CalmInv'
<1> SUFFICES ASSUME NEW w \in Workspaces, w \notin disturbed'
             PROVE  CalmOK(w)'
  BY DEF CalmInv
<1>0. Null \notin Workspaces /\ name \in [Workspaces -> Names \cup {Gone}]
  BY WorkspaceNamesAssumption DEF WorkspaceNamesAssumption, NamesInv, NamesTypeOK
<1>1. ASSUME NEW c \in Calls, Handled(c), UNCHANGED <<pageState, disturbed>> PROVE CalmOK(w)'
  BY <1>1, CalmHandled
<1>2. ASSUME NEW c \in Calls, Received(c), UNCHANGED name PROVE CalmOK(w)'
  BY <1>2, CalmReceived
<1>3. ASSUME UNCHANGED <<name, listed, calls, disturbed>> PROVE CalmOK(w)'
  BY <1>3 DEF CalmInv, CalmOK, InOrder
<1>4. ASSUME UNCHANGED <<name, unborn, listed>>,
             NEW c \in Calls, NEW op \in {"rename", "delete", "create"},
             NEW u \in Workspaces \cup {Null}, NEW n \in Names \cup {Blank}, Requested(c, op, u, n)
      PROVE  CalmOK(w)'
  BY <1>4, CalmRequested
<1>5. ASSUME NEW c \in Calls, Lost(c), UNCHANGED <<pageState, unborn>> PROVE CalmOK(w)'
  <2>1. /\ Others(c) /\ UNCHANGED <<name, listed>> /\ calls'[c].ws = Null /\ w \notin disturbed
        /\ calls[c].at = "sent" \/ calls[c].ws # w
    BY <1>5 DEF Lost, Freed, NoCall, pageState
  <2>2. CASE calls[c].ws # w
    BY <1>0, <2>1, <2>2, CalmElsewhere
  <2>3. CASE calls[c].at = "sent" /\ calls[c].ws = w
    <3>1. CalmOK(w)
      BY <2>1 DEF CalmInv
    <3>2. \A d \in Calls : calls'[d].ws = w => d # c /\ calls'[d] = calls[d]
      BY <1>0, <2>1 DEF Others
    <3> QED BY <2>1, <2>3, <3>1, <3>2 DEF CalmOK, InOrder, Others
  <2> QED BY <2>1, <2>2, <2>3
<1>6. ASSUME NEW c \in Calls, Refused(c), UNCHANGED <<pageState, unborn>> PROVE CalmOK(w)'
  <2>1. /\ Others(c) /\ UNCHANGED <<name, listed>> /\ calls'[c].ws = calls[c].ws
          /\ w \notin disturbed
        /\ calls[c].ws # w
    BY <1>6 DEF Refused, Moved, pageState
  <2> QED BY <2>1, CalmElsewhere
<1>7. ASSUME NEW u \in Workspaces, NEW n \in Names \cup {Gone}, Changed(u, n),
             UNCHANGED <<pageState, unborn>>
      PROVE  CalmOK(w)'
  <2>1. w # u /\ w \notin disturbed /\ name'[w] = name[w] /\ UNCHANGED <<listed, calls>>
    BY <1>0, <1>7 DEF Changed, pageState
  <2> QED BY <2>1 DEF CalmInv, CalmOK, InOrder
<1> QED BY <1>1, <1>2, <1>3, <1>4, <1>5, <1>6, <1>7 DEF Cases

(* The sidebar shows the server's names: of a workspace that no request is *)
(* about, unless requests about it were different ones and overlapped, one *)
(* of them failed, or another browser changed it; and a rename by itself   *)
(* makes good for all of these while the workspace exists                  *)
(* (renameWorkspace, deleteWorkspace and createWorkspace,                  *)
(* appStore.ts:158-213, over sqlite.go:98-138).                            *)
THEOREM SidebarAgrees ==
    NamesSpec => []NamesAgree
<1> DEFINE Inv == NamesInv /\ NewOK /\ RepairsOK /\ CalmInv
<1>1. NamesInit => Inv
  <2> SUFFICES ASSUME NamesInit PROVE Inv
    OBVIOUS
  <2>1. NamesInv
    BY NamesInitTyped
  <2>2. \A c \in Calls : calls[c] = NoCall /\ calls[c].ws = Null /\ calls[c].op = "none"
    BY DEF NamesInit, NoCall
  <2>3. \A w \in Workspaces : /\ listed[w] = name[w] /\ (w \in unborn => name[w] = Gone)
                              /\ name[w] # Broken /\ contextMenu # w /\ editingId # w /\ w # Null
    BY WorkspaceNamesAssumption DEF NamesInit, WorkspaceNamesAssumption
  <2>4. unborn \subseteq Workspaces /\ repairs = {}
    BY DEF NamesInit
  <2>5. NewOK
    BY <2>2, <2>3, <2>4 DEF NewOK, UnbornOK, NewbornOK
  <2>6. CalmInv
    BY <2>2, <2>3 DEF CalmInv, CalmOK
  <2> QED BY <2>1, <2>4, <2>5, <2>6 DEF RepairsOK
<1>2. Inv /\ [NamesNext]_namesVars => Inv'
  BY NamesStepTyped, NamesSteps, NewStep, RepairStep, CalmStep
<1>3. Inv => NamesAgree
  BY DEF CalmInv, CalmOK, NamesAgree, About
<1> QED BY <1>1, <1>2, <1>3, PTL DEF NamesSpec

-----------------------------------------------------------------------------
(* Names that were meant *)

(* Whatever a name is going to be taken from has only names that are own:  *)
(* the list, the answers under way and the editor.                         *)
GivenOK ==
    /\ \A w \in Workspaces : name[w] # Gone => name[w] \in own[w]
    /\ \A w \in Workspaces : listed[w] \in Names => listed[w] \in own[w]
    /\ \A c \in Calls : calls[c].ws \in Workspaces =>
            /\ calls[c].op = "rename" => calls[c].name \in own[calls[c].ws]
            /\ calls[c].got \in Names => calls[c].got \in own[calls[c].ws]
    /\ editingId # Null /\ editName \in Names => editName \in own[editingId]

LEMMA GivenStep ==
    ASSUME NamesInv, NewOK, GivenOK, Cases
    PROVE  GivenOK'
<1>0. /\ Gone \notin Names /\ Broken \notin Names /\ Null \notin Workspaces /\ Blank \notin Names
      /\ unborn \subseteq Workspaces
      /\ name \in [Workspaces -> Names \cup {Gone}]
      /\ listed \in [Workspaces -> Names \cup {Gone, Broken}]
      /\ own \in [Workspaces -> SUBSET Names]
      /\ editingId \in Workspaces \cup {Null}
  BY WorkspaceNamesAssumption DEF WorkspaceNamesAssumption, NamesInv, NamesTypeOK
<1>t. \A c \in Calls : CallOK(calls[c]) /\ calls[c].ws \in Workspaces \cup {Null}
  BY DEF NamesInv, CallsOK, CallOK, CallTypes
<1>1. ASSUME NEW c \in Calls, Handled(c), UNCHANGED pageState PROVE GivenOK'
  <2>1. CASE calls[c].op = "create"
    <3>1. PICK v \in unborn : /\ name' = [name EXCEPT ![v] = calls[c].name]
                              /\ own' = [own EXCEPT ![v] = {calls[c].name}]
                              /\ Moved(c, v, "answered", calls[c].name)
      BY <1>1, <2>1 DEF Handled
    <3>2. UnbornOK(v) /\ v \in Workspaces
      BY <1>0 DEF NewOK
    <3>3. /\ calls'[c].ws = v /\ calls'[c].op = "create" /\ calls'[c].got = calls[c].name
            /\ Others(c)
      BY <2>1, <3>1 DEF Moved
    <3>4. /\ \A w \in Workspaces \ {v} : own'[w] = own[w] /\ name'[w] = name[w]
          /\ own'[v] = {calls[c].name} /\ name'[v] = calls[c].name /\ UNCHANGED pageState
      BY <1>0, <1>1, <3>1, <3>2
    <3>5. \A d \in Calls \ {c} : calls[d].ws # v /\ calls'[d] = calls[d]
      BY <3>2, <3>3 DEF UnbornOK, Others
    <3>6. \A w \in Workspaces : /\ name'[w] # Gone => name'[w] \in own'[w]
                                /\ listed'[w] \in Names => listed'[w] \in own'[w]
      BY <1>0, <3>2, <3>4 DEF GivenOK, UnbornOK, pageState
    <3>7. \A d \in Calls : calls'[d].ws \in Workspaces =>
            /\ calls'[d].op = "rename" => calls'[d].name \in own'[calls'[d].ws]
            /\ calls'[d].got \in Names => calls'[d].got \in own'[calls'[d].ws]
      BY <3>3, <3>4, <3>5 DEF GivenOK
    <3>8. editingId' # Null /\ editName' \in Names => editName' \in own'[editingId']
      BY <1>0, <3>2, <3>4 DEF GivenOK, UnbornOK, pageState
    <3> QED BY <3>6, <3>7, <3>8 DEF GivenOK
  <2>2. CASE calls[c].op # "create"
    <3>1. /\ calls[c].ws \in Workspaces /\ UNCHANGED own
          /\ \A w \in Workspaces : name'[w] \in {name[w], Gone} \/
                (w = calls[c].ws /\ calls[c].op = "rename" /\ name'[w] = calls[c].name)
      BY <1>0, <1>1, <2>2 DEF Handled
    <3>2. /\ calls'[c].op = calls[c].op /\ calls'[c].ws = calls[c].ws
            /\ calls'[c].name = calls[c].name
          /\ calls'[c].got \in {calls[c].got, Broken, name[calls[c].ws]} /\ Others(c)
      BY <1>1, <2>2 DEF Handled, Moved
    <3>3. \A w \in Workspaces : /\ name'[w] # Gone => name'[w] \in own'[w]
                                /\ listed'[w] \in Names => listed'[w] \in own'[w]
      BY <1>1, <3>1 DEF GivenOK, pageState
    <3>4. \A d \in Calls : calls'[d].ws \in Workspaces =>
            /\ calls'[d].op = "rename" => calls'[d].name \in own'[calls'[d].ws]
            /\ calls'[d].got \in Names => calls'[d].got \in own'[calls'[d].ws]
      BY <1>0, <3>1, <3>2 DEF GivenOK, Others
    <3> QED BY <1>1, <3>1, <3>3, <3>4 DEF GivenOK, pageState
  <2> QED BY <2>1, <2>2
<1>2. ASSUME NEW c \in Calls, Received(c), UNCHANGED <<name, own, editName>>,
             editingId' \in {editingId, Null}
      PROVE  GivenOK'
  <2>1. calls'[c].ws = Null /\ Others(c)
    BY <1>2 DEF Received, Freed, NoCall
  <2>2. \A w \in Workspaces : listed'[w] \in {listed[w], Gone}
          \/ (w = calls[c].ws /\ listed'[w] = calls[c].got)
    BY <1>0, <1>2 DEF Received
  <2>3. \A w \in Workspaces : listed'[w] \in Names => listed'[w] \in own[w]
    BY <1>0, <2>2 DEF GivenOK
  <2> QED BY <1>0, <1>2, <2>1, <2>3 DEF GivenOK, Others
<1>3. ASSUME UNCHANGED <<name, listed>>, EditorMoves PROVE
        /\ \A w \in Workspaces : own[w] \subseteq own'[w]
        /\ editingId' # Null /\ editName' \in Names => editName' \in own'[editingId']
  <2>1. CASE UNCHANGED own
    BY <1>0, <1>3, <2>1 DEF EditorMoves, GivenOK
  <2>2. CASE /\ editingId' = editingId /\ editingId \in Workspaces
             /\ own' = [own EXCEPT ![editingId] = @ \cup ({editName'} \cap Names)]
    BY <1>0, <2>2
  <2> QED BY <1>3, <2>1, <2>2 DEF EditorMoves
<1>4. ASSUME UNCHANGED <<name, listed, calls>>, EditorMoves PROVE GivenOK'
  BY <1>3, <1>4 DEF GivenOK
<1>5. ASSUME UNCHANGED <<name, unborn, listed>>, EditorMoves,
             NEW c \in Calls, NEW op \in {"rename", "delete", "create"},
             NEW w \in Workspaces \cup {Null}, NEW n \in Names \cup {Blank}, Requested(c, op, w, n)
      PROVE  GivenOK'
  <2>1. /\ calls'[c].op = op /\ calls'[c].ws = w /\ calls'[c].name = n /\ calls'[c].got = Broken
        /\ Others(c)
    BY <1>5 DEF Requested, Added, Sent
  <2>2. op = "rename" => w = editingId /\ w \in Workspaces /\ n = editName /\ n \in Names
    BY <1>5 DEF Requested
  <2>3. op = "rename" => n \in own[w]
    BY <1>0, <2>2 DEF GivenOK
  <2>4. \A d \in Calls : calls'[d].ws \in Workspaces =>
            /\ calls'[d].op = "rename" => calls'[d].name \in own'[calls'[d].ws]
            /\ calls'[d].got \in Names => calls'[d].got \in own'[calls'[d].ws]
    BY <1>0, <1>3, <1>5, <2>1, <2>3 DEF GivenOK, Others
  <2> QED BY <1>3, <1>5, <2>4 DEF GivenOK
<1>6. ASSUME NEW c \in Calls, Lost(c) \/ Refused(c), UNCHANGED <<pageState, unborn>> PROVE GivenOK'
  <2>1. /\ Others(c) /\ UNCHANGED <<name, own>>
        /\ \/ calls'[c].ws = Null
           \/ /\ calls'[c].ws = calls[c].ws /\ calls'[c].op = calls[c].op
              /\ calls'[c].name = calls[c].name /\ calls'[c].got = Broken
    BY <1>6 DEF Lost, Refused, Freed, Moved, NoCall
  <2> QED BY <1>0, <1>6, <2>1 DEF GivenOK, Others, pageState
<1>7. ASSUME NEW w \in Workspaces, NEW n \in Names \cup {Gone}, Changed(w, n),
             UNCHANGED <<pageState, unborn>>
      PROVE  GivenOK'
  <2>1. /\ \A v \in Workspaces : own[v] \subseteq own'[v]
        /\ \A v \in Workspaces : name'[v] = IF v = w THEN n ELSE name[v]
        /\ n # Gone => n \in own'[w]
        /\ UNCHANGED calls
    BY <1>0, <1>7 DEF Changed
  <2> QED BY <1>0, <1>7, <2>1 DEF GivenOK, pageState
<1> QED BY <1>1, <1>2, <1>4, <1>5, <1>6, <1>7 DEF Cases

(* A workspace only ever gets a name that was given to it: one that was    *)
(* typed in its own editor, not in another one that was open before,       *)
(* although the editors share editName and requests are late               *)
(* (startRename and handleRename, Sidebar.tsx:65-76).                      *)
THEOREM NamesAreOwn ==
    NamesSpec => []OwnNames
<1> DEFINE Inv == NamesInv /\ NewOK /\ GivenOK
<1>1. NamesInit => Inv
  <2> SUFFICES ASSUME NamesInit PROVE Inv
    OBVIOUS
  <2>1. NamesInv
    BY NamesInitTyped
  <2>2. /\ \A c \in Calls : calls[c] = NoCall /\ calls[c].ws = Null /\ calls[c].op = "none"
        /\ Null \notin Workspaces
    BY WorkspaceNamesAssumption DEF NamesInit, NoCall, WorkspaceNamesAssumption
  <2>3. \A w \in Workspaces : /\ listed[w] = name[w] /\ (w \in unborn => name[w] = Gone)
                              /\ contextMenu # w /\ editingId # w
    BY WorkspaceNamesAssumption DEF NamesInit, WorkspaceNamesAssumption
  <2>4. \A w \in Workspaces : name[w] \in Names \/ name[w] = Gone
    BY WorkspaceNamesAssumption DEF NamesInit, WorkspaceNamesAssumption
  <2>5. unborn \subseteq Workspaces /\ editingId = Null
        /\ \A w \in Workspaces : own[w] = {name[w]} \cap Names
    BY DEF NamesInit
  <2>6. NewOK
    BY <2>2, <2>3, <2>5 DEF NewOK, UnbornOK, NewbornOK
  <2>7. GivenOK
    BY <2>2, <2>3, <2>4, <2>5 DEF GivenOK
  <2> QED BY <2>1, <2>6, <2>7
<1>2. Inv /\ [NamesNext]_namesVars => Inv'
  BY NamesStepTyped, NamesSteps, NewStep, GivenStep
<1>3. Inv => OwnNames
  BY DEF GivenOK, OwnNames, About
<1> QED BY <1>1, <1>2, <1>3, PTL DEF NamesSpec
=============================================================================
