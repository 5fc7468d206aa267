---------------------------- MODULE TerminalInput -----------------------------
(***************************************************************************)
(* From the user's fingers to the WebSocket: the listeners                 *)
(* bindInputListeners puts on a terminal (hooks/useTerminal.ts), the       *)
(* Shift+Enter handler (hooks/shiftEnter.ts), the paste of an uploaded     *)
(* file's path, the input bar that stands in for the terminal's textarea   *)
(* on a small screen (MobileInputBar.tsx) and the lock on that textarea    *)
(* (TerminalView.tsx).                                                     *)
(*                                                                         *)
(* An input is something the user is done with: a key, a composed text, a  *)
(* paste, a line of the bar.  It has a number, in the order in which the   *)
(* user was done, and no characters.  Piece stands for the intermediate    *)
(* forms of a text that is still being composed.  The IME and xterm are    *)
(* external: pieces may reach onData, a browser may send a composed text   *)
(* once more as an input event, and what it does to a composition whose    *)
(* textarea goes away or is locked is up to it.                            *)
(***************************************************************************)
EXTENDS Integers, Sequences

CONSTANTS
    Tabs,
    None,
    MaxInputs       \* bound on inputs

ASSUME TerminalInputAssumption == None \notin Tabs /\ MaxInputs \in Nat

VARIABLES
    (* the page *)
    shown,          \* activeSessionId
    isMobile,
    readonly,       \* terminals whose textarea is locked
    (* the instances *)
    opened,         \* terminal.element exists
    listeners,      \* how often bindInputListeners has bound: "exactly once"
    wsOpen,         \* inst.ws has readyState OPEN
    composing,      \* inst.composing
    suppressing,    \* performance.now() < inst.compositionSuppressUntil
    (* the input bar *)
    back,           \* an input that was sent and is in its textarea again
    barComposing,   \* the last word in its textarea is being composed
    (* the IME and the browser *)
    preedit,        \* terminals on whose textarea a text is being composed
    recent,         \* less than 50 ms ago a composition ended here
    echo,           \* the composed text an input event will repeat
    cut,            \* its last composition ended without an event
    (* what came of it *)
    sent,           \* what was written to the WebSocket
    inputs,         \* number of inputs so far
    owed,           \* inputs nothing stood in the way of
    doubled         \* inputs a browser handed over twice

pageVars == <<shown, isMobile, readonly>>
boundVars == <<opened, listeners>>
barVars == <<back, barComposing>>
gateVars == <<composing, suppressing>>
imeVars == <<preedit, recent, echo, cut>>
vars == <<pageVars, boundVars, wsOpen, barVars, gateVars, imeVars,
          sent, inputs, owed, doubled>>

Piece == 0
Nothing == 0
Inputs == 1 .. MaxInputs

TypeOK ==
    /\ shown \in Tabs \cup {None} /\ isMobile \in BOOLEAN /\ readonly \subseteq Tabs
    /\ opened \subseteq Tabs /\ listeners \in [Tabs -> {0, 1}] /\ wsOpen \subseteq opened
    /\ composing \subseteq Tabs /\ suppressing \subseteq Tabs
    /\ back \in Inputs \cup {Nothing} /\ barComposing \in BOOLEAN
    /\ preedit \subseteq opened /\ recent \subseteq Tabs /\ cut \subseteq Tabs
    /\ echo \in [Tabs -> Inputs \cup {Nothing}]
    /\ sent \in [Tabs -> Seq(Inputs \cup {Piece})]
    /\ inputs \in 0 .. MaxInputs
    /\ owed \in [Tabs -> SUBSET Inputs] /\ doubled \subseteq Inputs

Init ==
    /\ shown = None /\ isMobile \in BOOLEAN /\ readonly = {}
    /\ opened = {} /\ listeners = [t \in Tabs |-> 0] /\ wsOpen = {}
    /\ composing = {} /\ suppressing = {}
    /\ back = Nothing /\ barComposing = FALSE
    /\ preedit = {} /\ recent = {} /\ cut = {}
    /\ echo = [t \in Tabs |-> Nothing]
    /\ sent = [t \in Tabs |-> <<>>] /\ inputs = 0
    /\ owed = [t \in Tabs |-> {}] /\ doubled = {}

-----------------------------------------------------------------------------
(* Writing to the WebSocket.  What is written while it is not open is gone. *)

(* sendBytes, sendToTerminal *)
Line(t, s) == IF t \in wsOpen THEN sent[t] \o s ELSE sent[t]
Write(t, s) == sent' = [sent EXCEPT ![t] = Line(t, s)]

(* Every listener that is bound writes. *)
Copies(t, x) == [i \in 1 .. listeners[t] |-> x]

(* MUTANT of Passes: onData without the first of its early returns. *)
PassesUnlessSuppressed(t) == t \notin suppressing

(* The early returns of the onData listener *)
Passes(t) == t \notin composing /\ t \notin suppressing

OnData(t, x) == IF Passes(t) THEN Write(t, Copies(t, x)) ELSE UNCHANGED sent

(* The user is done with one more input to t, which excuse may keep from t. *)
Enter(t, excuse) ==
    /\ inputs < MaxInputs /\ inputs' = inputs + 1
    /\ owed' = [owed EXCEPT ![t] =
                  IF t \in wsOpen /\ ~excuse THEN @ \cup {inputs + 1} ELSE @]

(* As the comment in bindInputListeners has it, input is dropped while the *)
(* user composes and just after; and what the browser does not report...   *)
Excuse(t) == t \in preedit \cup recent \cup cut

-----------------------------------------------------------------------------
(* The terminal's textarea *)

(* A key, or text pasted with the browser's own paste *)
Key(t) ==
    /\ t = shown /\ t \notin preedit
    /\ Enter(t, Excuse(t)) /\ OnData(t, inputs + 1)
    /\ UNCHANGED <<pageVars, boundVars, wsOpen, barVars, gateVars, imeVars, doubled>>

(* compositionstart *)
CompositionStart(t) ==
    /\ t = shown /\ t \notin readonly \cup preedit
    /\ preedit' = preedit \cup {t}
    /\ composing' = composing \cup {t}
    /\ UNCHANGED <<pageVars, boundVars, wsOpen, barVars, suppressing, recent, echo, cut,
                   sent, inputs, owed, doubled>>

(* An input event in mid-composition *)
Leak(t) ==
    /\ t \in preedit
    /\ OnData(t, Piece)
    /\ UNCHANGED <<pageVars, boundVars, wsOpen, barVars, gateVars, imeVars,
                   inputs, owed, doubled>>

(* MUTANT of CompositionEnded: leaves inst.composing set if e.data is empty. *)
EndedIfText(t, x) ==
    /\ composing' = IF x = Nothing THEN composing ELSE composing \ {t}
    /\ suppressing' = suppressing \cup {t}
    /\ IF x = Nothing THEN UNCHANGED sent ELSE Write(t, Copies(t, x))

(* MUTANT of CompositionEnded: no suppression afterwards. *)
EndedAtOnce(t, x) ==
    /\ composing' = composing \ {t}
    /\ UNCHANGED suppressing
    /\ IF x = Nothing THEN UNCHANGED sent ELSE Write(t, Copies(t, x))

(* The compositionend listener; x is e.data. *)
CompositionEnded(t, x) ==
    /\ composing' = composing \ {t}
    /\ suppressing' = suppressing \cup {t}
    /\ IF x = Nothing THEN UNCHANGED sent ELSE Write(t, Copies(t, x))

(* The browser reports the end, with the text or, cancelled, without. *)
EndOfComposition(t) ==
    /\ preedit' = preedit \ {t} /\ recent' = recent \cup {t} /\ cut' = cut \ {t}
    /\ \/ /\ Enter(t, FALSE)
          /\ CompositionEnded(t, inputs + 1)
          /\ \E x \in {Nothing, inputs + 1} : echo' = [echo EXCEPT ![t] = x]
       \/ /\ CompositionEnded(t, Nothing)
          /\ UNCHANGED <<echo, inputs, owed>>

CompositionEnd(t) ==
    /\ t \in preedit
    /\ EndOfComposition(t)
    /\ UNCHANGED <<pageVars, boundVars, wsOpen, barVars, doubled>>

(* Nor does a browser report every end. *)
EndUnreported(t) ==
    /\ preedit' = preedit \ {t} /\ cut' = cut \cup {t}
    /\ UNCHANGED <<gateVars, recent, echo, sent, inputs, owed>>

(* What becomes of a composition whose textarea leaves the page or is locked *)
Interrupt(t) ==
    IF t \in preedit THEN EndOfComposition(t) \/ EndUnreported(t)
    ELSE UNCHANGED <<gateVars, imeVars, sent, inputs, owed>>

(* Some browsers send the composed text as an input event too. *)
Echo(t) ==
    /\ echo[t] # Nothing
    /\ OnData(t, echo[t])
    /\ doubled' = IF t \in recent THEN doubled ELSE doubled \cup {echo[t]}
    /\ echo' = [echo EXCEPT ![t] = Nothing]
    /\ UNCHANGED <<pageVars, boundVars, wsOpen, barVars, gateVars, preedit, recent, cut,
                   inputs, owed>>

(* 50 ms pass. *)
Elapse(t) ==
    /\ t \in recent
    /\ recent' = recent \ {t} /\ suppressing' = suppressing \ {t}
    /\ UNCHANGED <<pageVars, boundVars, wsOpen, barVars, composing, preedit, echo, cut,
                   sent, inputs, owed, doubled>>

(* createShiftEnterHandler and the onBinary listener: straight to the socket *)
Direct(t) ==
    /\ t = shown
    /\ Enter(t, FALSE) /\ Write(t, <<inputs + 1>>)
    /\ UNCHANGED <<pageVars, boundVars, wsOpen, barVars, gateVars, imeVars, doubled>>

(* pasteToTerminal: an upload is done, whatever tab is shown by then. *)
Paste(t) ==
    /\ t \in opened
    /\ Enter(t, Excuse(t)) /\ OnData(t, inputs + 1)
    /\ UNCHANGED <<pageVars, boundVars, wsOpen, barVars, gateVars, imeVars, doubled>>

-----------------------------------------------------------------------------
(* The input bar *)

(* Typing into it: the IME begins a word or is done with one. *)
BarType ==
    /\ isMobile
    /\ barComposing' = ~barComposing
    /\ UNCHANGED <<pageVars, boundVars, wsOpen, back, gateVars, imeVars,
                   sent, inputs, owed, doubled>>

(* What the bar's textarea holds, for handleSend *)
BarText == (IF back = Nothing THEN <<>> ELSE <<back>>) \o <<inputs + 1>>

(* handleSend.  The new text, or none, and the CR are one input.  onKeyDown *)
(* does not ask of an Enter whether it ends a composition: then the word    *)
(* composed goes out, and the browser may put it back into the emptied      *)
(* textarea.                                                                *)
BarSend ==
    /\ isMobile /\ shown # None
    /\ Enter(shown, FALSE) /\ Write(shown, BarText)
    /\ barComposing' = FALSE
    /\ \E x \in IF barComposing THEN {Nothing, inputs + 1} ELSE {Nothing} :
          back' = x /\ doubled' = doubled \cup ({x} \ {Nothing})
    /\ UNCHANGED <<pageVars, boundVars, wsOpen, gateVars, imeVars>>

(* sendKey: what is in the textarea stays there. *)
ToolKey ==
    /\ isMobile /\ shown # None
    /\ Enter(shown, FALSE) /\ Write(shown, <<inputs + 1>>)
    /\ UNCHANGED <<pageVars, boundVars, wsOpen, barVars, gateVars, imeVars, doubled>>

-----------------------------------------------------------------------------
(* The page *)

(* MUTANT of Bind: on every mount. *)
BindAgain(t) ==
    /\ opened' = opened \cup {t}
    /\ listeners' = [listeners EXCEPT ![t] = IF @ = 2 THEN 2 ELSE @ + 1]

(* open, configureTextarea and bindInputListeners, or nothing but a place *)
(* on the page for the element there is                                   *)
Bind(t) ==
    IF t \in opened THEN UNCHANGED boundVars
    ELSE /\ opened' = opened \cup {t}
         /\ listeners' = [listeners EXCEPT ![t] = 1]

(* MUTANT of Lock: only ever locks. *)
LockOnly(t, mobile) == IF mobile /\ t # None THEN readonly \cup {t} ELSE readonly

(* The effect of TerminalView on [isMobile, sessionId] *)
Lock(t, mobile) ==
    IF t = None THEN readonly
    ELSE IF mobile THEN readonly \cup {t} ELSE readonly \ {t}

(* Another tab becomes the active one: by a click, or because the answer to *)
(* a request for a new tab or another workspace's tabs comes in.            *)
Show(t) ==
    /\ t # shown /\ shown' = t
    /\ Bind(t)
    /\ Interrupt(shown)
    /\ readonly' = Lock(t, isMobile)
    /\ UNCHANGED <<isMobile, wsOpen, barVars, doubled>>

(* No tab is left to show. *)
ShowNone ==
    /\ shown # None /\ shown' = None
    /\ Interrupt(shown)
    /\ UNCHANGED <<isMobile, readonly, boundVars, wsOpen, barVars, doubled>>

(* The window crosses MOBILE_QUERY.  The bar is unmounted with its text. *)
ChangeScreen ==
    /\ isMobile' = ~isMobile
    /\ readonly' = Lock(shown, ~isMobile)
    /\ IF isMobile THEN UNCHANGED <<gateVars, imeVars, sent, inputs, owed>>
       ELSE Interrupt(shown)
    /\ back' = Nothing /\ barComposing' = FALSE
    /\ UNCHANGED <<shown, boundVars, wsOpen, doubled>>

(* inst.ws: a connection opens or is gone (TerminalSocket has the details). *)
Reconnect(t) ==
    /\ t \in opened
    /\ wsOpen' = IF t \in wsOpen THEN wsOpen \ {t} ELSE wsOpen \cup {t}
    /\ UNCHANGED <<pageVars, boundVars, barVars, gateVars, imeVars,
                   sent, inputs, owed, doubled>>

Next ==
    \/ \E t \in Tabs :
          \/ Key(t) \/ CompositionStart(t) \/ Leak(t) \/ CompositionEnd(t)
          \/ Echo(t) \/ Elapse(t) \/ Direct(t) \/ Paste(t)
          \/ Show(t) \/ Reconnect(t)
    \/ BarType \/ BarSend \/ ToolKey \/ ShowNone \/ ChangeScreen

Spec == Init /\ [][Next]_vars

-----------------------------------------------------------------------------
(* Properties *)

(* bindInputListeners, points 1 to 3 of its comment: no intermediate form   *)
(* of a composed text is ever written, every input is written once, and in  *)
(* the order the user was done with them, whatever the tabs, the screen and *)
(* the connection do meanwhile.  Only a text the browser hands over again,  *)
(* when the 50 ms are over or in the bar's textarea, may be repeated.       *)
SentAsEntered ==
    \A t \in Tabs : \A i \in 1 .. Len(sent[t]) :
        /\ sent[t][i] # Piece
        /\ \A j \in 1 .. i - 1 : sent[t][j] < sent[t][i] \/ sent[t][i] \in doubled

(* The gate in onData drops nothing but what the user enters while a text  *)
(* is being composed, within the 50 ms, or after a composition the browser *)
(* did not report the end of: inst.composing never outlives the rest.      *)
LossIsExcused ==
    \A t \in Tabs : \A n \in owed[t] : \E i \in 1 .. Len(sent[t]) : sent[t][i] = n

(* On a small screen, and only there, the textarea of the terminal shown is *)
(* locked, though a terminal keeps its lock while it is not shown.          *)
LockFollowsScreen == shown # None => (shown \in readonly <=> isMobile)
===============================================================================
