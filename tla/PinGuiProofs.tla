---------------------------- MODULE PinGuiProofs ----------------------------
(***************************************************************************)
(* Machine-checked proofs about PinGui, for any number of handlers, pins,  *)
(* waiting events and transforms, and any set of windows whose size is     *)
(* reported.                                                               *)
(***************************************************************************)
EXTENDS PinGui, DataTheorems, FiniteSetTheorems, TLAPS

(* The inductive invariant *)

\* The events that ask for a window.
Asks == [kind: {"OpenPin"}, pin: PinId]

\* The pins whose event is still on its way.
Pending == {p \in PinId : [kind |-> "OpenPin", pin |-> p] \in Coming}

\* A pin's window is asked for once.
AskedOnce ==
    /\ \A i, j \in DOMAIN events :
           events[i] \in Asks /\ events[i] = events[j] => i = j
    /\ \A g, h \in Handlers : owed[g] \in Asks /\ owed[g] = owed[h] => g = h
    /\ \A i \in DOMAIN events, h \in Handlers :
           events[i] \in Asks => owed[h] # events[i]

\* It has none before that.
NoWindowYet ==
    \A p \in Pending : p \notin Awaited /\ p \notin DOMAIN pinToWindow

\* There is a window id left for every pin that may still ask for one.
WindowsCounted == nextWindow + Cardinality(Pending) <= nextId

\* The pins the application has to do with.
Tracked == DOMAIN pinToWindow \cup DOMAIN handles \cup Awaited

\* Ids come from the counters.
Minted ==
    /\ \A p \in DOMAIN pins \cup Tracked : p < nextId
    /\ \A e \in Coming : e.kind # "CloseAllPins" => e.pin < nextId
    /\ \A w \in DOMAIN opening \cup DOMAIN screen \cup DOMAIN windowToPin :
           w < nextWindow
    /\ \A m \in messages : m.window < nextWindow

\* A window that was asked for is nowhere else, nor is its pin.
OpeningAlone ==
    \A w \in DOMAIN opening :
        /\ w \notin DOMAIN screen
        /\ w \notin DOMAIN windowToPin
        /\ opening[w].pin \notin DOMAIN pinToWindow
        /\ \A v \in DOMAIN opening : opening[v].pin = opening[w].pin => v = w
        /\ \A m \in messages :
               /\ m.window # w
               /\ m.kind = "WindowOpened" => m.pin # opening[w].pin

\* A window that came up is announced once, to an application that does not
\* know it; it is on screen until the announcement of its end, unless that
\* one overtook the other.
OpenedOnce ==
    \A m \in messages : m.kind = "WindowOpened" =>
        /\ m.window \notin DOMAIN windowToPin
        /\ m.pin \notin DOMAIN pinToWindow
        /\ \A n \in messages :
               n.kind = "WindowOpened"
               /\ (n.pin = m.pin \/ n.window = m.window) => n = m
        /\ \/ m.window \in DOMAIN screen
           \/ [kind |-> "WindowClosed", window |-> m.window] \in messages
           \/ m.pin \in raced

\* A window that is said to be closed is.
ClosedIsClosed ==
    \A m \in messages :
        m.kind = "WindowClosed" => m.window \notin DOMAIN screen

\* Pixels that are kept for a live pin are the registry's.
HandlesCurrent ==
    \A p \in DOMAIN pins : p \in DOMAIN handles => handles[p] = pins[p]

\* A pin is out of the registry when its teardown is asked for.
TeardownsAreDue ==
    \A e \in Coming : e.kind = "ClosePin" => e.pin \notin DOMAIN pins

\* ClosedPinsAreForgotten, also for the pins whose window is coming up.
TrackedAreForgotten ==
    \A p \in Tracked :
        \/ p \in DOMAIN pins
        \/ p \in missed
        \/ \E e \in Coming :
               \/ e.kind = "ClosePin" /\ e.pin = p
               \/ e.kind = "CloseAllPins"

IInv ==
    /\ TypeOK
    /\ AskedOnce
    /\ NoWindowYet
    /\ WindowsCounted
    /\ Minted
    /\ OpeningAlone
    /\ OpenedOnce
    /\ ClosedIsClosed
    /\ HandlesCurrent
    /\ TeardownsAreDue
    /\ TrackedAreForgotten
    /\ MapsAgree
    /\ WindowsShowTheRegistry
    /\ NoForgottenWindow
    /\ LivePinsHaveAWindow

-----------------------------------------------------------------------------
(* Lemmas about events, messages and the queue *)

\* What the fields of an event are.
LEMMA EventFacts ==
    ASSUME NEW e \in AppEvent
    PROVE  /\ e.kind \in {"OpenPin", "ClosePin", "CloseAllPins"} \cup Transform
           /\ e.kind # "CloseAllPins" => e.pin \in PinId
           /\ e.kind = "OpenPin" <=> e \in Asks
           /\ e.kind = "OpenPin" => e = [kind |-> "OpenPin", pin |-> e.pin]
BY DEF AppEvent, Asks, Transform

\* What the fields of a window message are.
LEMMA MessageFacts ==
    ASSUME NEW m \in WindowMessage
    PROVE  /\ m.kind \in {"WindowOpened", "WindowClosed", "Resized"}
           /\ m.window \in WindowId
           /\ m.kind = "WindowOpened" => m.pin \in PinId
           /\ m.kind = "WindowClosed" =>
                  m = [kind |-> "WindowClosed", window |-> m.window]
BY DEF WindowMessage

\* What the steps use of the type invariant.
LEMMA Types ==
    ASSUME IInv
    PROVE  /\ nextId \in 1 .. MaxPins + 1 /\ nextId \in Nat
           /\ nextWindow \in 1 .. MaxPins + 1 /\ nextWindow \in Nat
           /\ PinId \subseteq Nat /\ WindowId \subseteq Nat
           /\ MaxPins \in Nat
           /\ events \in Seq(AppEvent)
           /\ \A i \in DOMAIN events : events[i] \in AppEvent
           /\ owed \in [Handlers -> AppEvent \cup {None}]
           /\ messages \subseteq WindowMessage
<1>1. \A i \in DOMAIN events : events[i] \in AppEvent
  BY DEF IInv, TypeOK
<1> QED
  BY <1>1, GuiAssumption DEF IInv, TypeOK, PinId, WindowId

\* The pins that wait for their event are finitely many.
LEMMA PendingFinite ==
    /\ Pending \subseteq PinId
    /\ IsFiniteSet(Pending)
    /\ Cardinality(Pending) \in Nat
<1>1. IsFiniteSet(PinId)
  BY FS_Interval, GuiAssumption DEF PinId
<1>2. Pending \subseteq PinId
  BY DEF Pending
<1> QED
  BY <1>1, <1>2, FS_Subset, FS_CardinalityType

\* Everything that is coming is an event.
LEMMA ComingType ==
    ASSUME IInv
    PROVE  Coming \subseteq AppEvent
BY Types DEF Coming

\* Pins that are tracked are pins.
LEMMA TrackedType ==
    ASSUME IInv
    PROVE  Awaited \subseteq PinId /\ Tracked \subseteq PinId
<1>1. \A w \in DOMAIN opening : opening[w].pin \in PinId
  BY DEF IInv, TypeOK
<1>2. \A m \in messages : m.kind = "WindowOpened" => m.pin \in PinId
  BY Types, MessageFacts
<1>3. Awaited \subseteq PinId
  BY <1>1, <1>2 DEF Awaited
<1> QED
  BY <1>3 DEF Tracked, IInv, TypeOK

\* A handler that accepts a request adds its event to what is coming.
LEMMA ComingAccept ==
    ASSUME IInv, NEW h \in Handlers, NEW e \in AppEvent, Accept(h, e)
    PROVE  Coming' = Coming \cup {e}
<1>1. e # None
  BY NoneIsNoEvent
<1>2. /\ owed'[h] = e /\ owed[h] = None
      /\ \A g \in Handlers \ {h} : owed'[g] = owed[g]
      /\ events' = events
  BY Types DEF Accept
<1> QED
  BY <1>1, <1>2 DEF Coming

\* A handler's step to notify_gui changes nothing of what is coming.
LEMMA ComingNotify ==
    ASSUME IInv, NEW h \in Handlers, NotifyGui(h)
    PROVE  Coming' = Coming
<1>1. /\ owed[h] \in AppEvent /\ owed'[h] = None
      /\ \A g \in Handlers \ {h} : owed'[g] = owed[g]
  BY Types DEF NotifyGui
<1>2. /\ DOMAIN events' = 1 .. Len(events) + 1
      /\ DOMAIN events = 1 .. Len(events)
      /\ events'[Len(events) + 1] = owed[h]
      /\ \A i \in DOMAIN events : events'[i] = events[i]
      /\ Len(events) \in Nat
  BY <1>1, Types DEF NotifyGui
<1>3. {events'[i] : i \in DOMAIN events'}
          = {events[i] : i \in DOMAIN events} \cup {owed[h]}
  BY <1>2
<1>4. owed[h] # None
  BY DEF NotifyGui
<1>5. {owed[g] : g \in Handlers} \ {None}
          = ({owed'[g] : g \in Handlers} \ {None}) \cup {owed[h]}
  BY <1>1, <1>4
<1> QED
  BY <1>3, <1>5 DEF Coming

\* The event that is handled was coming; the others still are.
LEMMA ComingTaken ==
    ASSUME IInv, events # << >>, events' = Tail(events), owed' = owed
    PROVE  /\ Head(events) \in AppEvent
           /\ Coming = Coming' \cup {Head(events)}
           /\ AskedOnce'
           /\ Head(events) \in Asks => Head(events) \notin Coming'
<1>1. /\ Head(events) = events[1] /\ 1 \in DOMAIN events
      /\ DOMAIN events = 1 .. Len(events) /\ Len(events) \in Nat
      /\ DOMAIN events' = 1 .. Len(events) - 1
      /\ \A i \in DOMAIN events' : events'[i] = events[i + 1]
      /\ Head(events) \in AppEvent
  BY Types
<1>2. {events[i] : i \in DOMAIN events}
          = {events'[i] : i \in DOMAIN events'} \cup {events[1]}
  <2>1. \A i \in DOMAIN events : i = 1 \/ i - 1 \in DOMAIN events'
    BY <1>1
  <2>2. \A i \in DOMAIN events \ {1} : events[i] = events'[i - 1]
    BY <1>1, <2>1
  <2>3. \A i \in DOMAIN events' : i + 1 \in DOMAIN events
    BY <1>1
  <2> QED
    BY <1>1, <2>1, <2>2, <2>3
<1>3. Coming = Coming' \cup {Head(events)}
  BY <1>1, <1>2, NoneIsNoEvent DEF Coming
<1>4. AskedOnce'
  BY <1>1 DEF IInv, AskedOnce
<1>5. ASSUME Head(events) \in Asks PROVE Head(events) \notin Coming'
  <2>1. \A i \in DOMAIN events' : events'[i] # events[1]
    BY <1>1, <1>5 DEF IInv, AskedOnce
  <2>2. \A h \in Handlers : owed'[h] # events[1]
    BY <1>1, <1>5 DEF IInv, AskedOnce
  <2> QED
    BY <1>1, <2>1, <2>2 DEF Coming
<1> QED
  BY <1>1, <1>3, <1>4, <1>5

\* An event that is not coming yet, or asks for no window, is asked for once.
LEMMA AskedOnceAccept ==
    ASSUME IInv, NEW h \in Handlers, NEW e \in AppEvent, Accept(h, e),
           e \in Asks => e \notin Coming
    PROVE  AskedOnce'
<1>1. /\ owed'[h] = e /\ owed[h] = None /\ e # None
      /\ \A g \in Handlers \ {h} : owed'[g] = owed[g]
      /\ events' = events
  BY Types, NoneIsNoEvent DEF Accept
<1>2. ASSUME e \in Asks
      PROVE  /\ \A i \in DOMAIN events : events[i] # e
             /\ \A g \in Handlers : owed[g] # e
  BY <1>1, <1>2 DEF Coming
<1> QED
  BY <1>1, <1>2 DEF IInv, AskedOnce

-----------------------------------------------------------------------------
(* Each step preserves it. *)

(* The application starts without pins, windows and events. *)
LEMMA InitIInv == Init => IInv
<1> SUFFICES ASSUME Init PROVE IInv
  OBVIOUS
<1> USE GuiAssumption
<1>1. /\ DOMAIN pins = {} /\ DOMAIN pinToWindow = {} /\ DOMAIN windowToPin = {}
      /\ DOMAIN windows = {} /\ DOMAIN handles = {} /\ DOMAIN opening = {}
      /\ DOMAIN screen = {} /\ DOMAIN events = {} /\ messages = {}
      /\ \A h \in Handlers : owed[h] = None
  BY EmptyMapDomain DEF Init
<1>2. TypeOK
  BY <1>1 DEF Init, TypeOK
<1>3. Coming = {} /\ Awaited = {}
  BY <1>1 DEF Coming, Awaited
<1>4. Pending = {} /\ Cardinality(Pending) = 0
  BY <1>3, FS_EmptySet DEF Pending
<1>5. AskedOnce
  <2>1. None \notin Asks
    BY NoneIsNoEvent DEF Asks, AppEvent
  <2> QED
    BY <1>1, <2>1 DEF AskedOnce
<1>6. NoWindowYet /\ WindowsCounted
  BY <1>4 DEF Init, NoWindowYet, WindowsCounted
<1>7. Minted /\ TrackedAreForgotten
  BY <1>1, <1>3 DEF Minted, Tracked, TrackedAreForgotten
<1>8. OpeningAlone /\ OpenedOnce /\ ClosedIsClosed
  BY <1>1 DEF OpeningAlone, OpenedOnce, ClosedIsClosed
<1>9. HandlesCurrent /\ TeardownsAreDue
  BY <1>1, <1>3 DEF HandlesCurrent, TeardownsAreDue
<1>10. /\ MapsAgree /\ WindowsShowTheRegistry /\ NoForgottenWindow
       /\ LivePinsHaveAWindow
  BY <1>1
  DEF MapsAgree, WindowsShowTheRegistry, NoForgottenWindow, LivePinsHaveAWindow
<1> QED
  BY <1>2, <1>5, <1>6, <1>7, <1>8, <1>9, <1>10 DEF IInv

(* A fresh pin is known to nobody, and its OpenPin is owed by one handler. *)
LEMMA RegisterPinStep ==
    ASSUME IInv, NEW h \in Handlers, RegisterPin(h)
    PROVE  IInv'
<1> USE GuiAssumption
<1> DEFINE e == [kind |-> "OpenPin", pin |-> nextId]
           image == [shape |-> "captured", flipped |-> FALSE]
<1>1. /\ nextId \in PinId /\ nextId' = nextId + 1
      /\ nextId' \in 1 .. MaxPins + 1
      /\ pins' = Put(pins, nextId, image)
      /\ Accept(h, e)
  BY Types DEF RegisterPin, PinId
<1>2. /\ nextId \notin DOMAIN pins /\ nextId \notin Tracked
  BY Types DEF IInv, Minted
<1>3. /\ DOMAIN pins' = DOMAIN pins \cup {nextId}
      /\ \A p \in DOMAIN pins : pins'[p] = pins[p]
  BY <1>1, <1>2 DEF Put
<1>4. /\ e \in AppEvent /\ e \in Asks
      /\ e.kind = "OpenPin" /\ e.pin = nextId
  BY <1>1 DEF AppEvent, Asks
<1>5. e \notin Coming
  BY <1>4, Types DEF IInv, Minted
<1> HIDE DEF e
<1>6. Coming' = Coming \cup {e}
  BY <1>1, <1>4, ComingAccept
<1>7. AskedOnce'
  BY <1>1, <1>4, <1>5, AskedOnceAccept
<1>8. UNCHANGED <<events, appVars, runtimeVars, historyVars>>
  BY <1>1 DEF Accept
<1>9. UNCHANGED <<pinToWindow, windowToPin, windows, handles, nextWindow,
                  opening, screen, messages, missed, swept, raced>>
  BY <1>8 DEF appVars, runtimeVars, historyVars
<1>10. Awaited' = Awaited /\ Tracked' = Tracked
  BY <1>9 DEF Awaited, Tracked
<1>11. TypeOK'
  <2>1. /\ DOMAIN pins' \subseteq PinId
        /\ \A p \in DOMAIN pins' : pins'[p] \in Image
    <3>1. image \in Image
      BY DEF Image
    <3> QED
      BY <1>1, <3>1 DEF Put, IInv, TypeOK
  <2>2. owed' \in [Handlers -> AppEvent \cup {None}]
    BY <1>1, <1>4, Types DEF Accept
  <2> QED
    BY <1>1, <1>8, <1>9, <2>1, <2>2 DEF IInv, TypeOK
<1>12. Pending' = Pending \cup {nextId} /\ nextId \notin Pending
  BY <1>1, <1>4, <1>5, <1>6 DEF Pending, e
<1>13. NoWindowYet'
  BY <1>2, <1>9, <1>10, <1>12 DEF IInv, NoWindowYet, Tracked
<1>14. WindowsCounted'
  <2>1. Cardinality(Pending') = Cardinality(Pending) + 1
    BY <1>12, PendingFinite, FS_AddElement
  <2> QED
    BY <1>1, <1>9, <2>1, PendingFinite, Types DEF IInv, WindowsCounted
<1>15. Minted'
  <2>1. \A p \in DOMAIN pins \cup Tracked : p \in Nat /\ p < nextId
    BY Types, TrackedType DEF IInv, Minted, TypeOK
  <2>2. \A p \in DOMAIN pins' \cup Tracked' : p < nextId'
    BY <1>1, <1>3, <1>10, <2>1, Types
  <2>3. \A x \in Coming' : x.kind # "CloseAllPins" => x.pin < nextId'
    BY <1>1, <1>4, <1>6, Types, ComingType, EventFacts DEF IInv, Minted
  <2> QED
    BY <1>9, <2>2, <2>3 DEF IInv, Minted
<1>16. OpeningAlone' /\ OpenedOnce' /\ ClosedIsClosed'
  BY <1>9 DEF IInv, OpeningAlone, OpenedOnce, ClosedIsClosed
<1>17. HandlesCurrent'
  BY <1>2, <1>3, <1>9 DEF IInv, HandlesCurrent, Tracked
<1>18. TeardownsAreDue'
  BY <1>3, <1>4, <1>6, Types DEF IInv, TeardownsAreDue, Minted
<1>19. TrackedAreForgotten'
  BY <1>3, <1>6, <1>9, <1>10 DEF IInv, TrackedAreForgotten
<1>20. MapsAgree' /\ NoForgottenWindow'
  BY <1>9 DEF IInv, MapsAgree, NoForgottenWindow
<1>21. WindowsShowTheRegistry'
  BY <1>2, <1>3, <1>9 DEF IInv, WindowsShowTheRegistry, MapsAgree, Tracked
<1>22. LivePinsHaveAWindow'
  BY <1>3, <1>4, <1>6, <1>9, <1>10 DEF IInv, LivePinsHaveAWindow
<1> QED
  BY <1>7, <1>11, <1>13, <1>14, <1>15, <1>16, <1>17, <1>18, <1>19, <1>20,
     <1>21, <1>22
  DEF IInv

\* What the requests about pins that exist have in common: the registry gets
\* smaller, and the event says by which pins.
LEMMA RequestStep ==
    ASSUME IInv, NEW h \in Handlers, NEW e \in AppEvent, Accept(h, e),
           e.kind # "OpenPin",
           e.kind # "CloseAllPins" => e.pin < nextId,
           e.kind = "ClosePin" => e.pin \notin DOMAIN pins',
           DOMAIN pins' \subseteq DOMAIN pins,
           \A p \in DOMAIN pins' : pins'[p] = pins[p],
           \A p \in DOMAIN pins \ DOMAIN pins' :
               (e.kind = "ClosePin" /\ e.pin = p) \/ e.kind = "CloseAllPins",
           UNCHANGED nextId
    PROVE  IInv'
<1>1. Coming' = Coming \cup {e}
  BY ComingAccept
<1>2. e \notin Asks
  BY EventFacts
<1>3. AskedOnce'
  BY <1>2, AskedOnceAccept
<1>4. UNCHANGED <<events, pinToWindow, windowToPin, windows, handles,
                  nextWindow, opening, screen, messages, missed, swept, raced>>
  BY DEF Accept, appVars, runtimeVars, historyVars
<1>5. Awaited' = Awaited /\ Tracked' = Tracked
  BY <1>4 DEF Awaited, Tracked
<1>6. Pending' = Pending
  BY <1>1, <1>2 DEF Pending, Asks
<1>7. TypeOK'
  <2>1. owed' \in [Handlers -> AppEvent \cup {None}]
    BY Types DEF Accept
  <2> QED
    BY <1>4, <2>1 DEF IInv, TypeOK
<1>8. NoWindowYet' /\ WindowsCounted'
  BY <1>4, <1>5, <1>6 DEF IInv, NoWindowYet, WindowsCounted
<1>9. Minted'
  BY <1>1, <1>4, <1>5 DEF IInv, Minted
<1>10. OpeningAlone' /\ OpenedOnce' /\ ClosedIsClosed'
  BY <1>4 DEF IInv, OpeningAlone, OpenedOnce, ClosedIsClosed
<1>11. HandlesCurrent' /\ TeardownsAreDue'
  BY <1>1, <1>4 DEF IInv, HandlesCurrent, TeardownsAreDue
<1>12. TrackedAreForgotten'
  BY <1>1, <1>4, <1>5 DEF IInv, TrackedAreForgotten
<1>13. MapsAgree' /\ NoForgottenWindow'
  BY <1>4 DEF IInv, MapsAgree, NoForgottenWindow
<1>14. WindowsShowTheRegistry'
  BY <1>4 DEF IInv, WindowsShowTheRegistry
<1>15. LivePinsHaveAWindow'
  BY <1>1, <1>4, <1>5 DEF IInv, LivePinsHaveAWindow
<1> QED
  BY <1>3, <1>7, <1>8, <1>9, <1>10, <1>11, <1>12, <1>13, <1>14, <1>15 DEF IInv

(* A close takes the pin out and owes the application its teardown. *)
LEMMA CloseStep ==
    ASSUME IInv, NEW h \in Handlers, NEW p \in PinId, Close(h, p)
    PROVE  IInv'
<1> DEFINE e == [kind |-> "ClosePin", pin |-> p]
<1>1. /\ e \in AppEvent /\ e.kind = "ClosePin" /\ e.pin = p
      /\ Accept(h, e) /\ UNCHANGED nextId
  BY DEF Close, AppEvent
<1>2. p < nextId
  BY DEF Close, IInv, Minted
<1>3. /\ DOMAIN pins' = DOMAIN pins \ {p}
      /\ \A q \in DOMAIN pins' : pins'[q] = pins[q]
  BY DEF Close, Without, Restrict
<1> HIDE DEF e
<1> QED
  BY <1>1, <1>2, <1>3, RequestStep

(* A close of all pins owes the application one event for all of them. *)
LEMMA CloseAllStep ==
    ASSUME IInv, NEW h \in Handlers, CloseAll(h)
    PROVE  IInv'
<1> DEFINE e == [kind |-> "CloseAllPins", pin |-> None]
<1>1. /\ e \in AppEvent /\ e.kind = "CloseAllPins"
      /\ Accept(h, e) /\ UNCHANGED nextId
  BY DEF CloseAll, AppEvent
<1>2. DOMAIN pins' = {}
  BY EmptyMapDomain DEF CloseAll
<1> HIDE DEF e
<1> QED
  BY <1>1, <1>2, RequestStep

(* A request for a pin action is forwarded, and changes no pin. *)
LEMMA PinActionStep ==
    ASSUME IInv, NEW h \in Handlers, NEW p \in PinId, NEW t \in Transforms,
           PinAction(h, p, t)
    PROVE  IInv'
<1> DEFINE e == [kind |-> t, pin |-> p]
<1>1. t \in Transform
  BY GuiAssumption DEF Transform
<1>2. /\ e \in AppEvent /\ e.kind \in Transform /\ e.pin = p
      /\ Accept(h, e) /\ UNCHANGED <<nextId, pins>>
  BY <1>1 DEF PinAction, AppEvent
<1>3. p < nextId
  BY DEF PinAction, IInv, Minted
<1> HIDE DEF e
<1> QED
  BY <1>2, <1>3, RequestStep DEF Transform

(* The event a handler owes moves to the queue: what was owed before is
   queued now. *)
LEMMA NotifyGuiStep ==
    ASSUME IInv, NEW h \in Handlers, NotifyGui(h)
    PROVE  IInv'
<1>1. Coming' = Coming
  BY ComingNotify
<1>2. UNCHANGED <<nextId, pins, pinToWindow, windowToPin, windows, handles,
                  nextWindow, opening, screen, messages, missed, swept, raced>>
  BY DEF NotifyGui, appVars, runtimeVars, historyVars
<1>3. /\ Awaited' = Awaited /\ Tracked' = Tracked /\ Pending' = Pending
  BY <1>1, <1>2 DEF Awaited, Tracked, Pending
<1>4. /\ owed[h] \in AppEvent /\ owed' = [owed EXCEPT ![h] = None]
      /\ events' = Append(events, owed[h])
  BY Types DEF NotifyGui
<1>5. TypeOK'
  <2>1. events' \in Seq(AppEvent) /\ owed' \in [Handlers -> AppEvent \cup {None}]
    BY <1>4, Types
  <2> QED
    BY <1>2, <2>1 DEF IInv, TypeOK
<1>6. AskedOnce'
  <2>1. /\ DOMAIN events' = 1 .. Len(events) + 1
        /\ DOMAIN events = 1 .. Len(events) /\ Len(events) \in Nat
        /\ events'[Len(events) + 1] = owed[h]
        /\ \A i \in DOMAIN events : events'[i] = events[i]
    BY <1>4, Types
  <2>2. /\ owed'[h] = None /\ None \notin Asks
        /\ \A g \in Handlers \ {h} : owed'[g] = owed[g]
    BY <1>4, Types, NoneIsNoEvent DEF AppEvent, Asks
  <2>3. \A i, j \in DOMAIN events' :
            events'[i] \in Asks /\ events'[i] = events'[j] => i = j
    <3> SUFFICES ASSUME NEW i \in DOMAIN events', NEW j \in DOMAIN events',
                        events'[i] \in Asks, events'[i] = events'[j]
                 PROVE  i = j
      OBVIOUS
    <3>1. \A k \in DOMAIN events' : k \in DOMAIN events \/ k = Len(events) + 1
      BY <2>1
    <3> QED
      BY <2>1, <3>1 DEF IInv, AskedOnce
  <2>4. \A f, g \in Handlers : owed'[f] \in Asks /\ owed'[f] = owed'[g] => f = g
    BY <2>2 DEF IInv, AskedOnce
  <2>5. \A i \in DOMAIN events', g \in Handlers :
            events'[i] \in Asks => owed'[g] # events'[i]
    <3>1. \A k \in DOMAIN events' : k \in DOMAIN events \/ k = Len(events) + 1
      BY <2>1
    <3> QED
      BY <2>1, <2>2, <3>1 DEF IInv, AskedOnce
  <2> QED
    BY <2>3, <2>4, <2>5 DEF AskedOnce
<1>7. NoWindowYet' /\ WindowsCounted' /\ Minted'
  BY <1>1, <1>2, <1>3 DEF IInv, NoWindowYet, WindowsCounted, Minted
<1>8. OpeningAlone' /\ OpenedOnce' /\ ClosedIsClosed'
  BY <1>2 DEF IInv, OpeningAlone, OpenedOnce, ClosedIsClosed
<1>9. HandlesCurrent' /\ TeardownsAreDue' /\ TrackedAreForgotten'
  BY <1>1, <1>2, <1>3
  DEF IInv, HandlesCurrent, TeardownsAreDue, TrackedAreForgotten
<1>10. MapsAgree' /\ NoForgottenWindow' /\ WindowsShowTheRegistry'
  BY <1>2 DEF IInv, MapsAgree, NoForgottenWindow, WindowsShowTheRegistry
<1>11. LivePinsHaveAWindow'
  BY <1>1, <1>2, <1>3 DEF IInv, LivePinsHaveAWindow
<1> QED
  BY <1>5, <1>6, <1>7, <1>8, <1>9, <1>10, <1>11 DEF IInv

\* What handling an event that asks for no window does to what is coming.
LEMMA EventTaken ==
    ASSUME IInv, NEW kind, Event(kind), UNCHANGED handlerVars,
           kind # "OpenPin"
    PROVE  /\ Head(events) \in AppEvent /\ Head(events).kind = kind
           /\ Coming = Coming' \cup {Head(events)}
           /\ AskedOnce'
           /\ Pending' = Pending
           /\ events' \in Seq(AppEvent)
           /\ UNCHANGED <<nextId, pins, owed>>
<1>1. /\ events # << >> /\ events' = Tail(events)
      /\ Head(events).kind = kind
      /\ UNCHANGED <<nextId, pins, owed>>
  BY DEF Event, handlerVars
<1>2. /\ Head(events) \in AppEvent
      /\ Coming = Coming' \cup {Head(events)}
      /\ AskedOnce'
  BY <1>1, ComingTaken
<1>3. \A p \in PinId : [kind |-> "OpenPin", pin |-> p] # Head(events)
  BY <1>1
<1>4. Pending' = Pending
  BY <1>2, <1>3 DEF Pending
<1> QED
  BY <1>1, <1>2, <1>4, Types

\* What closing windows does to the screen and to the messages.
LEMMA CloseWindowsFacts ==
    ASSUME IInv, NEW W, CloseWindows(W)
    PROVE  /\ DOMAIN screen' = DOMAIN screen \ W
           /\ \A w \in DOMAIN screen' : screen'[w] = screen[w]
           /\ messages \subseteq messages'
           /\ messages' \subseteq WindowMessage
           /\ \A m \in messages' \ messages :
                  m.kind = "WindowClosed" /\ m.window \in W \cap DOMAIN screen
           /\ \A w \in W \cap DOMAIN screen :
                  [kind |-> "WindowClosed", window |-> w] \in messages'
           /\ UNCHANGED opening => Awaited' = Awaited
<1>1. /\ DOMAIN screen' = DOMAIN screen \ W
      /\ \A w \in DOMAIN screen' : screen'[w] = screen[w]
  BY DEF CloseWindows, Without, Restrict
<1>2. /\ messages \subseteq messages'
      /\ \A m \in messages' \ messages :
             m.kind = "WindowClosed" /\ m.window \in W \cap DOMAIN screen
      /\ \A w \in W \cap DOMAIN screen :
             [kind |-> "WindowClosed", window |-> w] \in messages'
  BY DEF CloseWindows
<1>3. messages' \subseteq WindowMessage
  BY Types DEF CloseWindows, WindowMessage, IInv, TypeOK
<1>4. {n \in messages' : n.kind = "WindowOpened"}
          = {n \in messages : n.kind = "WindowOpened"}
  BY <1>2
<1>5. UNCHANGED opening => Awaited' = Awaited
  BY <1>4 DEF Awaited
<1> QED
  BY <1>1, <1>2, <1>3, <1>5

(* OpenPin asks for a window once, and for pins that are still registered. *)
LEMMA OpenPinStep ==
    ASSUME IInv, OpenPin
    PROVE  IInv'
<1> USE GuiAssumption
<1> DEFINE e == Head(events)
           p == e.pin
           asked == [pin |-> p, shape |-> pins[p].shape]
<1>1. /\ events # << >> /\ events' = Tail(events) /\ e.kind = "OpenPin"
      /\ UNCHANGED <<nextId, pins, owed, pinToWindow, windowToPin, windows,
                     handles, screen, messages, missed, swept, raced>>
  BY DEF OpenPin, Event, handlerVars, appVars, historyVars
<1>2. /\ e \in AppEvent /\ e \in Asks
      /\ e = [kind |-> "OpenPin", pin |-> p] /\ p \in PinId
      /\ Coming = Coming' \cup {e} /\ e \notin Coming'
      /\ AskedOnce'
  BY <1>1, ComingTaken, EventFacts
<1>3. /\ Pending = Pending' \cup {p} /\ p \notin Pending'
  BY <1>2 DEF Pending
<1>4. /\ p \notin Awaited /\ p \notin DOMAIN pinToWindow
  BY <1>3 DEF IInv, NoWindowYet
<1>5. /\ Cardinality(Pending) = Cardinality(Pending') + 1
      /\ Cardinality(Pending') \in Nat
  <2>1. IsFiniteSet(Pending')
    BY <1>3, PendingFinite, FS_Subset
  <2> QED
    BY <1>3, <2>1, FS_AddElement, FS_CardinalityType
<1>6. events' \in Seq(AppEvent)
  BY <1>1, Types
<1>7. CASE p \notin DOMAIN pins
  <2>1. UNCHANGED <<opening, nextWindow>>
    BY <1>7 DEF OpenPin
  <2>2. Awaited' = Awaited /\ Tracked' = Tracked
    BY <1>1, <2>1 DEF Awaited, Tracked
  <2>3. TypeOK'
    BY <1>1, <1>6, <2>1 DEF IInv, TypeOK
  <2>4. NoWindowYet' /\ WindowsCounted'
    BY <1>1, <1>3, <1>5, <2>1, <2>2, Types DEF IInv, NoWindowYet, WindowsCounted
  <2>5. Minted' /\ OpeningAlone' /\ OpenedOnce' /\ ClosedIsClosed'
    BY <1>1, <1>2, <2>1, <2>2
    DEF IInv, Minted, OpeningAlone, OpenedOnce, ClosedIsClosed
  <2>6. HandlesCurrent' /\ TeardownsAreDue' /\ TrackedAreForgotten'
    BY <1>1, <1>2, <2>2
    DEF IInv, HandlesCurrent, TeardownsAreDue, TrackedAreForgotten
  <2>7. MapsAgree' /\ NoForgottenWindow' /\ WindowsShowTheRegistry'
    BY <1>1 DEF IInv, MapsAgree, NoForgottenWindow, WindowsShowTheRegistry
  <2>8. LivePinsHaveAWindow'
    BY <1>1, <1>2, <1>7, <2>2 DEF IInv, LivePinsHaveAWindow
  <2> QED
    BY <1>2, <2>3, <2>4, <2>5, <2>6, <2>7, <2>8 DEF IInv
<1>8. CASE p \in DOMAIN pins
  <2>1. /\ opening' = Put(opening, nextWindow, asked)
        /\ nextWindow' = nextWindow + 1
    BY <1>4, <1>8 DEF OpenPin
  <2>2. /\ nextWindow \in WindowId /\ nextWindow' \in 1 .. MaxPins + 1
    BY <1>5, <2>1, Types DEF IInv, WindowsCounted, WindowId
  <2>3. /\ nextWindow \notin DOMAIN opening /\ nextWindow \notin DOMAIN screen
        /\ nextWindow \notin DOMAIN windowToPin
        /\ \A m \in messages : m.window # nextWindow
    BY Types DEF IInv, Minted
  <2>4. /\ asked \in [pin: PinId, shape: Shape] /\ asked.pin = p
    BY <1>2, <1>8 DEF IInv, TypeOK, Image, Shape
  <2> HIDE DEF asked
  <2>5. /\ DOMAIN opening' = DOMAIN opening \cup {nextWindow}
        /\ opening'[nextWindow] = asked
        /\ \A w \in DOMAIN opening : opening'[w] = opening[w]
    BY <2>1, <2>3 DEF Put
  <2>6. Awaited' = Awaited \cup {p}
    BY <1>1, <2>4, <2>5 DEF Awaited
  <2>7. Tracked' = Tracked \cup {p}
    BY <1>1, <2>6 DEF Tracked
  <2>8. TypeOK'
    <3>1. /\ DOMAIN opening' \subseteq WindowId
          /\ \A w \in DOMAIN opening' : opening'[w] \in [pin: PinId, shape: Shape]
      BY <2>2, <2>4, <2>5 DEF IInv, TypeOK
    <3> QED
      BY <1>1, <1>6, <2>2, <3>1 DEF IInv, TypeOK
  <2>9. NoWindowYet' /\ WindowsCounted'
    BY <1>1, <1>3, <1>5, <2>1, <2>6, Types DEF IInv, NoWindowYet, WindowsCounted
  <2>10. Minted'
    <3>1. /\ \A q \in DOMAIN pins' \cup Tracked' : q < nextId'
          /\ \A x \in Coming' : x.kind # "CloseAllPins" => x.pin < nextId'
      BY <1>1, <1>2, <1>8, <2>7 DEF IInv, Minted
    <3>2. /\ \A w \in DOMAIN opening' \cup DOMAIN screen' \cup DOMAIN windowToPin' :
                 w < nextWindow'
          /\ \A m \in messages' : m.window < nextWindow'
      <4>1. /\ \A w \in DOMAIN opening \cup DOMAIN screen \cup DOMAIN windowToPin :
                   w \in Nat /\ w < nextWindow
            /\ \A m \in messages : m.window \in Nat /\ m.window < nextWindow
        BY Types, MessageFacts DEF IInv, Minted, TypeOK
      <4> QED
        BY <1>1, <2>1, <2>5, <4>1, Types
    <3> QED
      BY <3>1, <3>2 DEF Minted
  <2>11. OpeningAlone'
    <3>1. /\ \A w \in DOMAIN opening : opening[w].pin # p
          /\ \A m \in messages : m.kind = "WindowOpened" => m.pin # p
      BY <1>4 DEF Awaited
    <3> QED
      BY <1>1, <1>4, <2>3, <2>4, <2>5, <3>1 DEF IInv, OpeningAlone
  <2>12. OpenedOnce' /\ ClosedIsClosed'
    BY <1>1 DEF IInv, OpenedOnce, ClosedIsClosed
  <2>13. HandlesCurrent' /\ TeardownsAreDue'
    BY <1>1, <1>2 DEF IInv, HandlesCurrent, TeardownsAreDue
  <2>14. TrackedAreForgotten'
    BY <1>1, <1>2, <1>8, <2>7 DEF IInv, TrackedAreForgotten
  <2>15. MapsAgree' /\ NoForgottenWindow' /\ WindowsShowTheRegistry'
    BY <1>1 DEF IInv, MapsAgree, NoForgottenWindow, WindowsShowTheRegistry
  <2>16. LivePinsHaveAWindow'
    BY <1>1, <1>2, <2>6 DEF IInv, LivePinsHaveAWindow
  <2> QED
    BY <1>2, <2>8, <2>9, <2>10, <2>11, <2>12, <2>13, <2>14, <2>15, <2>16 DEF IInv
<1> QED
  BY <1>7, <1>8

(* ClosePin forgets the pin, and closes its window if one is known. *)
LEMMA ClosePinStep ==
    ASSUME IInv, ClosePin
    PROVE  IInv'
<1> DEFINE p == Head(events).pin
<1>1. /\ Event("ClosePin") /\ UNCHANGED handlerVars
      /\ UNCHANGED <<nextId, pins, owed, nextWindow, opening, swept, raced>>
      /\ missed' = missed \cup ({p} \ DOMAIN pinToWindow)
  BY DEF ClosePin, handlerVars
<1>2. /\ Head(events) \in AppEvent /\ Head(events).kind = "ClosePin"
      /\ Coming = Coming' \cup {Head(events)}
      /\ AskedOnce' /\ Pending' = Pending /\ events' \in Seq(AppEvent)
      /\ p \in PinId
  BY <1>1, EventTaken, EventFacts
<1>3. p \notin DOMAIN pins
  BY <1>2 DEF IInv, TeardownsAreDue
<1>4. missed' \subseteq PinId
  BY <1>1, <1>2 DEF IInv, TypeOK
<1> HIDE DEF p
<1>5. CASE p \notin DOMAIN pinToWindow
  <2>1. UNCHANGED <<pinToWindow, windowToPin, windows, handles, screen, messages>>
    BY <1>5 DEF ClosePin, appVars, p
  <2>2. Awaited' = Awaited /\ Tracked' = Tracked
    BY <1>1, <2>1 DEF Awaited, Tracked
  <2>3. p \in missed'
    BY <1>1, <1>5
  <2>4. TypeOK'
    BY <1>1, <1>2, <1>4, <2>1 DEF IInv, TypeOK
  <2>5. NoWindowYet' /\ WindowsCounted'
    BY <1>1, <1>2, <2>1, <2>2 DEF IInv, NoWindowYet, WindowsCounted
  <2>6. Minted' /\ OpeningAlone' /\ OpenedOnce' /\ ClosedIsClosed'
    BY <1>1, <1>2, <2>1, <2>2
    DEF IInv, Minted, OpeningAlone, OpenedOnce, ClosedIsClosed
  <2>7. HandlesCurrent' /\ TeardownsAreDue'
    BY <1>1, <1>2, <2>1 DEF IInv, HandlesCurrent, TeardownsAreDue
  <2>8. TrackedAreForgotten'
    BY <1>1, <1>2, <2>2, <2>3 DEF IInv, TrackedAreForgotten, p
  <2>9. MapsAgree' /\ NoForgottenWindow' /\ WindowsShowTheRegistry'
    BY <1>1, <2>1 DEF IInv, MapsAgree, NoForgottenWindow, WindowsShowTheRegistry
  <2>10. LivePinsHaveAWindow'
    BY <1>1, <1>2, <2>1, <2>2 DEF IInv, LivePinsHaveAWindow
  <2> QED
    BY <1>2, <2>4, <2>5, <2>6, <2>7, <2>8, <2>9, <2>10 DEF IInv
<1>6. CASE p \in DOMAIN pinToWindow
  <2> DEFINE w == pinToWindow[p]
  <2>1. /\ pinToWindow' = Without(pinToWindow, {p})
        /\ windowToPin' = Without(windowToPin, {w})
        /\ windows' = Without(windows, {w})
        /\ handles' = Without(handles, {p})
        /\ CloseWindows({w})
    BY <1>6 DEF ClosePin, p
  <2>2. /\ w \in DOMAIN windowToPin /\ windowToPin[w] = p
    BY <1>6 DEF IInv, MapsAgree
  <2> HIDE DEF w
  <2>3. /\ DOMAIN pinToWindow' = DOMAIN pinToWindow \ {p}
        /\ \A q \in DOMAIN pinToWindow' : pinToWindow'[q] = pinToWindow[q]
        /\ DOMAIN windowToPin' = DOMAIN windowToPin \ {w}
        /\ \A v \in DOMAIN windowToPin' : windowToPin'[v] = windowToPin[v]
    BY <2>1 DEF Without, Restrict
  <2>4. /\ DOMAIN windows' = DOMAIN windows \ {w}
        /\ \A v \in DOMAIN windows' : windows'[v] = windows[v]
        /\ DOMAIN handles' = DOMAIN handles \ {p}
        /\ \A q \in DOMAIN handles' : handles'[q] = handles[q]
    BY <2>1 DEF Without, Restrict
  <2>5. /\ DOMAIN screen' = DOMAIN screen \ {w}
        /\ \A v \in DOMAIN screen' : screen'[v] = screen[v]
        /\ messages \subseteq messages' /\ messages' \subseteq WindowMessage
        /\ \A m \in messages' \ messages :
               m.kind = "WindowClosed" /\ m.window = w /\ w \in DOMAIN screen
        /\ Awaited' = Awaited
    <3>1. \A m \in messages' \ messages :
              m.kind = "WindowClosed" /\ m.window \in {w} \cap DOMAIN screen
      BY <2>1, CloseWindowsFacts
    <3>2. /\ DOMAIN screen' = DOMAIN screen \ {w}
          /\ \A v \in DOMAIN screen' : screen'[v] = screen[v]
      BY <2>1, CloseWindowsFacts
    <3>3. /\ messages \subseteq messages' /\ messages' \subseteq WindowMessage
          /\ Awaited' = Awaited
      BY <1>1, <2>1, CloseWindowsFacts
    <3> QED
      BY <3>1, <3>2, <3>3
  <2>6. Tracked' \subseteq Tracked /\ p \notin Tracked' \ Awaited
    BY <2>3, <2>4, <2>5 DEF Tracked
  <2>7. p \notin Awaited
    BY <1>6 DEF IInv, OpeningAlone, OpenedOnce, Awaited
  <2>8. TypeOK'
    <3>1. /\ DOMAIN pinToWindow' \subseteq PinId
          /\ \A q \in DOMAIN pinToWindow' : pinToWindow'[q] \in WindowId
          /\ DOMAIN windowToPin' \subseteq WindowId
          /\ \A v \in DOMAIN windowToPin' : windowToPin'[v] \in PinId
      BY <2>3 DEF IInv, TypeOK
    <3>2. /\ DOMAIN windows' \subseteq WindowId
          /\ \A v \in DOMAIN windows' : windows'[v] \in Shape
          /\ DOMAIN handles' \subseteq PinId
          /\ \A q \in DOMAIN handles' : handles'[q] \in Image
      BY <2>4 DEF IInv, TypeOK
    <3>3. /\ DOMAIN screen' \subseteq WindowId
          /\ \A v \in DOMAIN screen' : screen'[v] \in Shape
      BY <2>5 DEF IInv, TypeOK
    <3> QED
      BY <1>1, <1>2, <1>4, <2>5, <3>1, <3>2, <3>3 DEF IInv, TypeOK
  <2>9. NoWindowYet' /\ WindowsCounted'
    BY <1>1, <1>2, <2>3, <2>5 DEF IInv, NoWindowYet, WindowsCounted
  <2>10. Minted'
    BY <1>1, <1>2, <2>3, <2>5, <2>6 DEF IInv, Minted
  <2>11. OpeningAlone'
    BY <1>1, <2>2, <2>3, <2>5 DEF IInv, OpeningAlone
  <2>12. OpenedOnce'
    <3>1. \A m \in messages' : m.kind = "WindowOpened" =>
              /\ m \in messages /\ m.window # w
      BY <2>2, <2>5 DEF IInv, OpenedOnce
    <3> QED
      BY <1>1, <2>3, <2>5, <3>1 DEF IInv, OpenedOnce
  <2>13. ClosedIsClosed'
    BY <2>5 DEF IInv, ClosedIsClosed
  <2>14. HandlesCurrent' /\ TeardownsAreDue'
    BY <1>1, <1>2, <2>4 DEF IInv, HandlesCurrent, TeardownsAreDue
  <2>15. TrackedAreForgotten'
    BY <1>1, <1>2, <2>5, <2>6, <2>7 DEF IInv, TrackedAreForgotten, p
  <2>16. MapsAgree'
    BY <2>2, <2>3, <2>4 DEF IInv, MapsAgree
  <2>17. NoForgottenWindow'
    BY <2>3, <2>5 DEF IInv, NoForgottenWindow
  <2>18. WindowsShowTheRegistry'
    BY <1>1, <1>3, <2>2, <2>3, <2>4 DEF IInv, WindowsShowTheRegistry, MapsAgree
  <2>19. LivePinsHaveAWindow'
    <3>1. \A q \in DOMAIN pins :
              q \in DOMAIN pinToWindow => pinToWindow[q] # w
      BY <1>3, <2>2 DEF IInv, MapsAgree
    <3> QED
      BY <1>1, <1>2, <1>3, <2>3, <2>5, <3>1 DEF IInv, LivePinsHaveAWindow
  <2> QED
    BY <1>2, <2>8, <2>9, <2>10, <2>11, <2>12, <2>13, <2>14, <2>15, <2>16,
       <2>17, <2>18, <2>19
    DEF IInv
<1> QED
  BY <1>5, <1>6

(* CloseAllPins forgets every window that is known. *)
LEMMA CloseAllPinsStep ==
    ASSUME IInv, CloseAllPins
    PROVE  IInv'
<1>1. /\ Event("CloseAllPins") /\ UNCHANGED handlerVars
      /\ UNCHANGED <<nextId, pins, owed, nextWindow, opening, raced>>
      /\ missed' = missed \cup (Awaited \ DOMAIN pins)
      /\ swept' = swept \cup (DOMAIN pinToWindow \cap DOMAIN pins)
      /\ CloseWindows(DOMAIN windowToPin)
  BY DEF CloseAllPins, handlerVars
<1>2. /\ Head(events).kind = "CloseAllPins"
      /\ Coming = Coming' \cup {Head(events)}
      /\ AskedOnce' /\ Pending' = Pending /\ events' \in Seq(AppEvent)
  BY <1>1, EventTaken
<1>3. /\ DOMAIN pinToWindow' = {} /\ DOMAIN windowToPin' = {}
      /\ DOMAIN windows' = {} /\ DOMAIN handles' = {}
  BY EmptyMapDomain DEF CloseAllPins
<1>4. /\ DOMAIN screen' = DOMAIN screen \ DOMAIN windowToPin
      /\ \A w \in DOMAIN screen' : screen'[w] = screen[w]
      /\ messages \subseteq messages' /\ messages' \subseteq WindowMessage
      /\ \A m \in messages' \ messages :
             /\ m.kind = "WindowClosed"
             /\ m.window \in DOMAIN windowToPin \cap DOMAIN screen
      /\ Awaited' = Awaited
  BY <1>1, CloseWindowsFacts
<1>5. Tracked' = Awaited /\ Awaited \subseteq Tracked
  BY <1>3, <1>4 DEF Tracked
<1>6. TypeOK'
  <2>1. /\ DOMAIN screen' \subseteq WindowId
        /\ \A w \in DOMAIN screen' : screen'[w] \in Shape
    BY <1>4 DEF IInv, TypeOK
  <2>2. missed' \subseteq PinId /\ swept' \subseteq PinId
    BY <1>1, TrackedType DEF IInv, TypeOK
  <2> QED
    BY <1>1, <1>2, <1>3, <1>4, <2>1, <2>2 DEF IInv, TypeOK
<1>7. NoWindowYet' /\ WindowsCounted'
  BY <1>1, <1>2, <1>3, <1>4 DEF IInv, NoWindowYet, WindowsCounted
<1>8. Minted'
  <2>1. \A m \in messages' : m.window < nextWindow
    BY <1>4 DEF IInv, Minted
  <2> QED
    BY <1>1, <1>2, <1>3, <1>4, <1>5, <2>1 DEF IInv, Minted
<1>9. OpeningAlone'
  <2>1. \A w \in DOMAIN opening, m \in messages' :
            /\ m.window # w
            /\ m.kind = "WindowOpened" => m.pin # opening[w].pin
    BY <1>4 DEF IInv, OpeningAlone
  <2> QED
    BY <1>1, <1>3, <1>4, <2>1 DEF IInv, OpeningAlone
<1>10. OpenedOnce'
  <2>1. \A m \in messages' : m.kind = "WindowOpened" =>
            m \in messages /\ m.window \notin DOMAIN windowToPin
    BY <1>4 DEF IInv, OpenedOnce
  <2> QED
    BY <1>1, <1>3, <1>4, <2>1 DEF IInv, OpenedOnce
<1>11. ClosedIsClosed'
  BY <1>4 DEF IInv, ClosedIsClosed
<1>12. HandlesCurrent' /\ TeardownsAreDue'
  BY <1>1, <1>2, <1>3 DEF IInv, HandlesCurrent, TeardownsAreDue
<1>13. TrackedAreForgotten'
  BY <1>1, <1>5 DEF TrackedAreForgotten
<1>14. MapsAgree' /\ NoForgottenWindow' /\ WindowsShowTheRegistry'
  BY <1>3, <1>4 DEF IInv, MapsAgree, NoForgottenWindow, WindowsShowTheRegistry
<1>15. LivePinsHaveAWindow'
  BY <1>1, <1>2, <1>4 DEF IInv, LivePinsHaveAWindow
<1> QED
  BY <1>2, <1>6, <1>7, <1>8, <1>9, <1>10, <1>11, <1>12, <1>13, <1>14, <1>15
  DEF IInv

\* What a transform does to one pin's pixels.
LEMMA TransformedFacts ==
    ASSUME NEW image \in Image, NEW t \in Transform
    PROVE  /\ Transformed(image, t) \in Image
           /\ t = "rotate" => Transformed(image, t).shape = Turned(image.shape)
           /\ t # "rotate" => Transformed(image, t).shape = image.shape
BY DEF Image, Transform, Transformed, Turned

\* What a reported size adds to the messages.
LEMMA SizeReportFacts ==
    ASSUME NEW w \in WindowId, NEW shape \in Shape
    PROVE  /\ SizeReport(w, shape) \subseteq WindowMessage
           /\ \A m \in SizeReport(w, shape) : m.kind = "Resized" /\ m.window = w
BY DEF SizeReport, WindowMessage

\* Messages about sizes change nothing of the rest.
LEMMA ReportsOnly ==
    ASSUME \A m \in messages' \ messages : m.kind = "Resized",
           \A m \in messages \ messages' : m.kind = "Resized",
           UNCHANGED opening
    PROVE  Awaited' = Awaited
<1>1. {m \in messages' : m.kind = "WindowOpened"}
          = {m \in messages : m.kind = "WindowOpened"}
  OBVIOUS
<1> QED
  BY <1>1 DEF Awaited

\* A transform of a live pin, asked for over the socket or by a key.
LEMMA ApplyTransformStep ==
    ASSUME IInv, NEW p \in DOMAIN pins, NEW t \in Transforms,
           ApplyTransform(p, t),
           Coming' \subseteq Coming,
           \A e \in Coming \ Coming' : e.kind \in Transform,
           AskedOnce', Pending' = Pending, events' \in Seq(AppEvent)
    PROVE  IInv'
<1> USE GuiAssumption
<1> DEFINE w == pinToWindow[p]
           turns == t = "rotate" /\ p \in DOMAIN pinToWindow
<1>1. UNCHANGED <<nextId, owed, pinToWindow, windowToPin, nextWindow, opening,
                  missed, swept, raced>>
  BY DEF ApplyTransform, historyVars
<1>2. t \in Transform /\ p \in PinId /\ pins[p] \in Image
  BY DEF Transform, IInv, TypeOK
<1>3. /\ DOMAIN pins' = DOMAIN pins
      /\ pins'[p] = Transformed(pins[p], t)
      /\ \A q \in DOMAIN pins \ {p} : pins'[q] = pins[q]
  BY DEF ApplyTransform
<1>4. /\ pins'[p] \in Image
      /\ t = "rotate" => pins'[p].shape = Turned(pins[p].shape)
      /\ t # "rotate" => pins'[p].shape = pins[p].shape
  BY <1>2, <1>3, TransformedFacts
<1>5. /\ DOMAIN handles' = DOMAIN handles \cup {p}
      /\ handles'[p] = pins'[p]
      /\ \A q \in DOMAIN handles \ {p} : handles'[q] = handles[q]
  BY DEF ApplyTransform, Put
<1>6. p \in DOMAIN pinToWindow =>
          /\ w \in DOMAIN windowToPin /\ w \in DOMAIN windows /\ w \in WindowId
          /\ windowToPin[w] = p /\ windows[w] = pins[p].shape
          /\ windows[w] \in Shape /\ Turned(windows[w]) \in Shape
  BY DEF IInv, MapsAgree, WindowsShowTheRegistry, TypeOK, Shape, Turned
<1>7. /\ DOMAIN windows' = DOMAIN windows
      /\ turns => windows'[w] = Turned(windows[w])
      /\ \A v \in DOMAIN windows : ~(turns /\ v = w) => windows'[v] = windows[v]
  BY <1>6 DEF ApplyTransform
<1>8. /\ DOMAIN screen' = DOMAIN screen
      /\ \A v \in DOMAIN screen : screen'[v] \in Shape
      /\ messages \subseteq messages' /\ messages' \subseteq WindowMessage
      /\ \A m \in messages' \ messages :
             m.kind = "Resized" /\ m.window \in DOMAIN screen
  <2>1. CASE turns /\ w \in DOMAIN screen
    <3>1. /\ screen' = [screen EXCEPT ![w] = Turned(windows[w])]
          /\ messages' = messages \cup SizeReport(w, Turned(windows[w]))
      BY <2>1 DEF ApplyTransform, ResizeWindow
    <3>2. /\ SizeReport(w, Turned(windows[w])) \subseteq WindowMessage
          /\ \A m \in SizeReport(w, Turned(windows[w])) :
                 m.kind = "Resized" /\ m.window = w
      BY <1>6, <2>1, SizeReportFacts
    <3> QED
      BY <1>6, <2>1, <3>1, <3>2, Types DEF IInv, TypeOK
  <2>2. CASE ~(turns /\ w \in DOMAIN screen)
    <3>1. UNCHANGED <<screen, messages>>
      BY <2>2 DEF ApplyTransform, ResizeWindow
    <3> QED
      BY <3>1 DEF IInv, TypeOK
  <2> QED
    BY <2>1, <2>2
<1> HIDE DEF w, turns
<1>9. Awaited' = Awaited /\ Tracked' = Tracked \cup {p}
  BY <1>1, <1>5, <1>8, ReportsOnly DEF Tracked
<1>10. TypeOK'
  <2>1. /\ DOMAIN pins' \subseteq PinId
        /\ \A q \in DOMAIN pins' : pins'[q] \in Image
        /\ DOMAIN handles' \subseteq PinId
        /\ \A q \in DOMAIN handles' : handles'[q] \in Image
    BY <1>2, <1>3, <1>4, <1>5 DEF IInv, TypeOK
  <2>2. /\ DOMAIN windows' \subseteq WindowId
        /\ \A v \in DOMAIN windows' : windows'[v] \in Shape
    BY <1>6, <1>7 DEF IInv, TypeOK, turns
  <2> QED
    BY <1>1, <1>8, <2>1, <2>2 DEF IInv, TypeOK
<1>11. NoWindowYet' /\ WindowsCounted'
  BY <1>1, <1>9 DEF IInv, NoWindowYet, WindowsCounted
<1>12. Minted'
  <2>1. \A m \in messages' : m.window < nextWindow
    BY <1>8 DEF IInv, Minted
  <2> QED
    BY <1>1, <1>3, <1>8, <1>9, <2>1 DEF IInv, Minted
<1>13. OpeningAlone'
  <2>1. \A v \in DOMAIN opening, m \in messages' :
            /\ m.window # v
            /\ m.kind = "WindowOpened" => m.pin # opening[v].pin
    BY <1>8 DEF IInv, OpeningAlone
  <2> QED
    BY <1>1, <1>8, <2>1 DEF IInv, OpeningAlone
<1>14. OpenedOnce'
  <2>1. \A m \in messages' : m.kind = "WindowOpened" => m \in messages
    BY <1>8
  <2> QED
    BY <1>1, <1>8, <2>1 DEF IInv, OpenedOnce
<1>15. ClosedIsClosed'
  BY <1>8 DEF IInv, ClosedIsClosed
<1>16. HandlesCurrent' /\ TeardownsAreDue'
  BY <1>3, <1>5 DEF IInv, HandlesCurrent, TeardownsAreDue
<1>17. TrackedAreForgotten'
  BY <1>1, <1>3, <1>9 DEF IInv, TrackedAreForgotten, Transform
<1>18. MapsAgree' /\ NoForgottenWindow'
  BY <1>1, <1>7, <1>8 DEF IInv, MapsAgree, NoForgottenWindow
<1>19. WindowsShowTheRegistry'
  <2> SUFFICES ASSUME NEW v \in DOMAIN windowToPin, windowToPin[v] \in DOMAIN pins
               PROVE  /\ windowToPin[v] \in DOMAIN handles'
                      /\ handles'[windowToPin[v]] = pins'[windowToPin[v]]
                      /\ windows'[v] = pins'[windowToPin[v]].shape
    BY <1>1, <1>3 DEF WindowsShowTheRegistry
  <2>1. /\ windowToPin[v] \in DOMAIN handles
        /\ handles[windowToPin[v]] = pins[windowToPin[v]]
        /\ windows[v] = pins[windowToPin[v]].shape
        /\ windowToPin[v] \in DOMAIN pinToWindow
        /\ pinToWindow[windowToPin[v]] = v
        /\ v \in DOMAIN windows
    BY DEF IInv, WindowsShowTheRegistry, MapsAgree
  <2>2. CASE windowToPin[v] = p
    BY <1>4, <1>5, <1>7, <2>1, <2>2 DEF turns, w
  <2>3. CASE windowToPin[v] # p
    <3>1. turns => v # w
      BY <1>6, <2>3 DEF turns
    <3> QED
      BY <1>3, <1>5, <1>7, <2>1, <2>3, <3>1
  <2> QED
    BY <2>2, <2>3
<1>20. LivePinsHaveAWindow'
  BY <1>1, <1>3, <1>8, <1>9 DEF IInv, LivePinsHaveAWindow, Transform
<1> QED
  BY <1>10, <1>11, <1>12, <1>13, <1>14, <1>15, <1>16, <1>17, <1>18, <1>19,
     <1>20
  DEF IInv

\* An event that is about pixels only leaves the application in order when the
\* pin is gone.
LEMMA TransformPinStep ==
    ASSUME IInv, NEW t \in Transforms, TransformPin(t)
    PROVE  IInv'
<1> DEFINE p == Head(events).pin
<1>1. t \in Transform
  BY GuiAssumption DEF Transform
<1>2. /\ events # << >> /\ events' = Tail(events) /\ owed' = owed
      /\ Head(events).kind = t
  BY DEF TransformPin, ApplyTransform, Event, handlerVars
<1>3. /\ Head(events) \in AppEvent
      /\ Coming = Coming' \cup {Head(events)}
      /\ AskedOnce'
  BY <1>2, ComingTaken
<1>4. events' \in Seq(AppEvent)
  BY <1>2, Types
<1>5. Pending' = Pending
  <2>1. \A q \in PinId : [kind |-> "OpenPin", pin |-> q] # Head(events)
    BY <1>1, <1>2 DEF Transform
  <2> QED
    BY <1>3, <2>1 DEF Pending
<1>6. CASE p \in DOMAIN pins
  BY <1>1, <1>2, <1>3, <1>4, <1>5, <1>6, ApplyTransformStep DEF TransformPin
<1>7. CASE p \notin DOMAIN pins
  <2>1. UNCHANGED <<nextId, pins, owed, pinToWindow, windowToPin, windows,
                    handles, nextWindow, opening, screen, messages, missed,
                    swept, raced>>
    BY <1>7 DEF TransformPin, handlerVars, appVars, runtimeVars, historyVars
  <2>2. Awaited' = Awaited /\ Tracked' = Tracked
    BY <2>1 DEF Awaited, Tracked
  <2>3. TypeOK' /\ NoWindowYet' /\ WindowsCounted' /\ Minted'
    BY <1>3, <1>4, <1>5, <2>1, <2>2
    DEF IInv, TypeOK, NoWindowYet, WindowsCounted, Minted
  <2>4. OpeningAlone' /\ OpenedOnce' /\ ClosedIsClosed'
    BY <2>1 DEF IInv, OpeningAlone, OpenedOnce, ClosedIsClosed
  <2>5. HandlesCurrent' /\ TeardownsAreDue' /\ TrackedAreForgotten'
    BY <1>1, <1>2, <1>3, <2>1, <2>2
    DEF IInv, HandlesCurrent, TeardownsAreDue, TrackedAreForgotten, Transform
  <2>6. MapsAgree' /\ NoForgottenWindow' /\ WindowsShowTheRegistry'
    BY <2>1 DEF IInv, MapsAgree, NoForgottenWindow, WindowsShowTheRegistry
  <2>7. LivePinsHaveAWindow'
    BY <1>1, <1>2, <1>3, <2>1, <2>2 DEF IInv, LivePinsHaveAWindow, Transform
  <2> QED
    BY <1>3, <2>3, <2>4, <2>5, <2>6, <2>7 DEF IInv
<1> QED
  BY <1>6, <1>7

(* A key acts on the pin of the window it was pressed in. *)
LEMMA KeyActionStep ==
    ASSUME IInv, NEW w \in WindowId, NEW t \in Transforms, KeyAction(w, t)
    PROVE  IInv'
<1>1. /\ windowToPin[w] \in DOMAIN pins
      /\ ApplyTransform(windowToPin[w], t)
      /\ UNCHANGED <<events, owed>>
  BY DEF KeyAction, ApplyTransform
<1>2. Coming' = Coming
  BY <1>1 DEF Coming
<1>3. Pending' = Pending /\ AskedOnce' /\ events' \in Seq(AppEvent)
  BY <1>1, <1>2 DEF Pending, IInv, AskedOnce, TypeOK
<1> QED
  BY <1>1, <1>2, <1>3, ApplyTransformStep

\* A step that neither takes nor sends an event.
LEMMA QueueUnchanged ==
    ASSUME IInv, UNCHANGED <<events, owed>>
    PROVE  /\ Coming' = Coming /\ Pending' = Pending /\ AskedOnce'
           /\ events' \in Seq(AppEvent)
           /\ owed' \in [Handlers -> AppEvent \cup {None}]
<1>1. Coming' = Coming
  BY DEF Coming
<1> QED
  BY <1>1 DEF Pending, IInv, AskedOnce, TypeOK

(* A window that came up is entered in all maps, with the pixels of the
   registry. *)
LEMMA WindowOpenedStep ==
    ASSUME IInv, NEW m \in messages, WindowOpened(m)
    PROVE  IInv'
<1> DEFINE p == m.pin
           w == m.window
<1>1. /\ m.kind = "WindowOpened"
      /\ UNCHANGED <<nextId, pins, owed, events, nextWindow, opening, screen,
                     missed, swept, raced>>
      /\ messages' = messages \ {m}
  BY DEF WindowOpened, handlerVars, historyVars
<1>2. p \in PinId /\ w \in WindowId
  BY <1>1, Types, MessageFacts
<1>3. /\ w \notin DOMAIN windowToPin /\ p \notin DOMAIN pinToWindow
      /\ w < nextWindow /\ w \notin DOMAIN opening
      /\ \A v \in DOMAIN opening : opening[v].pin # p
      /\ p \in Awaited /\ p < nextId
  BY <1>1 DEF IInv, OpenedOnce, OpeningAlone, Minted, Awaited, Tracked
<1>4. /\ \A n \in messages' : n.kind = "WindowOpened" =>
             n.pin # p /\ n.window # w
  BY <1>1 DEF IInv, OpenedOnce
<1>5. /\ Coming' = Coming /\ Pending' = Pending /\ AskedOnce'
      /\ events' \in Seq(AppEvent)
  BY <1>1, QueueUnchanged
<1>6. /\ AspectNow(p) \in Shape
      /\ p \in DOMAIN pins => AspectNow(p) = pins[p].shape
  BY <1>1 DEF AspectNow, IInv, TypeOK, Image, Shape
<1> HIDE DEF p, w
<1>7. /\ DOMAIN pinToWindow' = DOMAIN pinToWindow \cup {p}
      /\ pinToWindow'[p] = w
      /\ \A q \in DOMAIN pinToWindow : pinToWindow'[q] = pinToWindow[q]
  BY <1>3 DEF WindowOpened, Put, p, w
<1>8. /\ DOMAIN windowToPin' = DOMAIN windowToPin \cup {w}
      /\ windowToPin'[w] = p
      /\ \A v \in DOMAIN windowToPin : windowToPin'[v] = windowToPin[v]
  BY <1>3 DEF WindowOpened, Put, p, w
<1>9. /\ DOMAIN windows' = DOMAIN windows \cup {w}
      /\ windows'[w] = AspectNow(p)
      /\ \A v \in DOMAIN windowToPin : windows'[v] = windows[v]
  BY <1>3 DEF WindowOpened, Put, p, w, IInv, MapsAgree
<1>10. /\ DOMAIN handles' \subseteq DOMAIN handles \cup {p}
       /\ DOMAIN handles \subseteq DOMAIN handles'
       /\ \A q \in DOMAIN handles : handles'[q] = handles[q]
       /\ p \in DOMAIN pins => p \in DOMAIN handles' /\ handles'[p] = pins[p]
  <2>1. CASE p \in DOMAIN pins /\ p \notin DOMAIN handles
    BY <2>1 DEF WindowOpened, Put, p
  <2>2. CASE ~(p \in DOMAIN pins /\ p \notin DOMAIN handles)
    BY <2>2 DEF WindowOpened, p, IInv, HandlesCurrent
  <2> QED
    BY <2>1, <2>2
<1>11. Awaited = Awaited' \cup {p}
  BY <1>1 DEF Awaited, p
<1>12. Tracked' = Tracked
  BY <1>3, <1>7, <1>10, <1>11 DEF Tracked
<1>13. TypeOK'
  <2>1. /\ DOMAIN pinToWindow' \subseteq PinId
        /\ \A q \in DOMAIN pinToWindow' : pinToWindow'[q] \in WindowId
        /\ DOMAIN windowToPin' \subseteq WindowId
        /\ \A v \in DOMAIN windowToPin' : windowToPin'[v] \in PinId
    BY <1>2, <1>7, <1>8 DEF IInv, TypeOK, p, w
  <2>2. /\ DOMAIN windows' \subseteq WindowId
        /\ \A v \in DOMAIN windows' : windows'[v] \in Shape
    BY <1>2, <1>6, <1>9 DEF IInv, TypeOK, MapsAgree, p, w
  <2>3. /\ DOMAIN handles' \subseteq PinId
        /\ \A q \in DOMAIN handles' : handles'[q] \in Image
    <3>1. \A q \in DOMAIN handles' : q \in DOMAIN handles \/ q = p
      BY <1>10
    <3>2. \A q \in DOMAIN handles' \ DOMAIN handles : q \in DOMAIN pins
      BY <1>10, <3>1 DEF WindowOpened, p
    <3> QED
      BY <1>2, <1>10, <3>1, <3>2 DEF IInv, TypeOK, p
  <2> QED
    BY <1>1, <1>5, <2>1, <2>2, <2>3 DEF IInv, TypeOK
<1>14. NoWindowYet' /\ WindowsCounted'
  BY <1>1, <1>3, <1>5, <1>7, <1>11 DEF IInv, NoWindowYet, WindowsCounted
<1>15. Minted'
  BY <1>1, <1>3, <1>5, <1>8, <1>12 DEF IInv, Minted, w
<1>16. OpeningAlone'
  BY <1>1, <1>3, <1>7, <1>8 DEF IInv, OpeningAlone, w, p
<1>17. OpenedOnce'
  <2>1. m # [kind |-> "WindowClosed", window |-> w]
    BY <1>1
  <2>2. \A n \in messages : [kind |-> "WindowClosed", window |-> n.window] # m
    BY <1>1
  <2> QED
    BY <1>1, <1>4, <1>7, <1>8, <2>2 DEF IInv, OpenedOnce
<1>18. ClosedIsClosed'
  BY <1>1 DEF IInv, ClosedIsClosed
<1>19. HandlesCurrent'
  BY <1>1, <1>10 DEF IInv, HandlesCurrent
<1>20. TeardownsAreDue' /\ TrackedAreForgotten'
  BY <1>1, <1>5, <1>12 DEF IInv, TeardownsAreDue, TrackedAreForgotten
<1>21. MapsAgree'
  BY <1>3, <1>7, <1>8, <1>9 DEF IInv, MapsAgree, p, w
<1>22. WindowsShowTheRegistry'
  BY <1>1, <1>6, <1>8, <1>9, <1>10 DEF IInv, WindowsShowTheRegistry
<1>23. NoForgottenWindow'
  BY <1>1, <1>8 DEF IInv, NoForgottenWindow, w
<1>24. LivePinsHaveAWindow'
  <2>1. \A v : [kind |-> "WindowClosed", window |-> v] # m
    BY <1>1
  <2>2. \/ w \in DOMAIN screen
        \/ [kind |-> "WindowClosed", window |-> w] \in messages
        \/ p \in raced
    BY <1>1 DEF IInv, OpenedOnce, p, w
  <2> SUFFICES ASSUME NEW q \in DOMAIN pins
               PROVE  \/ q \in swept \cup raced
                      \/ \E e \in Coming : e.kind = "OpenPin" /\ e.pin = q
                      \/ q \in Awaited'
                      \/ /\ q \in DOMAIN pinToWindow'
                         /\ \/ pinToWindow'[q] \in DOMAIN screen
                            \/ [kind |-> "WindowClosed",
                                window |-> pinToWindow'[q]] \in messages'
    BY <1>1, <1>5 DEF LivePinsHaveAWindow
  <2>3. CASE q = p
    BY <1>1, <1>7, <2>1, <2>2, <2>3
  <2>4. CASE q # p
    BY <1>1, <1>7, <1>11, <2>1, <2>4 DEF IInv, LivePinsHaveAWindow
  <2> QED
    BY <2>3, <2>4
<1> QED
  BY <1>5, <1>13, <1>14, <1>15, <1>16, <1>17, <1>18, <1>19, <1>20, <1>21,
     <1>22, <1>23, <1>24
  DEF IInv

(* A window that is gone leaves all maps, and its pin the registry. *)
LEMMA WindowClosedStep ==
    ASSUME IInv, NEW m \in messages, WindowClosed(m)
    PROVE  IInv'
<1> DEFINE w == m.window
           known == w \in DOMAIN windowToPin
           p == windowToPin[w]
           gone == IF known THEN {p} ELSE {}
<1>1. /\ m.kind = "WindowClosed"
      /\ UNCHANGED <<nextId, owed, events, nextWindow, opening, screen, missed,
                     swept>>
      /\ messages' = messages \ {m}
      /\ windows' = Without(windows, {w})
      /\ raced' = raced \cup {n.pin : n \in {k \in messages :
                      k.kind = "WindowOpened" /\ k.window = w}}
  BY DEF WindowClosed
<1>2. /\ w \in WindowId /\ w \notin DOMAIN screen
      /\ m = [kind |-> "WindowClosed", window |-> w]
  BY <1>1, Types, MessageFacts DEF IInv, ClosedIsClosed
<1>3. known => p \in DOMAIN pinToWindow /\ pinToWindow[p] = w /\ p \notin Awaited
  <2>1. known => p \in DOMAIN pinToWindow /\ pinToWindow[p] = w
    BY DEF IInv, MapsAgree
  <2>2. \A q \in DOMAIN pinToWindow : q \notin Awaited
    BY DEF IInv, OpeningAlone, OpenedOnce, Awaited
  <2> QED
    BY <2>1, <2>2
<1>4. /\ Coming' = Coming /\ Pending' = Pending /\ AskedOnce'
      /\ events' \in Seq(AppEvent)
  BY <1>1, QueueUnchanged
<1>5. /\ DOMAIN windows' = DOMAIN windows \ {w}
      /\ \A v \in DOMAIN windows' : windows'[v] = windows[v]
  BY <1>1 DEF Without, Restrict
<1>6. /\ DOMAIN pinToWindow' = DOMAIN pinToWindow \ gone
      /\ \A q \in DOMAIN pinToWindow' : pinToWindow'[q] = pinToWindow[q]
      /\ DOMAIN windowToPin' = DOMAIN windowToPin \ {w}
      /\ \A v \in DOMAIN windowToPin' : windowToPin'[v] = windowToPin[v]
  BY DEF WindowClosed, Without, Restrict
<1>7. /\ DOMAIN handles' = DOMAIN handles \ gone
      /\ \A q \in DOMAIN handles' : handles'[q] = handles[q]
      /\ DOMAIN pins' = DOMAIN pins \ gone
      /\ \A q \in DOMAIN pins' : pins'[q] = pins[q]
  BY DEF WindowClosed, Without, Restrict
<1>8. \A q \in DOMAIN pinToWindow' : pinToWindow[q] # w
  BY <1>3, <1>6 DEF IInv, MapsAgree
<1> HIDE DEF w, known, p
<1>9. Awaited' = Awaited
  <2>1. {n \in messages' : n.kind = "WindowOpened"}
            = {n \in messages : n.kind = "WindowOpened"}
    BY <1>1
  <2> QED
    BY <1>1, <2>1 DEF Awaited
<1>10. Tracked' = Tracked \ gone
  BY <1>3, <1>6, <1>7, <1>9 DEF Tracked
<1>11. TypeOK'
  <2>1. raced' \subseteq PinId
    BY <1>1, Types, MessageFacts DEF IInv, TypeOK
  <2>2. /\ DOMAIN pinToWindow' \subseteq PinId
        /\ \A q \in DOMAIN pinToWindow' : pinToWindow'[q] \in WindowId
        /\ DOMAIN windowToPin' \subseteq WindowId
        /\ \A v \in DOMAIN windowToPin' : windowToPin'[v] \in PinId
    BY <1>6 DEF IInv, TypeOK
  <2>3. /\ DOMAIN handles' \subseteq PinId
        /\ \A q \in DOMAIN handles' : handles'[q] \in Image
        /\ DOMAIN pins' \subseteq PinId
        /\ \A q \in DOMAIN pins' : pins'[q] \in Image
    BY <1>7 DEF IInv, TypeOK
  <2>4. /\ DOMAIN windows' \subseteq WindowId
        /\ \A v \in DOMAIN windows' : windows'[v] \in Shape
    BY <1>5 DEF IInv, TypeOK
  <2> QED
    BY <1>1, <1>4, <2>1, <2>2, <2>3, <2>4 DEF IInv, TypeOK
<1>12. NoWindowYet' /\ WindowsCounted'
  BY <1>1, <1>4, <1>6, <1>9 DEF IInv, NoWindowYet, WindowsCounted
<1>13. Minted'
  BY <1>1, <1>4, <1>6, <1>7, <1>10 DEF IInv, Minted
<1>14. OpeningAlone'
  BY <1>1, <1>6 DEF IInv, OpeningAlone
<1>15. OpenedOnce'
  <2>1. \A n \in messages : n.kind = "WindowOpened" /\ n.window = w =>
            n.pin \in raced'
    BY <1>1
  <2>2. \A n \in messages : n.kind = "WindowOpened" =>
            \/ n.window \in DOMAIN screen
            \/ [kind |-> "WindowClosed", window |-> n.window] \in messages'
            \/ n.pin \in raced'
    BY <1>1, <1>2, <2>1 DEF IInv, OpenedOnce
  <2> QED
    BY <1>1, <1>6, <2>2 DEF IInv, OpenedOnce
<1>16. ClosedIsClosed'
  BY <1>1 DEF IInv, ClosedIsClosed
<1>17. HandlesCurrent' /\ TeardownsAreDue'
  BY <1>4, <1>7 DEF IInv, HandlesCurrent, TeardownsAreDue
<1>18. TrackedAreForgotten'
  BY <1>1, <1>4, <1>7, <1>10 DEF IInv, TrackedAreForgotten
<1>19. MapsAgree'
  <2>1. /\ DOMAIN windows' = DOMAIN windowToPin'
        /\ \A v \in DOMAIN windowToPin' : windowToPin[v] \notin gone
    BY <1>3, <1>5, <1>6 DEF IInv, MapsAgree, p
  <2> QED
    BY <1>6, <1>8, <2>1 DEF IInv, MapsAgree
<1>20. WindowsShowTheRegistry'
  BY <1>5, <1>6, <1>7 DEF IInv, WindowsShowTheRegistry, MapsAgree
<1>21. NoForgottenWindow'
  BY <1>1, <1>2, <1>6 DEF IInv, NoForgottenWindow
<1>22. LivePinsHaveAWindow'
  <2> SUFFICES ASSUME NEW q \in DOMAIN pins'
               PROVE  \/ q \in swept' \cup raced'
                      \/ \E e \in Coming : e.kind = "OpenPin" /\ e.pin = q
                      \/ q \in Awaited
                      \/ /\ q \in DOMAIN pinToWindow'
                         /\ \/ pinToWindow'[q] \in DOMAIN screen
                            \/ [kind |-> "WindowClosed",
                                window |-> pinToWindow'[q]] \in messages'
    BY <1>1, <1>4, <1>9 DEF LivePinsHaveAWindow
  <2>1. q \in DOMAIN pins /\ q \notin gone
    BY <1>7
  <2>2. q \in DOMAIN pinToWindow =>
            /\ q \in DOMAIN pinToWindow' /\ pinToWindow'[q] = pinToWindow[q]
            /\ [kind |-> "WindowClosed", window |-> pinToWindow[q]] # m
    BY <1>2, <1>6, <1>8, <2>1
  <2> QED
    BY <1>1, <2>1, <2>2 DEF IInv, LivePinsHaveAWindow
<1> QED
  BY <1>4, <1>11, <1>12, <1>13, <1>14, <1>15, <1>16, <1>17, <1>18, <1>19,
     <1>20, <1>21, <1>22
  DEF IInv

\* The screen and the messages change, and nothing the application keeps.
LEMMA ScreenStep ==
    ASSUME IInv,
           UNCHANGED <<nextId, pins, owed, events, pinToWindow, windowToPin,
                       windows, handles, nextWindow, opening, missed, swept,
                       raced>>,
           DOMAIN screen' \subseteq DOMAIN screen,
           \A w \in DOMAIN screen' : screen'[w] \in Shape,
           messages' \subseteq WindowMessage,
           \A m \in messages \ messages' : m.kind = "Resized",
           \A m \in messages' \ messages :
               /\ m.kind \in {"Resized", "WindowClosed"}
               /\ m.window \in DOMAIN screen
               /\ m.kind = "WindowClosed" => m.window \notin DOMAIN screen',
           \A w \in DOMAIN screen \ DOMAIN screen' :
               [kind |-> "WindowClosed", window |-> w] \in messages'
    PROVE  IInv'
<1>1. /\ Coming' = Coming /\ Pending' = Pending /\ AskedOnce'
  BY QueueUnchanged
<1>2. {n \in messages' : n.kind = "WindowOpened"}
          = {n \in messages : n.kind = "WindowOpened"}
  OBVIOUS
<1>3. Awaited' = Awaited /\ Tracked' = Tracked
  BY <1>2 DEF Awaited, Tracked
<1>4. TypeOK'
  BY DEF IInv, TypeOK
<1>5. NoWindowYet' /\ WindowsCounted'
  BY <1>1, <1>3 DEF IInv, NoWindowYet, WindowsCounted
<1>6. Minted'
  <2>1. \A m \in messages' : m.window < nextWindow
    BY DEF IInv, Minted
  <2> QED
    BY <1>1, <1>3, <2>1 DEF IInv, Minted
<1>7. OpeningAlone'
  <2>1. \A w \in DOMAIN opening, m \in messages' :
            /\ m.window # w
            /\ m.kind = "WindowOpened" => m.pin # opening[w].pin
    BY DEF IInv, OpeningAlone
  <2> QED
    BY <2>1 DEF IInv, OpeningAlone
<1>8. \A w : [kind |-> "WindowClosed", window |-> w] \in messages =>
                 [kind |-> "WindowClosed", window |-> w] \in messages'
  OBVIOUS
<1>9. OpenedOnce'
  BY <1>2, <1>8 DEF IInv, OpenedOnce
<1>10. ClosedIsClosed'
  BY DEF IInv, ClosedIsClosed
<1>11. HandlesCurrent' /\ TeardownsAreDue' /\ TrackedAreForgotten'
  BY <1>1, <1>3 DEF IInv, HandlesCurrent, TeardownsAreDue, TrackedAreForgotten
<1>12. MapsAgree' /\ WindowsShowTheRegistry'
  BY DEF IInv, MapsAgree, WindowsShowTheRegistry
<1>13. NoForgottenWindow'
  BY <1>2 DEF IInv, NoForgottenWindow
<1>14. LivePinsHaveAWindow'
  BY <1>1, <1>3, <1>8 DEF IInv, LivePinsHaveAWindow
<1> QED
  BY <1>1, <1>4, <1>5, <1>6, <1>7, <1>9, <1>10, <1>11, <1>12, <1>13, <1>14
  DEF IInv

(* A report of a size changes the size of a known window only. *)
LEMMA ResizedStep ==
    ASSUME IInv, NEW m \in messages, Resized(m)
    PROVE  IInv'
<1> DEFINE w == m.window
           aspect == windows[w]
<1>1. /\ m.kind = "Resized"
      /\ UNCHANGED <<nextId, pins, owed, events, pinToWindow, windowToPin,
                     windows, handles, nextWindow, opening, missed, swept,
                     raced>>
  BY DEF Resized, handlerVars, appVars, historyVars
<1>2. CASE w \in DOMAIN windows /\ w \in DOMAIN screen /\ m.shape # windows[w]
  <2>1. /\ screen' = [screen EXCEPT ![w] = aspect]
        /\ messages' = (messages \ {m}) \cup SizeReport(w, aspect)
    BY <1>2 DEF Resized
  <2>2. aspect \in Shape /\ w \in WindowId
    BY <1>2 DEF IInv, TypeOK
  <2>3. /\ SizeReport(w, aspect) \subseteq WindowMessage
        /\ \A n \in SizeReport(w, aspect) : n.kind = "Resized" /\ n.window = w
    BY <2>2, SizeReportFacts
  <2> HIDE DEF aspect
  <2>4. /\ DOMAIN screen' = DOMAIN screen
        /\ \A v \in DOMAIN screen' : screen'[v] \in Shape
    BY <1>2, <2>1, <2>2 DEF IInv, TypeOK
  <2>5. /\ messages' \subseteq WindowMessage
        /\ \A n \in messages \ messages' : n.kind = "Resized"
        /\ \A n \in messages' \ messages :
               n.kind = "Resized" /\ n.window \in DOMAIN screen
    BY <1>1, <1>2, <2>1, <2>3, Types
  <2> QED
    BY <1>1, <2>4, <2>5, ScreenStep
<1>3. CASE ~(w \in DOMAIN windows /\ w \in DOMAIN screen /\ m.shape # windows[w])
  <2>1. messages' = messages \ {m} /\ UNCHANGED screen
    BY <1>3 DEF Resized
  <2>2. \A v \in DOMAIN screen' : screen'[v] \in Shape
    BY <2>1 DEF IInv, TypeOK
  <2> QED
    BY <1>1, <2>1, <2>2, Types, ScreenStep
<1> QED
  BY <1>2, <1>3

(* The user takes a window away; the application hears of it later. *)
LEMMA UserCloseStep ==
    ASSUME IInv, NEW w \in WindowId, UserClose(w)
    PROVE  IInv'
<1>1. /\ CloseWindows({w})
      /\ UNCHANGED <<nextId, pins, owed, events, pinToWindow, windowToPin,
                     windows, handles, nextWindow, opening, missed, swept,
                     raced>>
  BY DEF UserClose, handlerVars, appVars, historyVars
<1>2. /\ DOMAIN screen' = DOMAIN screen \ {w}
      /\ \A v \in DOMAIN screen' : screen'[v] = screen[v]
      /\ messages \subseteq messages' /\ messages' \subseteq WindowMessage
  BY <1>1, CloseWindowsFacts
<1>3. \A m \in messages' \ messages :
          m.kind = "WindowClosed" /\ m.window \in {w} \cap DOMAIN screen
  BY <1>1, CloseWindowsFacts
<1>4. \A v \in {w} \cap DOMAIN screen :
          [kind |-> "WindowClosed", window |-> v] \in messages'
  BY <1>1, CloseWindowsFacts
<1>5. \A v \in DOMAIN screen' : screen'[v] \in Shape
  BY <1>2 DEF IInv, TypeOK
<1> QED
  BY <1>1, <1>2, <1>3, <1>4, <1>5, ScreenStep

(* The compositor opens a window once for each time it was asked. *)
LEMMA RuntimeOpenStep ==
    ASSUME IInv, NEW w \in WindowId, RuntimeOpen(w)
    PROVE  IInv'
<1> DEFINE p == opening[w].pin
           shape == opening[w].shape
           opened == [kind |-> "WindowOpened", window |-> w, pin |-> p]
<1>1. /\ w \in DOMAIN opening
      /\ UNCHANGED <<nextId, pins, owed, events, pinToWindow, windowToPin,
                     windows, handles, nextWindow, missed, swept, raced>>
      /\ screen' = Put(screen, w, shape)
      /\ messages' = messages \cup {opened} \cup SizeReport(w, shape)
      /\ opening' = Without(opening, {w})
  BY DEF RuntimeOpen, handlerVars, appVars, historyVars
<1>2. /\ p \in PinId /\ shape \in Shape
  BY <1>1 DEF IInv, TypeOK
<1>3. /\ w \notin DOMAIN screen /\ w \notin DOMAIN windowToPin
      /\ p \notin DOMAIN pinToWindow
      /\ \A v \in DOMAIN opening \ {w} : opening[v].pin # p
      /\ \A m \in messages :
             m.window # w /\ (m.kind = "WindowOpened" => m.pin # p)
      /\ w < nextWindow
  BY <1>1 DEF IInv, OpeningAlone, Minted
<1>4. /\ SizeReport(w, shape) \subseteq WindowMessage
      /\ \A m \in SizeReport(w, shape) : m.kind = "Resized" /\ m.window = w
  BY <1>2, SizeReportFacts
<1>5. /\ opened \in WindowMessage
      /\ opened.kind = "WindowOpened" /\ opened.window = w /\ opened.pin = p
  BY <1>2 DEF WindowMessage
<1>6. /\ DOMAIN screen' = DOMAIN screen \cup {w}
      /\ \A v \in DOMAIN screen' : screen'[v] \in Shape
  BY <1>1, <1>2 DEF Put, IInv, TypeOK
<1>7. /\ DOMAIN opening' = DOMAIN opening \ {w}
      /\ \A v \in DOMAIN opening' : opening'[v] = opening[v]
  BY <1>1 DEF Without, Restrict
<1> HIDE DEF opened
<1>8. /\ messages \subseteq messages' /\ opened \in messages'
      /\ \A m \in messages' \ messages :
             m = opened \/ (m.kind = "Resized" /\ m.window = w)
      /\ messages' \subseteq WindowMessage
  BY <1>1, <1>4, <1>5, Types
<1>9. Awaited' = Awaited
  <2>1. {opening[v].pin : v \in DOMAIN opening}
            = {opening'[v].pin : v \in DOMAIN opening'} \cup {p}
    <3>1. DOMAIN opening = DOMAIN opening' \cup {w}
      BY <1>1, <1>7
    <3>2. \A v \in DOMAIN opening' : opening'[v].pin = opening[v].pin
      BY <1>7
    <3> QED
      BY <3>1, <3>2
  <2>2. {m \in messages' : m.kind = "WindowOpened"}
            = {m \in messages : m.kind = "WindowOpened"} \cup {opened}
    BY <1>5, <1>8
  <2>3. {m.pin : m \in {n \in messages' : n.kind = "WindowOpened"}}
            = {m.pin : m \in {n \in messages : n.kind = "WindowOpened"}} \cup {p}
    BY <1>5, <2>2
  <2> QED
    BY <2>1, <2>3 DEF Awaited
<1>10. Tracked' = Tracked
  BY <1>1, <1>9 DEF Tracked
<1>11. /\ Coming' = Coming /\ Pending' = Pending /\ AskedOnce'
  BY <1>1, QueueUnchanged
<1> HIDE DEF p, shape
<1>12. TypeOK'
  <2>1. /\ DOMAIN opening' \subseteq WindowId
        /\ \A v \in DOMAIN opening' : opening'[v] \in [pin: PinId, shape: Shape]
        /\ DOMAIN screen' \subseteq WindowId
    BY <1>6, <1>7 DEF IInv, TypeOK
  <2> QED
    BY <1>1, <1>6, <1>8, <2>1 DEF IInv, TypeOK
<1>13. NoWindowYet' /\ WindowsCounted'
  BY <1>1, <1>9, <1>11 DEF IInv, NoWindowYet, WindowsCounted
<1>14. Minted'
  <2>1. \A m \in messages' : m.window < nextWindow
    BY <1>3, <1>5, <1>8 DEF IInv, Minted
  <2> QED
    BY <1>1, <1>3, <1>6, <1>7, <1>10, <1>11, <2>1 DEF IInv, Minted
<1>15. OpeningAlone'
  <2>1. \A v \in DOMAIN opening', m \in messages' :
            /\ m.window # v
            /\ m.kind = "WindowOpened" => m.pin # opening'[v].pin
    BY <1>3, <1>5, <1>7, <1>8 DEF IInv, OpeningAlone
  <2>2. \A v \in DOMAIN opening' :
            /\ v \in DOMAIN opening /\ v # w /\ opening'[v] = opening[v]
            /\ v \notin DOMAIN screen' /\ v \notin DOMAIN windowToPin'
            /\ opening'[v].pin \notin DOMAIN pinToWindow'
    BY <1>1, <1>6, <1>7 DEF IInv, OpeningAlone
  <2>3. \A u, v \in DOMAIN opening' :
            opening'[u].pin = opening'[v].pin => u = v
    BY <2>2 DEF IInv, OpeningAlone
  <2> QED
    BY <2>1, <2>2, <2>3 DEF OpeningAlone
<1>16. OpenedOnce'
  <2> SUFFICES ASSUME NEW m \in messages', m.kind = "WindowOpened"
               PROVE  /\ m.window \notin DOMAIN windowToPin
                      /\ m.pin \notin DOMAIN pinToWindow
                      /\ \A n \in messages' :
                             n.kind = "WindowOpened"
                             /\ (n.pin = m.pin \/ n.window = m.window) => n = m
                      /\ \/ m.window \in DOMAIN screen'
                         \/ [kind |-> "WindowClosed", window |-> m.window]
                                \in messages'
                         \/ m.pin \in raced
    BY <1>1 DEF OpenedOnce
  <2>1. \A n \in messages' : n.kind = "WindowOpened" =>
            n \in messages \/ n = opened
    BY <1>8
  <2>2. CASE m = opened
    BY <1>3, <1>5, <1>6, <2>1, <2>2
  <2>3. CASE m \in messages
    BY <1>3, <1>5, <1>6, <1>8, <2>1, <2>3 DEF IInv, OpenedOnce
  <2> QED
    BY <2>1, <2>2, <2>3
<1>17. ClosedIsClosed'
  BY <1>3, <1>5, <1>6, <1>8 DEF IInv, ClosedIsClosed
<1>18. HandlesCurrent' /\ TeardownsAreDue' /\ TrackedAreForgotten'
  BY <1>1, <1>10, <1>11
  DEF IInv, HandlesCurrent, TeardownsAreDue, TrackedAreForgotten
<1>19. MapsAgree' /\ WindowsShowTheRegistry'
  BY <1>1 DEF IInv, MapsAgree, WindowsShowTheRegistry
<1>20. NoForgottenWindow'
  BY <1>1, <1>5, <1>6, <1>8 DEF IInv, NoForgottenWindow
<1>21. LivePinsHaveAWindow'
  BY <1>1, <1>6, <1>8, <1>9, <1>11 DEF IInv, LivePinsHaveAWindow
<1> QED
  BY <1>11, <1>12, <1>13, <1>14, <1>15, <1>16, <1>17, <1>18, <1>19, <1>20,
     <1>21
  DEF IInv

-----------------------------------------------------------------------------
\* IInv is inductive.
LEMMA StepIInv == IInv /\ [Next]_vars => IInv'
<1> SUFFICES ASSUME IInv, [Next]_vars PROVE IInv'
  OBVIOUS
<1>1. ASSUME NEW h \in Handlers, Request(h) \/ NotifyGui(h) PROVE IInv'
  BY <1>1, RegisterPinStep, CloseStep, CloseAllStep, PinActionStep,
     NotifyGuiStep
  DEF Request
<1>2. ASSUME HandleEvent PROVE IInv'
  BY <1>2, OpenPinStep, ClosePinStep, CloseAllPinsStep, TransformPinStep
  DEF HandleEvent
<1>3. ASSUME NEW m \in messages, HandleMessage(m) PROVE IInv'
  BY <1>3, WindowOpenedStep, WindowClosedStep, ResizedStep DEF HandleMessage
<1>4. ASSUME NEW w \in WindowId, RuntimeOpen(w) \/ UserClose(w) PROVE IInv'
  BY <1>4, RuntimeOpenStep, UserCloseStep
<1>5. ASSUME NEW w \in WindowId, NEW t \in Transforms, KeyAction(w, t)
      PROVE  IInv'
  BY <1>5, KeyActionStep
<1>6. CASE UNCHANGED vars
  <2>1. /\ Coming' = Coming /\ Pending' = Pending /\ AskedOnce'
        /\ Awaited' = Awaited
    BY <1>6, QueueUnchanged DEF vars, Awaited
  <2>2. Tracked' = Tracked
    BY <1>6, <2>1 DEF vars, Tracked
  <2> QED
    BY <1>6, <2>1, <2>2
    DEF vars, IInv, TypeOK, NoWindowYet, WindowsCounted, Minted, OpeningAlone,
        OpenedOnce, ClosedIsClosed, HandlesCurrent, TeardownsAreDue,
        TrackedAreForgotten, MapsAgree, WindowsShowTheRegistry,
        NoForgottenWindow, LivePinsHaveAWindow
<1> QED
  BY <1>1, <1>2, <1>3, <1>4, <1>5, <1>6 DEF Next

\* IInv holds in every reachable state.
LEMMA Invariance == Spec => []IInv
BY InitIInv, StepIInv, PTL DEF Spec

\* Every variable keeps its type; in particular the windows the application
\* ever asks for are no more than the pins that were captured.
THEOREM TypeCorrect == Spec => []TypeOK
BY Invariance, PTL DEF IInv

\* app.rs:124-128: the three maps describe the same windows.
THEOREM TheMapsAgree == Spec => []MapsAgree
BY Invariance, PTL DEF IInv

\* app.rs:16-17, 112-118: windows draw, and are held to, what the registry has.
THEOREM WindowsAreCurrent == Spec => []WindowsShowTheRegistry
BY Invariance, PTL DEF IInv

\* app.rs:205-214, 462-470: no window on screen is forgotten.
THEOREM NoWindowIsForgotten == Spec => []NoForgottenWindow
BY Invariance, PTL DEF IInv

\* app.rs:40, 131-142: no state is kept of a closed pin, unless its teardown
\* is on its way or came before its window.
THEOREM ClosedPinsGo == Spec => []ClosedPinsAreForgotten
<1>1. IInv => ClosedPinsAreForgotten
  BY DEF IInv, TrackedAreForgotten, Tracked, ClosedPinsAreForgotten
<1> QED
  BY <1>1, Invariance, PTL

\* app.rs:1, 38: live pins have a window, or had one taken from them.
THEOREM LivePinsAreShown == Spec => []LivePinsHaveAWindow
BY Invariance, PTL DEF IInv
=============================================================================
