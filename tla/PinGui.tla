------------------------------- MODULE PinGui -------------------------------
(***************************************************************************)
(* The IPC handlers (handlers.rs) and the iced application (app.rs), which *)
(* share the pin registry and are joined by a one-way queue of AppEvents.  *)
(*                                                                         *)
(* A handler changes the registry and then, in a second step, sends the    *)
(* event; the application looks at the registry again when it handles the  *)
(* event.  A window is asked for in one message and known to the           *)
(* application from a later one, and what the compositor does with it      *)
(* arrives on streams of their own, in no fixed order.                     *)
(*                                                                         *)
(* Each registry call is one step here: PinRegistryProofs proves that the  *)
(* registry behaves as one atomic set of pins.  Pixels are a shape (what   *)
(* rotations change) and a reflection (what flips change); window sizes    *)
(* are kept as shapes only.                                                *)
(***************************************************************************)
EXTENDS Naturals, Sequences, FiniteSets, Maps

CONSTANTS
    Handlers,       \* tasks that serve one IPC request at a time
    MaxPins,        \* bound: pins captured
    MaxBacklog,     \* bound: events waiting when a pin action is accepted
    Transforms,     \* bound: the pin actions that are asked for
    Reported,       \* bound: windows whose size the compositor reports
    None            \* Option::None

ASSUME GuiAssumption ==
    /\ MaxPins \in Nat
    /\ MaxBacklog \in Nat
    /\ Transforms \subseteq {"rotate", "flip"}
    /\ Reported \subseteq 1 .. MaxPins
    /\ None \notin 1 .. MaxPins

PinId == 1 .. MaxPins

\* window::Id.  A window is asked for once per pin at most.
WindowId == 1 .. MaxPins

\* Proportions of an image or a window: as captured, turned by a rotation,
\* or neither.
Shape == {"captured", "turned", "square"}

\* RgbaImage with its logical size.
Image == [shape: {"captured", "turned"}, flipped: BOOLEAN]

\* Two kinds of pin action: one swaps width and height, one does not.  Copy
\* and save change nothing here.
Transform == {"rotate", "flip"}

AppEvent ==
    [kind: {"OpenPin", "ClosePin"} \cup Transform, pin: PinId]
    \cup [kind: {"CloseAllPins"}, pin: {None}]

\* None is not an event: a handler that owes one owes it for real.
ASSUME NoneIsNoEvent == None \notin AppEvent

\* What the iced runtime has to tell the application about windows.
WindowMessage ==
    [kind: {"WindowOpened"}, window: WindowId, pin: PinId]
    \cup [kind: {"WindowClosed"}, window: WindowId]
    \cup [kind: {"Resized"}, window: WindowId, shape: Shape]

VARIABLES
    nextId,         \* the id the next pin gets
    pins,           \* the registry: pin -> its pixels
    owed,           \* the event each handler still has to send, or None
    events,         \* the IPC->GUI queue
    pinToWindow,    \* App::pin_to_window
    windowToPin,    \* App::window_to_pin
    windows,        \* App::windows: window -> the aspect it is held to
    handles,        \* App::handles: pin -> the pixels that are drawn
    nextWindow,     \* the id the next window gets
    opening,        \* windows asked for: window -> its pin and shape
    screen,         \* windows the compositor shows: window -> shape
    messages,       \* window messages the application did not handle yet
    missed,         \* history: pins whose teardown found no window
    swept,          \* history: live pins whose window CloseAllPins closed
    raced           \* history: pins whose WindowClosed came before WindowOpened

handlerVars == <<nextId, pins, owed>>
appVars == <<pinToWindow, windowToPin, windows, handles>>
runtimeVars == <<nextWindow, opening, screen, messages>>
historyVars == <<missed, swept, raced>>
vars == <<nextId, pins, owed, events, pinToWindow, windowToPin, windows,
          handles, nextWindow, opening, screen, messages, missed, swept, raced>>

TypeOK ==
    /\ nextId \in 1 .. MaxPins + 1
    /\ DOMAIN pins \subseteq PinId
    /\ \A p \in DOMAIN pins : pins[p] \in Image
    /\ owed \in [Handlers -> AppEvent \cup {None}]
    /\ events \in Seq(AppEvent)
    /\ DOMAIN pinToWindow \subseteq PinId
    /\ \A p \in DOMAIN pinToWindow : pinToWindow[p] \in WindowId
    /\ DOMAIN windowToPin \subseteq WindowId
    /\ \A w \in DOMAIN windowToPin : windowToPin[w] \in PinId
    /\ DOMAIN windows \subseteq WindowId
    /\ \A w \in DOMAIN windows : windows[w] \in Shape
    /\ DOMAIN handles \subseteq PinId
    /\ \A p \in DOMAIN handles : handles[p] \in Image
    /\ nextWindow \in 1 .. MaxPins + 1
    /\ DOMAIN opening \subseteq WindowId
    /\ \A w \in DOMAIN opening : opening[w] \in [pin: PinId, shape: Shape]
    /\ DOMAIN screen \subseteq WindowId
    /\ \A w \in DOMAIN screen : screen[w] \in Shape
    /\ messages \subseteq WindowMessage
    /\ missed \subseteq PinId /\ swept \subseteq PinId /\ raced \subseteq PinId

Init ==
    /\ nextId = 1
    /\ pins = EmptyMap
    /\ owed = [h \in Handlers |-> None]
    /\ events = << >>
    /\ pinToWindow = EmptyMap
    /\ windowToPin = EmptyMap
    /\ windows = EmptyMap
    /\ handles = EmptyMap
    /\ nextWindow = 1
    /\ opening = EmptyMap
    /\ screen = EmptyMap
    /\ messages = {}
    /\ missed = {} /\ swept = {} /\ raced = {}

\* The pins whose window was asked for and is not known to the App yet.
Awaited ==
    {opening[w].pin : w \in DOMAIN opening}
    \cup {m.pin : m \in {n \in messages : n.kind = "WindowOpened"}}

-----------------------------------------------------------------------------
(* The handlers: change the registry, then tell the application. *)

\* A handler between two requests takes one and owes the event e for it.
Accept(h, e) ==
    /\ owed[h] = None
    /\ owed' = [owed EXCEPT ![h] = e]
    /\ UNCHANGED <<events, appVars, runtimeVars, historyVars>>

\* register_pin, the tail of a capture and of a clipboard request.
RegisterPin(h) ==
    /\ nextId <= MaxPins
    /\ pins' = Put(pins, nextId, [shape |-> "captured", flipped |-> FALSE])
    /\ nextId' = nextId + 1
    /\ Accept(h, [kind |-> "OpenPin", pin |-> nextId])

\* IpcRequest::Close of a pin that exists; otherwise nothing happens.
Close(h, p) ==
    /\ p \in DOMAIN pins
    /\ pins' = Without(pins, {p})
    /\ UNCHANGED nextId
    /\ Accept(h, [kind |-> "ClosePin", pin |-> p])

\* IpcRequest::CloseAll while there are pins; otherwise nothing happens.
CloseAll(h) ==
    /\ DOMAIN pins # {}
    /\ pins' = EmptyMap
    /\ UNCHANGED nextId
    /\ Accept(h, [kind |-> "CloseAllPins", pin |-> None])

\* IpcRequest::PinAction on a pin that exists; otherwise nothing happens.
PinAction(h, p, transform) ==
    /\ Len(events) < MaxBacklog
    /\ p \in DOMAIN pins
    /\ UNCHANGED <<nextId, pins>>
    /\ Accept(h, [kind |-> transform, pin |-> p])

\* Mutant: an event is sent after every request, whether or not one is due.
NotifyAlways(h) ==
    /\ Len(events) < 3
    /\ events' = Append(events, owed[h])
    /\ owed' = [owed EXCEPT ![h] = None]
    /\ UNCHANGED <<nextId, pins, appVars, runtimeVars, historyVars>>

\* HandlerConfig::notify_gui.
NotifyGui(h) ==
    /\ owed[h] # None
    /\ events' = Append(events, owed[h])
    /\ owed' = [owed EXCEPT ![h] = None]
    /\ UNCHANGED <<nextId, pins, appVars, runtimeVars, historyVars>>

-----------------------------------------------------------------------------
(* App::update on an AppEvent *)

Event(kind) ==
    /\ events # << >>
    /\ Head(events).kind = kind
    /\ events' = Tail(events)

\* window::close: the compositor drops the window, and says so afterwards.
CloseWindows(W) ==
    /\ screen' = Without(screen, W)
    /\ messages' = messages \cup
                       [kind: {"WindowClosed"}, window: W \cap DOMAIN screen]

\* Mutant: a window is not asked for while another one is coming up.
OpenOneByOne ==
    LET p == Head(events).pin IN
    /\ Event("OpenPin")
    /\ IF p \in DOMAIN pins /\ opening = EmptyMap
       THEN /\ opening' = Put(opening, nextWindow,
                              [pin |-> p, shape |-> pins[p].shape])
            /\ nextWindow' = nextWindow + 1
       ELSE UNCHANGED <<opening, nextWindow>>
    /\ UNCHANGED <<handlerVars, appVars, screen, messages, historyVars>>

\* open_pin: ask for a window of the size the pin has now, unless the pin has
\* one or was closed meanwhile.
OpenPin ==
    LET p == Head(events).pin IN
    /\ Event("OpenPin")
    /\ IF p \notin DOMAIN pinToWindow /\ p \in DOMAIN pins
       THEN /\ opening' = Put(opening, nextWindow,
                              [pin |-> p, shape |-> pins[p].shape])
            /\ nextWindow' = nextWindow + 1
       ELSE UNCHANGED <<opening, nextWindow>>
    /\ UNCHANGED <<handlerVars, appVars, screen, messages, historyVars>>

\* Mutant: the reverse map keeps the window.
ClosePinOneWay ==
    LET p == Head(events).pin IN
    /\ Event("ClosePin")
    /\ IF p \in DOMAIN pinToWindow
       THEN /\ pinToWindow' = Without(pinToWindow, {p})
            /\ windows' = Without(windows, {pinToWindow[p]})
            /\ handles' = Without(handles, {p})
            /\ CloseWindows({pinToWindow[p]})
       ELSE UNCHANGED <<pinToWindow, windows, handles, screen, messages>>
    /\ UNCHANGED <<handlerVars, windowToPin, nextWindow, opening, historyVars>>

\* close_pin: tear the pin's window down, if it is known.
ClosePin ==
    LET p == Head(events).pin IN
    /\ Event("ClosePin")
    /\ IF p \in DOMAIN pinToWindow
       THEN LET w == pinToWindow[p] IN
            /\ pinToWindow' = Without(pinToWindow, {p})
            /\ windowToPin' = Without(windowToPin, {w})
            /\ windows' = Without(windows, {w})
            /\ handles' = Without(handles, {p})
            /\ CloseWindows({w})
       ELSE UNCHANGED <<appVars, screen, messages>>
    /\ missed' = missed \cup ({p} \ DOMAIN pinToWindow)
    /\ UNCHANGED <<handlerVars, nextWindow, opening, swept, raced>>

\* Mutant: the maps are cleared and no window is closed.
ForgetAllPins ==
    /\ Event("CloseAllPins")
    /\ pinToWindow' = EmptyMap
    /\ windowToPin' = EmptyMap
    /\ windows' = EmptyMap
    /\ handles' = EmptyMap
    /\ missed' = missed \cup (Awaited \ DOMAIN pins)
    /\ swept' = swept \cup (DOMAIN pinToWindow \cap DOMAIN pins)
    /\ UNCHANGED <<handlerVars, runtimeVars, raced>>

\* Mutant: only the pins with a window lose their pixels.
CloseWindowedPins ==
    /\ Event("CloseAllPins")
    /\ pinToWindow' = EmptyMap
    /\ windowToPin' = EmptyMap
    /\ windows' = EmptyMap
    /\ handles' = Without(handles, DOMAIN pinToWindow)
    /\ CloseWindows(DOMAIN windowToPin)
    /\ missed' = missed \cup (Awaited \ DOMAIN pins)
    /\ swept' = swept \cup (DOMAIN pinToWindow \cap DOMAIN pins)
    /\ UNCHANGED <<handlerVars, nextWindow, opening, raced>>

\* close_all_pins: tear every known window down.
CloseAllPins ==
    /\ Event("CloseAllPins")
    /\ pinToWindow' = EmptyMap
    /\ windowToPin' = EmptyMap
    /\ windows' = EmptyMap
    /\ handles' = EmptyMap
    /\ CloseWindows(DOMAIN windowToPin)
    /\ missed' = missed \cup (Awaited \ DOMAIN pins)
    /\ swept' = swept \cup (DOMAIN pinToWindow \cap DOMAIN pins)
    /\ UNCHANGED <<handlerVars, nextWindow, opening, raced>>

Turned(shape) ==
    CASE shape = "captured" -> "turned"
      [] shape = "turned"   -> "captured"
      [] shape = "square"   -> "square"

\* image_ops: what a transform does to the pixels.
Transformed(image, transform) ==
    IF transform = "rotate" THEN [image EXCEPT !.shape = Turned(@)]
                            ELSE [image EXCEPT !.flipped = ~@]

\* The compositor reports the size of a window.
SizeReport(w, shape) ==
    [kind: {"Resized"}, window: {w} \cap Reported, shape: {shape}]

\* window::resize: the compositor gives the window the shape and reports it.
ResizeWindow(w, shape) ==
    IF w \in DOMAIN screen
    THEN /\ screen' = [screen EXCEPT ![w] = shape]
         /\ messages' = messages \cup SizeReport(w, shape)
    ELSE UNCHANGED <<screen, messages>>

\* App::transform of a live pin: swap the pixels and the handle; a rotation
\* also turns the window, if there is one.
ApplyTransform(p, transform) ==
    /\ pins' = [pins EXCEPT ![p] = Transformed(@, transform)]
    /\ handles' = Put(handles, p, pins'[p])
    /\ IF transform = "rotate" /\ p \in DOMAIN pinToWindow
       THEN LET w == pinToWindow[p] IN
            /\ windows' = [windows EXCEPT ![w] = Turned(@)]
            /\ ResizeWindow(w, Turned(windows[w]))
       ELSE UNCHANGED <<windows, screen, messages>>
    /\ UNCHANGED <<nextId, owed, pinToWindow, windowToPin, nextWindow, opening,
                   historyVars>>

\* dispatch_action for an action accepted by a handler.  A pin that was
\* closed since is left alone.
TransformPin(transform) ==
    LET p == Head(events).pin IN
    /\ Event(transform)
    /\ IF p \in DOMAIN pins
       THEN ApplyTransform(p, transform)
       ELSE UNCHANGED <<handlerVars, appVars, runtimeVars, historyVars>>

HandleEvent ==
    OpenPin \/ ClosePin \/ CloseAllPins \/ \E t \in Transforms : TransformPin(t)

-----------------------------------------------------------------------------
(* App::update on a message about a window *)

\* on_action: a key pressed in a window whose pin is known and alive.
KeyAction(w, transform) ==
    /\ w \in DOMAIN windowToPin
    /\ windowToPin[w] \in DOMAIN pins
    /\ ApplyTransform(windowToPin[w], transform)
    /\ UNCHANGED events

\* The aspect a window is opened with; a pin that is gone has none.
AspectNow(p) == IF p \in DOMAIN pins THEN pins[p].shape ELSE "square"

\* Mutant: the aspect is the one the pin was captured with.
OpenedAsCaptured(m) ==
    /\ m \in messages
    /\ m.kind = "WindowOpened"
    /\ pinToWindow' = Put(pinToWindow, m.pin, m.window)
    /\ windowToPin' = Put(windowToPin, m.window, m.pin)
    /\ handles' = IF m.pin \in DOMAIN pins /\ m.pin \notin DOMAIN handles
                  THEN Put(handles, m.pin, pins[m.pin]) ELSE handles
    /\ windows' = Put(windows, m.window, "captured")
    /\ messages' = messages \ {m}
    /\ UNCHANGED <<handlerVars, events, nextWindow, opening, screen, historyVars>>

\* Message::WindowOpened.
WindowOpened(m) ==
    /\ m \in messages
    /\ m.kind = "WindowOpened"
    /\ pinToWindow' = Put(pinToWindow, m.pin, m.window)
    /\ windowToPin' = Put(windowToPin, m.window, m.pin)
    /\ handles' = IF m.pin \in DOMAIN pins /\ m.pin \notin DOMAIN handles
                  THEN Put(handles, m.pin, pins[m.pin]) ELSE handles
    /\ windows' = Put(windows, m.window, AspectNow(m.pin))
    /\ messages' = messages \ {m}
    /\ UNCHANGED <<handlerVars, events, nextWindow, opening, screen, historyVars>>

\* Mutant: the pin stays in the registry.
WindowClosedOnly(m) ==
    /\ m \in messages
    /\ m.kind = "WindowClosed"
    /\ messages' = messages \ {m}
    /\ windows' = Without(windows, {m.window})
    /\ IF m.window \in DOMAIN windowToPin
       THEN LET p == windowToPin[m.window] IN
            /\ windowToPin' = Without(windowToPin, {m.window})
            /\ pinToWindow' = Without(pinToWindow, {p})
            /\ handles' = Without(handles, {p})
       ELSE UNCHANGED <<windowToPin, pinToWindow, handles>>
    /\ UNCHANGED <<handlerVars, events, nextWindow, opening, screen, historyVars>>

\* Message::WindowClosed: the registry forgets the pin too, and nobody is told.
WindowClosed(m) ==
    /\ m \in messages
    /\ m.kind = "WindowClosed"
    /\ messages' = messages \ {m}
    /\ windows' = Without(windows, {m.window})
    /\ IF m.window \in DOMAIN windowToPin
       THEN LET p == windowToPin[m.window] IN
            /\ windowToPin' = Without(windowToPin, {m.window})
            /\ pinToWindow' = Without(pinToWindow, {p})
            /\ handles' = Without(handles, {p})
            /\ pins' = Without(pins, {p})
       ELSE UNCHANGED <<windowToPin, pinToWindow, handles, pins>>
    /\ raced' = raced \cup {n.pin : n \in {k \in messages :
                    k.kind = "WindowOpened" /\ k.window = m.window}}
    /\ UNCHANGED <<nextId, owed, events, nextWindow, opening, screen, missed,
                   swept>>

\* on_resized: a known window that does not have its aspect is resized to it.
Resized(m) ==
    /\ m \in messages
    /\ m.kind = "Resized"
    /\ LET w == m.window IN
       IF w \in DOMAIN windows /\ w \in DOMAIN screen /\ m.shape # windows[w]
       THEN /\ screen' = [screen EXCEPT ![w] = windows[w]]
            /\ messages' = (messages \ {m}) \cup SizeReport(w, windows[w])
       ELSE /\ messages' = messages \ {m}
            /\ UNCHANGED screen
    /\ UNCHANGED <<handlerVars, events, appVars, nextWindow, opening,
                   historyVars>>

HandleMessage(m) == WindowOpened(m) \/ WindowClosed(m) \/ Resized(m)

-----------------------------------------------------------------------------
(* The iced runtime and the user *)

\* The window comes up with the size that was asked for; the application and
\* its event filter are told separately.
RuntimeOpen(w) ==
    /\ w \in DOMAIN opening
    /\ screen' = Put(screen, w, opening[w].shape)
    /\ messages' = messages \cup
           {[kind |-> "WindowOpened", window |-> w, pin |-> opening[w].pin]}
           \cup SizeReport(w, opening[w].shape)
    /\ opening' = Without(opening, {w})
    /\ UNCHANGED <<handlerVars, events, appVars, nextWindow, historyVars>>

\* The user closes a window.
UserClose(w) ==
    /\ w \in DOMAIN screen
    /\ CloseWindows({w})
    /\ UNCHANGED <<handlerVars, events, appVars, nextWindow, opening,
                   historyVars>>

-----------------------------------------------------------------------------
Request(h) ==
    \/ RegisterPin(h)
    \/ \E p \in PinId : Close(h, p)
    \/ CloseAll(h)
    \/ \E p \in PinId, t \in Transforms : PinAction(h, p, t)

Next ==
    \/ \E h \in Handlers : Request(h) \/ NotifyGui(h)
    \/ HandleEvent
    \/ \E m \in messages : HandleMessage(m)
    \/ \E w \in WindowId : RuntimeOpen(w) \/ UserClose(w)
    \/ \E w \in WindowId, t \in Transforms : KeyAction(w, t)

Spec == Init /\ [][Next]_vars

\* A handler that owes an event sends it, the iced loop takes every message,
\* the compositor opens the windows it is asked for.  Clients and the user
\* need not do anything.
Fairness ==
    /\ \A h \in Handlers : WF_vars(NotifyGui(h))
    /\ WF_vars(HandleEvent)
    /\ \A m \in WindowMessage : WF_vars(HandleMessage(m))
    /\ \A w \in WindowId : WF_vars(RuntimeOpen(w))

FairSpec == Spec /\ Fairness

-----------------------------------------------------------------------------
(* Properties *)

\* app.rs:124-128: the three maps describe the same windows.
MapsAgree ==
    /\ DOMAIN windows = DOMAIN windowToPin
    /\ \A w \in DOMAIN windowToPin :
           /\ windowToPin[w] \in DOMAIN pinToWindow
           /\ pinToWindow[windowToPin[w]] = w
    /\ \A p \in DOMAIN pinToWindow :
           /\ pinToWindow[p] \in DOMAIN windowToPin
           /\ windowToPin[pinToWindow[p]] = p

\* app.rs:16-17, 112-118: what a window draws, and the aspect it is held to,
\* are the registry's, although pins are transformed over the socket while
\* their window is still coming up.
WindowsShowTheRegistry ==
    \A w \in DOMAIN windowToPin :
        LET p == windowToPin[w] IN
        p \in DOMAIN pins =>
            /\ p \in DOMAIN handles /\ handles[p] = pins[p]
            /\ windows[w] = pins[p].shape

\* app.rs:205-214, 462-470: the application never lets go of a window that
\* is still on screen.
NoForgottenWindow ==
    \A w \in DOMAIN screen :
        \/ w \in DOMAIN windowToPin
        \/ \E m \in messages : m.kind = "WindowOpened" /\ m.window = w

\* Events that were queued or that a handler is about to queue.
Coming ==
    {events[i] : i \in DOMAIN events} \cup ({owed[h] : h \in Handlers} \ {None})

\* app.rs:40, 131-142: the application keeps a window or pixels of a pin that
\* is gone only while the event that tears it down is on its way, or if that
\* event came before the window did.
ClosedPinsAreForgotten ==
    \A p \in DOMAIN pinToWindow \cup DOMAIN handles :
        \/ p \in DOMAIN pins
        \/ p \in missed
        \/ \E e \in Coming :
               \/ e.kind = "ClosePin" /\ e.pin = p
               \/ e.kind = "CloseAllPins"

\* app.rs:1, 38: a live pin has a window on screen, or one is coming up or
\* being closed, except where CloseAllPins swept a newer pin's window away or
\* the two window messages were reordered.
LivePinsHaveAWindow ==
    \A p \in DOMAIN pins :
        \/ p \in swept \cup raced
        \/ \E e \in Coming : e.kind = "OpenPin" /\ e.pin = p
        \/ p \in Awaited
        \/ /\ p \in DOMAIN pinToWindow
           /\ \/ pinToWindow[p] \in DOMAIN screen
              \/ [kind |-> "WindowClosed", window |-> pinToWindow[p]] \in messages

\* The same as progress: a pin that was registered gets its window.
PinEventuallyShown ==
    \A p \in PinId :
        p \in DOMAIN pins ~>
            \/ p \notin DOMAIN pins
            \/ p \in swept \cup raced
            \/ p \in DOMAIN pinToWindow

\* Nothing is on its way.
Quiet ==
    /\ Coming = {}
    /\ opening = EmptyMap
    /\ messages = {}

\* app.rs:40 says that closing a pin over the socket tears down its window.
NoOrphanWindow ==
    Quiet => \A w \in DOMAIN screen :
                 w \in DOMAIN windowToPin => windowToPin[w] \in DOMAIN pins
=============================================================================
