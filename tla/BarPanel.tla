------------------------------ MODULE BarPanel ------------------------------
(***************************************************************************)
(* The bar panel (Panel.qml, Model.js): its connection to the daemon, the  *)
(* list of pins with a keyboard cursor, and the installation of the        *)
(* backend in a terminal, against daemons that come and go.                *)
(*                                                                         *)
(* The panel runs in one event loop; each handler is one action.  Ids      *)
(* start over in every daemon, so a list of pins is a set of ids together  *)
(* with the daemon that sent it, which the panel itself does not know.     *)
(* Lists are shown in the order of their ids.  Errors, ages, sizes and     *)
(* badges are only displayed and left out, as is the time between two      *)
(* attempts to connect.                                                    *)
(*                                                                         *)
(* The daemon changes its pins, lists them and sends the list in three     *)
(* steps, on as many threads as have something to do, so that an older     *)
(* list may be sent after a newer one.  Who falls behind its events and is *)
(* sent the list anew is a matter of PinRegistry.                          *)
(***************************************************************************)
EXTENDS Integers, Sequences, FiniteSets

CONSTANTS
    MaxStarts,      \* bound: daemons that come up one after the other
    MaxPins,        \* bound: pins of one daemon
    MaxOthers,      \* bound: threads that change pins besides the panel's own
    MaxRequests,    \* bound: requests on their way
    MaxInstalls,    \* bound: terminals opened
    MaxTurns,       \* bound: daemons and terminals together
    Columns         \* the thumbnailColumns setting

ASSUME PanelAssumption ==
    /\ MaxStarts \in Nat
    /\ MaxPins \in Nat
    /\ MaxOthers \in Nat
    /\ MaxRequests \in Nat
    /\ MaxInstalls \in Nat
    /\ MaxTurns \in Nat
    /\ Columns \in 1 .. 5

PinId == 1 .. MaxPins
Generation == 0 .. MaxStarts
Install == 1 .. MaxInstalls

\* The threads of the daemon that change pins; the panel's connection is served
\* by one of them.
Session == 0
Publisher == Session .. MaxOthers

\* A change that nobody was told of yet, and then the list that is to be sent.
Publishing == [at: {"idle", "due", "listed"}, list: SUBSET PinId]
Idle == [at |-> "idle", list |-> {}]
Due == [at |-> "due", list |-> {}]
Listed(list) == [at |-> "listed", list |-> list]

\* What the daemon writes to the panel, as far as it matters here.
Message == [kind: {"hello"}] \cup [kind: {"event"}, pins: SUBSET PinId]

\* What the panel asks for; "by" is the daemon whose list the user looked at.
Request ==
    [kind: {"close", "copy"}, id: PinId, by: Generation]
    \cup [kind: {"close_all"}, by: Generation]

TerminalState == {"none", "launched", "unlaunched", "running", "ended"}

VARIABLES
    up,             \* whether a daemon is up
    generation,     \* which one it is, or was last
    live,           \* its pins
    minted,         \* ids it gave out
    publisher,      \* where each of its threads is with telling of a change
    informed,       \* history: the panel showed the pins after the last change
    subscribed,     \* whether the panel's connection is subscribed
    lines,          \* messages on their way to the panel
    requests,       \* requests on their way to the daemon
    sock,           \* the Socket: "none", "connecting", "open" or "dropped"
    link,           \* the daemon at the other end of an open socket
    greeted,        \* state.connected
    pins,           \* state.pins
    pinsOf,         \* history: the daemon that sent them
    cursorIndex,
    opened,
    present,        \* whether the osnip binary is there
    backendInstalled,
    backendChecked, \* whether a probe has exited
    probe,          \* probeProcess: "idle", or the answer it will exit with
    installing,
    terminals,      \* the terminal of each installation
    sentinels,      \* the sentinel files: "complete", "failed"
    watch,          \* installSentinelProcess: "idle", or the line it will print
    abandoned       \* history: whether the user closed an install terminal

daemonVars == <<up, generation, live, minted, publisher, informed>>
wireVars == <<subscribed, lines, requests>>
sockVars == <<sock, link>>
stateVars == <<greeted, pins, pinsOf>>
probeVars == <<backendInstalled, backendChecked, probe>>
installVars ==
    <<installing, terminals, sentinels, watch, abandoned>>
vars == <<daemonVars, wireVars, sockVars, stateVars, cursorIndex, opened,
          present, probeVars, installVars>>

TypeOK ==
    /\ up \in BOOLEAN /\ generation \in Generation
    /\ live \subseteq PinId /\ minted \in 0 .. MaxPins
    /\ publisher \in [Publisher -> Publishing]
    /\ informed \in BOOLEAN
    /\ subscribed \in BOOLEAN
    /\ lines \in Seq(Message)
    /\ requests \in Seq(Request)
    /\ sock \in {"none", "connecting", "open", "dropped"}
    /\ link \in Generation
    /\ greeted \in BOOLEAN /\ pins \subseteq PinId /\ pinsOf \in Generation
    /\ cursorIndex \in Nat
    /\ opened \in BOOLEAN /\ present \in BOOLEAN
    /\ backendInstalled \in BOOLEAN /\ backendChecked \in BOOLEAN
    /\ probe \in {"idle", "found", "missing"}
    /\ installing \in BOOLEAN
    /\ terminals \in [Install -> TerminalState]
    /\ sentinels \subseteq {"complete", "failed"}
    /\ watch \in {"idle", "silent", "done", "failed"}
    /\ abandoned \in BOOLEAN

\* The shell loads the panel, which probes for the backend at once.  A former
\* attempt to install it may have left its mark, which matters only as long as
\* the backend is not there.
Init ==
    /\ up = FALSE /\ generation = 0 /\ live = {} /\ minted = 0
    /\ publisher = [t \in Publisher |-> Idle] /\ informed = FALSE
    /\ subscribed = FALSE /\ lines = << >> /\ requests = << >>
    /\ sock = "none" /\ link = 0
    /\ greeted = FALSE /\ pins = {} /\ pinsOf = 0
    /\ cursorIndex = 0
    /\ opened = FALSE
    /\ present \in BOOLEAN
    /\ backendInstalled = FALSE /\ backendChecked = FALSE
    /\ probe = IF present THEN "found" ELSE "missing"
    /\ installing = FALSE
    /\ terminals = [i \in Install |-> "none"]
    /\ sentinels \in IF present THEN {{}} ELSE {{}, {"failed"}}
    /\ watch = "idle"
    /\ abandoned = FALSE

-----------------------------------------------------------------------------
(* The daemon *)

\* Thread t changes the pins, of which it has to tell yet.
Change(t, newPins) ==
    /\ publisher[t] = Idle
    /\ live' = newPins
    /\ publisher' = [publisher EXCEPT ![t] = Due]
    /\ informed' = FALSE

\* One more daemon or terminal is within the bound.
MayTurn ==
    generation + Cardinality({i \in Install : terminals[i] # "none"}) < MaxTurns

\* A CLI, the session or systemd starts a daemon.
DaemonStart ==
    /\ present
    /\ ~up
    /\ generation < MaxStarts /\ MayTurn
    /\ up' = TRUE
    /\ generation' = generation + 1
    /\ UNCHANGED <<live, minted, publisher, informed, wireVars, sockVars,
                   stateVars, cursorIndex, opened, present, probeVars,
                   installVars>>

\* It ends, and its pins and threads with it.
DaemonStop ==
    /\ up
    /\ up' = FALSE
    /\ live' = {} /\ minted' = 0
    /\ publisher' = [t \in Publisher |-> Idle] /\ informed' = FALSE
    /\ UNCHANGED <<generation, wireVars, sockVars, stateVars, cursorIndex,
                   opened, present, probeVars, installVars>>

\* Somebody captures a pin, or closes one.
DaemonPins(t) ==
    /\ up
    /\ t # Session
    /\ \/ /\ minted < MaxPins
          /\ minted' = minted + 1
          /\ Change(t, live \cup {minted'})
       \/ /\ \E id \in live : Change(t, live \ {id})
          /\ UNCHANGED minted
    /\ UNCHANGED <<up, generation, wireVars, sockVars, stateVars, cursorIndex,
                   opened, present, probeVars, installVars>>

\* publish takes the list, unless nobody at all is subscribed.
TakeList(t) ==
    /\ up
    /\ publisher[t] = Due
    /\ \/ publisher' = [publisher EXCEPT ![t] = Listed(live)]
       \/ ~subscribed /\ publisher' = [publisher EXCEPT ![t] = Idle]
    /\ UNCHANGED <<up, generation, live, minted, informed, wireVars, sockVars,
                   stateVars, cursorIndex, opened, present, probeVars,
                   installVars>>

\* It sends what it has listed to the subscribers there are by now.
SendList(t) ==
    /\ up
    /\ publisher[t].at = "listed"
    /\ publisher' = [publisher EXCEPT ![t] = Idle]
    /\ lines' = IF subscribed /\ link = generation
                THEN Append(lines,
                            [kind |-> "event", pins |-> publisher[t].list])
                ELSE lines
    /\ UNCHANGED <<up, generation, live, minted, informed, subscribed,
                   requests, sockVars, stateVars, cursorIndex, opened, present,
                   probeVars, installVars>>

\* The other end of an open socket is gone.
Broken == sock = "open" /\ ~(up /\ link = generation)

\* The daemon serves the next request of the panel, once it has told of what it
\* did for the one before.
DaemonServe ==
    /\ sock = "open" /\ ~Broken
    /\ requests # << >>
    /\ publisher[Session] = Idle
    /\ requests' = Tail(requests)
    /\ LET r == Head(requests) IN
       CASE r.kind = "close" /\ r.id \in live ->
                Change(Session, live \ {r.id})
         [] r.kind = "close_all" /\ live # {} -> Change(Session, {})
         [] OTHER -> UNCHANGED <<live, publisher, informed>>
    /\ UNCHANGED <<up, generation, minted, subscribed, lines, sockVars,
                   stateVars, cursorIndex, opened, present, probeVars,
                   installVars>>

-----------------------------------------------------------------------------
(* The connection *)

\* connectBackend: mount a fresh socket, unless one is open.
ConnectBackend(installed) ==
    sock' = IF installed /\ sock # "open" THEN "connecting" ELSE sock

\* Mutant: subscribe goes through root.send(), which has no socket yet.
OpenUnsubscribed ==
    /\ sock = "connecting"
    /\ up
    /\ sock' = "open"
    /\ link' = generation
    /\ UNCHANGED <<daemonVars, wireVars, stateVars, cursorIndex, opened,
                   present, probeVars, installVars>>

\* The socket connects.  Its handler writes subscribe through this instance;
\* the daemon greets and sends its pins.
SocketOpens ==
    /\ sock = "connecting"
    /\ up
    /\ sock' = "open"
    /\ link' = generation
    /\ subscribed' = TRUE
    /\ lines' = <<[kind |-> "hello"], [kind |-> "event", pins |-> live]>>
    /\ requests' = << >>
    /\ UNCHANGED <<daemonVars, stateVars, cursorIndex, opened, present,
                   probeVars, installVars>>

\* Mutant: the state outlives the connection.
DropKeepingState ==
    /\ \/ Broken
       \/ sock = "connecting" /\ ~up
    /\ sock' = "dropped"
    /\ subscribed' = FALSE /\ lines' = << >> /\ requests' = << >>
    /\ UNCHANGED <<daemonVars, link, stateVars, cursorIndex, opened, present,
                   probeVars, installVars>>

\* onConnectedChanged to false, or onError: the state is emptied.
SocketDrops ==
    /\ \/ Broken
       \/ sock = "connecting" /\ ~up
    /\ sock' = "dropped"
    /\ subscribed' = FALSE /\ lines' = << >> /\ requests' = << >>
    /\ greeted' = FALSE /\ pins' = {} /\ pinsOf' = 0
    /\ informed' = FALSE
    /\ UNCHANGED <<up, generation, live, minted, publisher, link, cursorIndex,
                   opened, present, probeVars, installVars>>

\* reconnectTimer
Reconnect ==
    /\ backendInstalled /\ sock # "open"
    /\ ConnectBackend(backendInstalled)
    /\ UNCHANGED <<daemonVars, wireVars, link, stateVars, cursorIndex, opened,
                   present, probeVars, installVars>>

\* Mutant: the cursor is left where it is.
Unclamped(index, total) == index

\* The end of handleLine: the cursor stays within a list that got shorter.
Clamped(index, total) ==
    IF index > total - 1 THEN IF total = 0 THEN 0 ELSE total - 1 ELSE index

\* handleLine and applyMessage.
HandleLine ==
    /\ sock = "open"
    /\ lines # << >>
    /\ lines' = Tail(lines)
    /\ LET m == Head(lines) IN
       IF m.kind = "hello"
       THEN greeted' = TRUE /\ UNCHANGED <<pins, pinsOf, informed>>
       ELSE /\ pins' = m.pins /\ pinsOf' = link /\ UNCHANGED greeted
            /\ informed' =
                   (informed \/ (up /\ link = generation /\ m.pins = live))
    /\ cursorIndex' = Clamped(cursorIndex, Cardinality(pins'))
    /\ UNCHANGED <<up, generation, live, minted, publisher, subscribed,
                   requests, sockVars, opened, present, probeVars,
                   installVars>>

-----------------------------------------------------------------------------
(* The user in the panel *)

Total == Cardinality(pins)

\* probeBackend: does nothing while a probe runs.
ProbeBackend ==
    probe' = IF probe # "idle" THEN probe
             ELSE IF present THEN "found" ELSE "missing"

\* probeProcess.onExited
ProbeExits ==
    /\ probe # "idle"
    /\ probe' = "idle"
    /\ backendInstalled' = (probe = "found") /\ backendChecked' = TRUE
    /\ ConnectBackend(probe = "found")
    /\ UNCHANGED <<daemonVars, wireVars, link, stateVars, cursorIndex, opened,
                   present, installVars>>

\* onOpenedChanged
Open ==
    /\ ~opened
    /\ opened' = TRUE
    /\ cursorIndex' = 0
    /\ ProbeBackend
    /\ ConnectBackend(backendInstalled)
    /\ UNCHANGED <<daemonVars, wireVars, link, stateVars, present,
                   backendInstalled, backendChecked, installVars>>

Close ==
    /\ opened
    /\ opened' = FALSE
    /\ UNCHANGED <<daemonVars, wireVars, sockVars, stateVars, cursorIndex,
                   present, probeVars, installVars>>

\* Model.gridColumns
GridColumns == IF Total > 0 /\ Total < Columns THEN Total ELSE Columns

\* Mutant: nothing keeps the cursor on the list.
MovedFreely(delta) == cursorIndex + delta

\* Model.moveCursor: clamped, not wrapped.
MovedCursor(delta) ==
    LET next == cursorIndex + delta IN
    IF next < 0 THEN 0 ELSE IF next > Total - 1 THEN Total - 1 ELSE next

\* An arrow key, or the pointer over a cell.
MoveCursor ==
    /\ opened
    /\ pins # {}
    /\ \/ \E delta \in {-1, 1, -GridColumns, GridColumns} :
              cursorIndex' = MovedCursor(delta)
       \/ cursorIndex' \in 0 .. Total - 1
    /\ UNCHANGED <<daemonVars, wireVars, sockVars, stateVars, opened, present,
                   probeVars, installVars>>

\* currentPin: there is none when the index is off the list.
CurrentPin ==
    {id \in pins : Cardinality({x \in pins : x < id}) = cursorIndex}

\* send(): needs an open socket.
Send(request) ==
    /\ Len(requests) < MaxRequests
    /\ requests' = IF sock = "open" THEN Append(requests, request) ELSE requests

\* activateCursor, deleteCursor, and the button that closes all.
Ask ==
    /\ opened
    /\ \/ \E id \in CurrentPin, kind \in {"copy", "close"} :
              Send([kind |-> kind, id |-> id, by |-> pinsOf])
       \/ pins # {} /\ Send([kind |-> "close_all", by |-> pinsOf])
    /\ UNCHANGED <<daemonVars, subscribed, lines, sockVars, stateVars,
                   cursorIndex, opened, present, probeVars, installVars>>

-----------------------------------------------------------------------------
(* Installing the backend *)

\* beginInstall, offered while the backend is missing.
BeginInstall(i) ==
    /\ opened /\ backendChecked /\ ~backendInstalled
    /\ ~installing
    /\ terminals[i] = "none" /\ MayTurn
    /\ installing' = TRUE
    /\ terminals' = [terminals EXCEPT ![i] = "launched"]
    /\ UNCHANGED <<daemonVars, wireVars, sockVars, stateVars, cursorIndex,
                   opened, present, probeVars, sentinels, watch,
                   abandoned>>

\* startDetached does not report that the terminal cannot be launched.
TerminalFails(i) ==
    /\ terminals[i] = "launched"
    /\ terminals' = [terminals EXCEPT ![i] = "unlaunched"]
    /\ UNCHANGED <<daemonVars, wireVars, sockVars, stateVars, cursorIndex,
                   opened, present, probeVars, installing,
                   sentinels, watch, abandoned>>

\* installCommand removes both sentinel files first.
TerminalStarts(i) ==
    /\ terminals[i] = "launched"
    /\ terminals' = [terminals EXCEPT ![i] = "running"]
    /\ sentinels' = {}
    /\ UNCHANGED <<daemonVars, wireVars, sockVars, stateVars, cursorIndex,
                   opened, present, probeVars, installing,
                   watch, abandoned>>

\* Mutant: a failure leaves no file.
EndsQuietly(i, ok) ==
    /\ terminals[i] = "running"
    /\ terminals' = [terminals EXCEPT ![i] = "ended"]
    /\ present' = (present \/ ok)
    /\ sentinels' = sentinels \cup (IF ok THEN {"complete"} ELSE {})
    /\ UNCHANGED <<daemonVars, wireVars, sockVars, stateVars, cursorIndex,
                   opened, probeVars, installing,
                   watch, abandoned>>

\* installCommand ends and leaves one of them.
TerminalEnds(i, ok) ==
    /\ terminals[i] = "running"
    /\ terminals' = [terminals EXCEPT ![i] = "ended"]
    /\ present' = (present \/ ok)
    /\ sentinels' = sentinels \cup {IF ok THEN "complete" ELSE "failed"}
    /\ UNCHANGED <<daemonVars, wireVars, sockVars, stateVars, cursorIndex,
                   opened, probeVars, installing,
                   watch, abandoned>>

\* The user closes the terminal before that.
TerminalClosed(i) ==
    /\ terminals[i] \in {"launched", "running"}
    /\ terminals' = [terminals EXCEPT ![i] = "ended"]
    /\ abandoned' = TRUE
    /\ UNCHANGED <<daemonVars, wireVars, sockVars, stateVars, cursorIndex,
                   opened, present, probeVars, installing,
                   sentinels, watch>>

\* installWatchTimer starts a process that looks at the files.
WatchTick ==
    /\ installing
    /\ watch = "idle"
    /\ watch' = CASE "complete" \in sentinels -> "done"
                  [] sentinels = {"failed"}   -> "failed"
                  [] OTHER                    -> "silent"
    /\ UNCHANGED <<daemonVars, wireVars, sockVars, stateVars, cursorIndex,
                   opened, present, probeVars, installing,
                   terminals, sentinels, abandoned>>

\* installSentinelProcess prints what it found.
WatchReads ==
    /\ watch # "idle"
    /\ watch' = "idle"
    /\ installing' = (installing /\ watch = "silent")
    /\ IF watch = "done" THEN ProbeBackend ELSE UNCHANGED probe
    /\ UNCHANGED <<daemonVars, wireVars, sockVars, stateVars, cursorIndex,
                   opened, present, backendInstalled, backendChecked, terminals,
                   sentinels, abandoned>>

-----------------------------------------------------------------------------
Publish(t) == TakeList(t) \/ SendList(t)

Daemon ==
    \/ DaemonStart \/ DaemonStop \/ DaemonServe
    \/ \E t \in Publisher : DaemonPins(t) \/ Publish(t)

Socket == SocketOpens \/ SocketDrops \/ HandleLine

Launch(i) == TerminalStarts(i) \/ TerminalFails(i)

Terminal(i) ==
    \/ Launch(i) \/ TerminalClosed(i)
    \/ \E ok \in BOOLEAN : TerminalEnds(i, ok)

Next ==
    \/ Daemon
    \/ Socket \/ Reconnect
    \/ ProbeExits
    \/ Open \/ Close \/ MoveCursor \/ Ask
    \/ \E i \in Install : BeginInstall(i) \/ Terminal(i)
    \/ WatchTick \/ WatchReads

Spec == Init /\ [][Next]_vars

\* The threads of a daemon that has changed its pins run on.  The event loop
\* delivers what the socket, the timers and the processes have to say, and a
\* terminal comes up or does not.  Neither the user nor a daemon nor an
\* installer has to do anything else.
Fairness ==
    /\ \A t \in Publisher : WF_vars(Publish(t))
    /\ WF_vars(Socket)
    /\ WF_vars(Reconnect)
    /\ WF_vars(ProbeExits)
    /\ \A i \in Install : WF_vars(Launch(i))
    /\ WF_vars(WatchTick) /\ WF_vars(WatchReads)

FairSpec == Spec /\ Fairness

-----------------------------------------------------------------------------
(* Properties *)

\* Panel.qml:96-98, 138-147: whatever is moved, closed, dropped and listed
\* again, the cursor is on the list, so that a key always finds a pin.
CursorOnTheList == pins # {} => CurrentPin # {}

\* Panel.qml:206-225: ids start over in every daemon; a request reaches only
\* the daemon whose pins the user was looking at, however often daemons are
\* replaced behind the socket.
RequestsMeanTheirPins ==
    \A i \in DOMAIN requests : requests[i].by = link

\* Panel.qml:229-233: while a daemon is up the panel comes to show its pins as
\* they are after their last change, also when it is closed, and although
\* daemons were replaced before.  That it goes on showing them is not promised:
\* a list that is older and sent later may follow.
PanelCatchesUp ==
    up /\ backendInstalled ~> informed \/ ~up \/ ~backendInstalled

\* The user may still be asked something.
TerminalOpen == \E i \in Install : terminals[i] = "running"

\* Nobody will tell the panel how the installation ended: the terminal could
\* not be launched, or the user closed it.
Forsaken == abandoned \/ \E i \in Install : terminals[i] = "unlaunched"

\* Model.js:274-276: the panel stops waiting for an installation, unless the
\* terminal is still open or the installation is forsaken.
InstallIsNoticed == installing ~> ~installing \/ TerminalOpen \/ Forsaken
=============================================================================
