--------------------------- MODULE BarPanelProofs ---------------------------
(***************************************************************************)
(* Machine-checked proofs about BarPanel, for any number of daemons, pins, *)
(* requests, installations and columns.                                    *)
(***************************************************************************)
EXTENDS BarPanel, DataTheorems

(* Lemmas about finite sets of numbers *)

\* The elements of S that come before id.
Below(S, id) == {x \in S : x < id}

\* The elements of a finite set of numbers can be counted from the least: for
\* every index there is one with that many below it.
LEMMA EveryIndexIsARank ==
    ASSUME NEW n \in Nat, NEW S, S \subseteq 1 .. n,
           NEW k \in Nat, k < Cardinality(S)
    PROVE  \E id \in S : Cardinality(Below(S, id)) = k
<1> DEFINE below(id) == {x \in S : x < id}
           late == {id \in S : k <= Cardinality(below(id))}
<1>0. \A x \in S : x \in Int
  OBVIOUS
<1>1. IsFiniteSet(S) /\ Cardinality(S) \in Nat
  <2>1. IsFiniteSet(1 .. n)
    BY FS_Interval
  <2> QED
    BY <2>1, FS_Subset, FS_CardinalityType
<1>2. \A id \in S : IsFiniteSet(below(id)) /\ Cardinality(below(id)) \in Nat
  <2> SUFFICES ASSUME NEW id \in S
               PROVE  IsFiniteSet(below(id)) /\ Cardinality(below(id)) \in Nat
    OBVIOUS
  <2>1. below(id) \in SUBSET S
    OBVIOUS
  <2> QED
    BY <1>1, <2>1, FS_Subset, FS_CardinalityType
<1>3. late # {}
  <2>1. S # {}
    BY <1>1, FS_EmptySet
  <2>2. PICK top \in S : \A y \in S : y <= top
    BY <2>1, GreatestExists
  <2>3. S = below(top) \cup {top} /\ top \notin below(top)
    <3>1. \A y \in S : y = top \/ y < top
      BY <1>0, <2>2
    <3>2. top \in Int /\ ~(top < top)
      BY <1>0
    <3> QED
      BY <3>1, <3>2
  <2>4. Cardinality(S) = Cardinality(below(top)) + 1
    <3>1. IsFiniteSet(below(top))
      BY <1>2
    <3> HIDE DEF below
    <3> QED
      BY <2>3, <3>1, FS_AddElement
  <2>5. k <= Cardinality(below(top))
    BY <1>2, <2>4
  <2> QED
    BY <2>5
<1>4. PICK id \in late : \A y \in late : id <= y
  <2>1. late \subseteq S /\ S \subseteq Nat
    <3>1. late \subseteq S
      OBVIOUS
    <3> QED
      BY <3>1
  <2> HIDE DEF late
  <2> QED
    BY <1>3, <2>1, LeastExists
<1>5. Cardinality(below(id)) = k
  <2> SUFFICES ASSUME Cardinality(below(id)) > k PROVE FALSE
    BY <1>2
  <2>1. below(id) # {} /\ below(id) \subseteq 1 .. n
    <3>1. below(id) \subseteq S
      OBVIOUS
    <3>2. Cardinality(below(id)) # 0
      BY <1>2
    <3> HIDE DEF below
    <3> QED
      BY <3>1, <3>2, FS_EmptySet
  <2>2. PICK top \in below(id) : \A y \in below(id) : y <= top
    BY <2>1, GreatestExists
  <2>3. below(id) = below(top) \cup {top} /\ top \notin below(top) /\ top \in S
    <3>1. /\ id \in S /\ id \in Int /\ top \in S /\ top \in Int /\ top < id
          /\ ~(top < top)
      BY <1>0
    <3>2. \A y \in S : y < id <=> y = top \/ y < top
      BY <1>0, <2>2, <3>1
    <3> QED
      BY <3>1, <3>2
  <2>4. Cardinality(below(id)) = Cardinality(below(top)) + 1
    <3>1. IsFiniteSet(below(top))
      BY <1>2, <2>3
    <3> HIDE DEF below
    <3> QED
      BY <2>3, <3>1, FS_AddElement
  <2>5. top \in late /\ top < id
    BY <1>2, <2>3, <2>4
  <2> QED
    BY <1>4, <2>5
<1> QED
  BY <1>5 DEF Below

-----------------------------------------------------------------------------
(* The inductive invariant *)

\* Nothing is shown and nothing is asked without a connection.
DroppedIsEmpty == sock # "open" => requests = << >> /\ pins = {}

\* What is shown came over this connection.
ListIsTheLinks == pins # {} => pinsOf = link

\* The index is below the length of the list.
CursorBounded == pins # {} => cursorIndex < Cardinality(pins)

IInv ==
    /\ TypeOK
    /\ DroppedIsEmpty
    /\ ListIsTheLinks
    /\ RequestsMeanTheirPins
    /\ CursorBounded

(* The panel starts empty, with nothing on its way. *)
LEMMA InitIInv == Init => IInv
<1> SUFFICES ASSUME Init PROVE IInv
  OBVIOUS
<1>1. TypeOK
  <2>1. /\ up \in BOOLEAN /\ subscribed \in BOOLEAN /\ greeted \in BOOLEAN
        /\ opened \in BOOLEAN /\ present \in BOOLEAN
        /\ backendInstalled \in BOOLEAN /\ backendChecked \in BOOLEAN
        /\ installing \in BOOLEAN
        /\ abandoned \in BOOLEAN /\ informed \in BOOLEAN
    BY Zenon DEF Init
  <2>2. probe \in {"idle", "found", "missing"}
    BY DEF Init
  <2>3. /\ generation \in Generation /\ minted \in 0 .. MaxPins
        /\ link \in Generation /\ pinsOf \in Generation /\ cursorIndex \in Nat
    BY PanelAssumption DEF Init, Generation
  <2>4. publisher \in [Publisher -> Publishing]
    BY DEF Init, Idle, Publishing
  <2> QED
    BY <2>1, <2>2, <2>3, <2>4 DEF Init, TypeOK, TerminalState
<1> QED
  BY <1>1
  DEF Init, IInv, DroppedIsEmpty, ListIsTheLinks, RequestsMeanTheirPins,
      CursorBounded

-----------------------------------------------------------------------------
(* Each step preserves it. *)

\* A list of pins has a length.
LEMMA ListIsFinite ==
    ASSUME NEW S, S \subseteq PinId
    PROVE  /\ IsFiniteSet(S) /\ Cardinality(S) \in Nat
           /\ S # {} => Cardinality(S) > 0
<1>1. IsFiniteSet(PinId)
  BY FS_Interval, PanelAssumption DEF PinId
<1> QED
  BY <1>1, FS_Subset, FS_CardinalityType, FS_EmptySet

\* A change of the pins keeps the types of what it changes.
LEMMA ChangeType ==
    ASSUME IInv, NEW t, NEW new, new \subseteq PinId, Change(t, new)
    PROVE  /\ live' \subseteq PinId
           /\ publisher' \in [Publisher -> Publishing]
           /\ informed' \in BOOLEAN
<1>1. informed' \in BOOLEAN
  BY Zenon DEF Change
<1>2. Due \in Publishing
  BY DEF Due, Publishing
<1> QED
  BY <1>1, <1>2 DEF Change, IInv, TypeOK

\* The parts of IInv about the connection and the cursor, when neither changes.
LEMMA PanelUntouched ==
    ASSUME IInv, UNCHANGED <<requests, sockVars, stateVars, cursorIndex>>
    PROVE  /\ DroppedIsEmpty' /\ ListIsTheLinks' /\ RequestsMeanTheirPins'
           /\ CursorBounded'
BY DEF IInv, sockVars, stateVars, DroppedIsEmpty, ListIsTheLinks,
       RequestsMeanTheirPins, CursorBounded

(* A daemon that comes up has no pins and nobody connected. *)
LEMMA DaemonStartStep ==
    ASSUME IInv, DaemonStart
    PROVE  IInv'
<1>1. up' \in BOOLEAN
  BY Zenon DEF DaemonStart
<1>2. TypeOK'
  BY <1>1, PanelAssumption
  DEF DaemonStart, IInv, TypeOK, Generation, wireVars, sockVars, stateVars,
      probeVars, installVars
<1> QED
  BY <1>2, PanelUntouched DEF DaemonStart, IInv, wireVars

(* What a daemon that is gone had sent may still arrive; the panel shows
   what it showed. *)
LEMMA DaemonStopStep ==
    ASSUME IInv, DaemonStop
    PROVE  IInv'
<1>1. /\ informed' \in BOOLEAN /\ up' \in BOOLEAN
      /\ publisher' \in [Publisher -> Publishing]
  <2>1. informed' \in BOOLEAN /\ up' \in BOOLEAN
    BY Zenon DEF DaemonStop
  <2>2. Idle \in Publishing
    BY DEF Idle, Publishing
  <2> QED
    BY <2>1, <2>2 DEF DaemonStop
<1>2. TypeOK'
  BY <1>1, PanelAssumption
  DEF DaemonStop, IInv, TypeOK, wireVars, sockVars, stateVars,
      probeVars, installVars
<1> QED
  BY <1>2, PanelUntouched DEF DaemonStop, IInv, wireVars

(* A change of the pins is not on its way yet. *)
LEMMA DaemonPinsStep ==
    ASSUME IInv, NEW t \in Publisher, DaemonPins(t)
    PROVE  IInv'
<1> DEFINE Typed == /\ minted' \in 0 .. MaxPins
                    /\ live' \subseteq PinId
                    /\ publisher' \in [Publisher -> Publishing]
                    /\ informed' \in BOOLEAN
<1>1. Typed
  <2>1. ASSUME minted < MaxPins, minted' = minted + 1,
               Change(t, live \cup {minted'})
        PROVE  Typed
    <3>1. minted' \in PinId /\ minted' \in 0 .. MaxPins
      BY <2>1, PanelAssumption DEF IInv, TypeOK, PinId
    <3>2. live \cup {minted'} \subseteq PinId
      BY <3>1 DEF IInv, TypeOK
    <3> QED
      BY <2>1, <3>1, <3>2, ChangeType
  <2>2. ASSUME NEW id \in live, Change(t, live \ {id}), UNCHANGED minted
        PROVE  Typed
    <3>1. live \ {id} \subseteq PinId
      BY DEF IInv, TypeOK
    <3> QED
      BY <2>2, <3>1, ChangeType DEF IInv, TypeOK
  <2> QED
    BY <2>1, <2>2 DEF DaemonPins
<1>2. TypeOK'
  BY <1>1
  DEF DaemonPins, IInv, TypeOK, wireVars, sockVars, stateVars, probeVars,
      installVars
<1> QED
  BY <1>2, PanelUntouched DEF DaemonPins, IInv, wireVars

(* A thread that lists the pins, or sends its list behind what is already on
   its way, changes nothing of the panel. *)
LEMMA PublishStep ==
    ASSUME IInv, NEW t \in Publisher, Publish(t)
    PROVE  IInv'
<1>1. /\ Idle \in Publishing
      /\ Listed(live) \in Publishing
      /\ publisher[t].list \subseteq PinId
  BY DEF IInv, TypeOK, Idle, Listed, Publishing
<1>2. CASE TakeList(t)
  <2>1. publisher' \in [Publisher -> Publishing]
    BY <1>1, <1>2 DEF TakeList, IInv, TypeOK
  <2>2. TypeOK'
    BY <1>2, <2>1
    DEF TakeList, IInv, TypeOK, wireVars, sockVars, stateVars, probeVars,
        installVars
  <2> QED
    BY <1>2, <2>2, PanelUntouched DEF TakeList, IInv, wireVars
<1>3. CASE SendList(t)
  <2>1. publisher' \in [Publisher -> Publishing]
    BY <1>1, <1>3 DEF SendList, IInv, TypeOK
  <2>2. lines' \in Seq(Message)
    <3>1. [kind |-> "event", pins |-> publisher[t].list] \in Message
      BY <1>1 DEF Message
    <3> QED
      BY <1>3, <3>1 DEF SendList, IInv, TypeOK
  <2>3. TypeOK'
    BY <1>3, <2>1, <2>2
    DEF SendList, IInv, TypeOK, sockVars, stateVars, probeVars, installVars
  <2> QED
    BY <1>3, <2>3, PanelUntouched DEF SendList, IInv
<1> QED
  BY <1>2, <1>3 DEF Publish

(* A request that is served may close pins of its daemon, which the panel
   goes on showing until it is told. *)
LEMMA DaemonServeStep ==
    ASSUME IInv, DaemonServe
    PROVE  IInv'
<1>1. /\ requests # << >> /\ requests' = Tail(requests)
      /\ sock = "open"
      /\ UNCHANGED <<sockVars, stateVars, cursorIndex>>
  BY DEF DaemonServe
<1>2. /\ requests' \in Seq(Request)
      /\ \A i \in DOMAIN requests' :
             i + 1 \in DOMAIN requests /\ requests'[i] = requests[i + 1]
  BY <1>1 DEF IInv, TypeOK
<1>3. /\ live' \subseteq PinId
      /\ publisher' \in [Publisher -> Publishing]
      /\ informed' \in BOOLEAN
  <2>1. \/ \E id \in PinId : Change(Session, live \ {id})
        \/ Change(Session, {})
        \/ UNCHANGED <<live, publisher, informed>>
    <3>1. live \subseteq PinId
      BY DEF IInv, TypeOK
    <3> QED
      BY <3>1 DEF DaemonServe
  <2>2. \A id \in PinId : live \ {id} \subseteq PinId
    BY DEF IInv, TypeOK
  <2> QED
    BY <2>1, <2>2, ChangeType DEF IInv, TypeOK
<1>4. TypeOK'
  BY <1>2, <1>3
  DEF DaemonServe, IInv, TypeOK, sockVars, stateVars, probeVars, installVars
<1>5. DroppedIsEmpty' /\ ListIsTheLinks' /\ CursorBounded'
  BY <1>1
  DEF IInv, DroppedIsEmpty, ListIsTheLinks, CursorBounded, sockVars, stateVars
<1>6. RequestsMeanTheirPins'
  BY <1>1, <1>2 DEF IInv, RequestsMeanTheirPins, sockVars
<1> QED
  BY <1>4, <1>5, <1>6 DEF IInv

(* A connection opens with a listing of the pins on its way, and no request. *)
LEMMA SocketOpensStep ==
    ASSUME IInv, SocketOpens
    PROVE  IInv'
<1>1. pins = {} /\ UNCHANGED pins
  BY DEF SocketOpens, IInv, DroppedIsEmpty, stateVars
<1>2. lines' \in Seq(Message)
  <2>1. /\ [kind |-> "hello"] \in Message
        /\ [kind |-> "event", pins |-> live] \in Message
    BY DEF IInv, TypeOK, Message
  <2> QED
    BY <2>1 DEF SocketOpens
<1>3. TypeOK'
  BY <1>2
  DEF SocketOpens, IInv, TypeOK, daemonVars, stateVars, probeVars, installVars
<1> QED
  BY <1>1, <1>3
  DEF SocketOpens, IInv, DroppedIsEmpty, ListIsTheLinks, RequestsMeanTheirPins,
      CursorBounded

(* A connection that drops loses what was on its way, and the pins shown
   with it. *)
LEMMA SocketDropsStep ==
    ASSUME IInv, SocketDrops
    PROVE  IInv'
<1>1. subscribed' \in BOOLEAN /\ greeted' \in BOOLEAN /\ informed' \in BOOLEAN
  BY Zenon DEF SocketDrops
<1>2. pinsOf' \in Generation
  BY PanelAssumption DEF SocketDrops, Generation
<1>3. TypeOK'
  BY <1>1, <1>2
  DEF SocketDrops, IInv, TypeOK, daemonVars, probeVars, installVars
<1> QED
  BY <1>3
  DEF SocketDrops, IInv, DroppedIsEmpty, ListIsTheLinks, RequestsMeanTheirPins,
      CursorBounded

\* Mounting a socket again leaves an open one alone.
LEMMA ConnectKeeps ==
    ASSUME IInv, NEW installed \in BOOLEAN, ConnectBackend(installed),
           UNCHANGED <<link, requests, pins, pinsOf>>,
           \/ UNCHANGED cursorIndex
           \/ cursorIndex' = 0
    PROVE  /\ sock' \in {"none", "connecting", "open", "dropped"}
           /\ DroppedIsEmpty' /\ ListIsTheLinks' /\ RequestsMeanTheirPins'
           /\ CursorBounded'
<1>1. /\ sock' \in {"none", "connecting", "open", "dropped"}
      /\ sock' = "open" <=> sock = "open"
  BY DEF ConnectBackend, IInv, TypeOK
<1>2. CursorBounded'
  BY ListIsFinite DEF IInv, TypeOK, CursorBounded
<1> QED
  BY <1>1, <1>2
  DEF IInv, DroppedIsEmpty, ListIsTheLinks, RequestsMeanTheirPins

(* A retry mounts the socket anew and changes nothing that is shown. *)
LEMMA ReconnectStep ==
    ASSUME IInv, Reconnect
    PROVE  IInv'
<1>1. /\ sock' \in {"none", "connecting", "open", "dropped"}
      /\ DroppedIsEmpty' /\ ListIsTheLinks' /\ RequestsMeanTheirPins'
      /\ CursorBounded'
  BY ConnectKeeps DEF Reconnect, IInv, TypeOK, wireVars, stateVars
<1>2. TypeOK'
  BY <1>1
  DEF Reconnect, IInv, TypeOK, daemonVars, wireVars, stateVars, probeVars,
      installVars
<1> QED
  BY <1>1, <1>2 DEF IInv

(* A line replaces the pins by those of the daemon that sent it, and the
   clamp puts the cursor back on the list. *)
LEMMA HandleLineStep ==
    ASSUME IInv, HandleLine
    PROVE  IInv'
<1>1. /\ sock = "open" /\ lines # << >>
      /\ lines' = Tail(lines)
      /\ UNCHANGED <<sock, link, requests>>
      /\ cursorIndex' = Clamped(cursorIndex, Cardinality(pins'))
  BY DEF HandleLine, sockVars
<1>2. Head(lines) \in Message /\ lines' \in Seq(Message)
  BY <1>1 DEF IInv, TypeOK
<1>3. /\ pins' \subseteq PinId /\ pinsOf' \in Generation /\ greeted' \in BOOLEAN
      /\ pins' # {} => pinsOf' = link
  <2>1. CASE Head(lines).kind = "hello"
    BY <2>1 DEF HandleLine, IInv, TypeOK, ListIsTheLinks
  <2>2. CASE Head(lines).kind # "hello"
    BY <1>2, <2>2 DEF HandleLine, IInv, TypeOK, Message
  <2> QED
    BY <2>1, <2>2
<1>4. cursorIndex' \in Nat /\ (pins' # {} => cursorIndex' < Cardinality(pins'))
  BY <1>1, <1>3, ListIsFinite DEF Clamped, IInv, TypeOK
<1>5. informed' \in BOOLEAN
  BY Zenon DEF HandleLine, IInv, TypeOK
<1>6. TypeOK'
  BY <1>1, <1>2, <1>3, <1>4, <1>5
  DEF HandleLine, IInv, TypeOK, daemonVars, probeVars, installVars
<1> QED
  BY <1>1, <1>3, <1>4, <1>6
  DEF IInv, DroppedIsEmpty, ListIsTheLinks, RequestsMeanTheirPins, CursorBounded

(* The answer of a probe may mount the socket, and changes nothing that is shown. *)
LEMMA ProbeExitsStep ==
    ASSUME IInv, ProbeExits
    PROVE  IInv'
<1>1. /\ sock' \in {"none", "connecting", "open", "dropped"}
      /\ DroppedIsEmpty' /\ ListIsTheLinks' /\ RequestsMeanTheirPins'
      /\ CursorBounded'
  <2>1. (probe = "found") \in BOOLEAN
    OBVIOUS
  <2> QED
    BY <2>1, ConnectKeeps DEF ProbeExits, wireVars, stateVars
<1>2. TypeOK'
  BY <1>1
  DEF ProbeExits, IInv, TypeOK, daemonVars, wireVars, stateVars, installVars
<1> QED
  BY <1>1, <1>2 DEF IInv

(* Opening the panel puts the cursor on the list. *)
LEMMA OpenStep ==
    ASSUME IInv, Open
    PROVE  IInv'
<1>1. /\ sock' \in {"none", "connecting", "open", "dropped"}
      /\ DroppedIsEmpty' /\ ListIsTheLinks' /\ RequestsMeanTheirPins'
      /\ CursorBounded'
  BY ConnectKeeps DEF Open, IInv, TypeOK, wireVars, stateVars
<1>2. TypeOK'
  BY <1>1
  DEF Open, ProbeBackend, IInv, TypeOK, daemonVars, wireVars, stateVars,
      installVars
<1> QED
  BY <1>1, <1>2 DEF IInv

(* Closing the panel forgets no pin. *)
LEMMA CloseStep ==
    ASSUME IInv, Close
    PROVE  IInv'
<1>1. opened' \in BOOLEAN
  BY Zenon DEF Close
<1>2. TypeOK'
  BY <1>1
  DEF Close, IInv, TypeOK, daemonVars, wireVars, sockVars, stateVars, probeVars,
      installVars
<1> QED
  BY <1>2, PanelUntouched DEF Close, IInv, wireVars

(* Moving the cursor clamps it to the list. *)
LEMMA MoveCursorStep ==
    ASSUME IInv, MoveCursor
    PROVE  IInv'
<1>1. /\ pins # {} /\ Total \in Nat /\ Total > 0
      /\ UNCHANGED <<requests, sock, link, pins, pinsOf>>
  BY ListIsFinite
  DEF MoveCursor, Total, IInv, TypeOK, wireVars, sockVars, stateVars
<1>2. \A delta \in Int : MovedCursor(delta) \in 0 .. Total - 1
  BY <1>1 DEF MovedCursor, IInv, TypeOK
<1>3. GridColumns \in Int
  BY <1>1, PanelAssumption DEF GridColumns
<1>4. cursorIndex' \in 0 .. Total - 1
  <2>1. -GridColumns \in Int
    BY <1>3
  <2>2. CASE \E delta \in {-1, 1, -GridColumns, GridColumns} :
                 cursorIndex' = MovedCursor(delta)
    BY <1>2, <1>3, <2>1, <2>2
  <2> QED
    BY <2>2 DEF MoveCursor
<1>5. TypeOK'
  BY <1>1, <1>4
  DEF MoveCursor, IInv, TypeOK, daemonVars, wireVars, sockVars, stateVars,
      probeVars, installVars
<1>6. CursorBounded'
  BY <1>1, <1>4 DEF CursorBounded, Total
<1> QED
  BY <1>1, <1>5, <1>6
  DEF IInv, DroppedIsEmpty, ListIsTheLinks, RequestsMeanTheirPins

\* A request is about the list that is shown, which is the connection's.
LEMMA SendStep ==
    ASSUME IInv, NEW request \in Request, request.by = pinsOf, pins # {},
           Send(request),
           UNCHANGED <<daemonVars, subscribed, lines, sockVars, stateVars,
                       cursorIndex, opened, present, probeVars, installVars>>
    PROVE  IInv'
<1>1. /\ sock = "open" /\ pinsOf = link
      /\ requests' = Append(requests, request)
      /\ UNCHANGED <<sock, link, pins, pinsOf>>
  BY DEF Send, IInv, DroppedIsEmpty, ListIsTheLinks, sockVars, stateVars
<1>2. /\ requests' \in Seq(Request)
      /\ \A i \in DOMAIN requests' :
             \/ i \in DOMAIN requests /\ requests'[i] = requests[i]
             \/ requests'[i] = request
  BY <1>1 DEF IInv, TypeOK
<1>3. TypeOK'
  BY <1>2
  DEF IInv, TypeOK, daemonVars, sockVars, stateVars, probeVars, installVars
<1>4. RequestsMeanTheirPins'
  BY <1>1, <1>2 DEF IInv, RequestsMeanTheirPins
<1> QED
  BY <1>1, <1>3, <1>4 DEF IInv, DroppedIsEmpty, ListIsTheLinks, CursorBounded

(* A key asks for the pin under the cursor, which is one of the shown. *)
LEMMA AskStep ==
    ASSUME IInv, Ask
    PROVE  IInv'
<1>1. ASSUME NEW id \in CurrentPin, NEW kind \in {"copy", "close"},
             Send([kind |-> kind, id |-> id, by |-> pinsOf])
      PROVE  IInv'
  <2>1. id \in pins /\ id \in PinId /\ pinsOf \in Generation
    BY DEF CurrentPin, IInv, TypeOK
  <2>2. [kind |-> kind, id |-> id, by |-> pinsOf] \in Request
    BY <2>1 DEF Request
  <2> QED
    BY <1>1, <2>1, <2>2, SendStep DEF Ask
<1>2. ASSUME pins # {}, Send([kind |-> "close_all", by |-> pinsOf])
      PROVE  IInv'
  <2>1. [kind |-> "close_all", by |-> pinsOf] \in Request
    BY DEF Request, IInv, TypeOK
  <2> QED
    BY <1>2, <2>1, SendStep DEF Ask
<1> QED
  BY <1>1, <1>2 DEF Ask

\* The installation of the backend touches nothing of the connection.
LEMMA InstallStep ==
    ASSUME IInv, NEW i \in Install,
           BeginInstall(i) \/ Terminal(i)
    PROVE  IInv'
<1>1. terminals' \in [Install -> TerminalState]
  BY DEF BeginInstall, Terminal, Launch, TerminalStarts, TerminalFails,
         TerminalClosed, TerminalEnds, IInv, TypeOK, TerminalState
<1>2. sentinels' \subseteq {"complete", "failed"} /\ present' \in BOOLEAN
  BY DEF BeginInstall, Terminal, Launch, TerminalStarts, TerminalFails,
         TerminalClosed, TerminalEnds, IInv, TypeOK
<1>3. /\ UNCHANGED <<daemonVars, wireVars, sockVars, stateVars, cursorIndex,
                     opened, probeVars, watch>>
      /\ installing' \in BOOLEAN
      /\ abandoned' \in BOOLEAN
  BY DEF BeginInstall, Terminal, Launch, TerminalStarts, TerminalFails,
         TerminalClosed, TerminalEnds, IInv, TypeOK
<1>4. TypeOK'
  BY <1>1, <1>2, <1>3
  DEF IInv, TypeOK, daemonVars, wireVars, sockVars, stateVars, probeVars
<1> QED
  BY <1>3, <1>4, PanelUntouched DEF IInv, wireVars

(* The watcher of an installation touches neither the pins nor the cursor. *)
LEMMA WatchStep ==
    ASSUME IInv, WatchTick \/ WatchReads
    PROVE  IInv'
<1>1. /\ watch' \in {"idle", "silent", "done", "failed"}
      /\ installing' \in BOOLEAN
      /\ probe' \in {"idle", "found", "missing"}
  BY DEF WatchTick, WatchReads, ProbeBackend, IInv, TypeOK, probeVars
<1>2. UNCHANGED <<daemonVars, wireVars, sockVars, stateVars, cursorIndex,
                  opened, present, backendInstalled, backendChecked, terminals,
                  sentinels, abandoned>>
  BY DEF WatchTick, WatchReads, probeVars
<1>3. TypeOK'
  BY <1>1, <1>2
  DEF IInv, TypeOK, daemonVars, wireVars, sockVars, stateVars
<1> QED
  BY <1>2, <1>3, PanelUntouched DEF IInv, wireVars

-----------------------------------------------------------------------------
\* IInv is inductive.
LEMMA StepIInv == IInv /\ [Next]_vars => IInv'
<1> SUFFICES ASSUME IInv, [Next]_vars PROVE IInv'
  OBVIOUS
<1>1. CASE Daemon
  BY <1>1, DaemonStartStep, DaemonStopStep, DaemonPinsStep, PublishStep,
     DaemonServeStep DEF Daemon
<1>2. CASE Socket \/ Reconnect
  BY <1>2, SocketOpensStep, SocketDropsStep, HandleLineStep, ReconnectStep
  DEF Socket
<1>3. CASE ProbeExits \/ Open \/ Close \/ MoveCursor \/ Ask
  BY <1>3, ProbeExitsStep, OpenStep, CloseStep, MoveCursorStep, AskStep
<1>4. CASE \E i \in Install : BeginInstall(i) \/ Terminal(i)
  BY <1>4, InstallStep
<1>5. CASE WatchTick \/ WatchReads
  BY <1>5, WatchStep
<1>6. CASE UNCHANGED vars
  <2>1. TypeOK'
    BY <1>6
    DEF vars, IInv, TypeOK, daemonVars, wireVars, sockVars, stateVars,
        probeVars, installVars
  <2> QED
    BY <1>6, <2>1, PanelUntouched DEF vars, IInv, wireVars
<1> QED
  BY <1>1, <1>2, <1>3, <1>4, <1>5, <1>6 DEF Next

\* IInv holds in every reachable state.
LEMMA Invariance == Spec => []IInv
BY InitIInv, StepIInv, PTL DEF Spec

\* Every variable keeps its type.
THEOREM TypeCorrect == Spec => []TypeOK
BY Invariance, PTL DEF IInv

\* Panel.qml:206-225: no request reaches a daemon whose pins were not shown.
THEOREM RequestsAreUnderstood == Spec => []RequestsMeanTheirPins
BY Invariance, PTL DEF IInv

\* Panel.qml:96-98, 138-147: a key always finds a pin of the list.
THEOREM TheCursorFindsAPin == Spec => []CursorOnTheList
<1>1. IInv => CursorOnTheList
  <2> SUFFICES ASSUME IInv, pins # {} PROVE CurrentPin # {}
    BY DEF CursorOnTheList
  <2>1. pins \subseteq 1 .. MaxPins /\ MaxPins \in Nat
    BY PanelAssumption DEF IInv, TypeOK, PinId
  <2>2. cursorIndex \in Nat /\ cursorIndex < Cardinality(pins)
    BY DEF IInv, TypeOK, CursorBounded
  <2>3. \E id \in pins : Cardinality(Below(pins, id)) = cursorIndex
    BY <2>1, <2>2, EveryIndexIsARank
  <2> QED
    BY <2>3 DEF CurrentPin, Below
<1> QED
  BY <1>1, Invariance, PTL
=============================================================================
