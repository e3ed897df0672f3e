------------------------ MODULE DaemonStartupProofs ------------------------
(***************************************************************************)
(* Machine-checked proofs about DaemonStartup, for any number of CLIs and  *)
(* daemons.                                                                *)
(***************************************************************************)
EXTENDS DaemonStartup, FiniteSetTheorems, TLAPS

\* As long as nothing was stolen, whoever has bound a socket has it at the path.
PathIsHeld == stolen \/ \A d \in Bound : file = d

PathInv == TypeOK /\ PathIsHeld

\* A CLI spawns its daemon once, and nobody else does.
NotSpawnedYet ==
    \A c \in Clis : cli[c] \in {"off", "connect", "spawn"} => daemon[c] = "off"

\* A CLI that was connected was connected to a daemon.
PeerIsADaemon == \A c \in Clis : cli[c] = "exchange" => peer[c] \in Daemons

\* Nothing is captured before the directory is cleared.
NoPinYet ==
    \A d \in Daemons : daemon[d] \in {"off", "clear"} => pin[d] = "none"

\* A daemon that never met another one is the only one that is up.
AloneUnlessCrowded == \A d \in Up \ crowded : \A e \in Up : e = d

\* PreviewsAreItsOwn, from the moment the directory is cleared.
DirectoryIsItsOwn ==
    \A d \in Up \ crowded :
        IF pin[d] \in {"shown", "left"} THEN thumb = d
                                      ELSE thumb = None \/ d \in unclean

\* The daemon a CLI saw listen is still there when it connects again.
RetryIsJustified ==
    \A c \in Clis :
        /\ cli[c] = "again" => Reachable \/ Lost
        /\ cli[c] = "refused" => Lost

IInv ==
    /\ PathInv
    /\ NotSpawnedYet
    /\ PeerIsADaemon
    /\ NoPinYet
    /\ AloneUnlessCrowded
    /\ DirectoryIsItsOwn
    /\ RetryIsJustified

\* The two kinds of daemon are all there are.
LEMMA DaemonSets == Clis \subseteq Daemons /\ Units \subseteq Daemons
BY DEF Daemons

\* The path holds nothing when it is empty or a leftover.
LEMMA Names == None \notin Daemons /\ Stale \notin Daemons
BY StartupAssumption DEF Daemons

\* At first nothing is bound.
LEMMA InitPathInv == Init => PathInv
BY DaemonSets DEF Init, PathInv, TypeOK, PinState, PathIsHeld, Bound, Starting

\* Steps of a daemon that leave the path alone do not bind.
LEMMA PathUntouched ==
    ASSUME PathIsHeld, UNCHANGED <<file, stolen>>, Bound' \subseteq Bound
    PROVE  PathIsHeld'
BY DEF PathIsHeld

-----------------------------------------------------------------------------
(* The steps of daemons *)

DaemonStep(d) ==
    \/ StartUnit(d) \/ BindSocket(d) \/ IoFails(d) \/ Die(d)
    \/ \E ok \in Outcomes(d) : ClosePin(d, ok)

(* A service unit starts a daemon that has bound nothing yet. *)
LEMMA StartUnitStep ==
    ASSUME PathInv, NEW d \in Daemons, StartUnit(d)
    PROVE  PathInv'
<1>1. TypeOK'
  BY DEF StartUnit, Step, PathInv, TypeOK, Starting, cliVars
<1>2. Bound' \subseteq Bound
  BY DEF StartUnit, Step, PathInv, TypeOK, Bound
<1> QED
  BY <1>1, <1>2, PathUntouched DEF StartUnit, PathInv

(* The wipe of the previews leaves the path alone. *)
LEMMA ClearStep ==
    ASSUME PathInv, NEW d \in Daemons, NEW ok \in BOOLEAN,
           ClearThumbnails(d, ok)
    PROVE  PathInv'
<1>1. crowded' \subseteq Daemons /\ unclean' \subseteq Daemons
  BY DEF ClearThumbnails, Crowd, Up, PathInv, TypeOK
<1>2. TypeOK'
  BY <1>1 DEF ClearThumbnails, Step, PathInv, TypeOK, Starting, cliVars
<1>3. Bound' \subseteq Bound
  BY DEF ClearThumbnails, Step, PathInv, TypeOK, Bound
<1> QED
  BY <1>2, <1>3, PathUntouched DEF ClearThumbnails, PathInv

(* A daemon that dies, or whose io thread ends, leaves its file at the path,
   and is bound no more. *)
LEMMA EndStep ==
    ASSUME PathInv, NEW d \in Daemons, IoFails(d) \/ Die(d)
    PROVE  PathInv'
<1>1. TypeOK'
  BY DEF IoFails, Die, PathInv, TypeOK, cliVars, WithoutIo
<1>2. Bound' \subseteq Bound
  BY DEF IoFails, Die, PathInv, TypeOK, Bound
<1> QED
  BY <1>1, <1>2, PathUntouched DEF IoFails, Die, PathInv

(* A look at the path and a probe change the daemon that looks only. *)
LEMMA LookStep ==
    ASSUME PathInv, NEW d \in Daemons, CheckExists(d) \/ Probe(d)
    PROVE  PathInv'
<1>1. TypeOK'
  BY DEF CheckExists, Probe, Step, PathInv, TypeOK, Starting, WithoutIo,
     cliVars
<1>2. Bound' \subseteq Bound
  BY DEF CheckExists, Probe, Step, PathInv, TypeOK, Bound
<1> QED
  BY <1>1, <1>2, PathUntouched DEF CheckExists, Probe, PathInv

\* Whoever is bound while nothing was stolen is at the path, so an unlink that
\* steals nothing finds nobody bound.
LEMMA UnlinkStep ==
    ASSUME PathInv, NEW d \in Daemons, Unlink(d)
    PROVE  PathInv'
<1>1. TypeOK'
  BY DEF Unlink, Step, PathInv, TypeOK, Starting, WithoutIo, cliVars
<1>2. Bound' \subseteq Bound
  BY DEF Unlink, Step, PathInv, TypeOK, Bound
<1>3. CASE stolen \/ file \in Bound
  BY <1>1, <1>3 DEF Unlink, PathInv, PathIsHeld
<1>4. CASE ~stolen /\ file \notin Bound
  <2>1. Bound = {}
    BY <1>4 DEF PathInv, PathIsHeld
  <2> QED
    BY <1>1, <1>2, <2>1 DEF PathInv, PathIsHeld
<1> QED
  BY <1>3, <1>4

\* A free path is bound by nobody else.
LEMMA BindStep ==
    ASSUME PathInv, NEW d \in Daemons, Bind(d)
    PROVE  PathInv'
<1>1. TypeOK'
  BY DEF Bind, Step, PathInv, TypeOK, Starting, WithoutIo, cliVars
<1>2. CASE file = None
  <2>1. Bound' \subseteq Bound \cup {d} /\ file' = d
    BY <1>2 DEF Bind, Step, PathInv, TypeOK, Bound
  <2>2. stolen \/ Bound = {}
    BY <1>2, Names DEF PathInv, PathIsHeld, Bound
  <2> QED
    BY <1>1, <2>1, <2>2 DEF Bind, PathInv, PathIsHeld
<1>3. CASE file # None
  <2>1. Bound' \subseteq Bound /\ file' = file
    BY <1>3 DEF Bind, Step, PathInv, TypeOK, Bound
  <2> QED
    BY <1>1, <2>1, PathUntouched DEF Bind, PathInv
<1> QED
  BY <1>2, <1>3

(* A daemon listens on the socket it has bound. *)
LEMMA ListenStep ==
    ASSUME PathInv, NEW d \in Daemons, Listen(d)
    PROVE  PathInv'
<1>1. TypeOK'
  BY DEF Listen, Step, PathInv, TypeOK, cliVars
<1>2. Bound' \subseteq Bound
  BY DEF Listen, Step, PathInv, TypeOK, Bound
<1> QED
  BY <1>1, <1>2, PathUntouched DEF Listen, PathInv

(* Pins and previews are no matter of the path. *)
LEMMA ClosePinStep ==
    ASSUME PathInv, NEW d \in Daemons, NEW ok \in BOOLEAN, ClosePin(d, ok)
    PROVE  PathInv'
<1>1. TypeOK'
  BY DEF ClosePin, PathInv, TypeOK, PinState, cliVars
<1> QED
  BY <1>1 DEF ClosePin, PathInv, PathIsHeld, Bound

-----------------------------------------------------------------------------
(* The steps of CLIs *)

CommandStep(c) ==
    \/ Run(c) \/ RoundTrip(c) \/ ConnectFails(c) \/ TimeOut(c)
    \/ ExchangeOrLost(c)

(* Every step of a CLI keeps the types. *)
LEMMA CliTypeStep ==
    ASSUME PathInv, NEW c \in Clis,
           CommandStep(c)
    PROVE  TypeOK'
<1>1. CASE Run(c) \/ TimeOut(c) \/ SpawnFails(c) \/ Poll(c) \/ ConnectFails(c)
  BY <1>1 DEF Run, TimeOut, SpawnFails, Poll, ConnectFails, CliStep,
     daemonVars, PathInv, TypeOK, Ended
<1>2. CASE Connect(c) \/ ConnectAgain(c)
  BY <1>2 DEF Connect, ConnectAgain, CliStep, Reachable, daemonVars, PathInv,
     TypeOK, Ended
<1>3. CASE Spawn(c)
  BY <1>3, DaemonSets DEF Spawn, CliStep, PathInv, TypeOK, Starting
<1>4. ASSUME NEW ok \in BOOLEAN, cli[c] = "exchange", Capture(c, ok)
      PROVE  TypeOK'
  <2>1. peer[c] \in Daemons \cup {None}
    BY DEF PathInv, TypeOK
  <2>2. thumb' \in Daemons \cup {Stale, None}
    BY <1>4, <2>1 DEF Capture, PathInv, TypeOK
  <2>3. pin' \in [Daemons -> PinState]
    BY <1>4 DEF Capture, PathInv, TypeOK, PinState
  <2>4. cli' \in [Clis ->
           {"off", "connect", "spawn", "wait", "again", "exchange"} \cup Ended]
    BY <1>4 DEF Capture, CliStep, PathInv, TypeOK, Ended
  <2> QED
    BY <1>4, <2>2, <2>3, <2>4 DEF Capture, PathInv, TypeOK
<1>5. CASE ConnectionLost(c) \/ Exchange(c)
  BY <1>5 DEF ConnectionLost, Exchange, CliStep, daemonVars, PathInv, TypeOK,
     Ended
<1> QED
  BY <1>1, <1>2, <1>3, <1>4, <1>5
     DEF CommandStep, RoundTrip, ExchangeOrLost, Outcomes

(* No step of a CLI takes the path from a daemon. *)
LEMMA CliStepKeeps ==
    ASSUME PathInv, NEW c \in Clis,
           CommandStep(c)
    PROVE  PathInv'
<1>1. TypeOK'
  BY CliTypeStep
<1>2. UNCHANGED <<file, stolen>>
  BY DEF CommandStep, Run, RoundTrip, TimeOut, Connect, Spawn, SpawnFails,
     Poll, ConnectAgain, ConnectFails, ExchangeOrLost, Exchange, Capture,
     ConnectionLost
<1>3. Bound' \subseteq Bound
  <2>1. CASE Spawn(c)
    BY <2>1, DaemonSets DEF Spawn, PathInv, TypeOK, Bound
  <2>2. CASE ~Spawn(c)
    BY <2>2 DEF CommandStep, Run, RoundTrip, TimeOut, Connect, SpawnFails,
       Poll, ConnectAgain, ConnectFails, ExchangeOrLost, Exchange, Capture,
       ConnectionLost, daemonVars, Bound
  <2> QED
    BY <2>1, <2>2
<1> QED
  BY <1>1, <1>2, <1>3, PathUntouched DEF PathInv

-----------------------------------------------------------------------------
(* All steps keep the path *)

(* Every step leaves the path to the daemon that has bound it, or is a
   theft. *)
LEMMA StepPathInv == PathInv /\ [Next]_vars => PathInv'
<1> SUFFICES ASSUME PathInv, [Next]_vars PROVE PathInv'
  OBVIOUS
<1>1. ASSUME NEW d \in Daemons, DaemonStep(d)
      PROVE  PathInv'
  BY <1>1, StartUnitStep, ClearStep, EndStep, LookStep, UnlinkStep, BindStep,
     ListenStep, ClosePinStep DEF BindSocket, DaemonStep, Outcomes
<1>2. ASSUME NEW c \in Clis, CommandStep(c)
      PROVE  PathInv'
  BY <1>2, CliStepKeeps DEF CommandStep
<1>3. CASE UNCHANGED vars
  BY <1>3 DEF vars, PathInv, TypeOK, PathIsHeld, Bound
<1> QED
  BY <1>1, <1>2, <1>3 DEF Next, DaemonStep, CommandStep

-----------------------------------------------------------------------------
(* What a step does to where the processes are *)

\* A daemon moves by itself, and is off only before somebody starts it.
LEMMA DaemonMoves ==
    ASSUME TypeOK, NEW d \in Daemons, DaemonStep(d)
    PROVE  /\ UNCHANGED <<cli, peer>>
           /\ \A e \in Daemons : e # d => daemon'[e] = daemon[e]
           /\ daemon[d] = "dead" => daemon'[d] = "dead"
           /\ daemon[d] = "broken" => daemon'[d] \in {"broken", "dead"}
           /\ \/ daemon[d] = "off" /\ d \in Units /\ daemon'[d] = "clear"
              \/ daemon[d] # "off" /\ daemon'[d] \notin {"off", "clear"}
<1>1. CASE StartUnit(d)
  BY <1>1 DEF StartUnit, Step, TypeOK, cliVars
<1>2. CASE \/ \E ok \in Outcomes(d) : ClearThumbnails(d, ok)
           \/ Listen(d) \/ CheckExists(d)
  BY <1>2 DEF ClearThumbnails, Listen, CheckExists, Step, TypeOK, cliVars
<1>3. CASE Probe(d) \/ Unlink(d) \/ Bind(d)
  BY <1>3 DEF Probe, Unlink, Bind, Step, TypeOK, cliVars
<1>4. CASE \/ \E ok \in Outcomes(d) : ClosePin(d, ok)
           \/ IoFails(d) \/ Die(d)
  BY <1>4 DEF ClosePin, IoFails, Die, TypeOK, cliVars, WithoutIo, Starting
<1> QED BY <1>1, <1>2, <1>3, <1>4 DEF DaemonStep, BindSocket

\* A CLI leaves the daemons where they are, or spawns its own.
LEMMA CommandMoves ==
    ASSUME TypeOK, NotSpawnedYet, NEW c \in Clis, CommandStep(c)
    PROVE  /\ UNCHANGED <<file, stolen, crowded, unclean>>
           /\ \/ UNCHANGED daemon
              \/ /\ daemon[c] = "off" /\ cli'[c] = "wait"
                 /\ daemon' = [daemon EXCEPT ![c] = "clear"]
                 /\ UNCHANGED <<pin, thumb, unclean>>
<1>1. CASE Spawn(c)
  BY <1>1 DEF Spawn, CliStep, TypeOK, NotSpawnedYet
<1>2. CASE ~Spawn(c)
  BY <1>2 DEF CommandStep, Run, RoundTrip, TimeOut, Connect, SpawnFails, Poll,
     ConnectAgain, ConnectFails, ExchangeOrLost, Exchange, Capture,
     ConnectionLost, daemonVars
<1> QED BY <1>1, <1>2

\* The steps of a command.
LEMMA CommandGoes ==
    ASSUME TypeOK, NEW c \in Clis, CommandStep(c)
    PROVE  /\ \A b \in Clis : b # c => cli'[b] = cli[b] /\ peer'[b] = peer[b]
           /\ cli'[c] \in {"off", "connect", "spawn"}
                  => cli[c] \in {"off", "connect", "spawn"} /\ UNCHANGED daemon
           /\ cli'[c] = "exchange" => peer'[c] \in Daemons
           /\ cli'[c] = "again" => Reachable
           /\ cli'[c] = "refused" => cli[c] = "again" /\ ~Reachable
<1>1. CASE Run(c) \/ TimeOut(c) \/ SpawnFails(c) \/ Poll(c) \/ ConnectFails(c)
  BY <1>1 DEF Run, TimeOut, SpawnFails, Poll, ConnectFails, CliStep,
     daemonVars, TypeOK
<1>2. CASE Connect(c) \/ ConnectAgain(c)
  BY <1>2 DEF Connect, ConnectAgain, CliStep, Reachable, daemonVars, TypeOK
<1>3. CASE Spawn(c)
  BY <1>3 DEF Spawn, CliStep, TypeOK
<1>4. CASE ExchangeOrLost(c)
  BY <1>4 DEF ExchangeOrLost, Exchange, Capture, ConnectionLost, CliStep,
     TypeOK
<1> QED BY <1>1, <1>2, <1>3, <1>4 DEF CommandStep, RoundTrip

-----------------------------------------------------------------------------
(* The processes of CLIs *)

(* A daemon that a CLI starts is started once, and not before its CLI
   spawns it. *)
LEMMA SpawnedOnce ==
    ASSUME TypeOK, NotSpawnedYet,
           \/ \E d \in Daemons : DaemonStep(d)
           \/ \E c \in Clis : CommandStep(c)
    PROVE  NotSpawnedYet'
<1>1. ASSUME NEW d \in Daemons, DaemonStep(d)
      PROVE  NotSpawnedYet'
  <2>1. /\ UNCHANGED cli
        /\ \A e \in Daemons : e # d => daemon'[e] = daemon[e]
        /\ daemon[d] # "off" \/ d \notin Clis
    BY <1>1, DaemonMoves, StartupAssumption
  <2> QED BY <2>1, DaemonSets DEF NotSpawnedYet
<1>2. ASSUME NEW c \in Clis, CommandStep(c)
      PROVE  NotSpawnedYet'
  <2>1. ASSUME NEW b \in Clis, cli'[b] \in {"off", "connect", "spawn"}
        PROVE  daemon'[b] = "off"
    <3>1. daemon[b] = "off"
      BY <1>2, <2>1, CommandGoes DEF NotSpawnedYet
    <3>2. b = c => UNCHANGED daemon
      BY <1>2, <2>1, CommandGoes
    <3>3. b # c => daemon'[b] = daemon[b]
      BY <1>2, CommandMoves, DaemonSets DEF TypeOK
    <3> QED BY <3>1, <3>2, <3>3
  <2> QED BY <2>1 DEF NotSpawnedYet
<1> QED BY <1>1, <1>2

(* A CLI is connected to a daemon. *)
LEMMA PeersStayDaemons ==
    ASSUME TypeOK, PeerIsADaemon,
           \/ \E d \in Daemons : DaemonStep(d)
           \/ \E c \in Clis : CommandStep(c)
    PROVE  PeerIsADaemon'
<1>1. ASSUME NEW d \in Daemons, DaemonStep(d)
      PROVE  PeerIsADaemon'
  BY <1>1, DaemonMoves DEF PeerIsADaemon
<1>2. ASSUME NEW c \in Clis, CommandStep(c)
      PROVE  PeerIsADaemon'
  BY <1>2, CommandGoes DEF PeerIsADaemon
<1> QED BY <1>1, <1>2

-----------------------------------------------------------------------------
(* The directory *)

\* Who is up stays alone: the second one to come up meets the first.
LEMMA CrowdIsWitnessed ==
    ASSUME TypeOK, NotSpawnedYet, AloneUnlessCrowded,
           \/ \E d \in Daemons : DaemonStep(d)
           \/ \E c \in Clis : CommandStep(c)
    PROVE  /\ AloneUnlessCrowded'
           /\ \/ Up' \subseteq Up /\ UNCHANGED crowded
              \/ \E d \in Daemons :
                     /\ \E ok \in Outcomes(d) : ClearThumbnails(d, ok)
                     /\ \A e \in Up' \ crowded' : e = d
<1>1. ASSUME NEW d \in Daemons, NEW ok \in Outcomes(d),
             ClearThumbnails(d, ok)
      PROVE  /\ AloneUnlessCrowded'
             /\ \A e \in Up' \ crowded' : e = d
  <2>1. Up' = Up \cup {d} /\ crowded' = Crowd(d)
    BY <1>1 DEF ClearThumbnails, Step, TypeOK, Up
  <2>2. CASE Up = {}
    BY <2>1, <2>2 DEF AloneUnlessCrowded
  <2>3. CASE Up # {}
    BY <2>1, <2>3 DEF AloneUnlessCrowded, Crowd
  <2> QED BY <2>2, <2>3
<1>2. CASE Up' \subseteq Up /\ UNCHANGED crowded
  BY <1>2 DEF AloneUnlessCrowded
<1>3. ASSUME NEW d \in Daemons, DaemonStep(d),
             ~\E ok \in Outcomes(d) : ClearThumbnails(d, ok)
      PROVE  Up' \subseteq Up /\ UNCHANGED crowded
  <2>1. UNCHANGED crowded
    BY <1>3 DEF DaemonStep, BindSocket, StartUnit, CheckExists, Probe, Unlink,
       Bind, Listen, IoFails, ClosePin, Die
  <2>2. daemon[d] = "clear" => daemon'[d] \in {"dead", "clear"}
    BY <1>3 DEF DaemonStep, BindSocket, StartUnit, CheckExists, Probe, Unlink,
       Bind, Listen, IoFails, ClosePin, Die, Step, TypeOK, Starting, WithoutIo
  <2>3. /\ \A e \in Daemons : e # d => daemon'[e] = daemon[e]
        /\ daemon[d] = "off" => daemon'[d] = "clear"
        /\ daemon[d] = "dead" => daemon'[d] = "dead"
    BY <1>3, DaemonMoves
  <2>4. Up' \subseteq Up
    BY <2>2, <2>3 DEF Up
  <2> QED BY <2>1, <2>4
<1>4. ASSUME NEW c \in Clis, CommandStep(c)
      PROVE  Up' \subseteq Up /\ UNCHANGED crowded
  <2>1. UNCHANGED daemon => Up' \subseteq Up
    BY DEF Up
  <2>2. daemon' = [daemon EXCEPT ![c] = "clear"] => Up' \subseteq Up
    BY DaemonSets DEF Up, TypeOK
  <2> QED BY <1>4, <2>1, <2>2, CommandMoves
<1> QED BY <1>1, <1>2, <1>3, <1>4

(* Who wipes the directory, or writes to it, makes it its own, unless the
   wipe failed or another daemon was up at the same time. *)
LEMMA DirectoryIsKept ==
    ASSUME IInv,
           \/ \E d \in Daemons : DaemonStep(d)
           \/ \E c \in Clis : CommandStep(c)
    PROVE  NoPinYet' /\ DirectoryIsItsOwn'
<1> USE DEF IInv, PathInv
<1>1. ASSUME NEW d \in Daemons, NEW ok \in Outcomes(d),
             ClearThumbnails(d, ok)
      PROVE  NoPinYet' /\ DirectoryIsItsOwn'
  <2>1. UNCHANGED pin /\ pin[d] = "none" /\ (thumb' = None \/ d \in unclean')
    BY <1>1 DEF ClearThumbnails, Step, NoPinYet
  <2>2. \A e \in Up' \ crowded' : e = d
    <3>1. Up' = Up \cup {d} /\ crowded' = Crowd(d)
      BY <1>1 DEF ClearThumbnails, Step, TypeOK, Up
    <3> QED BY <3>1 DEF Crowd
  <2>3. \A e \in Daemons : e # d => daemon'[e] = daemon[e]
    BY <1>1, DaemonMoves DEF DaemonStep, BindSocket
  <2>4. NoPinYet'
    BY <2>1, <2>3 DEF NoPinYet
  <2>5. DirectoryIsItsOwn'
    BY <2>1, <2>2 DEF DirectoryIsItsOwn
  <2> QED BY <2>4, <2>5
<1>2. ASSUME NEW d \in Daemons, DaemonStep(d),
             ~\E ok \in Outcomes(d) : ClearThumbnails(d, ok)
      PROVE  NoPinYet' /\ DirectoryIsItsOwn'
  <2>1. ~\E e \in Daemons : \E ok \in Outcomes(e) : ClearThumbnails(e, ok)
    <3>1. ASSUME NEW e \in Daemons, NEW ok \in Outcomes(e),
                 ClearThumbnails(e, ok)
          PROVE  FALSE
      <4>1. daemon[e] = "clear" /\ daemon'[e] = "exists"
        BY <3>1 DEF ClearThumbnails, Step, TypeOK
      <4>2. e # d
        BY <1>2, <3>1
      <4> QED BY <1>2, <4>1, <4>2, DaemonMoves
    <3> QED BY <3>1
  <2>2. Up' \subseteq Up /\ UNCHANGED crowded
    BY <1>2, <2>1, CrowdIsWitnessed
  <2>3. /\ \A e \in Daemons : e # d => daemon'[e] = daemon[e]
        /\ daemon'[d] \in {"off", "clear"} => daemon[d] \in {"off", "clear"}
    BY <1>2, DaemonMoves
  <2>4. ASSUME NEW ok \in Outcomes(d), ClosePin(d, ok)
        PROVE  NoPinYet' /\ DirectoryIsItsOwn'
    <3>1. /\ pin[d] \in {"shown", "bare"} /\ d \in Up
          /\ UNCHANGED <<daemon, unclean>>
      BY <2>4 DEF ClosePin, Up, WithoutIo
    <3>2. CASE ok
      <4>1. pin' = [pin EXCEPT ![d] = "closed"] /\ thumb' = None
        BY <2>4, <3>2 DEF ClosePin
      <4> QED
        BY <2>2, <3>1, <4>1
           DEF NoPinYet, AloneUnlessCrowded, DirectoryIsItsOwn, TypeOK, Up
    <3>3. CASE ~ok
      <4>1. /\ pin' = [pin EXCEPT ![d] = IF @ = "shown" THEN "left"
                                                       ELSE "closed"]
            /\ UNCHANGED thumb
        BY <2>4, <3>3 DEF ClosePin
      <4>2. \A e \in Up' \ crowded' : e = d
        BY <2>2, <3>1 DEF AloneUnlessCrowded
      <4>3. NoPinYet'
        BY <3>1, <4>1 DEF NoPinYet, TypeOK, Up
      <4>4. DirectoryIsItsOwn'
        BY <2>2, <3>1, <4>1, <4>2 DEF DirectoryIsItsOwn, TypeOK
      <4> QED BY <4>3, <4>4
    <3> QED BY <3>2, <3>3
  <2>5. CASE ~\E ok \in Outcomes(d) : ClosePin(d, ok)
    <3>1. UNCHANGED <<pin, thumb, unclean>>
      BY <1>2, <2>5 DEF DaemonStep, BindSocket, StartUnit, CheckExists, Probe,
         Unlink, Bind, Listen, IoFails, Die
    <3>2. NoPinYet'
      BY <2>3, <3>1 DEF NoPinYet
    <3>3. DirectoryIsItsOwn'
      BY <2>2, <3>1 DEF DirectoryIsItsOwn
    <3> QED BY <3>2, <3>3
  <2> QED BY <2>4, <2>5
<1>3. ASSUME NEW c \in Clis, CommandStep(c)
      PROVE  NoPinYet' /\ DirectoryIsItsOwn'
  <2>1. /\ UNCHANGED <<crowded, unclean>>
        /\ \/ UNCHANGED daemon
           \/ /\ daemon[c] = "off" /\ UNCHANGED <<pin, thumb>>
              /\ daemon' = [daemon EXCEPT ![c] = "clear"]
    BY <1>3, CommandMoves
  <2>2. Up' \subseteq Up
    BY <2>1, DaemonSets DEF Up, TypeOK
  <2>3. CASE UNCHANGED <<pin, thumb>>
    <3>1. NoPinYet'
      BY <2>1, <2>3, DaemonSets DEF NoPinYet, TypeOK
    <3>2. DirectoryIsItsOwn'
      BY <2>1, <2>2, <2>3 DEF DirectoryIsItsOwn
    <3> QED BY <3>1, <3>2
  <2>4. ASSUME NEW ok \in Outcomes(peer[c]), cli[c] = "exchange",
               Capture(c, ok)
        PROVE  NoPinYet' /\ DirectoryIsItsOwn'
    <3>1. /\ daemon[peer[c]] = "serving" /\ pin[peer[c]] = "none"
          /\ pin' = [pin EXCEPT ![peer[c]] = IF ok THEN "shown" ELSE "bare"]
          /\ thumb' = IF ok THEN peer[c] ELSE thumb
          /\ UNCHANGED daemon
      BY <2>4 DEF Capture
    <3>2. peer[c] \in Daemons /\ peer[c] \in Up
      BY <2>4, <3>1 DEF Up, PeerIsADaemon
    <3>3. \A e \in Up' \ crowded' : e = peer[c]
      BY <2>1, <2>2, <3>2 DEF AloneUnlessCrowded
    <3>4. NoPinYet'
      BY <3>1, <3>2 DEF NoPinYet, TypeOK, Up
    <3>5. DirectoryIsItsOwn'
      BY <2>1, <2>2, <3>1, <3>2, <3>3 DEF DirectoryIsItsOwn, TypeOK
    <3> QED BY <3>4, <3>5
  <2>5. \/ UNCHANGED <<pin, thumb>>
        \/ /\ cli[c] = "exchange"
           /\ \E ok \in Outcomes(peer[c]) : Capture(c, ok)
    BY <1>3 DEF CommandStep, Run, RoundTrip, TimeOut, Connect, Spawn, SpawnFails,
       Poll, ConnectAgain, ConnectFails, ExchangeOrLost, Exchange,
       ConnectionLost, daemonVars
  <2> QED BY <2>3, <2>4, <2>5
<1> QED BY <1>1, <1>2, <1>3

-----------------------------------------------------------------------------
(* The retry *)

\* What excuses a failed retry is there for good, and a daemon that could be
\* reached still can be, or there is an excuse.
LEMMA ReachableOrLost ==
    ASSUME TypeOK, NotSpawnedYet,
           \/ \E d \in Daemons : DaemonStep(d)
           \/ \E c \in Clis : CommandStep(c)
    PROVE  /\ Lost => Lost'
           /\ Reachable => Reachable' \/ Lost'
<1>1. ASSUME NEW d \in Daemons, DaemonStep(d)
      PROVE  /\ Lost => Lost'
             /\ Reachable => Reachable' \/ Lost'
  <2>1. /\ \A e \in Daemons : e # d => daemon'[e] = daemon[e]
        /\ daemon[d] \in {"dead", "broken"}
               => daemon'[d] \in {"dead", "broken"}
    BY <1>1, DaemonMoves
  <2>2. stolen => stolen'
    BY <1>1 DEF DaemonStep, BindSocket, StartUnit, ClearThumbnails, CheckExists,
       Probe, Unlink, Bind, Listen, IoFails, ClosePin, Die
  <2>3. Lost => Lost'
    BY <2>1, <2>2 DEF Lost
  <2>4. CASE IoFails(d) \/ Die(d)
    <3>1. daemon'[d] \in {"dead", "broken"}
      BY <2>4 DEF IoFails, Die, TypeOK
    <3> QED BY <2>3, <3>1 DEF Lost
  <2>5. CASE Unlink(d)
    <3>1. Reachable => stolen'
      BY <2>5 DEF Unlink, Reachable, Bound
    <3> QED BY <2>3, <3>1 DEF Lost
  <2>6. CASE ~IoFails(d) /\ ~Die(d) /\ ~Unlink(d)
    <3>1. daemon[d] = "serving" => daemon'[d] = "serving"
      BY <1>1, <2>6 DEF DaemonStep, BindSocket, StartUnit, ClearThumbnails,
         CheckExists, Probe, Bind, Listen, ClosePin, Step
    <3>2. Reachable => UNCHANGED file
      BY <1>1, <2>6, Names DEF DaemonStep, BindSocket, StartUnit,
         ClearThumbnails, CheckExists, Probe, Bind, Listen, ClosePin, Reachable
    <3>3. Reachable => Reachable'
      BY <2>1, <3>1, <3>2 DEF Reachable
    <3> QED BY <2>3, <3>3
  <2> QED BY <2>4, <2>5, <2>6
<1>2. ASSUME NEW c \in Clis, CommandStep(c)
      PROVE  /\ Lost => Lost'
             /\ Reachable => Reachable' \/ Lost'
  <2>1. /\ UNCHANGED <<file, stolen>>
        /\ \/ UNCHANGED daemon
           \/ daemon[c] = "off" /\ daemon' = [daemon EXCEPT ![c] = "clear"]
    BY <1>2, CommandMoves
  <2>2. \A e \in Daemons : daemon[e] # "off" => daemon'[e] = daemon[e]
    BY <2>1 DEF TypeOK
  <2> QED BY <2>1, <2>2 DEF Lost, Reachable
<1> QED BY <1>1, <1>2

(* A CLI connects a second time after its daemon was seen to listen, and is
   refused only if a socket was stolen, or a daemon died or lost its io
   thread. *)
LEMMA RetriesAreJustified ==
    ASSUME TypeOK, NotSpawnedYet, RetryIsJustified,
           \/ \E d \in Daemons : DaemonStep(d)
           \/ \E c \in Clis : CommandStep(c)
    PROVE  RetryIsJustified'
<1>1. /\ Lost => Lost'
      /\ Reachable => Reachable' \/ Lost'
  BY ReachableOrLost
<1>2. ASSUME NEW d \in Daemons, DaemonStep(d)
      PROVE  RetryIsJustified'
  <2>1. UNCHANGED cli
    BY <1>2, DaemonMoves
  <2> QED BY <1>1, <2>1 DEF RetryIsJustified
<1>3. ASSUME NEW c \in Clis, CommandStep(c)
      PROVE  RetryIsJustified'
  <2>1. /\ \A b \in Clis : b # c => cli'[b] = cli[b]
        /\ cli'[c] = "again" => Reachable
        /\ cli'[c] = "refused" => cli[c] = "again" /\ ~Reachable
    BY <1>3, CommandGoes
  <2> QED BY <1>1, <2>1 DEF RetryIsJustified
<1> QED BY <1>2, <1>3

-----------------------------------------------------------------------------
(* The specification *)

(* Nothing runs in the beginning, and leftovers belong to nobody. *)
LEMMA InitIInv == Init => IInv
<1> SUFFICES ASSUME Init PROVE IInv
  OBVIOUS
<1>1. PathInv
  BY InitPathInv
<1>2. NotSpawnedYet /\ PeerIsADaemon /\ NoPinYet /\ RetryIsJustified
  BY DaemonSets DEF Init, NotSpawnedYet, PeerIsADaemon, NoPinYet,
     RetryIsJustified
<1>3. Up = {}
  BY DEF Init, Up
<1> QED
  BY <1>1, <1>2, <1>3 DEF IInv, AloneUnlessCrowded, DirectoryIsItsOwn

\* IInv is inductive.
LEMMA StepIInv == IInv /\ [Next]_vars => IInv'
<1> SUFFICES ASSUME IInv, [Next]_vars PROVE IInv'
  OBVIOUS
<1>1. PathInv'
  BY StepPathInv DEF IInv
<1>2. CASE \/ \E d \in Daemons : DaemonStep(d)
           \/ \E c \in Clis : CommandStep(c)
  <2>1. NotSpawnedYet' /\ PeerIsADaemon' /\ RetryIsJustified'
    BY <1>2, SpawnedOnce, PeersStayDaemons, RetriesAreJustified
       DEF IInv, PathInv
  <2>2. AloneUnlessCrowded'
    BY <1>2, CrowdIsWitnessed DEF IInv, PathInv
  <2>3. NoPinYet' /\ DirectoryIsItsOwn'
    BY <1>2, DirectoryIsKept
  <2> QED BY <1>1, <2>1, <2>2, <2>3 DEF IInv
<1>3. CASE UNCHANGED vars
  <2>1. NotSpawnedYet' /\ PeerIsADaemon' /\ NoPinYet'
    BY <1>3 DEF IInv, vars, NotSpawnedYet, PeerIsADaemon, NoPinYet
  <2>2. AloneUnlessCrowded' /\ DirectoryIsItsOwn' /\ RetryIsJustified'
    BY <1>3 DEF IInv, vars, AloneUnlessCrowded, DirectoryIsItsOwn, Up,
       RetryIsJustified, Lost, Reachable
  <2> QED BY <1>1, <2>1, <2>2 DEF IInv
<1> QED
  BY <1>2, <1>3 DEF Next, DaemonStep, CommandStep

\* IInv holds in every reachable state.
LEMMA Invariance == Spec => []IInv
BY InitIInv, StepIInv, PTL DEF Spec

\* Every variable keeps its type.
THEOREM TypeCorrect == Spec => []TypeOK
BY Invariance, PTL DEF IInv, PathInv

\* server.rs:84-117: whatever races for the path, two daemons come to listen
\* only after one of them unlinked a socket the other had bound.
THEOREM TheftIsTheOnlyWay == Spec => []TwoListenersOnlyByTheft
<1>1. IInv => TwoListenersOnlyByTheft
  <2> SUFFICES ASSUME IInv, ~stolen PROVE OneListener
    BY DEF TwoListenersOnlyByTheft
  <2>1. Listeners \subseteq {file}
    BY DEF IInv, PathInv, PathIsHeld, Listeners, Bound
  <2>2. Listeners = {} \/ Listeners = {file}
    BY <2>1
  <2>3. Cardinality({}) = 0 /\ Cardinality({file}) = 1
    BY FS_EmptySet, FS_Singleton
  <2> QED
    BY <2>2, <2>3 DEF OneListener
<1> QED
  BY <1>1, Invariance, PTL

\* thumbnail.rs:73-75, main.rs:47-49: of however many daemons that start and
\* die, one that was never up with another has the preview of its own pin; it
\* has a preview of an earlier session only if it could not clear the
\* directory, and of a closed pin only if that could not be removed.
THEOREM DirectoryBelongsToItsDaemon == Spec => []PreviewsAreItsOwn
<1>1. IInv => PreviewsAreItsOwn
  <2>1. Listeners \subseteq Up
    BY DEF Listeners, Up
  <2> QED BY <2>1 DEF IInv, DirectoryIsItsOwn, PreviewsAreItsOwn
<1> QED
  BY <1>1, Invariance, PTL

\* main.rs:5-8 of the CLI: a second retry would only help against a daemon that
\* died, one whose io thread met an error of the system, or a socket that was
\* taken away.
THEOREM ASecondRetryIsNoHelp == Spec => []OneRetryIsEnough
<1>1. IInv => OneRetryIsEnough
  BY DEF IInv, RetryIsJustified, Lost, OneRetryIsEnough
<1> QED
  BY <1>1, Invariance, PTL
=============================================================================
