--------------------------- MODULE DaemonStartup ---------------------------
(***************************************************************************)
(* Daemons that start (main.rs, bind_socket in server.rs) and CLIs that    *)
(* look for one (osnip-cli), around one socket path and one thumbnail      *)
(* directory.                                                              *)
(*                                                                         *)
(* A daemon clears the thumbnail directory, probes the socket, unlinks a   *)
(* file nobody listens on, and binds; nothing holds the path meanwhile.    *)
(* When that fails, because of another daemon or on an error of the        *)
(* system, its io thread ends and the process stays.  A CLI that finds     *)
(* nobody starts a daemon, waits and connects again, once.  Several CLIs,  *)
(* the service unit, and daemons of earlier sessions do so at once.        *)
(*                                                                         *)
(* A socket file is the daemon that bound it.  A daemon captures one pin   *)
(* at most: ids start over in every process, so that the pins of two       *)
(* daemons share one thumbnail file.  That file can resist being written   *)
(* or removed.                                                             *)
(***************************************************************************)
EXTENDS Naturals, FiniteSets

CONSTANTS
    Clis,           \* CLI processes, which run one command each
    Units,          \* starts of the daemon that no CLI asked for
    MayFail,        \* processes that the system may refuse something
    Stale,          \* what an earlier session left behind
    None

ASSUME StartupAssumption ==
    /\ Clis \cap Units = {}
    /\ Stale \notin Clis \cup Units
    /\ None \notin Clis \cup Units \cup {Stale}
    /\ MayFail \subseteq Clis \cup Units

\* A CLI starts at most one daemon, which goes by its name.
Daemons == Clis \cup Units

\* How a call of process p that the system can refuse may end.
Outcomes(p) == IF p \in MayFail THEN BOOLEAN ELSE {TRUE}

VARIABLES
    file,       \* the socket path: whose socket is there, or None
    thumb,      \* the thumbnail directory: whose preview of pin 1, or None
    daemon,     \* where each daemon is
    pin,        \* pin 1 of each daemon and its preview
    cli,        \* where each CLI is
    peer,       \* the daemon each CLI is connected to
    stolen,     \* history: whether a socket was unlinked that was in use
    crowded,    \* history: daemons that were up while another one was
    unclean     \* history: daemons that could not clear the directory

daemonVars == <<daemon, pin, thumb, crowded, unclean>>
cliVars == <<cli, peer>>
vars == <<file, thumb, daemon, pin, cli, peer, stolen, crowded, unclean>>

\* Between exec and the accept loop.
Starting == {"clear", "exists", "probe", "unlink", "bind", "listen"}

\* A process whose io thread has ended: it gave way to another daemon, or met
\* an error of the system.
WithoutIo == {"zombie", "broken"}

\* No pin; one with its preview; one whose preview could not be written; one
\* that is closed, and one whose preview then could not be removed.
PinState == {"none", "shown", "bare", "closed", "left"}

Ended == {"done", "timeout", "unspawned", "refused", "failed", "lost"}

TypeOK ==
    /\ file \in Daemons \cup {Stale, None}
    /\ thumb \in Daemons \cup {Stale, None}
    /\ daemon \in [Daemons ->
           Starting \cup WithoutIo \cup {"off", "serving", "dead"}]
    /\ pin \in [Daemons -> PinState]
    /\ cli \in [Clis ->
           {"off", "connect", "spawn", "wait", "again", "exchange"} \cup Ended]
    /\ peer \in [Clis -> Daemons \cup {None}]
    /\ stolen \in BOOLEAN
    /\ crowded \subseteq Daemons /\ unclean \subseteq Daemons

\* An earlier session may have left its socket file and a preview.
Init ==
    /\ file \in {None, Stale}
    /\ thumb \in {None, Stale}
    /\ daemon = [d \in Daemons |-> "off"]
    /\ pin = [d \in Daemons |-> "none"]
    /\ cli = [c \in Clis |-> "off"]
    /\ peer = [c \in Clis |-> None]
    /\ stolen = FALSE
    /\ crowded = {} /\ unclean = {}

\* connect() succeeds: the socket at the path is one that somebody listens on.
Reachable == file \in Daemons /\ daemon[file] = "serving"

Step(d, from, to) ==
    /\ daemon[d] = from
    /\ daemon' = [daemon EXCEPT ![d] = to]

-----------------------------------------------------------------------------
(* main() *)

\* systemd, or a user, starts a daemon.
StartUnit(d) ==
    /\ d \in Units
    /\ Step(d, "off", "clear")
    /\ UNCHANGED <<file, thumb, pin, cliVars, stolen, crowded, unclean>>

\* The daemons that are past clearing the directory and still run.
Up == {d \in Daemons : daemon[d] \notin {"off", "clear", "dead"}}

\* Who shares the directory once d is up.
Crowd(d) == IF Up = {} THEN crowded ELSE crowded \cup Up \cup {d}

\* Mutant: the directory is left as it is.
KeepThumbnails(d, ok) ==
    /\ Step(d, "clear", "exists")
    /\ crowded' = Crowd(d)
    /\ UNCHANGED <<file, thumb, pin, cliVars, stolen, unclean>>

\* with_thumbnail_dir, on the main thread: every file goes, unless it or the
\* directory resists, which keeps no daemon from starting.
ClearThumbnails(d, ok) ==
    /\ Step(d, "clear", "exists")
    /\ thumb' = IF ok THEN None ELSE thumb
    /\ unclean' = IF ok THEN unclean ELSE unclean \cup {d}
    /\ crowded' = Crowd(d)
    /\ UNCHANGED <<file, pin, cliVars, stolen>>

\* The process is killed, or main returns: no configuration, no compositor.
\* Nothing is cleaned up.
Die(d) ==
    /\ daemon[d] \notin {"off", "dead"}
    /\ daemon' = [daemon EXCEPT ![d] = "dead"]
    /\ UNCHANGED <<file, thumb, pin, cliVars, stolen, crowded, unclean>>

-----------------------------------------------------------------------------
(* bind_socket, on the io thread *)

\* path.exists()
CheckExists(d) ==
    /\ Step(d, "exists", IF file = None THEN "bind" ELSE "probe")
    /\ UNCHANGED <<file, thumb, pin, cliVars, stolen, crowded, unclean>>

\* connect(): somebody answers, and serve() returns an error; or nobody does.
Probe(d) ==
    /\ Step(d, "probe", IF Reachable THEN "zombie" ELSE "unlink")
    /\ UNCHANGED <<file, thumb, pin, cliVars, stolen, crowded, unclean>>

\* The daemons whose socket is in use.
Bound == {d \in Daemons : daemon[d] \in {"listen", "serving"}}

\* Mutant: the stale file is removed and the daemon waits to be started again.
UnlinkOnly(d) ==
    /\ Step(d, "unlink", "zombie")
    /\ file' = None
    /\ stolen' = (stolen \/ file \in Bound)
    /\ UNCHANGED <<thumb, pin, cliVars, crowded, unclean>>

\* remove_file(): whatever is at the path by now goes; a missing file is an
\* error.
Unlink(d) ==
    /\ Step(d, "unlink", IF file = None THEN "zombie" ELSE "bind")
    /\ file' = None
    /\ stolen' = (stolen \/ file \in Bound)
    /\ UNCHANGED <<thumb, pin, cliVars, crowded, unclean>>

\* Mutant: the path is taken over.
BindOver(d) ==
    /\ Step(d, "bind", "listen")
    /\ file' = d
    /\ UNCHANGED <<thumb, pin, cliVars, stolen, crowded, unclean>>

\* bind(): fails if there is a file again.
Bind(d) ==
    /\ Step(d, "bind", IF file = None THEN "listen" ELSE "zombie")
    /\ file' = IF file = None THEN d ELSE file
    /\ UNCHANGED <<thumb, pin, cliVars, stolen, crowded, unclean>>

\* listen(), and the accept loop.
Listen(d) ==
    /\ Step(d, "listen", "serving")
    /\ UNCHANGED <<file, thumb, pin, cliVars, stolen, crowded, unclean>>

\* Any call of the io thread can fail on an error of the system: the runtime
\* cannot be built, the probe ends in an error that tells nothing, the file or
\* its directory resist, accept() fails.  serve() returns, the io thread ends
\* and takes the listener along, and the process stays.
IoFails(d) ==
    /\ d \in MayFail
    /\ daemon[d] \in (Starting \ {"clear"}) \cup {"serving"}
    /\ daemon' = [daemon EXCEPT ![d] = "broken"]
    /\ UNCHANGED <<file, thumb, pin, cliVars, stolen, crowded, unclean>>

\* A pin that was captured by d is closed, over the socket or at its window,
\* which outlives the io thread; removing its preview may fail.
ClosePin(d, ok) ==
    /\ daemon[d] \in WithoutIo \cup {"serving"}
    /\ pin[d] \in {"shown", "bare"}
    /\ pin' = [pin EXCEPT ![d] = IF ~ok /\ @ = "shown" THEN "left"
                                                      ELSE "closed"]
    /\ thumb' = IF ok THEN None ELSE thumb
    /\ UNCHANGED <<file, daemon, cliVars, stolen, crowded, unclean>>

-----------------------------------------------------------------------------
(* round_trip in the CLI *)

CliStep(c, from, to) ==
    /\ cli[c] = from
    /\ cli' = [cli EXCEPT ![c] = to]

\* The user runs a command.
Run(c) ==
    /\ CliStep(c, "off", "connect")
    /\ UNCHANGED <<file, daemonVars, peer, stolen>>

\* Mutant: a socket file is taken for a daemon.
ConnectIfThere(c) ==
    /\ CliStep(c, "connect", IF file # None THEN "exchange" ELSE "spawn")
    /\ peer' = [peer EXCEPT ![c] = file]
    /\ UNCHANGED <<file, daemonVars, stolen>>

\* The first connect, to a daemon or to a missing or dead socket.
Connect(c) ==
    /\ CliStep(c, "connect", IF Reachable THEN "exchange" ELSE "spawn")
    /\ peer' = [peer EXCEPT ![c] = IF Reachable THEN file ELSE None]
    /\ UNCHANGED <<file, daemonVars, stolen>>

\* spawn_daemon_detached.
Spawn(c) ==
    /\ CliStep(c, "spawn", "wait")
    /\ daemon' = [daemon EXCEPT ![c] = "clear"]
    /\ UNCHANGED <<file, pin, thumb, crowded, unclean, peer, stolen>>

\* The binary cannot be started, or the user passed --no-spawn.
SpawnFails(c) ==
    /\ CliStep(c, "spawn", "unspawned")
    /\ UNCHANGED <<file, daemonVars, peer, stolen>>

\* Mutant: the socket file is enough.
PollFile(c) ==
    /\ file # None
    /\ CliStep(c, "wait", "again")
    /\ UNCHANGED <<file, daemonVars, peer, stolen>>

\* wait_for_socket: a connect succeeds, and is closed again.
Poll(c) ==
    /\ Reachable
    /\ CliStep(c, "wait", "again")
    /\ UNCHANGED <<file, daemonVars, peer, stolen>>

\* wait_for_socket: the last connect before the deadline failed.
TimeOut(c) ==
    /\ ~Reachable
    /\ CliStep(c, "wait", "timeout")
    /\ UNCHANGED <<file, daemonVars, peer, stolen>>

\* A connect that fails for another reason than a missing or dead socket ends
\* the command, at the first attempt, in the wait and at the retry.
ConnectFails(c) ==
    /\ c \in MayFail
    /\ cli[c] \in {"connect", "wait", "again"}
    /\ cli' = [cli EXCEPT ![c] = "failed"]
    /\ UNCHANGED <<file, daemonVars, peer, stolen>>

\* The one retry.
ConnectAgain(c) ==
    /\ CliStep(c, "again", IF Reachable THEN "exchange" ELSE "refused")
    /\ peer' = [peer EXCEPT ![c] = IF Reachable THEN file ELSE None]
    /\ UNCHANGED <<file, daemonVars, stolen>>

\* The daemon at the other end answers a request that captures nothing.
Exchange(c) ==
    /\ daemon[peer[c]] = "serving"
    /\ CliStep(c, "exchange", "done")
    /\ UNCHANGED <<file, daemonVars, peer, stolen>>

\* It captures a pin and writes its preview, if it can.
Capture(c, ok) ==
    /\ daemon[peer[c]] = "serving"
    /\ pin[peer[c]] = "none"
    /\ CliStep(c, "exchange", "done")
    /\ pin' = [pin EXCEPT ![peer[c]] = IF ok THEN "shown" ELSE "bare"]
    /\ thumb' = IF ok THEN peer[c] ELSE thumb
    /\ UNCHANGED <<file, daemon, crowded, unclean, peer, stolen>>

\* The daemon or its io thread ended first.
ConnectionLost(c) ==
    /\ daemon[peer[c]] \in WithoutIo \cup {"dead"}
    /\ CliStep(c, "exchange", "lost")
    /\ UNCHANGED <<file, daemonVars, peer, stolen>>

-----------------------------------------------------------------------------
ExchangeOrLost(c) ==
    /\ cli[c] = "exchange"
    /\ \/ Exchange(c)
       \/ \E ok \in Outcomes(peer[c]) : Capture(c, ok)
       \/ ConnectionLost(c)

\* What a daemon does by itself.
BindSocket(d) ==
    \/ \E ok \in Outcomes(d) : ClearThumbnails(d, ok)
    \/ CheckExists(d) \/ Probe(d) \/ Unlink(d) \/ Bind(d) \/ Listen(d)

\* What a CLI does by itself to reach a daemon; how long it polls is a matter
\* of time, and how long the answer takes a matter of the request.
RoundTrip(c) ==
    Connect(c) \/ Spawn(c) \/ SpawnFails(c) \/ Poll(c) \/ ConnectAgain(c)

Next ==
    \/ \E d \in Daemons :
           \/ StartUnit(d) \/ BindSocket(d) \/ IoFails(d) \/ Die(d)
           \/ \E ok \in Outcomes(d) : ClosePin(d, ok)
    \/ \E c \in Clis :
           \/ Run(c) \/ RoundTrip(c) \/ ConnectFails(c) \/ TimeOut(c)
           \/ ExchangeOrLost(c)

Spec == Init /\ [][Next]_vars

\* Processes run.  Nobody has to start one, answer, close a pin, die, fail or
\* time out.
Fairness ==
    /\ \A d \in Daemons : WF_vars(BindSocket(d))
    /\ \A c \in Clis : WF_vars(RoundTrip(c))

FairSpec == Spec /\ Fairness

-----------------------------------------------------------------------------
(* Properties *)

Listeners == {d \in Daemons : daemon[d] = "serving"}

\* server.rs:84-86 says that a socket file is unlinked when it is stale: one
\* that somebody listens on stays.
LiveSocketStays == [][Reachable => file' = file]_vars

OneListener == Cardinality(Listeners) <= 1

\* server.rs:5-6: a daemon exits rather than fight for the path.  What the code
\* does achieve: two daemons listen only after one of them unlinked the socket
\* of the other between that one's bind and its own.
TwoListenersOnlyByTheft == OneListener \/ stolen

\* thumbnail.rs:73-75, main.rs:47-49: a daemon that was never up together with
\* another one finds the preview of its own pin in the directory and, unless
\* the wipe failed, nothing of an earlier session, also after daemons that died
\* halfway.  A preview that could not be removed stays.
PreviewsAreItsOwn ==
    \A d \in Listeners \ crowded :
        IF pin[d] \in {"shown", "left"} THEN thumb = d
                                      ELSE thumb = None \/ d \in unclean

\* What keeps a daemon that was reachable, or was about to be, from being
\* reached: its socket was taken away, it died, or its io thread failed.
Lost == stolen \/ \E d \in Daemons : daemon[d] \in {"dead", "broken"}

\* main.rs:5-8 of the CLI: one retry is enough.  A CLI that saw a daemon
\* listen, and then found nobody, met one that was lost.
OneRetryIsEnough == \A c \in Clis : cli[c] = "refused" => Lost

\* README.md:213-215: commands work from a cold start.  However many daemons
\* race for the path, one of them comes to listen and a CLI that waits is
\* connected, unless it gives up or a daemon is lost.
ColdStartWorks ==
    \A c \in Clis :
        cli[c] = "wait" ~> cli[c] \in {"exchange", "timeout", "failed"} \/ Lost
=============================================================================
