# Osnip, specified in TLA+

Osnip pins screenshots and clipboard images to a Wayland desktop as floating
windows.  One daemon owns the pins; a CLI and a bar panel talk to it over a
Unix socket.  This directory holds TLA+ models of the daemon, the TLC
configurations that check them, and TLAPS proofs that the safety properties of
every module hold for all values of its constants.

    tlc -config PinRegistry.cfg MCPinRegistry.tla       # one run
    tlapm PinRegistryProofs.tla                         # the proofs of a module

## 1. Inventory

### Components, their state and their operations

| component | code | state | operations |
|---|---|---|---|
| Pin registry | `osnip-daemon/src/registry.rs` | `pins` behind a mutex, `next_id`, the sending half of a broadcast channel | `insert`, `close`, `close_all`, `replace_image`, `image`, `logical_size`, `list`, `subscribe`, `publish` |
| Thumbnail store | `thumbnail.rs` | one PNG per live pin in the runtime directory | `write_thumbnail` (temporary file and rename), `remove_thumbnail`, `clear` at start-up |
| Change bus and forwarder | `registry.rs`, `server.rs:308-329` | a bounded broadcast channel; one task per subscribed session | check for receivers, snapshot, send; subscribe, opening snapshot, receive, repair after a lag |
| IPC handlers | `handlers.rs` | none of their own | the nine requests; a registry change followed by an `AppEvent` |
| Iced application | `app.rs`, `image_ops.rs` | `pin_to_window`, `window_to_pin`, `windows`, `handles` | `OpenPin`, `ClosePin`, `CloseAllPins`, pin actions, `WindowOpened`, `WindowClosed`, `Resized`, keys |
| Socket session | `server.rs:126-333` | transport, request loop, write queue, up to three tasks | detect transport, v1 exchange, line loop, subscribe, shut down |
| Daemon start-up | `main.rs`, `server.rs:85-124` | socket file, two threads | wipe thumbnails, probe, unlink, bind, serve |
| CLI client | `osnip-cli` | none | connect, spawn a daemon, wait for its socket, one exchange |
| Wire protocol | `osnip-core` | none | framing with a length prefix, JSON types |
| Bar panel | `Model.js`, `Panel.qml` | pins, cursor, connection, install state | reduce messages, reconnect, keys |
| Capture and clipboard | `capture.rs`, `region_select.rs`, `clipboard.rs` | none of their own; the Wayland selection | select a region, take it; list types, paste; copy |
| Save, configuration, notification | `save.rs`, `config.rs`, `notify.rs` | the save directory | name and write a file, notify |

### How they interact

    client --socket--> session task --call--> handler --call--> PinRegistry
                          ^                      |                |    |
                      write queue            AppEvent queue       |  thumbnails
                          ^                      v                |
                     forwarder <--broadcast--  App (iced thread) -+
                                                 |   ^
                                     open/close/resize, WindowOpened/Closed/Resized
                                                 v   |
                                              compositor, user

- The handlers run on a multi-threaded runtime, the application on one thread
  of its own.  All of them call the registry, whose lock covers one map
  operation and no file operation.
- A handler changes the registry first and sends its event later.  The
  application looks the pin up again when it handles the event.
- A window is asked for in `open_pin` and known to the application only from
  `WindowOpened`.  What the compositor and the user do with it arrives on two
  other streams (close events, raw resize events).
- A subscriber is informed by whole snapshots.  Its backlog is bounded, and it
  repairs itself after a lag.
- A session reads, forwards and writes in three tasks joined by one queue.  Its
  bytes arrive in chunks whose borders mean nothing.
- Every copy and save is a task of the application, which holds the pixels of the
  moment it was asked for and ends in a notification.  It shares the clipboard
  and the directory with the handlers, other tasks and other applications.
- A CLI that finds no daemon starts one; a daemon that finds another one gives
  way.  They meet only at the socket path and in the thumbnail directory.
- The panel hears of the daemon through one socket it mounts anew after every
  loss, and of an installation only through two files.

### What is hard, and what has to be right

| behaviour | what has to hold |
|---|---|
| thumbnails are written before the lock and unlinked after it | a preview that is advertised exists; no file outlives its pin for good |
| a transform reads, computes and stores in three steps | no stored transform is lost |
| ids are minted outside the lock | no id is used twice or comes back to life |
| publish is check, read, send on several threads | a subscriber is informed of the final state although messages are dropped |
| events, window messages and requests overlap | the four maps of the application, the registry and the screen agree, except in the races of section 5 |
| a thumbnail, or the whole directory, resists being written or removed | no live pin loses its preview; what stays is what resisted |
| a capture blocks a session for as long as the user takes | the event stream goes on |
| shutdown with replies still queued | each request is answered once, in order, and the tasks end |
| a v1 frame is refused or cut off | the session ends, and no other answer is lost |
| requests come in chunks, behind a byte that tells the transport | lines and frames are those the client wrote; no client makes a buffer grow beyond the cap and a chunk |
| the clipboard is asked twice; copies and saves outlive what they were asked for | what is pinned was on the clipboard; what is notified of was done, with the right pixels; whoever waits for wl-copy waits at most for as long as it holds the selection |
| daemons probe, unlink and bind one path; any of them may die, or stay without its io thread | one listens, a CLI is connected from a cold start, previews are the daemon's own |
| ids start over in every daemon, the panel outlives daemons, their lists overtake each other | a request is about a pin of the daemon it reaches; the panel catches up; the cursor stays on the list |
| the end of an installation is a file that somebody may not write, in a terminal that may not come up | the panel stops waiting |

`PROJECT.json` lists every hazard at its line with the properties aimed at it.

## 2. Modules

| module | what it is |
|---|---|
| `Maps` | the map operations of `HashMap` the modules share |
| `PinStore` | the abstract specification of the registry: one atomic set of pins with a revision each |
| `PinRegistry` | registry, thumbnails, publishing, broadcast channel, forwarders |
| `PinGui` | handlers, event queue, application, compositor, user |
| `ShellSession` | one connection: client, request loop, writer, forwarder |
| `DaemonStartup` | daemons that start, CLIs that look for one, the socket path |
| `LineStream` | the abstract specification of a connection's input: a stream of bytes cut at its newlines |
| `LineReader` | how chunks of bytes become lines or one frame |
| `ImageJobs` | captures, clipboard reads, copies, saves and notifications |
| `BarPanel` | the panel, the daemons behind its socket, its user, an installer |
| `DataTheorems` | lemmas about maps, concatenation and recursive functions that the proofs share |
| `...Proofs` | theorems about the module of that name and their proofs: `PinRegistryProofs`, `PinGuiProofs`, `ShellSessionProofs`, `DaemonStartupProofs`, `LineReaderProofs`, `ImageJobsProofs`, `BarPanelProofs` |
| `MC...` | symmetric model values for TLC |

### PinRegistry

A *thread* is an IPC handler or the iced thread; `call[t]` is where it is inside
a registry call and the locals it holds there.  Every lock and every file
operation is an action of its own:

| code | actions |
|---|---|
| `insert` | `InsertBegin` (mint the id, write the file), `InsertStore` (lock) |
| `close`, `close_all` | `CloseBegin`, `CloseAllBegin` (lock), `Unlink` per file |
| `image`, `transform`, `replace_image` | `TransformBegin`, `ReplaceEncode` (write), `ReplaceStore` or `ReplaceMiss` (lock), `ReplaceDiscard` (remove what was written for a dead pin) |
| `publish` | `PublishSkip` or `PublishCheck`, `PublishList`, `PublishSend` |
| `spawn_event_forwarder` | `Subscribe`, `SendSnapshot`, `Receive`, `ReceiveLagged`, `Unsubscribe` |

Pixels are the number of transforms they went through; a file is the version it
was made from; a preview path is a function of the id, so only its presence is
kept.  Writes and removals may fail for the pins in `FaultyPins` and leave the
old file; the temporary file of a write is not modelled (section 6).  `informed`,
`spoiled` and `littered` are history variables: what subscribers were shown, the
pins whose last write failed, and the files that resisted their last removal.  The broadcast channel is
tokio's, modelled from what the code relies on: each receiver holds the last
`Capacity` messages and reports a lag once before it goes on with the oldest it
still has.  `InsertBegin` mints and writes in one step because no other thread
can know the id in between.  Only the iced thread transforms pins
(`Transformers`): `PinAction` requests are forwarded to it.

### PinGui

Registry calls are single steps here: that is what `Refinement` (section 4)
proves of the registry.  `owed[h]` is the event handler `h` has not sent yet.
`messages` is a *set*: window messages travel on several streams, and nothing
orders those of one window.  Image and window sizes are kept as proportions
(as captured, turned, square); of the actions, one stands for the two rotations
and one for the two flips.  Copy and save change none of this state and are in
`ImageJobs`.
`window::close` takes effect at once and is reported later; `WindowOpened`
reads the registry twice in the code, with no other thread able to change the
outcome except by closing the pin, and is one step here.  The history variables
`missed`, `swept` and `raced` name the three races of section 5, so that the
invariants can say "except".  `missed` are the pins whose teardown found no
window: their window, or pixels cached for them, may stay.

### ShellSession

Requests are numbered and have a kind; `list` stands for all that are answered
at once.  A v1 connection carries one frame: a request (`Frame`), a capture, one
that cannot be decoded or announces too much (`FrameRefused`), or one that the
client never finishes (`FrameCutOff`).  The last two end the session without an
answer.  A capture holds the session in `Answer`, or in the dispatch of the line
loop, for as long as the user takes (`Capturing`).  `due` (history) is what the
loop has to answer.  `out` is the unbounded queue of the writer task, `wire` what the
socket buffers.  Snapshots may reach the forwarder in any order, which is what
`PinRegistry` shows of publishing.  A subscribe spawns the forwarder before its
`ok` is queued; at the end of input the forwarder is aborted, the session's
sender dropped and the writer awaited.

### LineReader and LineStream

`LineReader` is the input of one connection, byte by byte: `Lead` reads one byte
and puts it back (`restore_lead` chains it in front of the socket, so that the
next read returns it alone); `FillBuf`, `EndLine`, `GrowLine` and `EndOfLines`
are the loop of `read_line_capped`; `ReadFrame` and `EndFrame` are `read_frame`,
whose two reads may each be cut anywhere.  `stage` is the transport, `lines` and
`frame` what was handed to the session.  `LineStream` says what that amounts to:
the bytes not handed on yet are `line \o buffer \o lead \o socket`, and a line is
a run of them up to a newline.  It lets a line exceed the cap by `Slack`, which
the refinement sets to one less than the buffer: that is all the code promises
(section 5).  What the session does with a line does not touch this state, so
`ShellSession` takes lines as given.

### ImageJobs

`call[h]` is a capture or clipboard request of a handler, by the program it waits
for: `SelectRegion` (slurp), `CaptureRegion`, `ListTypes` and `Paste` (the two
runs of wl-paste), each with its failures as the `IpcError` they become.
`jobs[j]` is the task of a copy or save: `WlCopy`, then `WlCopyFails`, or
`WlCopyTakes` and `WlCopyEnds`; or `RenderTemplate`, `CreateFile` and `WriteFile`.
Each path ends in `Notify`.  `wait_with_output` returns when the pipe that is
wl-copy's standard error is closed by every process that has it.  The process
that stays behind as the holder of the selection may be one of these, so that
`WlCopyEnds` comes at once or when something replaces the selection
(`Holds`).  `stamped` says whether the template has a `{timestamp}`; without one
each save is named `Static`.
Between any two steps the clipboard may be taken over (`OtherCopies`), the pin
transformed or closed, and a second may pass (`Tick`).  An image is an identity.
Two of the five preferred MIME types stand for all of them, `"svg"` for the image
types that are not preferred.  A change of the registry is one step, and its event
to the application is in `PinGui`.  `seen`, `asked`, `copied` and `after` are
histories.

### DaemonStartup

`daemon[d]` is the system call a daemon is about to make: `ClearThumbnails` on
the main thread, then `CheckExists`, `Probe`, `Unlink`, `Bind` and `Listen` for
`bind_socket`.  `bind` and `listen` are two system calls inside
`UnixListener::bind`: between them the file is there and a connect is refused,
which is just what a probe takes for a stale file.  A daemon that gives way
becomes a `"zombie"`: its io thread ends, iced goes on.  `IoFails` is every error
of the system that has the same end, in the probe, the unlink, the bind and
later in `accept`; it leaves the process `"broken"`, and its socket file where it
was.  Any daemon may `Die` anywhere and leaves its file and previews behind.

`cli[c]` follows `round_trip`: `Connect`, `Spawn` or `SpawnFails`, `Poll` or
`TimeOut`, `ConnectAgain`, then `Exchange`, `Capture` or `ConnectionLost`.
`ConnectFails` is a connect that ends in another error than that there is nobody.
The system refuses something only to the processes in `MayFail`: these may also
fail to wipe the directory and to write or remove a preview (`Outcomes`).  Time is abstracted:
a CLI may give up whenever a poll fails.  The daemon a CLI starts goes by the
CLI's name; `Units` are daemons started by systemd or by hand (a restart by
systemd is one more of them).  One pin per daemon is enough to tell whose
preview the file of id 1 is.  `stolen` (a socket in use was unlinked), `crowded`
(daemons that were up together, whose wipes hit each other) and `unclean`
(daemons whose wipe failed) are history variables that say what the properties
except.

### BarPanel

The panel is one event loop, each of its handlers one action: `ConnectBackend`,
`SocketOpens`, `SocketDrops`, `HandleLine` with the clamp at its end,
`Reconnect`, `ProbeBackend` and `ProbeExits`, `Open`, `MoveCursor`, `Ask`,
`BeginInstall`, `WatchTick`, `WatchReads`.  `generation` numbers the daemons,
`pinsOf` (history) the one whose pins are shown.  A process is the answer it will
give, taken when it starts and delivered later.  A connection that drops loses
what was on its way.

Pins change on the thread that serves the panel's own requests (`Session`) and on
`MaxOthers` more.  Each changes the pins, takes the list and sends it in steps of
its own (`Change`, `TakeList`, `SendList`), so that lists overtake each other as
they do in `PinRegistry`.  `informed` (history) says that the panel has shown the
pins as they are after their last change.  The terminal of an installation may
fail to come up, of which `startDetached` says nothing (`TerminalFails`,
`"unlaunched"`), or be closed by the user (`abandoned`); `Forsaken` is either.  Captures, `close-all` without a
connection and captions change none of this state.

## 3. Runs

| run | bounds | what it shows |
|---|---|---|
| `registry_store` | 2 handlers + iced thread, 3 pins, 2 transforms each, writes and removals that fail for two pins, no subscriber | `PreviewExists`, `PreviewCurrent`, `NoOrphanPreview`, `NoLostTransform`; `ImplementsPinStore`, `IdsNeverReused` |
| `registry_bus` | 1 handler + iced thread, 2 pins, 1 transform, channel of capacity 1, one subscriber | `TypeOK`, `AdvertisedPreviewUsable`, `QuietImpliesInformed`, `EventuallyInformed` |
| `registry_stale` | 2 handlers, 2 pins, capacity 2 | violated: `LastShownIsCurrent` |
| `gui` | 2 handlers, 2 pins, rotations | `TypeOK`, `MapsAgree`, `WindowsShowTheRegistry`, `NoForgottenWindow`, `ClosedPinsAreForgotten`, `LivePinsHaveAWindow` |
| `gui_live` | 1 handler, 2 pins, flips, size reports of window 1 | `PinEventuallyShown` |
| `gui_orphan` | as `gui`, with size reports | violated: `NoOrphanWindow` |
| `session` | 3 requests of any kind, 1 change, socket of one line | `TypeOK`, `OneReplyPerRequest`, `SubscriberHears`, `SessionEnds` |
| `startup` | 2 CLIs and a service unit (3 daemons), with or without leftovers; one process is refused what the system can refuse | `TypeOK`, `TwoListenersOnlyByTheft`, `PreviewsAreItsOwn`, `OneRetryIsEnough`, `ColdStartWorks` |
| `startup_steal` | as `startup`, nothing refused | violated: `LiveSocketStays` |
| `panel` | 2 pins that change on 2 threads, 1 request on its way; 2 daemons in a row, or 1 daemon and 1 installation, or 2 installations | `TypeOK`, `CursorOnTheList`, `RequestsMeanTheirPins`, `PanelCatchesUp`, `InstallIsNoticed` |
| `reader` | 4 byte values, 6 bytes, headers of 2 bytes, a cap and a buffer of 2 | `MemoryBounded`, `FrameIsSound`, `ImplementsLineStream`, `FrameArrives` |
| `jobs` | 1 handler, 2 images, 2 pins, 2 jobs, 2 seconds | `TypeOK`, `ClipboardIsPinned`, `SuccessIsTrue`, `CopiesInOrder`, `JobsReport` |

Why the bounds are enough to be of use.  The registry's races are between an
operation split in two and another one on the same pin; they need two threads
and one pin, and `close_all` against `insert` needs a second pin.  Three threads
and three pins leave room for one more of each.  Capacity 1 makes every second
unread message a lag, so that the repair is taken in all positions.  In `PinGui`
the races are between one event that is owed, one window that is coming up and
one message; two handlers and two pins have all three at once.  `MaxBacklog`
only stops pin actions from being accepted while an event waits: the other
events are bounded by the pins.  Three requests give a session two answers
around a subscribe, or a capture behind one.

A theft of a socket takes two daemons, and a third one to find the outcome;
`startup` has three daemons, one of them a service unit's, and two CLIs.  One
daemon and its CLI that may be refused something are enough for what its
neighbours find of it.  What the panel can mix up is one daemon and its
successor.  An installation comes before the first daemon, or its failure before
a second attempt: `MaxTurns` lets daemons and terminals share a bound.

Six bytes are two lines and their newlines, or a line that exceeds the cap within
and across chunks, or a header, a frame of the full cap and bytes behind it; base
4 with two header bytes keeps the gap between the cap and the lead byte of a line
that `framing.rs` relies on (`ReaderAssumption`).  Two images are what the
clipboard held before and after it was taken over, or a pin before and after a
transform; two pins let a clipboard be pinned that a copy of the first one was
written to meanwhile; two jobs are two copies or two saves that meet, in one second
or in two.

Deadlock is checked in `registry_bus` and `registry_stale`, where a subscriber
can always come and go.  The others may stop for good: when every pin that may
be captured was closed again, when the clock, the images and the jobs are used
up, when the connection has ended, when every command was run, or when no daemon is left to come up and the user does nothing.

### Fairness

- `PinRegistry!FairSpec`: a thread inside a registry call goes on with it, and a
  forwarder that is open or holds messages runs.  The code takes no lock across
  an `await` and both runs on preemptive threads or tokio tasks.  No fairness on
  starting a call, on subscribing or on hanging up.
- `PinGui!FairSpec`: a handler sends the event it owes, the iced loop takes each
  message it was given, the compositor opens a window it was asked for.  Clients
  and the user owe nothing.
- `ShellSession!FairSpec`: each task that can go on does, and the peer reads
  what it is sent.  A capture may take forever, over either transport: a session
  that waits for one (`Capturing`) is exempt.
- `DaemonStartup!FairSpec`: processes run, up to the connection between a CLI and
  a daemon.  Nobody has to start a daemon, answer, die, fail, close a pin or give
  up.
- `LineReader!FairSpec`: the reading task runs while there is something to read.
  The client owes nothing, not even to finish a line.
- `ImageJobs!FairSpec`: each task of a copy or save goes on: the blocking pool
  encodes, the disk writes or fails, and the wl-copy that was started takes the
  selection and exits, or fails (`clipboard.rs:141-144`), which is an assumption
  on an external program.  Of the process that holds the selection it is assumed
  only that it ends once it was replaced.  Requests may wait for slurp or
  wl-paste forever.
- `BarPanel!FairSpec`: the event loop delivers what the socket, the timers and
  the processes have for it, a daemon that has changed its pins goes on to tell of
  it, and a terminal comes up or does not.  Neither the user nor a daemon nor what
  runs in the terminal has to do anything else.

## 4. Proofs

Each safety property that a passing run checks is also a theorem, for every value of
the constants that the module's named `ASSUME` allows (and so is `TypeOK` of
`LineReader`, which no run repeats).  The proofs all take the same
road: an inductive invariant `IInv`, one lemma per action that it is kept, one
step per conjunct the action can disturb, `StepIInv` that puts the actions
together, `Invariance`, and the theorems.

Some facts need induction: that a set of naturals has a least element, and that a
recursive function has a value of its type.  The provers have no induction, so
`DataTheorems` takes the first from the library's well-foundedness of strict
subset and finite sets (`LeastExists`), and the second by minimal counterexample
from it (`LoopExists`, `LoopsAgree`: the function that a loop computes step by
step exists, and two that take the same steps agree).

### PinRegistry

Assumed (`RegistryAssumption`): the iced thread is no handler, bounds are
naturals, the capacity is positive.  That a live pin's file exists depends on what
threads in the middle of a call are about to do.  `IInv` is `TypeOK` and

- `Minted` — ids of live pins, of files and of calls are below `nextId`;
- `Fresh` — the id a thread is inserting is live nowhere, on disk only for that
  thread, and known to no other call;
- `Gone` — what a thread unlinks or discards is not live any more, nor being
  inserted;
- `Composed` — a thread that transforms is the iced thread, and the pixels it
  computed are one transform ahead of those in the registry;
- `FileReady` — a thread about to store a preview has its file on disk;
- `NoLostTransform`, `PreviewExists`, `NoOrphanPreview` themselves.

Without `Fresh` and `Gone` an unlink could hit a live pin's file; without
`FileReady` `InsertStore` and `ReplaceStore` could advertise a file that is not
there.  Three properties need an invariant on top of it.  `PreviewInv` adds to
`PreviewCurrent` what `ReplaceEncode` has written before it is stored
(`Encoded`).  `ListingsArePast`: whatever was listed and is on its way, in a
publisher, a channel or a forwarder, is no later than the registry.  `BusInv`: as
long as a subscribed session was not shown the pins as they are, something is
still on its way: a thread that has to publish, a snapshot about to be sent, a
message in the inbox, a lag, or an opening snapshot.  Every step either keeps that
or passes it on; when all is quiet nothing can be on its way.

| theorem | property |
|---|---|
| `TypeCorrect` | `TypeOK` |
| `PreviewsExist` | `PreviewExists` |
| `NoPreviewIsOrphaned` | `NoOrphanPreview` |
| `TransformsCompose` | `NoLostTransform` |
| `Refinement` | `ImplementsPinStore`: initial states map to initial states, `InsertStore`, `ReplaceStore`, `CloseBegin` and `CloseAllBegin` to the four abstract steps, all others to stuttering |
| `IdsStayDead` | `IdsNeverReused`, from the abstract step |
| `PreviewsAreCurrent` | `PreviewCurrent`, from `PreviewInv` |
| `AdvertisedPreviewsAreUsable` | `AdvertisedPreviewUsable`, from `ListingsArePast` |
| `NothingIsLost` | `QuietImpliesInformed`, from `BusInv` |

### PinGui

Assumed: `GuiAssumption`, and `NoneIsNoEvent` (the value that says that a handler
owes nothing is none of the events).  The properties are about maps that change in
different steps, fed by messages in any order, so `IInv` follows a pin and a
window through their lives:

- `AskedOnce`, `NoWindowYet` — a pin's `OpenPin` is on its way once, and until it
  is handled the application has nothing of the pin;
- `WindowsCounted`, `Minted` — windows are asked for no oftener than pins were
  registered, and ids come from the counters;
- `OpeningAlone`, `OpenedOnce`, `ClosedIsClosed` — a window is coming up, on
  screen, announced or over, and there is one message for each;
- `HandlesCurrent` — pixels kept for a live pin are the registry's;
- `TeardownsAreDue`, `TrackedAreForgotten` — a pin is out of the registry before its
  teardown is queued, and what the application tracks is live or has a teardown
  coming;
- `TypeOK` and the properties themselves.

| theorem | property |
|---|---|
| `TypeCorrect` | `TypeOK` |
| `TheMapsAgree` | `MapsAgree` |
| `WindowsAreCurrent` | `WindowsShowTheRegistry` |
| `NoWindowIsForgotten` | `NoForgottenWindow` |
| `ClosedPinsGo` | `ClosedPinsAreForgotten` |
| `LivePinsAreShown` | `LivePinsHaveAWindow` |

### ShellSession

Assumed: `SessionAssumption`.  `RequestAtHand`: the loop holds a request just
while it works on one.  `WriterLast`: as long as the peer is there, the writer is
the last that ends, with an empty queue; this is what keeps a reply from being
dropped.  `Balanced`: the replies in the transcript (read, written or queued) and
the request at hand are the requests that were read, in order.  `Answered` is a
recursive function of the transcript; `AnsweredMore` says what one more line does
to it, and that a line that moves from the queue to the socket or to the client
leaves the transcript alone is a fact about concatenation.

| theorem | property |
|---|---|
| `TypeCorrect` | `TypeOK` |
| `EachRequestIsAnswered` | `OneReplyPerRequest` |

### LineReader

Assumed (`ReaderAssumption`): two different bytes for newline and brace, a header
and a buffer of at least one byte, and a cap below the numbers that start with a
byte other than zero, as the comment of `framing.rs` computes.  `IInv` has
`NothingYet` and `LeadShape` (before the first byte nothing was taken),
`FrameShape`, `LinesShape` (the line being read has no newline, is within the cap,
and the first one opens with a brace) and `MemoryBounded`.  `FrameInv` adds that
nothing was handed on of a stream that is a frame; `PrefixFacts` then says that
neither the header nor the frame depends on the bytes behind it.

| theorem | property |
|---|---|
| `TypeCorrect` | `TypeOK` |
| `ReadersAreBounded` | `MemoryBounded` |
| `FramesAreRead` | `FrameIsSound` |
| `LinesAreCutFromTheStream` | the safety part of `ImplementsLineStream`, `Stream!Init` and `[][Stream!Next]`: `EndLine` is `Line`, `EndOfLines` is `LastLine` or `Stop`, giving up is `Stop`, and a chunk, the first byte or a frame is a stutter |

The refinement rests on `CutFacts`: where the newline of a chunk is in the whole
stream, and what is before and after it.

### DaemonStartup

Assumed (`StartupAssumption`): the names differ.  That two daemons do not listen
is not inductive: a daemon in `"bind"` could find the path free while another one
listens on a socket that has no file.  `PathIsHeld` says that as long as no socket
was stolen, every daemon that has bound one has it at the path; an `Unlink` that
steals nothing then finds nobody bound, and a `Bind` that succeeds finds nobody
either.  `AloneUnlessCrowded` and `DirectoryIsItsOwn` follow the thumbnail
directory from the wipe on, with `NotSpawnedYet`, `NoPinYet` and `PeerIsADaemon`
for what has not begun; `RetryIsJustified` says what a CLI that saw a listener may
rely on: that listener is still there unless it died, its io thread failed, or its
socket was stolen.

| theorem | property |
|---|---|
| `TypeCorrect` | `TypeOK` |
| `TheftIsTheOnlyWay` | `TwoListenersOnlyByTheft` |
| `DirectoryBelongsToItsDaemon` | `PreviewsAreItsOwn` |
| `ASecondRetryIsNoHelp` | `OneRetryIsEnough` |

### ImageJobs

Assumed: `JobsAssumption`.  `SeenIsWitnessed`: a clipboard request has seen
every selection since it began, and a type it chose is the best of one of them.
`ClipboardIsSound`: a selection that offers an image type has an image.
`JobsInShape`, `AfterIsDone`, `FileIsFresh` and `CopyIsKept` follow a task
through its steps: a copy whose wl-copy took the selection has put there what was
asked for (`copied = asked`), a file that one task alone has named holds nothing or
its pixels, and from the moment wl-copy took the selection no earlier copy comes
back: a copy that was notified of has waited for its wl-copy and has nothing more
to do.

| theorem | property |
|---|---|
| `TypeCorrect` | `TypeOK` |
| `AnswersFitTheClipboard` | `ClipboardIsPinned` |
| `NotificationsAreTrue` | `SuccessIsTrue` |
| `LaterCopiesStay` | `CopiesInOrder` |

### BarPanel

Assumed: `PanelAssumption`.  `DroppedIsEmpty` (nothing is shown or asked without a connection), `ListIsTheLinks`
(what is shown came over this connection) and `CursorBounded` (the index is below
the number of pins) make the two properties inductive; that the cursor then finds a
pin is a fact about ranks in a finite set of naturals.

| theorem | property |
|---|---|
| `TypeCorrect` | `TypeOK` |
| `RequestsAreUnderstood` | `RequestsMeanTheirPins` |
| `TheCursorFindsAPin` | `CursorOnTheList` |

### Only model-checked

Liveness is out of the prover's reach: `EventuallyInformed`, `PinEventuallyShown`,
`SubscriberHears`, `SessionEnds`, `ColdStartWorks`, `PanelCatchesUp`,
`InstallIsNoticed`, `JobsReport`, `FrameArrives`, and of `ImplementsLineStream` the
fairness, that a line that is there is handed on.

## 5. Where the code and its documents differ

Those that begin with the name of a run end in a counterexample; the others can
be read off the code or are excepted by name in the properties that hold.

- `registry_stale`: `publish` takes the snapshot and sends it in two steps.  Two
  publishers can overtake each other; the last listing a client holds is then
  out of date until the next change.  What does hold is that it was *shown* the
  final state (`NothingIsLost`).
- `gui_orphan` (`missed`): `ClosePin` before `WindowOpened` finds no window; the
  window then comes up for a pin that is gone.
- `swept` in `PinGui`: a pin registered between a `close_all` and its event
  loses its window and stays in the registry.
- A pin rotated while its window is coming up is shown in a window of
  the old proportions.
- A client that subscribes and shuts its writing side may be
  answered without the pins: in `ShellSession` the session may end before the
  forwarder ran.
- `startup_steal` (`stolen`): a daemon may unlink a socket that another one
  listens on, because it probed the path before; both then run, and the pins of
  the first can no longer be reached.
- `Forsaken` in `BarPanel`: when the user closes the terminal of an installation,
  or it cannot be launched, neither sentinel file is written and the panel goes on
  waiting.
- A v1 request that cannot be decoded, or announces too much, is not answered:
  the session ends, where `ipc.rs` has an error for it (`FrameRefused` in
  `ShellSession`; a line that is no request is answered).
- `wl-copy` "self-detaches", says `clipboard.rs`, and the daemon does not stay on
  the hook for the selection.  It does for as long as the process that holds the
  selection keeps the standard error it was given: the copy is not notified of
  until something replaces it on the clipboard (`Holds` in `JobsReport`).
- `Pinned` is answered when the event is queued, not when the window is up.
- Two saves in one second, or with a template without `{timestamp}`, write one file
  over each other, and both are notified of; `save_pin` promises a fresh file.
- A daemon that the CLI starts is not told of `--socket`, and listens elsewhere; an
  empty `OSNIP_SOCKET` is skipped by the CLI and taken for a path by the daemon.
- A `wl-paste` that cannot be run is reported as a failed capture, where `ipc.rs`
  promises `ClipboardNoImage`.
- A line may exceed its cap by up to a chunk, where `server.rs` says that no more
  than the cap is buffered.
- A daemon whose io thread ends, because the socket is taken or on an error of the
  system, stays behind as a process without a socket (`"zombie"`, `"broken"`),
  where `main.rs` says that it dies.

`raced` is a third race of the windows: a `WindowClosed` handled before the
`WindowOpened` of the same window leaves a pin whose window is gone.  It depends
on the order in which iced delivers two streams, of which the code assumes
nothing.

## 6. Not modelled

- The configuration is read once, before anything else runs; it is an input.
- Floating-point arithmetic: the scaling of thumbnails and the snap of a window
  to its aspect.  `PinGui` keeps proportions, and what the snap does in fractions
  of a pixel is left to tests.
- The parsing of slurp's output and of MIME types, JSON, the rendering of the CLI
  and of `BarWidget.qml`: formatting.  What is or is not a region, or an image, is
  a choice in `ImageJobs`.
- The CLI's choice of a socket: `DaemonStartup` is about one path.
- The temporary file that a thumbnail is written to: it is renamed or, after an
  error, left for the next write of the same pin or the next start.
- The debug PNG of `OSNIP_SAVE_DIR`, which nothing reads.
- The packaging configures other programs.

## 7. Plan

1. *Done*: `PinRegistry` and `PinStore` with proofs; `PinGui`; `ShellSession`;
   `DaemonStartup` with proofs; `BarPanel`; `LineReader` and `LineStream`;
   `ImageJobs`.
2. *Done*: proofs of every invariant the runs check, of the refinement of
   `PinStore`, and of the safety part of the refinement of `LineStream`.
3. Action properties with proofs: a window never changes hands and an id is never
   asked for twice in `PinGui`; a job's outcome and a request's answer are final in
   `ImageJobs`; the transcript of a session only grows.  An abstract life of a pin
   (registered, shown, gone) that `PinGui` implements outside its races.
4. A daemon on another socket in `DaemonStartup`; the temporary files of the
   thumbnails in `PinRegistry`.
