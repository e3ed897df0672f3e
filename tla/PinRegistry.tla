---------------------------- MODULE PinRegistry ----------------------------
(***************************************************************************)
(* The daemon's pin registry and change bus (registry.rs), the thumbnail   *)
(* files it keeps (thumbnail.rs) and the forwarder each subscribed shell   *)
(* session runs (server.rs:308-329).                                       *)
(*                                                                         *)
(* The registry is shared by the IPC handlers, which run on a multi-       *)
(* threaded runtime, and by the one GUI thread.  Its mutex covers a single *)
(* map operation; the thumbnail file is written before the lock is taken   *)
(* and removed after it was dropped, and a change is published by a check, *)
(* a second locked read and a send.  Every such step is an action here.    *)
(*                                                                         *)
(* Pixels are the number of transforms they went through, a listing is     *)
(* what a PinSummary tells about revision and preview, a thumbnail file is *)
(* the version of the pixels it was made from.                             *)
(***************************************************************************)
EXTENDS Naturals, Sequences, FiniteSets, Maps

CONSTANTS
    Handlers,       \* tasks that serve one IPC request at a time
    Gui,            \* the iced thread
    Sessions,       \* shell sessions that may subscribe
    MaxPins,        \* bound: pins captured
    MaxRevision,    \* bound: transforms applied to one pin
    Capacity,       \* EVENT_CHANNEL_CAPACITY
    FaultyPins,     \* bound: pins whose file operations may fail
    None            \* Option::None

ASSUME RegistryAssumption ==
    /\ Gui \notin Handlers
    /\ MaxPins \in Nat
    /\ MaxRevision \in Nat
    /\ Capacity \in Nat \ {0}
    /\ FaultyPins \subseteq 1 .. MaxPins
    /\ None \notin 1 .. MaxPins

Threads == Handlers \cup {Gui}
PinId == 1 .. MaxPins
Version == 0 .. MaxRevision

\* registry.rs:48-61.  The preview path is a function of the id, so only its
\* presence is kept.
PinEntry == [image: Version, revision: Version, thumbnail: BOOLEAN]

\* ipc.rs PinSummary, as far as it changes over a pin's life.
PinSummary == [revision: Version, thumbnail: BOOLEAN]
Listing == UNION {[ids -> PinSummary] : ids \in SUBSET PinId}

\* A thread inside a registry call: where it is, and its locals.
Frame == [at: {"idle", "insert", "encode", "replace", "discard", "unlink",
               "publish", "list", "send"},
          id: PinId \cup {None}, thumbnail: BOOLEAN, image: Version,
          removed: SUBSET PinId, snapshot: Listing]

VARIABLES
    nextId,     \* next_id: the id the next pin gets
    pins,       \* pins: the live pins
    disk,       \* the thumbnail directory: id -> version of the pixels shown
    call,       \* where each thread is inside a registry call, and its locals
    inbox,      \* events: the messages each session's receiver still holds
    lagged,     \* events: whether messages were dropped from a full inbox
    forwarder,  \* where each session's forwarder task is
    shown,      \* the last listing each forwarder handed to its session
    spoiled,    \* history: ids whose latest thumbnail rewrite failed
    littered,   \* history: ids whose thumbnail could not be removed
    informed    \* history: whether a session was shown the pins as they are
                \* since the last change

registryVars == <<nextId, pins, disk, call, spoiled, littered>>
busVars == <<inbox, lagged, forwarder, shown>>
vars == <<nextId, pins, disk, call, inbox, lagged, forwarder, shown, spoiled,
          littered, informed>>

\* A thread outside the registry, with no locals.
Idle == [at |-> "idle", id |-> None, thumbnail |-> FALSE, image |-> 0,
         removed |-> {}, snapshot |-> EmptyMap]

\* PinRegistry::list: what the entries look like to a client.
List == [id \in DOMAIN pins |-> [revision |-> pins[id].revision,
                                 thumbnail |-> pins[id].thumbnail]]

\* The sessions whose receiver exists (receiver_count).
Subscribed == {s \in Sessions : forwarder[s] # "off"}

TypeOK ==
    /\ nextId \in 1 .. MaxPins + 1
    /\ DOMAIN pins \subseteq PinId
    /\ \A id \in DOMAIN pins : pins[id] \in PinEntry
    /\ DOMAIN disk \subseteq PinId
    /\ \A id \in DOMAIN disk : disk[id] \in Version
    /\ call \in [Threads -> Frame]
    /\ inbox \in [Sessions -> Seq(Listing)]
    /\ \A s \in Sessions : Len(inbox[s]) <= Capacity
    /\ lagged \in [Sessions -> BOOLEAN]
    /\ forwarder \in [Sessions -> {"off", "open", "recv", "resend"}]
    /\ shown \in [Sessions -> Listing]
    /\ spoiled \subseteq PinId /\ littered \subseteq PinId
    /\ informed \in [Sessions -> BOOLEAN]

\* with_thumbnail_dir on an empty or just cleared directory.
Init ==
    /\ nextId = 1
    /\ pins = EmptyMap
    /\ disk = EmptyMap
    /\ call = [t \in Threads |-> Idle]
    /\ inbox = [s \in Sessions |-> << >>]
    /\ lagged = [s \in Sessions |-> FALSE]
    /\ forwarder = [s \in Sessions |-> "off"]
    /\ shown = [s \in Sessions |-> EmptyMap]
    /\ spoiled = {} /\ littered = {}
    /\ informed = [s \in Sessions |-> FALSE]

-----------------------------------------------------------------------------
(* Thumbnails *)

\* Whether writing or removing the thumbnail of id may end with ok.
MayEnd(id, ok) == ok \/ id \in FaultyPins

\* write_thumbnail: the file appears whole under its final name, or an error
\* leaves whatever was there before.
WriteThumbnail(id, version, ok) ==
    /\ disk' = IF ok THEN Put(disk, id, version) ELSE disk
    /\ spoiled' = IF ok THEN spoiled \ {id} ELSE spoiled \cup {id}
    /\ littered' = IF ok THEN littered \ {id} ELSE littered

\* remove_thumbnail: a missing file is fine; an error is only logged, and the
\* file stays.
RemoveThumbnail(id, ok) ==
    /\ disk' = IF ok THEN Without(disk, {id}) ELSE disk
    /\ littered' = IF ok THEN littered \ {id}
                         ELSE littered \cup ({id} \cap DOMAIN disk)
    /\ UNCHANGED spoiled

\* The pins change under the lock: from here on nobody was shown them.
Store(newPins) ==
    /\ pins' = newPins
    /\ informed' = [s \in Sessions |-> FALSE]

-----------------------------------------------------------------------------
(* PinRegistry::insert *)

\* Mutant: the preview's path is advertised before the file is written.
InsertUnwritten(t, ok) ==
    /\ call[t].at = "idle"
    /\ nextId <= MaxPins
    /\ nextId' = nextId + 1
    /\ call' = [call EXCEPT ![t] =
                    [Idle EXCEPT !.at = "insert", !.id = nextId,
                                 !.thumbnail = TRUE]]
    /\ UNCHANGED <<pins, disk, spoiled, littered, busVars, informed>>

\* Mint an id and encode its thumbnail.  No other thread knows the id yet.
InsertBegin(t, ok) ==
    /\ call[t].at = "idle"
    /\ nextId <= MaxPins
    /\ MayEnd(nextId, ok)
    /\ nextId' = nextId + 1
    /\ WriteThumbnail(nextId, 0, ok)
    /\ call' = [call EXCEPT ![t] =
                    [Idle EXCEPT !.at = "insert", !.id = nextId,
                                 !.thumbnail = ok]]
    /\ UNCHANGED <<pins, busVars, informed>>

\* Store the entry under the lock.
InsertStore(t) ==
    /\ call[t].at = "insert"
    /\ Store(Put(pins, call[t].id,
                 [image |-> 0, revision |-> 0,
                  thumbnail |-> call[t].thumbnail]))
    /\ call' = [call EXCEPT ![t] = [Idle EXCEPT !.at = "publish"]]
    /\ UNCHANGED <<nextId, disk, spoiled, littered, busVars>>

-----------------------------------------------------------------------------
(* PinRegistry::close and ::close_all *)

\* Take a pin out under the lock.  Closing an unknown id changes nothing.
CloseBegin(t, id) ==
    /\ call[t].at = "idle"
    /\ id \in DOMAIN pins
    /\ Store(Without(pins, {id}))
    /\ call' = [call EXCEPT ![t] =
                    [Idle EXCEPT !.at = "unlink", !.removed = {id}]]
    /\ UNCHANGED <<nextId, disk, spoiled, littered, busVars>>

\* Mutant: numbering starts over when the last pin goes.
CloseAllAndRestart(t) ==
    /\ call[t].at = "idle"
    /\ DOMAIN pins # {}
    /\ Store(EmptyMap)
    /\ nextId' = 1
    /\ call' = [call EXCEPT ![t] =
                    [Idle EXCEPT !.at = "unlink", !.removed = DOMAIN pins]]
    /\ UNCHANGED <<disk, spoiled, littered, busVars>>

\* Clear the map under the lock.  Only a handler does this.
CloseAllBegin(t) ==
    /\ call[t].at = "idle"
    /\ DOMAIN pins # {}
    /\ Store(EmptyMap)
    /\ call' = [call EXCEPT ![t] =
                    [Idle EXCEPT !.at = "unlink", !.removed = DOMAIN pins]]
    /\ UNCHANGED <<nextId, disk, spoiled, littered, busVars>>

\* Remove the files of the closed pins, one after the other, then publish.
Unlink(t, id, ok) ==
    LET left == call[t].removed \ {id} IN
    /\ call[t].at = "unlink"
    /\ id \in call[t].removed
    /\ MayEnd(id, ok)
    /\ RemoveThumbnail(id, ok)
    /\ call' = [call EXCEPT ![t].removed = left,
                            ![t].at = IF left = {} THEN "publish" ELSE @]
    /\ UNCHANGED <<nextId, pins, busVars, informed>>

-----------------------------------------------------------------------------
(* PinRegistry::image followed by ::replace_image, as App::transform does *)

\* Mutant: the handlers apply pin_action themselves.
EveryThread == Threads

\* The threads that transform pins: every transform, also one asked for over
\* the socket, runs in the iced update loop.
Transformers == {Gui}

\* Mutant: the thumbnail is not rewritten for the new pixels.
TransformUnencoded(t, id) ==
    /\ call[t].at = "idle"
    /\ id \in DOMAIN pins
    /\ pins[id].image < MaxRevision
    /\ call' = [call EXCEPT ![t] =
                    [Idle EXCEPT !.at = "replace", !.id = id,
                                 !.image = pins[id].image + 1]]
    /\ UNCHANGED <<nextId, pins, disk, spoiled, littered, busVars, informed>>

\* Read the pixels and compute the transformed ones.
TransformBegin(t, id) ==
    /\ call[t].at = "idle"
    /\ id \in DOMAIN pins
    /\ pins[id].image < MaxRevision
    /\ call' = [call EXCEPT ![t] =
                    [Idle EXCEPT !.at = "encode", !.id = id,
                                 !.image = pins[id].image + 1]]
    /\ UNCHANGED <<nextId, pins, disk, spoiled, littered, busVars, informed>>

\* Write the new thumbnail before taking the lock.
ReplaceEncode(t, ok) ==
    /\ call[t].at = "encode"
    /\ MayEnd(call[t].id, ok)
    /\ WriteThumbnail(call[t].id, call[t].image, ok)
    /\ call' = [call EXCEPT ![t].at = "replace", ![t].thumbnail = ok]
    /\ UNCHANGED <<nextId, pins, busVars, informed>>

\* Mutant: the entry claims a preview whether or not one could be written.
ReplacedUnchecked(entry, image, thumbnail) ==
    [image |-> image, revision |-> entry.revision + 1, thumbnail |-> TRUE]

\* What replace_image leaves in the entry: a failed write keeps the old
\* preview.
Replaced(entry, image, thumbnail) ==
    [image     |-> image,
     revision  |-> entry.revision + 1,
     thumbnail |-> thumbnail \/ entry.thumbnail]

\* Mutant: HashMap::insert instead of get_mut.
ReplaceUpsert(t) ==
    /\ call[t].at = "replace"
    /\ Store(Put(pins, call[t].id,
                 [image |-> call[t].image, revision |-> call[t].image,
                  thumbnail |-> call[t].thumbnail]))
    /\ call' = [call EXCEPT ![t] = [Idle EXCEPT !.at = "publish"]]
    /\ UNCHANGED <<nextId, disk, spoiled, littered, busVars>>

\* Mutant: the replacement is not published.
ReplaceSilently(t) ==
    /\ call[t].at = "replace"
    /\ call[t].id \in DOMAIN pins
    /\ Store([pins EXCEPT ![call[t].id] =
                 Replaced(@, call[t].image, call[t].thumbnail)])
    /\ call' = [call EXCEPT ![t] = Idle]
    /\ UNCHANGED <<nextId, disk, spoiled, littered, busVars>>

\* Swap the pixels in under the lock, if the pin is still there.
ReplaceStore(t) ==
    LET id == call[t].id IN
    /\ call[t].at = "replace"
    /\ id \in DOMAIN pins
    /\ Store([pins EXCEPT
                 ![id] = Replaced(@, call[t].image, call[t].thumbnail)])
    /\ call' = [call EXCEPT ![t] = [Idle EXCEPT !.at = "publish"]]
    /\ UNCHANGED <<nextId, disk, spoiled, littered, busVars>>

\* Mutant: the miss returns without cleaning up.
ReplaceForget(t) ==
    /\ call[t].at = "replace"
    /\ call[t].id \notin DOMAIN pins
    /\ call' = [call EXCEPT ![t] = Idle]
    /\ UNCHANGED <<nextId, pins, disk, spoiled, littered, busVars, informed>>

\* The pin was closed while its new thumbnail was being encoded.
ReplaceMiss(t) ==
    /\ call[t].at = "replace"
    /\ call[t].id \notin DOMAIN pins
    /\ call' = [call EXCEPT ![t].at = "discard"]
    /\ UNCHANGED <<nextId, pins, disk, spoiled, littered, busVars, informed>>

\* Remove the file that was just written for nobody.
ReplaceDiscard(t, ok) ==
    /\ call[t].at = "discard"
    /\ MayEnd(call[t].id, ok)
    /\ RemoveThumbnail(call[t].id, ok)
    /\ call' = [call EXCEPT ![t] = Idle]
    /\ UNCHANGED <<nextId, pins, busVars, informed>>

-----------------------------------------------------------------------------
(* PinRegistry::publish *)

\* Nobody listens: return.
PublishSkip(t) ==
    /\ call[t].at = "publish"
    /\ Subscribed = {}
    /\ call' = [call EXCEPT ![t] = Idle]
    /\ UNCHANGED <<nextId, pins, disk, spoiled, littered, busVars, informed>>

\* Somebody listens: go on to take the snapshot.
PublishCheck(t) ==
    /\ call[t].at = "publish"
    /\ Subscribed # {}
    /\ call' = [call EXCEPT ![t].at = "list"]
    /\ UNCHANGED <<nextId, pins, disk, spoiled, littered, busVars, informed>>

\* list() takes the lock again and reads the pins as they are by now.
PublishList(t) ==
    /\ call[t].at = "list"
    /\ call' = [call EXCEPT ![t].at = "send", ![t].snapshot = List]
    /\ UNCHANGED <<nextId, pins, disk, spoiled, littered, busVars, informed>>

\* Mutant: the backlog of a slow receiver is not limited.
EnqueueAll(queue, message) == Append(queue, message)

\* tokio::broadcast keeps the newest Capacity messages of a receiver.
Enqueue(queue, message) ==
    Append(IF Len(queue) = Capacity THEN Tail(queue) ELSE queue, message)

\* send() reaches every receiver there is at that moment, none being no error.
PublishSend(t) ==
    /\ call[t].at = "send"
    /\ inbox' = [s \in Sessions |->
                    IF s \in Subscribed
                    THEN Enqueue(inbox[s], call[t].snapshot)
                    ELSE inbox[s]]
    /\ lagged' = [s \in Sessions |->
                    \/ lagged[s]
                    \/ s \in Subscribed /\ Len(inbox[s]) = Capacity]
    /\ call' = [call EXCEPT ![t] = Idle]
    /\ UNCHANGED <<nextId, pins, disk, spoiled, littered, forwarder, shown,
                   informed>>

-----------------------------------------------------------------------------
(* The forwarder task of a subscribed session *)

\* Hand one listing to the session.
Show(s, listing) ==
    /\ shown' = [shown EXCEPT ![s] = listing]
    /\ informed' = [informed EXCEPT ![s] = @ \/ listing = List]

\* The task starts: a receiver from now on.
Subscribe(s) ==
    /\ forwarder[s] = "off"
    /\ forwarder' = [forwarder EXCEPT ![s] = "open"]
    /\ UNCHANGED <<registryVars, inbox, lagged, shown, informed>>

\* The opening snapshot, and the repair after a lag: both list the pins.
SendSnapshot(s) ==
    /\ forwarder[s] \in {"open", "resend"}
    /\ Show(s, List)
    /\ forwarder' = [forwarder EXCEPT ![s] = "recv"]
    /\ UNCHANGED <<registryVars, inbox, lagged>>

\* recv() returns the oldest message still held.
Receive(s) ==
    /\ forwarder[s] = "recv"
    /\ ~lagged[s]
    /\ inbox[s] # << >>
    /\ Show(s, Head(inbox[s]))
    /\ inbox' = [inbox EXCEPT ![s] = Tail(@)]
    /\ UNCHANGED <<registryVars, lagged, forwarder>>

\* Mutant: a lag is only logged.
LagIgnored(s) ==
    /\ forwarder[s] = "recv"
    /\ lagged[s]
    /\ lagged' = [lagged EXCEPT ![s] = FALSE]
    /\ UNCHANGED <<registryVars, inbox, forwarder, shown, informed>>

\* recv() reports once that messages were lost.
ReceiveLagged(s) ==
    /\ forwarder[s] = "recv"
    /\ lagged[s]
    /\ lagged' = [lagged EXCEPT ![s] = FALSE]
    /\ forwarder' = [forwarder EXCEPT ![s] = "resend"]
    /\ UNCHANGED <<registryVars, inbox, shown, informed>>

\* The session ended and aborted the task, which only stops in recv().
Unsubscribe(s) ==
    /\ forwarder[s] = "recv"
    /\ forwarder' = [forwarder EXCEPT ![s] = "off"]
    /\ inbox' = [inbox EXCEPT ![s] = << >>]
    /\ lagged' = [lagged EXCEPT ![s] = FALSE]
    /\ shown' = [shown EXCEPT ![s] = EmptyMap]
    /\ informed' = [informed EXCEPT ![s] = FALSE]
    /\ UNCHANGED registryVars

-----------------------------------------------------------------------------
\* A thread goes on with the call it is in.
Proceed(t) ==
    \/ InsertStore(t)
    \/ \E id \in PinId, ok \in BOOLEAN : Unlink(t, id, ok)
    \/ \E ok \in BOOLEAN : ReplaceEncode(t, ok) \/ ReplaceDiscard(t, ok)
    \/ ReplaceStore(t) \/ ReplaceMiss(t)
    \/ PublishSkip(t) \/ PublishCheck(t) \/ PublishList(t) \/ PublishSend(t)

\* A handler starts to serve a request; the iced thread starts on a message.
Begin(t) ==
    \/ t \in Handlers /\ \E ok \in BOOLEAN : InsertBegin(t, ok)
    \/ t \in Handlers /\ CloseAllBegin(t)
    \/ \E id \in PinId : CloseBegin(t, id)
    \/ t \in Transformers /\ \E id \in PinId : TransformBegin(t, id)

Forward(s) == SendSnapshot(s) \/ Receive(s) \/ ReceiveLagged(s)

Next ==
    \/ \E t \in Threads : Begin(t) \/ Proceed(t)
    \/ \E s \in Sessions : Subscribe(s) \/ Forward(s) \/ Unsubscribe(s)

Spec == Init /\ [][Next]_vars

\* Tokio's workers keep running ready tasks and the iced loop keeps handling
\* messages, so a call that was begun goes on and a forwarder that has
\* something to send sends it.  Nobody has to call the registry.
Fairness ==
    /\ \A t \in Threads : WF_vars(Proceed(t))
    /\ \A s \in Sessions : WF_vars(Forward(s))

FairSpec == Spec /\ Fairness

-----------------------------------------------------------------------------
(* Properties *)

\* registry.rs:248-250: the preview of a live pin is on disk, whatever
\* close, close_all and failed replacements remove meanwhile.
PreviewExists ==
    \A id \in DOMAIN pins : pins[id].thumbnail => id \in DOMAIN disk

\* registry.rs:55-57: what the file shows is never older than the revision
\* that is advertised, unless rewriting it failed.
PreviewCurrent ==
    \A id \in DOMAIN pins :
        pins[id].thumbnail /\ id \notin spoiled => disk[id] >= pins[id].revision

\* Every listing on its way to a client, or the last one it was given.
InFlight ==
    {call[t].snapshot : t \in Threads}
    \cup {shown[s] : s \in Sessions}
    \cup UNION {{inbox[s][i] : i \in DOMAIN inbox[s]} : s \in Sessions}

\* registry.rs:248-250: a client that was told of a preview finds the file,
\* at least as new as it was told, unless the pin was closed meanwhile or
\* rewriting the file failed.
AdvertisedPreviewUsable ==
    \A listing \in InFlight : \A id \in DOMAIN listing \cap DOMAIN pins :
        listing[id].thumbnail =>
            /\ id \in DOMAIN disk
            /\ id \notin spoiled => disk[id] >= listing[id].revision

\* The calls that still have to store or remove the file of id.
Owes(t, id) ==
    \/ call[t].at \in {"insert", "replace", "discard"} /\ call[t].id = id
    \/ call[t].at = "unlink" /\ id \in call[t].removed

\* registry.rs:329-330: no thumbnail is left behind by a closed pin; a file
\* without a live pin is about to be stored or removed by some thread, or
\* resisted the last attempt to remove it (thumbnail.rs:67).
NoOrphanPreview ==
    \A id \in DOMAIN disk \ littered :
        id \in DOMAIN pins \/ \E t \in Threads : Owes(t, id)

\* registry.rs:286-288: transforms compose against the latest pixels, so
\* every one that was stored is in the pixels.
NoLostTransform == \A id \in DOMAIN pins : pins[id].image = pins[id].revision

\* No call is in progress and session s has nothing left to forward.
Quiet(s) ==
    /\ \A t \in Threads : call[t].at = "idle"
    /\ forwarder[s] = "recv" /\ ~lagged[s] /\ inbox[s] = << >>

\* registry.rs:13-15, server.rs:306-307: nothing is lost between subscribing,
\* the opening snapshot, lagging and the checks in publish: once all is quiet
\* a session was shown the pins as they are.
QuietImpliesInformed == \A s \in Sessions : Quiet(s) => informed[s]

\* The same as progress: a subscribed session is eventually shown the pins as
\* they are, once they stop changing for long enough.
EventuallyInformed ==
    \A s \in Sessions :
        forwarder[s] # "off" ~> informed[s] \/ forwarder[s] = "off"

\* ipc.rs:164-166 and README.md:204-206 say that a client that applies each
\* listing as it comes cannot desynchronize: the LAST listing it was shown is
\* the current one once all is quiet.
LastShownIsCurrent == \A s \in Sessions : Quiet(s) => shown[s] = List

-----------------------------------------------------------------------------
(* The registry implements the atomic pin store. *)

\* Minted ids become used when their pin is stored.
Minting == {call[t].id : t \in {u \in Threads : call[u].at = "insert"}}

Abstract == INSTANCE PinStore WITH
    live <- [id \in DOMAIN pins |-> pins[id].revision],
    used <- (1 .. nextId - 1) \ Minting

\* registry.rs:3-7, 63-64: whatever the interleaving, the threads see one
\* atomic set of pins whose ids are never reused.
ImplementsPinStore == Abstract!Spec

\* registry.rs:3-7: a closed id never comes back, and a live pin never goes
\* back to an older revision.
IdsNeverReused == Abstract!NeverResurrected
=============================================================================
