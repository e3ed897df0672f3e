----------------------------- MODULE ImageJobs -----------------------------
(***************************************************************************)
(* Where pixels come from and go to: a handler asks slurp and the          *)
(* compositor, or wl-paste, for an image and pins it (handlers.rs:105-171, *)
(* region_select.rs, capture.rs, clipboard.rs); the application starts a   *)
(* task of its own for every copy and save, which ends in a notification   *)
(* (app.rs:249-300, clipboard.rs, save.rs, notify.rs).                     *)
(*                                                                         *)
(* Each external program is run once per step it is used for, and the      *)
(* clipboard, the directory and the pin may change in between.  An image   *)
(* is an identity: taking one, or transforming one, makes a new one.       *)
(***************************************************************************)
EXTENDS Naturals, Sequences, FiniteSets, Maps

CONSTANTS
    Handlers,       \* tasks that serve one IPC request at a time
    Offers,         \* bound: the sets of types an application may offer
    MaxImages,      \* bound: images there ever are
    MaxPins,        \* bound: pins registered
    MaxJobs,        \* bound: copies and saves
    MaxSeconds,     \* bound: seconds of the clock
    Static,         \* the file name that a template without {timestamp} makes
    None            \* no image, no type, no file name

\* PREFERRED_MIMES.  "svg" stands for image types that are not among them.
Preferred == <<"png", "jpeg">>
ImageType == {Preferred[i] : i \in DOMAIN Preferred} \cup {"svg"}

ASSUME JobsAssumption ==
    /\ Offers \subseteq SUBSET (ImageType \cup {"text"})
    /\ {MaxImages, MaxPins, MaxJobs, MaxSeconds} \subseteq Nat
    /\ None \notin 0 .. MaxImages \cup 0 .. MaxSeconds \cup {Static}
    /\ None \notin ImageType

Image == 1 .. MaxImages
PinId == 1 .. MaxPins
JobId == 1 .. MaxJobs
Second == 0 .. MaxSeconds
FileName == Second \cup {Static}

\* The Wayland selection: what is offered, and the job it is from, 0 if it is
\* from another application.  It is empty when nothing is offered.
Selection == [types: SUBSET (ImageType \cup {"text"}),
              image: Image \cup {None}, job: 0 .. MaxJobs]

\* How a request ends: IpcResponse::Pinned, or one of three IpcErrors.
Reply == {"pinned", "canceled", "no_image", "failed"}

Call ==
    [at: {"idle", "select", "shoot", "list", "paste"} \cup Reply,
     type: ImageType \cup {None},       \* the type that was chosen
     image: Image \cup {None},          \* history: the image that was pinned
     seen: SUBSET Selection]            \* history: selections so far, none
                                        \* of them once a program has failed

Job ==
    [kind: {"copy", "save"},
     pin: PinId,
     image: Image,                      \* the Arc the task holds
     at: {"start", "exit", "held", "create", "write", "done"},
     name: FileName \cup {None},        \* the file name
     said: Seq({"ok", "error"}),        \* notifications
     asked: Image,                      \* history: what the pin showed
     copied: Image \cup {None},         \* history: what wl-copy took of it
     after: SUBSET JobId]               \* history: jobs done before it

VARIABLES
    images,     \* how many images there are
    pins,       \* the registry: pin -> its pixels
    nextPin,    \* the id the next pin gets
    clipboard,  \* the selection
    call,       \* the request each handler is at
    jobs,       \* the tasks the application has started
    files,      \* the save directory: name -> the images written into it
    clock,      \* local time, in seconds
    stamped     \* whether the configured template contains {timestamp}

registry == <<pins, nextPin>>
naming == <<clock, stamped>>
vars == <<images, pins, nextPin, clipboard, call, jobs, files, clock, stamped>>

TypeOK ==
    /\ images \in 0 .. MaxImages
    /\ DOMAIN pins \subseteq PinId /\ nextPin \in 1 .. MaxPins + 1
    /\ \A p \in DOMAIN pins : pins[p] \in Image /\ p < nextPin
    /\ clipboard \in Selection
    /\ DOMAIN call = Handlers /\ \A h \in Handlers : call[h] \in Call
    /\ DOMAIN jobs = 1 .. Len(jobs) /\ Len(jobs) <= MaxJobs
    /\ \A j \in DOMAIN jobs : jobs[j] \in Job
    /\ DOMAIN files \subseteq FileName
    /\ \A n \in DOMAIN files : files[n] \subseteq Image
    /\ clock \in Second /\ stamped \in BOOLEAN

Idle == [at |-> "idle", type |-> None, image |-> None, seen |-> {}]

Empty == [types |-> {}, image |-> None, job |-> 0]

Init ==
    /\ images = 0
    /\ pins = EmptyMap /\ nextPin = 1
    /\ clipboard = Empty
    /\ call = [h \in Handlers |-> Idle]
    /\ jobs = << >>
    /\ files = EmptyMap
    /\ clock = 0
    /\ stamped \in BOOLEAN

-----------------------------------------------------------------------------
(* Everybody else: other applications, the clock, other requests *)

\* The selection becomes s, and the requests that are under way witness it.
Select(s) ==
    /\ clipboard' = s
    /\ call' = [h \in Handlers |->
                   IF call[h].at \in {"list", "paste"}
                   THEN [call[h] EXCEPT !.seen = @ \cup {s}] ELSE call[h]]

\* Another application copies something, or nothing is copied any more.
OtherCopies(types) ==
    /\ images < MaxImages
    /\ images' = images + 1
    /\ Select([types |-> types, job |-> 0,
               image |-> IF types \cap ImageType = {} THEN None ELSE images'])
    /\ UNCHANGED <<registry, jobs, files, naming>>

Tick ==
    /\ clock < MaxSeconds
    /\ clock' = clock + 1
    /\ UNCHANGED <<images, registry, clipboard, call, jobs, files, stamped>>

\* App::transform: the pin has new pixels.
Transform(p) ==
    /\ p \in DOMAIN pins
    /\ images < MaxImages
    /\ images' = images + 1
    /\ pins' = [pins EXCEPT ![p] = images']
    /\ UNCHANGED <<nextPin, clipboard, call, jobs, files, naming>>

Close(p) ==
    /\ p \in DOMAIN pins
    /\ pins' = Without(pins, {p})
    /\ UNCHANGED <<images, nextPin, clipboard, call, jobs, files, naming>>

-----------------------------------------------------------------------------
(* handle_capture and handle_clipboard *)

\* The handler goes from one point of its request to another.
Go(h, from, to) ==
    /\ call[h].at = from
    /\ call' = [call EXCEPT ![h].at = to]

\* The request ends in an error because a program failed or was told to.
Fails(h, from, error) ==
    /\ call[h].at = from
    /\ call' = [call EXCEPT ![h].at = error, ![h].seen = {}]

\* Mutant: the next pin gets the same id.
RegisterPinAgain(h, image) ==
    /\ nextPin <= MaxPins
    /\ pins' = Put(pins, nextPin, image)
    /\ UNCHANGED nextPin
    /\ call' = [call EXCEPT ![h].at = "pinned", ![h].image = image]

\* register_pin: insert the image; the debug PNG is nobody's concern here.
RegisterPin(h, image) ==
    /\ nextPin <= MaxPins
    /\ pins' = Put(pins, nextPin, image)
    /\ nextPin' = nextPin + 1
    /\ call' = [call EXCEPT ![h].at = "pinned", ![h].image = image]

\* A request comes in.
Accept(h, at) ==
    /\ call[h].at \in {"idle"} \cup Reply
    /\ nextPin <= MaxPins
    /\ call' = [call EXCEPT ![h] = [Idle EXCEPT !.at = at,
                   !.seen = IF at = "list" THEN {clipboard} ELSE {}]]
    /\ UNCHANGED <<images, registry, clipboard, jobs, files, naming>>

\* select_region: slurp prints a region, exits with an error, prints what is
\* none, or cannot be run.
SelectRegion(h) ==
    /\ \/ Go(h, "select", "shoot")
       \/ Fails(h, "select", "canceled")
       \/ Fails(h, "select", "failed")
    /\ UNCHANGED <<images, registry, clipboard, jobs, files, naming>>

\* capture_region.
CaptureRegion(h) ==
    /\ \/ /\ call[h].at = "shoot"
          /\ images < MaxImages
          /\ images' = images + 1
          /\ RegisterPin(h, images')
       \/ /\ Fails(h, "shoot", "failed")
          /\ UNCHANGED <<images, registry>>
    /\ UNCHANGED <<clipboard, jobs, files, naming>>

\* Mutant: the first type that is an image.
PickFirst(types) == types \cap ImageType

\* pick_image_mime: the first of the preferred types, or else any image type.
PickImageMime(types) ==
    LET ranks == {i \in DOMAIN Preferred : Preferred[i] \in types} IN
    IF ranks # {}
    THEN {Preferred[i] : i \in {k \in ranks : \A l \in ranks : k <= l}}
    ELSE types \cap ImageType

\* read_clipboard_image, wl-paste --list-types.  It fails on an empty
\* clipboard, and any failure of it counts as one.
ListTypes(h) ==
    /\ \/ /\ clipboard.types # {}
          /\ call[h].at = "list"
          /\ \E type \in PickImageMime(clipboard.types) :
                 call' = [call EXCEPT ![h].at = "paste", ![h].type = type]
       \/ clipboard.types \cap ImageType = {} /\ Go(h, "list", "no_image")
       \/ Fails(h, "list", "no_image") \/ Fails(h, "list", "failed")
    /\ UNCHANGED <<images, registry, clipboard, jobs, files, naming>>

\* wl-paste --type: what is there by now, if it is still offered as that type.
\* It may fail, and what it prints may be no image.
Paste(h) ==
    /\ \/ /\ call[h].at = "paste"
          /\ call[h].type \in clipboard.types
          /\ RegisterPin(h, clipboard.image)
       \/ /\ call[h].type \notin clipboard.types /\ Go(h, "paste", "failed")
          /\ UNCHANGED registry
       \/ Fails(h, "paste", "failed") /\ UNCHANGED registry
    /\ UNCHANGED <<images, clipboard, jobs, files, naming>>

Request(h) == SelectRegion(h) \/ CaptureRegion(h) \/ ListTypes(h) \/ Paste(h)

-----------------------------------------------------------------------------
(* spawn_copy and spawn_save *)

Done == {j \in DOMAIN jobs : jobs[j].at = "done"}

\* The pin's pixels of this moment go into a task; a pin that is gone has none.
Spawn(kind, p) ==
    /\ p \in DOMAIN pins
    /\ Len(jobs) < MaxJobs
    /\ jobs' = Append(jobs,
           [kind |-> kind, pin |-> p, image |-> pins[p], at |-> "start",
            name |-> None, said |-> << >>, asked |-> pins[p],
            copied |-> None, after |-> Done])
    /\ UNCHANGED <<images, registry, clipboard, call, files, naming>>

JobGoes(j, from, to) ==
    /\ jobs[j].at = from
    /\ jobs' = [jobs EXCEPT ![j].at = to]

\* The task notifies of its outcome, and ends.  Whether notify-send can be run
\* makes no difference to it.
Notify(j, from, outcome) ==
    /\ jobs[j].at = from
    /\ jobs' = [jobs EXCEPT ![j].said = Append(@, outcome), ![j].at = "done"]

\* Mutant: wl-copy is not waited for.
WlCopyUnawaited(j) ==
    /\ jobs[j].kind = "copy"
    /\ Notify(j, "start", "ok") \/ JobGoes(j, "done", "exit")
    /\ UNCHANGED <<images, registry, clipboard, call, files, naming>>

\* write_clipboard_image: the pixels are encoded on the blocking pool, and
\* written to the standard input of wl-copy.  Anything of this may fail.
WlCopy(j) ==
    /\ jobs[j].kind = "copy"
    /\ JobGoes(j, "start", "exit") \/ Notify(j, "start", "error")
    /\ UNCHANGED <<images, registry, clipboard, call, files, naming>>

\* wl-copy becomes the owner of the selection: it leaves a process behind that
\* holds it, and the one that was started exits.
WlCopyTakes(j) ==
    /\ jobs[j].at = "exit"
    /\ jobs' = [jobs EXCEPT ![j].at = "held", ![j].copied = jobs[j].image]
    /\ Select([types |-> {"png"}, image |-> jobs[j].image, job |-> j])
    /\ UNCHANGED <<images, registry, files, naming>>

\* Mutant: the exit status is not looked at.
WlCopyFailsUnseen(j) ==
    /\ Notify(j, "exit", "ok")
    /\ UNCHANGED <<images, registry, clipboard, call, files, naming>>

\* It exits with an error instead.
WlCopyFails(j) ==
    /\ Notify(j, "exit", "error")
    /\ UNCHANGED <<images, registry, clipboard, call, files, naming>>

\* The process that was left behind by wl-copy still holds the selection.
Holds(j) == clipboard.job = j

\* Mutant: nobody hears of the end of wl-copy.
WlCopyEndsSilently(j) ==
    /\ JobGoes(j, "held", "done")
    /\ UNCHANGED <<images, registry, clipboard, call, files, naming>>

\* wait_with_output also reads standard error to its end, which comes when
\* the process that was left behind has closed it, or is gone.
WlCopyEnds(j) ==
    /\ Notify(j, "held", "ok")
    /\ UNCHANGED <<images, registry, clipboard, call, files, naming>>

\* save_pin: the name is rendered when the task first runs ...
RenderTemplate(j) ==
    /\ jobs[j].kind = "save" /\ jobs[j].at = "start"
    /\ jobs' = [jobs EXCEPT ![j].at = "create",
                            ![j].name = IF stamped THEN clock ELSE Static]
    /\ UNCHANGED <<images, registry, clipboard, call, files, naming>>

\* ... the directory is created on demand, and the file created, or emptied
\* if there is one ...
CreateFile(j) ==
    /\ \/ /\ JobGoes(j, "create", "write")
          /\ files' = Put(files, jobs[j].name, {})
       \/ Notify(j, "create", "error") /\ UNCHANGED files
    /\ UNCHANGED <<images, registry, clipboard, call, naming>>

\* ... and the PNG goes into it, over what another task has put there.
WriteFile(j) ==
    /\ \/ /\ Notify(j, "write", "ok")
          /\ files' = [files EXCEPT ![jobs[j].name] = @ \cup {jobs[j].image}]
       \/ Notify(j, "write", "error") /\ UNCHANGED files
    /\ UNCHANGED <<images, registry, clipboard, call, naming>>

Work(j) ==
    \/ WlCopy(j) \/ WlCopyTakes(j) \/ WlCopyFails(j)
    \/ RenderTemplate(j) \/ CreateFile(j) \/ WriteFile(j)

-----------------------------------------------------------------------------
Next ==
    \/ \E types \in Offers : OtherCopies(types)
    \/ Tick
    \/ \E p \in PinId : Transform(p) \/ Close(p)
    \/ \E h \in Handlers :
           Accept(h, "select") \/ Accept(h, "list") \/ Request(h)
    \/ \E p \in PinId, kind \in {"copy", "save"} : Spawn(kind, p)
    \/ \E j \in DOMAIN jobs : Work(j) \/ WlCopyEnds(j)

Spec == Init /\ [][Next]_vars

\* The pool encodes, wl-copy takes the selection or exits, the disk writes or
\* fails.  A process that holds the selection ends when that is replaced; it
\* may keep its standard error open until then.
Fairness ==
    \A j \in JobId :
        /\ WF_vars(j \in DOMAIN jobs /\ Work(j))
        /\ WF_vars(j \in DOMAIN jobs /\ ~Holds(j) /\ WlCopyEnds(j))

FairSpec == Spec /\ Fairness

-----------------------------------------------------------------------------
(* Properties *)

\* clipboard.rs:23-24, 71-80, 85-139: although the clipboard is asked twice,
\* what is pinned was on it during the request; a clipboard that was not
\* touched is pinned, in the best of its types, or found to have no image; and
\* "no image" is never the answer to one that had an image all along.
ClipboardIsPinned ==
    \A h \in Handlers :
        LET c == call[h] IN
        c.seen # {} /\ c.at \in Reply =>
            /\ c.at = "pinned" => \E s \in c.seen :
                   /\ s.image = c.image /\ c.type \in s.types
            /\ c.at = "no_image" =>
                   \E s \in c.seen : s.types \cap ImageType = {}
            /\ Cardinality(c.seen) = 1 =>
                   \A s \in c.seen :
                       IF s.types \cap ImageType = {} THEN c.at = "no_image"
                       ELSE /\ c.at = "pinned"
                            /\ "png" \in s.types => c.type = "png"

\* app.rs:249-300, README.md:107: a task that notifies of success has done its
\* work, with the pixels the pin showed when it was asked for, although the pin
\* was transformed or closed since: a copy was on the clipboard, and a save is
\* in its file, unless another save has the same file name.
SuccessIsTrue ==
    \A j \in DOMAIN jobs :
        jobs[j].said = <<"ok">> =>
            IF jobs[j].kind = "copy" THEN jobs[j].copied = jobs[j].asked
            ELSE \/ files[jobs[j].name] = {jobs[j].asked}
                 \/ \E k \in DOMAIN jobs \ {j} : jobs[k].name = jobs[j].name

\* clipboard.rs:141-144: of two copies, one asked for when the other had been
\* notified of, the later one stays on the clipboard.
CopiesInOrder ==
    \A j \in DOMAIN jobs :
        jobs[j].kind = "copy" /\ jobs[j].said = <<"ok">> =>
            clipboard.job \notin jobs[j].after

\* app.rs:253-270, 281-298: every save ends in one notification of its outcome,
\* and so does every copy, although it may have to wait until something else
\* replaces it on the clipboard.
JobsReport ==
    \A j \in JobId :
        j \in DOMAIN jobs ~> (j \in Done /\ Len(jobs[j].said) = 1) \/ Holds(j)
=============================================================================
