--------------------------- MODULE ImageJobsProofs ---------------------------
(***************************************************************************)
(* Machine-checked proofs about ImageJobs, for any number of handlers,     *)
(* images, pins, jobs and seconds, and any types applications may offer.   *)
(***************************************************************************)
EXTENDS ImageJobs, DataTheorems, FiniteSetTheorems, SequenceTheorems, TLAPS

(* The inductive invariant *)

\* A selection that offers an image has one.
ClipboardIsSound ==
    clipboard.types \cap ImageType # {} => clipboard.image \in Image

\* A request for a region has nothing to do with the clipboard; one for the
\* clipboard has seen every selection since it began, and a type it has chosen
\* is the best one of a selection that was never replaced.
Witnessed(c) ==
    /\ IsFiniteSet(c.seen)
    /\ c.at \in {"select", "shoot"} => c.seen = {}
    /\ c.at \in {"list", "paste"} => clipboard \in c.seen
    /\ c.at = "paste" =>
           /\ c.type \in ImageType
           /\ c.seen = {clipboard} => c.type \in PickImageMime(clipboard.types)

SeenIsWitnessed == \A h \in Handlers : Witnessed(call[h])

\* What ClipboardIsPinned says of one request.
Answered(c) ==
    c.seen # {} /\ c.at \in Reply =>
        /\ c.at = "pinned" => \E s \in c.seen :
               /\ s.image = c.image /\ c.type \in s.types
        /\ c.at = "no_image" =>
               \E s \in c.seen : s.types \cap ImageType = {}
        /\ Cardinality(c.seen) = 1 =>
               \A s \in c.seen :
                   IF s.types \cap ImageType = {} THEN c.at = "no_image"
                   ELSE /\ c.at = "pinned"
                        /\ "png" \in s.types => c.type = "png"

\* A task goes through the steps of its kind, keeps the pixels it was given
\* and speaks when it is done; a copy that waits for the end of wl-copy, or
\* has spoken of success, was on the clipboard with these pixels.
InShape(job) ==
    /\ job.image = job.asked
    /\ job.at # "done" => job.said = << >>
    /\ job.at \in {"exit", "held"} => job.kind = "copy"
    /\ job.at \in {"create", "write"} => job.kind = "save"
    /\ job.kind = "copy" /\ (job.at = "held" \/ job.said = <<"ok">>)
           => job.copied = job.asked
    /\ job.kind = "save" /\ job.at = "start" => job.name = None
    /\ job.kind = "save" /\ (job.at \in {"create", "write"}
                             \/ job.said = <<"ok">>) => job.name \in FileName

JobsInShape == \A j \in DOMAIN jobs : InShape(jobs[j])

\* What was done before a task was asked for stays done.
AfterIsDone ==
    \A j \in DOMAIN jobs : \A k \in jobs[j].after :
        k \in DOMAIN jobs /\ k # j /\ jobs[k].at = "done"

\* Another task has the same file name.
Shared(j) == \E k \in DOMAIN jobs \ {j} : jobs[k].name = jobs[j].name

\* A file that was created for one task exists, and is empty until it writes.
FileIsFresh ==
    \A j \in DOMAIN jobs :
        /\ \/ jobs[j].at = "write"
           \/ jobs[j].kind = "save" /\ jobs[j].said = <<"ok">>
           => jobs[j].name \in DOMAIN files
        /\ jobs[j].at = "write" => files[jobs[j].name] = {} \/ Shared(j)

\* From the moment wl-copy took the pixels, no earlier copy comes back.
CopyIsKept ==
    \A j \in DOMAIN jobs :
        /\ jobs[j].kind = "copy"
        /\ jobs[j].at = "held" \/ jobs[j].said = <<"ok">>
        => clipboard.job \notin jobs[j].after

(* The invariant, in the parts that different steps disturb *)

\* The images, the registry, the clipboard and the clock.
WorldOK ==
    /\ images \in 0 .. MaxImages /\ clock \in Second
    /\ DOMAIN pins \subseteq PinId /\ nextPin \in 1 .. MaxPins + 1
    /\ \A p \in DOMAIN pins : pins[p] \in Image /\ p < nextPin
    /\ clipboard \in Selection

\* The requests.
CallsTyped == DOMAIN call = Handlers /\ \A h \in Handlers : call[h] \in Call

CallsOK == CallsTyped /\ SeenIsWitnessed /\ ClipboardIsPinned

\* The tasks, and what they leave behind.
JobsTyped == jobs \in Seq(Job) /\ Len(jobs) <= MaxJobs

FilesTyped ==
    /\ DOMAIN files \subseteq FileName
    /\ \A n \in DOMAIN files : files[n] \subseteq Image

WorkOK ==
    /\ JobsTyped /\ FilesTyped /\ ClipboardIsSound
    /\ JobsInShape /\ AfterIsDone /\ FileIsFresh /\ SuccessIsTrue /\ CopyIsKept

\* The template is what it is.
TemplateTyped == stamped \in BOOLEAN

IInv == WorldOK /\ TemplateTyped /\ CallsOK /\ WorkOK

-----------------------------------------------------------------------------
(* Facts about the operators *)

\* The bounds are numbers.
LEMMA Bounds ==
    MaxImages \in Nat /\ MaxPins \in Nat /\ MaxJobs \in Nat /\ MaxSeconds \in Nat
BY JobsAssumption

\* What is no image, type or name is none of them.
LEMMA NoneIsNothing ==
    None \notin Image /\ None \notin FileName /\ None \notin ImageType
BY JobsAssumption, Bounds DEF Image, Second, FileName

\* The image types, one by one.
LEMMA ImageTypes == ImageType = {"png", "jpeg", "svg"}
BY DEF ImageType, Preferred

\* The type that is picked is an image type on offer, and PNG if that is.
LEMMA PickedIsOffered ==
    ASSUME NEW types, NEW type \in PickImageMime(types)
    PROVE  /\ type \in types /\ type \in ImageType
           /\ "png" \in types => type = "png"
BY DEF PickImageMime, ImageType, Preferred

\* What the invariant says of one request is what the property says of all.
LEMMA AnsweredIsPinned ==
    ClipboardIsPinned <=> \A h \in Handlers : Answered(call[h])
BY Zenon DEF ClipboardIsPinned, Answered

-----------------------------------------------------------------------------
(* What happens to the requests *)

\* Whoever makes a new selection, the requests under way witness it.
LEMMA SelectionIsSeen ==
    ASSUME CallsOK, NEW s \in Selection, Select(s)
    PROVE  CallsOK'
<1>1. clipboard' = s /\ DOMAIN call' = Handlers
  BY DEF Select
<1>2. ASSUME NEW h \in Handlers
      PROVE  call'[h] \in Call /\ Witnessed(call[h])' /\ Answered(call'[h])
  <2>1. call[h] \in Call /\ Witnessed(call[h]) /\ Answered(call[h])
    BY AnsweredIsPinned DEF CallsOK, CallsTyped, SeenIsWitnessed
  <2>2. CASE call[h].at \in {"list", "paste"}
    <3>1. call'[h] = [call[h] EXCEPT !.seen = @ \cup {s}]
      BY <2>2 DEF Select
    <3>2. /\ call'[h] \in Call
          /\ call'[h].at = call[h].at /\ call'[h].type = call[h].type
          /\ call'[h].seen = call[h].seen \cup {s}
      BY <2>1, <3>1 DEF Call
    <3>3. IsFiniteSet(call'[h].seen)
      BY <2>1, <3>2, FS_AddElement DEF Witnessed
    <3>4. call'[h].seen = {s} => call[h].seen = {clipboard} /\ clipboard = s
      BY <2>1, <2>2, <3>2 DEF Witnessed
    <3>5. Witnessed(call[h])'
      BY <1>1, <2>1, <2>2, <3>2, <3>3, <3>4 DEF Witnessed
    <3>6. Answered(call'[h])
      BY <2>2, <3>2 DEF Answered, Reply
    <3> QED BY <3>2, <3>5, <3>6
  <2>3. CASE call[h].at \notin {"list", "paste"}
    <3>1. call'[h] = call[h]
      BY <2>3 DEF Select
    <3>2. Witnessed(call[h])'
      BY <2>1, <2>3, <3>1 DEF Witnessed
    <3> QED BY <2>1, <3>1, <3>2
  <2> QED BY <2>2, <2>3
<1>3. CallsTyped' /\ SeenIsWitnessed'
  BY <1>1, <1>2 DEF CallsTyped, SeenIsWitnessed
<1>4. ClipboardIsPinned'
  <2>1. \A h \in Handlers : Answered(call'[h])
    BY <1>2
  <2> QED BY Zenon, <2>1 DEF ClipboardIsPinned, Answered
<1> QED BY <1>3, <1>4 DEF CallsOK

\* A step of one request, from one sound state of it to another.
LEMMA OneCallGoes ==
    ASSUME CallsOK, NEW h \in Handlers, NEW c \in Call,
           Witnessed(c), Answered(c),
           call' = [call EXCEPT ![h] = c], UNCHANGED clipboard
    PROVE  CallsOK'
<1>1. DOMAIN call' = Handlers
  BY DEF CallsOK, CallsTyped
<1>2. ASSUME NEW g \in Handlers
      PROVE  call'[g] \in Call /\ Witnessed(call[g])' /\ Answered(call'[g])
  <2>1. call[g] \in Call /\ Witnessed(call[g]) /\ Answered(call[g])
    BY AnsweredIsPinned DEF CallsOK, CallsTyped, SeenIsWitnessed
  <2>2. call'[g] = IF g = h THEN c ELSE call[g]
    BY DEF CallsOK, CallsTyped
  <2>3. Witnessed(call[g])'
    BY <2>1, <2>2 DEF Witnessed
  <2> QED BY <2>1, <2>2, <2>3
<1>3. CallsTyped' /\ SeenIsWitnessed'
  BY <1>1, <1>2 DEF CallsTyped, SeenIsWitnessed
<1>4. ClipboardIsPinned'
  <2>1. \A g \in Handlers : Answered(call'[g])
    BY <1>2
  <2> QED BY Zenon, <2>1 DEF ClipboardIsPinned, Answered
<1> QED BY <1>3, <1>4 DEF CallsOK

\* A request is let be by a step that touches neither it nor the clipboard.
LEMMA CallsStay ==
    ASSUME CallsOK, UNCHANGED <<call, clipboard>>
    PROVE  CallsOK'
<1>1. CallsTyped' /\ SeenIsWitnessed'
  BY DEF CallsOK, CallsTyped, SeenIsWitnessed, Witnessed
<1>2. ClipboardIsPinned'
  BY Zenon DEF CallsOK, ClipboardIsPinned
<1> QED BY <1>1, <1>2 DEF CallsOK

\* A request that ends in an error forgets what it saw.
LEMMA FailsIsSound ==
    ASSUME CallsOK, NEW h \in Handlers, NEW from, NEW error \in Reply,
           Fails(h, from, error), UNCHANGED clipboard
    PROVE  CallsOK'
<1> DEFINE c == [call[h] EXCEPT !.at = error, !.seen = {}]
<1>1. call[h] \in Call
  BY DEF CallsOK, CallsTyped
<1>2. c \in Call /\ c.at = error /\ c.seen = {}
  BY <1>1 DEF Call
<1>3. call' = [call EXCEPT ![h] = c]
  BY DEF Fails
<1> HIDE DEF c
<1>4. Witnessed(c) /\ Answered(c)
  BY <1>2, FS_EmptySet DEF Witnessed, Answered, Reply
<1> QED BY <1>2, <1>3, <1>4, OneCallGoes

(* A request that is accepted has seen the clipboard of this moment. *)
LEMMA AcceptKeepsCalls ==
    ASSUME CallsOK, clipboard \in Selection,
           NEW h \in Handlers, NEW at \in {"select", "list"}, Accept(h, at)
    PROVE  CallsOK'
<1> DEFINE seen == IF at = "list" THEN {clipboard} ELSE {}
           c == [Idle EXCEPT !.at = at, !.seen = seen]
<1>1. seen \in SUBSET Selection /\ IsFiniteSet(seen)
  <2>1. CASE at = "list"
    BY <2>1, FS_Singleton
  <2>2. CASE at # "list"
    BY <2>2, FS_EmptySet
  <2> QED BY <2>1, <2>2
<1>2. c \in Call /\ c.at = at /\ c.seen = seen
  <2> HIDE DEF seen
  <2> QED BY <1>1 DEF Call, Idle
<1>3. call' = [call EXCEPT ![h] = c] /\ UNCHANGED clipboard
  BY DEF Accept
<1> HIDE DEF c
<1>4. Witnessed(c) /\ Answered(c)
  BY <1>1, <1>2 DEF Witnessed, Answered, Reply
<1> QED BY <1>2, <1>3, <1>4, OneCallGoes

(* A selected region goes on to its capture; anything else answers the
   request. *)
LEMMA SelectRegionKeepsCalls ==
    ASSUME CallsOK, NEW h \in Handlers, SelectRegion(h)
    PROVE  CallsOK'
<1>1. UNCHANGED clipboard
  BY DEF SelectRegion
<1>2. CASE Go(h, "select", "shoot")
  <2> DEFINE c == [call[h] EXCEPT !.at = "shoot"]
  <2>1. call[h] \in Call /\ Witnessed(call[h]) /\ call[h].at = "select"
    BY <1>2 DEF CallsOK, CallsTyped, SeenIsWitnessed, Go
  <2>2. c \in Call /\ c.at = "shoot" /\ c.seen = call[h].seen
    BY <2>1 DEF Call
  <2>3. call' = [call EXCEPT ![h] = c]
    BY <1>2 DEF Go
  <2> HIDE DEF c
  <2>4. Witnessed(c) /\ Answered(c)
    BY <2>1, <2>2 DEF Witnessed, Answered, Reply
  <2> QED BY <1>1, <2>2, <2>3, <2>4, OneCallGoes
<1>3. CASE Fails(h, "select", "canceled") \/ Fails(h, "select", "failed")
  BY <1>1, <1>3, FailsIsSound DEF Reply
<1> QED BY <1>2, <1>3 DEF SelectRegion

(* A capture ends in an image that goes to the registry, or in an error. *)
LEMMA CaptureRegionKeepsCalls ==
    ASSUME CallsOK, WorldOK, NEW h \in Handlers, CaptureRegion(h)
    PROVE  CallsOK'
<1>1. UNCHANGED clipboard
  BY DEF CaptureRegion
<1>2. CASE Fails(h, "shoot", "failed")
  BY <1>1, <1>2, FailsIsSound DEF Reply
<1>3. CASE /\ call[h].at = "shoot" /\ images < MaxImages
           /\ images' = images + 1 /\ RegisterPin(h, images')
  <2> DEFINE c == [call[h] EXCEPT !.at = "pinned", !.image = images']
  <2>1. call[h] \in Call /\ Witnessed(call[h])
    BY DEF CallsOK, CallsTyped, SeenIsWitnessed
  <2>2. images' \in Image
    BY <1>3, Bounds DEF WorldOK, Image
  <2>3. c \in Call /\ c.at = "pinned" /\ c.seen = call[h].seen
    BY <2>1, <2>2 DEF Call, Reply
  <2>4. call' = [call EXCEPT ![h] = c]
    BY <1>3 DEF RegisterPin
  <2> HIDE DEF c
  <2>5. Witnessed(c) /\ Answered(c)
    BY <1>3, <2>1, <2>3 DEF Witnessed, Answered, Reply
  <2> QED BY <1>1, <2>3, <2>4, <2>5, OneCallGoes
<1> QED BY <1>2, <1>3 DEF CaptureRegion

\* The list of types is read: the type that is chosen is the best of the
\* clipboard of this moment.
LEMMA ListTypesKeepsCalls ==
    ASSUME CallsOK, NEW h \in Handlers, ListTypes(h)
    PROVE  CallsOK'
<1>1. UNCHANGED clipboard
  BY DEF ListTypes
<1>2. call[h] \in Call /\ Witnessed(call[h])
  BY DEF CallsOK, CallsTyped, SeenIsWitnessed
<1>3. CASE Fails(h, "list", "no_image") \/ Fails(h, "list", "failed")
  BY <1>1, <1>3, FailsIsSound DEF Reply
<1>4. CASE clipboard.types \cap ImageType = {} /\ Go(h, "list", "no_image")
  <2> DEFINE c == [call[h] EXCEPT !.at = "no_image"]
  <2>1. c \in Call /\ c.at = "no_image" /\ c.seen = call[h].seen
    BY <1>2 DEF Call, Reply
  <2>2. call' = [call EXCEPT ![h] = c] /\ call[h].at = "list"
    BY <1>4 DEF Go
  <2> HIDE DEF c
  <2>3. IsFiniteSet(c.seen) /\ clipboard \in c.seen
    BY <1>2, <2>1, <2>2 DEF Witnessed
  <2>4. Cardinality(c.seen) = 1 => c.seen = {clipboard}
    BY <2>3, FS_Singleton
  <2>5. Witnessed(c) /\ Answered(c)
    BY <1>4, <2>1, <2>3, <2>4 DEF Witnessed, Answered
  <2> QED BY <1>1, <2>1, <2>2, <2>5, OneCallGoes
<1>5. CASE /\ clipboard.types # {} /\ call[h].at = "list"
           /\ \E type \in PickImageMime(clipboard.types) :
                  call' = [call EXCEPT ![h].at = "paste", ![h].type = type]
  <2> PICK type \in PickImageMime(clipboard.types) :
           call' = [call EXCEPT ![h].at = "paste", ![h].type = type]
    BY <1>5
  <2> DEFINE c == [call[h] EXCEPT !.at = "paste", !.type = type]
  <2>1. type \in ImageType
    BY PickedIsOffered
  <2>2. c \in Call /\ c.at = "paste" /\ c.type = type /\ c.seen = call[h].seen
    BY <1>2, <2>1 DEF Call
  <2>3. call' = [call EXCEPT ![h] = c]
    OBVIOUS
  <2> HIDE DEF c
  <2>4. Witnessed(c) /\ Answered(c)
    BY <1>2, <1>5, <2>1, <2>2 DEF Witnessed, Answered, Reply
  <2> QED BY <1>1, <2>2, <2>3, <2>4, OneCallGoes
<1> QED BY <1>3, <1>4, <1>5 DEF ListTypes

\* The image is read: it is on the clipboard by now, and if that is the only
\* one the request has seen, it comes in the type that was chosen.
LEMMA PasteKeepsCalls ==
    ASSUME CallsOK, ClipboardIsSound, NEW h \in Handlers, Paste(h)
    PROVE  CallsOK'
<1>1. UNCHANGED clipboard
  BY DEF Paste
<1>2. call[h] \in Call /\ Witnessed(call[h])
  BY DEF CallsOK, CallsTyped, SeenIsWitnessed
<1>3. CASE Fails(h, "paste", "failed")
  BY <1>1, <1>3, FailsIsSound DEF Reply
<1>4. CASE \/ /\ call[h].at = "paste" /\ call[h].type \in clipboard.types
              /\ RegisterPin(h, clipboard.image)
           \/ call[h].type \notin clipboard.types /\ Go(h, "paste", "failed")
  <2>1. call[h].at = "paste"
    BY <1>4 DEF Go
  <2>2. /\ IsFiniteSet(call[h].seen) /\ clipboard \in call[h].seen
        /\ call[h].type \in ImageType
        /\ call[h].seen = {clipboard} =>
               call[h].type \in PickImageMime(clipboard.types)
    BY <1>2, <2>1 DEF Witnessed
  <2>3. Cardinality(call[h].seen) = 1 =>
            /\ call[h].seen = {clipboard}
            /\ call[h].type \in clipboard.types
            /\ "png" \in clipboard.types => call[h].type = "png"
    BY <2>2, FS_Singleton, PickedIsOffered
  <2>4. CASE /\ call[h].type \in clipboard.types
             /\ RegisterPin(h, clipboard.image)
    <3> DEFINE c == [call[h] EXCEPT !.at = "pinned", !.image = clipboard.image]
    <3>1. clipboard.image \in Image
      BY <2>2, <2>4 DEF ClipboardIsSound
    <3>2. /\ c \in Call /\ c.at = "pinned" /\ c.seen = call[h].seen
          /\ c.type = call[h].type /\ c.image = clipboard.image
      BY <1>2, <3>1 DEF Call, Reply
    <3>3. call' = [call EXCEPT ![h] = c]
      BY <2>4 DEF RegisterPin
    <3> HIDE DEF c
    <3>4. Witnessed(c)
      BY <2>2, <3>2 DEF Witnessed
    <3>5. Answered(c)
      BY <2>2, <2>3, <2>4, <3>2 DEF Answered
    <3> QED BY <1>1, <3>2, <3>3, <3>4, <3>5, OneCallGoes
  <2>5. CASE call[h].type \notin clipboard.types /\ Go(h, "paste", "failed")
    <3> DEFINE c == [call[h] EXCEPT !.at = "failed"]
    <3>1. c \in Call /\ c.at = "failed" /\ c.seen = call[h].seen
      BY <1>2 DEF Call, Reply
    <3>2. call' = [call EXCEPT ![h] = c]
      BY <2>5 DEF Go
    <3> HIDE DEF c
    <3>3. Witnessed(c) /\ Answered(c)
      BY <2>2, <2>3, <2>5, <3>1 DEF Witnessed, Answered
    <3> QED BY <1>1, <3>1, <3>2, <3>3, OneCallGoes
  <2> QED BY <1>4, <2>4, <2>5
<1> QED BY <1>3, <1>4 DEF Paste

-----------------------------------------------------------------------------
(* What happens to the tasks *)

\* A step that touches no task, no file and not the clipboard.
LEMMA WorkStays ==
    ASSUME WorkOK, UNCHANGED <<jobs, files, clipboard>>
    PROVE  WorkOK'
<1>1. JobsTyped' /\ FilesTyped' /\ ClipboardIsSound'
  BY DEF WorkOK, JobsTyped, FilesTyped, ClipboardIsSound
<1>2. JobsInShape' /\ AfterIsDone' /\ FileIsFresh'
  BY DEF WorkOK, JobsInShape, AfterIsDone, FileIsFresh, Shared
<1>3. SuccessIsTrue'
  BY DEF WorkOK, SuccessIsTrue
<1>4. CopyIsKept'
  BY DEF WorkOK, CopyIsKept
<1> QED BY <1>1, <1>2, <1>3, <1>4 DEF WorkOK

\* Another application takes the clipboard over.
LEMMA OtherCopiesKeepsWork ==
    ASSUME WorldOK, WorkOK, NEW types \in Offers, OtherCopies(types)
    PROVE  WorkOK'
<1>1. /\ clipboard'.job = 0 /\ clipboard'.types = types
      /\ types \cap ImageType # {} => clipboard'.image = images'
      /\ UNCHANGED <<jobs, files>>
  BY DEF OtherCopies, Select
<1>2. images' \in Image
  BY Bounds DEF OtherCopies, WorldOK, Image
<1>3. JobsTyped' /\ FilesTyped' /\ ClipboardIsSound'
  BY <1>1, <1>2 DEF WorkOK, JobsTyped, FilesTyped, ClipboardIsSound
<1>4. JobsInShape' /\ AfterIsDone' /\ FileIsFresh'
  BY <1>1 DEF WorkOK, JobsInShape, AfterIsDone, FileIsFresh, Shared
<1>5. SuccessIsTrue'
  BY <1>1 DEF WorkOK, SuccessIsTrue
<1>6. CopyIsKept'
  <2>1. \A j \in DOMAIN jobs : 0 \notin jobs[j].after
    BY DEF WorkOK, AfterIsDone, JobsTyped
  <2> QED BY <1>1, <2>1 DEF CopyIsKept
<1> QED BY <1>3, <1>4, <1>5, <1>6 DEF WorkOK

\* The half of SuccessIsTrue about saves; JobsInShape has the other one.
SavesSucceed ==
    \A j \in DOMAIN jobs :
        jobs[j].kind = "save" /\ jobs[j].said = <<"ok">> =>
            files[jobs[j].name] = {jobs[j].asked} \/ Shared(j)

(* SuccessIsTrue is the truth about the files ... *)
LEMMA SuccessOfSaves == SuccessIsTrue => SavesSucceed
BY DEF SuccessIsTrue, SavesSucceed, Shared

(* ... and, after any step, about the copies. *)
LEMMA SuccessHasTwoHalves ==
    ASSUME JobsTyped', JobsInShape', SavesSucceed'
    PROVE  SuccessIsTrue'
<1>1. \A j \in DOMAIN jobs' : jobs'[j] \in Job /\ InShape(jobs'[j])
  BY LenProperties, ElementOfSeq DEF JobsTyped, JobsInShape
<1> QED BY <1>1 DEF SuccessIsTrue, SavesSucceed, Shared, InShape, Job

\* A task that is added last leaves the others what and where they are.
LEMMA SpawnKeepsWork ==
    ASSUME WorldOK, WorkOK, NEW kind \in {"copy", "save"}, NEW p \in PinId,
           Spawn(kind, p)
    PROVE  WorkOK'
<1> DEFINE e == [kind |-> kind, pin |-> p, image |-> pins[p], at |-> "start",
                 name |-> None, said |-> << >>, asked |-> pins[p],
                 copied |-> None, after |-> Done]
           n == Len(jobs) + 1
<1>1. /\ jobs' = Append(jobs, e) /\ UNCHANGED <<files, clipboard>>
      /\ pins[p] \in Image /\ Len(jobs) < MaxJobs
  BY DEF Spawn, WorldOK
<1>2. jobs \in Seq(Job) /\ DOMAIN jobs = 1 .. Len(jobs) /\ Len(jobs) \in Nat
  BY LenProperties DEF WorkOK, JobsTyped
<1>3. Done \subseteq DOMAIN jobs /\ Done \subseteq JobId
  BY <1>1, <1>2, Bounds DEF Done, JobId
<1>4. e \in Job
  BY <1>1, <1>3 DEF Job
<1>5. /\ e.kind = kind /\ e.image = e.asked /\ e.at = "start" /\ e.name = None
      /\ e.said = << >> /\ e.after = Done
  OBVIOUS
<1> HIDE DEF e
<1>6. /\ jobs' \in Seq(Job) /\ Len(jobs') = n /\ DOMAIN jobs' = 1 .. n
      /\ jobs'[n] = e /\ \A j \in DOMAIN jobs : jobs'[j] = jobs[j]
  BY <1>1, <1>2, <1>4
<1>7. DOMAIN jobs \subseteq DOMAIN jobs' /\ n \notin DOMAIN jobs
      /\ \A j \in DOMAIN jobs' : j \in DOMAIN jobs \/ j = n
  BY <1>2, <1>6
<1> HIDE DEF n
<1>8. JobsTyped' /\ FilesTyped'
  <2>1. n <= MaxJobs
    BY <1>1, <1>2, Bounds DEF n
  <2> QED BY <1>1, <1>6, <2>1 DEF WorkOK, JobsTyped, FilesTyped
<1>9. ClipboardIsSound'
  BY <1>1, <1>6, <1>7 DEF WorkOK, ClipboardIsSound
<1>10. JobsInShape'
  <2>1. InShape(e)
    BY <1>5 DEF InShape
  <2> QED BY <1>6, <1>7, <2>1 DEF WorkOK, JobsInShape
<1>11. AfterIsDone'
  <2>1. \A k \in Done : k \in DOMAIN jobs /\ jobs[k].at = "done"
    BY DEF Done
  <2> QED BY <1>5, <1>6, <1>7, <2>1 DEF WorkOK, AfterIsDone
<1>12. FileIsFresh'
  <2>1. ASSUME NEW j \in DOMAIN jobs, Shared(j)
        PROVE  Shared(j)'
    BY <1>6, <1>7, <2>1 DEF Shared
  <2>2. e.at # "write" /\ e.said # <<"ok">>
    BY <1>5
  <2>3. ASSUME NEW j \in DOMAIN jobs, jobs'[j] = jobs[j]
        PROVE  /\ \/ jobs'[j].at = "write"
                  \/ jobs'[j].kind = "save" /\ jobs'[j].said = <<"ok">>
                  => jobs'[j].name \in DOMAIN files'
               /\ jobs'[j].at = "write" =>
                      files'[jobs'[j].name] = {} \/ Shared(j)'
    BY <1>1, <2>1, <2>3 DEF WorkOK, FileIsFresh
  <2> QED BY <1>6, <1>7, <2>2, <2>3 DEF FileIsFresh
<1>13. SuccessIsTrue'
  <2>1. e.said # <<"ok">>
    BY <1>5
  <2>2. ASSUME NEW j \in DOMAIN jobs, jobs'[j] = jobs[j],
               jobs'[j].kind = "save" /\ jobs'[j].said = <<"ok">>
        PROVE  \/ files'[jobs'[j].name] = {jobs'[j].asked}
               \/ \E k \in DOMAIN jobs' \ {j} : jobs'[k].name = jobs'[j].name
    <3>1. CASE files[jobs[j].name] = {jobs[j].asked}
      BY <1>1, <2>2, <3>1
    <3>2. CASE \E k \in DOMAIN jobs \ {j} : jobs[k].name = jobs[j].name
      BY <1>6, <1>7, <2>2, <3>2
    <3> QED BY <2>2, <3>1, <3>2 DEF WorkOK, SuccessIsTrue
  <2>3. SavesSucceed'
    BY <1>6, <1>7, <2>1, <2>2 DEF SavesSucceed, Shared
  <2> QED BY <1>8, <1>10, <2>3, SuccessHasTwoHalves
<1>14. CopyIsKept'
  <2>1. e.at # "held" /\ e.said # <<"ok">>
    BY <1>5
  <2>2. ASSUME NEW j \in DOMAIN jobs, jobs'[j] = jobs[j], jobs'[j].kind = "copy",
               jobs'[j].at = "held" \/ jobs'[j].said = <<"ok">>
        PROVE  clipboard'.job \notin jobs'[j].after
    BY <1>1, <2>2 DEF WorkOK, CopyIsKept
  <2> QED BY <1>6, <1>7, <2>1, <2>2 DEF CopyIsKept
<1> QED
  BY <1>8, <1>9, <1>10, <1>11, <1>12, <1>13, <1>14 DEF WorkOK

\* e is what becomes of task j in a step of its own, which leaves alone what
\* was asked for, of which pin and when.
Becomes(j, e) ==
    /\ jobs' = [jobs EXCEPT ![j] = e]
    /\ jobs[j].at # "done"
    /\ e \in Job /\ InShape(e)
    /\ e.kind = jobs[j].kind /\ e.asked = jobs[j].asked
    /\ e.after = jobs[j].after

\* Such a step is well-typed, and what was done before a task stays done.
LEMMA OneJobGoes ==
    ASSUME WorkOK, NEW j \in DOMAIN jobs, NEW e, Becomes(j, e)
    PROVE  /\ DOMAIN jobs' = DOMAIN jobs
           /\ jobs'[j] = e /\ \A i \in DOMAIN jobs : i # j => jobs'[i] = jobs[i]
           /\ JobsTyped' /\ JobsInShape' /\ AfterIsDone'
<1>1. jobs \in Seq(Job) /\ DOMAIN jobs = 1 .. Len(jobs) /\ Len(jobs) \in Nat
  BY LenProperties DEF WorkOK, JobsTyped
<1>2. /\ DOMAIN jobs' = DOMAIN jobs
      /\ jobs'[j] = e /\ \A i \in DOMAIN jobs : i # j => jobs'[i] = jobs[i]
  BY <1>1 DEF Becomes
<1>3. JobsTyped'
  <2>1. jobs' \in Seq(Job) /\ Len(jobs') = Len(jobs)
    BY <1>1, ExceptSeq DEF Becomes
  <2> QED BY <2>1 DEF WorkOK, JobsTyped
<1>4. JobsInShape'
  BY <1>2 DEF WorkOK, JobsInShape, Becomes
<1>5. AfterIsDone'
  <2>1. ASSUME NEW i \in DOMAIN jobs, NEW k \in jobs'[i].after
        PROVE  k \in DOMAIN jobs /\ k # i /\ jobs'[k].at = "done"
    <3>1. k \in jobs[i].after
      BY <1>2 DEF Becomes
    <3>2. k \in DOMAIN jobs /\ k # i /\ jobs[k].at = "done" /\ k # j
      BY <3>1 DEF WorkOK, AfterIsDone, Becomes
    <3> QED BY <1>2, <3>2
  <2> QED BY <1>2, <2>1 DEF AfterIsDone
<1> QED BY <1>2, <1>3, <1>4, <1>5

\* The files are as before, and no save has got to them or is done with them.
LEMMA FilesStay ==
    ASSUME WorkOK, NEW j \in DOMAIN jobs, NEW e, Becomes(j, e),
           UNCHANGED files, e.at # "write",
           e.kind = "save" => e.said # <<"ok">>,
           e.name = jobs[j].name \/ jobs[j].name = None
    PROVE  FilesTyped' /\ FileIsFresh' /\ SavesSucceed'
<1>1. /\ DOMAIN jobs' = DOMAIN jobs
      /\ jobs'[j] = e /\ \A i \in DOMAIN jobs : i # j => jobs'[i] = jobs[i]
  BY OneJobGoes
<1>2. FilesTyped'
  BY DEF WorkOK, FilesTyped
<1>3. ASSUME NEW i \in DOMAIN jobs, i # j, Shared(i), jobs[i].name \in FileName
      PROVE  Shared(i)'
  <2>1. PICK k \in DOMAIN jobs \ {i} : jobs[k].name = jobs[i].name
    BY <1>3 DEF Shared
  <2>2. jobs'[k].name = jobs[k].name
    BY <1>1, <1>3, <2>1, NoneIsNothing
  <2> QED BY <1>1, <1>3, <2>1, <2>2 DEF Shared
<1>4. ASSUME NEW i \in DOMAIN jobs, i # j, jobs[i].at = "write"
      PROVE  /\ jobs[i].name \in DOMAIN files
             /\ files[jobs[i].name] = {} \/ Shared(i)'
  BY <1>3, <1>4 DEF WorkOK, FileIsFresh, JobsInShape, InShape
<1>5. ASSUME NEW i \in DOMAIN jobs, i # j,
             jobs[i].kind = "save", jobs[i].said = <<"ok">>
      PROVE  /\ jobs[i].name \in DOMAIN files
             /\ files[jobs[i].name] = {jobs[i].asked} \/ Shared(i)'
  <2>1. jobs[i].name \in DOMAIN files /\ jobs[i].name \in FileName
    BY <1>5 DEF WorkOK, FileIsFresh, FilesTyped
  <2>2. files[jobs[i].name] = {jobs[i].asked} \/ Shared(i)
    BY <1>5, SuccessOfSaves DEF WorkOK, SavesSucceed
  <2> QED BY <1>3, <1>5, <2>1, <2>2
<1>6. FileIsFresh'
  BY <1>1, <1>4, <1>5 DEF FileIsFresh
<1>7. SavesSucceed'
  BY <1>1, <1>5 DEF SavesSucceed
<1> QED BY <1>2, <1>6, <1>7

\* The clipboard is as before, and no copy has got to it.
LEMMA ClipboardStays ==
    ASSUME WorkOK, NEW j \in DOMAIN jobs, NEW e, Becomes(j, e),
           UNCHANGED clipboard,
           e.kind = "copy" /\ (e.at = "held" \/ e.said = <<"ok">>)
               => jobs[j].at = "held"
    PROVE  ClipboardIsSound' /\ CopyIsKept'
<1>1. /\ DOMAIN jobs' = DOMAIN jobs
      /\ jobs'[j] = e /\ \A i \in DOMAIN jobs : i # j => jobs'[i] = jobs[i]
  BY OneJobGoes
<1>2. ClipboardIsSound'
  BY DEF WorkOK, ClipboardIsSound
<1>3. ASSUME NEW i \in DOMAIN jobs, jobs'[i].kind = "copy",
             jobs'[i].at = "held" \/ jobs'[i].said = <<"ok">>
      PROVE  clipboard.job \notin jobs'[i].after
  <2>1. jobs[i].kind = "copy" /\ (jobs[i].at = "held" \/ jobs[i].said = <<"ok">>)
    BY <1>1, <1>3 DEF Becomes
  <2>2. jobs'[i].after = jobs[i].after
    BY <1>1 DEF Becomes
  <2> QED BY <2>1, <2>2 DEF WorkOK, CopyIsKept
<1>4. CopyIsKept'
  BY <1>1, <1>3 DEF CopyIsKept
<1> QED BY <1>2, <1>4

\* A task that notifies is done, and has said one thing.
LEMMA NotifyIsAStep ==
    ASSUME WorkOK, NEW j \in DOMAIN jobs, NEW from, from # "done",
           NEW outcome \in {"ok", "error"}, Notify(j, from, outcome),
           from \in {"write", "held"} \/ outcome = "error"
    PROVE  \E e : /\ Becomes(j, e)
                  /\ e.at = "done" /\ e.said = <<outcome>>
                  /\ e.name = jobs[j].name
<1> DEFINE said == <<outcome>>
           e == [jobs[j] EXCEPT !.said = said, !.at = "done"]
<1>1. jobs \in Seq(Job) /\ jobs[j] \in Job /\ InShape(jobs[j])
  BY LenProperties, ElementOfSeq DEF WorkOK, JobsTyped, JobsInShape
<1>2. jobs[j].at = from /\ jobs[j].said = << >>
  BY <1>1 DEF Notify, InShape
<1>3. Append(jobs[j].said, outcome) = said /\ said \in Seq({"ok", "error"})
  BY <1>2
<1>4. jobs' = [jobs EXCEPT ![j] = e]
  BY <1>3 DEF Notify
<1>5. /\ e \in Job
      /\ e.at = "done" /\ e.said = said /\ e.name = jobs[j].name
      /\ e.image = jobs[j].image /\ e.kind = jobs[j].kind
      /\ e.asked = jobs[j].asked /\ e.copied = jobs[j].copied
      /\ e.after = jobs[j].after
  <2> HIDE DEF said
  <2> QED BY <1>1, <1>3 DEF Job
<1> HIDE DEF e
<1>6. e.said = <<"ok">> => outcome = "ok"
  BY <1>5
<1>7. InShape(e)
  BY <1>1, <1>2, <1>5, <1>6 DEF InShape
<1>8. Becomes(j, e)
  BY <1>2, <1>4, <1>5, <1>7 DEF Becomes
<1> QED BY <1>5, <1>8

\* A task that fails leaves the clipboard and the files alone.
LEMMA ErrorKeepsWork ==
    ASSUME WorkOK, NEW j \in DOMAIN jobs, NEW from, from # "done",
           Notify(j, from, "error"), UNCHANGED <<clipboard, files>>
    PROVE  WorkOK'
<1>1. PICK e : Becomes(j, e) /\ e.at = "done" /\ e.said = <<"error">>
                   /\ e.name = jobs[j].name
  BY NotifyIsAStep
<1>2. e.said # <<"ok">>
  BY <1>1
<1>3. JobsTyped' /\ JobsInShape' /\ AfterIsDone'
  BY <1>1, OneJobGoes
<1>4. FilesTyped' /\ FileIsFresh' /\ SavesSucceed'
  BY <1>1, <1>2, FilesStay
<1>5. ClipboardIsSound' /\ CopyIsKept'
  BY <1>1, <1>2, ClipboardStays
<1>6. SuccessIsTrue'
  BY <1>3, <1>4, SuccessHasTwoHalves
<1> QED BY <1>3, <1>4, <1>5, <1>6 DEF WorkOK

\* A task that goes on, with nothing done yet: neither clipboard nor files.
LEMMA GoingKeepsWork ==
    ASSUME WorkOK, NEW j \in DOMAIN jobs, NEW e, Becomes(j, e),
           e.at \in {"exit", "create"},
           e.name = jobs[j].name \/ jobs[j].name = None,
           UNCHANGED <<clipboard, files>>
    PROVE  WorkOK'
<1>1. JobsTyped' /\ JobsInShape' /\ AfterIsDone'
  BY OneJobGoes
<1>2. e.said # <<"ok">>
  <2>1. e.said = << >>
    BY DEF Becomes, InShape
  <2> QED BY <2>1
<1>3. FilesTyped' /\ FileIsFresh' /\ SavesSucceed'
  BY <1>2, FilesStay
<1>4. ClipboardIsSound' /\ CopyIsKept'
  BY <1>2, ClipboardStays
<1>5. SuccessIsTrue'
  BY <1>1, <1>3, SuccessHasTwoHalves
<1> QED BY <1>1, <1>3, <1>4, <1>5 DEF WorkOK

\* wl-copy is given the pixels, and has done nothing with them yet.
LEMMA WlCopyKeepsWork ==
    ASSUME WorkOK, NEW j \in DOMAIN jobs, WlCopy(j)
    PROVE  WorkOK'
<1>1. jobs[j].kind = "copy" /\ UNCHANGED <<clipboard, files>>
  BY DEF WlCopy
<1>2. CASE Notify(j, "start", "error")
  BY <1>1, <1>2, ErrorKeepsWork
<1>3. CASE JobGoes(j, "start", "exit")
  <2> DEFINE e == [jobs[j] EXCEPT !.at = "exit"]
  <2>1. jobs \in Seq(Job) /\ jobs[j] \in Job /\ InShape(jobs[j])
    BY LenProperties, ElementOfSeq DEF WorkOK, JobsTyped, JobsInShape
  <2>2. jobs[j].at = "start" /\ jobs' = [jobs EXCEPT ![j] = e]
    BY <1>3 DEF JobGoes
  <2>3. /\ e \in Job /\ e.at = "exit" /\ e.said = jobs[j].said
        /\ e.name = jobs[j].name /\ e.image = jobs[j].image
        /\ e.kind = jobs[j].kind /\ e.asked = jobs[j].asked
        /\ e.after = jobs[j].after
    BY <2>1 DEF Job
  <2> HIDE DEF e
  <2>4. InShape(e)
    <3>1. e.said = << >> /\ jobs[j].image = jobs[j].asked
      BY <2>1, <2>2, <2>3 DEF InShape
    <3>2. e.said # <<"ok">>
      BY <3>1
    <3> QED BY <1>1, <2>3, <3>1, <3>2 DEF InShape
  <2>5. Becomes(j, e)
    BY <2>2, <2>3, <2>4 DEF Becomes
  <2> QED BY <1>1, <2>3, <2>5, GoingKeepsWork
<1> QED BY <1>2, <1>3 DEF WlCopy

\* wl-copy takes the selection, with the pixels the task was given.
LEMMA WlCopyTakesKeepsWork ==
    ASSUME WorkOK, NEW j \in DOMAIN jobs, WlCopyTakes(j)
    PROVE  WorkOK'
<1> DEFINE e == [jobs[j] EXCEPT !.at = "held", !.copied = jobs[j].image]
<1>1. jobs \in Seq(Job) /\ jobs[j] \in Job /\ InShape(jobs[j])
  BY LenProperties, ElementOfSeq DEF WorkOK, JobsTyped, JobsInShape
<1>2. /\ jobs[j].at = "exit" /\ jobs' = [jobs EXCEPT ![j] = e]
      /\ UNCHANGED files
  BY DEF WlCopyTakes
<1>3. /\ e \in Job /\ e.at = "held" /\ e.said = jobs[j].said
      /\ e.name = jobs[j].name /\ e.image = jobs[j].image
      /\ e.kind = jobs[j].kind /\ e.asked = jobs[j].asked
      /\ e.copied = jobs[j].image /\ e.after = jobs[j].after
  BY <1>1 DEF Job
<1> HIDE DEF e
<1>4. InShape(e) /\ e.said = << >> /\ e.kind = "copy"
  BY <1>1, <1>2, <1>3 DEF InShape
<1>5. Becomes(j, e)
  BY <1>2, <1>3, <1>4 DEF Becomes
<1>6. /\ DOMAIN jobs' = DOMAIN jobs
      /\ jobs'[j] = e /\ \A i \in DOMAIN jobs : i # j => jobs'[i] = jobs[i]
      /\ JobsTyped' /\ JobsInShape' /\ AfterIsDone'
  BY <1>5, OneJobGoes
<1>7. FilesTyped' /\ FileIsFresh' /\ SavesSucceed'
  BY <1>2, <1>3, <1>4, <1>5, FilesStay
<1>8. clipboard'.image = jobs[j].image /\ clipboard'.job = j
  BY DEF WlCopyTakes, Select
<1>9. ClipboardIsSound'
  BY <1>1, <1>8 DEF ClipboardIsSound, Job
<1>10. CopyIsKept'
  <2>1. \A i \in DOMAIN jobs : j \notin jobs[i].after
    BY <1>2 DEF WorkOK, AfterIsDone
  <2> QED BY <1>3, <1>6, <1>8, <2>1 DEF CopyIsKept
<1>11. SuccessIsTrue'
  BY <1>6, <1>7, SuccessHasTwoHalves
<1> QED BY <1>6, <1>7, <1>9, <1>10, <1>11 DEF WorkOK

\* A copy that wl-copy could not make is notified of as that.
LEMMA WlCopyFailsKeepsWork ==
    ASSUME WorkOK, NEW j \in DOMAIN jobs, WlCopyFails(j)
    PROVE  WorkOK'
BY ErrorKeepsWork DEF WlCopyFails

\* The notification of success comes after wl-copy took the selection.
LEMMA WlCopyEndsKeepsWork ==
    ASSUME WorkOK, NEW j \in DOMAIN jobs, WlCopyEnds(j)
    PROVE  WorkOK'
<1>1. /\ Notify(j, "held", "ok") /\ UNCHANGED <<clipboard, files>>
      /\ jobs[j].at = "held" /\ jobs[j].kind = "copy"
  BY DEF WlCopyEnds, Notify, WorkOK, JobsInShape, InShape
<1>2. PICK e : Becomes(j, e) /\ e.at = "done" /\ e.said = <<"ok">>
                   /\ e.name = jobs[j].name
  BY <1>1, NotifyIsAStep
<1>3. JobsTyped' /\ JobsInShape' /\ AfterIsDone'
  BY <1>2, OneJobGoes
<1>4. e.kind = "copy"
  BY <1>1, <1>2 DEF Becomes
<1>5. FilesTyped' /\ FileIsFresh' /\ SavesSucceed'
  BY <1>1, <1>2, <1>4, FilesStay
<1>6. ClipboardIsSound' /\ CopyIsKept'
  BY <1>1, <1>2, ClipboardStays
<1>7. SuccessIsTrue'
  BY <1>3, <1>5, SuccessHasTwoHalves
<1> QED BY <1>3, <1>5, <1>6, <1>7 DEF WorkOK

\* A file name is chosen; no file is.
LEMMA RenderTemplateKeepsWork ==
    ASSUME WorldOK, WorkOK, NEW j \in DOMAIN jobs, RenderTemplate(j)
    PROVE  WorkOK'
<1> DEFINE n == IF stamped THEN clock ELSE Static
           e == [jobs[j] EXCEPT !.at = "create", !.name = n]
<1>1. jobs \in Seq(Job) /\ jobs[j] \in Job /\ InShape(jobs[j])
  BY LenProperties, ElementOfSeq DEF WorkOK, JobsTyped, JobsInShape
<1>2. /\ jobs[j].kind = "save" /\ jobs[j].at = "start"
      /\ jobs' = [jobs EXCEPT ![j] = e] /\ UNCHANGED <<clipboard, files>>
  BY DEF RenderTemplate
<1>3. n \in FileName
  BY DEF WorldOK, FileName
<1> HIDE DEF n
<1>4. /\ e \in Job
      /\ e.at = "create" /\ e.said = jobs[j].said /\ e.name = n
      /\ e.image = jobs[j].image /\ e.kind = jobs[j].kind
      /\ e.asked = jobs[j].asked /\ e.after = jobs[j].after
  BY <1>1, <1>3 DEF Job
<1> HIDE DEF e
<1>5. InShape(e) /\ jobs[j].name = None
  BY <1>1, <1>2, <1>3, <1>4 DEF InShape
<1>6. Becomes(j, e)
  BY <1>2, <1>4, <1>5 DEF Becomes
<1> QED BY <1>2, <1>4, <1>5, <1>6, GoingKeepsWork

\* Two tasks of the same name share it whatever step one of them takes.
LEMMA SharedStays ==
    ASSUME WorkOK, NEW j \in DOMAIN jobs, NEW e, Becomes(j, e),
           e.name = jobs[j].name, NEW i \in DOMAIN jobs
    PROVE  /\ Shared(i) => Shared(i)'
           /\ i # j /\ jobs[i].name = jobs[j].name => Shared(i)'
<1>1. /\ DOMAIN jobs' = DOMAIN jobs
      /\ \A k \in DOMAIN jobs : jobs'[k].name = jobs[k].name
  BY OneJobGoes
<1>2. Shared(i) => Shared(i)'
  BY <1>1 DEF Shared
<1>3. i # j /\ jobs[i].name = jobs[j].name => Shared(i)'
  BY <1>1 DEF Shared
<1> QED BY <1>2, <1>3

\* The file is there, and empty: a loss for whoever has its name.
LEMMA CreateFileKeepsWork ==
    ASSUME WorldOK, WorkOK, NEW j \in DOMAIN jobs, CreateFile(j)
    PROVE  WorkOK'
<1>1. UNCHANGED clipboard
  BY DEF CreateFile
<1>2. CASE Notify(j, "create", "error") /\ UNCHANGED files
  BY <1>1, <1>2, ErrorKeepsWork
<1>3. CASE /\ JobGoes(j, "create", "write")
           /\ files' = Put(files, jobs[j].name, {})
  <2> DEFINE e == [jobs[j] EXCEPT !.at = "write"]
             n == jobs[j].name
  <2>1. jobs \in Seq(Job) /\ jobs[j] \in Job /\ InShape(jobs[j])
    BY LenProperties, ElementOfSeq DEF WorkOK, JobsTyped, JobsInShape
  <2>2. /\ jobs[j].at = "create" /\ jobs' = [jobs EXCEPT ![j] = e]
        /\ jobs[j].kind = "save" /\ jobs[j].said = << >> /\ n \in FileName
    BY <1>3, <2>1 DEF JobGoes, InShape
  <2>3. /\ e \in Job
        /\ e.at = "write" /\ e.said = jobs[j].said /\ e.name = n
        /\ e.image = jobs[j].image /\ e.kind = jobs[j].kind
        /\ e.asked = jobs[j].asked /\ e.after = jobs[j].after
    BY <2>1 DEF Job
  <2> HIDE DEF e
  <2>4. InShape(e)
    BY <2>1, <2>2, <2>3 DEF InShape
  <2>5. Becomes(j, e) /\ e.said # <<"ok">>
    BY <2>2, <2>3, <2>4 DEF Becomes
  <2>6. /\ DOMAIN jobs' = DOMAIN jobs
        /\ jobs'[j] = e /\ \A i \in DOMAIN jobs : i # j => jobs'[i] = jobs[i]
        /\ JobsTyped' /\ JobsInShape' /\ AfterIsDone'
    BY <2>5, OneJobGoes
  <2>7. ClipboardIsSound' /\ CopyIsKept'
    BY <1>1, <2>2, <2>3, <2>5, ClipboardStays
  <2>8. /\ DOMAIN files' = DOMAIN files \cup {n} /\ files'[n] = {}
        /\ \A m \in DOMAIN files : m # n => files'[m] = files[m]
    BY <1>3 DEF Put
  <2>9. FilesTyped'
    BY <2>2, <2>8 DEF WorkOK, FilesTyped
  <2>10. FileIsFresh'
    <3>1. ASSUME NEW i \in DOMAIN jobs, i # j,
                 \/ jobs[i].at = "write"
                 \/ jobs[i].kind = "save" /\ jobs[i].said = <<"ok">>
          PROVE  jobs[i].name \in DOMAIN files'
      BY <2>8, <3>1 DEF WorkOK, FileIsFresh
    <3>2. ASSUME NEW i \in DOMAIN jobs, i # j, jobs[i].at = "write"
          PROVE  files'[jobs[i].name] = {} \/ Shared(i)'
      <4>1. jobs[i].name \in DOMAIN files
            /\ (files[jobs[i].name] = {} \/ Shared(i))
        BY <3>2 DEF WorkOK, FileIsFresh
      <4>2. Shared(i) => Shared(i)'
        BY <2>3, <2>5, SharedStays
      <4> QED BY <2>8, <4>1, <4>2
    <3> QED BY <2>3, <2>6, <2>8, <3>1, <3>2 DEF FileIsFresh
  <2>11. SavesSucceed'
    <3>1. ASSUME NEW i \in DOMAIN jobs, i # j,
                 jobs[i].kind = "save", jobs[i].said = <<"ok">>
          PROVE  files'[jobs[i].name] = {jobs[i].asked} \/ Shared(i)'
      <4>1. /\ jobs[i].name \in DOMAIN files
            /\ files[jobs[i].name] = {jobs[i].asked} \/ Shared(i)
        BY <3>1, SuccessOfSaves DEF WorkOK, FileIsFresh, SavesSucceed
      <4>2. /\ Shared(i) => Shared(i)'
            /\ jobs[i].name = n => Shared(i)'
        BY <2>3, <2>5, <3>1, SharedStays
      <4> QED BY <2>8, <4>1, <4>2
    <3> QED BY <2>3, <2>5, <2>6, <3>1 DEF SavesSucceed
  <2>12. SuccessIsTrue'
    BY <2>6, <2>11, SuccessHasTwoHalves
  <2> QED BY <2>6, <2>7, <2>9, <2>10, <2>12 DEF WorkOK
<1> QED BY <1>2, <1>3 DEF CreateFile

\* The pixels are in the file, alone unless another task has its name.
LEMMA WriteFileKeepsWork ==
    ASSUME WorldOK, WorkOK, NEW j \in DOMAIN jobs, WriteFile(j)
    PROVE  WorkOK'
<1>1. UNCHANGED clipboard
  BY DEF WriteFile
<1>2. CASE Notify(j, "write", "error") /\ UNCHANGED files
  BY <1>1, <1>2, ErrorKeepsWork
<1>3. CASE /\ Notify(j, "write", "ok")
           /\ files' = [files EXCEPT ![jobs[j].name] = @ \cup {jobs[j].image}]
  <2> DEFINE n == jobs[j].name
  <2>1. jobs \in Seq(Job) /\ jobs[j] \in Job /\ InShape(jobs[j])
    BY LenProperties, ElementOfSeq DEF WorkOK, JobsTyped, JobsInShape
  <2>2. PICK e : Becomes(j, e) /\ e.at = "done" /\ e.said = <<"ok">>
                     /\ e.name = n
    BY <1>3, NotifyIsAStep
  <2>3. /\ jobs[j].at = "write" /\ jobs[j].kind = "save"
        /\ n \in DOMAIN files /\ (files[n] = {} \/ Shared(j))
    BY <1>3, <2>1 DEF Notify, InShape, WorkOK, FileIsFresh
  <2>4. /\ e.kind = "save" /\ e.asked = jobs[j].image /\ jobs[j].image \in Image
    BY <2>1, <2>2, <2>3 DEF Becomes, InShape, Job
  <2>5. /\ DOMAIN jobs' = DOMAIN jobs
        /\ jobs'[j] = e /\ \A i \in DOMAIN jobs : i # j => jobs'[i] = jobs[i]
        /\ JobsTyped' /\ JobsInShape' /\ AfterIsDone'
    BY <2>2, OneJobGoes
  <2>6. ClipboardIsSound' /\ CopyIsKept'
    BY <1>1, <2>2, <2>4, ClipboardStays
  <2>7. /\ DOMAIN files' = DOMAIN files
        /\ files'[n] = files[n] \cup {jobs[j].image}
        /\ \A m \in DOMAIN files : m # n => files'[m] = files[m]
    BY <1>3, <2>3
  <2> HIDE DEF n
  <2>8. FilesTyped'
    BY <2>3, <2>4, <2>7 DEF WorkOK, FilesTyped
  <2>9. FileIsFresh'
    <3>1. ASSUME NEW i \in DOMAIN jobs, i # j,
                 \/ jobs[i].at = "write"
                 \/ jobs[i].kind = "save" /\ jobs[i].said = <<"ok">>
          PROVE  jobs[i].name \in DOMAIN files'
      BY <2>7, <3>1 DEF WorkOK, FileIsFresh
    <3>2. ASSUME NEW i \in DOMAIN jobs, i # j, jobs[i].at = "write"
          PROVE  files'[jobs[i].name] = {} \/ Shared(i)'
      <4>1. jobs[i].name \in DOMAIN files
            /\ (files[jobs[i].name] = {} \/ Shared(i))
        BY <3>2 DEF WorkOK, FileIsFresh
      <4>2. /\ Shared(i) => Shared(i)'
            /\ jobs[i].name = n => Shared(i)'
        BY <2>2, <3>2, SharedStays DEF n
      <4> QED BY <2>7, <4>1, <4>2
    <3> QED BY <2>2, <2>3, <2>5, <2>7, <3>1, <3>2 DEF FileIsFresh
  <2>10. SavesSucceed'
    <3>1. ASSUME NEW i \in DOMAIN jobs, i # j,
                 jobs[i].kind = "save", jobs[i].said = <<"ok">>
          PROVE  files'[jobs[i].name] = {jobs[i].asked} \/ Shared(i)'
      <4>1. /\ jobs[i].name \in DOMAIN files
            /\ files[jobs[i].name] = {jobs[i].asked} \/ Shared(i)
        BY <3>1, SuccessOfSaves DEF WorkOK, FileIsFresh, SavesSucceed
      <4>2. /\ Shared(i) => Shared(i)'
            /\ jobs[i].name = n => Shared(i)'
        BY <2>2, <3>1, SharedStays DEF n
      <4> QED BY <2>7, <4>1, <4>2
    <3>2. files'[n] = {jobs[j].image} \/ Shared(j)'
      <4>1. Shared(j) => Shared(j)'
        BY <2>2, SharedStays DEF n
      <4> QED BY <2>3, <2>7, <4>1
    <3> QED BY <2>2, <2>4, <2>5, <3>1, <3>2 DEF SavesSucceed
  <2>11. SuccessIsTrue'
    BY <2>5, <2>10, SuccessHasTwoHalves
  <2> QED BY <2>5, <2>6, <2>8, <2>9, <2>11 DEF WorkOK
<1> QED BY <1>2, <1>3 DEF WriteFile

-----------------------------------------------------------------------------
(* The images, the registry, the clipboard and the clock *)

\* A new pin gets an image and an id no pin has had.
LEMMA RegisterPinKeepsTypes ==
    ASSUME WorldOK, NEW h, NEW image \in Image, RegisterPin(h, image)
    PROVE  /\ DOMAIN pins' \subseteq PinId /\ nextPin' \in 1 .. MaxPins + 1
           /\ \A p \in DOMAIN pins' : pins'[p] \in Image /\ p < nextPin'
<1>1. nextPin \in PinId /\ nextPin' = nextPin + 1 /\ nextPin' \in 1 .. MaxPins + 1
  BY Bounds DEF RegisterPin, WorldOK, PinId
<1>2. /\ DOMAIN pins' = DOMAIN pins \cup {nextPin} /\ pins'[nextPin] = image
      /\ \A p \in DOMAIN pins : p # nextPin => pins'[p] = pins[p]
  BY DEF RegisterPin, Put
<1>3. \A p \in DOMAIN pins : p \in Int /\ p < nextPin /\ pins[p] \in Image
  BY DEF WorldOK, PinId
<1> QED BY <1>1, <1>2, <1>3 DEF WorldOK, PinId

\* The selection of another application is one, and counts as an image.
LEMMA OtherCopiesIsASelection ==
    ASSUME WorldOK, NEW types \in Offers, OtherCopies(types)
    PROVE  /\ images' \in 0 .. MaxImages
           /\ \E s \in Selection : Select(s)
<1>1. images' \in 0 .. MaxImages /\ images' \in Image
  BY Bounds DEF OtherCopies, WorldOK, Image
<1> DEFINE image == IF types \cap ImageType = {} THEN None ELSE images'
<1>2. types \in SUBSET (ImageType \cup {"text"}) /\ 0 \in 0 .. MaxJobs
  BY JobsAssumption, Bounds
<1>3. image \in Image \cup {None}
  BY <1>1
<1>4. Select([types |-> types, job |-> 0, image |-> image])
  BY DEF OtherCopies
<1> HIDE DEF image
<1>5. [types |-> types, job |-> 0, image |-> image] \in Selection
  BY <1>2, <1>3 DEF Selection
<1> QED BY <1>1, <1>4, <1>5

\* So is the selection of a task.
LEMMA WlCopyTakesASelection ==
    ASSUME WorkOK, NEW j \in DOMAIN jobs, WlCopyTakes(j)
    PROVE  \E s \in Selection : Select(s)
<1>1. jobs[j] \in Job /\ j \in 0 .. MaxJobs
  BY LenProperties, ElementOfSeq, Bounds DEF WorkOK, JobsTyped
<1>2. [types |-> {"png"}, image |-> jobs[j].image, job |-> j] \in Selection
  BY <1>1, ImageTypes DEF Selection, Job
<1> QED BY <1>2 DEF WlCopyTakes

(* A step of a request leaves clipboard and clock alone, and registers an image
   that exists. *)
LEMMA HandlersKeepTheWorld ==
    ASSUME WorldOK, CallsOK, WorkOK, NEW h \in Handlers,
           Accept(h, "select") \/ Accept(h, "list") \/ Request(h)
    PROVE  WorldOK'
<1>1. UNCHANGED <<clipboard, naming>>
  BY DEF Accept, Request, SelectRegion, CaptureRegion, ListTypes, Paste
<1>2. CASE UNCHANGED <<images, registry>>
  BY <1>1, <1>2 DEF WorldOK, registry, naming
<1>3. CASE /\ images < MaxImages /\ images' = images + 1
           /\ RegisterPin(h, images')
  <2>1. images' \in 0 .. MaxImages /\ images' \in Image
    BY <1>3, Bounds DEF WorldOK, Image
  <2> QED BY <1>1, <1>3, <2>1, RegisterPinKeepsTypes DEF WorldOK, naming
<1>4. CASE /\ call[h].at = "paste" /\ call[h].type \in clipboard.types
           /\ RegisterPin(h, clipboard.image) /\ UNCHANGED images
  <2>1. call[h].type \in ImageType
    BY <1>4 DEF CallsOK, SeenIsWitnessed, Witnessed
  <2>2. clipboard.image \in Image
    BY <1>4, <2>1 DEF WorkOK, ClipboardIsSound
  <2> QED BY <1>1, <1>4, <2>2, RegisterPinKeepsTypes DEF WorldOK, naming
<1> QED
  BY <1>2, <1>3, <1>4
     DEF Accept, Request, SelectRegion, CaptureRegion, ListTypes, Paste

(* The only step of a copy or save that touches the selection is the one that
   takes it. *)
LEMMA TasksLetBe ==
    ASSUME NEW j \in DOMAIN jobs, Work(j) \/ WlCopyEnds(j)
    PROVE  /\ UNCHANGED <<images, registry, naming>>
           /\ WlCopyTakes(j) \/ UNCHANGED <<clipboard, call>>
BY DEF Work, WlCopy, WlCopyTakes, WlCopyFails, WlCopyEnds, RenderTemplate,
       CreateFile, WriteFile

(* No step of a copy or save gives the clipboard or the pins a wrong type. *)
LEMMA TasksKeepTheWorld ==
    ASSUME WorldOK, WorkOK, NEW j \in DOMAIN jobs, Work(j) \/ WlCopyEnds(j)
    PROVE  WorldOK'
<1>1. UNCHANGED <<images, registry, naming>>
  BY TasksLetBe
<1>2. clipboard' \in Selection
  <2>1. CASE WlCopyTakes(j)
    BY <2>1, WlCopyTakesASelection DEF Select
  <2>2. CASE UNCHANGED clipboard
    BY <2>2 DEF WorldOK
  <2> QED BY <2>1, <2>2, TasksLetBe
<1> QED BY <1>1, <1>2 DEF WorldOK, registry, naming

(* A transform gives the pin another image, and no task its pixels. *)
LEMMA TransformKeepsTheWorld ==
    ASSUME WorldOK, NEW p \in PinId, Transform(p)
    PROVE  WorldOK'
<1>1. images' \in 0 .. MaxImages /\ images' \in Image
  BY Bounds DEF Transform, WorldOK, Image
<1>2. /\ DOMAIN pins' = DOMAIN pins
      /\ \A q \in DOMAIN pins : pins'[q] = IF q = p THEN images' ELSE pins[q]
  BY DEF Transform
<1> QED BY <1>1, <1>2 DEF Transform, WorldOK, naming

(* A pin that is closed takes nothing from a task that holds its pixels. *)
LEMMA CloseKeepsTheWorld ==
    ASSUME WorldOK, NEW p \in PinId, Close(p)
    PROVE  WorldOK'
<1>1. /\ DOMAIN pins' = DOMAIN pins \ {p}
      /\ \A q \in DOMAIN pins \ {p} : pins'[q] = pins[q]
  BY DEF Close, Without, Restrict
<1> QED BY <1>1 DEF Close, WorldOK, naming

-----------------------------------------------------------------------------
(* The specification *)

(* No request and no task exists in the beginning. *)
LEMMA InitIInv == Init => IInv
<1> SUFFICES ASSUME Init PROVE IInv
  OBVIOUS
<1>1. WorldOK
  BY Bounds, EmptyMapDomain
     DEF Init, WorldOK, Second, Selection, Empty
<1>2. CallsOK
  <2>1. Idle \in Call /\ Idle.at = "idle" /\ Idle.seen = {}
    BY DEF Idle, Call
  <2>2. Witnessed(Idle) /\ Answered(Idle)
    BY <2>1, FS_EmptySet DEF Witnessed, Answered
  <2>3. /\ DOMAIN call = Handlers
        /\ \A h \in Handlers : call[h] \in Call /\ call[h] = Idle
    BY <2>1 DEF Init
  <2>4. CallsTyped /\ SeenIsWitnessed
    BY <2>2, <2>3 DEF CallsTyped, SeenIsWitnessed
  <2>5. \A h \in Handlers : Answered(call[h])
    BY <2>2, <2>3
  <2> QED BY <2>4, <2>5, AnsweredIsPinned DEF CallsOK
<1>3. WorkOK
  <2>1. jobs = << >> /\ DOMAIN jobs = {} /\ JobsTyped
    BY Bounds DEF Init, JobsTyped
  <2>2. FilesTyped
    BY EmptyMapDomain DEF Init, FilesTyped
  <2>3. ClipboardIsSound
    BY DEF Init, Empty, ClipboardIsSound
  <2> QED BY <2>1, <2>2, <2>3
          DEF WorkOK, JobsInShape, AfterIsDone, FileIsFresh, SuccessIsTrue,
              CopyIsKept, Init, Empty
<1>4. TemplateTyped
  BY Zenon DEF Init, TemplateTyped
<1> QED BY <1>1, <1>2, <1>3, <1>4 DEF IInv

(* No step changes the template. *)
LEMMA TemplateStays ==
    ASSUME TemplateTyped, [Next]_vars
    PROVE  TemplateTyped'
<1>1. UNCHANGED stamped
  <2>1. ASSUME NEW types, OtherCopies(types)
        PROVE  UNCHANGED stamped
    BY <2>1 DEF OtherCopies, naming
  <2>2. CASE Tick
    BY <2>2 DEF Tick
  <2>3. ASSUME NEW p, Transform(p) \/ Close(p)
        PROVE  UNCHANGED stamped
    BY <2>3 DEF Transform, Close, naming
  <2>4. ASSUME NEW h, NEW at, Accept(h, at) \/ Request(h)
        PROVE  UNCHANGED stamped
    BY <2>4 DEF Accept, Request, SelectRegion, CaptureRegion, ListTypes,
                Paste, naming
  <2>5. ASSUME NEW p, NEW kind, Spawn(kind, p)
        PROVE  UNCHANGED stamped
    BY <2>5 DEF Spawn, naming
  <2>6. ASSUME NEW j \in DOMAIN jobs, Work(j) \/ WlCopyEnds(j)
        PROVE  UNCHANGED stamped
    BY <2>6, TasksLetBe DEF naming
  <2>7. CASE UNCHANGED vars
    BY <2>7 DEF vars
  <2> QED BY <2>1, <2>2, <2>3, <2>4, <2>5, <2>6, <2>7 DEF Next
<1> QED BY Zenon, <1>1 DEF TemplateTyped

\* One step of the program, action by action.
LEMMA StepIInv == IInv /\ [Next]_vars => IInv'
<1> SUFFICES ASSUME IInv, [Next]_vars PROVE IInv'
  OBVIOUS
<1> USE DEF IInv
<1>0. TemplateTyped'
  BY TemplateStays
<1>1. CASE UNCHANGED vars
  BY <1>0, <1>1, WorkStays, CallsStay DEF vars, registry, WorldOK
<1>2. ASSUME NEW types \in Offers, OtherCopies(types)
      PROVE  IInv'
  <2>1. /\ images' \in 0 .. MaxImages
        /\ \E s \in Selection : Select(s)
    BY <1>2, OtherCopiesIsASelection
  <2>2. WorldOK'
    BY <1>2, <2>1 DEF OtherCopies, Select, WorldOK, registry, naming
  <2>3. CallsOK' /\ WorkOK'
    BY <1>2, <2>1, SelectionIsSeen, OtherCopiesKeepsWork
  <2> QED BY <1>0, <2>2, <2>3
<1>3. CASE Tick
  <2>1. WorldOK'
    BY <1>3, Bounds DEF Tick, WorldOK, Second, registry
  <2> QED BY <1>0, <1>3, <2>1, CallsStay, WorkStays DEF Tick
<1>4. ASSUME NEW p \in PinId, Transform(p)
      PROVE  IInv'
  BY <1>0, <1>4, TransformKeepsTheWorld, CallsStay, WorkStays DEF Transform
<1>5. ASSUME NEW p \in PinId, Close(p)
      PROVE  IInv'
  BY <1>0, <1>5, CloseKeepsTheWorld, CallsStay, WorkStays DEF Close
<1>6. ASSUME NEW h \in Handlers,
             Accept(h, "select") \/ Accept(h, "list") \/ Request(h)
      PROVE  IInv'
  <2>1. WorldOK'
    BY <1>6, HandlersKeepTheWorld
  <2>2. UNCHANGED <<jobs, files, clipboard>>
    BY <1>6
       DEF Accept, Request, SelectRegion, CaptureRegion, ListTypes, Paste
  <2>3. clipboard \in Selection /\ ClipboardIsSound
    BY DEF WorldOK, WorkOK
  <2>4. CallsOK'
    BY <1>6, <2>3, AcceptKeepsCalls, SelectRegionKeepsCalls,
       CaptureRegionKeepsCalls, ListTypesKeepsCalls, PasteKeepsCalls
       DEF Request
  <2> QED BY <1>0, <2>1, <2>2, <2>4, WorkStays
<1>7. ASSUME NEW p \in PinId, NEW kind \in {"copy", "save"}, Spawn(kind, p)
      PROVE  IInv'
  <2>1. WorldOK' /\ UNCHANGED <<call, clipboard>>
    BY <1>7 DEF Spawn, WorldOK, registry, naming
  <2> QED BY <1>0, <1>7, <2>1, CallsStay, SpawnKeepsWork
<1>8. ASSUME NEW j \in DOMAIN jobs, Work(j) \/ WlCopyEnds(j)
      PROVE  IInv'
  <2>1. WorldOK'
    BY <1>8, TasksKeepTheWorld
  <2>2. CallsOK'
    <3>1. CASE WlCopyTakes(j)
      BY <3>1, WlCopyTakesASelection, SelectionIsSeen
    <3>2. CASE UNCHANGED <<call, clipboard>>
      BY <3>2, CallsStay
    <3> QED BY <1>8, <3>1, <3>2, TasksLetBe
  <2>3. WorkOK'
    BY <1>8, WlCopyKeepsWork, WlCopyTakesKeepsWork, WlCopyFailsKeepsWork,
       WlCopyEndsKeepsWork, RenderTemplateKeepsWork, CreateFileKeepsWork,
       WriteFileKeepsWork DEF Work
  <2> QED BY <1>0, <2>1, <2>2, <2>3
<1> QED
  BY <1>1, <1>2, <1>3, <1>4, <1>5, <1>6, <1>7, <1>8 DEF Next

(* The invariant holds in every reachable state. *)
LEMMA Invariance == Spec => []IInv
BY InitIInv, StepIInv, PTL DEF Spec

\* handlers.rs:105-171, app.rs:249-300: every variable keeps its type.
THEOREM TypeCorrect == Spec => []TypeOK
<1>1. IInv => TypeOK
  <2> SUFFICES ASSUME IInv PROVE TypeOK
    OBVIOUS
  <2>1. DOMAIN jobs = 1 .. Len(jobs) /\ \A j \in DOMAIN jobs : jobs[j] \in Job
    BY LenProperties, ElementOfSeq DEF IInv, WorkOK, JobsTyped
  <2> QED BY <2>1 DEF IInv, WorldOK, CallsOK, CallsTyped, WorkOK, JobsTyped,
                      FilesTyped, TemplateTyped, TypeOK
<1> QED BY <1>1, Invariance, PTL

\* clipboard.rs:71-139: the answer to every clipboard request fits a clipboard
\* it had while it ran, however many others wrote to the clipboard meanwhile.
THEOREM AnswersFitTheClipboard == Spec => []ClipboardIsPinned
<1>1. IInv => ClipboardIsPinned
  BY DEF IInv, CallsOK
<1> QED BY <1>1, Invariance, PTL

\* app.rs:249-300: whoever is told of a copy's success had the pixels that were
\* on the screen on the clipboard, taken by wl-copy before the notification;
\* whoever is told of a save's success has them in the file, unless another
\* save was given the same file name.
THEOREM NotificationsAreTrue == Spec => []SuccessIsTrue
<1>1. IInv => SuccessIsTrue
  BY DEF IInv, WorkOK
<1> QED BY <1>1, Invariance, PTL

\* clipboard.rs:141-144: a copy that was asked for after another was notified
\* of is never overtaken by it, for any number of copies under way.
THEOREM LaterCopiesStay == Spec => []CopiesInOrder
<1>1. IInv => CopiesInOrder
  BY DEF IInv, WorkOK, CopyIsKept, CopiesInOrder
<1> QED BY <1>1, Invariance, PTL
=============================================================================
