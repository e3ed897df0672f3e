------------------------- MODULE PinRegistryProofs -------------------------
(***************************************************************************)
(* Machine-checked proofs about PinRegistry, for any number of handlers,   *)
(* sessions, pins and transforms, any channel capacity and any set of pins *)
(* whose thumbnails cannot be written or removed.                          *)
(***************************************************************************)
EXTENDS PinRegistry, DataTheorems, TLAPS

(* Lemmas about listings *)

\* The empty listing is one.
LEMMA EmptyListing == EmptyMap \in Listing
<1>1. EmptyMap \in [{} -> PinSummary]
  BY DEF EmptyMap
<1>2. {} \in SUBSET PinId
  OBVIOUS
<1> QED
  BY <1>1, <1>2 DEF Listing

\* list() returns a listing.
LEMMA ListType ==
    ASSUME DOMAIN pins \subseteq PinId,
           \A id \in DOMAIN pins : pins[id] \in PinEntry
    PROVE  List \in Listing
<1>1. List \in [DOMAIN pins -> PinSummary]
  BY DEF List, PinEntry, PinSummary
<1> QED
  BY <1>1 DEF Listing

\* The pixels as captured.
LEMMA ZeroVersion == 0 \in Version
BY RegistryAssumption DEF Version

\* A frame with no locals.
LEMMA IdleType == Idle \in Frame
BY EmptyListing, ZeroVersion DEF Idle, Frame

\* The broadcast channel never holds more than Capacity messages.
LEMMA EnqueueType ==
    ASSUME NEW queue \in Seq(Listing), Len(queue) <= Capacity,
           NEW message \in Listing
    PROVE  /\ Enqueue(queue, message) \in Seq(Listing)
           /\ Len(Enqueue(queue, message)) <= Capacity
<1>1. CASE Len(queue) = Capacity
  <2>1. queue # << >>
    BY <1>1, RegistryAssumption
  <2>2. Tail(queue) \in Seq(Listing) /\ Len(Tail(queue)) = Capacity - 1
    BY <1>1, <2>1
  <2> QED
    BY <1>1, <2>2, RegistryAssumption DEF Enqueue
<1>2. CASE Len(queue) # Capacity
  BY <1>2, RegistryAssumption DEF Enqueue
<1> QED
  BY <1>1, <1>2

-----------------------------------------------------------------------------
(* The inductive invariant *)

\* The calls that are about one pin.
HasId(t) == call[t].at \in {"insert", "encode", "replace", "discard"}

\* Ids come from the counter.
Minted ==
    /\ \A id \in DOMAIN pins : id < nextId
    /\ \A t \in Threads :
           /\ HasId(t) => call[t].id \in PinId /\ call[t].id < nextId
           /\ \A id \in call[t].removed : id < nextId

\* An id that was minted for an insert in progress is in no other hands.
Fresh ==
    \A t \in Threads : call[t].at = "insert" =>
        /\ call[t].id \notin DOMAIN pins
        /\ \A u \in Threads :
               /\ call[t].id \notin call[u].removed
               /\ u # t /\ HasId(u) => call[u].id # call[t].id

\* Files are removed for pins that are gone.
Gone ==
    \A t \in Threads :
        /\ call[t].removed \cap DOMAIN pins = {}
        /\ call[t].removed # {} => call[t].at = "unlink"
        /\ call[t].at = "discard" => call[t].id \notin DOMAIN pins

\* Transforms run one at a time, each on the latest pixels.
Composed ==
    /\ \A t \in Threads :
           call[t].at \in {"encode", "replace", "discard"} => t = Gui
    /\ \A t \in Threads :
           call[t].at \in {"encode", "replace"} /\ call[t].id \in DOMAIN pins =>
               call[t].image = pins[call[t].id].image + 1

\* A preview that is about to be stored is on disk.
FileReady ==
    \A t \in Threads : call[t].thumbnail =>
        /\ call[t].at = "insert" => call[t].id \in DOMAIN disk
        /\ call[t].at = "replace" /\ call[t].id \in DOMAIN pins =>
               call[t].id \in DOMAIN disk

IInv ==
    /\ TypeOK
    /\ Minted
    /\ Fresh
    /\ Gone
    /\ Composed
    /\ NoLostTransform
    /\ FileReady
    /\ PreviewExists
    /\ NoOrphanPreview

(* The registry starts without pins, files and calls. *)
LEMMA InitIInv == Init => IInv
<1> SUFFICES ASSUME Init PROVE IInv
  OBVIOUS
<1> USE RegistryAssumption
<1>1. TypeOK
  <2>1. nextId \in 1 .. MaxPins + 1
    BY DEF Init
  <2>2. /\ DOMAIN pins \subseteq PinId
        /\ \A id \in DOMAIN pins : pins[id] \in PinEntry
        /\ DOMAIN disk \subseteq PinId
        /\ \A id \in DOMAIN disk : disk[id] \in Version
    BY EmptyMapDomain DEF Init
  <2>3. call \in [Threads -> Frame]
    BY IdleType DEF Init
  <2>4. /\ inbox \in [Sessions -> Seq(Listing)]
        /\ \A s \in Sessions : Len(inbox[s]) <= Capacity
    BY DEF Init
  <2>5. shown \in [Sessions -> Listing]
    BY EmptyListing DEF Init
  <2> QED
    BY <2>1, <2>2, <2>3, <2>4, <2>5 DEF Init, TypeOK
<1>2. /\ DOMAIN pins = {} /\ DOMAIN disk = {}
      /\ \A t \in Threads : /\ call[t].at = "idle"
                            /\ call[t].removed = {}
                            /\ ~call[t].thumbnail
  BY EmptyMapDomain DEF Init, Idle
<1> QED
  BY <1>1, <1>2
  DEF IInv, Minted, HasId, Fresh, Gone, Composed, NoLostTransform, FileReady,
      PreviewExists, NoOrphanPreview

-----------------------------------------------------------------------------
(* Each step preserves it. *)

\* What the steps use of the type invariant.
LEMMA Types ==
    ASSUME IInv
    PROVE  /\ PinId \subseteq Nat
           /\ nextId \in Nat
           /\ DOMAIN pins \subseteq PinId
           /\ \A id \in DOMAIN pins : pins[id] \in PinEntry
           /\ DOMAIN disk \subseteq PinId
           /\ \A id \in DOMAIN disk : disk[id] \in Version
           /\ call \in [Threads -> Frame]
           /\ \A t \in Threads : /\ call[t] \in Frame
                                 /\ call[t].removed \subseteq PinId
BY RegistryAssumption DEF IInv, TypeOK, PinId, Frame

(* An insert begins with an id that nothing else knows. *)
LEMMA InsertBeginStep ==
    ASSUME IInv, NEW t \in Threads, NEW ok \in BOOLEAN, InsertBegin(t, ok)
    PROVE  IInv'
<1> USE RegistryAssumption
<1> DEFINE frame == [Idle EXCEPT !.at = "insert", !.id = nextId,
                                 !.thumbnail = ok]
<1>1. /\ nextId \in PinId /\ nextId \notin DOMAIN pins
      /\ nextId' = nextId + 1 /\ nextId' \in 1 .. MaxPins + 1
  BY DEF InsertBegin, IInv, TypeOK, Minted, PinId
<1>2. /\ frame \in Frame
      /\ frame.at = "insert" /\ frame.id = nextId /\ frame.thumbnail = ok
      /\ frame.removed = {}
  BY <1>1, EmptyListing, ZeroVersion DEF Idle, Frame
<1>3. /\ call' \in [Threads -> Frame]
      /\ call'[t] = frame
      /\ \A u \in Threads \ {t} : call'[u] = call[u]
  BY <1>2 DEF InsertBegin, IInv, TypeOK
<1>4. /\ DOMAIN disk' \subseteq PinId
      /\ \A id \in DOMAIN disk' : disk'[id] \in Version
      /\ spoiled' \subseteq PinId /\ littered' \subseteq PinId
  BY <1>1, ZeroVersion, PutType
  DEF InsertBegin, WriteThumbnail, IInv, TypeOK
<1>5. /\ DOMAIN disk' = DOMAIN disk \cup (IF ok THEN {nextId} ELSE {})
      /\ littered' = IF ok THEN littered \ {nextId} ELSE littered
      /\ UNCHANGED pins
  BY PutFacts DEF InsertBegin, WriteThumbnail
<1>6. TypeOK'
  BY <1>1, <1>3, <1>4 DEF InsertBegin, IInv, TypeOK, busVars
<1>7. call[t].at = "idle"
  BY DEF InsertBegin
<1> HIDE DEF frame
<1>8. Minted'
  BY <1>1, <1>2, <1>3, <1>5, <1>7, Types DEF IInv, Minted, HasId
<1>9. Fresh'
  BY <1>1, <1>2, <1>3, <1>5, <1>7, Types DEF IInv, Minted, HasId, Fresh
<1>10. Gone'
  BY <1>2, <1>3, <1>5 DEF IInv, Gone
<1>11. Composed' /\ NoLostTransform'
  BY <1>2, <1>3, <1>5 DEF IInv, Composed, NoLostTransform
<1>12. FileReady' /\ PreviewExists'
  BY <1>2, <1>3, <1>5 DEF IInv, FileReady, PreviewExists
<1>13. NoOrphanPreview'
  BY <1>2, <1>3, <1>5, <1>7 DEF IInv, NoOrphanPreview, Owes
<1> QED
  BY <1>6, <1>8, <1>9, <1>10, <1>11, <1>12, <1>13 DEF IInv

(* An insert stores its pin beside the file it wrote, if it could. *)
LEMMA InsertStoreStep ==
    ASSUME IInv, NEW t \in Threads, InsertStore(t)
    PROVE  IInv'
<1> USE RegistryAssumption
<1> DEFINE frame == [Idle EXCEPT !.at = "publish"]
           id == call[t].id
           entry == [image |-> 0, revision |-> 0,
                     thumbnail |-> call[t].thumbnail]
<1>1. /\ call[t].at = "insert" /\ call[t] \in Frame
      /\ id \in PinId /\ id \notin DOMAIN pins /\ id < nextId
      /\ call[t].removed = {}
  BY DEF InsertStore, IInv, TypeOK, Minted, HasId, Fresh, Gone
<1>2. /\ frame \in Frame
      /\ frame.at = "publish" /\ frame.removed = {} /\ ~frame.thumbnail
  BY EmptyListing, ZeroVersion DEF Idle, Frame
<1>3. /\ call' \in [Threads -> Frame]
      /\ call'[t] = frame
      /\ \A u \in Threads \ {t} : call'[u] = call[u]
  BY <1>2 DEF InsertStore, IInv, TypeOK
<1>4. /\ entry \in PinEntry
      /\ entry.image = 0 /\ entry.revision = 0
      /\ entry.thumbnail = call[t].thumbnail
  BY <1>1, ZeroVersion DEF PinEntry, Frame
<1>5. /\ pins' = Put(pins, id, entry)
      /\ UNCHANGED <<nextId, disk, spoiled, littered>>
  BY DEF InsertStore, Store
<1> HIDE DEF frame, entry
<1>6. /\ DOMAIN pins' \subseteq PinId
      /\ \A x \in DOMAIN pins' : pins'[x] \in PinEntry
  BY <1>1, <1>4, <1>5, Types DEF Put
<1>7. /\ DOMAIN pins' = DOMAIN pins \cup {id}
      /\ pins'[id] = entry
      /\ \A x \in DOMAIN pins : pins'[x] = pins[x]
  BY <1>1, <1>5 DEF Put
<1>8. TypeOK'
  BY <1>3, <1>6 DEF InsertStore, Store, IInv, TypeOK, busVars
<1>9. Minted'
  BY <1>1, <1>2, <1>3, <1>5, <1>7 DEF IInv, Minted, HasId
<1>10. Fresh'
  BY <1>1, <1>2, <1>3, <1>7 DEF IInv, Fresh, HasId
<1>11. Gone'
  BY <1>1, <1>2, <1>3, <1>7 DEF IInv, Gone, Fresh, HasId
<1>12. Composed' /\ NoLostTransform'
  BY <1>1, <1>2, <1>3, <1>4, <1>7
  DEF IInv, Composed, NoLostTransform, Fresh, HasId
<1>13. FileReady' /\ PreviewExists'
  BY <1>1, <1>2, <1>3, <1>4, <1>5, <1>7
  DEF IInv, FileReady, PreviewExists, Fresh, HasId
<1>14. NoOrphanPreview'
  BY <1>1, <1>2, <1>3, <1>5, <1>7 DEF IInv, NoOrphanPreview, Owes
<1> QED
  BY <1>8, <1>9, <1>10, <1>11, <1>12, <1>13, <1>14 DEF IInv

\* close and close_all take the pins in `taken` out of the map.
LEMMA TakeOutStep ==
    ASSUME IInv, NEW t \in Threads, NEW taken \in SUBSET DOMAIN pins,
           taken # {},
           call[t].at = "idle",
           Store(Without(pins, taken)),
           call' = [call EXCEPT ![t] =
                       [Idle EXCEPT !.at = "unlink", !.removed = taken]],
           UNCHANGED <<nextId, disk, spoiled, littered, busVars>>
    PROVE  IInv'
<1> USE RegistryAssumption
<1> DEFINE frame == [Idle EXCEPT !.at = "unlink", !.removed = taken]
<1>1. /\ frame \in Frame
      /\ frame.at = "unlink" /\ frame.removed = taken /\ ~frame.thumbnail
  BY EmptyListing, ZeroVersion, Types DEF Idle, Frame
<1>2. /\ call' \in [Threads -> Frame]
      /\ call'[t] = frame
      /\ \A u \in Threads \ {t} : call'[u] = call[u]
  BY <1>1 DEF IInv, TypeOK
<1>3. /\ DOMAIN pins' = DOMAIN pins \ taken
      /\ \A x \in DOMAIN pins' : pins'[x] = pins[x]
  BY DEF Store, Without, Restrict
<1>4. TypeOK'
  BY <1>2, <1>3 DEF Store, IInv, TypeOK, busVars
<1> HIDE DEF frame
<1>5. Minted'
  BY <1>1, <1>2, <1>3 DEF IInv, Minted, HasId
<1>6. Fresh'
  BY <1>1, <1>2, <1>3 DEF IInv, Fresh, HasId
<1>7. Gone'
  BY <1>1, <1>2, <1>3 DEF IInv, Gone
<1>8. Composed' /\ NoLostTransform'
  BY <1>1, <1>2, <1>3 DEF IInv, Composed, NoLostTransform
<1>9. FileReady' /\ PreviewExists'
  BY <1>1, <1>2, <1>3 DEF IInv, FileReady, PreviewExists
<1>10. NoOrphanPreview'
  BY <1>1, <1>2, <1>3 DEF IInv, NoOrphanPreview, Owes
<1> QED
  BY <1>4, <1>5, <1>6, <1>7, <1>8, <1>9, <1>10 DEF IInv

(* A close takes one pin out and has its file to unlink. *)
LEMMA CloseBeginStep ==
    ASSUME IInv, NEW t \in Threads, NEW id \in PinId, CloseBegin(t, id)
    PROVE  IInv'
<1>1. {id} \in SUBSET DOMAIN pins /\ {id} # {}
  BY DEF CloseBegin
<1> QED
  BY <1>1, TakeOutStep DEF CloseBegin

(* A close of all pins takes all of them out and has their files to unlink. *)
LEMMA CloseAllBeginStep ==
    ASSUME IInv, NEW t \in Threads, CloseAllBegin(t)
    PROVE  IInv'
<1>1. Without(pins, DOMAIN pins) = EmptyMap
  BY DEF Without, Restrict, EmptyMap
<1>2. DOMAIN pins \in SUBSET DOMAIN pins /\ DOMAIN pins # {}
  BY DEF CloseAllBegin
<1> QED
  BY <1>1, <1>2, TakeOutStep DEF CloseAllBegin

\* The file of id is gone, or it stays and is known to have resisted.
Removed(id) ==
    /\ DOMAIN disk \ {id} \subseteq DOMAIN disk'
    /\ DOMAIN disk' \subseteq DOMAIN disk
    /\ \A x \in DOMAIN disk' : disk'[x] = disk[x]
    /\ id \in DOMAIN disk' => id \in littered'
    /\ littered \ {id} \subseteq littered'
    /\ littered' \subseteq littered \cup ({id} \cap DOMAIN disk)

(* A removal, failed or not, touches one file. *)
LEMMA RemoveFacts ==
    ASSUME NEW id, NEW ok \in BOOLEAN, RemoveThumbnail(id, ok)
    PROVE  Removed(id)
<1>1. CASE ok
  BY <1>1 DEF RemoveThumbnail, Removed, Without, Restrict
<1>2. CASE ~ok
  BY <1>2 DEF RemoveThumbnail, Removed
<1> QED
  BY <1>1, <1>2

(* What is unlinked is the file of a pin that is gone for good. *)
LEMMA UnlinkStep ==
    ASSUME IInv, NEW t \in Threads, NEW id \in PinId, NEW ok \in BOOLEAN,
           Unlink(t, id, ok)
    PROVE  IInv'
<1> USE RegistryAssumption
<1> DEFINE left == call[t].removed \ {id}
           frame == [call[t] EXCEPT !.removed = left,
                                    !.at = IF left = {} THEN "publish" ELSE @]
<1>1. /\ call[t].at = "unlink" /\ id \in call[t].removed
      /\ id \notin DOMAIN pins
  BY DEF Unlink, IInv, Gone
<1>2. /\ frame \in Frame
      /\ frame.at \in {"unlink", "publish"} /\ frame.removed = left
      /\ left # {} => frame.at = "unlink"
  BY <1>1, Types DEF Frame
<1>3. /\ call' \in [Threads -> Frame]
      /\ call'[t] = frame
      /\ \A u \in Threads \ {t} : call'[u] = call[u]
  BY <1>2, Types DEF Unlink
<1>4. /\ Removed(id)
      /\ UNCHANGED <<nextId, pins, spoiled>>
  BY RemoveFacts DEF Unlink, RemoveThumbnail
<1>5. TypeOK'
  BY <1>3, <1>4 DEF Removed, Unlink, IInv, TypeOK, busVars
<1> HIDE DEF frame
<1>6. Minted'
  BY <1>1, <1>2, <1>3, <1>4 DEF IInv, Minted, HasId
<1>7. Fresh'
  BY <1>1, <1>2, <1>3, <1>4 DEF IInv, Fresh, HasId
<1>8. Gone'
  BY <1>1, <1>2, <1>3, <1>4 DEF IInv, Gone
<1>9. Composed' /\ NoLostTransform'
  BY <1>1, <1>2, <1>3, <1>4 DEF IInv, Composed, NoLostTransform
<1>10. FileReady' /\ PreviewExists'
  BY <1>1, <1>2, <1>3, <1>4
  DEF Removed, IInv, FileReady, PreviewExists, Fresh
<1>11. NoOrphanPreview'
  BY <1>1, <1>2, <1>3, <1>4 DEF Removed, IInv, NoOrphanPreview, Owes
<1> QED
  BY <1>5, <1>6, <1>7, <1>8, <1>9, <1>10, <1>11 DEF IInv

(* A transform takes the pixels as they are, and nobody else transforms. *)
LEMMA TransformBeginStep ==
    ASSUME IInv, NEW t \in Transformers, NEW id \in PinId,
           TransformBegin(t, id)
    PROVE  IInv'
<1> USE RegistryAssumption
<1> DEFINE frame == [Idle EXCEPT !.at = "encode", !.id = id,
                                 !.image = pins[id].image + 1]
<1>1. /\ t = Gui /\ t \in Threads
      /\ call[t].at = "idle" /\ id \in DOMAIN pins
      /\ pins[id].image + 1 \in Version
  BY Types DEF Transformers, Threads, TransformBegin, PinEntry, Version
<1>2. /\ frame \in Frame
      /\ frame.at = "encode" /\ frame.id = id /\ ~frame.thumbnail
      /\ frame.image = pins[id].image + 1 /\ frame.removed = {}
  BY <1>1, EmptyListing DEF Idle, Frame
<1>3. /\ call' \in [Threads -> Frame]
      /\ call'[t] = frame
      /\ \A u \in Threads \ {t} : call'[u] = call[u]
  BY <1>1, <1>2, Types DEF TransformBegin
<1>4. UNCHANGED <<nextId, pins, disk, spoiled, littered>>
  BY DEF TransformBegin
<1>5. TypeOK'
  BY <1>3 DEF TransformBegin, IInv, TypeOK, busVars
<1> HIDE DEF frame
<1>6. Minted'
  BY <1>1, <1>2, <1>3, <1>4 DEF IInv, Minted, HasId
<1>7. Fresh'
  BY <1>1, <1>2, <1>3, <1>4 DEF IInv, Fresh, HasId
<1>8. Gone'
  BY <1>1, <1>2, <1>3, <1>4 DEF IInv, Gone
<1>9. Composed' /\ NoLostTransform'
  BY <1>1, <1>2, <1>3, <1>4 DEF IInv, Composed, NoLostTransform
<1>10. FileReady' /\ PreviewExists'
  BY <1>1, <1>2, <1>3, <1>4 DEF IInv, FileReady, PreviewExists
<1>11. NoOrphanPreview'
  BY <1>1, <1>2, <1>3, <1>4 DEF IInv, NoOrphanPreview, Owes
<1> QED
  BY <1>5, <1>6, <1>7, <1>8, <1>9, <1>10, <1>11 DEF IInv

(* The new preview is written over the old one, or the write fails and
   leaves it. *)
LEMMA ReplaceEncodeStep ==
    ASSUME IInv, NEW t \in Threads, NEW ok \in BOOLEAN, ReplaceEncode(t, ok)
    PROVE  IInv'
<1> USE RegistryAssumption
<1> DEFINE frame == [call[t] EXCEPT !.at = "replace", !.thumbnail = ok]
           id == call[t].id
<1>1. /\ call[t].at = "encode" /\ id \in PinId
      /\ call[t].image \in Version
  BY Types DEF ReplaceEncode, IInv, Minted, HasId, Frame
<1>2. /\ frame \in Frame
      /\ frame.at = "replace" /\ frame.id = id /\ frame.thumbnail = ok
      /\ frame.image = call[t].image /\ frame.removed = call[t].removed
  BY <1>1, Types DEF Frame
<1>3. /\ call' \in [Threads -> Frame]
      /\ call'[t] = frame
      /\ \A u \in Threads \ {t} : call'[u] = call[u]
  BY <1>2, Types DEF ReplaceEncode
<1>4. /\ disk' = IF ok THEN Put(disk, id, call[t].image) ELSE disk
      /\ littered' = IF ok THEN littered \ {id} ELSE littered
      /\ spoiled' \subseteq spoiled \cup {id}
      /\ UNCHANGED <<nextId, pins>>
  BY DEF ReplaceEncode, WriteThumbnail
<1>5. /\ DOMAIN disk' = DOMAIN disk \cup (IF ok THEN {id} ELSE {})
      /\ \A x \in DOMAIN disk' : disk'[x] \in Version
  BY <1>1, <1>4, Types DEF Put
<1>6. TypeOK'
  BY <1>1, <1>3, <1>4, <1>5 DEF ReplaceEncode, IInv, TypeOK, busVars
<1> HIDE DEF frame
<1>7. Minted'
  BY <1>1, <1>2, <1>3, <1>4 DEF IInv, Minted, HasId
<1>8. Fresh'
  BY <1>1, <1>2, <1>3, <1>4 DEF IInv, Fresh, HasId
<1>9. Gone'
  BY <1>1, <1>2, <1>3, <1>4 DEF IInv, Gone
<1>10. Composed' /\ NoLostTransform'
  BY <1>1, <1>2, <1>3, <1>4 DEF IInv, Composed, NoLostTransform
<1>11. FileReady' /\ PreviewExists'
  BY <1>1, <1>2, <1>3, <1>4, <1>5 DEF IInv, FileReady, PreviewExists
<1>12. NoOrphanPreview'
  BY <1>1, <1>2, <1>3, <1>4, <1>5 DEF IInv, NoOrphanPreview, Owes
<1> QED
  BY <1>6, <1>7, <1>8, <1>9, <1>10, <1>11, <1>12 DEF IInv

(* A replaced image is stored if its pin is still there. *)
LEMMA ReplaceStoreStep ==
    ASSUME IInv, NEW t \in Threads, ReplaceStore(t)
    PROVE  IInv'
<1> USE RegistryAssumption
<1> DEFINE frame == [Idle EXCEPT !.at = "publish"]
           id == call[t].id
           entry == Replaced(pins[id], call[t].image, call[t].thumbnail)
<1>1. /\ call[t].at = "replace" /\ id \in DOMAIN pins /\ id \in PinId
      /\ call[t] \in Frame /\ pins[id] \in PinEntry
      /\ call[t].image = pins[id].image + 1
      /\ pins[id].revision = pins[id].image
      /\ call[t].removed = {}
  BY Types DEF ReplaceStore, IInv, Composed, NoLostTransform, Gone
<1>2. /\ frame \in Frame
      /\ frame.at = "publish" /\ frame.removed = {} /\ ~frame.thumbnail
  BY EmptyListing, ZeroVersion DEF Idle, Frame
<1>3. /\ call' \in [Threads -> Frame]
      /\ call'[t] = frame
      /\ \A u \in Threads \ {t} : call'[u] = call[u]
  BY <1>2, Types DEF ReplaceStore
<1>4. /\ entry \in PinEntry
      /\ entry.image = call[t].image
      /\ entry.revision = entry.image
      /\ entry.thumbnail => call[t].thumbnail \/ pins[id].thumbnail
  BY <1>1 DEF Replaced, PinEntry, Frame
<1>5. /\ pins' = [pins EXCEPT ![id] = entry]
      /\ UNCHANGED <<nextId, disk, spoiled, littered>>
  BY DEF ReplaceStore, Store
<1> HIDE DEF frame, entry
<1>6. /\ DOMAIN pins' = DOMAIN pins
      /\ pins'[id] = entry
      /\ \A x \in DOMAIN pins \ {id} : pins'[x] = pins[x]
  BY <1>1, <1>5
<1>7. TypeOK'
  BY <1>1, <1>3, <1>4, <1>6 DEF ReplaceStore, Store, IInv, TypeOK, busVars
<1>8. Minted'
  BY <1>1, <1>2, <1>3, <1>5, <1>6 DEF IInv, Minted, HasId
<1>9. Fresh'
  BY <1>1, <1>2, <1>3, <1>5, <1>6 DEF IInv, Fresh, HasId
<1>10. Gone'
  BY <1>1, <1>2, <1>3, <1>6 DEF IInv, Gone
<1>11. Composed' /\ NoLostTransform'
  BY <1>1, <1>2, <1>3, <1>4, <1>6 DEF IInv, Composed, NoLostTransform
<1>12. FileReady' /\ PreviewExists'
  BY <1>1, <1>2, <1>3, <1>4, <1>5, <1>6 DEF IInv, FileReady, PreviewExists
<1>13. NoOrphanPreview'
  BY <1>1, <1>2, <1>3, <1>5, <1>6 DEF IInv, NoOrphanPreview, Owes
<1> QED
  BY <1>7, <1>8, <1>9, <1>10, <1>11, <1>12, <1>13 DEF IInv

(* The preview written for a pin that is gone is removed again. *)
LEMMA ReplaceDiscardStep ==
    ASSUME IInv, NEW t \in Threads, NEW ok \in BOOLEAN,
           ReplaceDiscard(t, ok)
    PROVE  IInv'
<1> USE RegistryAssumption
<1> DEFINE id == call[t].id
<1>1. /\ call[t].at = "discard" /\ id \notin DOMAIN pins
      /\ call[t].removed = {}
      /\ Idle \in Frame /\ Idle.at = "idle" /\ Idle.removed = {}
      /\ ~Idle.thumbnail
  BY IdleType DEF ReplaceDiscard, IInv, Gone, Idle
<1>2. /\ call' \in [Threads -> Frame]
      /\ call'[t] = Idle
      /\ \A u \in Threads \ {t} : call'[u] = call[u]
  BY <1>1, Types DEF ReplaceDiscard
<1>3. /\ Removed(id)
      /\ UNCHANGED <<nextId, pins, spoiled>>
  BY RemoveFacts DEF ReplaceDiscard, RemoveThumbnail
<1>4. TypeOK'
  BY <1>2, <1>3 DEF Removed, ReplaceDiscard, IInv, TypeOK, busVars
<1>5. Minted'
  BY <1>1, <1>2, <1>3 DEF IInv, Minted, HasId
<1>6. Fresh'
  BY <1>1, <1>2, <1>3 DEF IInv, Fresh, HasId
<1>7. Gone'
  BY <1>1, <1>2, <1>3 DEF IInv, Gone
<1>8. Composed' /\ NoLostTransform'
  BY <1>1, <1>2, <1>3 DEF IInv, Composed, NoLostTransform
<1>9. FileReady' /\ PreviewExists'
  BY <1>1, <1>2, <1>3
  DEF Removed, IInv, FileReady, PreviewExists, Fresh, HasId
<1>10. NoOrphanPreview'
  BY <1>1, <1>2, <1>3 DEF Removed, IInv, NoOrphanPreview, Owes
<1> QED
  BY <1>4, <1>5, <1>6, <1>7, <1>8, <1>9, <1>10 DEF IInv

\* Steps that only move a thread on which no file and no id depends, or that
\* find the pin gone.
LEMMA MoveStep ==
    ASSUME IInv, NEW t \in Threads, NEW frame \in Frame,
           call' = [call EXCEPT ![t] = frame],
           frame.removed = {}, call[t].removed = {},
           \/ /\ call[t].at \in {"publish", "list", "send"}
              /\ frame.at \in {"idle", "list", "send"}
           \/ /\ call[t].at = "replace" /\ frame.at = "discard"
              /\ frame.id = call[t].id
              /\ call[t].id \notin DOMAIN pins,
           UNCHANGED <<nextId, pins, disk, spoiled, littered>>,
           TypeOK'
    PROVE  IInv'
<1>1. /\ call'[t] = frame
      /\ \A u \in Threads \ {t} : call'[u] = call[u]
  BY Types
<1>2. Minted'
  BY <1>1 DEF IInv, Minted, HasId
<1>3. Fresh'
  BY <1>1 DEF IInv, Fresh, HasId
<1>4. Gone'
  BY <1>1 DEF IInv, Gone
<1>5. Composed' /\ NoLostTransform'
  BY <1>1 DEF IInv, Composed, NoLostTransform
<1>6. FileReady' /\ PreviewExists'
  BY <1>1 DEF IInv, FileReady, PreviewExists
<1>7. NoOrphanPreview'
  BY <1>1 DEF IInv, NoOrphanPreview, Owes
<1> QED
  BY <1>2, <1>3, <1>4, <1>5, <1>6, <1>7 DEF IInv

(* A transform whose pin is gone stores nothing. *)
LEMMA ReplaceMissStep ==
    ASSUME IInv, NEW t \in Threads, ReplaceMiss(t)
    PROVE  IInv'
<1> DEFINE frame == [call[t] EXCEPT !.at = "discard"]
<1>1. call[t].at = "replace" /\ call[t].removed = {}
  BY DEF ReplaceMiss, IInv, Gone
<1>2. /\ frame \in Frame /\ frame.at = "discard" /\ frame.removed = {}
      /\ frame.id = call[t].id
  BY <1>1, Types DEF Frame
<1>3. call' = [call EXCEPT ![t] = frame] /\ call' \in [Threads -> Frame]
  BY <1>2, Types DEF ReplaceMiss
<1>4. TypeOK'
  BY <1>3 DEF ReplaceMiss, IInv, TypeOK, busVars
<1> HIDE DEF frame
<1> QED
  BY <1>1, <1>2, <1>3, <1>4, MoveStep DEF ReplaceMiss

(* Publishing changes neither pins nor files. *)
LEMMA PublishStep ==
    ASSUME IInv, NEW t \in Threads,
           PublishSkip(t) \/ PublishCheck(t) \/ PublishList(t) \/ PublishSend(t)
    PROVE  IInv'
<1>1. /\ call[t].at \in {"publish", "list", "send"} /\ call[t].removed = {}
      /\ UNCHANGED <<nextId, pins, disk, spoiled, littered>>
  BY DEF PublishSkip, PublishCheck, PublishList, PublishSend, IInv, Gone
<1>2. Idle \in Frame /\ Idle.at = "idle" /\ Idle.removed = {}
  BY IdleType DEF Idle
<1>3. CASE PublishSkip(t)
  <2>1. call' \in [Threads -> Frame]
    BY <1>2, <1>3, Types DEF PublishSkip
  <2>2. TypeOK'
    BY <1>3, <2>1 DEF PublishSkip, IInv, TypeOK, busVars
  <2> QED
    BY <1>1, <1>2, <1>3, <2>2, MoveStep DEF PublishSkip
<1>4. CASE PublishCheck(t)
  <2> DEFINE frame == [call[t] EXCEPT !.at = "list"]
  <2>1. frame \in Frame /\ frame.at = "list" /\ frame.removed = {}
    BY <1>1, Types DEF Frame
  <2>2. call' = [call EXCEPT ![t] = frame] /\ call' \in [Threads -> Frame]
    BY <1>4, <2>1, Types DEF PublishCheck
  <2>3. TypeOK'
    BY <1>4, <2>2 DEF PublishCheck, IInv, TypeOK, busVars
  <2> HIDE DEF frame
  <2> QED
    BY <1>1, <2>1, <2>2, <2>3, MoveStep
<1>5. CASE PublishList(t)
  <2> DEFINE frame == [call[t] EXCEPT !.at = "send", !.snapshot = List]
  <2>1. frame \in Frame /\ frame.at = "send" /\ frame.removed = {}
    BY <1>1, Types, ListType DEF Frame
  <2>2. call' = [call EXCEPT ![t] = frame] /\ call' \in [Threads -> Frame]
    BY <1>5, <2>1, Types DEF PublishList
  <2>3. TypeOK'
    BY <1>5, <2>2 DEF PublishList, IInv, TypeOK, busVars
  <2> HIDE DEF frame
  <2> QED
    BY <1>1, <2>1, <2>2, <2>3, MoveStep
<1>6. CASE PublishSend(t)
  <2>1. call' \in [Threads -> Frame]
    BY <1>2, <1>6, Types DEF PublishSend
  <2>2. call[t].snapshot \in Listing
    BY Types DEF Frame
  <2>3. /\ inbox' \in [Sessions -> Seq(Listing)]
        /\ \A s \in Sessions : Len(inbox'[s]) <= Capacity
    <3>1. \A s \in Sessions :
              /\ inbox'[s] = IF s \in Subscribed
                             THEN Enqueue(inbox[s], call[t].snapshot)
                             ELSE inbox[s]
              /\ inbox[s] \in Seq(Listing) /\ Len(inbox[s]) <= Capacity
      BY <1>6 DEF PublishSend, IInv, TypeOK
    <3>2. \A s \in Sessions : inbox'[s] \in Seq(Listing)
                              /\ Len(inbox'[s]) <= Capacity
      BY <2>2, <3>1, EnqueueType
    <3>3. inbox' = [s \in Sessions |-> inbox'[s]]
      BY <1>6 DEF PublishSend
    <3> QED
      BY <3>2, <3>3
  <2>4. TypeOK'
    BY <1>6, <2>1, <2>3 DEF PublishSend, IInv, TypeOK
  <2> QED
    BY <1>1, <1>2, <1>6, <2>4, MoveStep DEF PublishSend
<1> QED
  BY <1>3, <1>4, <1>5, <1>6

\* The forwarders only read the registry.
LEMMA ForwarderStep ==
    ASSUME IInv, NEW s \in Sessions,
           Subscribe(s) \/ Forward(s) \/ Unsubscribe(s)
    PROVE  IInv'
<1> USE RegistryAssumption
<1>1. UNCHANGED registryVars
  BY DEF Subscribe, Forward, SendSnapshot, Receive, ReceiveLagged, Unsubscribe
<1>2. TypeOK'
  <2>1. CASE Subscribe(s) \/ ReceiveLagged(s)
    BY <2>1 DEF Subscribe, ReceiveLagged, registryVars, IInv, TypeOK
  <2>2. CASE SendSnapshot(s)
    BY <2>2, ListType, Types
    DEF SendSnapshot, Show, registryVars, IInv, TypeOK
  <2>3. CASE Receive(s)
    <3>1. /\ inbox[s] \in Seq(Listing) /\ inbox[s] # << >>
          /\ Len(inbox[s]) <= Capacity
      BY <2>3 DEF Receive, IInv, TypeOK
    <3>2. /\ Head(inbox[s]) \in Listing /\ Tail(inbox[s]) \in Seq(Listing)
          /\ Len(Tail(inbox[s])) <= Capacity
      BY <3>1
    <3> QED
      BY <2>3, <3>2 DEF Receive, Show, registryVars, IInv, TypeOK
  <2>4. CASE Unsubscribe(s)
    BY <2>4, EmptyListing DEF Unsubscribe, registryVars, IInv, TypeOK
  <2> QED
    BY <2>1, <2>2, <2>3, <2>4 DEF Forward
<1> QED
  BY <1>1, <1>2
  DEF registryVars, IInv, Minted, HasId, Fresh, Gone, Composed,
      NoLostTransform, FileReady, PreviewExists, NoOrphanPreview, Owes

\* The invariant is inductive.
LEMMA StepIInv == IInv /\ [Next]_vars => IInv'
<1> SUFFICES ASSUME IInv, [Next]_vars PROVE IInv'
  OBVIOUS
<1>1. ASSUME NEW t \in Threads, Begin(t) PROVE IInv'
  BY <1>1, InsertBeginStep, CloseAllBeginStep, CloseBeginStep,
     TransformBeginStep
  DEF Begin
<1>2. ASSUME NEW t \in Threads, Proceed(t) PROVE IInv'
  BY <1>2, InsertStoreStep, UnlinkStep, ReplaceEncodeStep, ReplaceStoreStep,
     ReplaceMissStep, ReplaceDiscardStep, PublishStep
  DEF Proceed
<1>3. ASSUME UNCHANGED vars PROVE IInv'
  BY <1>3
  DEF vars, IInv, TypeOK, Minted, HasId, Fresh, Gone, Composed,
      NoLostTransform, FileReady, PreviewExists, NoOrphanPreview, Owes
<1> QED
  BY <1>1, <1>2, <1>3, ForwarderStep DEF Next

(* The invariant holds in every reachable state. *)
LEMMA Invariance == Spec => []IInv
BY InitIInv, StepIInv, PTL DEF Spec

\* Every value of every variable is of its type.
THEOREM TypeCorrect == Spec => []TypeOK
BY Invariance, PTL DEF IInv

\* registry.rs:248-250: an advertised preview of a live pin is on disk.
THEOREM PreviewsExist == Spec => []PreviewExists
BY Invariance, PTL DEF IInv

\* registry.rs:329-330: no closed pin leaves its preview behind, unless the
\* file resisted its removal.
THEOREM NoPreviewIsOrphaned == Spec => []NoOrphanPreview
BY Invariance, PTL DEF IInv

\* registry.rs:286-288: transforms compose, none is lost.
THEOREM TransformsCompose == Spec => []NoLostTransform
BY Invariance, PTL DEF IInv

-----------------------------------------------------------------------------
(* Refinement of PinStore *)

\* A thread unlinks one file of those it has to; the iced thread removes the
\* preview it wrote for nobody.
Unlinks(t) == \E id \in PinId, ok \in BOOLEAN : Unlink(t, id, ok)
Discards(t) == \E ok \in BOOLEAN : ReplaceDiscard(t, ok)

Live == [id \in DOMAIN pins |-> pins[id].revision]
Used == (1 .. nextId - 1) \ Minting

\* Which threads are minting, in the two states of a step.
LEMMA MintingSame ==
    ASSUME UNCHANGED nextId,
           \A t \in Threads :
               \/ call'[t] = call[t]
               \/ call[t].at # "insert" /\ call'[t].at # "insert"
    PROVE  UNCHANGED Used
<1>1. UNCHANGED Minting
  BY DEF Minting
<1> QED
  BY <1>1 DEF Used

(* An empty registry is an empty store. *)
LEMMA InitRefines == Init => Abstract!Init
<1> SUFFICES ASSUME Init PROVE Abstract!Init
  OBVIOUS
<1>1. DOMAIN pins = {}
  BY EmptyMapDomain DEF Init
<1>2. Live = EmptyMap
  BY <1>1 DEF Live, EmptyMap
<1>3. Used = {}
  BY DEF Init, Used
<1> QED
  BY <1>2, <1>3 DEF Abstract!Init, Abstract!EmptyMap, EmptyMap, Live, Used

(* To mint an id is no step of the abstract store. *)
LEMMA InsertBeginRefines ==
    ASSUME IInv, NEW t \in Threads, NEW ok \in BOOLEAN, InsertBegin(t, ok)
    PROVE  UNCHANGED <<Live, Used>>
<1> DEFINE frame == [Idle EXCEPT !.at = "insert", !.id = nextId,
                                 !.thumbnail = ok]
<1>1. /\ call'[t].at = "insert" /\ call'[t].id = nextId
      /\ \A u \in Threads \ {t} : call'[u] = call[u]
      /\ call[t].at # "insert"
      /\ nextId' = nextId + 1 /\ nextId \in Nat \ {0}
  BY RegistryAssumption DEF InsertBegin, IInv, TypeOK, Idle
<1>2. Minting' = Minting \cup {nextId}
  BY <1>1 DEF Minting
<1>3. UNCHANGED Live
  BY DEF InsertBegin, Live
<1>4. nextId \notin Minting
  BY <1>1 DEF Minting, IInv, Minted, HasId
<1> QED
  BY <1>1, <1>2, <1>3, <1>4 DEF Used

(* To store a pin is an abstract insert. *)
LEMMA InsertStoreRefines ==
    ASSUME IInv, NEW t \in Threads, InsertStore(t)
    PROVE  \E id \in PinId : Abstract!Insert(id)
<1> DEFINE id == call[t].id
<1>1. /\ call[t].at = "insert" /\ id \in PinId /\ id < nextId
      /\ id \notin DOMAIN pins
  BY DEF InsertStore, IInv, Minted, HasId, Fresh
<1>2. /\ call'[t].at = "publish"
      /\ \A u \in Threads \ {t} : call'[u] = call[u]
      /\ UNCHANGED nextId
  BY Types DEF InsertStore, Idle
<1>3. id \in Minting /\ Minting' = Minting \ {id}
  BY <1>1, <1>2 DEF Minting, IInv, Fresh, HasId
<1>4. id \in 1 .. nextId - 1
  BY <1>1, Types, RegistryAssumption DEF PinId
<1>5. id \notin Used /\ Used' = Used \cup {id}
  BY <1>2, <1>3, <1>4 DEF Used
<1>6. pins' = Put(pins, id, [image |-> 0, revision |-> 0,
                             thumbnail |-> call[t].thumbnail])
  BY DEF InsertStore, Store
<1>7. Live' = Put(Live, id, 0)
  <2>1. DOMAIN pins' = DOMAIN pins \cup {id}
    BY <1>6 DEF Put
  <2>2. \A x \in DOMAIN pins' :
            pins'[x].revision = IF x = id THEN 0 ELSE pins[x].revision
    BY <1>1, <1>6 DEF Put
  <2> QED
    BY <2>1, <2>2 DEF Live, Put
<1> QED
  BY <1>1, <1>5, <1>7 DEF Abstract!Insert, Abstract!Put, Put, Live, Used

(* A set of pins taken out of the registry is taken out of the store. *)
LEMMA TakeOutRefines ==
    ASSUME NEW taken \in SUBSET DOMAIN pins, pins' = Without(pins, taken)
    PROVE  Live' = Without(Live, taken)
BY DEF Live, Without, Restrict

(* To store a replaced image is an abstract replace. *)
LEMMA ReplaceStoreRefines ==
    ASSUME IInv, NEW t \in Threads, ReplaceStore(t)
    PROVE  \E id \in PinId : Abstract!Replace(id)
<1> DEFINE id == call[t].id
<1>1. /\ call[t].at = "replace" /\ id \in DOMAIN pins /\ id \in PinId
      /\ call'[t].at = "publish"
      /\ \A u \in Threads \ {t} : call'[u] = call[u]
      /\ UNCHANGED nextId
  BY Types DEF ReplaceStore, Idle
<1>2. UNCHANGED Used
  BY <1>1, MintingSame
<1>3. Live' = [Live EXCEPT ![id] = @ + 1]
  BY <1>1 DEF ReplaceStore, Store, Replaced, Live
<1> QED
  BY <1>1, <1>2, <1>3 DEF Abstract!Replace, Live, Used

(* A close is an abstract close. *)
LEMMA CloseBeginRefines ==
    ASSUME IInv, NEW t \in Threads, NEW id \in PinId, CloseBegin(t, id)
    PROVE  Abstract!Close(id)
<1>1. Live' = Without(Live, {id})
  BY TakeOutRefines DEF CloseBegin, Store
<1>2. UNCHANGED Used
  <2>1. /\ call[t].at = "idle" /\ call'[t].at = "unlink"
        /\ \A u \in Threads \ {t} : call'[u] = call[u]
        /\ UNCHANGED nextId
    BY Types DEF CloseBegin, Idle
  <2> QED
    BY <2>1, MintingSame
<1> QED
  BY <1>1, <1>2
  DEF CloseBegin, Abstract!Close, Abstract!Without, Abstract!Restrict, Without,
      Restrict, Live, Used

(* A close of all pins is an abstract close of all pins. *)
LEMMA CloseAllBeginRefines ==
    ASSUME IInv, NEW t \in Threads, CloseAllBegin(t)
    PROVE  Abstract!CloseAll
<1>1. Live' = EmptyMap
  BY DEF CloseAllBegin, Store, Live, EmptyMap
<1>2. UNCHANGED Used
  <2>1. /\ call[t].at = "idle" /\ call'[t].at = "unlink"
        /\ \A u \in Threads \ {t} : call'[u] = call[u]
        /\ UNCHANGED nextId
    BY Types DEF CloseAllBegin, Idle
  <2> QED
    BY <2>1, MintingSame
<1> QED
  BY <1>1, <1>2
  DEF Abstract!CloseAll, Abstract!EmptyMap, EmptyMap, Live, Used

\* Every other step of a thread leaves the set of pins alone.
LEMMA OtherStepsStutter ==
    ASSUME IInv, NEW t \in Threads,
           \/ (\E id \in PinId : TransformBegin(t, id)) \/ Unlinks(t)
           \/ \E ok \in BOOLEAN : ReplaceEncode(t, ok)
           \/ ReplaceMiss(t) \/ Discards(t)
           \/ PublishSkip(t) \/ PublishCheck(t)
           \/ PublishList(t) \/ PublishSend(t)
    PROVE  UNCHANGED <<Live, Used>>
<1>1. UNCHANGED <<pins, nextId>>
  BY DEF TransformBegin, Unlinks, Unlink, ReplaceEncode, ReplaceMiss,
         Discards, ReplaceDiscard,
         PublishSkip, PublishCheck, PublishList, PublishSend
<1>2. /\ \A u \in Threads \ {t} : call'[u] = call[u]
      /\ call[t].at # "insert" /\ call'[t].at # "insert"
  <2>1. call \in [Threads -> Frame] /\ call[t] \in Frame
    BY Types
  <2>2. CASE \E id \in PinId : TransformBegin(t, id)
    BY <2>1, <2>2 DEF TransformBegin, Idle
  <2>3. CASE Unlinks(t)
    BY <2>1, <2>3 DEF Unlinks, Unlink, Frame
  <2>4. CASE \E ok \in BOOLEAN : ReplaceEncode(t, ok)
    BY <2>1, <2>4 DEF ReplaceEncode, Frame
  <2>5. CASE ReplaceMiss(t) \/ Discards(t)
    BY <2>1, <2>5 DEF ReplaceMiss, Discards, ReplaceDiscard, Idle, Frame
  <2>6. CASE PublishSkip(t) \/ PublishCheck(t)
    BY <2>1, <2>6 DEF PublishSkip, PublishCheck, Idle, Frame
  <2>7. CASE PublishList(t) \/ PublishSend(t)
    BY <2>1, <2>7 DEF PublishList, PublishSend, Idle, Frame
  <2> QED
    BY <2>2, <2>3, <2>4, <2>5, <2>6, <2>7
<1>3. UNCHANGED Used
  BY <1>1, <1>2, MintingSame
<1> QED
  BY <1>1, <1>3 DEF Live

(* Every step of the registry is a step of the store or changes nothing of
   it. *)
LEMMA StepRefines ==
    ASSUME IInv, [Next]_vars
    PROVE  [Abstract!Next]_(<<Live, Used>>)
<1>1. ASSUME NEW t \in Threads, Begin(t)
      PROVE  Abstract!Next \/ UNCHANGED <<Live, Used>>
  BY <1>1, InsertBeginRefines, CloseAllBeginRefines, CloseBeginRefines,
     OtherStepsStutter
  DEF Begin, Abstract!Next
<1>2. ASSUME NEW t \in Threads, Proceed(t)
      PROVE  Abstract!Next \/ UNCHANGED <<Live, Used>>
  BY <1>2, InsertStoreRefines, ReplaceStoreRefines, OtherStepsStutter
  DEF Proceed, Unlinks, Discards, Abstract!Next
<1>3. ASSUME NEW s \in Sessions,
             Subscribe(s) \/ Forward(s) \/ Unsubscribe(s)
      PROVE  UNCHANGED <<Live, Used>>
  BY <1>3
  DEF Subscribe, Forward, SendSnapshot, Receive, ReceiveLagged, Unsubscribe,
      registryVars, Live, Used, Minting
<1>4. ASSUME UNCHANGED vars PROVE UNCHANGED <<Live, Used>>
  BY <1>4 DEF vars, Live, Used, Minting
<1> QED
  BY <1>1, <1>2, <1>3, <1>4 DEF Next

\* registry.rs:3-7: the interleaved registry implements the atomic pin store.
THEOREM Refinement == Spec => ImplementsPinStore
<1>1. IInv /\ [Next]_vars => [Abstract!Next]_(Abstract!storeVars)
  BY StepRefines DEF Abstract!storeVars, Live, Used
<1> QED
  BY InitRefines, Invariance, <1>1, PTL
  DEF Spec, ImplementsPinStore, Abstract!Spec

\* The promise about ids, for one step.
LEMMA IdsStep ==
    ASSUME IInv, Abstract!Next \/ UNCHANGED <<Live, Used>>
    PROVE  /\ \A id \in Used : id \in DOMAIN Live' => id \in DOMAIN Live
           /\ \A id \in DOMAIN Live :
                  id \in DOMAIN Live' => Live'[id] >= Live[id]
<1>1. \A id \in DOMAIN Live : Live[id] \in Nat
  BY Types, RegistryAssumption DEF Live, PinEntry, Version
<1>2. CASE \E id \in PinId : Abstract!Insert(id)
  <2>1. PICK id \in PinId : Abstract!Insert(id)
    BY <1>2
  <2>2. id \notin Used /\ id \notin DOMAIN pins
    <3>1. id \notin Used
      BY <2>1 DEF Abstract!Insert, Used
    <3>2. DOMAIN pins \subseteq Used
      BY Types, RegistryAssumption DEF IInv, Minted, Fresh, Used, Minting, PinId
    <3> QED
      BY <3>1, <3>2
  <2>3. Live' = Put(Live, id, 0)
    BY <2>1 DEF Abstract!Insert, Abstract!Put, Put, Live
  <2>4. DOMAIN Live = DOMAIN pins
    BY DEF Live
  <2> HIDE DEF Live
  <2>5. /\ DOMAIN Live' = DOMAIN Live \cup {id}
        /\ \A x \in DOMAIN Live : x # id => Live'[x] = Live[x]
    BY <2>3 DEF Put
  <2> QED
    BY <1>1, <2>2, <2>4, <2>5
<1>3. CASE \E id \in PinId : Abstract!Replace(id)
  <2>1. PICK id \in PinId : Live' = [Live EXCEPT ![id] = @ + 1]
    BY <1>3 DEF Abstract!Replace, Live
  <2> HIDE DEF Live
  <2> QED
    BY <1>1, <2>1
<1>4. CASE \E id \in PinId : Abstract!Close(id)
  <2>1. PICK id \in PinId : Live' = Without(Live, {id})
    BY <1>4 DEF Abstract!Close, Abstract!Without, Abstract!Restrict, Without,
                Restrict, Live
  <2> HIDE DEF Live
  <2> QED
    BY <1>1, <2>1 DEF Without, Restrict
<1>5. CASE Abstract!CloseAll
  <2>1. Live' = EmptyMap
    BY <1>5 DEF Abstract!CloseAll, Abstract!EmptyMap, EmptyMap, Live
  <2> HIDE DEF Live
  <2> QED
    BY <2>1, EmptyMapDomain
<1>6. CASE UNCHANGED <<Live, Used>>
  <2> HIDE DEF Live
  <2> QED
    BY <1>1, <1>6
<1> QED
  BY <1>2, <1>3, <1>4, <1>5, <1>6 DEF Abstract!Next

\* registry.rs:3-7: ids are never reused and pixels never go back.
THEOREM IdsStayDead == Spec => IdsNeverReused
<1>1. IInv /\ [Next]_vars => [Abstract!Keeps]_(Abstract!storeVars)
  BY StepRefines, IdsStep DEF Abstract!Keeps, Live, Used
<1> QED
  BY Invariance, <1>1, PTL DEF Spec, IdsNeverReused, Abstract!NeverResurrected

-----------------------------------------------------------------------------
(* The change bus loses nothing. *)

\* What is still going to show session s the pins as they are.
Pending(s) ==
    \/ forwarder[s] \in {"open", "resend"}
    \/ lagged[s]
    \/ \E t \in Threads :
           \/ call[t].at \in {"unlink", "publish", "list"}
           \/ call[t].at = "send" /\ call[t].snapshot = List
    \/ \E i \in DOMAIN inbox[s] : inbox[s][i] = List

BusInv ==
    \A s \in Sessions : forwarder[s] # "off" => informed[s] \/ Pending(s)

\* After a change the thread that made it is on its way to publish it.
LEMMA ChangeBusStep ==
    ASSUME TypeOK, NEW t \in Threads,
           \/ InsertStore(t) \/ ReplaceStore(t) \/ CloseAllBegin(t)
           \/ \E id \in PinId : CloseBegin(t, id)
    PROVE  BusInv'
<1>1. call \in [Threads -> Frame]
  BY DEF TypeOK
<1>2. call'[t].at \in {"unlink", "publish"}
  BY <1>1 DEF InsertStore, ReplaceStore, CloseAllBegin, CloseBegin, Idle
<1>3. \A s \in Sessions : Pending(s)'
  BY <1>2 DEF Pending
<1> QED
  BY <1>3 DEF BusInv

\* Threads move on without forgetting to publish.
LEMMA ThreadBusStep ==
    ASSUME BusInv, TypeOK, NEW t \in Threads,
           \/ \E ok \in BOOLEAN : InsertBegin(t, ok) \/ ReplaceEncode(t, ok)
           \/ (\E id \in PinId : TransformBegin(t, id)) \/ Unlinks(t)
           \/ ReplaceMiss(t) \/ Discards(t)
           \/ PublishCheck(t) \/ PublishList(t)
    PROVE  BusInv'
<1>1. call \in [Threads -> Frame] /\ call[t] \in Frame
  BY DEF TypeOK
<1>2. /\ UNCHANGED <<pins, inbox, lagged, forwarder, informed>>
      /\ \A u \in Threads \ {t} : call'[u] = call[u]
  BY <1>1
  DEF InsertBegin, ReplaceEncode, TransformBegin, Unlinks, Unlink, ReplaceMiss,
      Discards, ReplaceDiscard, PublishCheck, PublishList, busVars
<1>3. UNCHANGED List
  BY <1>2 DEF List
<1>4. \/ call[t].at \notin {"unlink", "publish", "list", "send"}
      \/ call'[t].at \in {"unlink", "publish", "list"}
      \/ call'[t].at = "send" /\ call'[t].snapshot = List
  <2>1. CASE \E ok \in BOOLEAN : InsertBegin(t, ok) \/ ReplaceEncode(t, ok)
    BY <2>1 DEF InsertBegin, ReplaceEncode
  <2>2. CASE \E id \in PinId : TransformBegin(t, id)
    BY <2>2 DEF TransformBegin
  <2>3. CASE Unlinks(t)
    <3>1. PICK id \in PinId, ok \in BOOLEAN : Unlink(t, id, ok)
      BY <2>3 DEF Unlinks
    <3>2. call'[t].at = IF call[t].removed \ {id} = {} THEN "publish"
                                                     ELSE "unlink"
      BY <1>1, <3>1 DEF Unlinks, Unlink, Frame
    <3> QED
      BY <3>2
  <2>4. CASE ReplaceMiss(t) \/ Discards(t)
    BY <2>4 DEF ReplaceMiss, Discards, ReplaceDiscard
  <2>5. CASE PublishCheck(t)
    BY <1>1, <2>5 DEF PublishCheck, Frame
  <2>6. CASE PublishList(t)
    BY <1>1, <2>6 DEF PublishList, Frame
  <2> QED
    BY <2>1, <2>2, <2>3, <2>4, <2>5, <2>6
<1> QED
  BY <1>2, <1>3, <1>4 DEF BusInv, Pending

\* Nobody to publish to: no session is subscribed.
LEMMA SkipBusStep ==
    ASSUME BusInv, NEW t \in Threads, PublishSkip(t)
    PROVE  BusInv'
BY DEF PublishSkip, Subscribed, busVars, BusInv

\* A message is appended; the oldest one goes only with a lag.
LEMMA EnqueueFacts ==
    ASSUME NEW queue \in Seq(Listing), NEW message \in Listing
    PROVE  /\ \E i \in DOMAIN Enqueue(queue, message) :
                  Enqueue(queue, message)[i] = message
           /\ Len(queue) # Capacity =>
                  \A i \in DOMAIN queue :
                      /\ i \in DOMAIN Enqueue(queue, message)
                      /\ Enqueue(queue, message)[i] = queue[i]
<1>1. CASE Len(queue) # Capacity
  <2>1. Enqueue(queue, message) = Append(queue, message)
    BY <1>1 DEF Enqueue
  <2>2. /\ Len(queue) + 1 \in DOMAIN Append(queue, message)
        /\ Append(queue, message)[Len(queue) + 1] = message
    OBVIOUS
  <2> QED
    BY <2>1, <2>2
<1>2. CASE Len(queue) = Capacity
  <2> DEFINE rest == Tail(queue)
  <2>1. rest \in Seq(Listing) /\ Enqueue(queue, message) = Append(rest, message)
    <3>1. queue # << >>
      BY <1>2, RegistryAssumption
    <3> QED
      BY <1>2, <3>1 DEF Enqueue
  <2> HIDE DEF rest
  <2>2. /\ Len(rest) + 1 \in DOMAIN Append(rest, message)
        /\ Append(rest, message)[Len(rest) + 1] = message
    BY <2>1
  <2> QED
    BY <1>2, <2>1, <2>2
<1> QED
  BY <1>1, <1>2

(* A message that is sent is pending for every subscriber, or leaves it a
   lag. *)
LEMMA SendBusStep ==
    ASSUME BusInv, TypeOK, NEW t \in Threads, PublishSend(t)
    PROVE  BusInv'
<1>1. /\ call \in [Threads -> Frame] /\ call[t] \in Frame
      /\ call[t].snapshot \in Listing /\ call[t].at = "send"
  BY DEF PublishSend, TypeOK, Frame
<1>2. /\ UNCHANGED <<forwarder, informed, List>>
      /\ \A u \in Threads \ {t} : call'[u] = call[u]
  BY <1>1 DEF PublishSend, List
<1> SUFFICES ASSUME NEW s \in Sessions, forwarder[s] # "off", ~informed[s]
             PROVE  Pending(s)'
  BY <1>2 DEF BusInv
<1>3. /\ inbox[s] \in Seq(Listing)
      /\ inbox'[s] = Enqueue(inbox[s], call[t].snapshot)
      /\ lagged'[s] = (lagged[s] \/ Len(inbox[s]) = Capacity)
  BY DEF PublishSend, Subscribed, TypeOK
<1>4. Pending(s)
  BY DEF BusInv
<1>5. CASE Len(inbox[s]) = Capacity \/ lagged[s]
  BY <1>3, <1>5 DEF Pending
<1>6. CASE forwarder[s] \in {"open", "resend"}
  BY <1>2, <1>6 DEF Pending
<1>7. CASE \E i \in DOMAIN inbox[s] :
              inbox[s][i] = List /\ Len(inbox[s]) # Capacity
  BY <1>1, <1>2, <1>3, <1>7, EnqueueFacts DEF Pending
<1>8. CASE \E u \in Threads :
              \/ call[u].at \in {"unlink", "publish", "list"}
              \/ call[u].at = "send" /\ call[u].snapshot = List
  <2>1. PICK u \in Threads :
            \/ call[u].at \in {"unlink", "publish", "list"}
            \/ call[u].at = "send" /\ call[u].snapshot = List
    BY <1>8
  <2>2. CASE u = t
    BY <1>1, <1>2, <1>3, <2>1, <2>2, EnqueueFacts DEF Pending
  <2>3. CASE u # t
    BY <1>2, <2>1, <2>3 DEF Pending
  <2> QED
    BY <2>2, <2>3
<1> QED
  BY <1>4, <1>5, <1>6, <1>7, <1>8 DEF Pending

(* A forwarder that takes a message or a lag shows its session what it
   took. *)
LEMMA ForwarderBusStep ==
    ASSUME BusInv, TypeOK, NEW r \in Sessions,
           Subscribe(r) \/ Forward(r) \/ Unsubscribe(r)
    PROVE  BusInv'
<1>1. UNCHANGED <<call, List>>
  BY DEF Subscribe, Forward, SendSnapshot, Receive, ReceiveLagged, Unsubscribe,
         registryVars, List
<1> SUFFICES ASSUME NEW s \in Sessions, forwarder'[s] # "off", ~informed'[s]
             PROVE  Pending(s)'
  BY DEF BusInv
<1>2. CASE s # r
  <2>1. /\ forwarder'[s] = forwarder[s] /\ informed'[s] = informed[s]
        /\ inbox'[s] = inbox[s] /\ lagged'[s] = lagged[s]
    BY <1>2
    DEF Subscribe, Forward, SendSnapshot, Receive, ReceiveLagged, Unsubscribe,
        Show, TypeOK
  <2> QED
    BY <1>1, <2>1 DEF BusInv, Pending
<1>3. CASE s = r
  <2>1. CASE Subscribe(r) \/ ReceiveLagged(r)
    BY <1>3, <2>1 DEF Subscribe, ReceiveLagged, Pending, TypeOK
  <2>2. CASE SendSnapshot(r)
    BY <1>3, <2>2 DEF SendSnapshot, Show, TypeOK
  <2>3. CASE Receive(r)
    <3>1. /\ inbox[s] \in Seq(Listing) /\ inbox[s] # << >>
          /\ inbox'[s] = Tail(inbox[s])
          /\ UNCHANGED <<lagged, forwarder>>
      BY <1>3, <2>3 DEF Receive, TypeOK
    <3>2. ~informed[s] /\ Head(inbox[s]) # List
      BY <1>3, <2>3 DEF Receive, Show, TypeOK
    <3>3. ASSUME NEW i \in DOMAIN inbox[s], inbox[s][i] = List
          PROVE  \E j \in DOMAIN inbox'[s] : inbox'[s][j] = List
      <4>1. i # 1 /\ i \in 1 .. Len(inbox[s])
        BY <3>1, <3>2, <3>3
      <4>2. i - 1 \in DOMAIN Tail(inbox[s]) /\ Tail(inbox[s])[i - 1] = inbox[s][i]
        BY <3>1, <4>1
      <4> QED
        BY <3>1, <3>3, <4>2
    <3> QED
      BY <1>1, <3>1, <3>2, <3>3 DEF BusInv, Pending
  <2>4. CASE Unsubscribe(r)
    BY <1>3, <2>4 DEF Unsubscribe, TypeOK
  <2> QED
    BY <2>1, <2>2, <2>3, <2>4 DEF Forward
<1> QED
  BY <1>2, <1>3

(* Every step keeps a session informed, or something on its way to it. *)
LEMMA StepBusInv == BusInv /\ TypeOK /\ [Next]_vars => BusInv'
<1> SUFFICES ASSUME BusInv, TypeOK, [Next]_vars PROVE BusInv'
  OBVIOUS
<1>1. ASSUME NEW t \in Threads, Begin(t) PROVE BusInv'
  BY <1>1, ThreadBusStep, ChangeBusStep DEF Begin
<1>2. ASSUME NEW t \in Threads, Proceed(t) PROVE BusInv'
  BY <1>2, ThreadBusStep, ChangeBusStep, SkipBusStep, SendBusStep
  DEF Proceed, Unlinks, Discards
<1>3. ASSUME UNCHANGED vars PROVE BusInv'
  BY <1>3 DEF vars, BusInv, Pending, List
<1> QED
  BY <1>1, <1>2, <1>3, ForwarderBusStep DEF Next

\* registry.rs:13-15, server.rs:306-307: subscribing before the opening
\* snapshot, publishing after every change and listing again after a lag
\* together leave no subscribed session uninformed once all is quiet.
THEOREM NothingIsLost == Spec => []QuietImpliesInformed
<1>1. Init => BusInv
  BY DEF Init, BusInv
<1>2. BusInv => QuietImpliesInformed
  BY DEF BusInv, Pending, QuietImpliesInformed, Quiet
<1> QED
  BY <1>1, <1>2, StepBusInv, TypeCorrect, PTL DEF Spec

-----------------------------------------------------------------------------
(* What a preview shows *)

\* A thumbnail that was written for the next pixels shows them already.
Encoded ==
    \A t \in Threads :
        call[t].at = "replace" /\ call[t].id \in DOMAIN pins
            /\ call[t].id \notin spoiled =>
                /\ call[t].id \in DOMAIN disk
                /\ disk[call[t].id] >= call[t].image

PreviewInv == PreviewCurrent /\ Encoded

\* Steps after which every live pin has the entry and the file it had.
LEMMA FilesOfLivePinsStay ==
    ASSUME IInv, PreviewInv,
           \A id \in DOMAIN pins' :
               /\ id \in DOMAIN pins /\ pins'[id] = pins[id]
               /\ id \in DOMAIN disk =>
                      id \in DOMAIN disk' /\ disk'[id] = disk[id]
               /\ id \notin spoiled' => id \notin spoiled,
           \A t \in Threads : call'[t].at = "replace" =>
               /\ call[t].at = "replace" /\ call'[t].id = call[t].id
               /\ call'[t].image = call[t].image
    PROVE  PreviewInv'
<1>1. PreviewCurrent'
  BY DEF PreviewInv, PreviewCurrent, IInv, PreviewExists
<1>2. Encoded'
  BY DEF PreviewInv, Encoded
<1> QED BY <1>1, <1>2 DEF PreviewInv

\* A new thumbnail shows what is about to be stored.
LEMMA EncodePreviewStep ==
    ASSUME IInv, PreviewInv, NEW t \in Threads, NEW ok \in BOOLEAN,
           ReplaceEncode(t, ok)
    PROVE  PreviewInv'
<1> DEFINE id == call[t].id
           version == call[t].image
<1>1. /\ call[t].at = "encode" /\ call[t] \in Frame
      /\ version \in Nat /\ id \in PinId
      /\ id \in DOMAIN pins =>
             /\ version = pins[id].revision + 1
             /\ pins[id].revision \in Nat
  BY Types, RegistryAssumption
  DEF ReplaceEncode, IInv, Minted, HasId, Composed, NoLostTransform, Frame,
      PinEntry, Version
<1>2. /\ call'[t].id = id /\ call'[t].image = version
      /\ \A u \in Threads \ {t} : call'[u] = call[u]
      /\ UNCHANGED pins
  BY <1>1, Types DEF ReplaceEncode, Frame
<1>3. \A u \in Threads \ {t} : call[u].at = "replace" => FALSE
  BY <1>1 DEF IInv, Composed
<1>4. CASE ok
  <2>1. /\ DOMAIN disk' = DOMAIN disk \cup {id} /\ disk'[id] = version
        /\ \A x \in DOMAIN disk : x # id => disk'[x] = disk[x]
        /\ spoiled' = spoiled \ {id}
    BY <1>4 DEF ReplaceEncode, WriteThumbnail, Put
  <2>2. PreviewCurrent'
    BY <1>1, <1>2, <2>1 DEF PreviewInv, PreviewCurrent, IInv, PreviewExists
  <2>3. Encoded'
    BY <1>1, <1>2, <1>3, <2>1 DEF Encoded
  <2> QED BY <2>2, <2>3 DEF PreviewInv
<1>5. CASE ~ok
  <2>1. UNCHANGED disk /\ spoiled' = spoiled \cup {id}
    BY <1>5 DEF ReplaceEncode, WriteThumbnail
  <2>2. PreviewCurrent'
    BY <1>2, <2>1 DEF PreviewInv, PreviewCurrent
  <2>3. Encoded'
    BY <1>2, <1>3, <2>1 DEF Encoded
  <2> QED BY <2>2, <2>3 DEF PreviewInv
<1> QED BY <1>4, <1>5

\* The pin catches up with its thumbnail.
LEMMA ReplacePreviewStep ==
    ASSUME IInv, PreviewInv, NEW t \in Threads, ReplaceStore(t)
    PROVE  PreviewInv'
<1> DEFINE id == call[t].id
<1>1. /\ call[t].at = "replace" /\ id \in DOMAIN pins
      /\ call[t].image = pins[id].revision + 1
      /\ pins[id] \in PinEntry /\ call[t] \in Frame
      /\ \A u \in Threads \ {t} : call[u].at # "replace"
  BY Types DEF ReplaceStore, IInv, Composed, NoLostTransform
<1>2. /\ call'[t].at = "publish"
      /\ \A u \in Threads \ {t} : call'[u] = call[u]
      /\ UNCHANGED <<disk, spoiled>>
  BY Types DEF ReplaceStore, Idle
<1>3. /\ DOMAIN pins' = DOMAIN pins
      /\ pins'[id].revision = pins[id].revision + 1
      /\ \A x \in DOMAIN pins \ {id} : pins'[x] = pins[x]
  BY <1>1 DEF ReplaceStore, Store, Replaced
<1>4. id \notin spoiled => disk[id] >= call[t].image
  BY <1>1 DEF PreviewInv, Encoded
<1>5. PreviewCurrent'
  BY <1>1, <1>2, <1>3, <1>4 DEF PreviewInv, PreviewCurrent
<1>6. Encoded'
  BY <1>1, <1>2 DEF Encoded
<1> QED BY <1>5, <1>6 DEF PreviewInv

\* Nobody is transforming a pin that is only now stored.
LEMMA InsertPreviewStep ==
    ASSUME IInv, PreviewInv, NEW t \in Threads, InsertStore(t)
    PROVE  PreviewInv'
<1> DEFINE id == call[t].id
<1>1. /\ call[t].at = "insert" /\ id \notin DOMAIN pins
      /\ call[t].thumbnail => id \in DOMAIN disk /\ disk[id] \in Nat
      /\ \A u \in Threads : call[u].at = "replace" => call[u].id # id
  BY Types, RegistryAssumption
  DEF InsertStore, IInv, Fresh, HasId, FileReady, Version
<1>2. /\ call'[t].at = "publish"
      /\ \A u \in Threads \ {t} : call'[u] = call[u]
      /\ UNCHANGED <<disk, spoiled>>
  BY Types DEF InsertStore, Idle
<1>3. /\ DOMAIN pins' = DOMAIN pins \cup {id}
      /\ pins'[id].revision = 0 /\ pins'[id].thumbnail = call[t].thumbnail
      /\ \A x \in DOMAIN pins : pins'[x] = pins[x]
  BY <1>1 DEF InsertStore, Store, Put
<1>4. PreviewCurrent'
  BY <1>1, <1>2, <1>3 DEF PreviewInv, PreviewCurrent
<1>5. Encoded'
  BY <1>1, <1>2, <1>3 DEF PreviewInv, Encoded
<1> QED BY <1>4, <1>5 DEF PreviewInv

\* A pin that begins has a file of its own; a pin that ends takes its file
\* along.
LEMMA BeginPreviewStep ==
    ASSUME IInv, PreviewInv, NEW t \in Threads, Begin(t)
    PROVE  PreviewInv'
<1>1. ASSUME NEW ok \in BOOLEAN, InsertBegin(t, ok)
      PROVE  PreviewInv'
  <2>1. nextId \notin DOMAIN pins /\ UNCHANGED pins
    BY <1>1, Types DEF InsertBegin, IInv, Minted
  <2>2. call'[t].at = "insert" /\ \A u \in Threads \ {t} : call'[u] = call[u]
    BY <1>1, Types DEF InsertBegin, Idle
  <2>3. \A id \in DOMAIN pins :
            /\ id \in DOMAIN disk => id \in DOMAIN disk' /\ disk'[id] = disk[id]
            /\ id \notin spoiled' => id \notin spoiled
    BY <1>1, <2>1 DEF InsertBegin, WriteThumbnail, Put
  <2> QED BY <2>1, <2>2, <2>3, FilesOfLivePinsStay
<1>2. ASSUME CloseAllBegin(t) \/ \E id \in PinId : CloseBegin(t, id)
      PROVE  PreviewInv'
  <2>1. /\ UNCHANGED <<disk, spoiled>>
        /\ call'[t].at = "unlink" /\ \A u \in Threads \ {t} : call'[u] = call[u]
    BY <1>2, Types DEF CloseAllBegin, CloseBegin, Idle
  <2>2. \A id \in DOMAIN pins' : id \in DOMAIN pins /\ pins'[id] = pins[id]
    <3>1. CASE CloseAllBegin(t)
      BY <3>1, EmptyMapDomain DEF CloseAllBegin, Store
    <3>2. CASE \E id \in PinId : CloseBegin(t, id)
      BY <3>2 DEF CloseBegin, Store, Without, Restrict
    <3> QED BY <1>2, <3>1, <3>2
  <2> QED BY <2>1, <2>2, FilesOfLivePinsStay
<1>3. ASSUME NEW id \in PinId, TransformBegin(t, id)
      PROVE  PreviewInv'
  <2>1. /\ UNCHANGED <<pins, disk, spoiled>>
        /\ call'[t].at = "encode" /\ \A u \in Threads \ {t} : call'[u] = call[u]
    BY <1>3, Types DEF TransformBegin, Idle
  <2> QED BY <2>1, FilesOfLivePinsStay
<1> QED BY <1>1, <1>2, <1>3 DEF Begin

\* Files go only when their pin is gone.
LEMMA RemovePreviewStep ==
    ASSUME IInv, PreviewInv, NEW t \in Threads,
           Discards(t) \/ Unlinks(t)
    PROVE  PreviewInv'
<1>1. PICK id : /\ id \notin DOMAIN pins
                /\ disk' = Without(disk, {id}) \/ UNCHANGED disk
  BY DEF Discards, ReplaceDiscard, Unlinks, Unlink, RemoveThumbnail, IInv, Gone
<1>2. /\ UNCHANGED <<pins, spoiled>>
      /\ call'[t].at # "replace" /\ \A u \in Threads \ {t} : call'[u] = call[u]
  <2>1. CASE Discards(t)
    BY <2>1, Types DEF Discards, ReplaceDiscard, RemoveThumbnail, Idle
  <2>2. CASE Unlinks(t)
    BY <2>2, Types DEF Unlinks, Unlink, RemoveThumbnail, Frame
  <2> QED BY <2>1, <2>2
<1>3. \A x \in DOMAIN pins :
          x \in DOMAIN disk => x \in DOMAIN disk' /\ disk'[x] = disk[x]
  BY <1>1 DEF Without, Restrict
<1> QED BY <1>2, <1>3, FilesOfLivePinsStay

(* Every step keeps the previews current, except for pins whose writes
   failed. *)
LEMMA StepPreviewInv == IInv /\ PreviewInv /\ [Next]_vars => PreviewInv'
<1> SUFFICES ASSUME IInv, PreviewInv, [Next]_vars PROVE PreviewInv'
  OBVIOUS
<1>1. ASSUME NEW t \in Threads,
             ReplaceMiss(t) \/ PublishSkip(t) \/ PublishCheck(t)
                 \/ PublishList(t) \/ PublishSend(t)
      PROVE  PreviewInv'
  <2>1. /\ UNCHANGED <<pins, disk, spoiled>>
        /\ \A u \in Threads \ {t} : call'[u] = call[u]
    BY <1>1, Types
    DEF ReplaceMiss, PublishSkip, PublishCheck, PublishList, PublishSend
  <2>2. call'[t].at # "replace"
    BY <1>1, Types
    DEF ReplaceMiss, PublishSkip, PublishCheck, PublishList, PublishSend, Idle,
        Frame
  <2> QED BY <2>1, <2>2, FilesOfLivePinsStay
<1>2. ASSUME NEW t \in Threads, Proceed(t)
      PROVE  PreviewInv'
  BY <1>1, <1>2, InsertPreviewStep, EncodePreviewStep, ReplacePreviewStep,
     RemovePreviewStep
  DEF Proceed, Unlinks, Discards
<1>3. ASSUME UNCHANGED registryVars
      PROVE  PreviewInv'
  BY <1>3, FilesOfLivePinsStay DEF registryVars
<1>4. ASSUME NEW s \in Sessions, Subscribe(s) \/ Forward(s) \/ Unsubscribe(s)
      PROVE  UNCHANGED registryVars
  BY <1>4 DEF Subscribe, Forward, SendSnapshot, Receive, ReceiveLagged,
              Unsubscribe
<1>5. UNCHANGED vars => UNCHANGED registryVars
  BY DEF vars, registryVars
<1> QED BY <1>2, <1>3, <1>4, <1>5, BeginPreviewStep DEF Next

(* Previews are current in every reachable state. *)
LEMMA PreviewInvariance == Spec => []PreviewInv
<1>1. Init => PreviewInv
  BY EmptyMapDomain DEF Init, PreviewInv, PreviewCurrent, Encoded
<1> QED BY <1>1, StepPreviewInv, Invariance, PTL DEF Spec

\* registry.rs:55-57: however transforms, closes and failed writes interleave,
\* a preview shows its pin's revision or a later one.
THEOREM PreviewsAreCurrent == Spec => []PreviewCurrent
BY PreviewInvariance, PTL DEF PreviewInv

-----------------------------------------------------------------------------
(* What a listing tells *)

\* The listing tells of pins as they were once: of none that is yet to be
\* stored, of no preview that a live pin has not, of no later revision.
Past(listing) ==
    \A id \in DOMAIN listing :
        /\ id < nextId
        /\ \A t \in Threads : call[t].at = "insert" => call[t].id # id
        /\ id \in DOMAIN pins =>
               /\ listing[id].thumbnail => pins[id].thumbnail
               /\ listing[id].revision <= pins[id].revision

ListingsArePast == \A listing \in InFlight : Past(listing)

\* The pins as they are were so just now; no pins tell of nothing.
LEMMA NewListings ==
    ASSUME IInv
    PROVE  Past(List) /\ Past(EmptyMap)
<1>1. Past(List)
  BY Types, RegistryAssumption
  DEF Past, List, IInv, Minted, Fresh, PinEntry, Version
<1>2. Past(EmptyMap)
  BY EmptyMapDomain DEF Past
<1> QED BY <1>1, <1>2

\* In a step a pin keeps its preview and its revision never goes back; a pin is
\* stored by the thread that minted its id; an id that is minted is the next.
LEMMA PinsGrowOlder ==
    ASSUME IInv, NEW t \in Threads, Begin(t) \/ Proceed(t)
    PROVE  /\ nextId' >= nextId
           /\ \A id \in DOMAIN pins' :
                  \/ /\ id \in DOMAIN pins
                     /\ pins[id].thumbnail => pins'[id].thumbnail
                     /\ pins'[id].revision >= pins[id].revision
                  \/ call[t].at = "insert" /\ call[t].id = id
           /\ \A u \in Threads : call'[u].at = "insert" =>
                  \/ call[u].at = "insert" /\ call'[u].id = call[u].id
                  \/ call'[u].id = nextId
<1> DEFINE Older ==
        \A id \in DOMAIN pins' :
            \/ /\ id \in DOMAIN pins
               /\ pins[id].thumbnail => pins'[id].thumbnail
               /\ pins'[id].revision >= pins[id].revision
            \/ call[t].at = "insert" /\ call[t].id = id
           MintsNext ==
        \A u \in Threads : call'[u].at = "insert" =>
            \/ call[u].at = "insert" /\ call'[u].id = call[u].id
            \/ call'[u].id = nextId
<1>1. \A id \in DOMAIN pins : pins[id].revision \in Nat /\ pins[id].thumbnail \in BOOLEAN
  BY Types, RegistryAssumption DEF PinEntry, Version
<1>2. nextId \in Nat
  BY Types
<1>3. ASSUME NEW ok \in BOOLEAN, InsertBegin(t, ok)
      PROVE  nextId' >= nextId /\ Older /\ MintsNext
  <2>1. nextId' = nextId + 1 /\ UNCHANGED pins
    BY <1>3 DEF InsertBegin
  <2>2. call'[t].id = nextId /\ \A u \in Threads \ {t} : call'[u] = call[u]
    BY <1>3, Types DEF InsertBegin, Idle
  <2> QED BY <1>1, <1>2, <2>1, <2>2
<1>4. CASE InsertStore(t)
  <2>1. /\ UNCHANGED nextId /\ call[t].at = "insert"
        /\ pins' = Put(pins, call[t].id, [image |-> 0, revision |-> 0,
                                          thumbnail |-> call[t].thumbnail])
    BY <1>4 DEF InsertStore, Store
  <2>2. /\ call'[t].at # "insert"
        /\ \A u \in Threads \ {t} : call'[u] = call[u]
    BY <1>4, Types DEF InsertStore, Idle
  <2>3. \A id \in DOMAIN pins' :
            \/ id = call[t].id
            \/ id \in DOMAIN pins /\ pins'[id] = pins[id]
    BY <2>1 DEF Put
  <2> QED BY <1>1, <1>2, <2>1, <2>2, <2>3
<1>5. CASE CloseAllBegin(t) \/ \E id \in PinId : CloseBegin(t, id)
  <2>1. UNCHANGED nextId
    BY <1>5 DEF CloseAllBegin, CloseBegin
  <2>2. /\ call'[t].at # "insert"
        /\ \A u \in Threads \ {t} : call'[u] = call[u]
    BY <1>5, Types DEF CloseAllBegin, CloseBegin, Idle
  <2>3. CASE CloseAllBegin(t)
    BY <1>2, <2>1, <2>2, <2>3, EmptyMapDomain DEF CloseAllBegin, Store
  <2>4. CASE \E id \in PinId : CloseBegin(t, id)
    <3>1. \A id \in DOMAIN pins' : id \in DOMAIN pins /\ pins'[id] = pins[id]
      BY <2>4 DEF CloseBegin, Store, Without, Restrict
    <3> QED BY <1>1, <1>2, <2>1, <2>2, <3>1
  <2> QED BY <1>5, <2>3, <2>4
<1>6. CASE ReplaceStore(t)
  <2> DEFINE id == call[t].id
  <2>1. UNCHANGED nextId /\ id \in DOMAIN pins
    BY <1>6 DEF ReplaceStore
  <2>2. /\ call'[t].at # "insert"
        /\ \A u \in Threads \ {t} : call'[u] = call[u]
    BY <1>6, Types DEF ReplaceStore, Idle
  <2>3. /\ DOMAIN pins' = DOMAIN pins
        /\ pins'[id].revision = pins[id].revision + 1
        /\ pins'[id].thumbnail = (call[t].thumbnail \/ pins[id].thumbnail)
        /\ \A x \in DOMAIN pins \ {id} : pins'[x] = pins[x]
    BY <1>6, <2>1 DEF ReplaceStore, Store, Replaced
  <2>4. Older
    BY <1>1, <2>1, <2>3
  <2> QED BY <1>2, <2>1, <2>2, <2>4
<1>7. CASE \/ (\E id \in PinId : TransformBegin(t, id)) \/ Unlinks(t)
           \/ \E ok \in BOOLEAN : ReplaceEncode(t, ok)
           \/ ReplaceMiss(t) \/ Discards(t)
           \/ PublishSkip(t) \/ PublishCheck(t)
           \/ PublishList(t) \/ PublishSend(t)
  <2>1. UNCHANGED <<pins, nextId>>
    BY <1>7 DEF TransformBegin, Unlinks, Unlink, ReplaceEncode, ReplaceMiss,
       Discards, ReplaceDiscard, PublishSkip, PublishCheck, PublishList,
       PublishSend
  <2>2. \A u \in Threads \ {t} : call'[u] = call[u]
    BY <1>7, Types DEF TransformBegin, Unlinks, Unlink, ReplaceEncode, ReplaceMiss,
       Discards, ReplaceDiscard, PublishSkip, PublishCheck, PublishList,
       PublishSend
  <2>3. call[t] \in Frame /\ call \in [Threads -> Frame]
    BY Types
  <2>4. call'[t].at # "insert"
    <3>1. CASE (\E id \in PinId : TransformBegin(t, id)) \/ Unlinks(t)
      <4>1. CASE \E id \in PinId : TransformBegin(t, id)
        BY <2>3, <4>1 DEF TransformBegin, Idle
      <4>2. CASE Unlinks(t)
        BY <2>3, <4>2 DEF Unlinks, Unlink, Frame
      <4> QED BY <3>1, <4>1, <4>2
    <3>2. CASE \/ \E ok \in BOOLEAN : ReplaceEncode(t, ok)
               \/ ReplaceMiss(t) \/ Discards(t)
      BY <2>3, <3>2 DEF ReplaceEncode, ReplaceMiss, Discards, ReplaceDiscard, Idle, Frame
    <3>3. CASE PublishSkip(t) \/ PublishCheck(t) \/ PublishList(t)
               \/ PublishSend(t)
      BY <2>3, <3>3 DEF PublishSkip, PublishCheck, PublishList, PublishSend,
         Idle, Frame
    <3> QED BY <1>7, <3>1, <3>2, <3>3
  <2> QED BY <1>1, <1>2, <2>1, <2>2, <2>4
<1>8. nextId' >= nextId /\ Older /\ MintsNext
  BY <1>3, <1>4, <1>5, <1>6, <1>7 DEF Begin, Proceed, Unlinks, Discards
<1> QED BY <1>8

\* What is past stays past.
LEMMA PastStaysPast ==
    ASSUME IInv, [Next]_vars, NEW listing, listing \in Listing, Past(listing)
    PROVE  Past(listing)'
<1>1. \A id \in DOMAIN listing : id \in Nat /\ listing[id].revision \in Nat
  BY RegistryAssumption DEF Listing, PinSummary, PinId, Version
<1>2. CASE UNCHANGED <<nextId, pins, call>>
  BY <1>2 DEF Past
<1>3. ASSUME NEW t \in Threads, Begin(t) \/ Proceed(t)
      PROVE  Past(listing)'
  <2>1. /\ nextId \in Nat /\ nextId' \in Nat
        /\ \A id \in DOMAIN pins : pins[id].revision \in Nat
        /\ \A id \in DOMAIN pins' : pins'[id].revision \in Nat
    <3>1. IInv'
      BY StepIInv
    <3> QED BY <3>1, Types, RegistryAssumption
            DEF IInv, TypeOK, PinEntry, Version
  <2> SUFFICES ASSUME NEW id \in DOMAIN listing
               PROVE  /\ id < nextId'
                      /\ \A u \in Threads :
                             call'[u].at = "insert" => call'[u].id # id
                      /\ id \in DOMAIN pins' =>
                             /\ listing[id].thumbnail => pins'[id].thumbnail
                             /\ listing[id].revision <= pins'[id].revision
    BY DEF Past
  <2>2. /\ id < nextId
        /\ \A u \in Threads : call[u].at = "insert" => call[u].id # id
        /\ id \in DOMAIN pins =>
               /\ listing[id].thumbnail => pins[id].thumbnail
               /\ listing[id].revision <= pins[id].revision
    BY DEF Past
  <2>3. id < nextId'
    BY <1>1, <1>3, <2>1, <2>2, PinsGrowOlder
  <2>4. \A u \in Threads : call'[u].at = "insert" => call'[u].id # id
    BY <1>1, <1>3, <2>1, <2>2, PinsGrowOlder
  <2>5. id \in DOMAIN pins' =>
            /\ listing[id].thumbnail => pins'[id].thumbnail
            /\ listing[id].revision <= pins'[id].revision
    BY <1>1, <1>3, <2>1, <2>2, PinsGrowOlder
  <2> QED BY <2>3, <2>4, <2>5
<1>4. ASSUME NEW s \in Sessions, Subscribe(s) \/ Forward(s) \/ Unsubscribe(s)
      PROVE  UNCHANGED <<nextId, pins, call>>
  BY <1>4 DEF Subscribe, Forward, SendSnapshot, Receive, ReceiveLagged,
              Unsubscribe, registryVars
<1>5. UNCHANGED vars => UNCHANGED <<nextId, pins, call>>
  BY DEF vars
<1> QED BY <1>2, <1>3, <1>4, <1>5 DEF Next

\* Every listing that is under way is one.
LEMMA InFlightType ==
    ASSUME IInv, NEW listing \in InFlight
    PROVE  listing \in Listing
<1>1. \A s \in Sessions : \A i \in DOMAIN inbox[s] : inbox[s][i] \in Listing
  BY DEF IInv, TypeOK
<1>2. \A s \in Sessions : shown[s] \in Listing
  BY DEF IInv, TypeOK
<1>3. \A t \in Threads : call[t].snapshot \in Listing
  BY Types DEF Frame
<1> QED BY <1>1, <1>2, <1>3 DEF InFlight

\* What a queue holds after a message was sent is the message or was in it.
LEMMA EnqueueContents ==
    ASSUME NEW queue \in Seq(Listing), NEW message \in Listing,
           NEW i \in DOMAIN Enqueue(queue, message)
    PROVE  \/ Enqueue(queue, message)[i] = message
           \/ \E j \in DOMAIN queue : Enqueue(queue, message)[i] = queue[j]
<1>1. CASE Len(queue) # Capacity
  BY <1>1 DEF Enqueue
<1>2. CASE Len(queue) = Capacity
  <2> DEFINE rest == Tail(queue)
  <2>1. queue # << >>
    BY <1>2, RegistryAssumption
  <2>2. /\ rest \in Seq(Listing) /\ Enqueue(queue, message) = Append(rest, message)
        /\ \A k \in DOMAIN rest : k + 1 \in DOMAIN queue /\ rest[k] = queue[k + 1]
    BY <1>2, <2>1 DEF Enqueue
  <2> HIDE DEF rest
  <2>3. i \in DOMAIN rest \/ Append(rest, message)[i] = message
    BY <2>2
  <2>4. i \in DOMAIN rest => Append(rest, message)[i] = rest[i]
    BY <2>2
  <2> QED BY <2>2, <2>3, <2>4
<1> QED BY <1>1, <1>2

\* A listing that is under way was so before, or has just been made.
LEMMA NothingElseIsInFlight ==
    ASSUME IInv, [Next]_vars, NEW listing \in InFlight'
    PROVE  listing \in InFlight \cup {List, EmptyMap}
<1> DEFINE Old == InFlight \cup {List, EmptyMap}
<1>1. /\ \A u \in Threads : call[u].snapshot \in Old
      /\ \A s \in Sessions : shown[s] \in Old
      /\ \A s \in Sessions : \A i \in DOMAIN inbox[s] : inbox[s][i] \in Old
  BY DEF InFlight
<1>2. \A u \in Threads : call'[u].snapshot \in Old
  <2>1. CASE UNCHANGED call
    BY <1>1, <2>1
  <2>2. ASSUME NEW t \in Threads, Begin(t)
        PROVE  call'[t].snapshot \in Old
               /\ \A u \in Threads \ {t} : call'[u] = call[u]
    BY <2>2, Types DEF Begin, InsertBegin, CloseAllBegin, CloseBegin,
       TransformBegin, Idle
  <2>3. ASSUME NEW t \in Threads, Proceed(t)
        PROVE  call'[t].snapshot \in Old
               /\ \A u \in Threads \ {t} : call'[u] = call[u]
    <3>1. \A u \in Threads \ {t} : call'[u] = call[u]
      BY <2>3, Types DEF Proceed, InsertStore, Unlinks, Unlink, ReplaceEncode,
         ReplaceStore, ReplaceMiss, Discards, ReplaceDiscard, PublishSkip,
         PublishCheck,
         PublishList, PublishSend
    <3>2. CASE InsertStore(t) \/ ReplaceStore(t) \/ Discards(t)
               \/ PublishSkip(t) \/ PublishSend(t)
      BY <3>1, <3>2, Types DEF InsertStore, ReplaceStore, Discards, ReplaceDiscard,
         PublishSkip, PublishSend, Idle
    <3>3. CASE Unlinks(t)
      <4>1. call'[t].snapshot = call[t].snapshot
        BY <3>3, Types DEF Unlinks, Unlink, Frame
      <4> QED BY <1>1, <3>1, <4>1
    <3>4. CASE \/ \E ok \in BOOLEAN : ReplaceEncode(t, ok)
               \/ ReplaceMiss(t) \/ PublishCheck(t)
      <4>1. call'[t].snapshot = call[t].snapshot
        BY <3>4, Types DEF ReplaceEncode, ReplaceMiss, PublishCheck, Frame
      <4> QED BY <1>1, <3>1, <4>1
    <3>5. CASE PublishList(t)
      <4>1. call'[t].snapshot = List
        BY <3>5, Types DEF PublishList, Frame
      <4> QED BY <3>1, <4>1
    <3> QED BY <2>3, <3>2, <3>3, <3>4, <3>5 DEF Proceed, Unlinks, Discards
  <2>4. ASSUME NEW s \in Sessions, Subscribe(s) \/ Forward(s) \/ Unsubscribe(s)
        PROVE  UNCHANGED call
    BY <2>4 DEF Subscribe, Forward, SendSnapshot, Receive, ReceiveLagged,
                Unsubscribe, registryVars
  <2>5. UNCHANGED vars => UNCHANGED call
    BY DEF vars
  <2> HIDE DEF Old
  <2> QED BY <1>1, <2>1, <2>2, <2>3, <2>4, <2>5 DEF Next
<1>3. /\ \A s \in Sessions : shown'[s] \in Old
      /\ \A s \in Sessions : \A i \in DOMAIN inbox'[s] : inbox'[s][i] \in Old
  <2>1. ASSUME NEW t \in Threads, Begin(t) \/ Proceed(t), ~PublishSend(t)
        PROVE  UNCHANGED <<shown, inbox>>
    BY <2>1 DEF Begin, InsertBegin, CloseAllBegin, CloseBegin, TransformBegin,
       Proceed, InsertStore, Unlinks, Unlink, ReplaceEncode, ReplaceStore,
       ReplaceMiss, Discards, ReplaceDiscard, PublishSkip, PublishCheck, PublishList, busVars
  <2>2. ASSUME NEW t \in Threads, PublishSend(t), NEW s \in Sessions
        PROVE  /\ shown'[s] \in Old
               /\ \A i \in DOMAIN inbox'[s] : inbox'[s][i] \in Old
    <3>1. /\ inbox[s] \in Seq(Listing) /\ call[t].snapshot \in Listing
          /\ UNCHANGED shown
          /\ inbox'[s] = IF s \in Subscribed
                         THEN Enqueue(inbox[s], call[t].snapshot)
                         ELSE inbox[s]
      BY <2>2, Types DEF PublishSend, IInv, TypeOK, Frame
    <3> HIDE DEF Old
    <3> QED BY <1>1, <3>1, EnqueueContents
  <2>3. ASSUME NEW r \in Sessions, Subscribe(r) \/ ReceiveLagged(r)
        PROVE  UNCHANGED <<shown, inbox>>
    BY <2>3 DEF Subscribe, ReceiveLagged
  <2>4. ASSUME NEW r \in Sessions, SendSnapshot(r) \/ Unsubscribe(r),
               NEW s \in Sessions
        PROVE  /\ shown'[s] \in Old
               /\ \A i \in DOMAIN inbox'[s] : inbox'[s][i] \in Old
    <3>1. shown'[s] \in {shown[s], List, EmptyMap}
      BY <2>4 DEF SendSnapshot, Unsubscribe, Show, IInv, TypeOK
    <3>2. inbox'[s] = inbox[s] \/ DOMAIN inbox'[s] = {}
      BY <2>4 DEF SendSnapshot, Unsubscribe, IInv, TypeOK
    <3> QED BY <1>1, <3>1, <3>2
  <2>5. ASSUME NEW r \in Sessions, Receive(r), NEW s \in Sessions
        PROVE  /\ shown'[s] \in Old
               /\ \A i \in DOMAIN inbox'[s] : inbox'[s][i] \in Old
    <3>1. /\ inbox[r] \in Seq(Listing) /\ inbox[r] # << >>
          /\ shown' = [shown EXCEPT ![r] = Head(inbox[r])]
          /\ inbox' = [inbox EXCEPT ![r] = Tail(inbox[r])]
      BY <2>5 DEF Receive, Show, IInv, TypeOK
    <3>2. 1 \in DOMAIN inbox[r] /\ Head(inbox[r]) = inbox[r][1]
      BY <3>1
    <3>3. \A i \in DOMAIN Tail(inbox[r]) :
              i + 1 \in DOMAIN inbox[r] /\ Tail(inbox[r])[i] = inbox[r][i + 1]
      BY <3>1
    <3>4. /\ shown'[s] = IF s = r THEN inbox[r][1] ELSE shown[s]
          /\ inbox'[s] = IF s = r THEN Tail(inbox[r]) ELSE inbox[s]
      BY <3>1, <3>2 DEF IInv, TypeOK
    <3> HIDE DEF Old
    <3> QED BY <1>1, <3>2, <3>3, <3>4
  <2>6. UNCHANGED vars => UNCHANGED <<shown, inbox>>
    BY DEF vars
  <2> HIDE DEF Old
  <2> QED BY <1>1, <2>1, <2>2, <2>3, <2>4, <2>5, <2>6 DEF Next, Forward
<1> HIDE DEF Old
<1>4. listing \in Old
  BY <1>2, <1>3 DEF InFlight
<1> QED BY <1>4 DEF Old

(* Every listing on its way was one of the registry's, in every reachable
   state. *)
LEMMA ListingsInvariance == Spec => []ListingsArePast
<1>1. Init => ListingsArePast
  <2> SUFFICES ASSUME Init, NEW listing \in InFlight
               PROVE  listing = EmptyMap
    BY EmptyMapDomain DEF ListingsArePast, Past
  <2> QED BY DEF Init, InFlight, Idle
<1>2. IInv /\ ListingsArePast /\ [Next]_vars => ListingsArePast'
  <2> SUFFICES ASSUME IInv, ListingsArePast, [Next]_vars,
                      NEW listing \in InFlight'
               PROVE  Past(listing)'
    BY DEF ListingsArePast
  <2>1. listing \in InFlight \cup {List, EmptyMap}
    BY NothingElseIsInFlight
  <2>2. Past(listing)
    BY <2>1, NewListings DEF ListingsArePast
  <2>3. listing \in Listing
    BY <2>1, InFlightType, ListType, EmptyListing, Types
  <2> QED BY <2>2, <2>3, PastStaysPast
<1> QED BY <1>1, <1>2, Invariance, PTL DEF Spec

\* registry.rs:248-250: a client that reads a listing, from however old a
\* message, finds the previews it tells of, as new as it tells or newer.
THEOREM AdvertisedPreviewsAreUsable == Spec => []AdvertisedPreviewUsable
<1>1. IInv /\ PreviewInv /\ ListingsArePast => AdvertisedPreviewUsable
  <2> SUFFICES ASSUME IInv, PreviewInv, ListingsArePast,
                      NEW listing \in InFlight,
                      NEW id \in DOMAIN listing \cap DOMAIN pins,
                      listing[id].thumbnail
               PROVE  /\ id \in DOMAIN disk
                      /\ id \notin spoiled => disk[id] >= listing[id].revision
    BY DEF AdvertisedPreviewUsable
  <2>1. pins[id].thumbnail /\ listing[id].revision <= pins[id].revision
    BY DEF ListingsArePast, Past
  <2>2. id \in DOMAIN disk
    BY <2>1 DEF IInv, PreviewExists
  <2>3. id \notin spoiled => disk[id] >= pins[id].revision
    BY <2>1 DEF PreviewInv, PreviewCurrent
  <2>4. disk[id] \in Nat /\ pins[id].revision \in Nat
    BY <2>2, Types, RegistryAssumption DEF PinEntry, Version
  <2>5. listing[id].revision \in Nat
    BY InFlightType, RegistryAssumption DEF Listing, PinSummary, Version
  <2> QED BY <2>1, <2>2, <2>3, <2>4, <2>5
<1> QED BY <1>1, Invariance, PreviewInvariance, ListingsInvariance, PTL
=============================================================================
