------------------------------ MODULE PinStore ------------------------------
(***************************************************************************)
(* What the pin registry promises its callers: one atomic set of live pins.*)
(*                                                                         *)
(* A pin is stored under an identifier nobody was given before, its pixels *)
(* may be replaced any number of times, and once it is closed its          *)
(* identifier is never live again.  registry.rs:3-7 states the promise;    *)
(* PinRegistry.tla models the code that has to keep it with several        *)
(* threads inside at once, and PinRegistryProofs.tla proves that it does.  *)
(***************************************************************************)
EXTENDS Naturals, Maps

CONSTANT PinId      \* the identifiers that can be handed out

VARIABLES
    live,           \* the live pins: a function from their ids to revisions
    used            \* every id under which a pin was ever stored

storeVars == <<live, used>>

Init ==
    /\ live = EmptyMap
    /\ used = {}

\* A new pin appears under an id that was never used.
Insert(id) ==
    /\ id \notin used
    /\ live' = Put(live, id, 0)
    /\ used' = used \cup {id}

\* The pixels of a live pin change.
Replace(id) ==
    /\ id \in DOMAIN live
    /\ live' = [live EXCEPT ![id] = @ + 1]
    /\ UNCHANGED used

\* A live pin goes away.
Close(id) ==
    /\ id \in DOMAIN live
    /\ live' = Without(live, {id})
    /\ UNCHANGED used

\* Every live pin goes away, in one step.
CloseAll ==
    /\ live' = EmptyMap
    /\ UNCHANGED used

Next ==
    \/ \E id \in PinId : Insert(id) \/ Replace(id) \/ Close(id)
    \/ CloseAll

Spec == Init /\ [][Next]_storeVars

-----------------------------------------------------------------------------
\* Only stored pins are live.
LiveWasUsed == DOMAIN live \subseteq used

\* No used id comes to life, and no live pin gets an older revision.
Keeps ==
    /\ \A id \in used : id \in DOMAIN live' => id \in DOMAIN live
    /\ \A id \in DOMAIN live : id \in DOMAIN live' => live'[id] >= live[id]

\* registry.rs:3-7: an id that was closed never comes back to life, and a
\* pin that stays live never goes back to older pixels.
NeverResurrected == [][Keeps]_storeVars
=============================================================================
