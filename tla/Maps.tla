-------------------------------- MODULE Maps --------------------------------
(***************************************************************************)
(* Hash maps as functions whose domain is the set of present keys.  The    *)
(* code's HashMap::insert, ::remove and ::clear, and the files of a        *)
(* directory, are written with these two operators.  (TLC's own @@ has no  *)
(* definition the provers can expand.)                                     *)
(***************************************************************************)
EXTENDS Functions

EmptyMap == << >>

\* The map m with key k bound to v, whether or not k was bound before.
Put(m, k, v) == [x \in DOMAIN m \cup {k} |-> IF x = k THEN v ELSE m[x]]

\* The map m without the keys in S.
Without(m, S) == Restrict(m, DOMAIN m \ S)
=============================================================================
