-------------------------------- MODULE LRU --------------------------------
(***************************************************************************)
(* A set-associative cache that evicts the least recently used block, as   *)
(* one is defined: each set knows which of its blocks was used after which. *)
(***************************************************************************)
EXTENDS Naturals, FiniteSets

CONSTANTS Sets, Tags, E

VARIABLES
    resident,     \* of each set, the tags of the blocks it holds
    after,        \* of each set, the pairs of them the first of which was
                  \* used after the second
    hits, misses, evictions

vars == <<resident, after, hits, misses, evictions>>

Init ==
    /\ resident = [s \in Sets |-> {}]
    /\ after = [s \in Sets |-> {}]
    /\ hits = 0 /\ misses = 0 /\ evictions = 0

Hit(s, t) == t \in resident[s]
Evicts(s, t) == ~Hit(s, t) /\ Cardinality(resident[s]) = E

\* The block all others were used after.
Oldest(s) == {u \in resident[s] : \A v \in resident[s] \ {u} : <<v, u>> \in after[s]}

\* The blocks other than t that an access to t leaves in the set.
Kept(s, t) == (IF Evicts(s, t) THEN resident[s] \ Oldest(s) ELSE resident[s]) \ {t}

\* One access, or a load and a store of the same block.
Access(s, t, again) ==
    /\ resident' = [resident EXCEPT ![s] = Kept(s, t) \cup {t}]
    /\ after' = [after EXCEPT ![s] = (@ \cap (Kept(s, t) \X Kept(s, t))) \cup ({t} \X Kept(s, t))]
    /\ hits' = hits + (IF Hit(s, t) THEN 1 ELSE 0) + (IF again THEN 1 ELSE 0)
    /\ misses' = misses + (IF Hit(s, t) THEN 0 ELSE 1)
    /\ evictions' = evictions + (IF Evicts(s, t) THEN 1 ELSE 0)

Next == \E s \in Sets, t \in Tags, again \in BOOLEAN : Access(s, t, again)

Spec == Init /\ [][Next]_vars
=============================================================================
