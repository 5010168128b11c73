----------------------------- MODULE Allocator -----------------------------
(***************************************************************************)
(* What malloc, free and realloc promise their client: the payloads handed *)
(* out are aligned, inside the heap and disjoint.                          *)
(***************************************************************************)
EXTENDS Integers

CONSTANTS Addresses, Alignment, Sizes

VARIABLE live   \* the payloads handed out: their sizes, by their addresses

Init == live = <<>>

Payload(p, n) == p .. p + n - 1

\* An address and a size that fit beside the payloads in l.
Fits(l, p, n) ==
    /\ p % Alignment = 0
    /\ Payload(p, n) \subseteq Addresses
    /\ \A q \in DOMAIN l : Payload(p, n) \cap Payload(q, l[q]) = {}

With(l, p, n) == [q \in DOMAIN l \cup {p} |-> IF q = p THEN n ELSE l[q]]
Without(l, p) == [q \in DOMAIN l \ {p} |-> l[q]]

Malloc(n) == \E p \in Addresses : Fits(live, p, n) /\ live' = With(live, p, n)

Free(p) == live' = Without(live, p)

\* The new payload may lie where the old one was.
Realloc(p, n) ==
    \E q \in Addresses :
        Fits(Without(live, p), q, n) /\ live' = With(Without(live, p), q, n)

Next ==
    \/ \E n \in Sizes : Malloc(n)
    \/ \E p \in DOMAIN live : Free(p) \/ \E n \in Sizes : Realloc(p, n)

Spec == Init /\ [][Next]_live
=============================================================================
