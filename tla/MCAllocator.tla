------------------------------ MODULE MCAllocator ------------------------------
(* Instances of the allocator for TLC. *)
EXTENDS AllocatorSpec, TLC

CONSTANTS vault, allocator, c1, c2

Weighted(child, weight) == [child |-> child, weight |-> weight]

\* Two children in equal parts with a buffer of the rest.
Balanced == {[slots |-> [c \in {c1, c2} |-> [weight |-> 1, authoritative |-> TRUE]],
              nativeBps |-> 1]}

\* All in the buffer; all in c1; uneven parts; an order that does not add up;
\* one that names a child twice.
Orders ==
    {[entries |-> <<>>, nativeBps |-> 3],
     [entries |-> <<Weighted(c1, 3)>>, nativeBps |-> 0],
     [entries |-> <<Weighted(c1, 1), Weighted(c2, 2)>>, nativeBps |-> 0],
     [entries |-> <<Weighted(c2, 1)>>, nativeBps |-> 1],
     [entries |-> <<Weighted(c1, 2), Weighted(c1, 1)>>, nativeBps |-> 0]}
=============================================================================
