-------------------------------- MODULE MCSweep --------------------------------
(* Instances of the keeper's sweep for TLC. *)
EXTENDS RebalanceSweep, TLC

CONSTANTS c1, c2, c3, vault, allocator

\* 30/40/30, the basket of the contract's comment, and one with a buffer.
Thirds ==
    {[slots |-> c1 :> [weight |-> 3, authoritative |-> TRUE]
             @@ c2 :> [weight |-> 4, authoritative |-> TRUE]
             @@ c3 :> [weight |-> 3, authoritative |-> TRUE],
      nativeBps |-> 0],
     [slots |-> c1 :> [weight |-> 2, authoritative |-> TRUE]
             @@ c2 :> [weight |-> 2, authoritative |-> TRUE]
             @@ c3 :> [weight |-> 5, authoritative |-> TRUE],
      nativeBps |-> 1]}
=============================================================================
