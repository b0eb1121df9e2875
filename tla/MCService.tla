------------------------------- MODULE MCService -------------------------------
(* An instance of the serviced queue for TLC. *)
EXTENDS QueueService, TLC

CONSTANTS u1, u2, vault, allocator, child

AllInChild == {[slots |-> (child :> [weight |-> 4, authoritative |-> TRUE]),
                nativeBps |-> 0]}

TwoEach == u1 :> 2 @@ u2 :> 2
=============================================================================
