------------------------------- MODULE MCVault -------------------------------
(* Instances of the vault for TLC. *)
EXTENDS BakuVaultProps, TLC

CONSTANTS u1, u2, vault, allocator, blend, mock, child

\* One child holds half of what is deposited, the buffer the other half.
HalfAndHalf == {[slots |-> (child :> [weight |-> 2, authoritative |-> TRUE]),
                 nativeBps |-> 2]}

NoChildren == {[slots |-> [c \in {} |-> 0], nativeBps |-> 4]}

\* Move everything to the buffer, or back to half and half.
AllNativeOrHalf ==
    {[entries |-> <<>>, nativeBps |-> 4],
     [entries |-> <<[child |-> child, weight |-> 2]>>, nativeBps |-> 2]}

AllNative == {[entries |-> <<>>, nativeBps |-> 4]}

TwoAndOne == u1 :> 2 @@ u2 :> 1
TwoEach == u1 :> 2 @@ u2 :> 2
One == u1 :> 1
Two == u1 :> 2
Three == u1 :> 3
Six == u1 :> 6
=============================================================================
