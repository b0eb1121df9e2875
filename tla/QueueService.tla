----------------------------- MODULE QueueService -----------------------------
(***************************************************************************)
(* The queue as this repository runs it, with an operator and owners who   *)
(* do their part: the operator keeps draining the children into the        *)
(* buffer, as request_redeem's comment says it will, and an owner whose    *)
(* claim reverts tries again.  Governance is quiet and no child traps.     *)
(*                                                                         *)
(* The repository's client does not route: vault.ts answers every          *)
(* withdrawal with a redeem, without a look at instant_redeemable_assets.  *)
(***************************************************************************)
EXTENDS BakuVaultProps

Drain == \E c \in Children, n \in KeeperAmounts :
            DrainChild(c, n) /\ UNCHANGED <<shareVars, queueVars, routeVars>>

Service ==
    /\ Init
    /\ [][RedeemStep \/ QueueStep \/ ShareStep \/ Drain]_vars
    /\ WF_vars(Drain)
    /\ \A id \in 0 .. MaxRequests : SF_vars(ClaimRedeem(id))

(* Queued claims have priority over instant redeems, says the comment of   *)
(* instant_redeemable_assets.  If they had, a request without a price      *)
(* floor would be settled in the end, whatever the other users deposit,    *)
(* redeem, queue or cancel meanwhile.                                      *)
RequestsAreSettled ==
    \A id \in 0 .. MaxRequests :
        (id \in Queued /\ pending[id].minOut = 0) ~> (id \notin Queued)
=============================================================================
