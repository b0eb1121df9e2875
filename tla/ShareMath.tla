------------------------------ MODULE ShareMath ------------------------------
(***************************************************************************)
(* The vault's share arithmetic: ERC-4626 conversion with virtual offsets  *)
(* (services/vault/crates/vault/src/lib.rs).  Both directions round down.  *)
(***************************************************************************)
EXTENDS Integers

CONSTANTS
    VIRTUAL_SHARES,   \* 1_000_000 in the contract
    VIRTUAL_ASSETS    \* 1 in the contract

ASSUME VirtualOffsets ==
    /\ VIRTUAL_SHARES \in Nat \ {0}
    /\ VIRTUAL_ASSETS \in Nat \ {0}

\* Mutants: rounding in the depositor's favour; the price of the first day.
SharesRoundedUp(assets, totalAssets, totalSupply) ==
    (assets * (totalSupply + VIRTUAL_SHARES) + totalAssets + VIRTUAL_ASSETS - 1)
        \div (totalAssets + VIRTUAL_ASSETS)

SharesAtFirstPrice(assets, totalAssets, totalSupply) ==
    (assets * VIRTUAL_SHARES) \div VIRTUAL_ASSETS

ConvertToShares(assets, totalAssets, totalSupply) ==
    (assets * (totalSupply + VIRTUAL_SHARES)) \div (totalAssets + VIRTUAL_ASSETS)

\* Mutant: rounding in the redeemer's favour.
AssetsRoundedUp(amount, totalAssets, totalSupply) ==
    (amount * (totalAssets + VIRTUAL_ASSETS) + totalSupply + VIRTUAL_SHARES - 1)
        \div (totalSupply + VIRTUAL_SHARES)

ConvertToAssets(amount, totalAssets, totalSupply) ==
    (amount * (totalAssets + VIRTUAL_ASSETS)) \div (totalSupply + VIRTUAL_SHARES)
=============================================================================
