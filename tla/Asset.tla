------------------------------- MODULE Asset --------------------------------
(***************************************************************************)
(* The ledger: minting, transfers, yield and the asset metadata, with      *)
(* every check of the other components they call (src/asset.rs).           *)
(*                                                                         *)
(* The release profile traps arithmetic overflow, so a sum beyond          *)
(* MaxAmount reverts the invocation: the sums are guards.                  *)
(***************************************************************************)
EXTENDS Issuer, Lifecycle, Caps

CONSTANTS
    AmountArgs,     \* the amounts callers pass
    MetadataArgs,   \* the metadata callers pass, the empty strings perhaps among them
    NoMetadata      \* the three empty strings, which is also what absent keys read as

ASSUME AmountArgsAssumption == AmountArgs \subseteq (-MaxAmount - 1)..MaxAmount

VARIABLES
    balance,        \* DataKey::Balance(_), 0 when absent
    totalSupply,    \* DataKey::TotalSupply, 0 when absent
    metadata        \* DataKey::AssetName, AssetSymbol and AssetMetadataUri

ledgerVars == <<balance, totalSupply>>
assetVars == <<balance, totalSupply, metadata>>

AssetTypeOK ==
    /\ balance \in [Address -> 0..MaxAmount]
    /\ totalSupply \in 0..MaxAmount
    /\ metadata \in MetadataArgs \cup {NoMetadata}

AssetInit ==
    /\ balance = [a \in Address |-> 0]
    /\ totalSupply = 0
    /\ metadata = NoMetadata
-----------------------------------------------------------------------------
(* Guards. *)

RequireAssetMovable == assetStatus = "Active"
RequireCanSend(user) == status[user] = "Approved"
RequireCanReceive(user) == status[user] = "Approved"
-----------------------------------------------------------------------------
(* Entrypoints. *)

\* Slip: the recipient is not passed on, as in distribute_yield.
CanMintToAnyone(caller, to, amount) ==
    /\ RequireNotPaused
    /\ RequireRole(caller, "AssetManager")
    /\ RequireIssuanceAuthority(caller, NoAddress)
    /\ amount > 0
    /\ RequireAssetMovable
    /\ RequireCanReceive(to)
    /\ EnforceSupplyCap(totalSupply, amount)
    /\ EnforceHoldingCap(balance[to], amount)
    /\ balance[to] + amount <= MaxAmount
    /\ totalSupply + amount <= MaxAmount

\* Slip: the supply may exceed what an amount can hold.
CanMintPastSupply(caller, to, amount) ==
    /\ RequireNotPaused
    /\ RequireRole(caller, "AssetManager")
    /\ RequireIssuanceAuthority(caller, to)
    /\ amount > 0
    /\ RequireAssetMovable
    /\ RequireCanReceive(to)
    /\ EnforceSupplyCap(totalSupply, amount)
    /\ EnforceHoldingCap(balance[to], amount)
    /\ balance[to] + amount <= MaxAmount

CanMint(caller, to, amount) ==
    /\ RequireNotPaused
    /\ RequireRole(caller, "AssetManager")
    /\ RequireIssuanceAuthority(caller, to)
    /\ amount > 0
    /\ RequireAssetMovable
    /\ RequireCanReceive(to)
    /\ EnforceSupplyCap(totalSupply, amount)
    /\ EnforceHoldingCap(balance[to], amount)
    /\ balance[to] + amount <= MaxAmount
    /\ totalSupply + amount <= MaxAmount

\* Slip: the event carries the supply of before the mint.
MintAssetStaleEvent(caller, to, amount) ==
    /\ CanMint(caller, to, amount)
    /\ balance' = [balance EXCEPT ![to] = @ + amount]
    /\ totalSupply' = totalSupply + amount
    /\ UNCHANGED metadata
    /\ Publish(<<[topic |-> "asset_minted", caller |-> caller, to |-> to,
                  amount |-> amount, total_supply |-> totalSupply]>>)

MintAsset(caller, to, amount) ==
    /\ CanMint(caller, to, amount)
    /\ balance' = [balance EXCEPT ![to] = @ + amount]
    /\ totalSupply' = totalSupply + amount
    /\ UNCHANGED metadata
    /\ Publish(<<[topic |-> "asset_minted", caller |-> caller, to |-> to,
                  amount |-> amount, total_supply |-> totalSupply + amount]>>)

Debited(from, amount) == [balance EXCEPT ![from] = @ - amount]

\* Slip: only the receiver's clearance is checked.
CanTransferUncleared(from, to, amount) ==
    /\ RequireNotPaused
    /\ amount > 0
    /\ RequireAssetMovable
    /\ RequireCanReceive(to)
    /\ EnforceHoldingCap(balance[to], amount)
    /\ balance[from] >= amount
    /\ Debited(from, amount)[to] + amount <= MaxAmount

\* Slip: the holding cap is left to minting.
CanTransferUncapped(from, to, amount) ==
    /\ RequireNotPaused
    /\ amount > 0
    /\ RequireAssetMovable
    /\ RequireCanSend(from)
    /\ RequireCanReceive(to)
    /\ balance[from] >= amount
    /\ Debited(from, amount)[to] + amount <= MaxAmount

CanTransfer(from, to, amount) ==
    /\ RequireNotPaused
    /\ amount > 0
    /\ RequireAssetMovable
    /\ RequireCanSend(from)
    /\ RequireCanReceive(to)
    /\ EnforceHoldingCap(balance[to], amount)
    /\ balance[from] >= amount
    /\ Debited(from, amount)[to] + amount <= MaxAmount

\* Slip: both balances are read before either is written.
TransferStaleRead(from, to, amount) ==
    /\ CanTransfer(from, to, amount)
    /\ balance' = [balance EXCEPT ![from] = @ - amount, ![to] = balance[to] + amount]
    /\ UNCHANGED <<totalSupply, metadata>>
    /\ Publish(<<[topic |-> "transfer", from |-> from, to |-> to, amount |-> amount]>>)

\* The receiver's balance is read again after the sender's was written, which
\* is what keeps a transfer to oneself neutral.
Transfer(from, to, amount) ==
    /\ CanTransfer(from, to, amount)
    /\ balance' = [Debited(from, amount) EXCEPT ![to] = @ + amount]
    /\ UNCHANGED <<totalSupply, metadata>>
    /\ Publish(<<[topic |-> "transfer", from |-> from, to |-> to, amount |-> amount]>>)

\* A mock that only announces the amount: no balance moves.
DistributeYield(caller, amount) ==
    /\ RequireNotPaused
    /\ RequireRole(caller, "AssetManager")
    /\ RequireIssuanceAuthority(caller, NoAddress)
    /\ amount > 0
    /\ UNCHANGED assetVars
    /\ Publish(<<[topic |-> "yield_distributed", caller |-> caller, amount |-> amount]>>)

\* Slip: the metadata of a retired asset is left open.
UpdateAssetMetadataRetired(caller, newMetadata) ==
    /\ RequireNotPaused
    /\ RequireRole(caller, "AssetManager")
    /\ assetStatus # "Blocked"
    /\ metadata' = newMetadata
    /\ UNCHANGED ledgerVars
    /\ Publish(<<[topic |-> "asset_metadata_updated", caller |-> caller,
                  metadata |-> newMetadata]>>)

UpdateAssetMetadata(caller, newMetadata) ==
    /\ RequireNotPaused
    /\ RequireRole(caller, "AssetManager")
    /\ assetStatus \notin {"Retired", "Blocked"}
    /\ metadata' = newMetadata
    /\ UNCHANGED ledgerVars
    /\ Publish(<<[topic |-> "asset_metadata_updated", caller |-> caller,
                  metadata |-> newMetadata]>>)

AssetStep ==
    \E caller \in Address :
        \/ \E to \in Address, amount \in AmountArgs :
                MintAsset(caller, to, amount) \/ Transfer(caller, to, amount)
        \/ \E amount \in AmountArgs : DistributeYield(caller, amount)
        \/ \E newMetadata \in MetadataArgs : UpdateAssetMetadata(caller, newMetadata)
=============================================================================
