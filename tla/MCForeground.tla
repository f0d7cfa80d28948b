---------------------------- MODULE MCForeground ----------------------------
(***************************************************************************)
(* What goes on while the app is unlocked and only safety is asked of: the *)
(* reclaim of acknowledged messages, the builders with their coin          *)
(* selection, the capacity ledger, the poll of the LoRa gateway, the rate  *)
(* limits of incoming messages, the choice of an endpoint and the vault    *)
(* file, side by side. A behaviour exercises one of them, the others rest  *)
(* in their initial states.                                                *)
(***************************************************************************)
EXTENDS Reclaim, Wallet, Ledger, Relay, RateLimits, Endpoints, VaultFile, TLC

VARIABLE mover   \* the component that moves

foregroundVars ==
    <<mover, vars, walletVars, capacityVars, relayVars, limitVars, endpointVars,
      vaultFileVars>>

Movers == {"reclaim", "wallet", "ledger", "relay", "limits", "endpoints", "vaultfile"}

ForegroundInit ==
    /\ mover \in Movers
    /\ Init /\ WalletInit /\ LedgerInit /\ RelayInit /\ LimitInit
    /\ EndpointInit /\ VaultFileInit

ForegroundNext ==
    /\ UNCHANGED mover
    /\ IF mover = "reclaim" THEN Next ELSE UNCHANGED vars
    /\ IF mover = "wallet" THEN WalletNext ELSE UNCHANGED walletVars
    /\ IF mover = "ledger" THEN LedgerNext ELSE UNCHANGED capacityVars
    /\ IF mover = "relay" THEN RelayNext ELSE UNCHANGED relayVars
    /\ IF mover = "limits" THEN LimitNext ELSE UNCHANGED limitVars
    /\ IF mover = "endpoints" THEN EndpointNext ELSE UNCHANGED endpointVars
    /\ IF mover = "vaultfile" THEN VaultFileNext ELSE UNCHANGED vaultFileVars

(* Only safety is checked here, so no fairness is stated.                  *)
ForegroundSpec == ForegroundInit /\ [][ForegroundNext]_foregroundVars

(* Two calls of executeReclaimBatch are interchangeable, and so are two    *)
(* message cells, two contacts who write and two sweeps that let messages  *)
(* through: nothing in the code and no property tells them apart. Only one *)
(* component moves, so the .cfg lets Consumers share the names of Batches  *)
(* and Senders those of Coins, and one permutation serves both.            *)
Symmetry == Permutations(Batches) \cup Permutations(Coins)

(* The variables stay in their types; only what moves has to be looked at. *)
ForegroundTypeOK ==
    CASE mover = "reclaim" -> TypeOK
      [] mover = "wallet" -> WalletTypeOK
      [] mover = "ledger" -> LedgerTypeOK
      [] mover = "relay" -> RelayTypeOK
      [] mover = "limits" -> LimitTypeOK
      [] mover = "endpoints" -> EndpointTypeOK
      [] mover = "vaultfile" -> VaultFileTypeOK

(* What the node and the wallet screen may rely on: spends are taken and   *)
(* keep their flow (signing.ts:413-439), and the ledger claims no more     *)
(* than there is and has what is due (balances.ts:74-176).                 *)
CapacityIsKept == SpendsAreTaken /\ LedgerAddsUp

(* What the transports keep between two processes: no spooled row that can *)
(* still be asked for is passed over (transport.ts:120-127), and the       *)
(* endpoint in use is the one a restart finds, left only after its own     *)
(* streak of failures (endpoints.ts:36-90).                                *)
TransportsHold == NothingPassedOver /\ ChoiceHolds
=============================================================================
