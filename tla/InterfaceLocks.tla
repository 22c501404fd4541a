--------------------------- MODULE InterfaceLocks ---------------------------
(***************************************************************************)
(* A launch driven by transactions the client's IDL builds.  The runtime   *)
(* lets a transaction change only the accounts it names as writable (and   *)
(* locks only those against other transactions), so every account a step   *)
(* of Migration changes must be one the IDL asks to write; otherwise the   *)
(* transaction fails, or two of them run side by side on one account.      *)
(***************************************************************************)
EXTENDS Migration

IDL == INSTANCE ProgramInterface

-----------------------------------------------------------------------------
(* The accounts of a launch, as the IDL calls them (the pool account has   *)
(* two names), and the state of the model each one holds.                  *)
account_data ==
  [pool              |-> <<curve_vars, fee_vars, metrics, stage_vars, surplus_vars>>,
   virtualPool       |-> <<curve_vars, fee_vars, metrics, stage_vars, surplus_vars>>,
   baseVault         |-> base_vault,
   quoteVault        |-> quote_vault,
   migrationMetadata |-> migration_metadata,
   virtualPoolLp     |-> virtual_pool_lp]

(* In a migration "pool" is the AMM's pool.                                *)
Changed(pool) ==
  {account \in DOMAIN account_data \ ({"pool", "virtualPool"} \ {pool}) :
     account_data[account]' # account_data[account]}

Within(pool, instruction) == Changed(pool) \subseteq IDL!writable_accounts(instruction)

(* The instruction a step is, by what only that instruction does.          *)
swapping    == swaps' # swaps
claiming(receiver_base, receiver_quote) ==
  \/ paid'[receiver_base] # paid[receiver_base]
  \/ paid'[receiver_quote] # paid[receiver_quote]

-----------------------------------------------------------------------------
(* Every step of a launch keeps within the accounts the IDL opens for the  *)
(* instruction that makes it: swap, the claims, the two surplus            *)
(* withdrawals, the metadata instructions and the two migrations.          *)
WithinLocks ==
  /\ swapping => Within("pool", IDL!swap)
  /\ claiming("partner_base", "partner_quote") => Within("pool", IDL!claimTradingFee)
  /\ claiming("treasury_base", "treasury_quote") => Within("pool", IDL!claimProtocolFee)
  /\ is_partner_withdraw_surplus' # is_partner_withdraw_surplus =>
       Within("virtualPool", IDL!partnerWithdrawSurplus)
  /\ is_protocol_withdraw_surplus' # is_protocol_withdraw_surplus =>
       Within("virtualPool", IDL!protocolWithdrawSurplus)
  /\ migration_metadata'.created # migration_metadata.created =>
       /\ Within("virtualPool", IDL!migrationMeteoraDammCreateMetadata)
       /\ Within("virtualPool", IDL!migrationDammV2CreateMetadata)
  /\ is_migrated' # is_migrated =>
       Within("virtualPool", IF migration_option = "MeteoraDamm"
                             THEN IDL!migrateMeteoraDamm ELSE IDL!migrationDammV2)

LocksCover == [][WithinLocks]_vars

=============================================================================
