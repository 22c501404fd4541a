------------------------------ MODULE MCClient ------------------------------
(***************************************************************************)
(* The TypeScript client next to the program in one model: launching       *)
(* (LaunchClient), swapping (SwapClient), and the interface both rest on   *)
(* (ClientInterface).  The three share no state, so a behaviour moves one  *)
(* of them.                                                                *)
(***************************************************************************)
EXTENDS MCLaunchClient

CONSTANTS
  Sessions, Pools, Amounts, Minimums, Payouts, RENT, Lamports, Balance, ConfigFetches,
  MAX_CHANGES

VARIABLES
  part,                              \* the one that moves
  pool, wallet, session, changes,    \* SwapClient's
  exchange                           \* ClientInterface's

Swapping == INSTANCE SwapClient

(* Amounts are naturals, and the quote token is one of two.                *)
ASSUME SwapClientAssumption ==
  /\ Pools \subseteq [quoteMint : {"SOL", "USDC"}, tokenType : Nat]
  /\ Amounts \subseteq Nat /\ Minimums \subseteq Nat /\ Payouts \subseteq Nat
  /\ RENT \in Nat /\ Lamports \in Nat /\ Balance \in Nat

swap_vars == <<pool, wallet, session, changes>>

(* What the IDL and the program have in common, but for the two types the  *)
(* IDL gives another shape or another name.                                *)
SharedCalls == DOMAIN IDL!instructions \cap DOMAIN Program!handlers

SharedAccounts ==
  (DOMAIN IDL!accounts \cap DOMAIN Program!account_structs)
    \cup (DOMAIN IDL!events \cap DOMAIN Program!event_structs)

Interface ==
  INSTANCE ClientInterface WITH
    Calls     <- SharedCalls,
    Accounts  <- SharedAccounts \ {"virtualPool", "evtSwap"},
    Arguments <- DOMAIN IDL!parameters

SplPools == [quoteMint : {"SOL", "USDC"}, tokenType : {0}]

ClientInit ==
  /\ part \in {"launch", "swap", "interface"}
  /\ LaunchInit
  /\ Swapping!SwapClientInit
  /\ part # "swap" => pool.quoteMint = "SOL" /\ wallet.open = {}
  /\ Interface!InterfaceInit

ClientNext ==
  \/ /\ part = "launch"
     /\ LaunchNext
     /\ UNCHANGED <<part, swap_vars, exchange>>
  \/ /\ part = "swap"
     /\ Swapping!SwapClientNext
     /\ UNCHANGED <<part, launch_client_vars, exchange>>
  \/ /\ part = "interface"
     /\ Interface!InterfaceNext
     /\ UNCHANGED <<part, launch_client_vars, swap_vars>>

ClientSpec ==
  ClientInit /\ [][ClientNext]_<<part, launch_client_vars, swap_vars, exchange>>

AnyOrder == Interchangeable \cup Permutations(Sessions)

-----------------------------------------------------------------------------
(* SwapClient: without openings or closings in between, swap's transaction *)
(* can land.                                                               *)
UndisturbedSwapLands == Swapping!UndisturbedSwapLands

(* SwapClient: what lands moves exactly the order.                         *)
SwapIsExact == Swapping!SwapIsExact

(* ClientInterface: the accounts of a call arrive where they are meant.    *)
CallsAreTaken == Interface!CallsAreTaken

(* ClientInterface: a field arrives as itself.                             *)
FieldsArrive == Interface!FieldsArrive

=============================================================================
