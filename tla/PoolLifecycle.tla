--------------------------- MODULE PoolLifecycle ---------------------------
(***************************************************************************)
(* What a launch promises to the people in it, without curve, vaults or    *)
(* fees.  A pool raises quote tokens until a threshold is reached; then    *)
(* trading is over for good, the creator's vesting is locked if there is   *)
(* one, and the threshold goes to an AMM pool once.  What was raised over  *)
(* the threshold is shared between partner and protocol, once each.        *)
(*                                                                         *)
(* The stages and their order are those the comment of state/              *)
(* virtual_pool.rs gives:                                                  *)
(*   1. Without jup lock: PreBonding -> LockedVesting -> CreatedPool       *)
(*   2. With jup lock: PreBonding -> PostBonding -> LockedVesting ->       *)
(*      CreatedPool                                                        *)
(***************************************************************************)
EXTENDS Integers

CONSTANTS
  THRESHOLD,     \* migration_quote_threshold
  RAISES,        \* the amounts a raise may reach
  WITH_LOCK      \* whether the creator has a vesting to lock

ASSUME LifecycleAssumption ==
  /\ THRESHOLD \in Nat /\ THRESHOLD > 0
  /\ RAISES \subseteq Nat
  /\ WITH_LOCK \in BOOLEAN

VARIABLES
  stage,           \* the migration progress
  raised,          \* quote tokens raised by the curve
  delivered,       \* quote tokens given to the AMM pool
  partner_paid,    \* surplus paid to the partner
  protocol_paid    \* surplus paid to the protocol

lifecycle_vars == <<stage, raised, delivered, partner_paid, protocol_paid>>

Launched ==
  /\ stage = "PreBondingCurve"
  /\ raised = 0
  /\ delivered = 0
  /\ partner_paid = 0
  /\ protocol_paid = 0

after_bonding == IF WITH_LOCK THEN "PostBondingCurve" ELSE "LockedVesting"

Trade ==
  /\ stage = "PreBondingCurve"
  /\ raised' \in RAISES
  /\ stage' = IF raised' >= THRESHOLD THEN after_bonding ELSE stage
  /\ UNCHANGED <<delivered, partner_paid, protocol_paid>>

Lock ==
  /\ stage = "PostBondingCurve"
  /\ stage' = "LockedVesting"
  /\ UNCHANGED <<raised, delivered, partner_paid, protocol_paid>>

(* Wrong: the pool is created only once the partner was paid.              *)
Graduate_after_payment ==
  /\ stage = "LockedVesting"
  /\ partner_paid > 0
  /\ stage' = "CreatedPool"
  /\ delivered' \in 0 .. THRESHOLD
  /\ UNCHANGED <<raised, partner_paid, protocol_paid>>

Graduate ==
  /\ stage = "LockedVesting"
  /\ stage' = "CreatedPool"
  /\ delivered' \in 0 .. THRESHOLD
  /\ UNCHANGED <<raised, partner_paid, protocol_paid>>

surplus_left == raised - THRESHOLD - partner_paid - protocol_paid

(* One payment each, and together never more than the surplus.             *)
(* Wrong: the partner does not mind what the protocol got.                 *)
PayPartner_regardless ==
  /\ stage # "PreBondingCurve"
  /\ partner_paid = 0
  /\ partner_paid' \in 0 .. raised - THRESHOLD
  /\ UNCHANGED <<stage, raised, delivered, protocol_paid>>

PayPartner ==
  /\ stage # "PreBondingCurve"
  /\ partner_paid = 0
  /\ partner_paid' \in 0 .. surplus_left
  /\ UNCHANGED <<stage, raised, delivered, protocol_paid>>

PayProtocol ==
  /\ stage # "PreBondingCurve"
  /\ protocol_paid = 0
  /\ protocol_paid' \in 0 .. surplus_left
  /\ UNCHANGED <<stage, raised, delivered, partner_paid>>

LifecycleNext == Trade \/ Lock \/ Graduate \/ PayPartner \/ PayProtocol

LifecycleSpec == Launched /\ [][LifecycleNext]_lifecycle_vars

FairLifecycleSpec ==
  LifecycleSpec /\ WF_lifecycle_vars(Lock) /\ WF_lifecycle_vars(Graduate)

-----------------------------------------------------------------------------
(* The raise pays for everything: what the AMM pool, the partner and the   *)
(* protocol get never exceeds what the traders paid in, nothing is paid    *)
(* before the threshold is reached, and only an AMM pool gets the          *)
(* threshold.                                                              *)
PaidFromRaise ==
  /\ partner_paid + protocol_paid > 0 => partner_paid + protocol_paid <= raised - THRESHOLD
  /\ delivered <= THRESHOLD
  /\ delivered > 0 => stage = "CreatedPool"
  /\ stage # "PreBondingCurve" <=> raised >= THRESHOLD

(* A raise that reaches the threshold ends in an AMM pool, with            *)
(* FairLifecycleSpec.                                                      *)
RaiseGraduates == (raised >= THRESHOLD) ~> (stage = "CreatedPool")

=============================================================================
