------------------------ MODULE PoolLifecycleProofs ------------------------
(***************************************************************************)
(* PaidFromRaise holds of the abstract launch for every threshold and      *)
(* every set of raises.                                                    *)
(***************************************************************************)
EXTENDS PoolLifecycle, TLAPS

(* The inductive invariant: as long as the curve trades nothing is paid,   *)
(* and afterwards what is left of the surplus is never negative.           *)
LifecycleTypes ==
  /\ stage \in {"PreBondingCurve", "PostBondingCurve", "LockedVesting", "CreatedPool"}
  /\ raised \in Nat
  /\ delivered \in 0 .. THRESHOLD
  /\ partner_paid \in Nat /\ protocol_paid \in Nat

StagePaid ==
  /\ stage = "PreBondingCurve" => raised < THRESHOLD /\ partner_paid = 0 /\ protocol_paid = 0
  /\ stage # "PreBondingCurve" => raised >= THRESHOLD /\ surplus_left \in Nat
  /\ stage # "CreatedPool" => delivered = 0

LifecycleInv == LifecycleTypes /\ StagePaid

(* A launched raise has paid nothing ...                                   *)
LEMMA LifecycleInit == Launched => LifecycleInv
BY LifecycleAssumption DEF Launched, LifecycleInv, LifecycleTypes, StagePaid

(* ... and every step of the lifecycle keeps within the raise.             *)
LEMMA LifecycleStep == LifecycleInv /\ [LifecycleNext]_lifecycle_vars => LifecycleInv'
<1> SUFFICES ASSUME LifecycleInv, [LifecycleNext]_lifecycle_vars
             PROVE  LifecycleInv'
  OBVIOUS
<1> USE LifecycleAssumption DEF LifecycleInv, LifecycleTypes, StagePaid, surplus_left
<1>1. CASE Trade
  <2>1. PICK raise \in RAISES : raised' = raise
    BY <1>1 DEF Trade
  <2>2. after_bonding \in {"PostBondingCurve", "LockedVesting"}
    BY DEF after_bonding
  <2>3. CASE raise >= THRESHOLD
    <3>1. /\ stage' \in {"PostBondingCurve", "LockedVesting"}
          /\ UNCHANGED <<delivered, partner_paid, protocol_paid>>
          /\ stage = "PreBondingCurve"
      BY <1>1, <2>1, <2>2, <2>3 DEF Trade
    <3>2. QED
      BY <2>1, <2>3, <3>1
  <2>4. CASE ~(raise >= THRESHOLD)
    <3>1. /\ stage' = "PreBondingCurve"
          /\ UNCHANGED <<delivered, partner_paid, protocol_paid>>
          /\ stage = "PreBondingCurve"
      BY <1>1, <2>1, <2>4 DEF Trade
    <3>2. QED
      BY <2>1, <2>4, <3>1
  <2>5. QED
    BY <2>3, <2>4
<1>2. CASE Lock
  BY <1>2 DEF Lock
<1>3. CASE Graduate
  BY <1>3 DEF Graduate
<1>4. CASE PayPartner
  <2>1. PICK payment \in 0 .. surplus_left : partner_paid' = payment
    BY <1>4 DEF PayPartner
  <2>2. /\ stage # "PreBondingCurve" /\ partner_paid = 0
        /\ UNCHANGED <<stage, raised, delivered, protocol_paid>>
    BY <1>4 DEF PayPartner
  <2>3. QED
    BY <2>1, <2>2
<1>5. CASE PayProtocol
  <2>1. PICK payment \in 0 .. surplus_left : protocol_paid' = payment
    BY <1>5 DEF PayProtocol
  <2>2. /\ stage # "PreBondingCurve" /\ protocol_paid = 0
        /\ UNCHANGED <<stage, raised, delivered, partner_paid>>
    BY <1>5 DEF PayProtocol
  <2>3. QED
    BY <2>1, <2>2
<1>6. CASE UNCHANGED lifecycle_vars
  BY <1>6 DEF lifecycle_vars
<1>7. QED
  BY <1>1, <1>2, <1>3, <1>4, <1>5, <1>6 DEF LifecycleNext

(* What the AMM pool, the partner and the protocol get is paid from the    *)
(* raise, and nothing before the threshold is reached.                     *)
THEOREM RaisePaysForAll == LifecycleSpec => []PaidFromRaise
<1>1. LifecycleInv => PaidFromRaise
  BY LifecycleAssumption DEF LifecycleInv, LifecycleTypes, StagePaid, surplus_left, PaidFromRaise
<1>2. QED
  BY <1>1, LifecycleInit, LifecycleStep, PTL DEF LifecycleSpec

=============================================================================
