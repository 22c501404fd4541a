---------------------------- MODULE FeeScheduler ----------------------------
(***************************************************************************)
(* Partners ask for a base fee that falls over time: create_config with    *)
(* every combination of scheduler parameters, as its validation of the     *)
(* base fee answers.                                                       *)
(***************************************************************************)
EXTENDS Integers

CONSTANTS
  ONE, FEE_DENOMINATOR, MAX_FEE_NUMERATOR, MIN_FEE_NUMERATOR, PROTOCOL_FEE_PERCENT,
  HOST_FEE_PERCENT, BASIS_POINT_MAX, V_FEE_SCALE, DynamicFee, COLLECT_FEE_MODE,
  BaseFees           \* the BaseFeeParameters that partners try

VARIABLES
  accepted,          \* the base fees of the configs that exist
  rejected           \* the ones create_config refused

scheduler_vars == <<accepted, rejected>>

Fee(base_fee) == INSTANCE FeeMath WITH BaseFee <- base_fee

SchedulerInit ==
  /\ accepted = {}
  /\ rejected = {}

CreateConfig(base_fee) ==
  \/ /\ Fee(base_fee)!validate_base_fee
     /\ accepted' = accepted \union {base_fee}
     /\ UNCHANGED rejected
  \/ /\ ~Fee(base_fee)!validate_base_fee
     /\ rejected' = rejected \union {base_fee}
     /\ UNCHANGED accepted

SchedulerNext == \E base_fee \in BaseFees : CreateConfig(base_fee)

SchedulerSpec == SchedulerInit /\ [][SchedulerNext]_scheduler_vars

-----------------------------------------------------------------------------
(* The fee of the last period, the lowest one the schedule reaches.        *)
lowest_fee(base_fee) ==
  Fee(base_fee)!get_base_fee_numerator(
    base_fee.number_of_period * base_fee.period_frequency, 0)

(* A schedule is refused only when its highest or its lowest fee is out of *)
(* range: get_min_base_fee_numerator says it gets "the lowest fee" and     *)
(* BaseFeeParameters::validate asks no more of it.                         *)
SchedulesAccepted ==
  \A base_fee \in rejected :
    \/ lowest_fee(base_fee) < MIN_FEE_NUMERATOR
    \/ base_fee.cliff_fee_numerator > MAX_FEE_NUMERATOR

=============================================================================
