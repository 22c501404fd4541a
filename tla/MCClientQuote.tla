--------------------------- MODULE MCClientQuote ---------------------------
(***************************************************************************)
(* The pools of MCVirtualPool, quoted by a client.                         *)
(***************************************************************************)
EXTENDS ClientQuote, MCVirtualPool

(* No order, or a buy without and a sell with a referral.                  *)
NoOrders == {}

BuyAndSell ==
  { [direction |-> "QuoteToBase", amountIn |-> 6, has_referral |-> FALSE],
    [direction |-> "BaseToQuote", amountIn |-> 6, has_referral |-> TRUE] }

(* One segment up to MAX_SQRT_PRICE, deep enough that its whole price is   *)
(* beyond EXP_LIMIT while every price and every amount traded is far below *)
(* it, as in the sample of ts-client/src/amm/scripts/createConfig.ts.      *)
OneDeepSegment ==
  [TwoSegments EXCEPT
     !.sqrt_start_price = 64,
     !.curve = << [sqrt_price |-> 256, liquidity |-> 8000] >>]

=============================================================================
