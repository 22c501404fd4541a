----------------------------- MODULE SwapClient -----------------------------
(***************************************************************************)
(* swap of the TypeScript client (instructions/swap.ts, utils/token.ts):   *)
(* it looks at the pool, its config and the payer's two token accounts,    *)
(* one await after the other, and puts what it saw into one transaction:   *)
(* create what is missing, wrap SOL, swap, unwrap SOL.  The transaction is *)
(* executed later, all of it or nothing.                                   *)
(*                                                                         *)
(* One user runs several such sessions, and in between opens and closes    *)
(* token accounts; anyone else may open one for the user.  What the pool   *)
(* pays for a swap is any amount of Payouts (ClientQuote and VirtualPool   *)
(* say which).  The token, associated-token and system programs are        *)
(* modelled from how the client uses them.  Network fees are left out, and *)
(* so is the optional referral account, which is passed on as it is.       *)
(***************************************************************************)
EXTENDS Naturals, Sequences, FiniteSets, SequencesExt

CONSTANTS
  Sessions,        \* concurrent calls of swap by one payer
  Pools,           \* the pools that may be traded: quote mint and token type
  Amounts,         \* amountIn
  Minimums,        \* minimumAmountOut
  Payouts,         \* what the program may pay out
  RENT,            \* the deposit of a token account
  Lamports,        \* what the payer has at first
  Balance,         \* and, where it has an account for them, of other tokens
  ConfigFetches,   \* what fetchPoolConfig may return: "config", or "null" too
  MAX_CHANGES      \* bound on the openings and closings in between

VARIABLES
  pool,       \* the pool account and its config
  wallet,     \* the payer's lamports and token accounts
  session,    \* the calls of swap
  changes     \* how often accounts were opened or closed in between

swap_client_vars == <<pool, wallet, session, changes>>

NATIVE_MINT == "SOL"
baseMint    == "BASE"

TOKEN_PROGRAM_ID      == "Token"
TOKEN_2022_PROGRAM_ID == "Token2022"

token_program_of(mint) ==
  IF mint = baseMint /\ pool.tokenType # 0 THEN TOKEN_2022_PROGRAM_ID ELSE TOKEN_PROGRAM_ID

(* An associated token account: its address depends on the token program.  *)
getAssociatedTokenAddressSync(mint, program) == <<mint, program>>

TokenAccounts ==
  {"SOL", "USDC", "BASE"} \X {TOKEN_PROGRAM_ID, TOKEN_2022_PROGRAM_ID}

Order == [sells : BOOLEAN, amountIn : Amounts, minimumAmountOut : Minimums]

inputTokenMint(order)  == IF order.sells THEN baseMint ELSE pool.quoteMint
outputTokenMint(order) == IF order.sells THEN pool.quoteMint ELSE baseMint

SwapClientInit ==
  /\ pool \in Pools
  /\ \E open \in SUBSET {<<pool.quoteMint, TOKEN_PROGRAM_ID>>, <<baseMint, token_program_of(baseMint)>>} :
       wallet = [lamports |-> Lamports, open |-> open,
                 tokens |-> [account \in TokenAccounts |->
                               IF account \in open
                               THEN IF account[1] = "SOL" THEN 1 ELSE Balance
                               ELSE 0]]
  /\ session = [s \in Sessions |-> [stage |-> "idle"]]
  /\ changes = 0

-----------------------------------------------------------------------------
(* Instructions, as the client builds them (utils/token.ts) ...            *)
createAssociatedTokenAccountInstruction(account, mint, program) ==
  [to |-> "AssociatedToken", account |-> account, mint |-> mint, program |-> program]

(* Wrong: the deposit of the account is sent along.                        *)
wrapSOLInstruction_with_rent(account, amount) ==
  << [to |-> "System", account |-> account, lamports |-> amount + RENT],
     [to |-> TOKEN_PROGRAM_ID, data |-> 17, account |-> account] >>

wrapSOLInstruction(account, amount) ==
  << [to |-> "System", account |-> account, lamports |-> amount],
     [to |-> TOKEN_PROGRAM_ID, data |-> 17, account |-> account] >>

unwrapSOLInstruction ==
  [to |-> TOKEN_PROGRAM_ID, data |-> 20,
   account |-> getAssociatedTokenAddressSync(NATIVE_MINT, TOKEN_PROGRAM_ID)]

swapInstruction(order, tokenBaseProgram) ==
  [to |-> "VirtualCurve", order |-> order, tokenBaseProgram |-> tokenBaseProgram,
   input  |-> getAssociatedTokenAddressSync(inputTokenMint(order), TOKEN_PROGRAM_ID),
   output |-> getAssociatedTokenAddressSync(outputTokenMint(order), TOKEN_PROGRAM_ID)]

(* ... and what the programs they are sent to do: the set of the wallets   *)
(* an instruction can leave, empty if it fails.                            *)
associated_token(w, ix) ==
  IF ix.account \in w.open \/ ix.program # token_program_of(ix.mint)
     \/ ix.account # getAssociatedTokenAddressSync(ix.mint, ix.program) \/ w.lamports < RENT
  THEN {}
  ELSE {[w EXCEPT !.lamports = @ - RENT, !.open = @ \cup {ix.account}]}

(* A transfer of SOL shows up as tokens with SyncNative (17).              *)
system(w, ix) ==
  IF w.lamports < ix.lamports THEN {}
  ELSE {[w EXCEPT !.lamports = @ - ix.lamports, !.unsynced = @ + ix.lamports]}

(* CloseAccount is 9.  Any other instruction of the token program needs    *)
(* more data than its number, or other accounts.                           *)
token(w, ix) ==
  CASE ix.account \notin w.open -> {}
    [] ix.account \in w.open /\ ix.data = 17 ->
         {[w EXCEPT !.tokens[ix.account] = @ + w.unsynced, !.unsynced = 0]}
    [] ix.account \in w.open /\ ix.data = 9 ->
         {[w EXCEPT !.lamports = @ + RENT + w.tokens[ix.account],
                    !.tokens[ix.account] = 0, !.open = @ \ {ix.account}]}
    [] OTHER -> {}

virtual_curve(w, ix, payout) ==
  IF /\ {ix.input, ix.output} \subseteq w.open
     /\ ix.tokenBaseProgram = token_program_of(baseMint)
     /\ ix.order.amountIn > 0
     /\ w.tokens[ix.input] >= ix.order.amountIn
     /\ payout >= ix.order.minimumAmountOut
  THEN {[w EXCEPT !.tokens[ix.input] = @ - ix.order.amountIn,
                  !.tokens[ix.output] = @ + payout]}
  ELSE {}

execute(w, ix, payout) ==
  CASE ix.to = "AssociatedToken" -> associated_token(w, ix)
    [] ix.to = "System"          -> system(w, ix)
    [] ix.to = TOKEN_PROGRAM_ID  -> token(w, ix)
    [] ix.to = "VirtualCurve"    -> virtual_curve(w, ix, payout)

executed(wallets, ix, payout) == UNION {execute(w, ix, payout) : w \in wallets}

(* A transaction runs instruction by instruction and is atomic.            *)
run(transaction, payout) ==
  LET after[i \in 0 .. Len(transaction)] ==
        IF i = 0
        THEN {[lamports |-> wallet.lamports, open |-> wallet.open,
               tokens |-> wallet.tokens, unsynced |-> 0]}
        ELSE executed(after[i - 1], transaction[i], payout)
  IN  after

outcome(transaction, payout) ==
  {[lamports |-> w.lamports, open |-> w.open, tokens |-> w.tokens] :
     w \in run(transaction, payout)[Len(transaction)]}

-----------------------------------------------------------------------------
(* swap, await by await.                                                   *)
step(s, record) == session' = [session EXCEPT ![s] = record]

(* The pool is fetched; an error ends the call.                            *)
FetchPool(s, order) ==
  /\ session[s].stage = "idle"
  /\ step(s, [stage |-> "pool", order |-> order])
  /\ UNCHANGED <<pool, wallet, changes>>

(* fetchPoolConfig tries twice and gives null if it has failed twice.      *)
FetchConfig(s) ==
  \E fetched \in ConfigFetches :
    /\ session[s].stage = "pool"
    /\ step(s, [stage |-> "config", order |-> session[s].order,
                tokenBaseProgram |-> IF fetched = "config" /\ pool.tokenType = 0
                                     THEN TOKEN_PROGRAM_ID ELSE TOKEN_2022_PROGRAM_ID])
    /\ UNCHANGED <<pool, wallet, changes>>

inputTokenAccount(order)  == getAssociatedTokenAddressSync(inputTokenMint(order), TOKEN_PROGRAM_ID)
outputTokenAccount(order) == getAssociatedTokenAddressSync(outputTokenMint(order), TOKEN_PROGRAM_ID)

CheckInput(s) ==
  /\ session[s].stage = "config"
  /\ step(s, [stage |-> "input", order |-> session[s].order,
              tokenBaseProgram |-> session[s].tokenBaseProgram,
              inputExists |-> inputTokenAccount(session[s].order) \in wallet.open,
              since |-> changes])
  /\ UNCHANGED <<pool, wallet, changes>>

(* Wrong: the payer is taken to have the account it sells into.            *)
create_missing_input_only(order, inputExists, outputExists) ==
  IF inputExists \/ inputTokenMint(order) = NATIVE_MINT THEN <<>>
  ELSE << createAssociatedTokenAccountInstruction(
            inputTokenAccount(order), inputTokenMint(order), TOKEN_PROGRAM_ID) >>

create_missing(order, inputExists, outputExists) ==
  LET create(account, mint) ==
        << createAssociatedTokenAccountInstruction(account, mint, TOKEN_PROGRAM_ID) >>
  IN  (IF inputExists \/ inputTokenMint(order) = NATIVE_MINT THEN <<>>
       ELSE create(inputTokenAccount(order), inputTokenMint(order)))
      \o (IF outputExists THEN <<>>
          ELSE create(outputTokenAccount(order), outputTokenMint(order)))

wrap_input(order, inputExists) ==
  IF inputTokenMint(order) = NATIVE_MINT /\ order.amountIn # 0
  THEN (IF inputExists THEN <<>>
        ELSE << createAssociatedTokenAccountInstruction(
                  inputTokenAccount(order), NATIVE_MINT, TOKEN_PROGRAM_ID) >>)
       \o wrapSOLInstruction(inputTokenAccount(order), order.amountIn)
  ELSE <<>>

unwrap_output(order) ==
  IF outputTokenMint(order) = NATIVE_MINT THEN << unwrapSOLInstruction >> ELSE <<>>

swap_transaction(order, inputExists, outputExists, tokenBaseProgram) ==
  create_missing(order, inputExists, outputExists)
    \o wrap_input(order, inputExists)
    \o << swapInstruction(order, tokenBaseProgram) >>
    \o unwrap_output(order)

CheckOutput(s) ==
  LET order        == session[s].order
      outputExists == outputTokenAccount(order) \in wallet.open
  IN  /\ session[s].stage = "input"
      /\ step(s, [stage |-> "built", order |-> order, since |-> session[s].since,
                  tokenBaseProgram |-> session[s].tokenBaseProgram,
                  transaction |->
                    swap_transaction(order, session[s].inputExists, outputExists,
                                     session[s].tokenBaseProgram)])
      /\ UNCHANGED <<pool, wallet, changes>>

(* The caller signs and sends; the transaction lands or fails.  A landed   *)
(* one changes accounts, which other sessions may have looked at.          *)
Land(s) ==
  /\ session[s].stage = "built"
  /\ \E payout \in Payouts : \E after \in outcome(session[s].transaction, payout) :
       /\ wallet' = after
       /\ changes' = IF after.open = wallet.open THEN changes ELSE changes + 1
       /\ step(s, [stage |-> "landed", order |-> session[s].order, payout |-> payout])
  /\ UNCHANGED pool

Drop(s) ==
  /\ session[s].stage \in {"pool", "config", "input", "built"}
  /\ step(s, [stage |-> "dropped"])
  /\ UNCHANGED <<pool, wallet, changes>>

(* In between: the user or anyone opens an account, the user closes an     *)
(* empty one.                                                              *)
OpenAccount(account) ==
  /\ changes < MAX_CHANGES
  /\ account \notin wallet.open
  /\ account[2] = token_program_of(account[1])
  /\ wallet' = [wallet EXCEPT !.open = @ \cup {account}]
  /\ changes' = changes + 1
  /\ UNCHANGED <<pool, session>>

CloseAccount(account) ==
  /\ changes < MAX_CHANGES
  /\ account \in wallet.open
  /\ wallet.tokens[account] = 0
  /\ wallet' = [wallet EXCEPT !.open = @ \ {account}, !.lamports = @ + RENT]
  /\ changes' = changes + 1
  /\ UNCHANGED <<pool, session>>

traded_accounts == {pool.quoteMint, baseMint} \X {TOKEN_PROGRAM_ID, TOKEN_2022_PROGRAM_ID}

SwapClientNext ==
  \/ \E s \in Sessions :
       \/ \E order \in Order : FetchPool(s, order)
       \/ FetchConfig(s)
       \/ CheckInput(s)
       \/ CheckOutput(s)
       \/ Land(s)
       \/ Drop(s)
  \/ \E account \in traded_accounts : OpenAccount(account) \/ CloseAccount(account)

SwapClientSpec == SwapClientInit /\ [][SwapClientNext]_swap_client_vars

-----------------------------------------------------------------------------
(* What the user can pay for: the input and the deposits, SOL for SOL.     *)
missing_accounts(order) ==
  {inputTokenAccount(order), outputTokenAccount(order)} \ wallet.open

affords(order) ==
  LET deposits == RENT * Cardinality(missing_accounts(order))
  IN  IF inputTokenMint(order) = NATIVE_MINT
      THEN wallet.lamports >= deposits + order.amountIn
      ELSE /\ wallet.lamports >= deposits
           /\ wallet.tokens[inputTokenAccount(order)] >= order.amountIn

(* The program would make this swap: something to trade, a good price.     *)
acceptable(order) == order.amountIn > 0 /\ \E payout \in Payouts : payout >= order.minimumAmountOut

lands(s) == \E payout \in Payouts : outcome(session[s].transaction, payout) # {}

built(s) == session[s].stage = "built" /\ affords(session[s].order) /\ acceptable(session[s].order)

receives_sol(s) == outputTokenMint(session[s].order) = NATIVE_MINT

-----------------------------------------------------------------------------
(* If its config arrived, and no account was opened or closed since swap   *)
(* began to look, its transaction can land: every account it uses is there *)
(* or is created, and none twice.  (For the payout in SOL see              *)
(* SolPayoutLands.)                                                        *)
UndisturbedSwapLands ==
  \A s \in Sessions :
    /\ built(s)
    /\ session[s].tokenBaseProgram = token_program_of(baseMint)
    /\ session[s].since = changes
    /\ ~receives_sol(s)
    => lands(s)

exactly_paid(s) ==
  LET order    == session[s].order
      in       == inputTokenAccount(order)
      out      == outputTokenAccount(order)
      deposits == RENT * Cardinality(wallet'.open \ wallet.open)
      sol_in   == IF inputTokenMint(order) = NATIVE_MINT THEN order.amountIn ELSE 0
  IN  /\ session'[s].payout >= order.minimumAmountOut
      /\ wallet.lamports = wallet'.lamports + deposits + sol_in
      /\ wallet'.tokens =
           [wallet.tokens EXCEPT ![in]  = @ - (order.amountIn - sol_in),
                                 ![out] = @ + session'[s].payout]

landing(s) == session[s].stage = "built" /\ session'[s].stage = "landed"

(* A landed swap costs the user the input and gives the payout, no less    *)
(* than the minimum; apart from deposits no lamport moves, and what was    *)
(* wrapped or held before stays, whatever the other sessions did.          *)
SwapIsExact ==
  [][\A s \in Sessions : landing(s) => exactly_paid(s)]_swap_client_vars

(* swap.ts: "If output is SOL, add unwrap instruction for after the swap". *)
SolPayoutLands ==
  \A s \in Sessions : built(s) /\ session[s].since = changes /\ receives_sol(s) => lands(s)

(* swap.ts: "Determine token programs based on config state": the swap     *)
(* names the program of the base token the pool has, if it gets so far.    *)
TokenProgramDetermined ==
  \A s \in Sessions :
    session[s].stage = "built" => session[s].tokenBaseProgram = token_program_of(baseMint)

(* swap.ts: "Get or create the associated token accounts".                 *)
GetOrCreate ==
  \A s \in Sessions : built(s) /\ ~receives_sol(s) => lands(s)

=============================================================================
