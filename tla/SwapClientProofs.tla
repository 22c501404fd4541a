-------------------------- MODULE SwapClientProofs --------------------------
(***************************************************************************)
(* Swapping from the client, for any number of sessions, pools and         *)
(* amounts: what lands moves exactly the order, and what nobody disturbs   *)
(* can land.                                                               *)
(***************************************************************************)
EXTENDS MCClient, FiniteSetTheorems, SequenceTheorems, TLAPS

-----------------------------------------------------------------------------
(* A transaction of swap has at most six instructions: a run of it has     *)
(* that many steps, each from what the one before left.                    *)
IsRun(start, transaction_, payout, n, f) ==
  f = [i \in 0 .. n |->
         IF i = 0 THEN start
         ELSE Swapping!executed(f[i - 1], transaction_[i], payout)]

(* A run that exists can be continued by one instruction.                  *)
LEMMA LongerRun ==
  ASSUME NEW start, NEW tx, NEW payout, NEW n \in Nat, \E f : IsRun(start, tx, payout, n, f)
  PROVE  \E f : IsRun(start, tx, payout, n + 1, f)
<1>1. PICK f : IsRun(start, tx, payout, n, f)
  OBVIOUS
<1> DEFINE next == Swapping!executed(f[n], tx[n + 1], payout)
           g    == [i \in 0 .. n + 1 |-> IF i <= n THEN f[i] ELSE next]
<1>2. ASSUME NEW i \in 0 .. n + 1
      PROVE  g[i] = IF i = 0 THEN start
                    ELSE Swapping!executed(g[i - 1], tx[i], payout)
  <2>1. CASE i = 0
    BY <1>1, <2>1 DEF IsRun
  <2>2. CASE i \in 1 .. n
    BY <1>1, <2>2 DEF IsRun
  <2>3. CASE i = n + 1
    BY <1>1, <2>3 DEF IsRun
  <2>4. QED
    BY <2>1, <2>2, <2>3
<1>3. IsRun(start, tx, payout, n + 1, g)
  BY <1>2 DEF IsRun
<1> HIDE DEF g
<1>4. QED
  BY <1>3

(* So run has the values its definition asks for.                          *)
LEMMA Runs ==
  ASSUME NEW tx, Len(tx) \in 0 .. 6, NEW payout
  PROVE  LET f == Swapping!run(tx, payout)
         IN  /\ f[0] = {[lamports |-> wallet.lamports, open |-> wallet.open,
                         tokens |-> wallet.tokens, unsynced |-> 0]}
             /\ \A i \in 1 .. Len(tx) :
                  f[i] = Swapping!executed(f[i - 1], tx[i], payout)
<1> DEFINE start == {[lamports |-> wallet.lamports, open |-> wallet.open,
                      tokens |-> wallet.tokens, unsynced |-> 0]}
           Is(f) == f = [i \in 0 .. Len(tx) |->
                           IF i = 0 THEN start
                           ELSE Swapping!executed(f[i - 1], tx[i], payout)]
<1>1. Swapping!run(tx, payout) = CHOOSE f : Is(f)
  BY DEF Swapping!run
<1> HIDE DEF start
<1>2. \E f : Is(f)
  <2> DEFINE Exists(n) == \E f : IsRun(start, tx, payout, n, f)
  <2>1. Exists(0)
    <3>1. IsRun(start, tx, payout, 0, [i \in 0 .. 0 |-> start])
      BY DEF IsRun
    <3>2. QED
      BY <3>1
  <2>2. \A n \in Nat : Exists(n) => Exists(n + 1)
    BY LongerRun
  <2> HIDE DEF Exists
  <2>3. Exists(1) /\ Exists(2) /\ Exists(3)
    BY <2>1, <2>2
  <2>4. Exists(4) /\ Exists(5) /\ Exists(6)
    BY <2>2, <2>3
  <2>5. Exists(Len(tx))
    <3>1. Len(tx) \in {0, 1, 2, 3, 4, 5, 6}
      OBVIOUS
    <3>2. QED
      BY <2>1, <2>3, <2>4, <3>1
  <2>6. QED
    BY <2>5 DEF Exists, IsRun
<1>3. Is(Swapping!run(tx, payout))
  <2> HIDE DEF Is
  <2>1. Is(CHOOSE f : Is(f))
    BY <1>2
  <2>2. QED
    BY <1>1, <2>1
<1>4. Len(tx) \in Nat
  OBVIOUS
<1> DEFINE f == Swapping!run(tx, payout)
           n == Len(tx)
<1>5. /\ f[0] = start
      /\ \A i \in 1 .. n : f[i] = Swapping!executed(f[i - 1], tx[i], payout)
  <2> HIDE DEF f, n
  <2>1. f = [i \in 0 .. n |-> IF i = 0 THEN start ELSE Swapping!executed(f[i - 1], tx[i], payout)]
    BY <1>3 DEF f, n
  <2>2. n \in Nat
    BY <1>4 DEF n
  <2>3. QED
    BY <2>1, <2>2
<1>6. QED
  BY <1>5 DEF start

-----------------------------------------------------------------------------
(* The transactions swap builds.                                           *)
input(order)  == Swapping!inputTokenAccount(order)
output(order) == Swapping!outputTokenAccount(order)

create_input(order) ==
  Swapping!createAssociatedTokenAccountInstruction(
    input(order), Swapping!inputTokenMint(order), "Token")

create_output(order) ==
  Swapping!createAssociatedTokenAccountInstruction(
    output(order), Swapping!outputTokenMint(order), "Token")

transfer(order) == [to |-> "System", account |-> input(order), lamports |-> order.amountIn]
sync(order)     == [to |-> "Token", data |-> 17, account |-> input(order)]

(* What is created first, in which order.                                  *)
creations(order, inputExists, outputExists) ==
  IF Swapping!inputTokenMint(order) = "SOL"
  THEN (IF outputExists THEN <<>> ELSE << create_output(order) >>)
         \o (IF inputExists \/ order.amountIn = 0 THEN <<>> ELSE << create_input(order) >>)
  ELSE (IF inputExists THEN <<>> ELSE << create_input(order) >>)
         \o (IF outputExists THEN <<>> ELSE << create_output(order) >>)

(* These are creations of the two accounts of the swap, and nothing else.  *)
LEMMA Creations ==
  ASSUME NEW order, NEW i \in BOOLEAN, NEW o \in BOOLEAN
  PROVE  LET made == creations(order, i, o)
         IN  /\ Len(made) \in 0 .. 2
             /\ \A k \in 1 .. Len(made) : made[k] \in {create_input(order), create_output(order)}
BY DEF creations

(* The creations come first.                                               *)
BeginsWith(tx, made) == \A k \in 1 .. Len(made) : tx[k] = made[k]

longer(made, ix) == made \o <<ix>>

(* One instruction more.                                                   *)
LEMMA Longer ==
  ASSUME NEW S, NEW made \in Seq(S), NEW ix \in S
  PROVE  /\ longer(made, ix) \in Seq(S)
         /\ Len(longer(made, ix)) = Len(made) + 1
         /\ BeginsWith(longer(made, ix), made)
         /\ longer(made, ix)[Len(made) + 1] = ix
<1>1. longer(made, ix) = Append(made, ix)
  BY AppendIsConcat DEF longer
<1>2. QED
  BY <1>1, AppendProperties DEF BeginsWith

(* A swap from SOL: create, transfer, sync, swap.                          *)
IsSolSwap(tx, order, made, program) ==
  /\ Len(tx) = Len(made) + 3 /\ BeginsWith(tx, made)
  /\ tx[Len(made) + 1] = transfer(order)
  /\ tx[Len(made) + 2] = sync(order)
  /\ tx[Len(made) + 3] = Swapping!swapInstruction(order, program)

(* This is what swap builds for SOL in ...                                 *)
LEMMA SolSwap ==
  ASSUME NEW order, NEW i \in BOOLEAN, NEW o \in BOOLEAN, NEW program,
         Swapping!inputTokenMint(order) = "SOL", Swapping!outputTokenMint(order) # "SOL",
         order.amountIn # 0,
         NEW tx, tx = Swapping!swap_transaction(order, i, o, program)
  PROVE  IsSolSwap(tx, order, creations(order, i, o), program)
<1> USE DEF Swapping!NATIVE_MINT, Swapping!TOKEN_PROGRAM_ID
<1> DEFINE made == creations(order, i, o)
           co   == create_output(order)
           ci   == create_input(order)
           sw   == Swapping!swapInstruction(order, program)
<1>1. Swapping!create_missing(order, i, o) = IF o THEN <<>> ELSE <<co>>
  BY DEF Swapping!create_missing, create_output, output
<1>2. Swapping!wrap_input(order, i) =
        (IF i THEN <<>> ELSE <<ci>>) \o <<transfer(order), sync(order)>>
  BY DEF Swapping!wrap_input, create_input, input, transfer, sync, Swapping!wrapSOLInstruction
<1>3. Swapping!unwrap_output(order) = <<>>
  BY DEF Swapping!unwrap_output
<1>4. tx =
        (IF o THEN <<>> ELSE <<co>>) \o ((IF i THEN <<>> ELSE <<ci>>) \o <<transfer(order), sync(order)>>)
          \o <<sw>> \o <<>>
  BY <1>1, <1>2, <1>3 DEF Swapping!swap_transaction
<1>5. made = (IF o THEN <<>> ELSE <<co>>) \o (IF i THEN <<>> ELSE <<ci>>)
  BY DEF creations
<1> HIDE DEF made, co, ci, sw
<1>6. /\ Len(tx) = Len(made) + 3 /\ \A k \in 1 .. Len(made) : tx[k] = made[k]
      /\ tx[Len(made) + 1] = transfer(order) /\ tx[Len(made) + 2] = sync(order)
      /\ tx[Len(made) + 3] = sw
  BY <1>4, <1>5
<1>7. QED
  BY <1>6 DEF made, sw, IsSolSwap, BeginsWith

(* Any other: create, swap, and unwrap where SOL comes out.                *)
IsPlainSwap(tx, order, made, program) ==
  /\ BeginsWith(tx, made)
  /\ tx[Len(made) + 1] = Swapping!swapInstruction(order, program)
  /\ IF Swapping!outputTokenMint(order) = "SOL"
     THEN Len(tx) = Len(made) + 2 /\ tx[Len(made) + 2] = Swapping!unwrapSOLInstruction
     ELSE Len(tx) = Len(made) + 1

(* ... and this for all else.                                              *)
LEMMA PlainSwap ==
  ASSUME NEW order, NEW i \in BOOLEAN, NEW o \in BOOLEAN, NEW program,
         Swapping!inputTokenMint(order) # "SOL" \/ order.amountIn = 0,
         NEW tx, tx = Swapping!swap_transaction(order, i, o, program)
  PROVE  IsPlainSwap(tx, order, creations(order, i, o), program)
<1> USE DEF Swapping!NATIVE_MINT, Swapping!TOKEN_PROGRAM_ID
<1> DEFINE made == creations(order, i, o)
           ci   == create_input(order)
           co   == create_output(order)
           sw   == Swapping!swapInstruction(order, program)
           un   == Swapping!unwrapSOLInstruction
           sol  == Swapping!inputTokenMint(order) = "SOL"
           pays_sol == Swapping!outputTokenMint(order) = "SOL"
<1>1. Swapping!create_missing(order, i, o) =
        (IF i \/ sol THEN <<>> ELSE <<ci>>) \o (IF o THEN <<>> ELSE <<co>>)
  BY DEF Swapping!create_missing, create_input, input, create_output, output
<1>2. Swapping!wrap_input(order, i) = <<>>
  BY DEF Swapping!wrap_input
<1>3. Swapping!unwrap_output(order) = IF pays_sol THEN <<un>> ELSE <<>>
  BY DEF Swapping!unwrap_output
<1>4. tx =
        ((IF i \/ sol THEN <<>> ELSE <<ci>>) \o (IF o THEN <<>> ELSE <<co>>)) \o <<>> \o <<sw>>
          \o (IF pays_sol THEN <<un>> ELSE <<>>)
  BY <1>1, <1>2, <1>3 DEF Swapping!swap_transaction
<1>5. made = (IF i \/ sol THEN <<>> ELSE <<ci>>) \o (IF o THEN <<>> ELSE <<co>>)
  BY DEF creations
<1> HIDE DEF made, ci, co, sw, un, sol, pays_sol
<1>6. /\ \A k \in 1 .. Len(made) : tx[k] = made[k]
      /\ tx[Len(made) + 1] = sw
      /\ IF pays_sol THEN Len(tx) = Len(made) + 2 /\ tx[Len(made) + 2] = un
                     ELSE Len(tx) = Len(made) + 1
  <2> DEFINE Instructions == {ci, co, sw, un}
  <2>1. made \in Seq(Instructions) /\ sw \in Instructions /\ un \in Instructions
    BY <1>5
  <2> HIDE DEF Instructions
  <2>2. PICK upto : upto = longer(made, sw)
    OBVIOUS
  <2>3. /\ upto \in Seq(Instructions) /\ Len(upto) = Len(made) + 1
        /\ BeginsWith(upto, made) /\ upto[Len(made) + 1] = sw
    BY <2>1, <2>2, Longer
  <2>4. made \o <<>> = made /\ upto \o <<>> = upto
    BY <2>1, <2>3, ConcatEmptySeq
  <2>5. CASE pays_sol
    <3>1. tx = longer(upto, un)
      BY <1>4, <1>5, <2>2, <2>4, <2>5 DEF longer
    <3>2. Len(tx) = Len(upto) + 1 /\ BeginsWith(tx, upto) /\ tx[Len(upto) + 1] = un
      <4>1. upto \in Seq(Instructions) /\ un \in Instructions
        BY <2>1, <2>3
      <4>2. /\ Len(longer(upto, un)) = Len(upto) + 1
            /\ BeginsWith(longer(upto, un), upto) /\ longer(upto, un)[Len(upto) + 1] = un
        BY <4>1, Longer
      <4>3. QED
        BY <3>1, <4>2
    <3>3. Len(made) \in Nat
      BY <2>1
    <3>4. QED
      BY <2>3, <2>5, <3>2, <3>3 DEF BeginsWith
  <2>6. CASE ~ pays_sol
    <3>1. tx = upto
      BY <1>4, <1>5, <2>2, <2>4, <2>6 DEF longer
    <3>2. QED
      BY <2>3, <2>6, <3>1 DEF BeginsWith
  <2>7. QED
    BY <2>5, <2>6
<1>7. QED
  BY <1>6 DEF made, sw, un, pays_sol, IsPlainSwap, BeginsWith

-----------------------------------------------------------------------------
(* What the instructions do to a wallet.                                   *)
TypedPool == pool \in [quoteMint : {"SOL", "USDC"}, tokenType : Nat]

TypedWallet(w) ==
  /\ w.lamports \in Nat
  /\ w.open \subseteq Swapping!TokenAccounts
  /\ w.tokens \in [Swapping!TokenAccounts -> Nat]

opened(w)   == w.open \ wallet.open
deposits(w) == RENT * Cardinality(opened(w))

(* A wallet after accounts were opened, and nothing else.                  *)
Opened(w) ==
  /\ wallet.open \subseteq w.open /\ w.open \subseteq Swapping!TokenAccounts
  /\ IsFiniteSet(opened(w))
  /\ w.lamports \in Nat /\ wallet.lamports = w.lamports + deposits(w)
  /\ w.tokens = wallet.tokens /\ w.unsynced = 0

(* The two accounts are different, and are accounts of the token program.  *)
LEMMA Accounts ==
  ASSUME NEW order \in Swapping!Order, TypedPool
  PROVE  /\ input(order) \in Swapping!TokenAccounts /\ output(order) \in Swapping!TokenAccounts
         /\ input(order) # output(order)
         /\ input(order) = <<Swapping!inputTokenMint(order), "Token">>
         /\ output(order) = <<Swapping!outputTokenMint(order), "Token">>
         /\ {Swapping!inputTokenMint(order), Swapping!outputTokenMint(order)} = {pool.quoteMint, "BASE"}
<1> USE DEF Swapping!TOKEN_PROGRAM_ID, Swapping!baseMint
<1>1. /\ Swapping!inputTokenMint(order) = IF order.sells THEN "BASE" ELSE pool.quoteMint
      /\ Swapping!outputTokenMint(order) = IF order.sells THEN pool.quoteMint ELSE "BASE"
  BY DEF Swapping!inputTokenMint, Swapping!outputTokenMint
<1>2. /\ input(order) = <<Swapping!inputTokenMint(order), "Token">>
      /\ output(order) = <<Swapping!outputTokenMint(order), "Token">>
  BY DEF input, output, Swapping!inputTokenAccount, Swapping!outputTokenAccount,
         Swapping!getAssociatedTokenAddressSync
<1>3. pool.quoteMint \in {"SOL", "USDC"}
  BY DEF TypedPool
<1>4. QED
  BY <1>1, <1>2, <1>3 DEF Swapping!TokenAccounts

created(w, account) == [w EXCEPT !.lamports = @ - RENT, !.open = @ \cup {account}]

(* Creating an account takes the deposit, if there is no account yet.      *)
LEMMA CreateStep ==
  ASSUME NEW order \in Swapping!Order, TypedPool,
         NEW ix \in {create_input(order), create_output(order)}, NEW w, NEW payout, NEW v
  PROVE  v \in Swapping!execute(w, ix, payout) <=>
           /\ ix.account \notin w.open /\ ix.program = Swapping!token_program_of(ix.mint)
           /\ ~ (w.lamports < RENT)
           /\ v = created(w, ix.account)
<1>1. /\ ix.to = "AssociatedToken" /\ ix.program = "Token"
      /\ ix.account = <<ix.mint, "Token">>
  BY Accounts DEF create_input, create_output, Swapping!createAssociatedTokenAccountInstruction
<1>2. Swapping!execute(w, ix, payout) = Swapping!associated_token(w, ix)
  BY <1>1 DEF Swapping!execute, Swapping!TOKEN_PROGRAM_ID
<1>3. QED
  BY <1>1, <1>2 DEF Swapping!associated_token, Swapping!getAssociatedTokenAddressSync, created

(* It leaves a wallet that has one more account and one deposit less ...   *)
LEMMA OpenedStep ==
  ASSUME NEW order \in Swapping!Order, TypedPool,
         NEW ix \in {create_input(order), create_output(order)}, NEW payout,
         NEW w, Opened(w), NEW v \in Swapping!execute(w, ix, payout)
  PROVE  Opened(v)
<1>1. ix.account \in Swapping!TokenAccounts
  BY Accounts DEF create_input, create_output, Swapping!createAssociatedTokenAccountInstruction
<1>2. /\ ix.account \notin w.open /\ w.lamports >= RENT
      /\ v = [w EXCEPT !.lamports = @ - RENT, !.open = @ \cup {ix.account}]
  <2>2. ix.account \notin w.open /\ ~ (w.lamports < RENT) /\ v = created(w, ix.account)
    BY CreateStep
  <2>3. w.lamports \in Nat /\ RENT \in Nat
    BY SwapClientAssumption DEF Opened
  <2>4. QED
    BY <2>2, <2>3 DEF created
<1>3. /\ v.lamports = w.lamports - RENT /\ v.open = w.open \cup {ix.account}
      /\ v.tokens = w.tokens /\ v.unsynced = w.unsynced
  BY <1>2
<1>4. opened(v) = opened(w) \cup {ix.account} /\ ix.account \notin opened(w)
  BY <1>2, <1>3 DEF opened, Opened
<1>5. /\ IsFiniteSet(opened(v)) /\ Cardinality(opened(v)) = Cardinality(opened(w)) + 1
      /\ Cardinality(opened(w)) \in Nat
  BY <1>4, FS_AddElement, FS_CardinalityType DEF Opened
<1>6. deposits(v) = deposits(w) + RENT /\ deposits(w) \in Nat
  <2>1. \A n \in Nat : RENT * (n + 1) = RENT * n + RENT /\ RENT * n \in Nat
    BY SwapClientAssumption
  <2>2. QED
    BY <1>5, <2>1 DEF deposits
<1>7. v.lamports \in Nat /\ wallet.lamports = v.lamports + deposits(v)
  BY <1>2, <1>3, <1>6, SwapClientAssumption DEF Opened
<1>8. QED
  BY <1>1, <1>3, <1>5, <1>7 DEF Opened

(* ... and so does every creation a transaction begins with.               *)
LEMMA OpenedRuns ==
  ASSUME NEW order \in Swapping!Order, TypedPool, TypedWallet(wallet), NEW payout,
         NEW tx, Len(tx) \in 0 .. 6, NEW n \in 0 .. 2, n <= Len(tx),
         \A k \in 1 .. n : tx[k] \in {create_input(order), create_output(order)},
         NEW v \in Swapping!run(tx, payout)[n]
  PROVE  Opened(v)
<1> DEFINE run == Swapping!run(tx, payout)
<1>1. /\ run[0] = {[lamports |-> wallet.lamports, open |-> wallet.open,
                    tokens |-> wallet.tokens, unsynced |-> 0]}
      /\ \A i \in 1 .. Len(tx) : run[i] = Swapping!executed(run[i - 1], tx[i], payout)
  BY Runs
<1> HIDE DEF run
<1>2. ASSUME NEW w \in run[0] PROVE Opened(w)
  <2>1. /\ w.lamports = wallet.lamports /\ w.open = wallet.open
        /\ w.tokens = wallet.tokens /\ w.unsynced = 0
    BY <1>1, <1>2
  <2>2. opened(w) = {}
    BY <2>1 DEF opened
  <2>3. IsFiniteSet(opened(w)) /\ Cardinality(opened(w)) = 0
    BY <2>2, FS_EmptySet
  <2>4. deposits(w) = 0
    BY <2>3, SwapClientAssumption DEF deposits
  <2>5. QED
    BY <2>1, <2>3, <2>4 DEF Opened, TypedWallet
<1>3. ASSUME NEW k \in 1 .. n, \A w \in run[k - 1] : Opened(w), NEW w \in run[k]
      PROVE  Opened(w)
  <2>1. run[k] = Swapping!executed(run[k - 1], tx[k], payout)
    BY <1>1
  <2>2. PICK u \in run[k - 1] : w \in Swapping!execute(u, tx[k], payout)
    BY <1>3, <2>1 DEF Swapping!executed
  <2>3. QED
    BY <1>3, <2>2, OpenedStep
<1>4. CASE n = 0
  BY <1>2, <1>4 DEF run
<1>5. CASE n = 1
  BY <1>2, <1>3, <1>5 DEF run
<1>6. CASE n = 2
  <2>1. \A w \in run[1] : Opened(w)
    BY <1>2, <1>3, <1>6
  <2>2. QED
    BY <1>3, <1>6, <2>1 DEF run
<1>7. QED
  BY <1>4, <1>5, <1>6

transferred(w, order) ==
  [w EXCEPT !.lamports = @ - order.amountIn, !.unsynced = @ + order.amountIn]

synced(w, order) == [w EXCEPT !.tokens[input(order)] = @ + w.unsynced, !.unsynced = 0]

swapped(w, order, payout) ==
  [w EXCEPT !.tokens[input(order)] = @ - order.amountIn, !.tokens[output(order)] = @ + payout]

(* SOL for the swap: transferred, then shown as tokens.                    *)
LEMMA TransferStep ==
  ASSUME NEW order, NEW payout, NEW w, NEW v
  PROVE  v \in Swapping!execute(w, transfer(order), payout)
           <=> ~ (w.lamports < order.amountIn) /\ v = transferred(w, order)
<1>1. Swapping!execute(w, transfer(order), payout) = Swapping!system(w, transfer(order))
  BY DEF Swapping!execute, transfer, Swapping!TOKEN_PROGRAM_ID
<1>2. QED
  BY <1>1 DEF Swapping!system, transfer, transferred

(* SyncNative fails without the account.                                   *)
LEMMA SyncStep ==
  ASSUME NEW order, NEW payout, NEW w, NEW v
  PROVE  v \in Swapping!execute(w, sync(order), payout)
           <=> input(order) \in w.open /\ v = synced(w, order)
<1>1. Swapping!execute(w, sync(order), payout) = Swapping!token(w, sync(order))
  BY DEF Swapping!execute, sync, Swapping!TOKEN_PROGRAM_ID
<1>2. QED
  BY <1>1 DEF Swapping!token, sync, synced

(* The swap needs both accounts and the input, and pays the payout.        *)
LEMMA SwapStep ==
  ASSUME NEW order, NEW program, NEW payout, NEW w, NEW v
  PROVE  v \in Swapping!execute(w, Swapping!swapInstruction(order, program), payout) <=>
           /\ {input(order), output(order)} \subseteq w.open
           /\ program = Swapping!token_program_of(Swapping!baseMint)
           /\ order.amountIn > 0
           /\ w.tokens[input(order)] >= order.amountIn
           /\ payout >= order.minimumAmountOut
           /\ v = swapped(w, order, payout)
<1> DEFINE ix == Swapping!swapInstruction(order, program)
<1>1. /\ ix.to = "VirtualCurve" /\ ix.order = order /\ ix.tokenBaseProgram = program
      /\ ix.input = input(order) /\ ix.output = output(order)
  BY DEF Swapping!swapInstruction, input, output, Swapping!inputTokenAccount,
         Swapping!outputTokenAccount
<1>2. Swapping!execute(w, ix, payout) = Swapping!virtual_curve(w, ix, payout)
  BY <1>1 DEF Swapping!execute, Swapping!TOKEN_PROGRAM_ID
<1> HIDE DEF ix
<1>3. QED
  BY <1>1, <1>2 DEF Swapping!virtual_curve, swapped, ix

(* The client's unwrap instruction is none the token program knows.        *)
LEMMA UnwrapStep ==
  ASSUME NEW payout, NEW w
  PROVE  Swapping!execute(w, Swapping!unwrapSOLInstruction, payout) = {}
<1> DEFINE ix == Swapping!unwrapSOLInstruction
<1>1. ix.to = "Token" /\ ix.data = 20
  BY DEF Swapping!unwrapSOLInstruction, Swapping!TOKEN_PROGRAM_ID
<1>2. Swapping!execute(w, ix, payout) = Swapping!token(w, ix)
  BY <1>1 DEF Swapping!execute, Swapping!TOKEN_PROGRAM_ID
<1> HIDE DEF ix
<1>3. QED
  BY <1>1, <1>2 DEF Swapping!token, ix

(* What a wallet of a run came from.                                       *)
LEMMA StepBack ==
  ASSUME NEW tx, Len(tx) \in 0 .. 6, NEW payout, NEW i \in 1 .. Len(tx), NEW j, j = i - 1,
         NEW v \in Swapping!run(tx, payout)[i]
  PROVE  \E u \in Swapping!run(tx, payout)[j] : v \in Swapping!execute(u, tx[i], payout)
<1>1. Swapping!run(tx, payout)[i]
        = Swapping!executed(Swapping!run(tx, payout)[i - 1], tx[i], payout)
  BY Runs
<1>2. QED
  BY <1>1 DEF Swapping!executed

(* What is left when the swap is done.                                     *)
Exact(order, payout, after) ==
  LET sol_in == IF Swapping!inputTokenMint(order) = "SOL" THEN order.amountIn ELSE 0
  IN  /\ payout >= order.minimumAmountOut
      /\ wallet.lamports = after.lamports + deposits(after) + sol_in
      /\ after.tokens =
           [wallet.tokens EXCEPT ![input(order)]  = @ - (order.amountIn - sol_in),
                                 ![output(order)] = @ + payout]

wrapped(tokens, in, more) == [tokens EXCEPT ![in] = @ + more]

traded(tokens, in, out, paid, received) ==
  [tokens EXCEPT ![in] = @ - paid, ![out] = @ + received]

(* What is wrapped for the swap is what the swap takes.                    *)
LEMMA TakeAndGive ==
  ASSUME NEW Held, NEW tokens \in [Held -> Nat], NEW in \in Held, NEW out \in Held, in # out,
         NEW a \in Nat, NEW payout \in Nat
  PROVE  traded(wrapped(tokens, in, a), in, out, a, payout) = traded(tokens, in, out, a - a, payout)
<1> DEFINE more == wrapped(tokens, in, a)
           left == traded(more, in, out, a, payout)
<1>1. /\ more \in [Held -> Nat]
      /\ \A account \in Held : more[account] = IF account = in THEN tokens[in] + a ELSE tokens[account]
  BY DEF wrapped
<1> HIDE DEF more
<1>2. /\ left = [account \in Held |-> left[account]]
      /\ \A account \in Held : left[account] = IF account = in THEN more[in] - a
                                       ELSE IF account = out THEN more[out] + payout
                                       ELSE more[account]
  BY <1>1 DEF traded
<1>3. more[in] - a = tokens[in] - (a - a) /\ more[out] = tokens[out]
  BY <1>1
<1> HIDE DEF left
<1>4. left = traded(tokens, in, out, a - a, payout)
  BY <1>1, <1>2, <1>3 DEF traded
<1>5. QED
  BY <1>4 DEF left, more

(* SOL in: two steps wrap it, the third swaps it.                          *)
LEMMA SolRunExact ==
  ASSUME NEW order \in Swapping!Order, TypedPool, TypedWallet(wallet), NEW program,
         NEW payout \in Payouts, Swapping!inputTokenMint(order) = "SOL",
         NEW tx, NEW n \in 0 .. 2, NEW n1, n1 = n + 1, NEW n2, n2 = n + 2, NEW n3, n3 = n + 3,
         Len(tx) = n3,
         \A k \in 1 .. n : tx[k] \in {create_input(order), create_output(order)},
         tx[n1] = transfer(order), tx[n2] = sync(order),
         tx[n3] = Swapping!swapInstruction(order, program),
         NEW w \in Swapping!run(tx, payout)[n3]
  PROVE  Exact(order, payout, w) /\ TypedWallet(w)
<1> DEFINE run  == Swapping!run(tx, payout)
           a    == order.amountIn
           in   == input(order)
           out  == output(order)
<1>1. in \in Swapping!TokenAccounts /\ out \in Swapping!TokenAccounts /\ in # out
  BY Accounts
<1>2. a \in Nat /\ payout \in Nat
  BY SwapClientAssumption DEF Swapping!Order
<1>3. Len(tx) \in 0 .. 6 /\ n <= Len(tx)
  OBVIOUS
<1>n. /\ n1 \in 1 .. Len(tx) /\ n = n1 - 1
      /\ n2 \in 1 .. Len(tx) /\ n1 = n2 - 1
      /\ n3 \in 1 .. Len(tx) /\ n2 = n3 - 1
  OBVIOUS
<1>4. PICK w2 \in run[n2] : w \in Swapping!execute(w2, tx[n3], payout)
  BY <1>3, <1>n, StepBack
<1>5. PICK w1 \in run[n1] : w2 \in Swapping!execute(w1, tx[n2], payout)
  BY <1>3, <1>n, StepBack
<1>6. PICK w0 \in run[n] : w1 \in Swapping!execute(w0, tx[n1], payout)
  BY <1>3, <1>n, StepBack
<1>7. Opened(w0)
  BY <1>3, OpenedRuns
<1> HIDE DEF run, a, in, out
<1>8. /\ ~ (w0.lamports < a)
      /\ w1 = [w0 EXCEPT !.lamports = @ - a, !.unsynced = @ + a]
  <2>1. ~ (w0.lamports < order.amountIn) /\ w1 = transferred(w0, order)
    BY <1>6, TransferStep
  <2>2. QED
    BY <2>1 DEF a, transferred
<1>9. w2 = [w1 EXCEPT !.tokens[in] = @ + w1.unsynced, !.unsynced = 0]
  <2>1. w2 = synced(w1, order)
    BY <1>5, SyncStep
  <2>2. QED
    BY <2>1 DEF in, synced
<1>10. /\ payout >= order.minimumAmountOut
       /\ w = [w2 EXCEPT !.tokens[in] = @ - a, !.tokens[out] = @ + payout]
  <2>1. payout >= order.minimumAmountOut /\ w = swapped(w2, order, payout)
    BY <1>4, SwapStep
  <2>2. QED
    BY <2>1 DEF in, out, a, swapped
<1>11. /\ w0.lamports \in Nat /\ w0.tokens = wallet.tokens /\ w0.unsynced = 0
       /\ wallet.lamports = w0.lamports + deposits(w0)
       /\ w0.open \subseteq Swapping!TokenAccounts
       /\ wallet.tokens \in [Swapping!TokenAccounts -> Nat]
  BY <1>7 DEF Opened, TypedWallet
<1>12. /\ w1.lamports = w0.lamports - a /\ w1.unsynced = a /\ w1.tokens = wallet.tokens
       /\ w1.open = w0.open
  BY <1>2, <1>8, <1>11
<1>13. /\ w2.lamports = w0.lamports - a /\ w2.open = w0.open
       /\ w2.tokens = [wallet.tokens EXCEPT ![in] = @ + a]
  BY <1>9, <1>12
<1>14. /\ w.lamports = w0.lamports - a /\ w.open = w0.open
       /\ w.tokens = [w2.tokens EXCEPT ![in] = @ - a, ![out] = @ + payout]
  BY <1>10, <1>13
<1>15. w.tokens = [wallet.tokens EXCEPT ![in] = @ - (a - a), ![out] = @ + payout]
  <2>1. w.tokens = traded(w2.tokens, in, out, a, payout)
    BY <1>14 DEF traded
  <2>2. w2.tokens = wrapped(wallet.tokens, in, a)
    BY <1>13 DEF wrapped
  <2>3. wallet.tokens \in [Swapping!TokenAccounts -> Nat]
    BY <1>11
  <2>4. traded(wrapped(wallet.tokens, in, a), in, out, a, payout)
          = traded(wallet.tokens, in, out, a - a, payout)
    BY <1>1, <1>2, <2>3, TakeAndGive
  <2>5. QED
    BY <2>1, <2>2, <2>4 DEF traded
<1>16. w.tokens \in [Swapping!TokenAccounts -> Nat] /\ w.lamports \in Nat
  <2>1. wallet.tokens[in] - (a - a) = wallet.tokens[in]
    BY <1>1, <1>2, <1>11
  <2>2. wallet.tokens[out] + payout \in Nat
    BY <1>1, <1>2, <1>11
  <2>3. w.tokens = [wallet.tokens EXCEPT ![out] = @ + payout]
    BY <1>1, <1>11, <1>15, <2>1
  <2>4. w.lamports \in Nat
    BY <1>2, <1>8, <1>11, <1>14
  <2>5. QED
    BY <1>1, <1>11, <2>2, <2>3, <2>4
<1>17. wallet.lamports = w.lamports + deposits(w) + a
  <2>1. deposits(w) = deposits(w0)
    BY <1>14 DEF deposits, opened
  <2>2. deposits(w0) \in Nat
    <3>1. Cardinality(opened(w0)) \in Nat
      BY <1>7, FS_CardinalityType DEF Opened
    <3>2. \A m \in Nat : RENT * m \in Nat
      BY SwapClientAssumption
    <3>3. QED
      BY <3>1, <3>2 DEF deposits
  <2>3. QED
    BY <1>2, <1>8, <1>11, <1>14, <2>1, <2>2
<1>18. QED
  BY <1>10, <1>11, <1>14, <1>15, <1>16, <1>17 DEF Exact, TypedWallet, a, in, out

(* Anything else in, which nothing has to wrap.                            *)
LEMMA PlainRunExact ==
  ASSUME NEW order \in Swapping!Order, TypedPool, TypedWallet(wallet), NEW program,
         NEW payout \in Payouts,
         Swapping!inputTokenMint(order) # "SOL" \/ order.amountIn = 0,
         NEW tx, NEW n \in 0 .. 2, NEW n1, n1 = n + 1, Len(tx) \in 1 .. 6, n1 <= Len(tx),
         \A k \in 1 .. n : tx[k] \in {create_input(order), create_output(order)},
         tx[n1] = Swapping!swapInstruction(order, program),
         NEW w \in Swapping!run(tx, payout)[n1]
  PROVE  Exact(order, payout, w) /\ TypedWallet(w)
<1> DEFINE run  == Swapping!run(tx, payout)
           a    == order.amountIn
           in   == input(order)
           out  == output(order)
<1>1. in \in Swapping!TokenAccounts /\ out \in Swapping!TokenAccounts /\ in # out
  BY Accounts
<1>2. a \in Nat /\ payout \in Nat
  BY SwapClientAssumption DEF Swapping!Order
<1>3. Len(tx) \in 0 .. 6 /\ n <= Len(tx) /\ n1 \in 1 .. Len(tx) /\ n = n1 - 1
  OBVIOUS
<1>4. PICK w0 \in run[n] : w \in Swapping!execute(w0, tx[n1], payout)
  BY <1>3, StepBack
<1>5. Opened(w0)
  BY <1>3, OpenedRuns
<1> HIDE DEF run, a, in, out
<1>6. /\ payout >= order.minimumAmountOut /\ a > 0 /\ w0.tokens[in] >= a
      /\ w = [w0 EXCEPT !.tokens[in] = @ - a, !.tokens[out] = @ + payout]
  <2>1. /\ order.amountIn > 0 /\ w0.tokens[input(order)] >= order.amountIn
        /\ payout >= order.minimumAmountOut /\ w = swapped(w0, order, payout)
    BY <1>4, SwapStep
  <2>2. QED
    BY <2>1 DEF in, out, a, swapped
<1>7. Swapping!inputTokenMint(order) # "SOL"
  BY <1>6 DEF a
<1>8. /\ w0.lamports \in Nat /\ w0.tokens = wallet.tokens
      /\ wallet.lamports = w0.lamports + deposits(w0)
      /\ w0.open \subseteq Swapping!TokenAccounts
      /\ wallet.tokens \in [Swapping!TokenAccounts -> Nat]
  BY <1>5 DEF Opened, TypedWallet
<1>9. /\ w.lamports = w0.lamports /\ w.open = w0.open
      /\ w.tokens = [wallet.tokens EXCEPT ![in] = @ - a, ![out] = @ + payout]
  BY <1>6, <1>8
<1>10. w.tokens = [wallet.tokens EXCEPT ![in] = @ - (a - 0), ![out] = @ + payout]
  BY <1>1, <1>2, <1>8, <1>9
<1>11. w.tokens \in [Swapping!TokenAccounts -> Nat]
  <2>1. wallet.tokens[in] - a \in Nat /\ wallet.tokens[out] + payout \in Nat
    BY <1>1, <1>2, <1>6, <1>8
  <2>2. QED
    BY <1>1, <1>8, <1>9, <2>1
<1>12. deposits(w) = deposits(w0) /\ deposits(w0) \in Nat
  <2>1. Cardinality(opened(w0)) \in Nat
    BY <1>5, FS_CardinalityType DEF Opened
  <2>2. \A m \in Nat : RENT * m \in Nat
    BY SwapClientAssumption
  <2>3. QED
    BY <1>9, <2>1, <2>2 DEF deposits, opened
<1>13. wallet.lamports = w.lamports + deposits(w) + 0
  BY <1>8, <1>9, <1>12
<1>14. QED
  BY <1>6, <1>7, <1>8, <1>9, <1>10, <1>11, <1>13 DEF Exact, TypedWallet, a, in, out

(* Whatever swap found open when it looked.                                *)
LEMMA SwapExact ==
  ASSUME NEW order \in Swapping!Order, TypedPool, TypedWallet(wallet), NEW program,
         NEW payout \in Payouts, NEW i \in BOOLEAN, NEW o \in BOOLEAN,
         NEW after \in Swapping!outcome(Swapping!swap_transaction(order, i, o, program), payout)
  PROVE  Exact(order, payout, after) /\ TypedWallet(after)
<1>1. PICK tx : tx = Swapping!swap_transaction(order, i, o, program)
  OBVIOUS
<1>2. PICK n, n1, n2, n3 :
        n = Len(creations(order, i, o)) /\ n1 = n + 1 /\ n2 = n + 2 /\ n3 = n + 3
  OBVIOUS
<1>3. PICK w \in Swapping!run(tx, payout)[Len(tx)] :
        after = [lamports |-> w.lamports, open |-> w.open, tokens |-> w.tokens]
  BY <1>1 DEF Swapping!outcome
<1>4. /\ n \in 0 .. 2
      /\ \A k \in 1 .. n : creations(order, i, o)[k] \in {create_input(order), create_output(order)}
  BY <1>2, Creations
<1>5. SUFFICES Exact(order, payout, w) /\ TypedWallet(w)
  BY <1>3 DEF Exact, TypedWallet, deposits, opened
<1>6. CASE Swapping!inputTokenMint(order) = "SOL" /\ order.amountIn # 0
  <2>1. Swapping!outputTokenMint(order) # "SOL"
    BY <1>6, Accounts DEF input, output
  <2>2. /\ Len(tx) = n3 /\ \A k \in 1 .. n : tx[k] = creations(order, i, o)[k]
        /\ tx[n1] = transfer(order) /\ tx[n2] = sync(order)
        /\ tx[n3] = Swapping!swapInstruction(order, program)
    <3>1. IsSolSwap(tx, order, creations(order, i, o), program)
      BY <1>1, <1>6, <2>1, SolSwap
    <3>2. QED
      BY <1>2, <3>1 DEF IsSolSwap, BeginsWith
  <2>3. \A k \in 1 .. n : tx[k] \in {create_input(order), create_output(order)}
    BY <1>4, <2>2
  <2>4. w \in Swapping!run(tx, payout)[n3]
    BY <1>3, <2>2
  <2>5. QED
    BY <1>2, <1>4, <1>6, <2>2, <2>3, <2>4, SolRunExact
<1>7. CASE Swapping!inputTokenMint(order) # "SOL" \/ order.amountIn = 0
  <2>1. /\ \A k \in 1 .. n : tx[k] = creations(order, i, o)[k]
        /\ tx[n1] = Swapping!swapInstruction(order, program)
        /\ IF Swapping!outputTokenMint(order) = "SOL"
           THEN Len(tx) = n2 /\ tx[n2] = Swapping!unwrapSOLInstruction
           ELSE Len(tx) = n1
    <3>1. IsPlainSwap(tx, order, creations(order, i, o), program)
      BY <1>1, <1>7, PlainSwap
    <3>2. QED
      BY <1>2, <3>1 DEF IsPlainSwap, BeginsWith
  <2>2. n1 \in 1 .. 3 /\ n2 \in 2 .. 4 /\ n1 = n2 - 1 /\ n1 <= n2
    BY <1>2, <1>4
  <2>3. Swapping!outputTokenMint(order) # "SOL"
    <3>1. SUFFICES ASSUME Swapping!outputTokenMint(order) = "SOL" PROVE FALSE
      OBVIOUS
    <3>2. Len(tx) = n2 /\ tx[n2] = Swapping!unwrapSOLInstruction
      BY <2>1, <3>1
    <3>3. Len(tx) \in 0 .. 6 /\ n2 \in 1 .. Len(tx)
      BY <2>2, <3>2
    <3>4. w \in Swapping!run(tx, payout)[n2]
      BY <1>3, <3>2
    <3>5. PICK u : w \in Swapping!execute(u, tx[n2], payout)
      BY <2>2, <3>3, <3>4, StepBack
    <3>6. QED
      BY <3>2, <3>5, UnwrapStep
  <2>4. Len(tx) = n1
    BY <2>1, <2>3
  <2>5. Len(tx) \in 1 .. 6 /\ n1 <= Len(tx)
    BY <2>2, <2>4
  <2>6. \A k \in 1 .. n : tx[k] \in {create_input(order), create_output(order)}
    BY <1>4, <2>1
  <2>7. w \in Swapping!run(tx, payout)[n1]
    BY <1>3, <2>4
  <2>8. QED
    BY <1>2, <1>4, <1>7, <2>1, <2>5, <2>6, <2>7, PlainRunExact
<1>8. QED
  BY <1>6, <1>7

-----------------------------------------------------------------------------
(* The other way round: what lets a transaction go through.                *)
LEMMA StepOn ==
  ASSUME NEW tx, Len(tx) \in 0 .. 6, NEW payout, NEW i \in 1 .. Len(tx), NEW j, j = i - 1,
         NEW u \in Swapping!run(tx, payout)[j], NEW v \in Swapping!execute(u, tx[i], payout)
  PROVE  v \in Swapping!run(tx, payout)[i]
<1>1. Swapping!run(tx, payout)[i]
        = Swapping!executed(Swapping!run(tx, payout)[i - 1], tx[i], payout)
  BY Runs
<1>2. QED
  BY <1>1 DEF Swapping!executed

missing(order) == {input(order), output(order)} \ wallet.open

(* What is missing is what SwapClient says is missing, and can be          *)
(* counted.                                                                *)
LEMMA Missing ==
  ASSUME NEW order
  PROVE  /\ IsFiniteSet(missing(order)) /\ Cardinality(missing(order)) \in Nat
         /\ missing(order) = Swapping!missing_accounts(order)
<1>1. IsFiniteSet({input(order), output(order)})
  <2>1. IsFiniteSet({input(order)})
    BY FS_Singleton
  <2>2. IsFiniteSet({input(order)} \cup {output(order)})
    BY <2>1, FS_AddElement
  <2>3. {input(order)} \cup {output(order)} = {input(order), output(order)}
    OBVIOUS
  <2>4. QED
    BY <2>2, <2>3
<1>2. missing(order) \subseteq {input(order), output(order)}
  BY DEF missing
<1>3. IsFiniteSet(missing(order)) /\ Cardinality(missing(order)) \in Nat
  BY <1>1, <1>2, FS_Subset, FS_CardinalityType
<1>4. missing(order) = Swapping!missing_accounts(order)
  BY DEF missing, input, output, Swapping!missing_accounts
<1>5. QED
  BY <1>3, <1>4

(* Deposits for all that is missing pay for each account that is.          *)
LEMMA Affordable ==
  ASSUME NEW order \in Swapping!Order, TypedPool, NEW u, Opened(u),
         wallet.lamports >= RENT * Cardinality(missing(order)), TypedWallet(wallet),
         NEW account \in missing(order), account \notin u.open,
         opened(u) \subseteq missing(order)
  PROVE  u.lamports >= RENT
<1> DEFINE m == Cardinality(missing(order))
           c == Cardinality(opened(u))
<1>1. IsFiniteSet(missing(order)) /\ m \in Nat
  BY Missing
<1>2. IsFiniteSet(opened(u)) /\ c \in Nat
  BY FS_CardinalityType DEF Opened
<1>3. Cardinality(opened(u) \cup {account}) = c + 1
  BY <1>2, FS_AddElement DEF opened
<1>4. c + 1 <= m
  <2>1. opened(u) \cup {account} \subseteq missing(order)
    OBVIOUS
  <2>2. QED
    BY <1>1, <1>3, <2>1, FS_Subset
<1>5. wallet.lamports = u.lamports + RENT * c /\ u.lamports \in Nat /\ wallet.lamports \in Nat
  BY DEF Opened, deposits, TypedWallet
<1> HIDE DEF m, c
<1>6. RENT * m >= RENT * c + RENT
  <2>1. \A R, x, y \in Nat : x + 1 <= y => R * y >= R * x + R
    <3>1. SUFFICES ASSUME NEW R \in Nat, NEW x \in Nat, NEW y \in Nat, x + 1 <= y
                   PROVE  R * y >= R * x + R
      OBVIOUS
    <3>2. PICK d \in Nat : y = x + 1 + d
      <4>1. y - (x + 1) \in Nat /\ y = x + 1 + (y - (x + 1))
        BY <3>1
      <4>2. QED
        BY <4>1
    <3>3. R * y = R * x + R + R * d /\ R * d \in Nat /\ R * x \in Nat
      BY <3>2
    <3>4. QED
      BY <3>3
  <2>2. QED
    BY <1>1, <1>2, <1>4, <2>1, SwapClientAssumption
<1>7. wallet.lamports >= RENT * m
  BY DEF m
<1>8. RENT * m \in Nat /\ RENT * c \in Nat /\ RENT \in Nat
  BY <1>1, <1>2, SwapClientAssumption
<1>9. QED
  BY <1>5, <1>6, <1>7, <1>8

create(order, account) ==
  IF account = input(order) THEN create_input(order) ELSE create_output(order)

(* So creating a missing account succeeds.                                 *)
LEMMA CreateOn ==
  ASSUME NEW order \in Swapping!Order, TypedPool, TypedWallet(wallet), pool.tokenType = 0,
         NEW payout, NEW tx, Len(tx) \in 0 .. 6, NEW k \in 1 .. Len(tx), NEW j, j = k - 1,
         NEW account \in missing(order), tx[k] = create(order, account),
         NEW u \in Swapping!run(tx, payout)[j], Opened(u),
         account \notin u.open, opened(u) \subseteq missing(order),
         wallet.lamports >= RENT * Cardinality(missing(order))
  PROVE  \E v \in Swapping!run(tx, payout)[k] : Opened(v) /\ v.open = u.open \cup {account}
<1> DEFINE ix == create(order, account)
           v  == created(u, account)
<1>1. /\ ix \in {create_input(order), create_output(order)}
      /\ ix.account = account /\ ix.program = "Token"
  BY DEF create, missing, create_input, create_output,
         Swapping!createAssociatedTokenAccountInstruction
<1>2. Swapping!token_program_of(ix.mint) = "Token"
  BY DEF Swapping!token_program_of, Swapping!TOKEN_PROGRAM_ID
<1> HIDE DEF ix, v
<1>3. u.lamports >= RENT
  BY Affordable
<1>4. ~ (u.lamports < RENT)
  BY <1>3, SwapClientAssumption DEF Opened
<1>5. /\ ix.account \notin u.open /\ ix.program = Swapping!token_program_of(ix.mint)
      /\ v = created(u, ix.account)
  BY <1>1, <1>2 DEF v
<1>6. v \in Swapping!execute(u, ix, payout)
  BY <1>1, <1>4, <1>5, CreateStep
<1>7. Opened(v)
  BY <1>1, <1>6, OpenedStep
<1>8. v.open = u.open \cup {account}
  BY DEF Opened, v, created
<1>9. tx[k] = ix
  BY DEF ix
<1>10. v \in Swapping!run(tx, payout)[k]
  BY <1>6, <1>9, StepOn
<1>11. QED
  BY <1>7, <1>8, <1>10

(* One creation for every account that is missing.                         *)
CreatesMissing(order, made) ==
  \/ Len(made) = 0 /\ missing(order) = {}
  \/ \E x : Len(made) = 1 /\ made[1] = create(order, x) /\ missing(order) = {x}
  \/ \E x, y : /\ Len(made) = 2 /\ made[1] = create(order, x) /\ made[2] = create(order, y)
              /\ missing(order) = {x, y} /\ x # y

(* A sequence of two.                                                      *)
LEMMA Two ==
  ASSUME NEW a, NEW b
  PROVE  Len(<<a>> \o <<b>>) = 2 /\ (<<a>> \o <<b>>)[1] = a /\ (<<a>> \o <<b>>)[2] = b
OBVIOUS

(* If what was seen is still so, exactly the missing accounts are created  *)
(* ...                                                                     *)
LEMMA Made ==
  ASSUME NEW order \in Swapping!Order, TypedPool, order.amountIn # 0,
         NEW i \in BOOLEAN, i <=> input(order) \in wallet.open,
         NEW o \in BOOLEAN, o <=> output(order) \in wallet.open
  PROVE  CreatesMissing(order, creations(order, i, o))
<1> DEFINE made == creations(order, i, o)
           in   == input(order)
           out  == output(order)
<1>1. in # out
  BY Accounts
<1>2. create(order, in) = create_input(order) /\ create(order, out) = create_output(order)
  BY <1>1 DEF create
<1>3. missing(order) = (IF i THEN {} ELSE {in}) \cup (IF o THEN {} ELSE {out})
  BY <1>1 DEF missing
<1> DEFINE ci == create_input(order)
           co == create_output(order)
           sol == Swapping!inputTokenMint(order) = "SOL"
<1>a. made = IF sol
             THEN (IF o THEN <<>> ELSE <<co>>) \o (IF i THEN <<>> ELSE <<ci>>)
             ELSE (IF i THEN <<>> ELSE <<ci>>) \o (IF o THEN <<>> ELSE <<co>>)
  BY DEF creations
<1>b. create(order, in) = ci /\ create(order, out) = co
  BY <1>2
<1> HIDE DEF made, in, out, ci, co, sol
<1>4. CASE i /\ o
  <2>1. Len(made) = 0
    BY <1>a, <1>4
  <2>2. QED
    BY <1>3, <1>4, <2>1 DEF made, CreatesMissing
<1>5. CASE i /\ ~ o
  <2>1. Len(made) = 1 /\ made[1] = co
    BY <1>a, <1>5
  <2>2. QED
    BY <1>b, <1>3, <1>5, <2>1 DEF made, CreatesMissing
<1>6. CASE ~ i /\ o
  <2>1. Len(made) = 1 /\ made[1] = ci
    BY <1>a, <1>6
  <2>2. QED
    BY <1>b, <1>3, <1>6, <2>1 DEF made, CreatesMissing
<1>7. CASE ~ i /\ ~ o /\ sol
  <2>a. made = <<co>> \o <<ci>>
    BY <1>a, <1>7
  <2>b. /\ Len(<<co>> \o <<ci>>) = 2
        /\ (<<co>> \o <<ci>>)[1] = co /\ (<<co>> \o <<ci>>)[2] = ci
    BY Two
  <2>1. Len(made) = 2 /\ made[1] = co /\ made[2] = ci
    BY <2>a, <2>b
  <2>2. QED
    BY <1>1, <1>b, <1>3, <1>7, <2>1 DEF made, CreatesMissing
<1>8. CASE ~ i /\ ~ o /\ ~ sol
  <2>1. Len(made) = 2 /\ made[1] = ci /\ made[2] = co
    BY <1>a, <1>8
  <2>2. QED
    BY <1>1, <1>b, <1>3, <1>8, <2>1 DEF made, CreatesMissing
<1>9. QED
  BY <1>4, <1>5, <1>6, <1>7, <1>8

(* ... which leaves a wallet that has all of them.                         *)
LEMMA CreatedRun ==
  ASSUME NEW order \in Swapping!Order, TypedPool, TypedWallet(wallet), pool.tokenType = 0,
         order.amountIn # 0,
         NEW i \in BOOLEAN, i <=> input(order) \in wallet.open,
         NEW o \in BOOLEAN, o <=> output(order) \in wallet.open,
         wallet.lamports >= RENT * Cardinality(missing(order)),
         NEW payout, NEW tx, Len(tx) \in 0 .. 6,
         NEW n, n = Len(creations(order, i, o)), n <= Len(tx),
         BeginsWith(tx, creations(order, i, o))
  PROVE  \E u \in Swapping!run(tx, payout)[n] :
           Opened(u) /\ u.open = wallet.open \cup missing(order)
<1> DEFINE run  == Swapping!run(tx, payout)
           made == creations(order, i, o)
           start == [lamports |-> wallet.lamports, open |-> wallet.open,
                     tokens |-> wallet.tokens, unsynced |-> 0]
<1>1. start \in run[0]
  BY Runs
<1>2. Opened(start) /\ start.open = wallet.open /\ opened(start) = {}
  <2>1. /\ start.lamports = wallet.lamports /\ start.open = wallet.open
        /\ start.tokens = wallet.tokens /\ start.unsynced = 0
    OBVIOUS
  <2> HIDE DEF start
  <2>2. opened(start) = {}
    BY <2>1 DEF opened
  <2>3. IsFiniteSet(opened(start)) /\ Cardinality(opened(start)) = 0
    BY <2>2, FS_EmptySet
  <2>4. deposits(start) = 0
    BY <2>3, SwapClientAssumption DEF deposits
  <2>5. QED
    BY <2>1, <2>2, <2>3, <2>4 DEF Opened, TypedWallet
<1>4. n = Len(made) /\ \A k \in 1 .. n : tx[k] = made[k]
  BY DEF BeginsWith
<1>5. \A x \in missing(order) : x \notin wallet.open
  BY DEF missing
<1> HIDE DEF run, made, start
<1>3. CreatesMissing(order, made)
  BY Made DEF made
<1>6. CASE Len(made) = 0 /\ missing(order) = {}
  BY <1>1, <1>2, <1>4, <1>6 DEF run
<1>7. ASSUME NEW x, Len(made) = 1, made[1] = create(order, x), missing(order) = {x}
      PROVE  \E u \in run[n] : Opened(u) /\ u.open = wallet.open \cup missing(order)
  <2>1. n = 1 /\ tx[1] = create(order, x) /\ 1 \in 1 .. Len(tx)
    BY <1>4, <1>7
  <2>2. x \in missing(order) /\ x \notin start.open /\ opened(start) \subseteq missing(order)
    BY <1>2, <1>5, <1>7
  <2>3. \E v \in run[1] : Opened(v) /\ v.open = start.open \cup {x}
    BY <1>1, <1>2, <2>1, <2>2, CreateOn DEF run
  <2>4. QED
    BY <1>2, <1>7, <2>1, <2>3
<1>8. ASSUME NEW x, NEW y, Len(made) = 2,
             made[1] = create(order, x), made[2] = create(order, y), missing(order) = {x, y}, x # y
      PROVE  \E u \in run[n] : Opened(u) /\ u.open = wallet.open \cup missing(order)
  <2>1. /\ n = 2 /\ tx[1] = create(order, x) /\ tx[2] = create(order, y)
        /\ 1 \in 1 .. Len(tx) /\ 2 \in 1 .. Len(tx)
    BY <1>4, <1>8
  <2>2. x \in missing(order) /\ x \notin start.open /\ opened(start) \subseteq missing(order)
    BY <1>2, <1>5, <1>8
  <2>3. PICK v \in run[1] : Opened(v) /\ v.open = start.open \cup {x}
    BY <1>1, <1>2, <2>1, <2>2, CreateOn DEF run
  <2>4. y \in missing(order) /\ y \notin v.open /\ opened(v) \subseteq missing(order)
    BY <1>2, <1>5, <1>8, <2>3 DEF opened
  <2>5. \E u \in run[2] : Opened(u) /\ u.open = v.open \cup {y}
    BY <2>1, <2>3, <2>4, CreateOn DEF run
  <2>6. QED
    BY <1>2, <1>8, <2>1, <2>3, <2>5
<1>9. QED
  BY <1>3, <1>6, <1>7, <1>8 DEF run, CreatesMissing

(* SwapClient's Cardinality is the library's.                              *)
LEMMA SameCardinality ==
  ASSUME NEW S
  PROVE  Swapping!Cardinality(S) = Cardinality(S)
BY DEF Swapping!Cardinality, Cardinality

(* What affords says, in the terms used here.                              *)
LEMMA Afforded ==
  ASSUME NEW order \in Swapping!Order, Swapping!affords(order), TypedWallet(wallet)
  PROVE  /\ wallet.lamports >= RENT * Cardinality(missing(order))
         /\ IF Swapping!inputTokenMint(order) = "SOL"
            THEN wallet.lamports >= RENT * Cardinality(missing(order)) + order.amountIn
            ELSE wallet.tokens[input(order)] >= order.amountIn
<1> DEFINE m == RENT * Cardinality(missing(order))
<1>1. m \in Nat
  <2>1. \A n \in Nat : RENT * n \in Nat
    BY SwapClientAssumption
  <2>2. QED
    BY <2>1, Missing
<1>2. wallet.lamports \in Nat /\ order.amountIn \in Nat
  BY SwapClientAssumption DEF TypedWallet, Swapping!Order
<1>3. IF Swapping!inputTokenMint(order) = "SOL"
      THEN wallet.lamports >= m + order.amountIn
      ELSE wallet.lamports >= m /\ wallet.tokens[input(order)] >= order.amountIn
  <2>1. m = RENT * Cardinality(Swapping!missing_accounts(order))
    BY Missing
  <2>2. m = RENT * Swapping!Cardinality(Swapping!missing_accounts(order))
    BY <2>1, SameCardinality
  <2> HIDE DEF m
  <2>3. QED
    BY <2>2 DEF Swapping!affords, Swapping!NATIVE_MINT, input
<1> HIDE DEF m
<1>4. wallet.lamports >= m
  BY <1>1, <1>2, <1>3
<1>5. QED
  BY <1>3, <1>4 DEF m

(* A swap that saw the accounts as they are goes through.                  *)
LEMMA SwapOn ==
  ASSUME NEW order \in Swapping!Order, TypedPool, TypedWallet(wallet), pool.tokenType = 0,
         NEW i \in BOOLEAN, i <=> input(order) \in wallet.open,
         NEW o \in BOOLEAN, o <=> output(order) \in wallet.open,
         Swapping!affords(order), order.amountIn > 0,
         Swapping!outputTokenMint(order) # "SOL",
         NEW payout \in Payouts, payout >= order.minimumAmountOut,
         NEW program, program = Swapping!token_program_of(Swapping!baseMint)
  PROVE  Swapping!outcome(Swapping!swap_transaction(order, i, o, program), payout) # {}
<1>0. PICK tx : tx = Swapping!swap_transaction(order, i, o, program)
  OBVIOUS
<1> DEFINE made == creations(order, i, o)
           run  == Swapping!run(tx, payout)
           a    == order.amountIn
           in   == input(order)
           out  == output(order)
<1>1. in \in Swapping!TokenAccounts /\ out \in Swapping!TokenAccounts /\ in # out
  BY Accounts
<1>2. a \in Nat /\ payout \in Nat /\ a # 0
  <2>1. a \in Nat /\ payout \in Nat
    BY SwapClientAssumption DEF Swapping!Order
  <2>2. QED
    BY <2>1
<1>3. PICK n : n = Len(made)
  OBVIOUS
<1>4. n \in 0 .. 2
  BY <1>3, Creations
<1>5. ASSUME NEW w \in run[Len(tx)]
      PROVE  Swapping!outcome(tx, payout) # {}
  <2>1. [lamports |-> w.lamports, open |-> w.open, tokens |-> w.tokens]
          \in Swapping!outcome(tx, payout)
    BY DEF Swapping!outcome
  <2>2. QED
    BY <2>1
<1>6. wallet.lamports >= RENT * Cardinality(missing(order))
  BY Afforded
<1>7. ASSUME Len(tx) \in 0 .. 6, n <= Len(tx), \A k \in 1 .. n : tx[k] = made[k]
      PROVE  \E u \in run[n] : Opened(u) /\ u.open = wallet.open \cup missing(order)
  <2>1. order.amountIn # 0 /\ n = Len(creations(order, i, o))
    BY <1>2, <1>3
  <2>2. Len(tx) \in 0 .. 6 /\ n <= Len(tx) /\ BeginsWith(tx, creations(order, i, o))
    BY <1>3, <1>7 DEF BeginsWith
  <2>3. QED
    BY <1>6, <2>1, <2>2, CreatedRun
<1> HIDE DEF run, a, in, out
<1>8. CASE Swapping!inputTokenMint(order) = "SOL"
  <2>0. order.amountIn # 0
    BY <1>2 DEF a
  <2>1. PICK n1, n2, n3 : n1 = n + 1 /\ n2 = n + 2 /\ n3 = n + 3
    OBVIOUS
  <2>2. /\ Len(tx) = n3 /\ \A k \in 1 .. n : tx[k] = made[k]
        /\ tx[n1] = transfer(order) /\ tx[n2] = sync(order)
        /\ tx[n3] = Swapping!swapInstruction(order, program)
    <3>1. IsSolSwap(tx, order, creations(order, i, o), program)
      BY <1>0, <1>8, <2>0, SolSwap
    <3>2. QED
      BY <1>3, <2>1, <3>1 DEF IsSolSwap, BeginsWith
  <2>3. /\ Len(tx) \in 0 .. 6 /\ n <= Len(tx)
        /\ n1 \in 1 .. Len(tx) /\ n = n1 - 1
        /\ n2 \in 1 .. Len(tx) /\ n1 = n2 - 1
        /\ n3 \in 1 .. Len(tx) /\ n2 = n3 - 1
    <3>1. n1 \in Nat /\ n2 \in Nat /\ n3 \in 0 .. 6 /\ n <= n3
      BY <1>4, <2>1
    <3>2. Len(tx) = n3
      BY <2>2
    <3>3. n1 \in 1 .. n3 /\ n2 \in 1 .. n3 /\ n3 \in 1 .. n3
      BY <1>4, <2>1, <3>1
    <3>4. n = n1 - 1 /\ n1 = n2 - 1 /\ n2 = n3 - 1
      BY <1>4, <2>1
    <3>5. QED
      BY <3>1, <3>2, <3>3, <3>4
  <2>4. PICK u \in run[n] : Opened(u) /\ u.open = wallet.open \cup missing(order)
    BY <1>7, <2>2, <2>3
  <2>5. u.lamports >= a
    <3>1. opened(u) = missing(order)
      BY <2>4 DEF opened, missing
    <3>2. RENT * Cardinality(missing(order)) \in Nat
      <4>1. \A m \in Nat : RENT * m \in Nat
        BY SwapClientAssumption
      <4>2. QED
        BY <4>1, Missing
    <3>3. /\ wallet.lamports = u.lamports + RENT * Cardinality(missing(order))
          /\ u.lamports \in Nat
      BY <2>4, <3>1 DEF Opened, deposits
    <3>4. wallet.lamports >= RENT * Cardinality(missing(order)) + a
      BY <1>8, Afforded DEF a
    <3>5. QED
      BY <1>2, <3>2, <3>3, <3>4
  <2>6. {in, out} \subseteq u.open
    BY <2>4 DEF missing, in, out
  <2>7. u.lamports \in Nat /\ u.tokens = wallet.tokens /\ u.unsynced = 0
        /\ wallet.tokens \in [Swapping!TokenAccounts -> Nat]
    BY <2>4 DEF Opened, TypedWallet
  <2> DEFINE u1 == transferred(u, order)
             u2 == synced(u1, order)
             u3 == swapped(u2, order, payout)
  <2>8. u1.open = u.open /\ u1.tokens = wallet.tokens /\ u1.unsynced = a
    BY <1>2, <2>7 DEF transferred, a
  <2> HIDE DEF u1, u2, u3
  <2>9. u1 \in run[n1]
    <3>1. ~ (u.lamports < order.amountIn)
      BY <1>2, <2>5, <2>7 DEF a
    <3>2. u1 \in Swapping!execute(u, transfer(order), payout)
      BY <3>1, TransferStep DEF u1
    <3>3. QED
      BY <2>2, <2>3, <3>2, StepOn DEF run
  <2>10. u2 \in run[n2]
    <3>1. input(order) \in u1.open
      BY <2>6, <2>8 DEF in
    <3>2. u2 \in Swapping!execute(u1, sync(order), payout)
      BY <3>1, SyncStep DEF u2
    <3>3. QED
      BY <2>2, <2>3, <2>9, <3>2, StepOn DEF run
  <2>11. u2.open = u.open /\ u2.tokens = [wallet.tokens EXCEPT ![in] = @ + a]
    BY <2>8 DEF u2, synced, in
  <2>12. u2.tokens[in] >= a
    BY <1>1, <1>2, <2>7, <2>11
  <2>13. u3 \in run[n3]
    <3>1. {input(order), output(order)} \subseteq u2.open /\ u2.tokens[input(order)] >= order.amountIn
      BY <2>6, <2>11, <2>12 DEF a, in, out
    <3>2. u3 \in Swapping!execute(u2, Swapping!swapInstruction(order, program), payout)
      BY <3>1, SwapStep DEF u3
    <3>3. QED
      BY <2>2, <2>3, <2>10, <3>2, StepOn DEF run
  <2>14. QED
    BY <1>0, <1>5, <2>2, <2>13
<1>9. CASE Swapping!inputTokenMint(order) # "SOL"
  <2>1. PICK n1, n2 : n1 = n + 1 /\ n2 = n + 2
    OBVIOUS
  <2>2. /\ Len(tx) = n1 /\ \A k \in 1 .. n : tx[k] = made[k]
        /\ tx[n1] = Swapping!swapInstruction(order, program)
    <3>1. IsPlainSwap(tx, order, creations(order, i, o), program)
      BY <1>0, <1>9, PlainSwap
    <3>2. QED
      BY <1>3, <2>1, <3>1 DEF IsPlainSwap, BeginsWith
  <2>3. /\ Len(tx) \in 0 .. 6 /\ n <= Len(tx) /\ n1 \in 1 .. Len(tx) /\ n = n1 - 1
    BY <1>4, <2>1, <2>2
  <2>4. PICK u \in run[n] : Opened(u) /\ u.open = wallet.open \cup missing(order)
    BY <1>7, <2>2, <2>3
  <2>5. {in, out} \subseteq u.open /\ u.tokens[in] >= a
    BY <1>9, <2>4, Afforded DEF missing, Opened, in, out, a
  <2> DEFINE v == swapped(u, order, payout)
  <2> HIDE DEF v
  <2>6. v \in Swapping!execute(u, Swapping!swapInstruction(order, program), payout)
    <3>1. {input(order), output(order)} \subseteq u.open /\ u.tokens[input(order)] >= order.amountIn
      BY <2>5 DEF a, in, out
    <3>2. QED
      BY <3>1, SwapStep DEF v
  <2>7. v \in run[n1]
    BY <2>2, <2>3, <2>4, <2>6, StepOn DEF run
  <2>8. QED
    BY <1>0, <1>5, <2>2, <2>7
<1>10. QED
  BY <1>8, <1>9

-----------------------------------------------------------------------------
(* What a call of swap has noted, and while no account was opened or       *)
(* closed since it began to look, what it noted is still so.               *)
Noted(swap) ==
  /\ swap.stage \in {"pool", "config", "input", "built"} => swap.order \in Swapping!Order
  /\ swap.stage = "input" =>
       /\ swap.inputExists \in BOOLEAN
       /\ swap.since \in 0 .. changes
       /\ swap.since = changes => (swap.inputExists <=> input(swap.order) \in wallet.open)
  /\ swap.stage = "built" =>
       /\ swap.since \in 0 .. changes
       /\ \E i, o \in BOOLEAN :
            /\ swap.transaction = Swapping!swap_transaction(swap.order, i, o, swap.tokenBaseProgram)
            /\ swap.since = changes =>
                 /\ i <=> input(swap.order) \in wallet.open
                 /\ o <=> output(swap.order) \in wallet.open

SwapBooks ==
  /\ pool \in Pools /\ changes \in Nat
  /\ TypedWallet(wallet)
  /\ DOMAIN session = Sessions
  /\ \A s \in Sessions : Noted(session[s])

(* The pool does not change, so a transaction means the same afterwards.   *)
LEMMA SamePool ==
  ASSUME pool' = pool, NEW order, NEW i, NEW o, NEW program
  PROVE  /\ input(order)' = input(order) /\ output(order)' = output(order)
         /\ Swapping!swap_transaction(order, i, o, program)'
              = Swapping!swap_transaction(order, i, o, program)
<1>1. /\ Swapping!inputTokenMint(order)' = Swapping!inputTokenMint(order)
      /\ Swapping!outputTokenMint(order)' = Swapping!outputTokenMint(order)
  BY DEF Swapping!inputTokenMint, Swapping!outputTokenMint
<1>2. /\ Swapping!inputTokenAccount(order)' = Swapping!inputTokenAccount(order)
      /\ Swapping!outputTokenAccount(order)' = Swapping!outputTokenAccount(order)
  BY <1>1 DEF Swapping!inputTokenAccount, Swapping!outputTokenAccount
<1>3. Swapping!create_missing(order, i, o)' = Swapping!create_missing(order, i, o)
  BY <1>1, <1>2 DEF Swapping!create_missing
<1>4. Swapping!wrap_input(order, i)' = Swapping!wrap_input(order, i)
  BY <1>1, <1>2 DEF Swapping!wrap_input
<1>5. Swapping!swapInstruction(order, program)' = Swapping!swapInstruction(order, program)
  BY <1>1 DEF Swapping!swapInstruction
<1>6. Swapping!unwrap_output(order)' = Swapping!unwrap_output(order)
  BY <1>1 DEF Swapping!unwrap_output
<1>7. QED
  BY <1>2, <1>3, <1>4, <1>5, <1>6 DEF input, output, Swapping!swap_transaction

(* Accounts are as they were, or the change is counted.                    *)
Counted ==
  \/ changes' = changes /\ wallet'.open = wallet.open
  \/ changes' = changes + 1

(* What was noted stays true, since changes are counted.                   *)
LEMMA NotedStays ==
  ASSUME NEW swap, Noted(swap), pool' = pool, changes \in Nat, Counted
  PROVE  Noted(swap)'
<1>1. /\ input(swap.order)' = input(swap.order)
      /\ output(swap.order)' = output(swap.order)
      /\ \A i, o : Swapping!swap_transaction(swap.order, i, o, swap.tokenBaseProgram)'
                    = Swapping!swap_transaction(swap.order, i, o, swap.tokenBaseProgram)
  BY SamePool
<1>2. ASSUME NEW since, since \in 0 .. changes
      PROVE  /\ since \in 0 .. changes'
             /\ since = changes' => since = changes /\ wallet'.open = wallet.open
  BY <1>2 DEF Counted
<1>3. swap.stage = "input" =>
        /\ swap.inputExists \in BOOLEAN
        /\ swap.since \in 0 .. changes'
        /\ swap.since = changes' =>
             (swap.inputExists <=> input(swap.order)' \in wallet'.open)
  BY <1>1, <1>2 DEF Noted
<1>4. ASSUME swap.stage = "built"
      PROVE  /\ swap.since \in 0 .. changes'
             /\ \E i, o \in BOOLEAN :
                  /\ swap.transaction
                       = Swapping!swap_transaction(swap.order, i, o, swap.tokenBaseProgram)'
                  /\ swap.since = changes' =>
                       /\ i <=> input(swap.order)' \in wallet'.open
                       /\ o <=> output(swap.order)' \in wallet'.open
  <2>1. swap.since \in 0 .. changes
    BY <1>4 DEF Noted
  <2>2. PICK i, o \in BOOLEAN :
          /\ swap.transaction
               = Swapping!swap_transaction(swap.order, i, o, swap.tokenBaseProgram)
          /\ swap.since = changes =>
               /\ i <=> input(swap.order) \in wallet.open
               /\ o <=> output(swap.order) \in wallet.open
    BY <1>4 DEF Noted
  <2>3. swap.transaction
          = Swapping!swap_transaction(swap.order, i, o, swap.tokenBaseProgram)'
    BY <1>1, <2>2
  <2>4. swap.since = changes' =>
       /\ i <=> input(swap.order)' \in wallet'.open
       /\ o <=> output(swap.order)' \in wallet'.open
    BY <1>1, <1>2, <2>1, <2>2
  <2>5. QED
    BY <1>2, <2>1, <2>3, <2>4
<1>5. swap.stage \in {"pool", "config", "input", "built"} => swap.order \in Swapping!Order
  BY DEF Noted
<1>6. QED
  BY <1>3, <1>4, <1>5 DEF Noted

(* Only one call moves; what it notes must be true.                        *)
LEMMA BooksAfter ==
  ASSUME SwapBooks, NEW s \in Sessions, NEW swap,
         session' = [session EXCEPT ![s] = swap], Noted(swap)',
         pool' = pool, changes' \in Nat, Counted, TypedWallet(wallet')
  PROVE  SwapBooks'
<1>1. DOMAIN session' = Sessions
  BY DEF SwapBooks
<1>2. ASSUME NEW t \in Sessions PROVE Noted(session[t])'
  <2>1. CASE t = s
    <3>1. session'[t] = swap
      BY <2>1 DEF SwapBooks
    <3>2. QED
      BY <3>1
  <2>2. CASE t # s
    <3>1. PICK other : other = session[t]
      OBVIOUS
    <3>2. session'[t] = other
      BY <2>2, <3>1 DEF SwapBooks
    <3>3. Noted(other)
      BY <3>1 DEF SwapBooks
    <3>4. Noted(other)'
      BY <3>3, NotedStays DEF SwapBooks
    <3>5. QED
      BY <3>2, <3>4
  <2>3. QED
    BY <2>1, <2>2
<1>3. TypedWallet(wallet)'
  BY DEF TypedWallet
<1>4. QED
  BY <1>1, <1>2, <1>3 DEF SwapBooks

(* The pool is one of Pools.                                               *)
LEMMA PoolIsTyped ==
  ASSUME SwapBooks
  PROVE  TypedPool
BY SwapClientAssumption DEF SwapBooks, TypedPool

(* Whatever a built transaction leaves is exact.                           *)
LEMMA Landed ==
  ASSUME SwapBooks, NEW s \in Sessions, session[s].stage = "built",
         NEW payout \in Payouts,
         NEW after \in Swapping!outcome(session[s].transaction, payout)
  PROVE  Exact(session[s].order, payout, after) /\ TypedWallet(after)
<1>1. PICK swap : swap = session[s]
  OBVIOUS
<1>2. Noted(swap) /\ swap.stage = "built"
  BY <1>1 DEF SwapBooks
<1>3. PICK i, o \in BOOLEAN :
        swap.transaction = Swapping!swap_transaction(swap.order, i, o, swap.tokenBaseProgram)
  BY <1>2 DEF Noted
<1>4. swap.order \in Swapping!Order
  BY <1>2 DEF Noted
<1>5. after \in Swapping!outcome(
        Swapping!swap_transaction(swap.order, i, o, swap.tokenBaseProgram), payout)
  BY <1>1, <1>3
<1>6. Exact(swap.order, payout, after) /\ TypedWallet(after)
  BY <1>4, <1>5, PoolIsTyped, SwapExact DEF SwapBooks
<1>7. QED
  BY <1>1, <1>6

(* At first nothing is noted.                                              *)
LEMMA SwapBooksInit == ClientInit => SwapBooks
<1> SUFFICES ASSUME Swapping!SwapClientInit PROVE SwapBooks
  BY DEF ClientInit
<1>1. pool \in Pools /\ changes \in Nat /\ TypedPool
  BY SwapClientAssumption DEF Swapping!SwapClientInit, TypedPool
<1>2. TypedWallet(wallet)
  <2>1. PICK open \in SUBSET {<<pool.quoteMint, "Token">>,
                              <<"BASE", Swapping!token_program_of("BASE")>>} :
          wallet = [lamports |-> Lamports, open |-> open,
                    tokens |-> [account \in Swapping!TokenAccounts |->
                                  IF account \in open
                                  THEN IF account[1] = "SOL" THEN 1 ELSE Balance
                                  ELSE 0]]
    BY DEF Swapping!SwapClientInit, Swapping!TOKEN_PROGRAM_ID, Swapping!baseMint
  <2>2. open \subseteq Swapping!TokenAccounts
    BY <1>1, <2>1 DEF TypedPool, Swapping!TokenAccounts, Swapping!token_program_of,
       Swapping!TOKEN_PROGRAM_ID, Swapping!TOKEN_2022_PROGRAM_ID
  <2>3. wallet.lamports \in Nat /\ wallet.open = open
    BY <2>1, SwapClientAssumption
  <2>4. wallet.tokens \in [Swapping!TokenAccounts -> Nat]
    BY <2>1, SwapClientAssumption
  <2>5. QED
    BY <2>2, <2>3, <2>4 DEF TypedWallet
<1>3. DOMAIN session = Sessions /\ \A s \in Sessions : session[s].stage = "idle"
  BY DEF Swapping!SwapClientInit
<1>4. \A s \in Sessions : Noted(session[s])
  BY <1>3 DEF Noted
<1>5. QED
  BY <1>1, <1>2, <1>3, <1>4 DEF SwapBooks

(* Whether an account exists, as a value.                                  *)
LEMMA Seen ==
  ASSUME NEW x, NEW S, NEW seen, seen = (x \in S)
  PROVE  seen \in BOOLEAN /\ (seen <=> x \in S)
<1>1. seen \in BOOLEAN
  BY SMT
<1>2. seen <=> x \in S
  BY Zenon
<1>3. QED
  BY <1>1, <1>2

(* The calls look, and only look.                                          *)
LEMMA LookingKeepsBooks ==
  ASSUME SwapBooks, NEW s \in Sessions, UNCHANGED <<pool, wallet, changes>>,
         NEW swap, session' = [session EXCEPT ![s] = swap], Noted(swap)
  PROVE  SwapBooks'
<1>1. Counted /\ pool' = pool /\ changes \in Nat
  BY DEF Counted, SwapBooks
<1>2. Noted(swap)'
  BY <1>1, NotedStays
<1>3. TypedWallet(wallet') /\ changes' \in Nat
  BY DEF SwapBooks
<1>4. QED
  BY <1>1, <1>2, <1>3, BooksAfter

(* The steps of swap up to its transaction: each notes what it sees.       *)
LEMMA SwapStepsKeepBooks ==
  ASSUME SwapBooks, NEW s \in Sessions,
         \/ \E order \in Swapping!Order : Swapping!FetchPool(s, order)
         \/ Swapping!FetchConfig(s) \/ Swapping!CheckInput(s)
         \/ Swapping!CheckOutput(s) \/ Swapping!Drop(s)
  PROVE  SwapBooks'
<1> USE DEF Swapping!step
<1>1. PICK now : now = session[s]
  OBVIOUS
<1>2. Noted(now) /\ changes \in Nat
  BY <1>1 DEF SwapBooks
<1>3. CASE \E order \in Swapping!Order : Swapping!FetchPool(s, order)
  <2>1. PICK order \in Swapping!Order : Swapping!FetchPool(s, order)
    BY <1>3
  <2>2. PICK next : next = [stage |-> "pool", order |-> order]
    OBVIOUS
  <2>3. session' = [session EXCEPT ![s] = next] /\ UNCHANGED <<pool, wallet, changes>>
    BY <2>1, <2>2 DEF Swapping!FetchPool
  <2>4. Noted(next)
    BY <2>2 DEF Noted
  <2>5. QED
    BY <2>3, <2>4, LookingKeepsBooks
<1>4. CASE Swapping!FetchConfig(s)
  <2>1. now.stage = "pool"
    BY <1>1, <1>4 DEF Swapping!FetchConfig
  <2>2. PICK program :
          /\ session' = [session EXCEPT ![s] = [stage |-> "config", order |-> now.order,
                                               tokenBaseProgram |-> program]]
          /\ UNCHANGED <<pool, wallet, changes>>
    BY <1>1, <1>4 DEF Swapping!FetchConfig
  <2>3. PICK next : next = [stage |-> "config", order |-> now.order, tokenBaseProgram |-> program]
    OBVIOUS
  <2>4. Noted(next)
    BY <1>2, <2>1, <2>3 DEF Noted
  <2>5. QED
    BY <2>2, <2>3, <2>4, LookingKeepsBooks
<1>5. CASE Swapping!CheckInput(s)
  <2>1. now.stage = "config"
    BY <1>1, <1>5 DEF Swapping!CheckInput
  <2>a. PICK i : i = (Swapping!inputTokenAccount(now.order) \in wallet.open)
    OBVIOUS
  <2>b. i \in BOOLEAN /\ (i <=> input(now.order) \in wallet.open)
    BY <2>a, Seen DEF input
  <2>2. PICK next :
          next = [stage |-> "input", order |-> now.order,
                  tokenBaseProgram |-> now.tokenBaseProgram,
                  inputExists |-> i, since |-> changes]
    OBVIOUS
  <2>3. session' = [session EXCEPT ![s] = next] /\ UNCHANGED <<pool, wallet, changes>>
    BY <1>1, <1>5, <2>a, <2>2 DEF Swapping!CheckInput
  <2>4. now.order \in Swapping!Order
    BY <1>2, <2>1 DEF Noted
  <2>5. Noted(next)
    BY <1>2, <2>b, <2>2, <2>4 DEF Noted
  <2>6. QED
    BY <2>3, <2>5, LookingKeepsBooks
<1>6. CASE Swapping!CheckOutput(s)
  <2>1. now.stage = "input"
    BY <1>1, <1>6 DEF Swapping!CheckOutput
  <2>2. PICK i, o : /\ i = now.inputExists
                    /\ o = (Swapping!outputTokenAccount(now.order) \in wallet.open)
    OBVIOUS
  <2>3. PICK next :
          next = [stage |-> "built", order |-> now.order, since |-> now.since,
                  tokenBaseProgram |-> now.tokenBaseProgram,
                  transaction |-> Swapping!swap_transaction(now.order, i, o, now.tokenBaseProgram)]
    OBVIOUS
  <2>4. session' = [session EXCEPT ![s] = next] /\ UNCHANGED <<pool, wallet, changes>>
    BY <1>1, <1>6, <2>2, <2>3 DEF Swapping!CheckOutput
  <2>5. /\ now.order \in Swapping!Order /\ i \in BOOLEAN /\ now.since \in 0 .. changes
        /\ now.since = changes => (i <=> input(now.order) \in wallet.open)
    BY <1>2, <2>1, <2>2 DEF Noted
  <2>6. o \in BOOLEAN /\ (o <=> output(now.order) \in wallet.open)
    BY <2>2, Seen DEF output
  <2>7. /\ next.stage = "built" /\ next.order = now.order /\ next.since = now.since
        /\ next.transaction
             = Swapping!swap_transaction(next.order, i, o, next.tokenBaseProgram)
    BY <2>3
  <2>8. Noted(next)
    BY <2>5, <2>6, <2>7 DEF Noted
  <2>9. QED
    BY <2>4, <2>8, LookingKeepsBooks
<1>7. CASE Swapping!Drop(s)
  <2>1. PICK next : next = [stage |-> "dropped"]
    OBVIOUS
  <2>2. session' = [session EXCEPT ![s] = next] /\ UNCHANGED <<pool, wallet, changes>>
    BY <1>7, <2>1 DEF Swapping!Drop
  <2>3. Noted(next)
    BY <2>1 DEF Noted
  <2>4. QED
    BY <2>2, <2>3, LookingKeepsBooks
<1>8. QED
  BY <1>3, <1>4, <1>5, <1>6, <1>7

(* A transaction that lands counts as a change if it opened an account.    *)
LEMMA LandKeepsBooks ==
  ASSUME SwapBooks, NEW s \in Sessions, Swapping!Land(s)
  PROVE  SwapBooks'
<1>0. PICK payout \in Payouts : \E after \in Swapping!outcome(session[s].transaction, payout) :
        /\ session[s].stage = "built" /\ wallet' = after /\ pool' = pool
        /\ changes' = IF after.open = wallet.open THEN changes ELSE changes + 1
        /\ session' = [session EXCEPT ![s] = [stage |-> "landed", order |-> session[s].order,
                                             payout |-> payout]]
  BY DEF Swapping!Land, Swapping!step
<1>1. PICK after \in Swapping!outcome(session[s].transaction, payout) :
        /\ session[s].stage = "built" /\ wallet' = after /\ pool' = pool
        /\ changes' = IF after.open = wallet.open THEN changes ELSE changes + 1
        /\ session' = [session EXCEPT ![s] = [stage |-> "landed", order |-> session[s].order,
                                             payout |-> payout]]
  BY <1>0
<1>2. TypedWallet(wallet')
  BY <1>1, Landed
<1>3. Counted /\ changes' \in Nat
  BY <1>1 DEF Counted, SwapBooks
<1>4. PICK next : next = [stage |-> "landed", order |-> session[s].order, payout |-> payout]
  OBVIOUS
<1>5. Noted(next)'
  BY <1>4 DEF Noted
<1>6. QED
  BY <1>1, <1>2, <1>3, <1>4, <1>5, BooksAfter

(* What the user, or anyone, does in between is counted.                   *)
LEMMA OpeningKeepsBooks ==
  ASSUME SwapBooks, NEW account \in Swapping!traded_accounts,
         Swapping!OpenAccount(account) \/ Swapping!CloseAccount(account)
  PROVE  SwapBooks'
<1>1. /\ pool' = pool /\ session' = session /\ changes' = changes + 1
      /\ \/ wallet' = [wallet EXCEPT !.open = @ \cup {account}]
         \/ wallet' = [wallet EXCEPT !.open = @ \ {account}, !.lamports = @ + RENT]
  BY DEF Swapping!OpenAccount, Swapping!CloseAccount
<1>2. Counted /\ changes \in Nat /\ changes' \in Nat
  BY <1>1 DEF Counted, SwapBooks
<1>3. account \in Swapping!TokenAccounts
  <2>1. pool.quoteMint \in {"SOL", "USDC"}
    BY PoolIsTyped DEF TypedPool
  <2>2. QED
    BY <2>1 DEF Swapping!traded_accounts, Swapping!TokenAccounts, Swapping!baseMint
<1>4. TypedWallet(wallet')
  <2>1. /\ wallet.lamports \in Nat /\ wallet.open \subseteq Swapping!TokenAccounts
        /\ wallet.tokens \in [Swapping!TokenAccounts -> Nat]
    BY DEF SwapBooks, TypedWallet
  <2>2. CASE wallet' = [wallet EXCEPT !.open = @ \cup {account}]
    <3>1. /\ wallet'.lamports = wallet.lamports /\ wallet'.open = wallet.open \cup {account}
          /\ wallet'.tokens = wallet.tokens
      BY <2>2
    <3>2. QED
      BY <1>3, <2>1, <3>1 DEF TypedWallet
  <2>3. CASE wallet' = [wallet EXCEPT !.open = @ \ {account}, !.lamports = @ + RENT]
    <3>1. /\ wallet'.lamports = wallet.lamports + RENT /\ wallet'.open = wallet.open \ {account}
          /\ wallet'.tokens = wallet.tokens
      BY <2>3
    <3>2. wallet'.lamports \in Nat
      BY <2>1, <3>1, SwapClientAssumption
    <3>3. QED
      BY <2>1, <3>1, <3>2 DEF TypedWallet
  <2>4. QED
    BY <1>1, <2>2, <2>3
<1>5. ASSUME NEW s \in Sessions PROVE Noted(session[s])'
  <2>1. PICK swap : swap = session[s]
    OBVIOUS
  <2>2. Noted(swap)
    BY <2>1 DEF SwapBooks
  <2>3. Noted(swap)'
    BY <1>1, <1>2, <2>2, NotedStays
  <2>4. QED
    BY <1>1, <2>1, <2>3
<1>6. TypedWallet(wallet)'
  BY <1>4 DEF TypedWallet
<1>7. QED
  BY <1>1, <1>2, <1>5, <1>6 DEF SwapBooks

(* Every step keeps the books.                                             *)
LEMMA SwapBooksStep == SwapBooks /\ [Swapping!SwapClientNext]_swap_vars => SwapBooks'
<1> SUFFICES ASSUME SwapBooks, [Swapping!SwapClientNext]_swap_vars PROVE SwapBooks'
  OBVIOUS
<1>1. CASE UNCHANGED swap_vars
  <2>1. pool' = pool /\ wallet' = wallet /\ session' = session /\ changes' = changes
    BY <1>1 DEF swap_vars
  <2>2. ASSUME NEW s \in Sessions PROVE Noted(session[s])'
    <3>1. PICK swap : swap = session[s]
      OBVIOUS
    <3>2. Noted(swap)
      BY <3>1 DEF SwapBooks
    <3>3. Noted(swap)'
      BY <2>1, <3>2, NotedStays DEF Counted, SwapBooks
    <3>4. QED
      BY <2>1, <3>1, <3>3
  <2>3. TypedWallet(wallet)'
    BY <2>1 DEF SwapBooks, TypedWallet
  <2>4. QED
    BY <2>1, <2>2, <2>3 DEF SwapBooks
<1>2. ASSUME NEW s \in Sessions,
             \/ \E order \in Swapping!Order : Swapping!FetchPool(s, order)
             \/ Swapping!FetchConfig(s) \/ Swapping!CheckInput(s)
             \/ Swapping!CheckOutput(s) \/ Swapping!Drop(s)
      PROVE  SwapBooks'
  BY <1>2, SwapStepsKeepBooks
<1>3. ASSUME NEW s \in Sessions, Swapping!Land(s) PROVE SwapBooks'
  BY <1>3, LandKeepsBooks
<1>4. ASSUME NEW account \in Swapping!traded_accounts,
             Swapping!OpenAccount(account) \/ Swapping!CloseAccount(account)
      PROVE  SwapBooks'
  BY <1>4, OpeningKeepsBooks
<1>5. QED
  BY <1>1, <1>2, <1>3, <1>4 DEF Swapping!SwapClientNext

(* Launching and the interface move nothing of a swap.                     *)
LEMMA OnlySwaps ==
  [ClientNext]_<<part, launch_client_vars, swap_vars, exchange>>
    => [Swapping!SwapClientNext]_swap_vars
BY DEF ClientNext

(* The books hold.                                                         *)
LEMMA SwapBooksHold == ClientSpec => []SwapBooks
<1>1. SwapBooks /\ [ClientNext]_<<part, launch_client_vars, swap_vars, exchange>> => SwapBooks'
  BY SwapBooksStep, OnlySwaps
<1>2. QED
  BY <1>1, SwapBooksInit, PTL DEF ClientSpec

(* Only Land makes a built transaction a landed one.                       *)
LEMMA LandingPaysExactly ==
  ASSUME SwapBooks, [Swapping!SwapClientNext]_swap_vars, NEW s \in Sessions, Swapping!landing(s)
  PROVE  Swapping!exactly_paid(s)
<1>1. session[s].stage = "built" /\ session'[s].stage = "landed"
  BY DEF Swapping!landing
<1>2. DOMAIN session = Sessions
  BY DEF SwapBooks
<1>3. Swapping!Land(s)
  <2>1. ASSUME NEW t \in Sessions, NEW swap, session' = [session EXCEPT ![t] = swap],
               swap.stage # "landed"
        PROVE  FALSE
    BY <1>1, <1>2, <2>1
  <2>2. ASSUME NEW t \in Sessions, NEW order, Swapping!FetchPool(t, order) PROVE FALSE
    <3>1. session' = [session EXCEPT ![t] = [stage |-> "pool", order |-> order]]
      BY <2>2 DEF Swapping!FetchPool, Swapping!step
    <3>2. PICK swap : swap = [stage |-> "pool", order |-> order]
      OBVIOUS
    <3>3. swap.stage # "landed" /\ session' = [session EXCEPT ![t] = swap]
      BY <3>1, <3>2
    <3>4. QED
      BY <2>1, <3>3
  <2>3. ASSUME NEW t \in Sessions,
               Swapping!FetchConfig(t) \/ Swapping!CheckInput(t) \/ Swapping!CheckOutput(t)
        PROVE  FALSE
    <3>1. CASE t = s
      BY <1>1, <2>3, <3>1 DEF Swapping!FetchConfig, Swapping!CheckInput, Swapping!CheckOutput
    <3>2. CASE t # s
      <4>1. PICK swap : session' = [session EXCEPT ![t] = swap]
        BY <2>3 DEF Swapping!FetchConfig, Swapping!CheckInput, Swapping!CheckOutput,
           Swapping!step
      <4>2. QED
        BY <1>1, <1>2, <3>2, <4>1
    <3>3. QED
      BY <3>1, <3>2
  <2>4. ASSUME NEW t \in Sessions, Swapping!Drop(t) PROVE FALSE
    <3>1. session' = [session EXCEPT ![t] = [stage |-> "dropped"]]
      BY <2>4 DEF Swapping!Drop, Swapping!step
    <3>2. PICK swap : swap = [stage |-> "dropped"]
      OBVIOUS
    <3>3. swap.stage # "landed" /\ session' = [session EXCEPT ![t] = swap]
      BY <3>1, <3>2
    <3>4. QED
      BY <2>1, <3>3
  <2>5. ASSUME NEW t \in Sessions, t # s, Swapping!Land(t) PROVE FALSE
    <3>1. PICK swap : session' = [session EXCEPT ![t] = swap]
      BY <2>5 DEF Swapping!Land, Swapping!step
    <3>2. QED
      BY <1>1, <1>2, <2>5, <3>1
  <2>6. ASSUME session' = session PROVE FALSE
    BY <1>1, <2>6
  <2>7. QED
    BY <2>2, <2>3, <2>4, <2>5, <2>6
       DEF Swapping!SwapClientNext, swap_vars, Swapping!OpenAccount, Swapping!CloseAccount
<1>4. PICK payout \in Payouts :
        /\ wallet' \in Swapping!outcome(session[s].transaction, payout)
        /\ session' = [session EXCEPT ![s] = [stage |-> "landed", order |-> session[s].order,
                                             payout |-> payout]]
  BY <1>3 DEF Swapping!Land, Swapping!step
<1>5. session'[s].payout = payout
  BY <1>2, <1>4
<1>6. PICK after : after = wallet'
  OBVIOUS
<1>7. Exact(session[s].order, payout, after)
  BY <1>1, <1>4, <1>6, Landed
<1>8. QED
  BY <1>5, <1>6, <1>7, SameCardinality DEF Swapping!exactly_paid, Exact, deposits, opened,
     input, output, Swapping!NATIVE_MINT

(* A swap that lands (swap.ts, whatever it saw and whatever happened       *)
(* since) costs exactly amountIn and pays exactly the payout, at least     *)
(* minimumAmountOut; no lamport moves apart from the deposits of the       *)
(* accounts it opened.                                                     *)
THEOREM SwapsAreExact == ClientSpec => SwapIsExact
<1>1. SwapBooks /\ [ClientNext]_<<part, launch_client_vars, swap_vars, exchange>>
        => [\A s \in Sessions : Swapping!landing(s) => Swapping!exactly_paid(s)]_swap_vars
  BY LandingPaysExactly, OnlySwaps
<1>2. QED
  BY <1>1, SwapBooksHold, PTL
     DEF ClientSpec, SwapIsExact, Swapping!SwapIsExact, Swapping!swap_client_vars, swap_vars

(* In pools of SPL tokens, the transaction of a swap whose config arrived  *)
(* and whose accounts nobody touched can land: what it needs is there or   *)
(* created once, and the wrapped SOL is enough.                            *)
THEOREM UndisturbedSplSwapsLand ==
  ASSUME \A p \in Pools : p.tokenType = 0
  PROVE  ClientSpec => []UndisturbedSwapLands
<1>1. ASSUME SwapBooks, NEW s \in Sessions, Swapping!built(s),
             session[s].tokenBaseProgram = Swapping!token_program_of(Swapping!baseMint),
             session[s].since = changes, ~ Swapping!receives_sol(s)
      PROVE  Swapping!lands(s)
  <2>1. PICK swap : swap = session[s]
    OBVIOUS
  <2>2. Noted(swap) /\ swap.stage = "built" /\ swap.since = changes
    BY <1>1, <2>1 DEF SwapBooks, Swapping!built
  <2>a. PICK i, o \in BOOLEAN :
          /\ swap.transaction = Swapping!swap_transaction(swap.order, i, o, swap.tokenBaseProgram)
          /\ swap.since = changes =>
               /\ i <=> input(swap.order) \in wallet.open
               /\ o <=> output(swap.order) \in wallet.open
    BY <2>2 DEF Noted
  <2>3. /\ swap.transaction = Swapping!swap_transaction(swap.order, i, o, swap.tokenBaseProgram)
        /\ i <=> input(swap.order) \in wallet.open
        /\ o <=> output(swap.order) \in wallet.open
    BY <2>2, <2>a
  <2>4. swap.order \in Swapping!Order
    BY <2>2 DEF Noted
  <2>5. /\ Swapping!affords(swap.order) /\ swap.order.amountIn > 0
        /\ \E payout \in Payouts : payout >= swap.order.minimumAmountOut
    BY <1>1, <2>1 DEF Swapping!built, Swapping!acceptable
  <2>6. PICK payout \in Payouts : payout >= swap.order.minimumAmountOut
    BY <2>5
  <2>7. Swapping!outputTokenMint(swap.order) # "SOL"
    BY <1>1, <2>1 DEF Swapping!receives_sol, Swapping!NATIVE_MINT
  <2>8. pool.tokenType = 0 /\ TypedPool /\ TypedWallet(wallet)
    BY <1>1, PoolIsTyped DEF SwapBooks
  <2>9. PICK program : /\ program = swap.tokenBaseProgram
                       /\ program = Swapping!token_program_of(Swapping!baseMint)
    BY <1>1, <2>1
  <2>10. Swapping!outcome(Swapping!swap_transaction(swap.order, i, o, program), payout) # {}
    BY <2>3, <2>4, <2>5, <2>6, <2>7, <2>8, <2>9, SwapOn
  <2>11. QED
    BY <2>1, <2>3, <2>9, <2>10 DEF Swapping!lands
<1>2. SwapBooks => UndisturbedSwapLands
  BY <1>1 DEF UndisturbedSwapLands, Swapping!UndisturbedSwapLands
<1>3. QED
  BY <1>2, SwapBooksHold, PTL

=============================================================================
