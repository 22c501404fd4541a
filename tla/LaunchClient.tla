---------------------------- MODULE LaunchClient ----------------------------
(***************************************************************************)
(* Launching a token from the TypeScript client: createConfig and          *)
(* createPool build a transaction each and hand it to the caller, and the  *)
(* program's create_config and initialize_virtual_pool_with_... run it, if *)
(* and when it arrives.  The client puts the accounts in the order of its  *)
(* IDL (ProgramInterface), the program takes them in the order of its      *)
(* Accounts structs (ProgramLayouts).                                      *)
(*                                                                         *)
(* Several callers work at once.  A transaction may arrive late, in any    *)
(* order, more than once (a caller that saw no answer signs it again with  *)
(* a new blockhash), or never.  Rent, names and the curve are left out; of *)
(* a config the model keeps what a launch depends on.                      *)
(***************************************************************************)
EXTENDS Naturals, SequencesExt

IDL     == INSTANCE ProgramInterface
Program == INSTANCE ProgramLayouts

CONSTANTS
  Calls,          \* calls of the client
  Payers,         \* the keypairs it is used with
  FreshKeys,      \* what Keypair.generate may return, as numbers: keys are ordered
  QuoteMints,     \* key -> token program and whether every extension is supported
  Supplies        \* initial base supplies a config leads to

ASSUME LaunchClientAssumption ==
  /\ FreshKeys \subseteq Nat /\ DOMAIN QuoteMints \subseteq Nat /\ Supplies \subseteq Nat
  /\ FreshKeys \cap DOMAIN QuoteMints = {}

VARIABLES
  chain,     \* address -> account, for the accounts there are
  calls      \* the calls of the client and the transactions they returned

launch_client_vars == <<chain, calls>>

(* Addresses: of keypairs, of programs, and derived ones.                  *)
key(n)           == <<"key", n>>
program_id(name) == <<"program", name>>

TOKEN_PROGRAM_ID      == program_id("token")
TOKEN_2022_PROGRAM_ID == program_id("token-2022")
METAPLEX_PROGRAM_ID   == program_id("metaplex")

LaunchInit ==
  /\ chain = [mint \in {key(n) : n \in DOMAIN QuoteMints} |->
                [kind |-> "mint", program |-> QuoteMints[mint[2]].program]]
  /\ calls = [c \in Calls |-> [stage |-> "idle"]]

(* Of two functions the first decides where both do.                       *)
over(upper, lower) ==
  [x \in DOMAIN upper \cup DOMAIN lower |-> IF x \in DOMAIN upper THEN upper[x] ELSE lower[x]]

exists(address, kind) == address \in DOMAIN chain /\ chain[address].kind = kind

-----------------------------------------------------------------------------
(* Derived addresses, as the client computes them (utils/account.ts) ...   *)
derivePoolAuthority == <<"pool_authority">>

(* Wrong: the mints in the order they are passed.                          *)
derivePoolAddress_unordered(config, baseMint, quoteMint) ==
  <<"pool", config, baseMint, quoteMint>>

derivePoolAddress(config, baseMint, quoteMint) ==
  IF baseMint[2] > quoteMint[2]
  THEN <<"pool", config, baseMint, quoteMint>>
  ELSE <<"pool", config, quoteMint, baseMint>>

deriveTokenVaultAddress(mint, pool) == <<"token_vault", mint, pool>>
deriveMetadataAccount(mint)         == <<"metadata", METAPLEX_PROGRAM_ID, mint>>

(* ... and as the program does.                                            *)
max_key(left, right) == IF left[2] >= right[2] THEN left ELSE right
min_key(left, right) == IF left[2] <= right[2] THEN left ELSE right

pool_seeds(a) ==
  <<"pool", a.config, max_key(a.baseMint, a.quoteMint), min_key(a.baseMint, a.quoteMint)>>

-----------------------------------------------------------------------------
(* The client.  A transaction lists addresses in the IDL's order; Anchor   *)
(* fills in what has a fixed address.                                      *)
fixed_addresses ==
  [systemProgram |-> program_id("system"), eventAuthority |-> <<"event_authority">>,
   program |-> program_id("virtual_curve")]

transaction(instruction, given, params, signers) ==
  LET metas == IDL!instructions[instruction]
      all   == over(given, fixed_addresses)
  IN  [instruction |-> instruction, params |-> params, signers |-> signers,
       addresses   |-> [i \in DOMAIN metas |-> all[metas[i].account]]]

used_keys == {calls[c].key : c \in {d \in Calls : calls[d].stage = "built"}}

call(c, record) == calls' = [calls EXCEPT ![c] = record] /\ UNCHANGED chain

createConfig(c, payer, quoteMint, params) ==
  \E config \in {key(n) : n \in FreshKeys} \ used_keys :
    /\ calls[c].stage = "idle"
    /\ call(c, [stage |-> "built", key |-> config, payer |-> payer,
                request |-> [quoteMint |-> quoteMint, params |-> params],
                transaction |->
                  transaction("createConfig",
                              [config |-> config, feeClaimer |-> payer, owner |-> payer,
                               quoteMint |-> quoteMint, payer |-> payer],
                              params, {payer, config})])

(* createPool waits for the config first: without it it throws.  The fetch *)
(* may fail for a config that is there.                                    *)
fetchPoolConfig(c, payer, config, quoteMint) ==
  /\ calls[c].stage = "idle"
  /\ exists(config, "config")
  /\ call(c, [stage |-> "fetched", payer |-> payer, tokenType |-> chain[config].token_type,
              request |-> [config |-> config, quoteMint |-> quoteMint]])

fetchPoolConfigFails(c) ==
  /\ calls[c].stage = "idle"
  /\ call(c, [stage |-> "failed"])

pool_instruction(tokenType) ==
  IF tokenType # 0 THEN "initializeVirtualPoolWithToken2022"
                   ELSE "initializeVirtualPoolWithSplToken"

pool_accounts(payer, request, baseMint, isToken2022) ==
  LET pool     == derivePoolAddress(request.config, baseMint, request.quoteMint)
      accounts ==
        [config |-> request.config, baseMint |-> baseMint, quoteMint |-> request.quoteMint,
         pool |-> pool, payer |-> payer, creator |-> payer,
         poolAuthority |-> derivePoolAuthority,
         baseVault  |-> deriveTokenVaultAddress(baseMint, pool),
         quoteVault |-> deriveTokenVaultAddress(request.quoteMint, pool),
         tokenQuoteProgram |-> TOKEN_PROGRAM_ID,
         tokenProgram |-> IF isToken2022 THEN TOKEN_2022_PROGRAM_ID ELSE TOKEN_PROGRAM_ID]
  IN  IF isToken2022 THEN accounts
      ELSE over(accounts, [mintMetadata    |-> deriveMetadataAccount(baseMint),
                           metadataProgram |-> METAPLEX_PROGRAM_ID])

createPool(c) ==
  LET request == calls[c].request
      payer   == calls[c].payer
      type    == calls[c].tokenType
  IN  \E baseMint \in {key(n) : n \in FreshKeys} \ used_keys :
        /\ calls[c].stage = "fetched"
        /\ call(c, [stage |-> "built", key |-> baseMint, payer |-> payer, request |-> request,
                    transaction |->
                      transaction(pool_instruction(type),
                                  pool_accounts(payer, request, baseMint, type # 0),
                                  "name", {payer, baseMint})])

-----------------------------------------------------------------------------
(* The program: what a transaction adds to the chain, as a set with one    *)
(* element, or none if it is refused.                                      *)
taken(tx) ==
  LET fields == Program!handlers[tx.instruction]
  IN  [name \in {field.account : field \in Range(fields)} |->
         tx.addresses[CHOOSE i \in DOMAIN fields : fields[i].account = name]]

(* `init`: the account is created, so there must be none.                  *)
(* Wrong: as with `init_if_needed`.                                        *)
unused_if_needed(addresses) == TRUE

unused(addresses) == addresses \cap DOMAIN chain = {}

is_supported_quote_mint(mint) ==
  exists(mint, "mint") /\ QuoteMints[mint[2]].supported

handle_create_config(tx) ==
  LET a == taken(tx)
  IN  IF /\ {a.config, a.payer} \subseteq tx.signers
         /\ unused({a.config})
         /\ is_supported_quote_mint(a.quoteMint)
      THEN {[address \in {a.config} |->
               [kind |-> "config", quote_mint |-> a.quoteMint,
                fee_claimer |-> a.feeClaimer, owner |-> a.owner,
                token_type |-> tx.params.tokenType, supply |-> tx.params.supply]]}
      ELSE {}

(* What is checked before the handler of either token type runs.           *)
initialize_virtual_pool_accounts(a, signers, token_program) ==
  /\ exists(a.config, "config")
  /\ chain[a.config].quote_mint = a.quoteMint
  /\ a.poolAuthority = <<"pool_authority">>
  /\ {a.baseMint, a.payer} \subseteq signers
  /\ exists(a.quoteMint, "mint") /\ chain[a.quoteMint].program = a.tokenQuoteProgram
  /\ a.pool = pool_seeds(a)
  /\ a.baseVault = <<"token_vault", a.baseMint, a.pool>>
  /\ a.quoteVault = <<"token_vault", a.quoteMint, a.pool>>
  /\ unused({a.baseMint, a.pool, a.baseVault, a.quoteVault})
  /\ a.tokenProgram = token_program

(* The base mint on its way through the handler.  Each call needs the mint *)
(* authority the account was created with.                                 *)
new_mint(a) ==
  [kind |-> "mint", program |-> a.tokenProgram, authority |-> derivePoolAuthority,
   supply |-> 0, update_authority |-> <<"none">>, pointer_authority |-> <<"none">>,
   failed |-> FALSE]

with_authority(mint, changed) ==
  IF mint.authority = derivePoolAuthority THEN changed ELSE [mint EXCEPT !.failed = TRUE]

create_metadata(mint, to)  == with_authority(mint, [mint EXCEPT !.update_authority = to])
set_pointer(mint, to)      == with_authority(mint, [mint EXCEPT !.pointer_authority = to])
mint_to(mint, amount)      == with_authority(mint, [mint EXCEPT !.supply = @ + amount])
remove_authority(mint)     == with_authority(mint, [mint EXCEPT !.authority = <<"none">>])

(* VirtualPool::initialize, and the accounts around it.                    *)
initialized(a, mint, pool_type) ==
  IF mint.failed THEN {}
  ELSE {[address \in {a.baseMint, a.baseVault, a.quoteVault, a.pool} |->
           CASE address = a.baseMint -> mint
             [] address = a.baseVault ->
                  [kind |-> "vault", mint |-> a.baseMint, amount |-> mint.supply]
             [] address = a.quoteVault ->
                  [kind |-> "vault", mint |-> a.quoteMint, amount |-> 0]
             [] address = a.pool ->
                  [kind |-> "pool", config |-> a.config, creator |-> a.creator,
                   base_mint |-> a.baseMint, base_vault |-> a.baseVault,
                   quote_vault |-> a.quoteVault, pool_type |-> pool_type]]}

(* Wrong: the mint authority is not removed.                               *)
spl_token_mint_keep_authority(a) ==
  mint_to(create_metadata(new_mint(a), a.creator), chain[a.config].supply)

spl_token_mint(a) ==
  remove_authority(mint_to(create_metadata(new_mint(a), a.creator), chain[a.config].supply))

handle_initialize_virtual_pool_with_spl_token(tx) ==
  LET a == taken(tx)
  IN  IF /\ initialize_virtual_pool_accounts(a, tx.signers, TOKEN_PROGRAM_ID)
         /\ a.metadataProgram = METAPLEX_PROGRAM_ID
         /\ a.mintMetadata = <<"metadata", METAPLEX_PROGRAM_ID, a.baseMint>>
         /\ chain[a.config].token_type = 0
      THEN initialized(a, spl_token_mint(a), 0)
      ELSE {}

token2022_mint(a) ==
  LET described == set_pointer(create_metadata(new_mint(a), a.poolAuthority), a.creator)
  IN  remove_authority(mint_to(described, chain[a.config].supply))

handle_initialize_virtual_pool_with_token2022(tx) ==
  LET a == taken(tx)
  IN  IF /\ initialize_virtual_pool_accounts(a, tx.signers, TOKEN_2022_PROGRAM_ID)
         /\ chain[a.config].token_type = 1
      THEN initialized(a, token2022_mint(a), 1)
      ELSE {}

execute(tx) ==
  CASE tx.instruction = "createConfig" -> handle_create_config(tx)
    [] tx.instruction = "initializeVirtualPoolWithSplToken" ->
         handle_initialize_virtual_pool_with_spl_token(tx)
    [] tx.instruction = "initializeVirtualPoolWithToken2022" ->
         handle_initialize_virtual_pool_with_token2022(tx)

(* A transaction arrives, for the first time or again.                     *)
Deliver(c) ==
  /\ calls[c].stage = "built"
  /\ \E added \in execute(calls[c].transaction) : chain' = over(added, chain)
  /\ UNCHANGED calls

-----------------------------------------------------------------------------
QuoteMintKeys == {key(n) : n \in DOMAIN QuoteMints}
ConfigParams  == [tokenType : {0, 1}, supply : Supplies]

LaunchNext ==
  \E c \in Calls :
    \/ \E payer \in Payers, quoteMint \in QuoteMintKeys, params \in ConfigParams :
         createConfig(c, payer, quoteMint, params)
    \/ \E payer \in Payers, config \in used_keys, quoteMint \in QuoteMintKeys :
         fetchPoolConfig(c, payer, config, quoteMint)
    \/ fetchPoolConfigFails(c)
    \/ createPool(c)
    \/ Deliver(c)

LaunchSpec == LaunchInit /\ [][LaunchNext]_launch_client_vars

-----------------------------------------------------------------------------
makes_pool(c) == "config" \in DOMAIN calls[c].request

(* A launch the program should accept: its quote mint is the config's and, *)
(* as createPool expects, an SPL token.                                    *)
sound(c) ==
  LET request == calls[c].request
  IN  IF makes_pool(c)
      THEN /\ chain[request.config].quote_mint = request.quoteMint
           /\ chain[request.quoteMint].program = TOKEN_PROGRAM_ID
      ELSE QuoteMints[request.quoteMint[2]].supported

(* What the client builds for a sound request is accepted whenever it      *)
(* first arrives, whoever launched what in between: both sides derive the  *)
(* same addresses for either order of the two mint keys, list the accounts *)
(* in one order, and agree on the token type read before the last await.   *)
LaunchLands ==
  \A c \in Calls :
    calls[c].stage = "built" /\ sound(c) =>
      (execute(calls[c].transaction) # {} <=> calls[c].key \notin DOMAIN chain)

(* However often and in whatever order transactions arrive, a pool is what *)
(* one call of createPool asked for: on the config and for the quote token *)
(* named, with the payer as its creator, a base token of the config's      *)
(* type whose whole supply lies in the pool's vault, and which nobody can  *)
(* mint any more.                                                          *)
PoolsAsRequested ==
  \A pool \in {address \in DOMAIN chain : chain[address].kind = "pool"} :
    LET state  == chain[pool]
        mint   == chain[state.base_mint]
        config == chain[state.config]
    IN  /\ \E c \in Calls :
             /\ calls[c].stage = "built" /\ makes_pool(c)
             /\ calls[c].key = state.base_mint
             /\ calls[c].payer = state.creator
             /\ calls[c].request = [config |-> state.config, quoteMint |-> config.quote_mint]
        /\ state.pool_type = config.token_type
        /\ mint.program = IF config.token_type = 0 THEN TOKEN_PROGRAM_ID ELSE TOKEN_2022_PROGRAM_ID
        /\ mint.authority = <<"none">>
        /\ mint.supply = config.supply
        /\ chain[state.base_vault] =
             [kind |-> "vault", mint |-> state.base_mint, amount |-> mint.supply]
        /\ chain[state.quote_vault].mint = config.quote_mint

(* ix_initialize_virtual_pool_with_token2022.rs: "transfer update          *)
(* authority to creator": the creator of a token can update its metadata.  *)
CreatorUpdatesMetadata ==
  \A pool \in {address \in DOMAIN chain : chain[address].kind = "pool"} :
    chain[chain[pool].base_mint].update_authority = chain[pool].creator

=============================================================================
