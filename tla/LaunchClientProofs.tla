------------------------- MODULE LaunchClientProofs -------------------------
(***************************************************************************)
(* Launching from the client, for any number of callers, payers and calls: *)
(* a config or pool whose accounts are found can be created, and a pool    *)
(* is what one call asked for.  Behind it, the interface: an account the   *)
(* client sends is the one the program takes.                              *)
(***************************************************************************)
EXTENDS MCClient, TLAPS

-----------------------------------------------------------------------------
(* The accounts of a transaction.  Client and program list them alike ...  *)
LEMMA SameLists ==
  ASSUME NEW instruction \in {"createConfig", "initializeVirtualPoolWithSplToken",
                              "initializeVirtualPoolWithToken2022"}
  PROVE  IDL!instructions[instruction] = Program!handlers[instruction]
<1> USE DEF IDL!instructions, Program!handlers, IDL!event_cpi, Program!emits_events,
            IDL!reads, IDL!writes, IDL!signs, IDL!pays,
            Program!reads, Program!writes, Program!signs, Program!pays
<1>1. CASE instruction = "createConfig"
  BY <1>1 DEF IDL!createConfig, Program!CreateConfigCtx
<1>2. CASE instruction = "initializeVirtualPoolWithSplToken"
  BY <1>2 DEF IDL!initializeVirtualPoolWithSplToken, Program!InitializeVirtualPoolWithSplTokenCtx
<1>3. CASE instruction = "initializeVirtualPoolWithToken2022"
  BY <1>3 DEF IDL!initializeVirtualPoolWithToken2022, Program!InitializeVirtualPoolWithToken2022Ctx
<1>4. QED
  BY <1>1, <1>2, <1>3

(* ... with the accounts the client gives among them ...                   *)
listed(instruction) ==
  {Program!handlers[instruction][i].account : i \in DOMAIN Program!handlers[instruction]}

(* ... those of createConfig ...                                           *)
LEMMA ConfigListed ==
  {"config", "feeClaimer", "owner", "quoteMint", "payer"} \subseteq listed("createConfig")
<1> DEFINE fields == Program!CreateConfigCtx
<1>1. /\ 1 \in DOMAIN fields /\ fields[1] = Program!pays("config")
      /\ 2 \in DOMAIN fields /\ fields[2] = Program!reads("feeClaimer")
      /\ 3 \in DOMAIN fields /\ fields[3] = Program!reads("owner")
      /\ 4 \in DOMAIN fields /\ fields[4] = Program!reads("quoteMint")
      /\ 5 \in DOMAIN fields /\ fields[5] = Program!pays("payer")
  BY DEF Program!CreateConfigCtx, Program!emits_events
<1> HIDE DEF fields
<1>2. /\ fields[1].account = "config" /\ fields[2].account = "feeClaimer"
      /\ fields[3].account = "owner" /\ fields[4].account = "quoteMint"
      /\ fields[5].account = "payer"
  BY <1>1 DEF Program!reads, Program!writes, Program!pays
<1>3. listed("createConfig") = {fields[i].account : i \in DOMAIN fields}
  BY DEF listed, Program!handlers, fields
<1>4. QED
  BY <1>1, <1>2, <1>3

pool_account_names ==
  {"config", "poolAuthority", "creator", "baseMint", "quoteMint", "pool", "baseVault",
   "quoteVault", "payer", "tokenQuoteProgram", "tokenProgram"}

(* ... of a pool of SPL tokens ...                                         *)
LEMMA SplPoolListed ==
  pool_account_names \cup {"mintMetadata", "metadataProgram"}
    \subseteq listed("initializeVirtualPoolWithSplToken")
<1> DEFINE fields == Program!InitializeVirtualPoolWithSplTokenCtx
<1>1. /\ 1 \in DOMAIN fields /\ fields[1] = Program!reads("config")
      /\ 2 \in DOMAIN fields /\ fields[2] = Program!reads("poolAuthority")
      /\ 3 \in DOMAIN fields /\ fields[3] = Program!reads("creator")
      /\ 4 \in DOMAIN fields /\ fields[4] = Program!pays("baseMint")
      /\ 5 \in DOMAIN fields /\ fields[5] = Program!reads("quoteMint")
      /\ 6 \in DOMAIN fields /\ fields[6] = Program!writes("pool")
      /\ 7 \in DOMAIN fields /\ fields[7] = Program!writes("baseVault")
      /\ 8 \in DOMAIN fields /\ fields[8] = Program!writes("quoteVault")
      /\ 9 \in DOMAIN fields /\ fields[9] = Program!writes("mintMetadata")
      /\ 10 \in DOMAIN fields /\ fields[10] = Program!reads("metadataProgram")
      /\ 11 \in DOMAIN fields /\ fields[11] = Program!pays("payer")
      /\ 12 \in DOMAIN fields /\ fields[12] = Program!reads("tokenQuoteProgram")
      /\ 13 \in DOMAIN fields /\ fields[13] = Program!reads("tokenProgram")
  BY DEF Program!InitializeVirtualPoolWithSplTokenCtx, Program!emits_events
<1> HIDE DEF fields
<1>2. /\ fields[1].account = "config" /\ fields[2].account = "poolAuthority"
      /\ fields[3].account = "creator" /\ fields[4].account = "baseMint"
      /\ fields[5].account = "quoteMint" /\ fields[6].account = "pool"
      /\ fields[7].account = "baseVault" /\ fields[8].account = "quoteVault"
      /\ fields[9].account = "mintMetadata" /\ fields[10].account = "metadataProgram"
      /\ fields[11].account = "payer" /\ fields[12].account = "tokenQuoteProgram"
      /\ fields[13].account = "tokenProgram"
  BY <1>1 DEF Program!reads, Program!writes, Program!pays
<1>3. listed("initializeVirtualPoolWithSplToken") = {fields[i].account : i \in DOMAIN fields}
  BY DEF listed, Program!handlers, fields
<1>4. QED
  BY <1>1, <1>2, <1>3 DEF pool_account_names

(* ... and of a pool of Token-2022 tokens ...                              *)
LEMMA Token2022PoolListed ==
  pool_account_names \subseteq listed("initializeVirtualPoolWithToken2022")
<1> DEFINE fields == Program!InitializeVirtualPoolWithToken2022Ctx
<1>1. /\ 1 \in DOMAIN fields /\ fields[1] = Program!reads("config")
      /\ 2 \in DOMAIN fields /\ fields[2] = Program!reads("poolAuthority")
      /\ 3 \in DOMAIN fields /\ fields[3] = Program!reads("creator")
      /\ 4 \in DOMAIN fields /\ fields[4] = Program!pays("baseMint")
      /\ 5 \in DOMAIN fields /\ fields[5] = Program!reads("quoteMint")
      /\ 6 \in DOMAIN fields /\ fields[6] = Program!writes("pool")
      /\ 7 \in DOMAIN fields /\ fields[7] = Program!writes("baseVault")
      /\ 8 \in DOMAIN fields /\ fields[8] = Program!writes("quoteVault")
      /\ 9 \in DOMAIN fields /\ fields[9] = Program!pays("payer")
      /\ 10 \in DOMAIN fields /\ fields[10] = Program!reads("tokenQuoteProgram")
      /\ 11 \in DOMAIN fields /\ fields[11] = Program!reads("tokenProgram")
  BY DEF Program!InitializeVirtualPoolWithToken2022Ctx, Program!emits_events
<1> HIDE DEF fields
<1>2. /\ fields[1].account = "config" /\ fields[2].account = "poolAuthority"
      /\ fields[3].account = "creator" /\ fields[4].account = "baseMint"
      /\ fields[5].account = "quoteMint" /\ fields[6].account = "pool"
      /\ fields[7].account = "baseVault" /\ fields[8].account = "quoteVault"
      /\ fields[9].account = "payer" /\ fields[10].account = "tokenQuoteProgram"
      /\ fields[11].account = "tokenProgram"
  BY <1>1 DEF Program!reads, Program!writes, Program!pays
<1>3. listed("initializeVirtualPoolWithToken2022") = {fields[i].account : i \in DOMAIN fields}
  BY DEF listed, Program!handlers, fields
<1>4. QED
  BY <1>1, <1>2, <1>3 DEF pool_account_names

(* ... so the program takes each account for what the client meant it.     *)
LEMMA Taken ==
  ASSUME NEW instruction \in {"createConfig", "initializeVirtualPoolWithSplToken",
                              "initializeVirtualPoolWithToken2022"},
         NEW given, NEW params, NEW signers,
         NEW name \in DOMAIN given, name \in listed(instruction)
  PROVE  taken(transaction(instruction, given, params, signers))[name] = given[name]
<1> DEFINE fields == Program!handlers[instruction]
           tx     == transaction(instruction, given, params, signers)
           found  == CHOOSE j \in DOMAIN fields : fields[j].account = name
<1>1. PICK i \in DOMAIN fields : fields[i].account = name
  BY DEF listed
<1>2. found \in DOMAIN fields /\ fields[found].account = name
  BY <1>1
<1>3. tx.addresses = [j \in DOMAIN fields |-> over(given, fixed_addresses)[fields[j].account]]
  BY SameLists DEF transaction
<1>4. tx.instruction = instruction
  BY DEF transaction
<1> HIDE DEF fields, tx
<1>5. name \in {field.account : field \in Range(fields)}
  <2>1. fields[i] \in Range(fields)
    BY <1>1 DEF Range, fields
  <2>2. QED
    BY <1>1, <2>1
<1>6. taken(tx)[name] = tx.addresses[found]
  BY <1>4, <1>5 DEF taken, fields
<1>7. over(given, fixed_addresses)[name] = given[name]
  BY DEF over
<1>8. QED
  BY <1>2, <1>3, <1>6, <1>7 DEF fields, tx

-----------------------------------------------------------------------------
(* A call that has built its transaction, of either kind.                  *)
FreshAddresses == {key(n) : n \in FreshKeys}

BuiltConfig(launch) ==
  /\ launch.stage = "built" /\ launch.key \in FreshAddresses
  /\ launch.request \in [quoteMint : QuoteMintKeys, params : ConfigParams]
  /\ launch.transaction =
       transaction("createConfig",
                   [config |-> launch.key, feeClaimer |-> launch.payer, owner |-> launch.payer,
                    quoteMint |-> launch.request.quoteMint, payer |-> launch.payer],
                   launch.request.params, {launch.payer, launch.key})

BuiltPool(launch) ==
  LET request == launch.request
      type    == chain[request.config].token_type
  IN  /\ launch.stage = "built" /\ launch.key \in FreshAddresses
      /\ request \in [config : FreshAddresses, quoteMint : QuoteMintKeys]
      /\ exists(request.config, "config") /\ type \in {0, 1}
      /\ chain[request.config].supply \in Nat
      /\ launch.transaction =
           transaction(pool_instruction(type),
                       pool_accounts(launch.payer, request, launch.key, type # 0),
                       "name", {launch.payer, launch.key})

(* What the two make of it when their transactions are accepted.           *)
config_of(launch) ==
  [kind |-> "config", quote_mint |-> launch.request.quoteMint, fee_claimer |-> launch.payer,
   owner |-> launch.payer, token_type |-> launch.request.params.tokenType,
   supply |-> launch.request.params.supply]

pool_address(launch) ==
  derivePoolAddress(launch.request.config, launch.key, launch.request.quoteMint)

base_vault_address(launch)  == <<"token_vault", launch.key, pool_address(launch)>>
quote_vault_address(launch) == <<"token_vault", launch.request.quoteMint, pool_address(launch)>>

new_addresses(launch) ==
  {launch.key, pool_address(launch), base_vault_address(launch), quote_vault_address(launch)}

mint_of(launch) ==
  LET config == chain[launch.request.config]
  IN  [kind |-> "mint", authority |-> <<"none">>, supply |-> config.supply, failed |-> FALSE,
       program |-> IF config.token_type = 0 THEN TOKEN_PROGRAM_ID ELSE TOKEN_2022_PROGRAM_ID,
       update_authority |-> IF config.token_type = 0 THEN launch.payer ELSE derivePoolAuthority,
       pointer_authority |-> IF config.token_type = 0 THEN <<"none">> ELSE launch.payer]

pool_of(launch) ==
  [kind |-> "pool", config |-> launch.request.config, creator |-> launch.payer,
   base_mint |-> launch.key, base_vault |-> base_vault_address(launch),
   quote_vault |-> quote_vault_address(launch),
   pool_type |-> chain[launch.request.config].token_type]

vault_of(mint, amount) == [kind |-> "vault", mint |-> mint, amount |-> amount]

(* The accounts createConfig names, as the program takes them ...          *)
LEMMA ConfigTaken ==
  ASSUME NEW launch, BuiltConfig(launch)
  PROVE  LET a == taken(launch.transaction)
         IN  /\ a.config = launch.key /\ a.feeClaimer = launch.payer /\ a.owner = launch.payer
             /\ a.quoteMint = launch.request.quoteMint /\ a.payer = launch.payer
BY ConfigListed, Taken DEF BuiltConfig

(* ... and those of createPool.                                            *)
LEMMA PoolTaken ==
  ASSUME NEW launch, BuiltPool(launch)
  PROVE  LET a    == taken(launch.transaction)
             type == chain[launch.request.config].token_type
         IN  /\ a.config = launch.request.config /\ a.poolAuthority = derivePoolAuthority
             /\ a.creator = launch.payer /\ a.payer = launch.payer
             /\ a.baseMint = launch.key /\ a.quoteMint = launch.request.quoteMint
             /\ a.pool = pool_address(launch)
             /\ a.baseVault = base_vault_address(launch)
             /\ a.quoteVault = quote_vault_address(launch)
             /\ a.tokenQuoteProgram = TOKEN_PROGRAM_ID
             /\ type = 0 => /\ a.tokenProgram = TOKEN_PROGRAM_ID
                            /\ a.mintMetadata = deriveMetadataAccount(launch.key)
                            /\ a.metadataProgram = METAPLEX_PROGRAM_ID
             /\ type = 1 => a.tokenProgram = TOKEN_2022_PROGRAM_ID
<1> DEFINE type  == chain[launch.request.config].token_type
           given == pool_accounts(launch.payer, launch.request, launch.key, type # 0)
           a     == taken(launch.transaction)
<1>1. /\ pool_account_names \subseteq DOMAIN given
      /\ given.config = launch.request.config /\ given.poolAuthority = derivePoolAuthority
      /\ given.creator = launch.payer /\ given.payer = launch.payer
      /\ given.baseMint = launch.key /\ given.quoteMint = launch.request.quoteMint
      /\ given.pool = pool_address(launch)
      /\ given.baseVault = base_vault_address(launch)
      /\ given.quoteVault = quote_vault_address(launch)
      /\ given.tokenQuoteProgram = TOKEN_PROGRAM_ID
      /\ given.tokenProgram = IF type # 0 THEN TOKEN_2022_PROGRAM_ID ELSE TOKEN_PROGRAM_ID
  BY DEF pool_accounts, over, pool_account_names, pool_address, base_vault_address,
         quote_vault_address, deriveTokenVaultAddress
<1>2. CASE type = 0
  <2>1. /\ {"mintMetadata", "metadataProgram"} \subseteq DOMAIN given
        /\ given.mintMetadata = deriveMetadataAccount(launch.key)
        /\ given.metadataProgram = METAPLEX_PROGRAM_ID
    BY <1>2 DEF pool_accounts, over
  <2>2. \A name \in pool_account_names \cup {"mintMetadata", "metadataProgram"} :
          a[name] = given[name]
    BY <1>1, <1>2, <2>1, SplPoolListed, Taken DEF BuiltPool, pool_instruction
  <2> HIDE DEF given, a
  <2>3. QED
    BY <1>1, <1>2, <2>1, <2>2 DEF a, pool_account_names
<1>3. CASE type = 1
  <2>2. \A name \in pool_account_names : a[name] = given[name]
    BY <1>1, <1>3, Token2022PoolListed, Taken DEF BuiltPool, pool_instruction
  <2> HIDE DEF given, a
  <2>3. QED
    BY <1>1, <1>3, <2>2 DEF a, pool_account_names
<1>4. QED
  BY <1>2, <1>3 DEF BuiltPool

(* The quote mints stay what they are.                                     *)
QuoteMintsStay ==
  \A mint \in QuoteMintKeys :
    exists(mint, "mint") /\ chain[mint].program = QuoteMints[mint[2]].program

(* What create_config makes of a transaction of createConfig.              *)
LEMMA ConfigRuns ==
  ASSUME NEW launch, BuiltConfig(launch), QuoteMintsStay
  PROVE  execute(launch.transaction) =
           IF launch.key \notin DOMAIN chain /\ QuoteMints[launch.request.quoteMint[2]].supported
           THEN {[address \in {launch.key} |-> config_of(launch)]}
           ELSE {}
<1> DEFINE tx == launch.transaction
           a  == taken(tx)
<1>1. /\ tx.instruction = "createConfig" /\ tx.params = launch.request.params
      /\ tx.signers = {launch.payer, launch.key}
  BY DEF BuiltConfig, transaction
<1>2. execute(tx) = handle_create_config(tx)
  BY <1>1 DEF execute
<1>3. /\ a.config = launch.key /\ a.feeClaimer = launch.payer /\ a.owner = launch.payer
      /\ a.quoteMint = launch.request.quoteMint /\ a.payer = launch.payer
  BY ConfigTaken
<1>4. is_supported_quote_mint(launch.request.quoteMint)
        <=> QuoteMints[launch.request.quoteMint[2]].supported
  BY DEF is_supported_quote_mint, QuoteMintsStay, BuiltConfig
<1>5. unused({launch.key}) <=> launch.key \notin DOMAIN chain
  BY DEF unused
<1> HIDE DEF tx, a
<1>6. QED
  BY <1>1, <1>2, <1>3, <1>4, <1>5 DEF handle_create_config, config_of, tx, a

(* The chain after a transaction of createPool: what is added, where.      *)
pool_accounts_of(launch) ==
  [address \in new_addresses(launch) |->
     CASE address = launch.key -> mint_of(launch)
       [] address = base_vault_address(launch) -> vault_of(launch.key, mint_of(launch).supply)
       [] address = quote_vault_address(launch) -> vault_of(launch.request.quoteMint, 0)
       [] address = pool_address(launch) -> pool_of(launch)]

(* Client and program derive one pool address.                             *)
LEMMA PoolSeeds ==
  ASSUME NEW config, NEW base \in FreshAddresses, NEW quote \in QuoteMintKeys
  PROVE  derivePoolAddress(config, base, quote)
           = <<"pool", config, max_key(base, quote), min_key(base, quote)>>
<1>1. PICK n \in FreshKeys, m \in DOMAIN QuoteMints : base = <<"key", n>> /\ quote = <<"key", m>>
  BY DEF FreshAddresses, QuoteMintKeys, key
<1>2. n \in Nat /\ m \in Nat /\ base[2] = n /\ quote[2] = m /\ n # m
  BY <1>1, LaunchClientAssumption
<1>3. QED
  BY <1>2 DEF derivePoolAddress, max_key, min_key

(* The base mint after the calls of either handler.                        *)
LEMMA MintCalls ==
  ASSUME NEW launch, NEW a,
         a.creator = launch.payer, a.poolAuthority = derivePoolAuthority,
         a.config = launch.request.config, chain[a.config].supply \in Nat
  PROVE  /\ chain[a.config].token_type = 0 /\ a.tokenProgram = TOKEN_PROGRAM_ID
              => spl_token_mint(a) = mint_of(launch)
         /\ chain[a.config].token_type = 1 /\ a.tokenProgram = TOKEN_2022_PROGRAM_ID
              => token2022_mint(a) = mint_of(launch)
<1> DEFINE mint(authority, supply, update, pointer) ==
             [kind |-> "mint", program |-> a.tokenProgram, authority |-> authority,
              supply |-> supply, update_authority |-> update, pointer_authority |-> pointer,
              failed |-> FALSE]
           open   == derivePoolAuthority
           nobody == <<"none">>
<1>1. new_mint(a) = mint(open, 0, nobody, nobody)
  BY DEF new_mint
<1>2. \A supply, update, pointer, to :
        create_metadata(mint(open, supply, update, pointer), to) = mint(open, supply, to, pointer)
  BY DEF create_metadata, with_authority
<1>3. \A supply, update, pointer, to :
        set_pointer(mint(open, supply, update, pointer), to) = mint(open, supply, update, to)
  BY DEF set_pointer, with_authority
<1>4. ASSUME NEW supply \in Nat, NEW update, NEW pointer
      PROVE  mint_to(mint(open, 0, update, pointer), supply) = mint(open, supply, update, pointer)
  <2>1. mint(open, 0, update, pointer).supply + supply = supply
    OBVIOUS
  <2>2. QED
    BY <2>1 DEF mint_to, with_authority
<1>5. \A supply, update, pointer :
        remove_authority(mint(open, supply, update, pointer)) = mint(nobody, supply, update, pointer)
  BY DEF remove_authority, with_authority
<1>6. mint_of(launch) =
        [kind |-> "mint", authority |-> nobody, supply |-> chain[a.config].supply,
         failed |-> FALSE,
         program |-> IF chain[a.config].token_type = 0 THEN TOKEN_PROGRAM_ID
                                                       ELSE TOKEN_2022_PROGRAM_ID,
         update_authority |-> IF chain[a.config].token_type = 0 THEN a.creator ELSE open,
         pointer_authority |-> IF chain[a.config].token_type = 0 THEN nobody ELSE a.creator]
  BY DEF mint_of
<1>7. ASSUME chain[a.config].token_type = 0, a.tokenProgram = TOKEN_PROGRAM_ID
      PROVE  mint_of(launch) = mint(nobody, chain[a.config].supply, a.creator, nobody)
  BY <1>6, <1>7
<1>8. ASSUME chain[a.config].token_type = 1, a.tokenProgram = TOKEN_2022_PROGRAM_ID
      PROVE  mint_of(launch) = mint(nobody, chain[a.config].supply, open, a.creator)
  BY <1>6, <1>8
<1> HIDE DEF mint, open, nobody
<1>9. spl_token_mint(a) = mint(nobody, chain[a.config].supply, a.creator, nobody)
  BY <1>1, <1>2, <1>4, <1>5 DEF spl_token_mint
<1>10. token2022_mint(a) = mint(nobody, chain[a.config].supply, open, a.creator)
  BY <1>1, <1>2, <1>3, <1>4, <1>5 DEF token2022_mint, open
<1>11. QED
  BY <1>7, <1>8, <1>9, <1>10

(* What the two handlers make of a transaction of createPool.              *)
LEMMA PoolRuns ==
  ASSUME NEW launch, BuiltPool(launch), QuoteMintsStay
  PROVE  execute(launch.transaction) =
           IF /\ new_addresses(launch) \cap DOMAIN chain = {}
              /\ chain[launch.request.config].quote_mint = launch.request.quoteMint
              /\ chain[launch.request.quoteMint].program = TOKEN_PROGRAM_ID
           THEN {pool_accounts_of(launch)}
           ELSE {}
<1> DEFINE tx == launch.transaction
           a  == taken(tx)
           type == chain[launch.request.config].token_type
<1>1. /\ tx.signers = {launch.payer, launch.key}
      /\ tx.instruction = pool_instruction(type)
  <2>1. \E given : tx = transaction(pool_instruction(type), given, "name", {launch.payer, launch.key})
    BY DEF BuiltPool
  <2> HIDE DEF tx, type
  <2>2. QED
    BY <2>1 DEF transaction
<1>2. /\ a.config = launch.request.config /\ a.poolAuthority = derivePoolAuthority
      /\ a.creator = launch.payer /\ a.payer = launch.payer
      /\ a.baseMint = launch.key /\ a.quoteMint = launch.request.quoteMint
      /\ a.pool = pool_address(launch)
      /\ a.baseVault = base_vault_address(launch)
      /\ a.quoteVault = quote_vault_address(launch)
      /\ a.tokenQuoteProgram = TOKEN_PROGRAM_ID
      /\ type = 0 => /\ a.tokenProgram = TOKEN_PROGRAM_ID
                     /\ a.mintMetadata = deriveMetadataAccount(launch.key)
                     /\ a.metadataProgram = METAPLEX_PROGRAM_ID
      /\ type = 1 => a.tokenProgram = TOKEN_2022_PROGRAM_ID
  BY PoolTaken
<1>3. pool_address(launch) = pool_seeds(a)
  <2>1. launch.key \in FreshAddresses /\ launch.request.quoteMint \in QuoteMintKeys
    BY DEF BuiltPool
  <2> HIDE DEF a
  <2>2. QED
    BY <1>2, <2>1, PoolSeeds DEF pool_address, pool_seeds
<1>4. exists(launch.request.quoteMint, "mint") /\ exists(launch.request.config, "config")
  BY DEF BuiltPool, QuoteMintsStay
<1>5. type \in {0, 1} /\ chain[launch.request.config].supply \in Nat
  BY DEF BuiltPool
<1> DEFINE fits == /\ new_addresses(launch) \cap DOMAIN chain = {}
                   /\ chain[launch.request.config].quote_mint = launch.request.quoteMint
                   /\ chain[launch.request.quoteMint].program = TOKEN_PROGRAM_ID
<1> HIDE DEF a, type
<1>6. ASSUME NEW program, program = a.tokenProgram
      PROVE  initialize_virtual_pool_accounts(a, tx.signers, program) <=> fits
  BY <1>1, <1>2, <1>3, <1>4, <1>6
     DEF initialize_virtual_pool_accounts, unused, new_addresses, derivePoolAuthority,
         base_vault_address, quote_vault_address
<1> HIDE DEF tx, fits
<1>7. ASSUME NEW mint, mint = mint_of(launch)
      PROVE  initialized(a, mint, type) = {pool_accounts_of(launch)}
  <2>1. ~ mint.failed
    BY <1>7 DEF mint_of
  <2>2. QED
    BY <1>2, <1>7, <2>1 DEF initialized, pool_accounts_of, new_addresses, vault_of, pool_of, type
<1>8. ASSUME type = 0
      PROVE  execute(tx) = IF fits THEN {pool_accounts_of(launch)} ELSE {}
  <2>1. spl_token_mint(a) = mint_of(launch)
    BY <1>2, <1>5, <1>8, MintCalls DEF spl_token_mint, type
  <2>2. execute(tx) = handle_initialize_virtual_pool_with_spl_token(tx)
    BY <1>1, <1>8 DEF execute, pool_instruction
  <2>3. execute(tx) =
          IF /\ initialize_virtual_pool_accounts(a, tx.signers, TOKEN_PROGRAM_ID)
             /\ a.metadataProgram = METAPLEX_PROGRAM_ID
             /\ a.mintMetadata = <<"metadata", METAPLEX_PROGRAM_ID, a.baseMint>>
             /\ chain[a.config].token_type = 0
          THEN initialized(a, spl_token_mint(a), 0)
          ELSE {}
    BY <2>2 DEF handle_initialize_virtual_pool_with_spl_token, a
  <2>4. a.mintMetadata = <<"metadata", METAPLEX_PROGRAM_ID, a.baseMint>>
    BY <1>2, <1>8 DEF deriveMetadataAccount
  <2>5. chain[a.config].token_type = 0
    BY <1>2, <1>8 DEF type
  <2>6. initialized(a, spl_token_mint(a), 0) = {pool_accounts_of(launch)}
    BY <1>7, <1>8, <2>1
  <2>7. initialize_virtual_pool_accounts(a, tx.signers, TOKEN_PROGRAM_ID) <=> fits
    BY <1>2, <1>6, <1>8
  <2>8. a.metadataProgram = METAPLEX_PROGRAM_ID
    BY <1>2, <1>8
  <2>9. QED
    BY <2>3, <2>4, <2>5, <2>6, <2>7, <2>8
<1>9. ASSUME type = 1
      PROVE  execute(tx) = IF fits THEN {pool_accounts_of(launch)} ELSE {}
  <2>1. token2022_mint(a) = mint_of(launch)
    BY <1>2, <1>5, <1>9, MintCalls DEF token2022_mint, type
  <2>2. execute(tx) = handle_initialize_virtual_pool_with_token2022(tx)
    BY <1>1, <1>9 DEF execute, pool_instruction
  <2>3. execute(tx) =
          IF /\ initialize_virtual_pool_accounts(a, tx.signers, TOKEN_2022_PROGRAM_ID)
             /\ chain[a.config].token_type = 1
          THEN initialized(a, token2022_mint(a), 1)
          ELSE {}
    BY <2>2 DEF handle_initialize_virtual_pool_with_token2022, a
  <2>4. chain[a.config].token_type = 1
    BY <1>2, <1>9 DEF type
  <2>5. initialized(a, token2022_mint(a), 1) = {pool_accounts_of(launch)}
    BY <1>7, <1>9, <2>1
  <2>6. initialize_virtual_pool_accounts(a, tx.signers, TOKEN_2022_PROGRAM_ID) <=> fits
    BY <1>2, <1>6, <1>9
  <2>7. QED
    BY <2>3, <2>4, <2>5, <2>6
<1>10. QED
  BY <1>5, <1>8, <1>9 DEF tx, fits

-----------------------------------------------------------------------------
(* The inductive invariant of launching.  A call is idle, failed, or one   *)
(* of three, and calls that built have keys of their own.                  *)
FetchedConfig(launch) ==
  LET request == launch.request
  IN  /\ launch.stage = "fetched"
      /\ request \in [config : FreshAddresses, quoteMint : QuoteMintKeys]
      /\ exists(request.config, "config")
      /\ launch.tokenType = chain[request.config].token_type
      /\ launch.tokenType \in {0, 1}
      /\ chain[request.config].supply \in Nat

CallShape(launch) ==
  \/ launch.stage \in {"idle", "failed"}
  \/ FetchedConfig(launch)
  \/ BuiltConfig(launch)
  \/ BuiltPool(launch)

CallBooks ==
  /\ DOMAIN calls = Calls
  /\ \A c \in Calls : CallShape(calls[c])
  /\ \A c, d \in Calls :
       calls[c].stage = "built" /\ calls[d].stage = "built" /\ calls[c].key = calls[d].key => c = d

(* An account of the chain is a quote mint, a config or part of a launch;  *)
(* the parts of a launch are there together.                               *)
Launched(launch) ==
  /\ BuiltPool(launch)
  /\ chain[launch.request.config].quote_mint = launch.request.quoteMint
  /\ new_addresses(launch) \subseteq DOMAIN chain
  /\ \A address \in new_addresses(launch) : chain[address] = pool_accounts_of(launch)[address]

Known(address) ==
  \/ address \in QuoteMintKeys
  \/ \E c \in Calls :
       BuiltConfig(calls[c]) /\ address = calls[c].key /\ chain[address] = config_of(calls[c])
  \/ \E c \in Calls : Launched(calls[c]) /\ address \in new_addresses(calls[c])

ChainBooks ==
  /\ QuoteMintsStay
  /\ \A address \in DOMAIN chain : Known(address)

LaunchBooks == CallBooks /\ ChainBooks

(* The four new accounts of a launch have addresses of their own.          *)
LEMMA PoolAccounts ==
  ASSUME NEW launch, BuiltPool(launch)
  PROVE  LET accounts == pool_accounts_of(launch)
         IN  /\ DOMAIN accounts = new_addresses(launch)
             /\ accounts[launch.key] = mint_of(launch)
             /\ accounts[base_vault_address(launch)] = vault_of(launch.key, mint_of(launch).supply)
             /\ accounts[quote_vault_address(launch)] = vault_of(launch.request.quoteMint, 0)
             /\ accounts[pool_address(launch)] = pool_of(launch)
<1>1. PICK n \in FreshKeys, m \in DOMAIN QuoteMints :
        launch.key = <<"key", n>> /\ launch.request.quoteMint = <<"key", m>>
  BY DEF BuiltPool, FreshAddresses, QuoteMintKeys, key
<1>2. n # m
  BY LaunchClientAssumption
<1>3. \E x, y : pool_address(launch) = <<"pool", launch.request.config, x, y>>
  BY DEF pool_address, derivePoolAddress
<1>4. /\ launch.key # base_vault_address(launch) /\ launch.key # quote_vault_address(launch)
      /\ launch.key # pool_address(launch)
      /\ base_vault_address(launch) # quote_vault_address(launch)
      /\ base_vault_address(launch) # pool_address(launch)
      /\ quote_vault_address(launch) # pool_address(launch)
  <2>1. base_vault_address(launch)[1] = "token_vault" /\ base_vault_address(launch)[2][2] = n
    BY <1>1 DEF base_vault_address
  <2>2. quote_vault_address(launch)[1] = "token_vault" /\ quote_vault_address(launch)[2][2] = m
    BY <1>1 DEF quote_vault_address
  <2>3. pool_address(launch)[1] = "pool"
    BY <1>3
  <2>4. launch.key[1] = "key"
    BY <1>1
  <2>5. QED
    BY <1>2, <2>1, <2>2, <2>3, <2>4
<1>5. QED
  BY <1>4 DEF pool_accounts_of, new_addresses

(* What a pool's address tells of it.                                      *)
LEMMA PoolAddress ==
  ASSUME NEW config, NEW base \in FreshAddresses, NEW quote \in QuoteMintKeys,
         NEW config_, NEW base_ \in FreshAddresses, NEW quote_ \in QuoteMintKeys,
         derivePoolAddress(config, base, quote) = derivePoolAddress(config_, base_, quote_)
  PROVE  base = base_
<1>1. PICK n \in FreshKeys, m \in DOMAIN QuoteMints : base = <<"key", n>> /\ quote = <<"key", m>>
  BY DEF FreshAddresses, QuoteMintKeys, key
<1>2. PICK n_ \in FreshKeys, m_ \in DOMAIN QuoteMints : base_ = <<"key", n_>> /\ quote_ = <<"key", m_>>
  BY DEF FreshAddresses, QuoteMintKeys, key
<1>3. base \in {base_, quote_}
  <2>1. derivePoolAddress(config, base, quote)[3] = base \/ derivePoolAddress(config, base, quote)[4] = base
    BY DEF derivePoolAddress
  <2>2. /\ derivePoolAddress(config_, base_, quote_)[3] \in {base_, quote_}
        /\ derivePoolAddress(config_, base_, quote_)[4] \in {base_, quote_}
    BY DEF derivePoolAddress
  <2>3. QED
    BY <2>1, <2>2
<1>4. n # m_
  BY LaunchClientAssumption
<1>5. base # quote_
  BY <1>1, <1>2, <1>4
<1>6. QED
  BY <1>3, <1>5

(* As long as the base mint is not there, nothing of the launch is.        *)
LEMMA NothingThere ==
  ASSUME NEW launch, BuiltPool(launch), ChainBooks, launch.key \notin DOMAIN chain
  PROVE  new_addresses(launch) \cap DOMAIN chain = {}
<1>1. launch.key \in FreshAddresses /\ launch.request.quoteMint \in QuoteMintKeys
  BY DEF BuiltPool
<1>2. ASSUME NEW other, Launched(other)
      PROVE  /\ other.key \in FreshAddresses /\ other.request.quoteMint \in QuoteMintKeys
             /\ other.key \in DOMAIN chain /\ pool_address(other) \in DOMAIN chain
  BY <1>2 DEF Launched, BuiltPool, new_addresses
<1>3. \A address \in FreshAddresses \cup QuoteMintKeys : address[1] = "key"
  BY DEF FreshAddresses, QuoteMintKeys, key
<1>4. \A other : pool_address(other)[1] = "pool"
  BY DEF pool_address, derivePoolAddress
<1>5. \A other : /\ base_vault_address(other)[1] = "token_vault"
                 /\ base_vault_address(other)[3] = pool_address(other)
                 /\ quote_vault_address(other)[1] = "token_vault"
                 /\ quote_vault_address(other)[3] = pool_address(other)
  BY DEF base_vault_address, quote_vault_address
<1>6. ASSUME NEW address \in DOMAIN chain, address[1] # "key"
      PROVE  \E other : Launched(other) /\ address \in new_addresses(other) \ {other.key}
  <2>1. PICK c \in Calls : Launched(calls[c]) /\ address \in new_addresses(calls[c])
    BY <1>3, <1>6 DEF ChainBooks, Known, BuiltConfig
  <2>2. address # calls[c].key
    BY <1>2, <1>3, <1>6, <2>1
  <2>3. QED
    BY <2>1, <2>2
<1>7. pool_address(launch) \notin DOMAIN chain
  <2>1. SUFFICES ASSUME pool_address(launch) \in DOMAIN chain PROVE FALSE
    OBVIOUS
  <2>2. PICK other : Launched(other) /\ pool_address(launch) \in new_addresses(other) \ {other.key}
    BY <1>4, <1>6, <2>1
  <2>3. pool_address(launch) = pool_address(other)
    BY <1>4, <1>5, <2>2 DEF new_addresses
  <2>4. launch.key = other.key
    BY <1>1, <1>2, <2>2, <2>3, PoolAddress DEF pool_address
  <2>5. QED
    BY <1>2, <2>2, <2>4
<1>8. ASSUME NEW vault, vault[1] = "token_vault", vault[3] = pool_address(launch),
             vault \in DOMAIN chain
      PROVE  FALSE
  <2>1. PICK other : Launched(other) /\ vault \in new_addresses(other) \ {other.key}
    BY <1>6, <1>8
  <2>2. vault[3] = pool_address(other)
    BY <1>4, <1>5, <1>8, <2>1 DEF new_addresses
  <2>3. QED
    BY <1>2, <1>7, <1>8, <2>1, <2>2
<1>9. QED
  BY <1>5, <1>7, <1>8 DEF new_addresses

(* The chain only grows, and what a call knows of it stays true.           *)
Grows == \A address \in DOMAIN chain : address \in DOMAIN chain' /\ chain'[address] = chain[address]

(* What a call has built does not change while others move ...             *)
LEMMA CallsStay ==
  ASSUME NEW launch, Grows
  PROVE  /\ BuiltConfig(launch) => BuiltConfig(launch)'
         /\ BuiltPool(launch) => BuiltPool(launch)'
         /\ FetchedConfig(launch) => FetchedConfig(launch)'
         /\ Launched(launch) => Launched(launch)'
<1>1. BuiltConfig(launch) => BuiltConfig(launch)'
  BY DEF BuiltConfig
<1>2. exists(launch.request.config, "config") =>
        /\ exists(launch.request.config, "config")'
        /\ chain'[launch.request.config] = chain[launch.request.config]
  BY DEF Grows, exists
<1>3. BuiltPool(launch) => BuiltPool(launch)'
  BY <1>2 DEF BuiltPool
<1>4. FetchedConfig(launch) => FetchedConfig(launch)'
  BY <1>2 DEF FetchedConfig
<1>5. ASSUME Launched(launch) PROVE Launched(launch)'
  <2>1. chain'[launch.request.config] = chain[launch.request.config]
    BY <1>2, <1>5 DEF Launched, BuiltPool
  <2>2. pool_accounts_of(launch)' = pool_accounts_of(launch)
    BY <2>1 DEF pool_accounts_of, mint_of, pool_of
  <2>3. \A address \in new_addresses(launch) :
          address \in DOMAIN chain' /\ chain'[address] = pool_accounts_of(launch)[address]
    BY <1>5 DEF Launched, Grows
  <2>4. BuiltPool(launch)'
    BY <1>3, <1>5 DEF Launched
  <2>5. chain'[launch.request.config].quote_mint = launch.request.quoteMint
    BY <1>5, <2>1 DEF Launched
  <2>6. QED
    BY <2>2, <2>3, <2>4, <2>5 DEF Launched
<1>6. QED
  BY <1>1, <1>3, <1>4, <1>5

(* ... nor does what it knows of the chain.                                *)
LEMMA KnownStays ==
  ASSUME ChainBooks, Grows, \A c \in Calls : calls[c].stage = "built" => calls'[c] = calls[c]
  PROVE  QuoteMintsStay' /\ \A address \in DOMAIN chain : Known(address)'
<1>1. QuoteMintsStay'
  BY DEF ChainBooks, QuoteMintsStay, Grows, exists
<1>2. ASSUME NEW address \in DOMAIN chain PROVE Known(address)'
  <2>1. Known(address) /\ chain'[address] = chain[address]
    BY DEF ChainBooks, Grows
  <2>2. CASE address \in QuoteMintKeys
    BY <2>2 DEF Known
  <2>3. ASSUME NEW c \in Calls, BuiltConfig(calls[c]), address = calls[c].key,
               chain[address] = config_of(calls[c])
        PROVE  Known(address)'
    <3> DEFINE launch == calls[c]
    <3>1. calls'[c] = launch
      BY <2>3 DEF BuiltConfig
    <3> HIDE DEF launch
    <3>2. BuiltConfig(launch)
      BY <2>3 DEF launch
    <3>3. BuiltConfig(calls'[c]) /\ config_of(calls'[c]) = config_of(calls[c]) /\ calls'[c].key = address
      BY <2>3, <3>1, <3>2 DEF launch
    <3>4. QED
      BY <2>1, <2>3, <3>3 DEF Known, BuiltConfig, config_of
  <2>4. ASSUME NEW c \in Calls, Launched(calls[c]), address \in new_addresses(calls[c])
        PROVE  Known(address)'
    <3>1. calls'[c] = calls[c]
      BY <2>4 DEF Launched, BuiltPool
    <3>2. PICK launch : launch = calls[c]
      OBVIOUS
    <3>3. Launched(launch)' /\ address \in new_addresses(launch)
      BY <2>4, <3>2, CallsStay
    <3>4. Launched(calls[c])' /\ address \in new_addresses(calls[c])'
      BY <3>1, <3>2, <3>3
    <3>5. QED
      BY <3>4 DEF Known
  <2>5. QED
    BY <2>1, <2>2, <2>3, <2>4 DEF Known
<1>3. QED
  BY <1>1, <1>2

(* At first nothing is built and nothing created.                          *)
LEMMA LaunchBooksInit == LaunchInit => LaunchBooks
<1> SUFFICES ASSUME LaunchInit PROVE LaunchBooks
  OBVIOUS
<1>1. CallBooks
  BY DEF LaunchInit, CallBooks, CallShape
<1>2. QuoteMintsStay
  BY DEF LaunchInit, QuoteMintsStay, QuoteMintKeys, exists
<1>3. \A address \in DOMAIN chain : Known(address)
  BY DEF LaunchInit, Known, QuoteMintKeys
<1>4. QED
  BY <1>1, <1>2, <1>3 DEF LaunchBooks, ChainBooks

(* A step of the client, with a key nobody has.                            *)
LEMMA CallKeepsBooks ==
  ASSUME LaunchBooks, NEW c \in Calls, NEW launch, call(c, launch),
         calls[c].stage # "built", CallShape(launch),
         launch.stage = "built" => launch.key \notin used_keys
  PROVE  LaunchBooks'
<1>1. chain' = chain /\ calls' = [calls EXCEPT ![c] = launch]
  BY DEF call
<1>2. Grows
  BY <1>1 DEF Grows
<1>3. DOMAIN calls' = Calls /\ \A d \in Calls : calls'[d] = IF d = c THEN launch ELSE calls[d]
  BY <1>1 DEF LaunchBooks, CallBooks
<1>4. ASSUME NEW any, CallShape(any) PROVE CallShape(any)'
  BY <1>2, <1>4, CallsStay DEF CallShape
<1>5. ASSUME NEW d \in Calls PROVE CallShape(calls[d])'
  <2>1. PICK any : any = calls'[d]
    OBVIOUS
  <2>2. CallShape(any)
    BY <1>3, <2>1 DEF LaunchBooks, CallBooks
  <2>3. CallShape(any)'
    BY <1>4, <2>2
  <2>4. QED
    BY <2>1, <2>3
<1>6. ASSUME NEW d \in Calls, NEW e \in Calls, calls'[d].stage = "built", calls'[e].stage = "built",
             calls'[d].key = calls'[e].key
      PROVE  d = e
  <2>1. ASSUME NEW other \in Calls, other # c, calls[other].stage = "built" PROVE calls[other].key \in used_keys
    BY <2>1 DEF used_keys
  <2>2. QED
    BY <1>3, <1>6, <2>1 DEF LaunchBooks, CallBooks
<1>7. CallBooks'
  BY <1>3, <1>5, <1>6 DEF CallBooks
<1>8. ChainBooks'
  BY <1>1, <1>2, <1>3, KnownStays DEF LaunchBooks, ChainBooks
<1>9. QED
  BY <1>7, <1>8 DEF LaunchBooks

(* What a config on the chain is.                                          *)
LEMMA ConfigOnChain ==
  ASSUME LaunchBooks, NEW config, exists(config, "config")
  PROVE  /\ config \in FreshAddresses
         /\ chain[config].token_type \in {0, 1} /\ chain[config].supply \in Nat
<1>1. config \in DOMAIN chain /\ chain[config].kind = "config"
  BY DEF exists
<1>2. config \notin QuoteMintKeys
  BY <1>1 DEF LaunchBooks, ChainBooks, QuoteMintsStay, exists
<1>3. ASSUME NEW launch, Launched(launch), config \in new_addresses(launch) PROVE FALSE
  <2>1. chain[config] \in {mint_of(launch), vault_of(launch.key, mint_of(launch).supply),
                           vault_of(launch.request.quoteMint, 0), pool_of(launch)}
    BY <1>3, PoolAccounts DEF Launched, new_addresses
  <2>2. QED
    BY <1>1, <2>1 DEF mint_of, vault_of, pool_of
<1>4. PICK c \in Calls : BuiltConfig(calls[c]) /\ config = calls[c].key
                          /\ chain[config] = config_of(calls[c])
  BY <1>1, <1>2, <1>3 DEF LaunchBooks, ChainBooks, Known
<1>5. calls[c].request.params \in ConfigParams
  BY <1>4 DEF BuiltConfig
<1>6. calls[c].request.params.tokenType \in {0, 1} /\ calls[c].request.params.supply \in Nat
  BY <1>5, LaunchClientAssumption DEF ConfigParams
<1>7. QED
  BY <1>4, <1>6 DEF BuiltConfig, config_of

(* createConfig takes a fresh key.                                         *)
LEMMA CreateConfigKeepsBooks ==
  ASSUME LaunchBooks, NEW c \in Calls, NEW payer, NEW quoteMint \in QuoteMintKeys,
         NEW params \in ConfigParams, createConfig(c, payer, quoteMint, params)
  PROVE  LaunchBooks'
<1>1. PICK config \in {key(n) : n \in FreshKeys} \ used_keys :
        /\ calls[c].stage = "idle"
        /\ call(c, [stage |-> "built", key |-> config, payer |-> payer,
                    request |-> [quoteMint |-> quoteMint, params |-> params],
                    transaction |->
                      transaction("createConfig",
                                  [config |-> config, feeClaimer |-> payer, owner |-> payer,
                                   quoteMint |-> quoteMint, payer |-> payer],
                                  params, {payer, config})])
  BY DEF createConfig
<1> DEFINE launch == [stage |-> "built", key |-> config, payer |-> payer,
                      request |-> [quoteMint |-> quoteMint, params |-> params],
                      transaction |->
                        transaction("createConfig",
                                    [config |-> config, feeClaimer |-> payer, owner |-> payer,
                                     quoteMint |-> quoteMint, payer |-> payer],
                                    params, {payer, config})]
<1>2. BuiltConfig(launch)
  BY <1>1 DEF BuiltConfig, FreshAddresses
<1>3. launch.key = config /\ call(c, launch) /\ calls[c].stage # "built"
  BY <1>1
<1> HIDE DEF launch
<1>4. QED
  BY <1>1, <1>2, <1>3, CallKeepsBooks DEF CallShape

(* createPool reads its config.                                            *)
LEMMA FetchKeepsBooks ==
  ASSUME LaunchBooks, NEW c \in Calls, NEW payer, NEW config, NEW quoteMint \in QuoteMintKeys,
         fetchPoolConfig(c, payer, config, quoteMint)
  PROVE  LaunchBooks'
<1> DEFINE launch == [stage |-> "fetched", payer |-> payer, tokenType |-> chain[config].token_type,
                      request |-> [config |-> config, quoteMint |-> quoteMint]]
<1>1. calls[c].stage = "idle" /\ exists(config, "config") /\ call(c, launch)
  BY DEF fetchPoolConfig
<1>2. FetchedConfig(launch)
  BY <1>1, ConfigOnChain DEF FetchedConfig
<1>3. launch.stage # "built"
  OBVIOUS
<1> HIDE DEF launch
<1>4. PICK record : record = launch
  OBVIOUS
<1>5. QED
  BY <1>1, <1>2, <1>3, <1>4, CallKeepsBooks DEF CallShape

(* createPool takes a fresh key for the mint.                              *)
LEMMA CreatePoolKeepsBooks ==
  ASSUME LaunchBooks, NEW c \in Calls, createPool(c)
  PROVE  LaunchBooks'
<1> DEFINE request == calls[c].request
           payer   == calls[c].payer
           type    == calls[c].tokenType
           launch(baseMint) ==
             [stage |-> "built", key |-> baseMint, payer |-> payer, request |-> request,
              transaction |->
                transaction(pool_instruction(type),
                            pool_accounts(payer, request, baseMint, type # 0),
                            "name", {payer, baseMint})]
<1>1. PICK baseMint \in {key(n) : n \in FreshKeys} \ used_keys :
        calls[c].stage = "fetched" /\ call(c, launch(baseMint))
  BY DEF createPool
<1>2. FetchedConfig(calls[c])
  BY <1>1 DEF LaunchBooks, CallBooks, CallShape, BuiltConfig, BuiltPool
<1>3. BuiltPool(launch(baseMint))
  BY <1>1, <1>2 DEF FetchedConfig, BuiltPool, FreshAddresses
<1>4. launch(baseMint).key = baseMint
  OBVIOUS
<1> HIDE DEF launch
<1>5. PICK record : record = launch(baseMint)
  OBVIOUS
<1>6. QED
  BY <1>1, <1>3, <1>4, <1>5, CallKeepsBooks DEF CallShape

(* A call that ends early leaves nothing.                                  *)
LEMMA FailKeepsBooks ==
  ASSUME LaunchBooks, NEW c \in Calls, fetchPoolConfigFails(c)
  PROVE  LaunchBooks'
<1>1. CallShape([stage |-> "failed"])
  BY DEF CallShape
<1>2. QED
  BY <1>1, CallKeepsBooks DEF fetchPoolConfigFails

(* What the calls are does not change while they wait.                     *)
LEMMA CallBooksStay ==
  ASSUME LaunchBooks, Grows, calls' = calls
  PROVE  CallBooks'
<1>1. ASSUME NEW d \in Calls PROVE CallShape(calls[d])'
  <2>1. PICK any : any = calls[d]
    OBVIOUS
  <2>2. CallShape(any)'
    BY <2>1, CallsStay DEF LaunchBooks, CallBooks, CallShape
  <2>3. QED
    BY <2>1, <2>2
<1>2. QED
  BY <1>1 DEF LaunchBooks, CallBooks

(* The program runs a transaction, of either kind.                         *)
LEMMA DeliverKeepsBooks ==
  ASSUME LaunchBooks, NEW c \in Calls, Deliver(c)
  PROVE  LaunchBooks'
<1>1. PICK added \in execute(calls[c].transaction) : chain' = over(added, chain)
  BY DEF Deliver
<1>2. calls' = calls /\ calls[c].stage = "built"
  BY DEF Deliver
<1>3. QuoteMintsStay /\ ChainBooks
  BY DEF LaunchBooks, ChainBooks
<1>4. SUFFICES ASSUME NEW launch, launch = calls[c],
                      DOMAIN added \cap DOMAIN chain = {},
                      \/ BuiltConfig(launch) /\ DOMAIN added = {launch.key}
                           /\ added[launch.key] = config_of(launch)
                      \/ /\ BuiltPool(launch) /\ added = pool_accounts_of(launch)
                         /\ chain[launch.request.config].quote_mint = launch.request.quoteMint
               PROVE  LaunchBooks'
  <2>1. CASE BuiltConfig(calls[c])
    <3>1. added \in IF /\ calls[c].key \notin DOMAIN chain
                       /\ QuoteMints[calls[c].request.quoteMint[2]].supported
                    THEN {[address \in {calls[c].key} |-> config_of(calls[c])]}
                    ELSE {}
      BY <1>1, <1>3, <2>1, ConfigRuns
    <3>2. /\ calls[c].key \notin DOMAIN chain
          /\ added = [address \in {calls[c].key} |-> config_of(calls[c])]
      BY <3>1
    <3>3. DOMAIN added = {calls[c].key} /\ added[calls[c].key] = config_of(calls[c])
      BY <3>2
    <3>4. QED
      BY <1>4, <2>1, <3>2, <3>3
  <2>2. CASE BuiltPool(calls[c])
    BY <1>1, <1>3, <1>4, <2>2, PoolRuns, PoolAccounts
  <2>3. QED
    BY <1>2, <2>1, <2>2 DEF LaunchBooks, CallBooks, CallShape, FetchedConfig
<1>5. /\ DOMAIN chain' = DOMAIN added \cup DOMAIN chain
      /\ \A address \in DOMAIN added : chain'[address] = added[address]
      /\ \A address \in DOMAIN chain : chain'[address] = chain[address]
  BY <1>1, <1>4 DEF over
<1>6. Grows
  BY <1>5 DEF Grows
<1>7. CallBooks'
  BY <1>2, <1>6, CallBooksStay
<1>8. QuoteMintsStay' /\ \A address \in DOMAIN chain : Known(address)'
  BY <1>2, <1>3, <1>6, KnownStays
<1>9. ASSUME NEW address \in DOMAIN added PROVE Known(address)'
  <2>1. ASSUME BuiltConfig(launch), DOMAIN added = {launch.key}, added[launch.key] = config_of(launch)
        PROVE  Known(address)'
    <3>1. BuiltConfig(launch)' /\ address = launch.key /\ chain'[address] = config_of(launch)
      BY <1>5, <1>6, <1>9, <2>1, CallsStay
    <3>2. BuiltConfig(calls[c])' /\ address = calls'[c].key /\ chain'[address] = config_of(calls[c])'
      BY <1>2, <1>4, <3>1 DEF config_of
    <3>3. QED
      BY <3>2 DEF Known
  <2>2. ASSUME BuiltPool(launch), added = pool_accounts_of(launch),
               chain[launch.request.config].quote_mint = launch.request.quoteMint
        PROVE  Known(address)'
    <3>1. BuiltPool(launch)' /\ DOMAIN added = new_addresses(launch)
      BY <1>6, <2>2, CallsStay, PoolAccounts
    <3>2. chain'[launch.request.config] = chain[launch.request.config]
      BY <1>5, <2>2 DEF BuiltPool, exists
    <3>3. pool_accounts_of(launch)' = pool_accounts_of(launch)
      BY <3>2 DEF pool_accounts_of, mint_of, pool_of
    <3>4. Launched(launch)'
      BY <1>5, <2>2, <3>1, <3>2, <3>3 DEF Launched
    <3>5. Launched(calls[c])' /\ address \in new_addresses(calls[c])'
      BY <1>2, <1>4, <1>9, <3>1, <3>4
    <3>6. QED
      BY <3>5 DEF Known
  <2>3. QED
    BY <1>4, <2>1, <2>2
<1>10. QED
  BY <1>5, <1>7, <1>8, <1>9 DEF LaunchBooks, ChainBooks

(* Every step keeps the books.                                             *)
LEMMA LaunchBooksStep == LaunchBooks /\ [LaunchNext]_launch_client_vars => LaunchBooks'
<1> SUFFICES ASSUME LaunchBooks, [LaunchNext]_launch_client_vars PROVE LaunchBooks'
  OBVIOUS
<1>1. CASE LaunchNext
  <2>1. PICK c \in Calls :
          \/ \E payer \in Payers, quoteMint \in QuoteMintKeys, params \in ConfigParams :
               createConfig(c, payer, quoteMint, params)
          \/ \E payer \in Payers, config \in used_keys, quoteMint \in QuoteMintKeys :
               fetchPoolConfig(c, payer, config, quoteMint)
          \/ fetchPoolConfigFails(c)
          \/ createPool(c)
          \/ Deliver(c)
    BY <1>1 DEF LaunchNext
  <2>2. QED
    BY <2>1, CreateConfigKeepsBooks, FetchKeepsBooks, FailKeepsBooks, CreatePoolKeepsBooks,
       DeliverKeepsBooks
<1>2. CASE UNCHANGED launch_client_vars
  <2>1. chain' = chain /\ calls' = calls
    BY <1>2 DEF launch_client_vars
  <2>2. Grows
    BY <2>1 DEF Grows
  <2>3. CallBooks'
    BY <2>1, <2>2, CallBooksStay
  <2>4. ChainBooks'
    BY <2>1, <2>2, KnownStays DEF LaunchBooks, ChainBooks
  <2>5. QED
    BY <2>3, <2>4 DEF LaunchBooks
<1>3. QED
  BY <1>1, <1>2

(* What the books say of the runs' properties.                             *)
LEMMA BooksLand == LaunchBooks => LaunchLands
<1> SUFFICES ASSUME LaunchBooks, NEW c \in Calls, calls[c].stage = "built", sound(c)
             PROVE  execute(calls[c].transaction) # {} <=> calls[c].key \notin DOMAIN chain
  BY DEF LaunchLands
<1>1. QuoteMintsStay /\ ChainBooks
  BY DEF LaunchBooks, ChainBooks
<1>2. CASE BuiltConfig(calls[c])
  <2>1. ~ makes_pool(c)
    BY <1>2 DEF BuiltConfig, makes_pool
  <2>2. QuoteMints[calls[c].request.quoteMint[2]].supported
    BY <2>1 DEF sound
  <2>3. QED
    BY <1>1, <1>2, <2>2, ConfigRuns
<1>3. CASE BuiltPool(calls[c])
  <2>1. makes_pool(c)
    BY <1>3 DEF BuiltPool, makes_pool
  <2>2. /\ chain[calls[c].request.config].quote_mint = calls[c].request.quoteMint
        /\ chain[calls[c].request.quoteMint].program = TOKEN_PROGRAM_ID
    BY <2>1 DEF sound
  <2>3. execute(calls[c].transaction) # {} <=> new_addresses(calls[c]) \cap DOMAIN chain = {}
    BY <1>1, <1>3, <2>2, PoolRuns
  <2>4. QED
    BY <1>1, <1>3, <2>3, NothingThere DEF new_addresses
<1>4. QED
  BY <1>2, <1>3 DEF LaunchBooks, CallBooks, CallShape, FetchedConfig

(* A pool in the books is what one call asked for.                         *)
LEMMA BooksAsRequested == LaunchBooks => PoolsAsRequested
<1> SUFFICES ASSUME LaunchBooks, NEW address \in DOMAIN chain, chain[address].kind = "pool"
             PROVE  LET state  == chain[address]
                        mint   == chain[state.base_mint]
                        config == chain[state.config]
                    IN  /\ \E c \in Calls :
                             /\ calls[c].stage = "built" /\ makes_pool(c)
                             /\ calls[c].key = state.base_mint
                             /\ calls[c].payer = state.creator
                             /\ calls[c].request =
                                  [config |-> state.config, quoteMint |-> config.quote_mint]
                        /\ state.pool_type = config.token_type
                        /\ mint.program = IF config.token_type = 0 THEN TOKEN_PROGRAM_ID
                                                                   ELSE TOKEN_2022_PROGRAM_ID
                        /\ mint.authority = <<"none">>
                        /\ mint.supply = config.supply
                        /\ chain[state.base_vault] =
                             [kind |-> "vault", mint |-> state.base_mint, amount |-> mint.supply]
                        /\ chain[state.quote_vault].mint = config.quote_mint
  BY DEF PoolsAsRequested
<1>1. address \notin QuoteMintKeys
  BY DEF LaunchBooks, ChainBooks, QuoteMintsStay, exists
<1>2. PICK c \in Calls : Launched(calls[c]) /\ address \in new_addresses(calls[c])
  BY <1>1 DEF LaunchBooks, ChainBooks, Known, config_of
<1>3. PICK launch : launch = calls[c]
  OBVIOUS
<1>4. Launched(launch) /\ BuiltPool(launch) /\ address \in new_addresses(launch)
  BY <1>2, <1>3 DEF Launched
<1>5. /\ chain[launch.key] = mint_of(launch)
      /\ chain[base_vault_address(launch)] = vault_of(launch.key, mint_of(launch).supply)
      /\ chain[quote_vault_address(launch)] = vault_of(launch.request.quoteMint, 0)
      /\ chain[pool_address(launch)] = pool_of(launch)
  BY <1>4, PoolAccounts DEF Launched, new_addresses
<1>6. chain[address] = pool_of(launch)
  BY <1>4, <1>5 DEF new_addresses, mint_of, vault_of
<1>7. launch.request = [config |-> launch.request.config,
                        quoteMint |-> chain[launch.request.config].quote_mint]
  BY <1>4 DEF Launched, BuiltPool
<1>8. /\ chain[address].config = launch.request.config /\ chain[address].creator = launch.payer
      /\ chain[address].base_mint = launch.key
      /\ chain[address].base_vault = base_vault_address(launch)
      /\ chain[address].quote_vault = quote_vault_address(launch)
      /\ chain[address].pool_type = chain[launch.request.config].token_type
  BY <1>6 DEF pool_of
<1>9. calls[c].stage = "built" /\ makes_pool(c)
  BY <1>3, <1>4 DEF BuiltPool, makes_pool
<1>10. /\ chain[chain[address].base_mint] = mint_of(launch)
       /\ chain[chain[address].base_vault] = vault_of(launch.key, mint_of(launch).supply)
       /\ chain[chain[address].quote_vault] = vault_of(launch.request.quoteMint, 0)
       /\ launch.request.quoteMint = chain[launch.request.config].quote_mint
  BY <1>5, <1>7, <1>8
<1>11. \E d \in Calls :
         /\ calls[d].stage = "built" /\ makes_pool(d)
         /\ calls[d].key = chain[address].base_mint
         /\ calls[d].payer = chain[address].creator
         /\ calls[d].request = [config    |-> chain[address].config,
                                quoteMint |-> chain[chain[address].config].quote_mint]
  BY <1>3, <1>7, <1>8, <1>9
<1>12. QED
  BY <1>8, <1>10, <1>11 DEF mint_of, vault_of

(* Of the client in whole, whichever part of it moves.                     *)
LEMMA LaunchBooksHold == ClientSpec => []LaunchBooks
<1>1. ClientInit => LaunchBooks
  BY LaunchBooksInit DEF ClientInit
<1>2. LaunchBooks /\ [ClientNext]_<<part, launch_client_vars, swap_vars, exchange>> => LaunchBooks'
  BY LaunchBooksStep DEF ClientNext
<1>3. QED
  BY <1>1, <1>2, PTL DEF ClientSpec

(* However many callers launch, in whatever order: a sound transaction is  *)
(* accepted the first time it arrives, and never a second time.            *)
THEOREM LaunchesLand == ClientSpec => []LaunchLands
BY LaunchBooksHold, BooksLand, PTL

(* However late, often and in whatever order transactions arrive: each     *)
(* pool is what one call asked for, with the whole supply in its vault and *)
(* nobody who can mint more.                                               *)
THEOREM PoolsAreAsRequested == ClientSpec => []PoolsAsRequested
BY LaunchBooksHold, BooksAsRequested, PTL

-----------------------------------------------------------------------------
(* The interface.  The instructions that client and program both name ...  *)
shared_call_names ==
  {"claimProtocolFee", "claimTradingFee", "closeClaimFeeOperator", "createClaimFeeOperator",
   "createConfig", "initializeVirtualPoolWithSplToken", "initializeVirtualPoolWithToken2022",
   "migrateMeteoraDamm", "migrationDammV2", "migrationDammV2CreateMetadata",
   "migrationMeteoraDammCreateMetadata", "partnerWithdrawSurplus",
   "protocolWithdrawSurplus", "swap"}

(* ... are no others ...                                                   *)
LEMMA SharedCallNames == SharedCalls \subseteq shared_call_names
<1> SUFFICES ASSUME NEW name \in SharedCalls
             PROVE  name \in shared_call_names
  OBVIOUS
<1>1. name \in {"claimProtocolFee", "claimTradingFee", "closeClaimFeeOperator",
                "createClaimFeeOperator", "createConfig",
                "creatorClaimLpFromMeteoraDynamicAmm", "initializeVirtualPoolWithSplToken",
                "initializeVirtualPoolWithToken2022", "migrateMeteoraDamm",
                "migrateMeteoraDammCreatorClaimLpToken",
                "migrateMeteoraDammLockLpTokenForCreator",
                "migrateMeteoraDammLockLpTokenForPartner",
                "migrateMeteoraDammPartnerClaimLpToken", "migrationDammV2",
                "migrationDammV2CreateMetadata", "migrationMeteoraDammCreateMetadata",
                "partnerClaimLpFromMeteoraDynamicAmm", "partnerWithdrawSurplus",
                "protocolWithdrawSurplus", "swap"}
  BY DEF SharedCalls, IDL!instructions
<1>2. name \in {"createClaimFeeOperator", "closeClaimFeeOperator", "claimProtocolFee",
                "protocolWithdrawSurplus", "createPartnerMetadata", "createConfig",
                "claimTradingFee", "partnerWithdrawSurplus",
                "initializeVirtualPoolWithSplToken", "initializeVirtualPoolWithToken2022",
                "createVirtualPoolMetadata", "swap", "createLocker",
                "migrationMeteoraDammCreateMetadata", "migrateMeteoraDamm",
                "migrateMeteoraDammLockLpToken", "migrateMeteoraDammClaimLpToken",
                "migrationDammV2CreateMetadata", "migrationDammV2"}
  BY DEF SharedCalls, Program!handlers
<1>3. QED
  BY <1>1, <1>2 DEF shared_call_names

(* ... and list the same accounts with the same access ...                *)
LEMMA EqualLists ==
  ASSUME NEW name \in shared_call_names \ {"migrationDammV2"}
  PROVE  Interface!instructions[name] = Interface!handlers[name]
<1> USE DEF Interface!instructions, Interface!handlers, Interface!event_cpi,
            Interface!emits_events, Interface!reads, Interface!writes, Interface!signs,
            Interface!pays, Interface!may_write
<1>1. CASE name = "claimProtocolFee"
  BY <1>1 DEF Interface!claimProtocolFee, Interface!ClaimProtocolFeesCtx
<1>2. CASE name = "claimTradingFee"
  BY <1>2 DEF Interface!claimTradingFee, Interface!ClaimTradingFeesCtx
<1>3. CASE name = "closeClaimFeeOperator"
  BY <1>3 DEF Interface!closeClaimFeeOperator, Interface!CloseClaimFeeOperatorCtx
<1>4. CASE name = "createClaimFeeOperator"
  BY <1>4 DEF Interface!createClaimFeeOperator, Interface!CreateClaimFeeOperatorCtx
<1>5. CASE name = "createConfig"
  BY <1>5 DEF Interface!createConfig, Interface!CreateConfigCtx
<1>6. CASE name = "initializeVirtualPoolWithSplToken"
  BY <1>6 DEF Interface!initializeVirtualPoolWithSplToken,
              Interface!InitializeVirtualPoolWithSplTokenCtx
<1>7. CASE name = "initializeVirtualPoolWithToken2022"
  BY <1>7 DEF Interface!initializeVirtualPoolWithToken2022,
              Interface!InitializeVirtualPoolWithToken2022Ctx
<1>8. CASE name = "migrateMeteoraDamm"
  BY <1>8 DEF Interface!migrateMeteoraDamm, Interface!MigrateMeteoraDammCtx
<1>9. CASE name = "migrationDammV2CreateMetadata"
  BY <1>9 DEF Interface!migrationDammV2CreateMetadata,
              Interface!MigrationDammV2CreateMetadataCtx
<1>10. CASE name = "migrationMeteoraDammCreateMetadata"
  BY <1>10 DEF Interface!migrationMeteoraDammCreateMetadata,
               Interface!MigrationMeteoraDammCreateMetadataCtx
<1>11. CASE name = "partnerWithdrawSurplus"
  BY <1>11 DEF Interface!partnerWithdrawSurplus, Interface!PartnerWithdrawSurplusCtx
<1>12. CASE name = "protocolWithdrawSurplus"
  BY <1>12 DEF Interface!protocolWithdrawSurplus, Interface!ProtocolWithdrawSurplusCtx
<1>13. CASE name = "swap"
  BY <1>13 DEF Interface!swap, Interface!SwapCtx
<1>14. QED
  BY <1>1, <1>2, <1>3, <1>4, <1>5, <1>6, <1>7, <1>8, <1>9, <1>10, <1>11, <1>12, <1>13
     DEF shared_call_names

(* ... but for the metadata of a migration to DAMM v2, which the client    *)
(* gives for writing and the program only reads ...                        *)
LEMMA DammV2Lists ==
  ASSUME NEW i \in 1 .. 25
  PROVE  LET field == Interface!handlers["migrationDammV2"][i]
             meta  == Interface!instructions["migrationDammV2"][i]
         IN  \/ meta = field
             \/ /\ i = 2
                /\ field = Interface!reads("migrationMetadata")
                /\ meta = Interface!writes("migrationMetadata")
<1>1. CASE i = 2
  BY <1>1 DEF Interface!instructions, Interface!handlers, Interface!reads, Interface!writes,
              Interface!pays, Interface!may_write, Interface!migrationDammV2,
              Interface!MigrateDammV2Ctx
<1>2. CASE i # 2
  BY <1>2 DEF Interface!instructions, Interface!handlers, Interface!migrationDammV2,
              Interface!MigrateDammV2Ctx
<1>3. QED
  BY <1>1, <1>2

(* ... in lists as long as each other ...                                  *)
LEMMA DammV2Length ==
  /\ Len(Interface!instructions["migrationDammV2"]) = 25
  /\ Len(Interface!handlers["migrationDammV2"]) = 25
BY DEF Interface!instructions, Interface!handlers, Interface!reads, Interface!writes,
       Interface!pays, Interface!may_write, Interface!migrationDammV2, Interface!MigrateDammV2Ctx

(* ... so that what the client sends at a position is what the program     *)
(* takes there, with the access it needs.                                  *)
LEMMA ListsFit ==
  ASSUME NEW name \in SharedCalls,
         NEW i \in Nat \ {0}, i <= Len(Interface!handlers[name])
  PROVE  /\ i <= Len(Interface!instructions[name])
         /\ Interface!fits(Interface!handlers[name][i], Interface!instructions[name][i])
         /\ Interface!instructions[name][i].account = Interface!handlers[name][i].account
<1>1. CASE name # "migrationDammV2"
  <2>1. Interface!instructions[name] = Interface!handlers[name]
    BY <1>1, SharedCallNames, EqualLists
  <2>2. QED
    BY <2>1 DEF Interface!fits
<1>2. CASE name = "migrationDammV2"
  <2>1. i \in 1 .. 25 /\ i <= Len(Interface!instructions[name])
    BY <1>2, DammV2Length
  <2>2. CASE Interface!instructions[name][i] = Interface!handlers[name][i]
    BY <2>1, <2>2 DEF Interface!fits
  <2>3. CASE /\ Interface!handlers[name][i] = Interface!reads("migrationMetadata")
             /\ Interface!instructions[name][i] = Interface!writes("migrationMetadata")
    BY <2>1, <2>3 DEF Interface!fits, Interface!reads, Interface!writes
  <2>4. QED
    BY <1>2, <2>1, <2>2, <2>3, DammV2Lists
<1>3. QED
  BY <1>1, <1>2

(* A call on its way has taken only accounts that were meant.              *)
ExchangeBooks ==
  /\ exchange.stage = "call" =>
       exchange \in [stage : {"call"}, instruction : SharedCalls, taken : Nat]
  /\ CallsAreTaken

(* Taking one more account keeps it so: no account is refused.             *)
LEMMA ExchangeBooksStep ==
  ExchangeBooks /\ [Interface!InterfaceNext]_exchange => ExchangeBooks'
<1> SUFFICES ASSUME ExchangeBooks, [Interface!InterfaceNext]_exchange
             PROVE  ExchangeBooks'
  OBVIOUS
<1> USE DEF CallsAreTaken, Interface!CallsAreTaken
<1>1. ASSUME NEW name \in SharedCalls, Interface!SendCall(name)
      PROVE  ExchangeBooks'
  BY <1>1 DEF Interface!SendCall, ExchangeBooks
<1>2. CASE Interface!TakeAccount
  <2> DEFINE name == exchange.instruction
             next == exchange.taken + 1
  <2>1. /\ exchange \in [stage : {"call"}, instruction : SharedCalls, taken : Nat]
        /\ name \in SharedCalls /\ next \in Nat \ {0}
    BY <1>2 DEF ExchangeBooks, Interface!TakeAccount
  <2>2. next <= Len(Interface!handlers[name])
    BY <1>2 DEF Interface!TakeAccount
  <2>3. /\ next <= Len(Interface!instructions[name])
        /\ Interface!fits(Interface!handlers[name][next], Interface!instructions[name][next])
    BY <2>1, <2>2, ListsFit
  <2>4. exchange' = [exchange EXCEPT !.taken = next]
    BY <1>2, <2>3 DEF Interface!TakeAccount
  <2>5. /\ exchange' \in [stage : {"call"}, instruction : SharedCalls, taken : Nat]
        /\ exchange'.instruction = name /\ exchange'.taken = next
    BY <2>1, <2>4
  <2>6. ASSUME NEW i \in 1 .. next
        PROVE  Interface!instructions[name][i].account = Interface!handlers[name][i].account
    <3>1. CASE i = next
      BY <3>1, <2>1, <2>2, ListsFit
    <3>2. CASE i \in 1 .. exchange.taken
      BY <3>2, <1>2 DEF ExchangeBooks, Interface!TakeAccount
    <3>3. QED
      BY <2>1, <3>1, <3>2
  <2>7. QED
    BY <2>5, <2>6 DEF ExchangeBooks
<1>3. CASE Interface!RunHandler \/ Interface!Done
  BY <1>3 DEF Interface!RunHandler, Interface!Done, Interface!Idle, ExchangeBooks
<1>4. ASSUME NEW type, Interface!ProgramWrites(type) \/ Interface!ClientWrites(type)
      PROVE  ExchangeBooks'
  <2>1. exchange'.stage = "read"
    BY <1>4 DEF Interface!ProgramWrites, Interface!ClientWrites, Interface!Write
  <2>2. QED
    BY <2>1 DEF ExchangeBooks
<1>5. CASE UNCHANGED exchange
  BY <1>5 DEF ExchangeBooks
<1>6. QED
  BY <1>1, <1>2, <1>3, <1>4, <1>5 DEF Interface!InterfaceNext

(* Whatever instruction of its IDL the client sends, as long as the        *)
(* program has it: no account is refused, and each lands in the field of   *)
(* the Accounts struct that the IDL means by it.                           *)
THEOREM CallsReachTheirFields == ClientSpec => []CallsAreTaken
<1>1. ClientInit => ExchangeBooks
  BY DEF ClientInit, Interface!InterfaceInit, Interface!Idle, ExchangeBooks, CallsAreTaken,
         Interface!CallsAreTaken
<1>2. ExchangeBooks /\ [ClientNext]_<<part, launch_client_vars, swap_vars, exchange>>
        => ExchangeBooks'
  BY ExchangeBooksStep DEF ClientNext
<1>3. ExchangeBooks => CallsAreTaken
  BY DEF ExchangeBooks
<1>4. QED
  BY <1>1, <1>2, <1>3, PTL DEF ClientSpec

=============================================================================
