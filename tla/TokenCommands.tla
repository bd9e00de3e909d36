--------------------------- MODULE TokenCommands ---------------------------
(***************************************************************************)
(* The commands at the top of crates/cmds-solana/src: keys and wallets,    *)
(* transfers of SOL and of tokens, mints and token accounts, and queries.  *)
(***************************************************************************)
EXTENDS CommandDefs

\* associated_token_account.rs
AssociatedTokenAccount(x) ==
  LET required == {"owner", "fee_payer", "mint_account"}
  IN  [ Instr(Def(required,
                  {"submit"},
                  {"owner", "fee_payer", "mint_account"},
                  {"associated_token_account", "signature"}, {}),
              required, {"signature"}) EXCEPT
          !.ixs = Submit(x, <<Ix("create_associated_token_account", {"fee_payer"})>>),
          !.keys = {"fee_payer"},
          !.early = {"associated_token_account"} ]

\* Seeded fault: an optional input without a default.
CreateMintAccount_NotOptional(x) ==
  LET required == {"fee_payer", "decimals", "mint_authority", "mint_account"}
  IN  [ Instr(Def(required,
                  {"freeze_authority", "memo", "submit"},
                  {"fee_payer", "mint_authority", "freeze_authority", "mint_account"},
                  {"signature"}, {}),
              required \cup {"freeze_authority"}, {"signature"}) EXCEPT
          !.ixs = Submit(x, <<Ix("create_account", {"fee_payer", "mint_account"}),
                      Ix("initialize_mint2", {}),
                      Ix("memo", {"fee_payer"})>>),
          !.keys = {"fee_payer", "mint_authority", "mint_account"},
          !.asks = TRUE ]

\* create_mint_account.rs
CreateMintAccount(x) ==
  LET required == {"fee_payer", "decimals", "mint_authority", "mint_account"}
  IN  [ Instr(Def(required,
                  {"freeze_authority", "memo", "submit"},
                  {"fee_payer", "mint_authority", "freeze_authority", "mint_account"},
                  {"signature"}, {}),
              required, {"signature"}) EXCEPT
          !.ixs = Submit(x, <<Ix("create_account", {"fee_payer", "mint_account"}),
                      Ix("initialize_mint2", {}),
                      Ix("memo", {"fee_payer"})>>),
          !.keys = {"fee_payer", "mint_authority", "mint_account"},
          !.asks = TRUE ]

\* Seeded fault: the key of the new account is not sent along.
CreateTokenAccount_KeyMissing(x) ==
  LET required == {"owner", "fee_payer", "mint_account", "token_account"}
  IN  [ Instr(Def(required,
                  {"submit"},
                  {"owner", "fee_payer", "mint_account", "token_account"},
                  {"signature"}, {}),
              required, {"signature"}) EXCEPT
          !.ixs = Submit(x, <<Ix("create_account", {"fee_payer", "token_account"}),
                      Ix("initialize_account", {})>>),
          !.keys = {"fee_payer"},
          !.asks = TRUE ]

\* create_token_account.rs
CreateTokenAccount(x) ==
  LET required == {"owner", "fee_payer", "mint_account", "token_account"}
  IN  [ Instr(Def(required,
                  {"submit"},
                  {"owner", "fee_payer", "mint_account", "token_account"},
                  {"signature"}, {}),
              required, {"signature"}) EXCEPT
          !.ixs = Submit(x, <<Ix("create_account", {"fee_payer", "token_account"}),
                      Ix("initialize_account", {})>>),
          !.keys = {"fee_payer", "token_account"},
          !.asks = TRUE ]

\* das.rs
Das(x) ==
  LET required == {"url", "method", "params"}
  IN  [ Plain(Def(required,
                  {"id"},
                  {"url", "id", "method", "params"},
                  {"response"}, {}),
              required, {"response"}) EXCEPT !.asks = TRUE ]

\* find_pda.rs: find_program_address panics for a seed of more than 32 bytes
FindPda(x) ==
  LET seeds == {"seed_1", "seed_2", "seed_3", "seed_4", "seed_5"}
      LongString == "one of the seeds is a string of more than 32 bytes"
  IN  [ Plain(Def({}, {"program_id"} \cup seeds, {}, {"pda"}, {}),
              {"program_id"}, {"pda"}) EXCEPT
          !.facts = {LongString},
          !.panics = LongString \in x /\ seeds \cap x # {} ]

\* generate_keypair.rs
GenerateKeypair(x) ==
  LET required == {}
  IN  [ Plain(Def(required,
                  {"seed", "private_key", "passphrase"},
                  {},
                  {"pubkey", "keypair"}, {}),
              required, {"pubkey", "keypair"}) EXCEPT !.asks = TRUE ]

\* get_balance.rs
GetBalance(x) ==
  LET required == {"pubkey"}
  IN  [ Plain(Def(required, {}, {}, {"balance"}, {}), required, {"balance"}) EXCEPT !.asks = TRUE ]

\* memo.rs
Memo(x) ==
  LET required == {"fee_payer", "memo"}
  IN  [ Instr(Def(required, {"submit"}, {"fee_payer"}, {"signature"}, {}),
              required, {"signature"}) EXCEPT
          !.ixs = Submit(x, <<Ix("memo", {"fee_payer"})>>),
          !.keys = {"fee_payer"} ]

\* ui_amount_to_amount: the power of ten of so many decimals is no Decimal.
ManyDecimals == "decimals, or those of the mint, are 29 or more"

\* mint_token.rs
MintToken(x) ==
  LET required == {"fee_payer", "mint_authority", "mint_account", "recipient",
                   "amount"}
  IN  [ Instr(Def(required,
                  {"decimals", "submit"},
                  {"fee_payer", "mint_account", "recipient"},
                  {"signature"}, {}),
              required, {"signature"}) EXCEPT
          !.ixs = Submit(x, <<Ix("mint_to_checked", {"fee_payer", "mint_authority"})>>),
          !.keys = {"fee_payer", "mint_authority"},
          !.facts = {ManyDecimals},
          !.panics = ManyDecimals \in x,
          !.asks = TRUE ]

\* pyth_price.rs
PythPrice(x) ==
  LET required == {"price_feed_id"}
  IN  [ Plain(Def(required, {}, {}, {"price"}, {}), required, {"price"}) EXCEPT !.asks = TRUE ]

\* request_airdrop.rs
RequestAirdrop(x) ==
  LET required == {"pubkey"}
  IN  [ Plain(Def(required, {"amount"}, {"pubkey"}, {"signature"}, {}),
              required, {"signature"}) EXCEPT !.asks = TRUE ]

\* transfer_sol.rs: fails when the amount is negative or too large
TransferSol(x) ==
  LET required == {"sender", "recipient", "amount"}
  IN  [ Instr(Def(required, {"fee_payer", "submit"}, {}, {"signature"}, {}),
              required, {"signature"}) EXCEPT
          !.payer = OrElse(x, "fee_payer", "sender"),
          !.ixs = Submit(x, <<Ix("transfer", {"sender"})>>),
          !.keys = {"sender"} \cup Keys(x, {"fee_payer"}),
          !.asks = TRUE ]

\* transfer_token.rs
TransferToken(x) ==
  LET required == {"fee_payer", "mint_account", "amount", "recipient", "sender_owner"}
      TokenAccount == "recipient is a token account"
      Funded == "the account of the recipient exists"
  IN  [ Instr(Def(required,
                  {"decimals", "sender_token_account", "allow_unfunded",
                   "fund_recipient", "memo", "submit"},
                  {"fee_payer", "recipient", "sender_token_account", "sender_owner"},
                  {"signature", "recipient_token_account"}, {}),
              required, {"signature"}) EXCEPT
          !.ixs = Submit(x, CreateFirst(x, {TokenAccount, Funded},
              Ix("create_associated_token_account", {"fee_payer"}),
              <<Ix("transfer_checked", {"sender_owner", "fee_payer"}),
                Ix("memo", {"fee_payer"})>>)),
          !.keys = {"fee_payer", "sender_owner"},
          !.early = {"recipient_token_account"},
          !.facts = {TokenAccount, Funded, ManyDecimals},
          !.panics = ManyDecimals \in x,
          !.asks = TRUE ]

\* wallet.rs: fails when the form holds no address
Wallet(x) ==
  LET required == {}
  IN  [ Plain(Def(required, {}, {}, {"pubkey", "keypair"}, {}),
              required, {"pubkey", "keypair"}) EXCEPT !.asks = TRUE ]

\* The commands of this module, by the name of their node.
TokenNames ==
  {"associated_token_account", "create_mint_account", "create_token_account",
    "das_api", "find_pda", "generate_keypair", "get_balance", "memo", "mint_token",
    "pyth_price", "request_airdrop", "transfer_sol", "transfer_token", "wallet"}

TokenCommand(c, x) ==
  CASE c = "associated_token_account" -> AssociatedTokenAccount(x)
    [] c = "create_mint_account" -> CreateMintAccount(x)
    [] c = "create_token_account" -> CreateTokenAccount(x)
    [] c = "das_api" -> Das(x)
    [] c = "find_pda" -> FindPda(x)
    [] c = "generate_keypair" -> GenerateKeypair(x)
    [] c = "get_balance" -> GetBalance(x)
    [] c = "memo" -> Memo(x)
    [] c = "mint_token" -> MintToken(x)
    [] c = "pyth_price" -> PythPrice(x)
    [] c = "request_airdrop" -> RequestAirdrop(x)
    [] c = "transfer_sol" -> TransferSol(x)
    [] c = "transfer_token" -> TransferToken(x)
    [] c = "wallet" -> Wallet(x)

=============================================================================
