---------------------------- MODULE NftCommands ----------------------------
(***************************************************************************)
(* The commands of crates/cmds-solana/src/nft: the core, candy machine and *)
(* token metadata programs, and uploads to Arweave.                        *)
(***************************************************************************)
EXTENDS CommandDefs

\* nft/core/create_asset.rs
CreateCoreAsset(x) ==
  LET required == {"fee_payer", "name", "uri"}
  IN  [ Instr(Def(required,
                  {"asset", "authority", "collection", "verified_creator", "plugins",
                   "submit"},
                  {"fee_payer"},
                  {"signature"}, {}),
              {"fee_payer", "asset", "authority", "name", "uri", "plugins",
               "verified_creator"},
              {"signature"}) EXCEPT
          !.ixs = Submit(x, <<Ix("mpl_core_create", {"fee_payer", "asset"} \cup Keys(x,
           {"authority"}))>>),
          !.keys = {"fee_payer", "asset"} \cup Keys(x, {"authority", "verified_creator"}) ]

\* nft/core/create_collection.rs
CreateCoreCollection(x) ==
  LET required == {"fee_payer", "collection", "name", "uri"}
  IN  [ Instr(Def(required,
                  {"verified_creator", "update_authority", "plugins", "submit"},
                  {"fee_payer", "collection"},
                  {"signature", "collection"}, {}),
              {"fee_payer", "collection", "name", "uri", "plugins"}, {"signature"}) EXCEPT
          !.ixs = Submit(x, <<Ix("mpl_core_create_collection", {"fee_payer", "collection"})>>),
          !.keys = {"fee_payer", "collection"} \cup Keys(x, {"verified_creator"}),
          !.early = {"collection"} ]

\* nft/core/fetch_assets.rs
FetchAssets(x) ==
  LET required == {"collection"}
      Unanswered == "the query for the assets fails, or an account is not an asset"
  IN  [ Plain(Def(required, {}, {}, {"assets"}, {}), {}, {"assets"}) EXCEPT
          !.facts = {Unanswered},
          !.panics = Unanswered \in x ]

\* nft/core/update_asset.rs
UpdateCoreAsset(x) ==
  LET required == {"fee_payer", "asset"}
  IN  [ Instr(Def(required,
                  {"collection", "new_name", "new_uri", "new_update_authority",
                   "submit"},
                  {"fee_payer"},
                  {"signature", "mint_account", "metadata_account",
                   "master_edition_account"}, {}),
              required, {"signature"}) EXCEPT
          !.ixs = Submit(x, <<Ix("mpl_core_update", {"fee_payer"})>>),
          !.keys = {"fee_payer"} ]

\* nft/core/update_plugin.rs
UpdateCorePlugin(x) ==
  LET required == {"fee_payer", "asset"}
  IN  [ Instr(Def(required,
                  {"update_authority", "collection", "plugin", "submit"},
                  {"fee_payer"},
                  {"signature"}, {}),
              {"fee_payer", "asset", "update_authority", "plugin"}, {"signature"}) EXCEPT
          !.ixs = Submit(x, <<Ix("mpl_core_update_plugin", {"fee_payer"} \cup Keys(x,
           {"update_authority"}))>>),
          !.keys = {"fee_payer"} \cup Keys(x, {"update_authority"}) ]

\* nft/candy_machine_core/add_config_lines_core.rs
AddConfigLinesCore(x) ==
  LET required == {"candy_machine", "authority", "payer", "index", "config_lines"}
  IN  [ Instr(Def(required,
                  {"submit"},
                  {"candy_machine", "payer", "index"},
                  {"signature"}, {}),
              required, {"signature"}) EXCEPT
          !.payer = "payer",
          !.ixs = Submit(x, <<Ix("add_config_lines", {"authority"})>>),
          !.keys = {"payer", "authority"} ]

\* nft/candy_machine_core/initialize_core_candy_guards.rs
InitializeCandyGuardCore(x) ==
  LET required == {"base", "authority", "payer"}
  IN  [ Instr(Def(required,
                  {"candy_guards", "submit"},
                  {"base", "payer"},
                  {"signature", "candy_guard"}, {}),
              {"base", "authority", "payer", "candy_guards"}, {"signature"}) EXCEPT
          !.payer = "payer",
          !.ixs = Submit(x, <<Ix("candy_guard_initialize", {"base", "payer"})>>),
          !.keys = {"payer", "base"},
          !.early = {"candy_guard"},
          !.asks = TRUE ]

\* nft/candy_machine_core/initialize_core_candy_machine.rs
InitializeCandyMachineCore(x) ==
  LET required == {"candy_machine", "authority", "payer", "collection_mint",
                   "collection_update_authority", "candy_machine_data"}
  IN  [ Instr(Def(required,
                  {"rule_set", "submit"},
                  {"candy_machine", "payer", "collection_update_authority",
                   "candy_machine_data"},
                  {"signature"}, {}),
              required, {"signature"}) EXCEPT
          !.payer = "payer",
          !.ixs = Submit(x, <<Ix("create_account", {"payer", "candy_machine"}),
                      Ix("candy_machine_initialize", {"payer",
                       "collection_update_authority"})>>),
          !.keys = {"payer", "candy_machine", "collection_update_authority"},
          !.asks = TRUE ]

\* nft/candy_machine_core/wrap_core.rs
WrapCandyMachineCore(x) ==
  LET required == {"candy_machine", "candy_machine_authority", "candy_guard",
                   "candy_guard_authority", "payer"}
  IN  [ Instr(Def(required,
                  {"submit"},
                  {"candy_machine", "payer"},
                  {"signature"}, {}),
              required, {"signature"}) EXCEPT
          !.payer = "payer",
          !.ixs = Submit(x, <<Ix("candy_guard_wrap", {"candy_guard_authority",
           "candy_machine_authority"})>>),
          !.keys = {"payer", "candy_guard_authority", "candy_machine_authority"} ]

\* nft/candy_machine_core/mint_core.rs: the key of mint_account is commented out
MintCandyMachineCore(x) ==
  LET required == {"candy_machine", "authority", "payer", "minter", "mint_account",
                   "collection_mint", "collection_update_authority", "candy_guards"}
  IN  [ Instr(Def(required,
                  {"owner", "group_label", "submit"},
                  {"candy_machine", "payer", "minter", "owner", "mint_account",
                   "collection_update_authority", "candy_guards", "group_label"},
                  {"signature"}, {}),
              required, {"signature"}) EXCEPT
          !.payer = "payer",
          !.ixs = Submit(x, <<Ix("set_compute_unit_limit", {}),
                      Ix("candy_guard_mint", {"payer", "minter", "mint_account"})>>),
          !.keys = {"payer", "minter"},
          !.asks = TRUE ]

\* nft/candy_machine_v3/add_config_lines.rs
AddConfigLinesV3(x) ==
  LET required == {"candy_machine", "authority", "payer", "index", "config_lines"}
  IN  [ Instr(Def(required,
                  {"submit"},
                  {"candy_machine", "payer", "index"},
                  {"signature"}, {}),
              required, {"signature"}) EXCEPT
          !.payer = "payer",
          !.ixs = Submit(x, <<Ix("add_config_lines", {"authority"})>>),
          !.keys = {"payer", "authority"} ]

\* nft/candy_machine_v3/initialize_candy_guard.rs
InitializeCandyGuardV3(x) ==
  LET required == {"base", "authority", "payer"}
  IN  [ Instr(Def(required,
                  {"candy_guards", "submit"},
                  {"base", "payer"},
                  {"signature", "candy_guard"}, {}),
              {"base", "authority", "payer", "candy_guards"}, {"signature"}) EXCEPT
          !.payer = "payer",
          !.ixs = Submit(x, <<Ix("candy_guard_initialize", {"base", "payer"})>>),
          !.keys = {"payer", "base"},
          !.early = {"candy_guard"},
          !.asks = TRUE ]

\* nft/candy_machine_v3/initialize.rs
InitializeCandyMachineV3(x) ==
  LET required == {"candy_machine", "authority", "payer", "collection_mint",
                   "collection_update_authority", "candy_machine_data",
                   "token_standard"}
  IN  [ Instr(Def(required,
                  {"rule_set", "authorization_rules_program", "authorization_rules",
                   "submit"},
                  {"candy_machine", "payer", "collection_update_authority",
                   "candy_machine_data"},
                  {"signature"}, {}),
              required, {"signature"}) EXCEPT
          !.payer = "payer",
          !.ixs = Submit(x, <<Ix("create_account", {"payer", "candy_machine"}),
                      Ix("candy_machine_initialize", {"payer",
                       "collection_update_authority"})>>),
          !.keys = {"payer", "candy_machine", "collection_update_authority"},
          !.asks = TRUE ]

\* nft/candy_machine_v3/wrap.rs
WrapCandyMachineV3(x) ==
  LET required == {"candy_machine", "candy_machine_authority", "candy_guard",
                   "candy_guard_authority", "payer"}
  IN  [ Instr(Def(required,
                  {"submit"},
                  {"candy_machine", "payer"},
                  {"signature"}, {}),
              required, {"signature"}) EXCEPT
          !.payer = "payer",
          !.ixs = Submit(x, <<Ix("candy_guard_wrap", {"candy_guard_authority",
           "candy_machine_authority"})>>),
          !.keys = {"payer", "candy_guard_authority", "candy_machine_authority"} ]

\* nft/candy_machine_v3/mint.rs
MintCandyMachineV3(x) ==
  LET required == {"candy_machine", "authority", "payer", "minter", "mint_authority",
                   "mint_account", "collection_mint", "collection_update_authority",
                   "candy_guards"}
  IN  [ Instr(Def(required,
                  {"group_label", "rule_set", "authorization_rules_program",
                   "authorization_rules", "submit"},
                  {"candy_machine", "payer", "minter", "mint_authority",
                   "mint_account", "collection_update_authority", "candy_guards",
                   "group_label"},
                  {"signature"}, {}),
              required, {"signature"}) EXCEPT
          !.payer = "payer",
          !.ixs = Submit(x, <<Ix("candy_guard_mint_v2", {"payer", "minter",
           "mint_authority"})>>),
          !.keys = {"payer", "minter", "mint_authority"},
          !.asks = TRUE ]

\* mint_authority is an address; only the fee payer's key may happen to be its key.
MintAuthority == "mint_authority is the fee payer"
MintAuthoritySigner(x) == IF MintAuthority \in x THEN "fee_payer" ELSE "mint_authority"

\* nft/create_master_edition.rs
CreateMasterEdition(x) ==
  LET required == {"mint_account", "mint_authority", "fee_payer"}
  IN  [ Instr(Def(required,
                  {"proxy_as_update_authority", "update_authority", "max_supply",
                   "submit"},
                  {"proxy_as_update_authority", "mint_account", "fee_payer"},
                  {"signature", "metadata_account", "master_edition_account"}, {}),
              {"update_authority", "mint_account", "mint_authority", "fee_payer"},
               {"signature"}) EXCEPT
          !.ixs = Submit(x, <<Ix("create_master_edition_v3",
            {"fee_payer", "update_authority", MintAuthoritySigner(x)})>>),
          !.keys = {"fee_payer", "update_authority"},
          !.early = {"metadata_account", "master_edition_account"},
          !.facts = {MintAuthority} ]

\* nft/create_metadata_account.rs
CreateMetadataAccount(x) ==
  LET required == {"fee_payer", "is_mutable", "mint_account", "mint_authority",
                   "metadata"}
  IN  [ Instr(Def(required,
                  {"update_authority", "collection_details", "submit"},
                  {"fee_payer", "update_authority", "is_mutable", "mint_account",
                   "mint_authority"},
                  {"signature", "metadata_account"}, {}),
              {"update_authority", "is_mutable", "mint_account", "mint_authority",
               "fee_payer", "metadata"},
              {"signature"}) EXCEPT
          !.ixs = Submit(x, <<Ix("create_metadata_account_v3",
            {"fee_payer", "update_authority", MintAuthoritySigner(x)})>>),
          !.keys = {"fee_payer", "update_authority"},
          !.early = {"metadata_account"},
          !.facts = {MintAuthority} ]

\* nft/v1/burn_v1.rs
BurnV1(x) ==
  LET required == {"fee_payer", "mint_account"}
  IN  [ Instr(Def(required,
                  {"authority", "amount", "submit"},
                  {"fee_payer", "authority"},
                  {"signature"}, {}),
              {"fee_payer", "authority", "mint_account"}, {"signature"}) EXCEPT
          !.ixs = Submit(x, <<Ix("burn_v1", {"authority"})>>),
          !.keys = {"fee_payer", "authority"},
          !.asks = TRUE ]

\* From<String> of TokenStandard panics for a name that it does not know.
BadStandard == "token_standard is not the name of a TokenStandard"

\* nft/v1/create_v1.rs
CreateV1(x) ==
  LET required == {"fee_payer", "mint_account", "mint_authority", "data", "is_mutable",
                   "token_standard"}
  IN  [ Instr(Def(required,
                  {"update_authority", "print_supply", "collection_mint_account",
                   "collection_details", "decimals", "creators", "uses", "rule_set",
                   "submit"},
                  {"fee_payer", "update_authority", "collection_mint_account"},
                  {"signature", "mint_account", "metadata_account",
                   "master_edition_account"}, {}),
              {"fee_payer", "update_authority", "mint_account", "mint_authority",
               "data", "is_mutable", "token_standard"},
              {"signature"}) EXCEPT
          !.ixs = Submit(x, <<Ix("create_v1",
            {"fee_payer", "update_authority", "mint_account",
             MintAuthoritySigner(x)})>>),
          !.keys = {"fee_payer", "update_authority", "mint_account"},
          !.early = {"metadata_account", "master_edition_account", "mint_account"},
          !.facts = {MintAuthority, BadStandard},
          !.panics = BadStandard \in x ]

\* nft/v1/mint_v1.rs
MintV1(x) ==
  LET required == {"fee_payer", "mint_account", "token_owner"}
  IN  [ Instr(Def(required,
                  {"authority", "amount", "delegate_record",
                   "authorization_rules_program", "authorization_rules",
                   "authorization_data", "submit"},
                  {"fee_payer", "mint_account"},
                  {"signature", "token"}, {}),
              {"fee_payer", "authority", "mint_account", "token_owner", "amount"},
               {"signature"}) EXCEPT
          !.ixs = Submit(x, <<Ix("mint_v1", {"authority", "fee_payer"})>>),
          !.keys = {"fee_payer", "authority"},
          !.early = {"token"} ]

\* nft/v1/verify_collection_v1.rs
VerifyCollectionV1(x) ==
  LET required == {"fee_payer", "mint_account", "collection_authority",
                   "collection_mint_account", "submit"}
  IN  [ Instr(Def(required, {"delegate_record"}, {"fee_payer"}, {"signature"}, {}),
              {"mint_account", "fee_payer", "collection_authority",
               "collection_mint_account"}, {"signature"}) EXCEPT
          !.ixs = Submit(x, <<Ix("verify_collection_v1", {"collection_authority"})>>),
          !.keys = {"fee_payer", "collection_authority"} ]

\* nft/v1/verify_creator_v1.rs
VerifyCreatorV1(x) ==
  LET required == {"fee_payer", "authority", "metadata", "submit"}
  IN  [ Instr(Def(required,
                  {"delegate_record", "collection_mint_account"},
                  {"fee_payer"},
                  {"signature"}, {}),
              {"fee_payer", "authority", "metadata"}, {"signature"}) EXCEPT
          !.ixs = Submit(x, <<Ix("verify_creator_v1", {"authority"})>>),
          !.keys = {"fee_payer", "authority"} ]

\* The accounts as the comments and types of DelegateV1 and UpdateAsDelegateV1
\* have them: in this order, optional ones replaced by the program itself.
DelegateContract ==
  [ accounts |-> <<"delegate_record", "delegate", "metadata", "master_edition",
                   "token_record", "mint", "token", "authority", "payer",
                   "system_program", "sysvar_instructions", "spl_token_program",
                   "authorization_rules_program", "authorization_rules">>,
    signed |-> {"update_authority", "fee_payer"},
    optional |-> {"delegate_record", "master_edition", "token_record", "token",
                  "spl_token_program", "authorization_rules_program",
                  "authorization_rules"},
    seeds |-> <<>> ]
UpdateContract ==
  [ accounts |-> <<"authority", "delegate_record", "token", "mint", "metadata",
                   "edition", "payer", "system_program", "sysvar_instructions",
                   "authorization_rules_program", "authorization_rules">>,
    signed |-> {"fee_payer"},
    optional |-> {"delegate_record", "token", "edition",
                  "authorization_rules_program", "authorization_rules"},
    seeds |-> <<>> ]
MetadataContracts == [ delegate_v1 |-> DelegateContract, update_v1 |-> UpdateContract ]

\* instruction_with_remaining_accounts: one account after the other.
DelegateAccounts ==
  <<"delegate_record", "delegate", "metadata", "master_edition", "token_record",
    "mint", "token", "authority", "payer", "system_program", "sysvar_instructions",
    "spl_token_program", Placeholder, Placeholder>>
UpdateAccounts(x) ==
  <<"authority", IF "delegate_record" \in x THEN "delegate_record" ELSE Placeholder,
    Placeholder, "mint", "metadata", Placeholder, "payer", "system_program",
    "sysvar_instructions", Placeholder, Placeholder>>

\* nft/v1/delegate_v1.rs
DelegateV1(x) ==
  LET required == {"fee_payer", "delegate", "delegate_args", "update_authority",
                   "mint_account"}
  IN  [ Instr(Def(required,
                  {"submit"},
                  {"fee_payer"},
                  {"signature", "delegate_record", "token_record"}, {}),
              required, {"signature"}) EXCEPT
          !.ixs = Submit(x, <<Instruction("delegate_v1", DelegateAccounts,
            {"update_authority", "fee_payer"}, <<>>)>>),
          !.keys = {"fee_payer", "update_authority"},
          !.early = {"delegate_record", "token_record"} ]

\* nft/v1/update_v1.rs
UpdateV1(x) ==
  LET required == {"fee_payer", "delegate", "delegate_record", "update_authority",
                   "mint_account", "update_args"}
      Signer == OrElse(x, "delegate", "update_authority")
      BadAuthority == "new_update_authority is not an address"
  IN  [ Instr(Def(required,
                  {"submit"},
                  {"fee_payer"},
                  {"signature", "authority or delegate"}, {}),
              {"fee_payer", "mint_account", "update_args"}, {"signature"}) EXCEPT
          !.ixs = Submit(x, <<Instruction("update_v1", UpdateAccounts(x),
            {Signer, "fee_payer"}, <<>>)>>),
          !.keys = {"fee_payer", Signer},
          !.early = {"authority or delegate"},
          !.facts = {BadAuthority},
          !.panics = \/ {"delegate", "update_authority"} \cap x = {}
                     \/ BadAuthority \in x ]

\* nft/arweave_file_upload.rs
ArweaveFileUpload(x) ==
  LET required == {"fee_payer", "file_path", "fund_bundlr"}
  IN  [ Plain(Def(required, {}, {"fee_payer"}, {"file_url"}, {}),
              {"fee_payer", "file_path"}, {"file_url"}) EXCEPT !.asks = TRUE ]

\* nft/arweave_nft_upload.rs
ArweaveNftUpload(x) ==
  LET required == {"fee_payer", "metadata", "fund_bundlr"}
  IN  [ Plain(Def(required,
                  {},
                  {"fee_payer"},
                  {"metadata_url", "updated_metadata"}, {}),
              {"fee_payer", "metadata"}, {"metadata_url", "updated_metadata"}) EXCEPT !.asks = TRUE ]

\* The commands of this module, by the name of their node.
NftNames ==
  {"create_core_v2", "create_core_collection_v2", "fetch_assets", "update_core_v1",
    "mpl_core_update_plugin", "add_config_lines_core", "initialize_core_candy_guards",
    "initialize_candy_machine_core", "wrap_core", "mint_candy_machine_core",
    "add_config_lines", "initialize_candy_guard", "initialize_candy_machine", "wrap",
    "mint", "create_master_edition", "create_metadata_account", "burn_v1", "create_v1",
    "mint_v1", "verify_collection_v1", "verify_creator_v1", "delegate_v1", "update_v1",
    "arweave_file_upload", "arweave_nft_upload"}

NftCommand(c, x) ==
  CASE c = "create_core_v2" -> CreateCoreAsset(x)
    [] c = "create_core_collection_v2" -> CreateCoreCollection(x)
    [] c = "fetch_assets" -> FetchAssets(x)
    [] c = "update_core_v1" -> UpdateCoreAsset(x)
    [] c = "mpl_core_update_plugin" -> UpdateCorePlugin(x)
    [] c = "add_config_lines_core" -> AddConfigLinesCore(x)
    [] c = "initialize_core_candy_guards" -> InitializeCandyGuardCore(x)
    [] c = "initialize_candy_machine_core" -> InitializeCandyMachineCore(x)
    [] c = "wrap_core" -> WrapCandyMachineCore(x)
    [] c = "mint_candy_machine_core" -> MintCandyMachineCore(x)
    [] c = "add_config_lines" -> AddConfigLinesV3(x)
    [] c = "initialize_candy_guard" -> InitializeCandyGuardV3(x)
    [] c = "initialize_candy_machine" -> InitializeCandyMachineV3(x)
    [] c = "wrap" -> WrapCandyMachineV3(x)
    [] c = "mint" -> MintCandyMachineV3(x)
    [] c = "create_master_edition" -> CreateMasterEdition(x)
    [] c = "create_metadata_account" -> CreateMetadataAccount(x)
    [] c = "burn_v1" -> BurnV1(x)
    [] c = "create_v1" -> CreateV1(x)
    [] c = "mint_v1" -> MintV1(x)
    [] c = "verify_collection_v1" -> VerifyCollectionV1(x)
    [] c = "verify_creator_v1" -> VerifyCreatorV1(x)
    [] c = "delegate_v1" -> DelegateV1(x)
    [] c = "update_v1" -> UpdateV1(x)
    [] c = "arweave_file_upload" -> ArweaveFileUpload(x)
    [] c = "arweave_nft_upload" -> ArweaveNftUpload(x)

=============================================================================
