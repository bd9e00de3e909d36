-------------------------- MODULE AccountCommands --------------------------
(***************************************************************************)
(* The commands of crates/cmds-solana/src/record, spl, spl_token_2022,     *)
(* streamflow and compression: records, authorities of mints and accounts, *)
(* time locks and compressed NFTs.                                         *)
(***************************************************************************)
EXTENDS CommandDefs

\* What the comments on RecordInstruction say of the accounts of a record.
RecordContracts ==
  [ RecordInitialize |-> [ accounts |-> <<"account", "authority">>,
                           signed |-> {}, optional |-> {}, seeds |-> <<>> ],
    RecordWrite |-> [ accounts |-> <<"account", "authority">>,
                      signed |-> {"authority"}, optional |-> {}, seeds |-> <<>> ] ]

\* create_with_seed refuses a long seed, and its result is unwrapped.
LongSeed == "seed is longer than 32 bytes"

\* record/initialize_record_with_seed.rs
InitializeRecordWithSeed(x) ==
  LET required == {"fee_payer", "authority", "seed", "data"}
  IN  [ Instr(Def(required,
                  {"submit"},
                  {"fee_payer"},
                  {"signature", "account"}, {}),
              required, {"signature", "account"}) EXCEPT
          !.ixs = Submit(x,
            <<Ix("create_account_with_seed", {"fee_payer", "authority"}),
              Instruction("RecordInitialize", <<"account", "authority">>, {}, <<>>),
              Instruction("RecordWrite", <<"account", "authority">>, {}, <<>>)>>),
          !.keys = {"fee_payer", "authority"},
          !.early = {"account"},
          !.facts = {LongSeed},
          !.panics = LongSeed \in x ]

\* record/read_record.rs
ReadRecord(x) ==
  LET required == {"account"}
      Short == "the account is shorter than a record"
  IN  [ Plain(Def(required,
                  {"submit"},
                  {"account"},
                  {"authority", "version", "data"}, {}),
              required, {"authority", "version", "data"}) EXCEPT
          !.asks = TRUE,
          !.facts = {Short},
          !.panics = Short \in x ]

\* record/write_to_record.rs
WriteToRecord(x) ==
  LET required == {"fee_payer", "authority", "seed", "offset", "data"}
  IN  [ Instr(Def(required, {"submit"}, {"fee_payer"}, {"signature"}, {}),
              required, {"signature"}) EXCEPT
          !.ixs = Submit(x, <<Instruction("RecordWrite", <<"account", "authority">>, {},
           <<>>)>>),
          !.keys = {"fee_payer", "authority"},
          !.facts = {LongSeed},
          !.panics = LongSeed \in x ]

\* The owner signs, unless there are signers; none of their keys is an input.
OwnerOrSigners(x) ==
  CASE "signer_pubkeys is not empty" \in x -> {"signer_pubkeys"}
    [] "owner_pubkey is the fee payer" \in x -> {"fee_payer"}
    [] OTHER -> {"owner_pubkey"}

\* spl/set_authority.rs
SetAuthority(x) ==
  LET required == {"fee_payer", "owned_pubkey", "authority_type", "owner_pubkey"}
  IN  [ Instr(Def(required,
                  {"new_authority", "signer_pubkeys", "submit"},
                  {"fee_payer", "owned_pubkey", "new_authority", "owner_pubkey"},
                  {"signature"}, {}),
              {"fee_payer", "owned_pubkey", "new_authority", "authority_type",
               "owner_pubkey", "signer_pubkeys"},
              {"signature"}) EXCEPT
          !.ixs = <<Ix("set_authority", OwnerOrSigners(x))>>,
          !.keys = {"fee_payer"},
          !.facts = {"signer_pubkeys is not empty", "owner_pubkey is the fee payer"} ]

\* spl_token_2022/set_authority.rs
SetAuthority2022(x) ==
  LET required == {"fee_payer", "owned_pubkey", "authority_type", "owner_pubkey"}
  IN  [ Instr(Def(required,
                  {"new_authority", "signer_pubkeys", "submit"},
                  {"fee_payer", "owned_pubkey", "new_authority", "owner_pubkey"},
                  {"signature"}, {}),
              {"fee_payer", "owned_pubkey", "new_authority", "authority_type",
               "owner_pubkey", "signer_pubkeys"},
              {"signature"}) EXCEPT
          !.ixs = <<Ix("set_authority_2022", OwnerOrSigners(x))>>,
          !.keys = {"fee_payer"},
          !.facts = {"signer_pubkeys is not empty", "owner_pubkey is the fee payer"} ]

\* streamflow/create.rs: the payer takes the place of the sender
StreamflowCreate(x) ==
  LET required == {"fee_payer", "sender", "recipient", "metadata", "mint_account",
                   "data"}
      LongName == "stream_name is longer than 64 bytes"
  IN  [ Instr(Def(required,
                  {"partner", "submit"},
                  {},
                  {"signature", "escrow_tokens", "sender_tokens", "recipient_tokens",
                   "metadata"}, {}),
              required, {"signature"}) EXCEPT
          !.ixs = Submit(x, <<Ix("streamflow_create", {"fee_payer", "metadata"})>>),
          !.keys = {"fee_payer", "sender", "metadata"},
          !.early = {"escrow_tokens", "sender_tokens", "recipient_tokens", "metadata"},
          !.facts = {LongName},
          !.panics = LongName \in x ]

\* streamflow/withdraw.rs
StreamflowWithdraw(x) ==
  LET required == {"fee_payer", "authority", "recipient", "metadata", "data"}
  IN  [ Instr(Def(required, {"partner", "submit"}, {}, {"signature"}, {}),
              required, {"signature"}) EXCEPT
          !.ixs = Submit(x, <<Ix("streamflow_withdraw", {"fee_payer"})>>),
          !.keys = {"fee_payer", "authority"},
          !.asks = TRUE ]

\* Compressed NFTs: the delegate of a leaf signs, or else its owner, whose input
\* may be an address only.
OwnerKey == "leaf_owner is a keypair"
LeafSigner(x) == OrElse(x, "leaf_delegate", "leaf_owner")
NoLeafSigner(x) == {"leaf_delegate", "leaf_owner"} \cap x = {}

\* What the answers of the DAS API would give must be given by hand: the
\* definitions have no input for these answers.
LacksLeaf(x, leaf) == ~(leaf \subseteq x)
BadCreator == "the address of a creator or of the collection is not one"

\* compression/burn.rs
BurnCnft(x) ==
  LET required == {"payer"}
      leaf == {"merkle_tree", "root", "data_hash", "creator_hash", "leaf_id", "index"}
  IN  [ Instr(Def(required,
                  {"leaf_owner", "leaf_delegate", "merkle_tree", "root", "data_hash",
                   "creator_hash", "leaf_id", "index", "submit"},
                  {"payer"},
                  {"signature"}, {}),
              required, {"signature"}) EXCEPT
          !.payer = "payer",
          !.ixs = Submit(x, <<Ix("bubblegum_burn", {LeafSigner(x)})>>),
          !.keys = {"payer", LeafSigner(x)},
          !.facts = {OwnerKey},
          !.refuses = \/ LacksLeaf(x, leaf)
                      \/ "leaf_delegate" \notin x /\ "leaf_owner" \in x /\ OwnerKey \notin x
                      \/ "leaf_delegate" \in x /\ "leaf_owner" \notin x,
          !.panics = ~LacksLeaf(x, leaf) /\ NoLeafSigner(x) ]

\* compression/transfer.rs: looks for the signer before the rest of the leaf
TransferCnft(x) ==
  LET required == {"payer", "new_leaf_owner"}
      leaf == {"proof", "root", "data_hash", "creator_hash"}
  IN  [ Instr(Def(required,
                  {"leaf_owner", "leaf_delegate", "tree_config", "merkle_tree", "root",
                   "data_hash", "creator_hash", "leaf_id", "index", "proof", "submit"},
                  {"payer"},
                  {"signature"}, {}),
              required, {"signature"}) EXCEPT
          !.payer = "payer",
          !.ixs = Submit(x, <<Ix("bubblegum_transfer", {LeafSigner(x)})>>),
          !.keys = {"payer", LeafSigner(x)},
          !.facts = {OwnerKey},
          !.refuses = \/ LacksLeaf(x, leaf \cup {"leaf_id", "index", "merkle_tree"})
                      \/ "leaf_delegate" \notin x /\ "leaf_owner" \in x /\ OwnerKey \notin x
                      \/ "leaf_delegate" \in x /\ "leaf_owner" \notin x,
          !.panics = ~LacksLeaf(x, leaf) /\ NoLeafSigner(x) ]

\* compression/update.rs
UpdateCnft(x) ==
  LET required == {"payer", "new_leaf_owner"}
  IN  [ Instr(Def(required,
                  {"leaf_owner", "leaf_delegate", "tree_config", "merkle_tree", "root",
                   "data_hash", "creator_hash", "leaf_id", "index", "proof", "submit"},
                  {"payer"},
                  {"signature"}, {}),
              {"payer", "authority", "leaf_delegate", "current_metadata",
               "updated_metadata"},
              {"signature"}) EXCEPT
          !.payer = "payer",
          !.ixs = Submit(x, <<Ix("bubblegum_update_metadata", {"payer", "authority"})>>),
          !.keys = {"payer", "authority"},
          !.facts = {BadCreator},
          !.refuses = LacksLeaf(x, {"proof", "root", "leaf_id", "index", "merkle_tree"}),
          !.panics = BadCreator \in x ]

\* compression/create_tree.rs: fails for a depth and a buffer that do not fit
CreateTree(x) ==
  LET required == {"payer", "creator"}
  IN  [ Instr(Def(required,
                  {"merkle_tree", "max_depth", "max_buffer", "canopy_levels",
                   "is_public", "submit"},
                  {"payer"},
                  {"signature", "tree_config"}, {}),
              {"payer", "creator", "merkle_tree", "max_depth", "max_buffer"},
               {"signature"}) EXCEPT
          !.payer = "payer",
          !.ixs = Submit(x, <<Ix("create_account", {"payer", "merkle_tree"}),
                      Ix("bubblegum_create_tree", {"payer", "creator"})>>),
          !.keys = {"payer", "creator", "merkle_tree"},
          !.early = {"tree_config"},
          !.asks = TRUE ]

\* compression/mint_to_collection_v1.rs: get_leaf_schema_event reads the leaf from the
\* confirmed transaction
MintCnftToCollection(x) ==
  LET required == {"payer", "collection_mint", "collection_authority",
                   "creator_or_delegate", "tree_config", "merkle_tree", "leaf_owner",
                   "metadata"}
  IN  [ Instr(Def(required,
                  {"is_delegate_authority", "leaf_delegate", "submit"},
                  {"payer"},
                  {"signature", "id", "nonce", "creator_hash", "data_hash",
                   "leaf_hash"}, {}),
              required, {"signature", "id", "nonce", "creator_hash", "data_hash",
               "leaf_hash"}) EXCEPT
          !.payer = "payer",
          !.ixs = Submit(x, <<Ix("bubblegum_mint_to_collection", {"payer",
           "creator_or_delegate", "collection_authority"})>>),
          !.keys = {"payer", "creator_or_delegate", "collection_authority"},
          !.facts = {BadCreator},
          !.panics = BadCreator \in x,
          !.follows = TRUE ]

\* compression/mint_v1.rs
MintCompressedNft(x) ==
  LET required == {"payer", "creator_or_delegate", "tree_config", "merkle_tree",
                   "leaf_owner", "metadata"}
  IN  [ Instr(Def(required,
                  {"leaf_delegate", "submit"},
                  {"payer"},
                  {"signature", "id", "nonce", "creator_hash", "data_hash",
                   "leaf_hash"}, {}),
              required, {"signature", "id", "nonce", "creator_hash", "data_hash",
               "leaf_hash"}) EXCEPT
          !.payer = "payer",
          !.ixs = Submit(x, <<Ix("bubblegum_mint", {"payer", "creator_or_delegate"})>>),
          !.keys = {"payer", "creator_or_delegate"},
          !.facts = {BadCreator},
          !.panics = BadCreator \in x,
          !.follows = TRUE ]

\* The commands of this module, by the name of their node.
AccountNames ==
  {"initialize_record_with_seed", "read_record", "write_to_record", "set_authority",
    "set_authority_2022", "create_streamflow_timelock", "withdraw_streamflow_timelock",
    "burn_cNFT", "transfer_cNFT", "update_cNFT", "create_tree",
    "mint_cNFT_to_collection", "mint_compressed_NFT"}

AccountCommand(c, x) ==
  CASE c = "initialize_record_with_seed" -> InitializeRecordWithSeed(x)
    [] c = "read_record" -> ReadRecord(x)
    [] c = "write_to_record" -> WriteToRecord(x)
    [] c = "set_authority" -> SetAuthority(x)
    [] c = "set_authority_2022" -> SetAuthority2022(x)
    [] c = "create_streamflow_timelock" -> StreamflowCreate(x)
    [] c = "withdraw_streamflow_timelock" -> StreamflowWithdraw(x)
    [] c = "burn_cNFT" -> BurnCnft(x)
    [] c = "transfer_cNFT" -> TransferCnft(x)
    [] c = "update_cNFT" -> UpdateCnft(x)
    [] c = "create_tree" -> CreateTree(x)
    [] c = "mint_cNFT_to_collection" -> MintCnftToCollection(x)
    [] c = "mint_compressed_NFT" -> MintCompressedNft(x)

=============================================================================
