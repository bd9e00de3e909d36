-------------------------- MODULE WormholeCommands --------------------------
(***************************************************************************)
(* The commands of crates/cmds-solana/src/wormhole: messages and VAAs of   *)
(* the core bridge, the token bridge and the NFT bridge, on Solana and, by *)
(* way of a serverless API, on Ethereum.                                   *)
(***************************************************************************)
EXTENDS CommandDefs

\* An instruction of one of the three programs, with the seeds of the addresses
\* that it derives; the names of the accounts begin with the program's.
Bridge(signed, seeds) == Instruction("wormhole", <<>>, signed, seeds)

\* hex_to_address: an error without "0x", a panic when the rest is not hex or is
\* longer than 32 bytes.
No0x == "target_address does not start with 0x"
NotHex == "target_address is not hex"

\* parse_vaa and verify_signatures index bytes and keys they have not counted.
ShortVaa == "the VAA is cut short"
NoGuardian == "a guardian of the VAA is not in its set"
NoSet == "the guardian set cannot be read"
BadVaa == "the VAA or its payload has the wrong form"

\* The hash is a seed of the address of the posted VAA: find_program_address panics
\* for one of more than 32 bytes.
LongHash == "vaa_hash is longer than 32 bytes"

\* wormhole/get_vaa.rs: asks again until there is one, however long that takes
GetVaa(x) ==
  LET required == {"emitter", "sequence", "chain_id"}
  IN  [ Plain(Def(required, {}, {}, {"response", "vaa"}, {}),
              required, {"response", "vaa"}) EXCEPT !.asks = TRUE ]

\* wormhole/parse_vaa.rs
ParseVaa(x) ==
  LET required == {"vaa"}
  IN  [ Plain(Def(required,
                  {},
                  {},
                  {"parsed_vaa", "vaa_bytes", "signatures", "guardian_set_index",
                   "body", "vaa_hash", "vaa_secp256k_hash", "payload", "nft_token_id"}, {}),
              required, {"parsed_vaa", "vaa_bytes", "signatures", "body", "vaa_hash",
               "vaa_secp256k_hash", "guardian_set_index", "payload", "nft_token_id"}) EXCEPT
          !.facts = {ShortVaa, BadVaa},
          !.panics = ShortVaa \in x,
          !.refuses = BadVaa \in x /\ ShortVaa \notin x ]

\* wormhole/post_message.rs
PostWormholeMessage(x) ==
  LET required == {"payer", "emitter", "message"}
  IN  [ Instr(Def(required,
                  {"submit"},
                  {"payer"},
                  {"signature", "sequence", "emitter"}, {}),
              required, {"signature", "sequence", "emitter"}) EXCEPT
          !.payer = "payer",
          !.ixs = Submit(x, <<Ix("transfer", {"payer"}),
            Bridge({"message", "emitter", "payer"},
              [ core_sequence |-> <<"Sequence", "emitter">> ])>>),
          !.keys = {"payer", "emitter", "message"},
          !.asks = TRUE,
          !.follows = TRUE ]

\* wormhole/post_vaa.rs: the address is derived before the VAA is read
PostVaa(x) ==
  LET required == {"payer", "signature_set", "guardian_set_index", "vaa_hash", "vaa"}
  IN  [ Instr(Def(required,
                  {"submit"},
                  {"guardian_set_index"},
                  {"signature", "vaa_address"}, {}),
              required, {"signature"}) EXCEPT
          !.payer = "payer",
          !.ixs = Submit(x, <<
            Bridge({"payer"},
              [ core_guardian_set |-> <<"GuardianSet", "guardian_set_index">>,
                core_posted_vaa |-> <<"PostedVAA", "vaa_hash">> ])>>),
          !.keys = {"payer"},
          !.early = {"vaa_address"},
          !.facts = {BadVaa, LongHash},
          !.refuses = BadVaa \in x,
          !.panics = LongHash \in x ]

\* wormhole/verify_signatures.rs: a pair of instructions for every seven signatures
VerifySignatures(x) ==
  LET required == {"payer", "signature_set", "guardian_set_index"}
  IN  [ Instr(Def(required,
                  {"signatures", "vaa_body", "vaa_hash"},
                  {"payer", "signature_set", "guardian_set_index", "vaa_body",
                   "vaa_hash"},
                  {"signature"}, {}),
              {"payer", "signature_set", "guardian_set_index", "signatures",
               "vaa_body", "vaa_hash"},
              {"signature"}) EXCEPT
          !.payer = "payer",
          !.ixs = Submit(x, <<Ix("secp256k1", {}),
            Bridge({"payer", "signature_set"},
              [ core_guardian_set |-> <<"GuardianSet", "guardian_set_index">> ])>>),
          !.keys = {"payer", "signature_set"},
          !.facts = {NoGuardian, NoSet},
          !.panics = {NoGuardian, NoSet} \cap x # {} ]

\* wormhole/nft_bridge/complete_native.rs: the payload is read last
NftCompleteNative(x) ==
  LET required == {"payer", "vaa", "payload", "vaa_hash", "to_authority"}
      BadPayload == "the payload has the wrong form"
  IN  [ Instr(Def(required, {"submit"}, {"payer"}, {"token", "signature"}, {}),
              required, {"signature"}) EXCEPT
          !.payer = "payer",
          !.ixs = Submit(x, <<
            Bridge({"payer"},
              [ core_posted_vaa |-> <<"PostedVAA", "vaa_hash">>,
                nft_claim |-> <<"emitter_address", "emitter_chain", "sequence">>,
                nft_endpoint |-> <<"emitter_chain", "emitter_address">>,
                nft_custody |-> <<"mint">> ])>>),
          !.keys = {"payer"},
          !.early = {"token"},
          !.facts = {BadVaa, BadPayload, LongHash},
          !.refuses = {BadVaa, BadPayload} \cap x # {},
          !.panics = LongHash \in x /\ BadVaa \notin x ]

\* wormhole/nft_bridge/complete_wrapped.rs
NftCompleteWrapped(x) ==
  LET required == {"payer", "vaa", "payload", "vaa_hash", "to_authority"}
  IN  [ Instr(Def(required,
                  {"submit"},
                  {"payer"},
                  {"mint_metadata", "mint", "token_account", "signature"}, {}),
              required, {"signature"}) EXCEPT
          !.payer = "payer",
          !.ixs = Submit(x, <<
            Bridge({"payer"},
              [ core_posted_vaa |-> <<"PostedVAA", "vaa_hash">>,
                nft_claim |-> <<"emitter_address", "emitter_chain", "sequence">>,
                nft_endpoint |-> <<"emitter_chain", "emitter_address">>,
                nft_mint |-> <<"wrapped", "token_chain", "token_address",
                 "token_id">>,
                nft_mint_meta |-> <<"meta", "mint">> ])>>),
          !.keys = {"payer"},
          !.early = {"mint_metadata", "mint", "token_account"},
          !.facts = {BadVaa, LongHash},
          !.refuses = BadVaa \in x,
          !.panics = LongHash \in x /\ BadVaa \notin x ]

\* wormhole/nft_bridge/complete_wrapped_meta.rs
NftCompleteWrappedMeta(x) ==
  LET required == {"payer", "vaa", "payload", "vaa_hash"}
  IN  [ Instr(Def(required,
                  {"submit"},
                  {"payer"},
                  {"mint", "mint_metadata", "spl_metadata", "signature"}, {}),
              required, {"signature"}) EXCEPT
          !.payer = "payer",
          !.ixs = Submit(x, <<
            Bridge({"payer"},
              [ core_posted_vaa |-> <<"PostedVAA", "vaa_hash">>,
                nft_endpoint |-> <<"emitter_chain", "emitter_address">>,
                nft_mint |-> <<"wrapped", "token_chain", "token_address",
                 "token_id">>,
                nft_mint_meta |-> <<"meta", "mint">>,
                spl_metadata |-> <<"metadata", "token_metadata", "mint">> ])>>),
          !.keys = {"payer"},
          !.early = {"mint_metadata", "mint", "spl_metadata"},
          !.facts = {BadVaa, LongHash},
          !.refuses = BadVaa \in x,
          !.panics = LongHash \in x /\ BadVaa \notin x ]

\* wormhole/nft_bridge/transfer_native.rs
NftTransferNative(x) ==
  LET required == {"payer", "token_chain", "target_address", "target_chain", "message",
                   "from", "mint"}
  IN  [ Instr(Def(required,
                  {"submit"},
                  {"payer"},
                  {"metadata", "sequence", "emitter", "signature"}, {}),
              {"payer", "target_address", "target_chain", "message", "from", "mint"},
              {"signature", "sequence"}) EXCEPT
          !.payer = "payer",
          !.ixs = Submit(x, <<Ix("approve", {"payer"}),
            Bridge({"payer", "message"},
              [ nft_custody |-> <<"mint">>,
                spl_metadata |-> <<"metadata", "token_metadata", "mint">>,
                core_sequence |-> <<"Sequence", "emitter">> ])>>),
          !.keys = {"payer", "message"},
          !.early = {"metadata", "emitter"},
          !.follows = TRUE,
          !.facts = {No0x, NotHex},
          !.refuses = No0x \in x,
          !.panics = NotHex \in x /\ No0x \notin x ]

\* wormhole/nft_bridge/transfer_wrapped.rs
NftTransferWrapped(x) ==
  LET required == {"payer", "mint", "target_address", "target_chain", "message",
                   "from_owner"}
  IN  [ Instr(Def(required,
                  {"submit"},
                  {"payer"},
                  {"wrapped_meta_key", "emitter", "sequence", "signature"}, {}),
              required, {"signature", "sequence"}) EXCEPT
          !.payer = "payer",
          !.ixs = Submit(x, <<Ix("approve", {"from_owner"}),
            Bridge({"payer", "from_owner", "message"},
              [ nft_mint_meta |-> <<"meta", "mint">>,
                spl_metadata |-> <<"metadata", "token_metadata", "mint">>,
                core_sequence |-> <<"Sequence", "emitter">> ])>>),
          !.keys = {"payer", "from_owner", "message"},
          !.early = {"wrapped_meta_key", "emitter"},
          !.follows = TRUE,
          !.facts = {No0x, NotHex},
          !.refuses = No0x \in x,
          !.panics = NotHex \in x /\ No0x \notin x ]

\* wormhole/token_bridge/attest.rs
AttestToken(x) ==
  LET required == {"payer", "message", "mint"}
  IN  [ Instr(Def(required,
                  {"submit"},
                  {"payer"},
                  {"spl_metadata", "mint_metadata", "emitter", "sequence", "signature"}, {}),
              required, {"signature", "sequence"}) EXCEPT
          !.payer = "payer",
          !.ixs = Submit(x, <<
            Bridge({"payer", "message"},
              [ token_mint_meta |-> <<"meta", "mint">>,
                spl_metadata |-> <<"metadata", "token_metadata", "mint">>,
                core_sequence |-> <<"Sequence", "emitter">> ])>>),
          !.keys = {"payer", "message"},
          !.early = {"spl_metadata", "mint_metadata", "emitter"},
          !.follows = TRUE ]

\* wormhole/token_bridge/complete_native.rs
CompleteNative(x) ==
  LET required == {"payer", "vaa", "payload", "vaa_hash"}
  IN  [ Instr(Def(required,
                  {"fee_recipient", "submit"},
                  {"payer"},
                  {"mint", "signature"}, {}),
              required, {"signature"}) EXCEPT
          !.payer = "payer",
          !.ixs = Submit(x, <<
            Bridge({"payer"},
              [ core_posted_vaa |-> <<"PostedVAA", "vaa_hash">>,
                token_claim |-> <<"emitter_address", "emitter_chain", "sequence">>,
                token_endpoint |-> <<"emitter_chain", "emitter_address">>,
                token_custody |-> <<"mint">> ])>>),
          !.keys = {"payer"},
          !.early = {"mint"},
          !.facts = {BadVaa, LongHash},
          !.refuses = BadVaa \in x,
          !.panics = LongHash \in x /\ BadVaa \notin x ]

\* wormhole/token_bridge/complete_transfer_wrapped.rs
CompleteTransferWrapped(x) ==
  LET required == {"payer", "vaa", "payload", "vaa_hash"}
      Existing == "the token account of the payer exists"
  IN  [ Instr(Def(required,
                  {"fee_recipient", "submit"},
                  {"payer"},
                  {"mint_metadata", "mint", "signature"}, {}),
              required, {"signature"}) EXCEPT
          !.payer = "payer",
          !.ixs = Submit(x, CreateFirst(x, {Existing},
            Ix("create_associated_token_account", {"payer"}), <<
            Bridge({"payer"},
              [ core_posted_vaa |-> <<"PostedVAA", "vaa_hash">>,
                token_claim |-> <<"emitter_address", "emitter_chain", "sequence">>,
                token_endpoint |-> <<"emitter_chain", "emitter_address">>,
                token_mint |-> <<"wrapped", "token_chain", "token_address">>,
                token_mint_meta |-> <<"meta", "mint">> ])>>)),
          !.keys = {"payer"},
          !.early = {"mint_metadata", "mint"},
          !.facts = {BadVaa, Existing, LongHash},
          !.refuses = BadVaa \in x,
          !.panics = LongHash \in x /\ BadVaa \notin x,
          !.asks = TRUE ]

\* wormhole/token_bridge/create_wrapped.rs
CreateWrapped(x) ==
  LET required == {"payer", "vaa", "payload", "vaa_hash"}
  IN  [ Instr(Def(required,
                  {"submit"},
                  {"payer"},
                  {"spl_metadata", "mint_metadata", "mint", "signature"}, {}),
              required, {"signature"}) EXCEPT
          !.payer = "payer",
          !.ixs = Submit(x, <<
            Bridge({"payer"},
              [ core_posted_vaa |-> <<"PostedVAA", "vaa_hash">>,
                token_claim |-> <<"emitter_address", "emitter_chain", "sequence">>,
                token_endpoint |-> <<"emitter_chain", "emitter_address">>,
                token_mint |-> <<"wrapped", "token_chain", "token_address">>,
                token_mint_meta |-> <<"meta", "mint">>,
                spl_metadata |-> <<"metadata", "token_metadata", "mint">> ])>>),
          !.keys = {"payer"},
          !.early = {"spl_metadata", "mint_metadata", "mint"},
          !.facts = {BadVaa, LongHash},
          !.refuses = BadVaa \in x,
          !.panics = LongHash \in x /\ BadVaa \notin x ]

\* wormhole/token_bridge/initialize.rs
InitializeTokenBridge(x) ==
  LET required == {"payer"}
  IN  [ Instr(Def(required, {"submit"}, {"payer"}, {"signature"}, {}),
              required, {"signature"}) EXCEPT
          !.payer = "payer",
          !.ixs = Submit(x, <<Ix("wormhole", {"payer"})>>),
          !.keys = {"payer"} ]

\* wormhole/token_bridge/transfer_native.rs
TransferNative(x) ==
  LET required == {"payer", "message", "from", "mint", "amount", "fee",
                   "target_address", "target_chain"}
  IN  [ Instr(Def(required,
                  {"submit"},
                  {"payer"},
                  {"custody", "custody_signer", "sequence", "emitter", "signature"}, {}),
              required, {"signature", "sequence"}) EXCEPT
          !.payer = "payer",
          !.ixs = Submit(x, <<Ix("approve", {"payer"}),
            Bridge({"payer", "message"},
              [ token_custody |-> <<"mint">>,
                core_sequence |-> <<"Sequence", "emitter">> ])>>),
          !.keys = {"payer", "message"},
          !.early = {"custody", "custody_signer", "emitter"},
          !.follows = TRUE,
          !.facts = {No0x, NotHex},
          !.refuses = No0x \in x,
          !.panics = NotHex \in x /\ No0x \notin x ]

\* wormhole/token_bridge/transfer_wrapped.rs
TransferWrapped(x) ==
  LET required == {"payer", "mint", "amount", "fee", "target_address", "target_chain",
                   "message", "from_owner"}
  IN  [ Instr(Def(required,
                  {"submit"},
                  {"payer"},
                  {"wrapped_meta_key", "emitter", "sequence", "signature"}, {}),
              required, {"signature", "sequence"}) EXCEPT
          !.payer = "payer",
          !.ixs = Submit(x, <<Ix("approve", {"from_owner"}),
            Bridge({"payer", "from_owner", "message"},
              [ token_mint_meta |-> <<"meta", "mint">>,
                core_sequence |-> <<"Sequence", "emitter">> ])>>),
          !.keys = {"payer", "from_owner", "message"},
          !.early = {"wrapped_meta_key", "emitter"},
          !.follows = TRUE,
          !.facts = {No0x, NotHex},
          !.refuses = No0x \in x,
          !.panics = NotHex \in x /\ No0x \notin x ]

\* wormhole/utils/get_foreign_asset_eth.rs
GetForeignAssetEth(x) ==
  LET required == {"token", "chain_id", "network"}
  IN  [ Plain(Def(required, {"is_nft"}, {}, {"address"}, {}),
              {"network", "token", "is_nft", "chain_id"}, {"address"}) EXCEPT !.asks = TRUE ]

\* wormhole/nft_bridge/eth/redeem_nft_on_eth.rs
RedeemNftOnEth(x) ==
  LET required == {"keypair", "network_name", "signed_vaa"}
  IN  [ Plain(Def(required, {}, {}, {"receipt"}, {}), required, {"receipt"}) EXCEPT !.asks = TRUE ]

\* wormhole/nft_bridge/eth/transfer_nft_from_eth.rs
TransferNftFromEth(x) ==
  LET required == {"keypair", "network_name", "token", "token_id", "recipient"}
  IN  [ Plain(Def(required,
                  {},
                  {"keypair"},
                  {"response", "emitter", "sequence", "recipient_ata", "mint"}, {}),
              required, {"response", "emitter", "sequence", "recipient_ata", "mint"}) EXCEPT !.asks = TRUE ]

\* wormhole/token_bridge/eth/attest_from_eth.rs
AttestFromEth(x) ==
  LET required == {"keypair", "network_name", "token"}
  IN  [ Plain(Def(required,
                  {},
                  {"keypair"},
                  {"response", "emitter", "sequence"}, {}),
              required, {"response", "emitter", "sequence"}) EXCEPT !.asks = TRUE ]

\* wormhole/token_bridge/eth/create_wrapped_on_eth.rs: hex_to_address reads the answer, too
CreateWrappedOnEth(x) ==
  LET required == {"keypair", "network_name", "signed_vaa", "token"}
      BadAddress == "the address in the answer is not hex"
  IN  [ Plain(Def(required, {}, {}, {"receipt", "address"}, {}),
              required, {"receipt", "address"}) EXCEPT
          !.asks = TRUE,
          !.facts = {BadAddress},
          !.panics = BadAddress \in x ]

\* wormhole/token_bridge/eth/redeem_on_eth.rs
RedeemOnEth(x) ==
  LET required == {"keypair", "network_name", "signed_vaa"}
  IN  [ Plain(Def(required, {}, {}, {"receipt"}, {}), required, {"receipt"}) EXCEPT !.asks = TRUE ]

\* wormhole/token_bridge/eth/transfer_from_eth.rs
TransferFromEth(x) ==
  LET required == {"keypair", "network_name", "token", "recipient", "amount"}
  IN  [ Plain(Def(required,
                  {},
                  {"keypair"},
                  {"response", "emitter", "sequence", "recipient_ata", "mint"}, {}),
              required, {"response", "emitter", "sequence", "recipient_ata", "mint"}) EXCEPT !.asks = TRUE ]

\* The commands of this module, by the name of their node.
WormholeNames ==
  {"get_vaa", "parse_vaa", "post_message", "post_vaa", "verify_signatures",
    "nft_complete_native", "nft_complete_wrapped", "nft_complete_wrapped_meta",
    "nft_transfer_native", "nft_transfer_wrapped", "attest_token", "complete_native",
    "complete_transfer_wrapped", "create_wrapped", "initialize_token_bridge",
    "transfer_native", "transfer_wrapped", "get_foreign_asset_eth", "redeem_nft_on_eth",
    "transfer_nft_from_eth", "attest_from_eth", "create_wrapped_on_eth",
    "redeem_on_eth", "transfer_from_eth"}

WormholeCommand(c, x) ==
  CASE c = "get_vaa" -> GetVaa(x)
    [] c = "parse_vaa" -> ParseVaa(x)
    [] c = "post_message" -> PostWormholeMessage(x)
    [] c = "post_vaa" -> PostVaa(x)
    [] c = "verify_signatures" -> VerifySignatures(x)
    [] c = "nft_complete_native" -> NftCompleteNative(x)
    [] c = "nft_complete_wrapped" -> NftCompleteWrapped(x)
    [] c = "nft_complete_wrapped_meta" -> NftCompleteWrappedMeta(x)
    [] c = "nft_transfer_native" -> NftTransferNative(x)
    [] c = "nft_transfer_wrapped" -> NftTransferWrapped(x)
    [] c = "attest_token" -> AttestToken(x)
    [] c = "complete_native" -> CompleteNative(x)
    [] c = "complete_transfer_wrapped" -> CompleteTransferWrapped(x)
    [] c = "create_wrapped" -> CreateWrapped(x)
    [] c = "initialize_token_bridge" -> InitializeTokenBridge(x)
    [] c = "transfer_native" -> TransferNative(x)
    [] c = "transfer_wrapped" -> TransferWrapped(x)
    [] c = "get_foreign_asset_eth" -> GetForeignAssetEth(x)
    [] c = "redeem_nft_on_eth" -> RedeemNftOnEth(x)
    [] c = "transfer_nft_from_eth" -> TransferNftFromEth(x)
    [] c = "attest_from_eth" -> AttestFromEth(x)
    [] c = "create_wrapped_on_eth" -> CreateWrappedOnEth(x)
    [] c = "redeem_on_eth" -> RedeemOnEth(x)
    [] c = "transfer_from_eth" -> TransferFromEth(x)

=============================================================================
