------------------------- MODULE GovernanceCommands -------------------------
(***************************************************************************)
(* The commands of crates/cmds-solana/src/governance: each derives the     *)
(* addresses of the records it touches, builds one instruction of the SPL  *)
(* governance program (or of its chat program) and executes it.  Accounts  *)
(* carry the name of the input they come from; "fee_payer" is the payer.   *)
(***************************************************************************)
EXTENDS CommandDefs, Naturals

\* Addresses that several commands derive.
RealmConfigSeeds == <<"realm-config", "realm">>
HoldingSeeds(mint) == <<"governance", "realm", mint>>
TokenOwnerRecordSeeds ==
  <<"governance", "realm", "governing_token_mint", "governing_token_owner">>

\* The accounts of the realm's configuration that follow the fixed ones.
WithRealmConfig(x, records) ==
  <<"realm_config">>
    \o (IF "voter_weight_record" \in records THEN Given(x, "voter_weight_record") ELSE <<>>)
    \o (IF "max_voter_weight_record" \in records
          THEN Given(x, "max_voter_weight_record") ELSE <<>>)

\* The addin programs of a token, when its configuration names them.
WithTokenConfig(x, args, addins) ==
  IF args \in x THEN SelectSeq(addins, LAMBDA a : a \in x) ELSE <<>>

CommunityAddins == <<"community voter weight addin", "community max voter weight addin">>
CouncilAddins == <<"council voter weight addin", "council max voter weight addin">>
Addins == {CommunityAddins[i] : i \in 1..2} \cup {CouncilAddins[i] : i \in 1..2}

\* Seeded fault: two accounts change places.
AddRequiredSignatory_Swapped(x) ==
  LET required == {"fee_payer", "governance", "signatory"}
  IN  [ Instr(Def(required,
                  {"submit"},
                  {"fee_payer", "governance"},
                  {"signature", "required_signatory_address"}, {}),
              required, {"signature"}) EXCEPT
          !.ixs = <<Instruction("AddRequiredSignatory",
              <<"required_signatory", "governance", "fee_payer", "system_program">>,
              {"governance", "fee_payer"},
              [required_signatory |-> <<"required-signatory", "governance",
               "signatory">>])>>,
          !.keys = {"fee_payer", "governance"},
          !.early = {"required_signatory_address"} ]

\* governance/add_required_signatory.rs
AddRequiredSignatory(x) ==
  LET required == {"fee_payer", "governance", "signatory"}
  IN  [ Instr(Def(required,
                  {"submit"},
                  {"fee_payer", "governance"},
                  {"signature", "required_signatory_address"}, {}),
              required, {"signature"}) EXCEPT
          !.ixs = <<Instruction("AddRequiredSignatory",
              <<"governance", "required_signatory", "fee_payer", "system_program">>,
              {"governance", "fee_payer"},
              [required_signatory |-> <<"required-signatory", "governance",
               "signatory">>])>>,
          !.keys = {"fee_payer", "governance"},
          !.early = {"required_signatory_address"} ]

\* governance/add_signatory.rs
AddSignatory(x) ==
  LET required == {"fee_payer", "governance", "proposal", "signatory",
                   "add_signatory_authority"}
      ByOwner == "add_signatory_authority is the proposal owner"
  IN  [ Instr(Def(required,
                  {"governance_authority", "submit"},
                  {"fee_payer", "governance"},
                  {"signature", "signatory_record_address"}, {}),
              required, {"signature"}) EXCEPT
          !.ixs = <<Instruction("AddSignatory",
              <<"governance", "proposal", "signatory_record", "fee_payer",
               "system_program">>
                \o (IF ByOwner \in x THEN <<"token_owner_record",
                 "governance_authority">> ELSE <<"required_signatory">>),
              IF ByOwner \in x THEN {"fee_payer", "governance_authority"} ELSE
               {"fee_payer"},
              [signatory_record |-> <<"governance", "proposal", "signatory">>,
               required_signatory |-> <<"required-signatory", "governance",
                "signatory">>])>>,
          !.keys = Keys(x, {"fee_payer", "governance_authority"}),
          !.early = {"signatory_record_address"},
          !.facts = {ByOwner} ]

\* governance/cancel_proposal.rs
CancelProposal(x) ==
  LET required == {"fee_payer", "realm", "governance", "proposal",
                   "governance_authority"}
  IN  [ Instr(Def(required,
                  {"proposal_owner_record", "submit"},
                  {"fee_payer", "realm"},
                  {"signature"}, {}),
              {"fee_payer", "realm", "governance", "proposal", "proposal_owner_record",
               "governance_authority"},
              {"signature"}) EXCEPT
          !.ixs = <<Instruction("CancelProposal",
              <<"realm", "governance", "proposal", "proposal_owner_record",
               "governance_authority">>,
              {"governance_authority"},
              <<>>)>>,
          !.keys = {"fee_payer", "governance_authority"} ]

\* governance/cast_vote.rs
CastVote(x) ==
  LET required == {"fee_payer", "realm", "governance", "proposal",
                   "proposal_owner_record", "voter_token_owner_record",
                   "governance_authority", "vote_governing_token_mint", "vote"}
  IN  [ Instr(Def(required,
                  {"voter_weight_record", "max_voter_weight_record", "submit"},
                  {"fee_payer", "realm", "governance"},
                  {"signature", "vote_record_address"}, {}),
              required, {"signature"}) EXCEPT
          !.ixs = <<Instruction("CastVote",
              <<"realm", "governance", "proposal", "proposal_owner_record",
               "voter_token_owner_record", "governance_authority", "vote_record",
               "vote_governing_token_mint", "fee_payer", "system_program">>
                \o WithRealmConfig(x, {"voter_weight_record",
                 "max_voter_weight_record"}),
              {"governance_authority", "fee_payer"},
              [vote_record |-> <<"governance", "proposal",
               "voter_token_owner_record">>,
               realm_config |-> RealmConfigSeeds])>>,
          !.keys = {"fee_payer", "governance_authority"},
          !.early = {"vote_record_address"} ]

\* governance/complete_proposal.rs
CompleteProposal(x) ==
  LET required == {"fee_payer", "proposal", "token_owner_record",
                   "complete_proposal_authority"}
  IN  [ Instr(Def(required,
                  {"submit"},
                  {"fee_payer", "proposal", "token_owner_record"},
                  {"signature"}, {}),
              required, {"signature"}) EXCEPT
          !.ixs = <<Instruction("CompleteProposal",
              <<"proposal", "token_owner_record", "complete_proposal_authority">>,
              {"complete_proposal_authority"},
              <<>>)>>,
          !.keys = {"fee_payer", "complete_proposal_authority"} ]

\* governance/create_governance.rs
CreateGovernance(x) ==
  LET required == {"fee_payer", "realm", "governance_seed", "token_owner_record",
                   "create_authority", "config"}
  IN  [ Instr(Def(required,
                  {"voter_weight_record", "submit"},
                  {"fee_payer", "realm"},
                  {"signature", "governance_address"}, {}),
              required, {"signature"}) EXCEPT
          !.ixs = <<Instruction("CreateGovernance",
              <<"realm", "governance_address", "governance_seed",
               "token_owner_record", "fee_payer", "system_program",
               "create_authority">>
                \o WithRealmConfig(x, {"voter_weight_record"}),
              {"fee_payer", "create_authority"},
              [governance_address |-> <<"account-governance", "realm",
               "governance_seed">>,
               realm_config |-> RealmConfigSeeds])>>,
          !.keys = {"fee_payer", "create_authority"},
          !.early = {"governance_address"} ]

\* governance/create_native_treasury.rs
CreateNativeTreasury(x) ==
  LET required == {"fee_payer", "governance"}
  IN  [ Instr(Def(required,
                  {"submit"},
                  {"fee_payer", "governance"},
                  {"signature", "native_treasury_address"}, {}),
              required, {"signature"}) EXCEPT
          !.ixs = <<Instruction("CreateNativeTreasury",
              <<"governance", "native_treasury", "fee_payer", "system_program">>,
              {"fee_payer"},
              [native_treasury |-> <<"native-treasury", "governance">>])>>,
          !.keys = {"fee_payer"},
          !.early = {"native_treasury_address"} ]

\* governance/create_proposal.rs
CreateProposal(x) ==
  LET required == {"fee_payer", "governance", "proposal_owner_record",
                   "governance_authority", "name", "description_link",
                   "governing_token_mint", "vote_type", "use_deny_option", "options",
                   "proposal_seed"}
  IN  [ Instr(Def(required,
                  {"voter_weight_record", "realm", "submit"},
                  {"fee_payer", "governance", "proposal_owner_record", "realm"},
                  {"signature", "proposal_address", "proposal_deposit_address"}, {}),
              {"fee_payer", "governance", "proposal_owner_record",
               "governance_authority", "realm", "name", "description_link",
               "governing_token_mint", "vote_type", "use_deny_option", "options",
               "proposal_seed"},
              {"signature"}) EXCEPT
          !.ixs = <<Instruction("CreateProposal",
              <<"realm", "proposal_address", "governance", "proposal_owner_record",
               "governing_token_mint", "governance_authority", "fee_payer",
               "system_program">>
                \o WithRealmConfig(x, {"voter_weight_record"})
                \o <<"proposal_deposit">>,
              {"governance_authority", "fee_payer"},
              [proposal_address |-> <<"governance", "governance",
               "governing_token_mint", "proposal_seed">>,
               proposal_deposit |-> <<"proposal-deposit", "proposal_address",
                "fee_payer">>,
               realm_config |-> RealmConfigSeeds])>>,
          !.keys = {"fee_payer", "governance_authority"},
          !.early = {"proposal_address", "proposal_deposit_address"} ]

\* governance/create_realm.rs
CreateRealm(x) ==
  LET required == {"fee_payer", "realm_authority", "community_token_mint", "name",
                   "min_weight", "max_weight_source"}
      LongName == "name is longer than 32 bytes"
  IN  [ Instr(Def(required,
                  {"council_token_mint", "community_token_config_args",
                   "council_token_config_args", "submit"},
                  {"fee_payer", "realm_authority", "community_token_mint"},
                  {"signature", "realm", "community_token_holding"}, {}),
              required, {"signature"}) EXCEPT
          !.ixs = <<Instruction("CreateRealm",
              <<"realm", "realm_authority", "community_token_mint",
               "community_token_holding", "fee_payer", "system_program", "spl_token",
               "rent">>
                \o (IF "council_token_mint" \in x THEN <<"council_token_mint",
                 "council_token_holding">> ELSE <<>>)
                \o <<"realm_config">>
                \o WithTokenConfig(x, "community_token_config_args", CommunityAddins)
                \o WithTokenConfig(x, "council_token_config_args", CouncilAddins),
              {"fee_payer"},
              [realm |-> <<"governance", "name">>,
               community_token_holding |-> HoldingSeeds("community_token_mint"),
               council_token_holding |-> HoldingSeeds("council_token_mint"),
               realm_config |-> RealmConfigSeeds])>>,
          !.keys = {"fee_payer"},
          !.early = {"realm", "community_token_holding"},
          !.facts = Addins \cup {LongName},
          !.panics = LongName \in x ]

\* governance/create_token_owner_record.rs
CreateTokenOwnerRecord(x) ==
  LET required == {"fee_payer", "realm", "governing_token_owner",
                   "governing_token_mint"}
  IN  [ Instr(Def(required,
                  {"submit"},
                  {"fee_payer", "realm", "governing_token_owner"},
                  {"signature", "token_owner_record_address"}, {}),
              required, {"signature"}) EXCEPT
          !.ixs = <<Instruction("CreateTokenOwnerRecord",
              <<"realm", "governing_token_owner", "token_owner_record",
               "governing_token_mint", "fee_payer", "system_program">>,
              {"fee_payer"},
              [token_owner_record |-> TokenOwnerRecordSeeds])>>,
          !.keys = {"fee_payer"},
          !.early = {"token_owner_record_address"} ]

\* governance/deposit_governing_tokens.rs
DepositGoverningTokens(x) ==
  LET required == {"fee_payer", "realm", "governing_token_source",
                   "governing_token_owner", "governing_token_source_authority",
                   "amount", "governing_token_mint"}
  IN  [ Instr(Def(required,
                  {"submit"},
                  {"fee_payer", "realm", "governing_token_source"},
                  {"signature", "realm_config_address",
                   "governing_token_holding_address", "token_owner_record_address"}, {}),
              required, {"signature"}) EXCEPT
          !.ixs = <<Instruction("DepositGoverningTokens",
              <<"realm", "governing_token_holding", "governing_token_source",
               "governing_token_owner", "governing_token_source_authority",
               "token_owner_record", "fee_payer", "system_program", "spl_token",
               "realm_config">>,
              {"governing_token_owner", "governing_token_source_authority",
               "fee_payer"},
              [governing_token_holding |-> HoldingSeeds("governing_token_mint"),
               token_owner_record |-> TokenOwnerRecordSeeds,
               realm_config |-> RealmConfigSeeds])>>,
          !.keys = {"fee_payer", "governing_token_owner", "governing_token_source_authority"},
          !.early = {"realm_config_address", "governing_token_holding_address",
           "token_owner_record_address"} ]

\* governance/execute_transaction.rs
ExecuteTransaction(x) ==
  LET required == {"fee_payer", "governance", "proposal", "proposal_transaction",
                   "instruction_program_id", "instruction_accounts"}
      NotBase58 == "an additional signer is not a base58 keypair"
  IN  [ Instr(Def(required,
                  {"additional_signers", "signer_1", "signer_2", "signer_3", "submit"},
                  {"fee_payer", "governance", "proposal"},
                  {"signature", "proposal_transaction_address"}, {}),
              {"fee_payer", "governance", "proposal", "proposal_transaction",
               "instruction_program_id", "instruction_accounts", "signer_1", "signer_2",
               "signer_3"},
              {"signature"}) EXCEPT
          !.ixs = <<Instruction("ExecuteTransaction",
              <<"governance", "proposal", "proposal_transaction", "extra_accounts">>,
              {},
              <<>>)>>,
          !.keys = {"fee_payer"} \cup (IF "additional_signers" \in x THEN
           {"additional_signers"} ELSE Keys(x, {"signer_1", "signer_2", "signer_3"})),
          !.facts = {NotBase58},
          !.panics = "additional_signers" \in x /\ NotBase58 \in x ]

\* governance/finalize_vote.rs
FinalizeVote(x) ==
  LET required == {"fee_payer", "realm", "governance", "proposal",
                   "proposal_owner_record", "governing_token_mint"}
  IN  [ Instr(Def(required,
                  {"max_voter_weight_record", "submit"},
                  {"fee_payer", "realm", "governance"},
                  {"signature", "vote_record_address"}, {}),
              required, {"signature"}) EXCEPT
          !.ixs = <<Instruction("FinalizeVote",
              <<"realm", "governance", "proposal", "proposal_owner_record",
               "governing_token_mint">>
                \o WithRealmConfig(x, {"max_voter_weight_record"}),
              {},
              [realm_config |-> RealmConfigSeeds])>>,
          !.keys = {"fee_payer"} ]

\* governance/insert_transaction.rs
InsertTransaction(x) ==
  LET required == {"fee_payer", "governance", "proposal", "token_owner_record",
                   "governance_authority", "option_index", "index", "instructions"}
  IN  [ Instr(Def(required,
                  {"submit"},
                  {"fee_payer", "governance", "proposal"},
                  {"signature", "proposal_transaction_address"}, {}),
              required, {"signature"}) EXCEPT
          !.ixs = <<Instruction("InsertTransaction",
              <<"governance", "proposal", "token_owner_record",
               "governance_authority", "proposal_transaction", "fee_payer",
               "system_program", "rent">>,
              {"governance_authority", "fee_payer"},
              [proposal_transaction |-> <<"governance", "proposal", "option_index",
               "index">>])>>,
          !.keys = {"fee_payer", "governance_authority"},
          !.early = {"proposal_transaction_address"} ]

\* governance/post_message.rs
PostMessage(x) ==
  LET required == {"fee_payer", "realm", "governance", "proposal",
                   "token_owner_record", "governance_authority", "chat_message", "body"}
  IN  [ Instr(Def(required,
                  {"reply_to", "voter_weight_record", "submit"},
                  {"fee_payer", "realm", "governance", "governance_authority"},
                  {"signature"}, {}),
              required, {"signature"}) EXCEPT
          !.ixs = <<Instruction("PostMessage",
              <<"governance_program", "realm", "governance", "proposal",
               "token_owner_record", "governance_authority", "chat_message",
               "fee_payer", "system_program">>
                \o Given(x, "reply_to")
                \o WithRealmConfig(x, {"voter_weight_record"}),
              {"governance_authority", "chat_message", "fee_payer"},
              [realm_config |-> RealmConfigSeeds])>>,
          !.keys = {"fee_payer", "governance_authority", "chat_message"} ]

\* governance/refund_proposal_deposit.rs
RefundProposalDeposit(x) ==
  LET required == {"fee_payer", "proposal", "proposal_deposit_payer"}
  IN  [ Instr(Def(required,
                  {"submit"},
                  {"fee_payer", "proposal", "proposal_deposit_payer"},
                  {"signature", "proposal_deposit_address"}, {}),
              required, {"signature"}) EXCEPT
          !.ixs = <<Instruction("RefundProposalDeposit",
              <<"proposal", "proposal_deposit", "proposal_deposit_payer">>,
              {},
              [proposal_deposit |-> <<"proposal-deposit", "proposal",
               "proposal_deposit_payer">>])>>,
          !.keys = {"fee_payer"},
          !.early = {"proposal_deposit_address"} ]

\* governance/relinquish_token_owner_record_locks.rs
RelinquishTokenOwnerRecordLocks(x) ==
  LET required == {"fee_payer", "realm", "token_owner_record"}
  IN  [ Instr(Def(required,
                  {"token_owner_record_lock_authority", "lock_ids", "submit"},
                  {"fee_payer"},
                  {"signature", "realm_config_address"}, {}),
              {"fee_payer", "realm", "token_owner_record",
               "token_owner_record_lock_authority"},
              {"signature"}) EXCEPT
          !.ixs = <<Instruction("RelinquishTokenOwnerRecordLocks",
              <<"realm", "realm_config", "token_owner_record">>
                \o Given(x, "token_owner_record_lock_authority"),
              Keys(x, {"token_owner_record_lock_authority"}),
              [realm_config |-> RealmConfigSeeds])>>,
          !.keys = Keys(x, {"fee_payer", "token_owner_record_lock_authority"}),
          !.early = {"realm_config_address"} ]

\* governance/relinquish_vote.rs
RelinquishVote(x) ==
  LET required == {"fee_payer", "realm", "governance", "proposal",
                   "token_owner_record", "vote_governing_token_mint"}
  IN  [ Instr(Def(required,
                  {"governance_authority", "beneficiary", "submit"},
                  {"fee_payer", "realm", "governance"},
                  {"signature", "vote_record_address"}, {}),
              required, {"signature"}) EXCEPT
          !.ixs = <<Instruction("RelinquishVote",
              <<"realm", "governance", "proposal", "token_owner_record",
               "vote_record", "vote_governing_token_mint">>
                \o (IF "governance_authority" \in x THEN <<"governance_authority",
                 "beneficiary">> ELSE <<>>),
              Keys(x, {"governance_authority"}),
              [vote_record |-> <<"governance", "proposal", "token_owner_record">>])>>,
          !.keys = Keys(x, {"fee_payer", "governance_authority"}),
          !.early = {"vote_record_address"},
          !.panics = "governance_authority" \in x /\ "beneficiary" \notin x ]

\* governance/remove_required_signatory.rs
RemoveRequiredSignatory(x) ==
  LET required == {"fee_payer", "governance", "signatory", "beneficiary"}
  IN  [ Instr(Def(required,
                  {"submit"},
                  {"fee_payer", "governance"},
                  {"signature", "required_signatory_address"}, {}),
              required, {"signature"}) EXCEPT
          !.ixs = <<Instruction("RemoveRequiredSignatory",
              <<"governance", "required_signatory", "beneficiary">>,
              {"governance"},
              [required_signatory |-> <<"required-signatory", "governance",
               "signatory">>])>>,
          !.keys = {"fee_payer", "governance"},
          !.early = {"required_signatory_address"} ]

\* governance/remove_transaction.rs
RemoveTransaction(x) ==
  LET required == {"fee_payer", "proposal", "proposal_transaction",
                   "token_owner_record", "governance_authority", "beneficiary"}
  IN  [ Instr(Def(required,
                  {"submit"},
                  {"fee_payer"},
                  {"signature", "proposal_transaction_address"}, {}),
              required, {"signature"}) EXCEPT
          !.ixs = <<Instruction("RemoveTransaction",
              <<"proposal", "token_owner_record", "governance_authority",
               "proposal_transaction", "beneficiary">>,
              {"governance_authority"},
              <<>>)>>,
          !.keys = {"fee_payer", "governance_authority"} ]

\* governance/revoke_governing_tokens.rs
RevokeGoverningTokens(x) ==
  LET required == {"fee_payer", "realm", "governing_token_owner",
                   "governing_token_mint", "revoke_authority", "amount"}
  IN  [ Instr(Def(required,
                  {"submit"},
                  {"fee_payer", "realm"},
                  {"signature", "realm_config_address",
                   "governing_token_holding_address", "token_owner_record_address"}, {}),
              required, {"signature"}) EXCEPT
          !.ixs = <<Instruction("RevokeGoverningTokens",
              <<"realm", "governing_token_holding", "token_owner_record",
               "governing_token_mint", "revoke_authority", "realm_config",
               "spl_token">>,
              {"revoke_authority"},
              [governing_token_holding |-> HoldingSeeds("governing_token_mint"),
               token_owner_record |-> TokenOwnerRecordSeeds,
               realm_config |-> RealmConfigSeeds])>>,
          !.keys = {"fee_payer", "revoke_authority"},
          !.early = {"realm_config_address", "governing_token_holding_address",
           "token_owner_record_address"} ]

\* governance/set_governance_config.rs
SetGovernanceConfig(x) ==
  LET required == {"fee_payer", "governance", "config"}
  IN  [ Instr(Def(required, {"submit"}, {"fee_payer"}, {"signature"}, {}),
              required, {"signature"}) EXCEPT
          !.ixs = <<Instruction("SetGovernanceConfig",
              <<"governance">>,
              {"governance"},
              <<>>)>>,
          !.keys = {"fee_payer", "governance"} ]

\* governance/set_governance_delegate.rs
SetGovernanceDelegate(x) ==
  LET required == {"fee_payer", "governance_authority", "realm",
                   "governing_token_mint", "governing_token_owner"}
  IN  [ Instr(Def(required,
                  {"new_governance_delegate", "submit"},
                  {"fee_payer", "governance_authority", "realm"},
                  {"signature", "vote_record_address"}, {}),
              required, {"signature"}) EXCEPT
          !.ixs = <<Instruction("SetGovernanceDelegate",
              <<"governance_authority", "token_owner_record">>,
              {"governance_authority"},
              [token_owner_record |-> TokenOwnerRecordSeeds])>>,
          !.keys = {"fee_payer", "governance_authority"},
          !.early = {"vote_record_address"} ]

\* governance/set_realm_authority.rs
SetRealmAuthority(x) ==
  LET required == {"fee_payer", "realm", "realm_authority", "action"}
      Remove == "action is Remove"
      Null == "new_realm_authority is null"
  IN  [ Instr(Def(required,
                  {"new_realm_authority", "submit"},
                  {"fee_payer", "realm", "realm_authority", "new_realm_authority",
                   "action"},
                  {"signature"}, {}),
              {"fee_payer", "realm", "realm_authority", "new_realm_authority",
               "action"},
              {"signature"}) EXCEPT
          !.ixs = <<Instruction("SetRealmAuthority",
              <<"realm", "realm_authority">> \o Unless(x, Remove, <<"new_realm_authority">>),
              {"realm_authority"},
              <<>>)>>,
          !.keys = {"fee_payer", "realm_authority"},
          !.facts = {Remove, Null},
          !.panics = Remove \notin x /\ Null \in x ]

\* governance/set_realm_config.rs
SetRealmConfig(x) ==
  LET required == {"fee_payer", "realm", "realm_authority", "community_token_mint",
                   "min_weight", "max_weight_source"}
  IN  [ Instr(Def(required,
                  {"council_token_mint", "community_token_config_args",
                   "council_token_config_args", "submit"},
                  {"fee_payer", "realm", "realm_authority", "community_token_mint",
                   "council_token_mint", "community_token_config_args",
                   "council_token_config_args", "min_weight", "max_weight_source"},
                  {"signature"}, {}),
              required, {"signature"}) EXCEPT
          !.ixs = <<Instruction("SetRealmConfig",
              <<"realm", "realm_authority">>
                \o (IF "council_token_mint" \in x THEN <<"council_token_mint",
                 "council_token_holding">> ELSE <<>>)
                \o <<"system_program", "realm_config">>
                \o WithTokenConfig(x, "community_token_config_args", CommunityAddins)
                \o WithTokenConfig(x, "council_token_config_args", CouncilAddins)
                \o <<"fee_payer">>,
              {"realm_authority", "fee_payer"},
              [council_token_holding |-> HoldingSeeds("council_token_mint"),
               realm_config |-> RealmConfigSeeds])>>,
          !.keys = {"fee_payer", "realm_authority"},
          !.facts = Addins ]

\* governance/set_token_owner_record_locks.rs
SetTokenOwnerRecordLocks(x) ==
  LET required == {"fee_payer", "realm", "token_owner_record"}
  IN  [ Instr(Def(required,
                  {"token_owner_record_lock_authority", "lock_ids", "expiry", "submit"},
                  {"fee_payer"},
                  {"signature", "realm_config_address"}, {}),
              {"fee_payer", "realm", "token_owner_record",
               "token_owner_record_lock_authority", "lock_id"},
              {"signature"}) EXCEPT
          !.ixs = <<Instruction("SetTokenOwnerRecordLock",
              <<"realm", "realm_config", "token_owner_record",
               "token_owner_record_lock_authority", "fee_payer", "system_program">>,
              {"token_owner_record_lock_authority", "fee_payer"},
              [realm_config |-> RealmConfigSeeds])>>,
          !.keys = {"fee_payer", "token_owner_record_lock_authority"},
          !.early = {"realm_config_address"} ]

\* governance/sign_off_proposal.rs
SignOffProposal(x) ==
  LET required == {"fee_payer", "realm", "governance", "proposal", "signatory"}
  IN  [ Instr(Def(required,
                  {"proposal_owner_record", "submit"},
                  {"fee_payer", "realm", "governance"},
                  {"signature"}, {}),
              required, {"signature"}) EXCEPT
          !.ixs = <<Instruction("SignOffProposal",
              <<"realm", "governance", "proposal", "signatory">>
                \o <<OrElse(x, "proposal_owner_record", "signatory_record")>>,
              {"signatory"},
              [signatory_record |-> <<"governance", "proposal", "signatory">>])>>,
          !.keys = {"fee_payer", "signatory"} ]

\* governance/withdraw_governing_tokens.rs
WithdrawGoverningTokens(x) ==
  LET required == {"fee_payer", "realm", "governing_token_destination",
                   "governing_token_owner", "governing_token_mint"}
  IN  [ Instr(Def(required,
                  {"submit"},
                  {"fee_payer", "realm", "governing_token_destination"},
                  {"signature", "realm_config_address",
                   "governing_token_holding_address", "token_owner_record_address"}, {}),
              required, {"signature"}) EXCEPT
          !.ixs = <<Instruction("WithdrawGoverningTokens",
              <<"realm", "governing_token_holding", "governing_token_destination",
               "governing_token_owner", "token_owner_record", "spl_token",
               "realm_config">>,
              {"governing_token_owner"},
              [governing_token_holding |-> HoldingSeeds("governing_token_mint"),
               token_owner_record |-> TokenOwnerRecordSeeds,
               realm_config |-> RealmConfigSeeds])>>,
          !.keys = {"fee_payer", "governing_token_owner"},
          !.early = {"realm_config_address", "governing_token_holding_address",
           "token_owner_record_address"} ]

\* The commands of this module, by the name of their node.
GovernanceNames ==
  {"add_required_signatory", "add_signatory", "cancel_proposal", "cast_vote",
    "complete_proposal", "create_governance", "create_native_treasury",
    "create_proposal", "create_realm", "create_token_owner_record",
    "deposit_governing_tokens", "execute_transaction", "finalize_vote",
    "insert_transaction", "governance_post_message", "refund_proposal_deposit",
    "relinquish_token_owner_record_locks", "relinquish_vote",
    "remove_required_signatory", "remove_transaction", "revoke_governing_tokens",
    "set_governance_config", "set_governance_delegate", "set_realm_authority",
    "set_realm_config", "set_token_owner_record_locks", "sign_off_proposal",
    "withdraw_governing_tokens"}

GovernanceCommand(c, x) ==
  CASE c = "add_required_signatory" -> AddRequiredSignatory(x)
    [] c = "add_signatory" -> AddSignatory(x)
    [] c = "cancel_proposal" -> CancelProposal(x)
    [] c = "cast_vote" -> CastVote(x)
    [] c = "complete_proposal" -> CompleteProposal(x)
    [] c = "create_governance" -> CreateGovernance(x)
    [] c = "create_native_treasury" -> CreateNativeTreasury(x)
    [] c = "create_proposal" -> CreateProposal(x)
    [] c = "create_realm" -> CreateRealm(x)
    [] c = "create_token_owner_record" -> CreateTokenOwnerRecord(x)
    [] c = "deposit_governing_tokens" -> DepositGoverningTokens(x)
    [] c = "execute_transaction" -> ExecuteTransaction(x)
    [] c = "finalize_vote" -> FinalizeVote(x)
    [] c = "insert_transaction" -> InsertTransaction(x)
    [] c = "governance_post_message" -> PostMessage(x)
    [] c = "refund_proposal_deposit" -> RefundProposalDeposit(x)
    [] c = "relinquish_token_owner_record_locks" -> RelinquishTokenOwnerRecordLocks(x)
    [] c = "relinquish_vote" -> RelinquishVote(x)
    [] c = "remove_required_signatory" -> RemoveRequiredSignatory(x)
    [] c = "remove_transaction" -> RemoveTransaction(x)
    [] c = "revoke_governing_tokens" -> RevokeGoverningTokens(x)
    [] c = "set_governance_config" -> SetGovernanceConfig(x)
    [] c = "set_governance_delegate" -> SetGovernanceDelegate(x)
    [] c = "set_realm_authority" -> SetRealmAuthority(x)
    [] c = "set_realm_config" -> SetRealmConfig(x)
    [] c = "set_token_owner_record_locks" -> SetTokenOwnerRecordLocks(x)
    [] c = "sign_off_proposal" -> SignOffProposal(x)
    [] c = "withdraw_governing_tokens" -> WithdrawGoverningTokens(x)

=============================================================================
