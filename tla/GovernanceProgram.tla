-------------------------- MODULE GovernanceProgram --------------------------
(***************************************************************************)
(* What the SPL governance program wants of an instruction, as the comments *)
(* on the variants of GovernanceInstruction (governance/mod.rs) document   *)
(* it: the accounts in order, the optional ones, the ones that sign, and   *)
(* the seeds of derived addresses.  Variants without such a comment are    *)
(* left out.  Accounts have the names the commands give them.              *)
(***************************************************************************)

Contract(accounts, optional, signed, seeds) ==
  [ accounts |-> accounts, optional |-> optional, signed |-> signed, seeds |-> seeds ]

RealmConfig == <<"realm-config", "realm">>

PostMessageContract == Contract(
  <<"governance_program", "realm", "governance", "proposal", "token_owner_record",
    "governance_authority", "chat_message", "fee_payer", "system_program", "reply_to",
    "voter_weight_record">>,
  {"reply_to", "voter_weight_record"},
  {"governance_authority", "chat_message", "fee_payer"}, <<>>)

CreateProposalContract == Contract(
  <<"realm", "proposal_address", "governance", "proposal_owner_record",
    "governing_token_mint", "governance_authority", "fee_payer", "system_program",
    "realm_config", "voter_weight_record", "proposal_deposit">>,
  {"voter_weight_record", "proposal_deposit"},
  {"governance_authority", "fee_payer"},
  [ proposal_address |->
      <<"governance", "governance", "governing_token_mint", "proposal_seed">>,
    realm_config |-> RealmConfig,
    proposal_deposit |-> <<"proposal-deposit", "proposal_address", "fee_payer">> ])

AddSignatoryContract == Contract(
  <<"governance", "proposal", "signatory_record", "fee_payer", "system_program",
    "token_owner_record", "governance_authority", "required_signatory">>,
  {"token_owner_record", "governance_authority", "required_signatory"},
  {"fee_payer", "governance_authority"}, <<>>)

InsertTransactionContract == Contract(
  <<"governance", "proposal", "token_owner_record", "governance_authority",
    "proposal_transaction", "fee_payer", "system_program", "rent">>,
  {}, {"governance_authority", "fee_payer"},
  [ proposal_transaction |-> <<"governance", "proposal", "option_index", "index">> ])

RemoveTransactionContract == Contract(
  <<"proposal", "token_owner_record", "governance_authority", "proposal_transaction",
    "beneficiary">>,
  {}, {"governance_authority"}, <<>>)

CancelProposalContract == Contract(
  <<"realm", "governance", "proposal", "proposal_owner_record", "governance_authority">>,
  {}, {"governance_authority"}, <<>>)

SignOffProposalContract == Contract(
  <<"realm", "governance", "proposal", "signatory", "proposal_owner_record",
    "signatory_record">>,
  {"proposal_owner_record", "signatory_record"}, {"signatory"}, <<>>)

CastVoteContract == Contract(
  <<"realm", "governance", "proposal", "proposal_owner_record",
    "voter_token_owner_record", "governance_authority", "vote_record",
    "vote_governing_token_mint", "fee_payer", "system_program", "realm_config",
    "voter_weight_record", "max_voter_weight_record">>,
  {"voter_weight_record", "max_voter_weight_record"},
  {"governance_authority", "fee_payer"},
  [ vote_record |-> <<"governance", "proposal", "voter_token_owner_record">>,
    realm_config |-> RealmConfig ])

FinalizeVoteContract == Contract(
  <<"realm", "governance", "proposal", "proposal_owner_record",
    "governing_token_mint", "realm_config", "max_voter_weight_record">>,
  {"max_voter_weight_record"}, {}, [ realm_config |-> RealmConfig ])

RelinquishVoteContract == Contract(
  <<"realm", "governance", "proposal", "token_owner_record", "vote_record",
    "vote_governing_token_mint", "governance_authority", "beneficiary">>,
  {"governance_authority", "beneficiary"}, {"governance_authority"},
  [ vote_record |-> <<"governance", "proposal", "token_owner_record">> ])

ExecuteTransactionContract == Contract(
  <<"governance", "proposal", "proposal_transaction", "extra_accounts">>,
  {"extra_accounts"}, {}, <<>>)

SetGovernanceConfigContract == Contract(
  <<"realm", "governance">>, {}, {"governance"}, <<>>)

SetRealmAuthorityContract == Contract(
  <<"realm", "realm_authority", "new_realm_authority">>,
  {"new_realm_authority"}, {"realm_authority"}, <<>>)

SetRealmConfigContract == Contract(
  <<"realm", "realm_authority", "council_token_mint", "council_token_holding",
    "system_program", "realm_config", "community voter weight addin",
    "community max voter weight addin", "council voter weight addin",
    "council max voter weight addin", "fee_payer">>,
  {"council_token_mint", "council_token_holding", "community voter weight addin",
   "community max voter weight addin", "council voter weight addin",
   "council max voter weight addin", "fee_payer"},
  {"realm_authority", "fee_payer"},
  [ council_token_holding |-> <<"governance", "realm", "council_token_mint">>,
    realm_config |-> RealmConfig ])

CreateTokenOwnerRecordContract == Contract(
  <<"realm", "governing_token_owner", "token_owner_record", "governing_token_mint",
    "fee_payer", "system_program">>,
  {}, {"fee_payer"},
  [ token_owner_record |->
      <<"governance", "realm", "governing_token_mint", "governing_token_owner">> ])

CreateNativeTreasuryContract == Contract(
  <<"governance", "native_treasury", "fee_payer", "system_program">>,
  {}, {"fee_payer"}, [ native_treasury |-> <<"native-treasury", "governance">> ])

RevokeGoverningTokensContract == Contract(
  <<"realm", "governing_token_holding", "token_owner_record", "governing_token_mint",
    "revoke_authority", "realm_config", "spl_token">>,
  {}, {"revoke_authority"},
  [ governing_token_holding |-> <<"governance", "realm", "governing_token_mint">>,
    token_owner_record |->
      <<"governance", "realm", "governing_token_mint", "governing_token_owner">>,
    realm_config |-> RealmConfig ])

RefundProposalDepositContract == Contract(
  <<"proposal", "proposal_deposit", "proposal_deposit_payer">>, {}, {},
  [ proposal_deposit |-> <<"proposal-deposit", "proposal", "proposal_deposit_payer">> ])

CompleteProposalContract == Contract(
  <<"proposal", "token_owner_record", "complete_proposal_authority">>,
  {}, {"complete_proposal_authority"}, <<>>)

AddRequiredSignatoryContract == Contract(
  <<"governance", "required_signatory", "fee_payer", "system_program">>,
  {}, {"governance", "fee_payer"}, <<>>)

RemoveRequiredSignatoryContract == Contract(
  <<"governance", "required_signatory", "beneficiary">>, {}, {"governance"}, <<>>)

SetTokenOwnerRecordLockContract == Contract(
  <<"realm", "realm_config", "token_owner_record", "token_owner_record_lock_authority",
    "fee_payer", "system_program">>,
  {}, {"token_owner_record_lock_authority", "fee_payer"}, <<>>)

RelinquishTokenOwnerRecordLocksContract == Contract(
  <<"realm", "realm_config", "token_owner_record",
    "token_owner_record_lock_authority">>,
  {"token_owner_record_lock_authority"}, {"token_owner_record_lock_authority"}, <<>>)

\* The contract of a variant.
Contracts ==
  [ PostMessage |-> PostMessageContract,
    CreateProposal |-> CreateProposalContract,
    AddSignatory |-> AddSignatoryContract,
    InsertTransaction |-> InsertTransactionContract,
    RemoveTransaction |-> RemoveTransactionContract,
    CancelProposal |-> CancelProposalContract,
    SignOffProposal |-> SignOffProposalContract,
    CastVote |-> CastVoteContract,
    FinalizeVote |-> FinalizeVoteContract,
    RelinquishVote |-> RelinquishVoteContract,
    ExecuteTransaction |-> ExecuteTransactionContract,
    SetGovernanceConfig |-> SetGovernanceConfigContract,
    SetRealmAuthority |-> SetRealmAuthorityContract,
    SetRealmConfig |-> SetRealmConfigContract,
    CreateTokenOwnerRecord |-> CreateTokenOwnerRecordContract,
    CreateNativeTreasury |-> CreateNativeTreasuryContract,
    RevokeGoverningTokens |-> RevokeGoverningTokensContract,
    RefundProposalDeposit |-> RefundProposalDepositContract,
    CompleteProposal |-> CompleteProposalContract,
    AddRequiredSignatory |-> AddRequiredSignatoryContract,
    RemoveRequiredSignatory |-> RemoveRequiredSignatoryContract,
    SetTokenOwnerRecordLock |-> SetTokenOwnerRecordLockContract,
    RelinquishTokenOwnerRecordLocks |-> RelinquishTokenOwnerRecordLocksContract ]

==============================================================================
