-------------------------- MODULE CommandRunProofs --------------------------
(***************************************************************************)
(* Every command of the catalogues, with any of its optional inputs and    *)
(* whatever it finds: it reads its inputs, gives its outputs, does not     *)
(* panic and sends the keys that its instructions need, unless CommandRun  *)
(* lists it as deviating.  The lemmas of the catalogues have one step per  *)
(* command; the invariant of the machine carries them to its states.       *)
(***************************************************************************)
EXTENDS CommandRun, TLAPS

\* Nothing stops a command that has these inputs.
Goes(r, y) == r.needs \subseteq y /\ ~r.panics /\ ~r.refuses

\* The definition does not depend on the inputs.
Fixed(r, s) == r.def = s.def /\ r.facts = s.facts

\* What is read is required.
Reads(r, c) == c \notin Misdeclared => r.needs \subseteq r.def.required

\* No panic, and no token without the permission.
Calm(r, c, y) ==
  r.needs \subseteq y => (c \notin Panicking => ~r.panics) /\ (r.jwt => r.permitted)

\* Every output that may not be missing is given.
Gives(r, c, y) ==
  c \notin Incomplete /\ Goes(r, y) =>
    r.def.outputs \ r.def.lacks
      \subseteq r.final \cup (r.def.through \cap y) \cup (IF r.info THEN r.early ELSE {})

\* What is known before the transaction is sent comes with the instructions.
Joins(r, c, y) ==
  r.info /\ c \notin Incomplete \cup Late =>
    (r.def.through \cup (r.def.outputs \ {"signature"})) \cap (y \cup (r.def.outputs \ r.def.lacks))
      \subseteq r.early \cup (r.def.through \cap y)

\* The command c is as its definition says when it is given y, unless it is listed.
Fits(r, c, y) == Reads(r, c) /\ Calm(r, c, y) /\ Gives(r, c, y) /\ Joins(r, c, y)
Declared(r, s, c, y) == Fixed(r, s) /\ (Known(r, y) => Fits(r, c, y))

\* The keys K suffice for the instructions.
SignedBy(s, K) == \A i \in 1..Len(s) : s[i].signed \subseteq K

\* So do the keys that are sent, and they are those of the fee payer, too.
Signs(r, c, y) ==
  r.info /\ c \notin Unsigned /\ SubmitFalse \notin y /\ Goes(r, y) =>
    r.payer \in r.keys /\ SignedBy(r.ixs, r.keys)

-----------------------------------------------------------------------------
(* Signers *)

\* One instruction whose signers are among the keys.
LEMMA OneSigned ==
  ASSUME NEW i, NEW K, i.signed \subseteq K
  PROVE  SignedBy(<<i>>, K)
  BY DEF SignedBy

\* Two of them.
LEMMA TwoSigned ==
  ASSUME NEW i, NEW j, NEW K, i.signed \subseteq K, j.signed \subseteq K
  PROVE  SignedBy(<<i, j>>, K)
  BY DEF SignedBy

\* Three of them.
LEMMA ThreeSigned ==
  ASSUME NEW i, NEW j, NEW k, NEW K, i.signed \subseteq K, j.signed \subseteq K, k.signed \subseteq K
  PROVE  SignedBy(<<i, j, k>>, K)
  BY DEF SignedBy

\* An instruction that is sent before others, or is not needed.
LEMMA FirstSigned ==
  ASSUME NEW S, NEW i \in S, NEW s \in Seq(S), NEW K, NEW y, NEW found,
         i.signed \subseteq K, SignedBy(s, K)
  PROVE  SignedBy(CreateFirst(y, found, i, s), K)
<1>1. SignedBy(<<i>> \o s, K)
  BY DEF SignedBy
<1> QED
  BY <1>1, Zenon DEF CreateFirst

\* The signers of an instruction are those it was built with.
LEMMA InstructionSigned ==
  ASSUME NEW p, NEW a, NEW s, NEW d
  PROVE  Instruction(p, a, s, d).signed = s /\ Ix(p, s).signed = s /\ Bridge(s, d).signed = s
  BY DEF Instruction, Ix, Bridge

\* Instructions are handed over as they are when submit is not false.
LEMMA SubmitGiven ==
  ASSUME NEW y, NEW s, SubmitFalse \notin y
  PROVE  Submit(y, s) = s
  BY DEF Submit

-----------------------------------------------------------------------------
(* The governance commands *)

\* The governance commands are as their definitions say.
LEMMA GovernanceDeclared ==
  ASSUME NEW y, NEW c \in GovernanceNames
  PROVE  Declared(GovernanceCommand(c, y), GovernanceCommand(c, {}), c, y)
<1> USE DEF Declared, Fits, Fixed, Known, Goes, Reads, Calm, Gives, Joins,
            Misdeclared, Panicking, Incomplete, Late, Plain, Instr, Def
<1>1. Declared(AddRequiredSignatory(y), AddRequiredSignatory({}), "add_required_signatory", y)
  BY DEF AddRequiredSignatory
<1>2. Declared(AddSignatory(y), AddSignatory({}), "add_signatory", y)
  BY DEF AddSignatory, Keys
<1>3. Declared(CancelProposal(y), CancelProposal({}), "cancel_proposal", y)
  BY DEF CancelProposal
<1>4. Declared(CastVote(y), CastVote({}), "cast_vote", y)
  BY DEF CastVote, Given, RealmConfigSeeds, WithRealmConfig
<1>5. Declared(CompleteProposal(y), CompleteProposal({}), "complete_proposal", y)
  BY DEF CompleteProposal
<1>6. Declared(CreateGovernance(y), CreateGovernance({}), "create_governance", y)
  BY DEF CreateGovernance, Given, RealmConfigSeeds, WithRealmConfig
<1>7. Declared(CreateNativeTreasury(y), CreateNativeTreasury({}), "create_native_treasury", y)
  BY DEF CreateNativeTreasury
<1>8. Declared(CreateProposal(y), CreateProposal({}), "create_proposal", y)
  BY DEF CreateProposal, Given, RealmConfigSeeds, WithRealmConfig
<1>9. Declared(CreateRealm(y), CreateRealm({}), "create_realm", y)
  <2> DEFINE r == CreateRealm(y)
  <2>1. Fixed(r, CreateRealm({}))
    BY DEF CreateRealm, Addins, CommunityAddins, CouncilAddins, HoldingSeeds,
           RealmConfigSeeds, WithTokenConfig
  <2> SUFFICES ASSUME Known(r, y) PROVE Fits(r, "create_realm", y)
    BY <2>1 DEF Declared
  <2>2. Reads(r, "create_realm")
    BY DEF CreateRealm, Addins, CommunityAddins, CouncilAddins, HoldingSeeds,
           RealmConfigSeeds, WithTokenConfig
  <2>3. Calm(r, "create_realm", y)
    BY DEF CreateRealm, Addins, CommunityAddins, CouncilAddins, HoldingSeeds,
           RealmConfigSeeds, WithTokenConfig
  <2>4. Gives(r, "create_realm", y)
    BY DEF CreateRealm, Addins, CommunityAddins, CouncilAddins, HoldingSeeds,
           RealmConfigSeeds, WithTokenConfig
  <2>6. Joins(r, "create_realm", y)
    BY DEF CreateRealm, Addins, CommunityAddins, CouncilAddins, HoldingSeeds,
           RealmConfigSeeds, WithTokenConfig
  <2> HIDE DEF r, Reads, Calm, Gives, Joins
  <2> QED
    BY <2>2, <2>3, <2>4, <2>6 DEF Fits
<1>10. Declared(CreateTokenOwnerRecord(y), CreateTokenOwnerRecord({}), "create_token_owner_record", y)
  BY DEF CreateTokenOwnerRecord, TokenOwnerRecordSeeds
<1>11. Declared(DepositGoverningTokens(y), DepositGoverningTokens({}), "deposit_governing_tokens", y)
  BY DEF DepositGoverningTokens, HoldingSeeds, RealmConfigSeeds, TokenOwnerRecordSeeds
<1>12. Declared(ExecuteTransaction(y), ExecuteTransaction({}), "execute_transaction", y)
  BY DEF ExecuteTransaction, Keys
<1>13. Declared(FinalizeVote(y), FinalizeVote({}), "finalize_vote", y)
  BY DEF FinalizeVote, Given, RealmConfigSeeds, WithRealmConfig
<1>14. Declared(InsertTransaction(y), InsertTransaction({}), "insert_transaction", y)
  BY DEF InsertTransaction
<1>15. Declared(PostMessage(y), PostMessage({}), "governance_post_message", y)
  BY DEF PostMessage, Given, RealmConfigSeeds, WithRealmConfig
<1>16. Declared(RefundProposalDeposit(y), RefundProposalDeposit({}), "refund_proposal_deposit", y)
  BY DEF RefundProposalDeposit
<1>17. Declared(RelinquishTokenOwnerRecordLocks(y), RelinquishTokenOwnerRecordLocks({}), "relinquish_token_owner_record_locks", y)
  BY DEF RelinquishTokenOwnerRecordLocks, Given, Keys, RealmConfigSeeds
<1>18. Declared(RelinquishVote(y), RelinquishVote({}), "relinquish_vote", y)
  BY DEF RelinquishVote, Keys
<1>19. Declared(RemoveRequiredSignatory(y), RemoveRequiredSignatory({}), "remove_required_signatory", y)
  BY DEF RemoveRequiredSignatory
<1>20. Declared(RemoveTransaction(y), RemoveTransaction({}), "remove_transaction", y)
  BY DEF RemoveTransaction
<1>21. Declared(RevokeGoverningTokens(y), RevokeGoverningTokens({}), "revoke_governing_tokens", y)
  BY DEF RevokeGoverningTokens, HoldingSeeds, RealmConfigSeeds, TokenOwnerRecordSeeds
<1>22. Declared(SetGovernanceConfig(y), SetGovernanceConfig({}), "set_governance_config", y)
  BY DEF SetGovernanceConfig
<1>23. Declared(SetGovernanceDelegate(y), SetGovernanceDelegate({}), "set_governance_delegate", y)
  BY DEF SetGovernanceDelegate, TokenOwnerRecordSeeds
<1>24. Declared(SetRealmAuthority(y), SetRealmAuthority({}), "set_realm_authority", y)
  BY DEF SetRealmAuthority, Unless
<1>25. Declared(SetRealmConfig(y), SetRealmConfig({}), "set_realm_config", y)
  <2> DEFINE r == SetRealmConfig(y)
  <2>1. Fixed(r, SetRealmConfig({}))
    BY DEF SetRealmConfig, Addins, CommunityAddins, CouncilAddins, HoldingSeeds,
           RealmConfigSeeds, WithTokenConfig
  <2> SUFFICES ASSUME Known(r, y) PROVE Fits(r, "set_realm_config", y)
    BY <2>1 DEF Declared
  <2>2. Reads(r, "set_realm_config")
    BY DEF SetRealmConfig, Addins, CommunityAddins, CouncilAddins, HoldingSeeds,
           RealmConfigSeeds, WithTokenConfig
  <2>3. Calm(r, "set_realm_config", y)
    BY DEF SetRealmConfig, Addins, CommunityAddins, CouncilAddins, HoldingSeeds,
           RealmConfigSeeds, WithTokenConfig
  <2>4. Gives(r, "set_realm_config", y)
    BY DEF SetRealmConfig, Addins, CommunityAddins, CouncilAddins, HoldingSeeds,
           RealmConfigSeeds, WithTokenConfig
  <2>6. Joins(r, "set_realm_config", y)
    BY DEF SetRealmConfig, Addins, CommunityAddins, CouncilAddins, HoldingSeeds,
           RealmConfigSeeds, WithTokenConfig
  <2> HIDE DEF r, Reads, Calm, Gives, Joins
  <2> QED
    BY <2>2, <2>3, <2>4, <2>6 DEF Fits
<1>26. Declared(SetTokenOwnerRecordLocks(y), SetTokenOwnerRecordLocks({}), "set_token_owner_record_locks", y)
  BY DEF SetTokenOwnerRecordLocks, RealmConfigSeeds
<1>27. Declared(SignOffProposal(y), SignOffProposal({}), "sign_off_proposal", y)
  BY DEF SignOffProposal, OrElse
<1>28. Declared(WithdrawGoverningTokens(y), WithdrawGoverningTokens({}), "withdraw_governing_tokens", y)
  BY DEF WithdrawGoverningTokens, HoldingSeeds, RealmConfigSeeds, TokenOwnerRecordSeeds
<1> HIDE DEF Declared
<1> QED
  BY <1>1, <1>2, <1>3, <1>4, <1>5, <1>6, <1>7, <1>8, <1>9, <1>10, <1>11, <1>12, <1>13, <1>14,
     <1>15, <1>16, <1>17, <1>18, <1>19, <1>20, <1>21, <1>22, <1>23, <1>24, <1>25, <1>26, <1>27,
     <1>28
     DEF GovernanceCommand, GovernanceNames

\* The keys they send suffice.
LEMMA GovernanceSigns ==
  ASSUME NEW y, NEW c \in GovernanceNames
  PROVE  Signs(GovernanceCommand(c, y), c, y)
<1> USE DEF Signs, SignedBy, Goes, Unsigned, Plain, Instr, Def, Submit, Ix, Instruction
<1>1. Signs(AddRequiredSignatory(y), "add_required_signatory", y)
  BY DEF AddRequiredSignatory
<1>2. Signs(AddSignatory(y), "add_signatory", y)
  BY DEF AddSignatory, Keys
<1>3. Signs(CancelProposal(y), "cancel_proposal", y)
  BY DEF CancelProposal
<1>4. Signs(CastVote(y), "cast_vote", y)
  BY DEF CastVote, Given, RealmConfigSeeds, WithRealmConfig
<1>5. Signs(CompleteProposal(y), "complete_proposal", y)
  BY DEF CompleteProposal
<1>6. Signs(CreateGovernance(y), "create_governance", y)
  BY DEF CreateGovernance, Given, RealmConfigSeeds, WithRealmConfig
<1>7. Signs(CreateNativeTreasury(y), "create_native_treasury", y)
  BY DEF CreateNativeTreasury
<1>8. Signs(CreateProposal(y), "create_proposal", y)
  BY DEF CreateProposal, Given, RealmConfigSeeds, WithRealmConfig
<1>9. Signs(CreateRealm(y), "create_realm", y)
  <2> DEFINE r == CreateRealm(y)
  <2> SUFFICES ASSUME SubmitFalse \notin y, Goes(r, y)
               PROVE  r.payer \in r.keys /\ SignedBy(r.ixs, r.keys)
    BY DEF Signs
  <2>1. r.payer \in r.keys
    BY DEF CreateRealm, Addins, CommunityAddins, CouncilAddins, HoldingSeeds,
           RealmConfigSeeds, WithTokenConfig
  <2> HIDE DEF Goes, SignedBy, Submit, Ix, Instruction
  <2>2. SignedBy(r.ixs, r.keys)
    BY OneSigned, TwoSigned, ThreeSigned, InstructionSigned, SubmitGiven DEF CreateRealm
  <2> QED
    BY <2>1, <2>2
<1>10. Signs(CreateTokenOwnerRecord(y), "create_token_owner_record", y)
  BY DEF CreateTokenOwnerRecord, TokenOwnerRecordSeeds
<1>11. Signs(DepositGoverningTokens(y), "deposit_governing_tokens", y)
  BY DEF DepositGoverningTokens, HoldingSeeds, RealmConfigSeeds, TokenOwnerRecordSeeds
<1>12. Signs(ExecuteTransaction(y), "execute_transaction", y)
  <2> DEFINE r == ExecuteTransaction(y)
  <2> SUFFICES ASSUME SubmitFalse \notin y, Goes(r, y)
               PROVE  r.payer \in r.keys /\ SignedBy(r.ixs, r.keys)
    BY DEF Signs
  <2>1. r.payer \in r.keys
    BY DEF ExecuteTransaction, Keys
  <2> HIDE DEF Goes, SignedBy, Submit, Ix, Instruction
  <2>2. SignedBy(r.ixs, r.keys)
    BY OneSigned, TwoSigned, ThreeSigned, InstructionSigned, SubmitGiven
       DEF ExecuteTransaction, Keys
  <2> QED
    BY <2>1, <2>2
<1>13. Signs(FinalizeVote(y), "finalize_vote", y)
  BY DEF FinalizeVote, Given, RealmConfigSeeds, WithRealmConfig
<1>14. Signs(InsertTransaction(y), "insert_transaction", y)
  BY DEF InsertTransaction
<1>15. Signs(PostMessage(y), "governance_post_message", y)
  BY DEF PostMessage, Given, RealmConfigSeeds, WithRealmConfig
<1>16. Signs(RefundProposalDeposit(y), "refund_proposal_deposit", y)
  BY DEF RefundProposalDeposit
<1>17. Signs(RelinquishTokenOwnerRecordLocks(y), "relinquish_token_owner_record_locks", y)
  BY DEF RelinquishTokenOwnerRecordLocks, Given, Keys, RealmConfigSeeds
<1>18. Signs(RelinquishVote(y), "relinquish_vote", y)
  BY DEF RelinquishVote, Keys
<1>19. Signs(RemoveRequiredSignatory(y), "remove_required_signatory", y)
  BY DEF RemoveRequiredSignatory
<1>20. Signs(RemoveTransaction(y), "remove_transaction", y)
  BY DEF RemoveTransaction
<1>21. Signs(RevokeGoverningTokens(y), "revoke_governing_tokens", y)
  BY DEF RevokeGoverningTokens, HoldingSeeds, RealmConfigSeeds, TokenOwnerRecordSeeds
<1>22. Signs(SetGovernanceConfig(y), "set_governance_config", y)
  BY DEF SetGovernanceConfig
<1>23. Signs(SetGovernanceDelegate(y), "set_governance_delegate", y)
  BY DEF SetGovernanceDelegate, TokenOwnerRecordSeeds
<1>24. Signs(SetRealmAuthority(y), "set_realm_authority", y)
  <2> DEFINE r == SetRealmAuthority(y)
  <2> SUFFICES ASSUME SubmitFalse \notin y, Goes(r, y)
               PROVE  r.payer \in r.keys /\ SignedBy(r.ixs, r.keys)
    BY DEF Signs
  <2>1. r.payer \in r.keys
    BY DEF SetRealmAuthority, Unless
  <2> HIDE DEF Goes, SignedBy, Submit, Ix, Instruction
  <2>3. \E a, d : r.ixs = <<Instruction("SetRealmAuthority", a, {"realm_authority"}, d)>>
    BY DEF SetRealmAuthority
  <2>4. r.keys = {"fee_payer", "realm_authority"}
    BY DEF SetRealmAuthority
  <2>2. SignedBy(r.ixs, r.keys)
    BY <2>3, <2>4, OneSigned, InstructionSigned
  <2> QED
    BY <2>1, <2>2
<1>25. Signs(SetRealmConfig(y), "set_realm_config", y)
  <2> DEFINE r == SetRealmConfig(y)
  <2> SUFFICES ASSUME SubmitFalse \notin y, Goes(r, y)
               PROVE  r.payer \in r.keys /\ SignedBy(r.ixs, r.keys)
    BY DEF Signs
  <2>1. r.payer \in r.keys
    BY DEF SetRealmConfig, Addins, CommunityAddins, CouncilAddins, HoldingSeeds,
           RealmConfigSeeds, WithTokenConfig
  <2> HIDE DEF Goes, SignedBy, Submit, Ix, Instruction
  <2>2. SignedBy(r.ixs, r.keys)
    BY OneSigned, TwoSigned, ThreeSigned, InstructionSigned, SubmitGiven DEF SetRealmConfig
  <2> QED
    BY <2>1, <2>2
<1>26. Signs(SetTokenOwnerRecordLocks(y), "set_token_owner_record_locks", y)
  BY DEF SetTokenOwnerRecordLocks, RealmConfigSeeds
<1>27. Signs(SignOffProposal(y), "sign_off_proposal", y)
  BY DEF SignOffProposal, OrElse
<1>28. Signs(WithdrawGoverningTokens(y), "withdraw_governing_tokens", y)
  BY DEF WithdrawGoverningTokens, HoldingSeeds, RealmConfigSeeds, TokenOwnerRecordSeeds
<1> HIDE DEF Signs
<1> QED
  BY <1>1, <1>2, <1>3, <1>4, <1>5, <1>6, <1>7, <1>8, <1>9, <1>10, <1>11, <1>12, <1>13, <1>14,
     <1>15, <1>16, <1>17, <1>18, <1>19, <1>20, <1>21, <1>22, <1>23, <1>24, <1>25, <1>26, <1>27,
     <1>28
     DEF GovernanceCommand, GovernanceNames

-----------------------------------------------------------------------------
(* The token commands *)

\* The token commands are as their definitions say.
LEMMA TokenDeclared ==
  ASSUME NEW y, NEW c \in TokenNames
  PROVE  Declared(TokenCommand(c, y), TokenCommand(c, {}), c, y)
<1> USE DEF Declared, Fits, Fixed, Known, Goes, Reads, Calm, Gives, Joins,
            Misdeclared, Panicking, Incomplete, Late, Plain, Instr, Def
<1>1. Declared(AssociatedTokenAccount(y), AssociatedTokenAccount({}), "associated_token_account", y)
  BY DEF AssociatedTokenAccount
<1>2. Declared(CreateMintAccount(y), CreateMintAccount({}), "create_mint_account", y)
  BY DEF CreateMintAccount
<1>3. Declared(CreateTokenAccount(y), CreateTokenAccount({}), "create_token_account", y)
  BY DEF CreateTokenAccount
<1>4. Declared(Das(y), Das({}), "das_api", y)
  BY DEF Das
<1>5. Declared(FindPda(y), FindPda({}), "find_pda", y)
  <2> DEFINE r == FindPda(y)
  <2>1. Fixed(r, FindPda({}))
    BY DEF FindPda
  <2> SUFFICES ASSUME Known(r, y) PROVE Fits(r, "find_pda", y)
    BY <2>1 DEF Declared
  <2>2. Reads(r, "find_pda")
    BY DEF FindPda
  <2>3. Calm(r, "find_pda", y)
    BY DEF FindPda
  <2>4. Gives(r, "find_pda", y)
    BY DEF FindPda
  <2>5. ~r.info
    BY DEF FindPda
  <2>6. Joins(r, "find_pda", y)
    BY <2>5 DEF Joins
  <2> HIDE DEF r, Reads, Calm, Gives, Joins
  <2> QED
    BY <2>2, <2>3, <2>4, <2>6 DEF Fits
<1>6. Declared(GenerateKeypair(y), GenerateKeypair({}), "generate_keypair", y)
  BY DEF GenerateKeypair
<1>7. Declared(GetBalance(y), GetBalance({}), "get_balance", y)
  BY DEF GetBalance
<1>8. Declared(Memo(y), Memo({}), "memo", y)
  BY DEF Memo
<1>9. Declared(MintToken(y), MintToken({}), "mint_token", y)
  BY DEF MintToken
<1>10. Declared(PythPrice(y), PythPrice({}), "pyth_price", y)
  BY DEF PythPrice
<1>11. Declared(RequestAirdrop(y), RequestAirdrop({}), "request_airdrop", y)
  BY DEF RequestAirdrop
<1>12. Declared(TransferSol(y), TransferSol({}), "transfer_sol", y)
  BY DEF TransferSol, Keys, OrElse
<1>13. Declared(TransferToken(y), TransferToken({}), "transfer_token", y)
  <2> DEFINE r == TransferToken(y)
  <2>1. Fixed(r, TransferToken({}))
    BY DEF TransferToken, CreateFirst
  <2> SUFFICES ASSUME Known(r, y) PROVE Fits(r, "transfer_token", y)
    BY <2>1 DEF Declared
  <2>2. Reads(r, "transfer_token")
    BY DEF TransferToken, CreateFirst
  <2>3. Calm(r, "transfer_token", y)
    BY DEF TransferToken, CreateFirst
  <2>4. Gives(r, "transfer_token", y)
    BY DEF TransferToken, CreateFirst
  <2>6. Joins(r, "transfer_token", y)
    BY DEF TransferToken, CreateFirst
  <2> HIDE DEF r, Reads, Calm, Gives, Joins
  <2> QED
    BY <2>2, <2>3, <2>4, <2>6 DEF Fits
<1>14. Declared(Wallet(y), Wallet({}), "wallet", y)
  BY DEF Wallet
<1> HIDE DEF Declared
<1> QED
  BY <1>1, <1>2, <1>3, <1>4, <1>5, <1>6, <1>7, <1>8, <1>9, <1>10, <1>11, <1>12, <1>13, <1>14
     DEF TokenCommand, TokenNames

\* The keys they send suffice.
LEMMA TokenSigns ==
  ASSUME NEW y, NEW c \in TokenNames
  PROVE  Signs(TokenCommand(c, y), c, y)
<1> USE DEF Signs, SignedBy, Goes, Unsigned, Plain, Instr, Def, Submit, Ix, Instruction
<1>1. Signs(AssociatedTokenAccount(y), "associated_token_account", y)
  BY DEF AssociatedTokenAccount
<1>2. Signs(CreateMintAccount(y), "create_mint_account", y)
  BY DEF CreateMintAccount
<1>3. Signs(CreateTokenAccount(y), "create_token_account", y)
  BY DEF CreateTokenAccount
<1>4. Signs(Das(y), "das_api", y)
  BY DEF Das
<1>5. Signs(FindPda(y), "find_pda", y)
  BY DEF FindPda
<1>6. Signs(GenerateKeypair(y), "generate_keypair", y)
  BY DEF GenerateKeypair
<1>7. Signs(GetBalance(y), "get_balance", y)
  BY DEF GetBalance
<1>8. Signs(Memo(y), "memo", y)
  BY DEF Memo
<1>9. Signs(MintToken(y), "mint_token", y)
  BY DEF MintToken
<1>10. Signs(PythPrice(y), "pyth_price", y)
  BY DEF PythPrice
<1>11. Signs(RequestAirdrop(y), "request_airdrop", y)
  BY DEF RequestAirdrop
<1>12. Signs(TransferSol(y), "transfer_sol", y)
  BY DEF TransferSol, Keys, OrElse
<1>13. Signs(TransferToken(y), "transfer_token", y)
  <2> DEFINE r == TransferToken(y)
  <2> SUFFICES ASSUME SubmitFalse \notin y, Goes(r, y)
               PROVE  r.payer \in r.keys /\ SignedBy(r.ixs, r.keys)
    BY DEF Signs
  <2>1. r.payer \in r.keys
    BY DEF TransferToken, CreateFirst
  <2> HIDE DEF Goes, SignedBy, Submit, Ix, Instruction
  <2> DEFINE found == {"recipient is a token account", "the account of the recipient exists"}
             create == Ix("create_associated_token_account", {"fee_payer"})
             transfer == Ix("transfer_checked", {"sender_owner", "fee_payer"})
             memo == Ix("memo", {"fee_payer"})
  <2>3. r.ixs = CreateFirst(y, found, create, <<transfer, memo>>)
    BY SubmitGiven DEF TransferToken
  <2>4. r.keys = {"fee_payer", "sender_owner"}
    BY DEF TransferToken
  <2>5. /\ create.signed \subseteq {"fee_payer", "sender_owner"}
        /\ SignedBy(<<transfer, memo>>, {"fee_payer", "sender_owner"})
    BY InstructionSigned, TwoSigned
  <2> HIDE DEF create, transfer, memo, found
  <2>6. <<transfer, memo>> \in Seq({create, transfer, memo})
    OBVIOUS
  <2>7. SignedBy(CreateFirst(y, found, create, <<transfer, memo>>), {"fee_payer", "sender_owner"})
    BY <2>5, <2>6, FirstSigned
  <2>2. SignedBy(r.ixs, r.keys)
    BY <2>3, <2>4, <2>7
  <2> QED
    BY <2>1, <2>2
<1>14. Signs(Wallet(y), "wallet", y)
  BY DEF Wallet
<1> HIDE DEF Signs
<1> QED
  BY <1>1, <1>2, <1>3, <1>4, <1>5, <1>6, <1>7, <1>8, <1>9, <1>10, <1>11, <1>12, <1>13, <1>14
     DEF TokenCommand, TokenNames

-----------------------------------------------------------------------------
(* The account, compression and record commands *)

\* The account, compression and record commands are as their definitions say.
LEMMA AccountDeclared ==
  ASSUME NEW y, NEW c \in AccountNames
  PROVE  Declared(AccountCommand(c, y), AccountCommand(c, {}), c, y)
<1> USE DEF Declared, Fits, Fixed, Known, Goes, Reads, Calm, Gives, Joins,
            Misdeclared, Panicking, Incomplete, Late, Plain, Instr, Def
<1>1. Declared(InitializeRecordWithSeed(y), InitializeRecordWithSeed({}), "initialize_record_with_seed", y)
  BY DEF InitializeRecordWithSeed, LongSeed
<1>2. Declared(ReadRecord(y), ReadRecord({}), "read_record", y)
  <2> DEFINE r == ReadRecord(y)
  <2>1. Fixed(r, ReadRecord({}))
    BY DEF ReadRecord
  <2> SUFFICES ASSUME Known(r, y) PROVE Fits(r, "read_record", y)
    BY <2>1 DEF Declared
  <2>2. Reads(r, "read_record")
    BY DEF ReadRecord
  <2>3. Calm(r, "read_record", y)
    BY DEF ReadRecord
  <2>4. Gives(r, "read_record", y)
    BY DEF ReadRecord
  <2>5. ~r.info
    BY DEF ReadRecord
  <2>6. Joins(r, "read_record", y)
    BY <2>5 DEF Joins
  <2> HIDE DEF r, Reads, Calm, Gives, Joins
  <2> QED
    BY <2>2, <2>3, <2>4, <2>6 DEF Fits
<1>3. Declared(WriteToRecord(y), WriteToRecord({}), "write_to_record", y)
  BY DEF WriteToRecord, LongSeed
<1>4. Declared(SetAuthority(y), SetAuthority({}), "set_authority", y)
  BY DEF SetAuthority, OwnerOrSigners
<1>5. Declared(SetAuthority2022(y), SetAuthority2022({}), "set_authority_2022", y)
  BY DEF SetAuthority2022, OwnerOrSigners
<1>6. Declared(StreamflowCreate(y), StreamflowCreate({}), "create_streamflow_timelock", y)
  BY DEF StreamflowCreate
<1>7. Declared(StreamflowWithdraw(y), StreamflowWithdraw({}), "withdraw_streamflow_timelock", y)
  BY DEF StreamflowWithdraw
<1>8. Declared(BurnCnft(y), BurnCnft({}), "burn_cNFT", y)
  <2> DEFINE r == BurnCnft(y)
  <2>1. Fixed(r, BurnCnft({}))
    BY DEF BurnCnft, LacksLeaf, LeafSigner, NoLeafSigner, OrElse, OwnerKey
  <2> SUFFICES ASSUME Known(r, y) PROVE Fits(r, "burn_cNFT", y)
    BY <2>1 DEF Declared
  <2>2. Reads(r, "burn_cNFT")
    BY DEF BurnCnft, LacksLeaf, LeafSigner, NoLeafSigner, OrElse, OwnerKey
  <2>3. Calm(r, "burn_cNFT", y)
    BY DEF BurnCnft, LacksLeaf, LeafSigner, NoLeafSigner, OrElse, OwnerKey
  <2>4. Gives(r, "burn_cNFT", y)
    BY DEF BurnCnft, LacksLeaf, LeafSigner, NoLeafSigner, OrElse, OwnerKey
  <2>6. Joins(r, "burn_cNFT", y)
    BY DEF BurnCnft, LacksLeaf, LeafSigner, NoLeafSigner, OrElse, OwnerKey
  <2> HIDE DEF r, Reads, Calm, Gives, Joins
  <2> QED
    BY <2>2, <2>3, <2>4, <2>6 DEF Fits
<1>9. Declared(TransferCnft(y), TransferCnft({}), "transfer_cNFT", y)
  <2> DEFINE r == TransferCnft(y)
  <2>1. Fixed(r, TransferCnft({}))
    BY DEF TransferCnft, LacksLeaf, LeafSigner, NoLeafSigner, OrElse, OwnerKey
  <2> SUFFICES ASSUME Known(r, y) PROVE Fits(r, "transfer_cNFT", y)
    BY <2>1 DEF Declared
  <2>2. Reads(r, "transfer_cNFT")
    BY DEF TransferCnft, LacksLeaf, LeafSigner, NoLeafSigner, OrElse, OwnerKey
  <2>3. Calm(r, "transfer_cNFT", y)
    BY DEF TransferCnft, LacksLeaf, LeafSigner, NoLeafSigner, OrElse, OwnerKey
  <2>4. Gives(r, "transfer_cNFT", y)
    BY DEF TransferCnft, LacksLeaf, LeafSigner, NoLeafSigner, OrElse, OwnerKey
  <2>6. Joins(r, "transfer_cNFT", y)
    BY DEF TransferCnft, LacksLeaf, LeafSigner, NoLeafSigner, OrElse, OwnerKey
  <2> HIDE DEF r, Reads, Calm, Gives, Joins
  <2> QED
    BY <2>2, <2>3, <2>4, <2>6 DEF Fits
<1>10. Declared(UpdateCnft(y), UpdateCnft({}), "update_cNFT", y)
  <2> DEFINE r == UpdateCnft(y)
  <2>1. Fixed(r, UpdateCnft({}))
    BY DEF UpdateCnft, BadCreator, LacksLeaf
  <2> SUFFICES ASSUME Known(r, y) PROVE Fits(r, "update_cNFT", y)
    BY <2>1 DEF Declared
  <2>2. Reads(r, "update_cNFT")
    BY DEF UpdateCnft, BadCreator, LacksLeaf
  <2>5. "authority" \notin y
    BY DEF UpdateCnft, BadCreator, SubmitFalse
  <2>3. Calm(r, "update_cNFT", y)
    BY <2>5 DEF UpdateCnft
  <2>4. Gives(r, "update_cNFT", y)
    BY DEF UpdateCnft, BadCreator, LacksLeaf
  <2>6. Joins(r, "update_cNFT", y)
    BY DEF UpdateCnft, BadCreator, LacksLeaf
  <2> HIDE DEF r, Reads, Calm, Gives, Joins
  <2> QED
    BY <2>2, <2>3, <2>4, <2>6 DEF Fits
<1>11. Declared(CreateTree(y), CreateTree({}), "create_tree", y)
  BY DEF CreateTree
<1>12. Declared(MintCnftToCollection(y), MintCnftToCollection({}), "mint_cNFT_to_collection", y)
  BY DEF MintCnftToCollection, BadCreator
<1>13. Declared(MintCompressedNft(y), MintCompressedNft({}), "mint_compressed_NFT", y)
  BY DEF MintCompressedNft, BadCreator
<1> HIDE DEF Declared
<1> QED
  BY <1>1, <1>2, <1>3, <1>4, <1>5, <1>6, <1>7, <1>8, <1>9, <1>10, <1>11, <1>12, <1>13
     DEF AccountCommand, AccountNames

\* The keys they send suffice.
LEMMA AccountSigns ==
  ASSUME NEW y, NEW c \in AccountNames
  PROVE  Signs(AccountCommand(c, y), c, y)
<1> USE DEF Signs, SignedBy, Goes, Unsigned, Plain, Instr, Def, Submit, Ix, Instruction
<1>1. Signs(InitializeRecordWithSeed(y), "initialize_record_with_seed", y)
  <2> DEFINE r == InitializeRecordWithSeed(y)
  <2> SUFFICES ASSUME SubmitFalse \notin y, Goes(r, y)
               PROVE  r.payer \in r.keys /\ SignedBy(r.ixs, r.keys)
    BY DEF Signs
  <2>1. r.payer \in r.keys
    BY DEF InitializeRecordWithSeed, LongSeed
  <2> HIDE DEF Goes, SignedBy, Submit, Ix, Instruction
  <2>2. SignedBy(r.ixs, r.keys)
    BY OneSigned, TwoSigned, ThreeSigned, InstructionSigned, SubmitGiven
       DEF InitializeRecordWithSeed, LongSeed
  <2> QED
    BY <2>1, <2>2
<1>2. Signs(ReadRecord(y), "read_record", y)
  BY DEF ReadRecord
<1>3. Signs(WriteToRecord(y), "write_to_record", y)
  <2> DEFINE r == WriteToRecord(y)
  <2> SUFFICES ASSUME SubmitFalse \notin y, Goes(r, y)
               PROVE  r.payer \in r.keys /\ SignedBy(r.ixs, r.keys)
    BY DEF Signs
  <2>1. r.payer \in r.keys
    BY DEF WriteToRecord, LongSeed
  <2> HIDE DEF Goes, SignedBy, Submit, Ix, Instruction
  <2>2. SignedBy(r.ixs, r.keys)
    BY OneSigned, TwoSigned, ThreeSigned, InstructionSigned, SubmitGiven DEF WriteToRecord, LongSeed
  <2> QED
    BY <2>1, <2>2
<1>4. Signs(SetAuthority(y), "set_authority", y)
  BY DEF SetAuthority, OwnerOrSigners
<1>5. Signs(SetAuthority2022(y), "set_authority_2022", y)
  BY DEF SetAuthority2022, OwnerOrSigners
<1>6. Signs(StreamflowCreate(y), "create_streamflow_timelock", y)
  <2> DEFINE r == StreamflowCreate(y)
  <2> SUFFICES ASSUME SubmitFalse \notin y, Goes(r, y)
               PROVE  r.payer \in r.keys /\ SignedBy(r.ixs, r.keys)
    BY DEF Signs
  <2>1. r.payer \in r.keys
    BY DEF StreamflowCreate
  <2> HIDE DEF Goes, SignedBy, Submit, Ix, Instruction
  <2>2. SignedBy(r.ixs, r.keys)
    BY OneSigned, TwoSigned, ThreeSigned, InstructionSigned, SubmitGiven DEF StreamflowCreate
  <2> QED
    BY <2>1, <2>2
<1>7. Signs(StreamflowWithdraw(y), "withdraw_streamflow_timelock", y)
  BY DEF StreamflowWithdraw
<1>8. Signs(BurnCnft(y), "burn_cNFT", y)
  <2> DEFINE r == BurnCnft(y)
  <2> SUFFICES ASSUME SubmitFalse \notin y, Goes(r, y)
               PROVE  r.payer \in r.keys /\ SignedBy(r.ixs, r.keys)
    BY DEF Signs
  <2>1. r.payer \in r.keys
    BY DEF BurnCnft, LacksLeaf, LeafSigner, NoLeafSigner, OrElse, OwnerKey
  <2> HIDE DEF Goes, SignedBy, Submit, Ix, Instruction
  <2>2. SignedBy(r.ixs, r.keys)
    BY OneSigned, TwoSigned, ThreeSigned, InstructionSigned, SubmitGiven
       DEF BurnCnft, LacksLeaf, LeafSigner, NoLeafSigner, OrElse, OwnerKey
  <2> QED
    BY <2>1, <2>2
<1>9. Signs(TransferCnft(y), "transfer_cNFT", y)
  <2> DEFINE r == TransferCnft(y)
  <2> SUFFICES ASSUME SubmitFalse \notin y, Goes(r, y)
               PROVE  r.payer \in r.keys /\ SignedBy(r.ixs, r.keys)
    BY DEF Signs
  <2>1. r.payer \in r.keys
    BY DEF TransferCnft, LacksLeaf, LeafSigner, NoLeafSigner, OrElse, OwnerKey
  <2> HIDE DEF Goes, SignedBy, Submit, Ix, Instruction
  <2>2. SignedBy(r.ixs, r.keys)
    BY OneSigned, TwoSigned, ThreeSigned, InstructionSigned, SubmitGiven
       DEF TransferCnft, LacksLeaf, LeafSigner, NoLeafSigner, OrElse, OwnerKey
  <2> QED
    BY <2>1, <2>2
<1>10. Signs(UpdateCnft(y), "update_cNFT", y)
  <2> DEFINE r == UpdateCnft(y)
  <2> SUFFICES ASSUME SubmitFalse \notin y, Goes(r, y)
               PROVE  r.payer \in r.keys /\ SignedBy(r.ixs, r.keys)
    BY DEF Signs
  <2>1. r.payer \in r.keys
    BY DEF UpdateCnft, BadCreator, LacksLeaf
  <2> HIDE DEF Goes, SignedBy, Submit, Ix, Instruction
  <2>2. SignedBy(r.ixs, r.keys)
    BY OneSigned, TwoSigned, ThreeSigned, InstructionSigned, SubmitGiven
       DEF UpdateCnft, BadCreator, LacksLeaf
  <2> QED
    BY <2>1, <2>2
<1>11. Signs(CreateTree(y), "create_tree", y)
  BY DEF CreateTree
<1>12. Signs(MintCnftToCollection(y), "mint_cNFT_to_collection", y)
  <2> DEFINE r == MintCnftToCollection(y)
  <2> SUFFICES ASSUME SubmitFalse \notin y, Goes(r, y)
               PROVE  r.payer \in r.keys /\ SignedBy(r.ixs, r.keys)
    BY DEF Signs
  <2>1. r.payer \in r.keys
    BY DEF MintCnftToCollection, BadCreator
  <2> HIDE DEF Goes, SignedBy, Submit, Ix, Instruction
  <2>2. SignedBy(r.ixs, r.keys)
    BY OneSigned, TwoSigned, ThreeSigned, InstructionSigned, SubmitGiven
       DEF MintCnftToCollection, BadCreator
  <2> QED
    BY <2>1, <2>2
<1>13. Signs(MintCompressedNft(y), "mint_compressed_NFT", y)
  <2> DEFINE r == MintCompressedNft(y)
  <2> SUFFICES ASSUME SubmitFalse \notin y, Goes(r, y)
               PROVE  r.payer \in r.keys /\ SignedBy(r.ixs, r.keys)
    BY DEF Signs
  <2>1. r.payer \in r.keys
    BY DEF MintCompressedNft, BadCreator
  <2> HIDE DEF Goes, SignedBy, Submit, Ix, Instruction
  <2>2. SignedBy(r.ixs, r.keys)
    BY OneSigned, TwoSigned, ThreeSigned, InstructionSigned, SubmitGiven
       DEF MintCompressedNft, BadCreator
  <2> QED
    BY <2>1, <2>2
<1> HIDE DEF Signs
<1> QED
  BY <1>1, <1>2, <1>3, <1>4, <1>5, <1>6, <1>7, <1>8, <1>9, <1>10, <1>11, <1>12, <1>13
     DEF AccountCommand, AccountNames

-----------------------------------------------------------------------------
(* The NFT commands *)

\* The NFT commands are as their definitions say.
LEMMA NftDeclared ==
  ASSUME NEW y, NEW c \in NftNames
  PROVE  Declared(NftCommand(c, y), NftCommand(c, {}), c, y)
<1> USE DEF Declared, Fits, Fixed, Known, Goes, Reads, Calm, Gives, Joins,
            Misdeclared, Panicking, Incomplete, Late, Plain, Instr, Def
<1>1. Declared(CreateCoreAsset(y), CreateCoreAsset({}), "create_core_v2", y)
  BY DEF CreateCoreAsset, Keys
<1>2. Declared(CreateCoreCollection(y), CreateCoreCollection({}), "create_core_collection_v2", y)
  BY DEF CreateCoreCollection, Keys
<1>3. Declared(FetchAssets(y), FetchAssets({}), "fetch_assets", y)
  <2> DEFINE r == FetchAssets(y)
  <2>1. Fixed(r, FetchAssets({}))
    BY DEF FetchAssets
  <2> SUFFICES ASSUME Known(r, y) PROVE Fits(r, "fetch_assets", y)
    BY <2>1 DEF Declared
  <2>2. Reads(r, "fetch_assets")
    BY DEF FetchAssets
  <2>3. Calm(r, "fetch_assets", y)
    BY DEF FetchAssets
  <2>4. Gives(r, "fetch_assets", y)
    BY DEF FetchAssets
  <2>5. ~r.info
    BY DEF FetchAssets
  <2>6. Joins(r, "fetch_assets", y)
    BY <2>5 DEF Joins
  <2> HIDE DEF r, Reads, Calm, Gives, Joins
  <2> QED
    BY <2>2, <2>3, <2>4, <2>6 DEF Fits
<1>4. Declared(UpdateCoreAsset(y), UpdateCoreAsset({}), "update_core_v1", y)
  BY DEF UpdateCoreAsset
<1>5. Declared(UpdateCorePlugin(y), UpdateCorePlugin({}), "mpl_core_update_plugin", y)
  BY DEF UpdateCorePlugin, Keys
<1>6. Declared(AddConfigLinesCore(y), AddConfigLinesCore({}), "add_config_lines_core", y)
  BY DEF AddConfigLinesCore
<1>7. Declared(InitializeCandyGuardCore(y), InitializeCandyGuardCore({}), "initialize_core_candy_guards", y)
  BY DEF InitializeCandyGuardCore
<1>8. Declared(InitializeCandyMachineCore(y), InitializeCandyMachineCore({}), "initialize_candy_machine_core", y)
  BY DEF InitializeCandyMachineCore
<1>9. Declared(WrapCandyMachineCore(y), WrapCandyMachineCore({}), "wrap_core", y)
  BY DEF WrapCandyMachineCore
<1>10. Declared(MintCandyMachineCore(y), MintCandyMachineCore({}), "mint_candy_machine_core", y)
  BY DEF MintCandyMachineCore
<1>11. Declared(AddConfigLinesV3(y), AddConfigLinesV3({}), "add_config_lines", y)
  BY DEF AddConfigLinesV3
<1>12. Declared(InitializeCandyGuardV3(y), InitializeCandyGuardV3({}), "initialize_candy_guard", y)
  BY DEF InitializeCandyGuardV3
<1>13. Declared(InitializeCandyMachineV3(y), InitializeCandyMachineV3({}), "initialize_candy_machine", y)
  BY DEF InitializeCandyMachineV3
<1>14. Declared(WrapCandyMachineV3(y), WrapCandyMachineV3({}), "wrap", y)
  BY DEF WrapCandyMachineV3
<1>15. Declared(MintCandyMachineV3(y), MintCandyMachineV3({}), "mint", y)
  BY DEF MintCandyMachineV3
<1>16. Declared(CreateMasterEdition(y), CreateMasterEdition({}), "create_master_edition", y)
  BY DEF CreateMasterEdition, MintAuthority, MintAuthoritySigner
<1>17. Declared(CreateMetadataAccount(y), CreateMetadataAccount({}), "create_metadata_account", y)
  BY DEF CreateMetadataAccount, MintAuthority, MintAuthoritySigner
<1>18. Declared(BurnV1(y), BurnV1({}), "burn_v1", y)
  BY DEF BurnV1
<1>19. Declared(CreateV1(y), CreateV1({}), "create_v1", y)
  <2> DEFINE r == CreateV1(y)
  <2>1. Fixed(r, CreateV1({}))
    BY DEF CreateV1, BadStandard, MintAuthority, MintAuthoritySigner
  <2> SUFFICES ASSUME Known(r, y) PROVE Fits(r, "create_v1", y)
    BY <2>1 DEF Declared
  <2>2. Reads(r, "create_v1")
    BY DEF CreateV1, BadStandard, MintAuthority, MintAuthoritySigner
  <2>3. Calm(r, "create_v1", y)
    BY DEF CreateV1, BadStandard, MintAuthority, MintAuthoritySigner
  <2>4. Gives(r, "create_v1", y)
    BY DEF CreateV1, BadStandard, MintAuthority, MintAuthoritySigner
  <2>6. Joins(r, "create_v1", y)
    BY DEF CreateV1, BadStandard, MintAuthority, MintAuthoritySigner
  <2> HIDE DEF r, Reads, Calm, Gives, Joins
  <2> QED
    BY <2>2, <2>3, <2>4, <2>6 DEF Fits
<1>20. Declared(MintV1(y), MintV1({}), "mint_v1", y)
  BY DEF MintV1
<1>21. Declared(VerifyCollectionV1(y), VerifyCollectionV1({}), "verify_collection_v1", y)
  BY DEF VerifyCollectionV1
<1>22. Declared(VerifyCreatorV1(y), VerifyCreatorV1({}), "verify_creator_v1", y)
  BY DEF VerifyCreatorV1
<1>23. Declared(DelegateV1(y), DelegateV1({}), "delegate_v1", y)
  BY DEF DelegateV1, DelegateAccounts, Placeholder
<1>24. Declared(UpdateV1(y), UpdateV1({}), "update_v1", y)
  <2> DEFINE r == UpdateV1(y)
  <2>1. Fixed(r, UpdateV1({}))
    BY DEF UpdateV1, OrElse, Placeholder, UpdateAccounts
  <2> SUFFICES ASSUME Known(r, y) PROVE Fits(r, "update_v1", y)
    BY <2>1 DEF Declared
  <2>2. Reads(r, "update_v1")
    BY DEF UpdateV1, OrElse, Placeholder, UpdateAccounts
  <2>3. Calm(r, "update_v1", y)
    BY DEF UpdateV1, OrElse, Placeholder, UpdateAccounts
  <2>4. Gives(r, "update_v1", y)
    BY DEF UpdateV1, OrElse, Placeholder, UpdateAccounts
  <2>6. Joins(r, "update_v1", y)
    BY DEF UpdateV1, OrElse, Placeholder, UpdateAccounts
  <2> HIDE DEF r, Reads, Calm, Gives, Joins
  <2> QED
    BY <2>2, <2>3, <2>4, <2>6 DEF Fits
<1>25. Declared(ArweaveFileUpload(y), ArweaveFileUpload({}), "arweave_file_upload", y)
  BY DEF ArweaveFileUpload
<1>26. Declared(ArweaveNftUpload(y), ArweaveNftUpload({}), "arweave_nft_upload", y)
  BY DEF ArweaveNftUpload
<1> HIDE DEF Declared
<1> QED
  BY <1>1, <1>2, <1>3, <1>4, <1>5, <1>6, <1>7, <1>8, <1>9, <1>10, <1>11, <1>12, <1>13, <1>14,
     <1>15, <1>16, <1>17, <1>18, <1>19, <1>20, <1>21, <1>22, <1>23, <1>24, <1>25, <1>26
     DEF NftCommand, NftNames

\* The keys they send suffice.
LEMMA NftSigns ==
  ASSUME NEW y, NEW c \in NftNames
  PROVE  Signs(NftCommand(c, y), c, y)
<1> USE DEF Signs, SignedBy, Goes, Unsigned, Plain, Instr, Def, Submit, Ix, Instruction
<1>1. Signs(CreateCoreAsset(y), "create_core_v2", y)
  BY DEF CreateCoreAsset, Keys
<1>2. Signs(CreateCoreCollection(y), "create_core_collection_v2", y)
  BY DEF CreateCoreCollection, Keys
<1>3. Signs(FetchAssets(y), "fetch_assets", y)
  BY DEF FetchAssets
<1>4. Signs(UpdateCoreAsset(y), "update_core_v1", y)
  BY DEF UpdateCoreAsset
<1>5. Signs(UpdateCorePlugin(y), "mpl_core_update_plugin", y)
  BY DEF UpdateCorePlugin, Keys
<1>6. Signs(AddConfigLinesCore(y), "add_config_lines_core", y)
  BY DEF AddConfigLinesCore
<1>7. Signs(InitializeCandyGuardCore(y), "initialize_core_candy_guards", y)
  BY DEF InitializeCandyGuardCore
<1>8. Signs(InitializeCandyMachineCore(y), "initialize_candy_machine_core", y)
  BY DEF InitializeCandyMachineCore
<1>9. Signs(WrapCandyMachineCore(y), "wrap_core", y)
  BY DEF WrapCandyMachineCore
<1>10. Signs(MintCandyMachineCore(y), "mint_candy_machine_core", y)
  BY DEF MintCandyMachineCore
<1>11. Signs(AddConfigLinesV3(y), "add_config_lines", y)
  BY DEF AddConfigLinesV3
<1>12. Signs(InitializeCandyGuardV3(y), "initialize_candy_guard", y)
  BY DEF InitializeCandyGuardV3
<1>13. Signs(InitializeCandyMachineV3(y), "initialize_candy_machine", y)
  BY DEF InitializeCandyMachineV3
<1>14. Signs(WrapCandyMachineV3(y), "wrap", y)
  BY DEF WrapCandyMachineV3
<1>15. Signs(MintCandyMachineV3(y), "mint", y)
  BY DEF MintCandyMachineV3
<1>16. Signs(CreateMasterEdition(y), "create_master_edition", y)
  BY DEF CreateMasterEdition, MintAuthority, MintAuthoritySigner
<1>17. Signs(CreateMetadataAccount(y), "create_metadata_account", y)
  BY DEF CreateMetadataAccount, MintAuthority, MintAuthoritySigner
<1>18. Signs(BurnV1(y), "burn_v1", y)
  BY DEF BurnV1
<1>19. Signs(CreateV1(y), "create_v1", y)
  BY DEF CreateV1, BadStandard, MintAuthority, MintAuthoritySigner
<1>20. Signs(MintV1(y), "mint_v1", y)
  BY DEF MintV1
<1>21. Signs(VerifyCollectionV1(y), "verify_collection_v1", y)
  BY DEF VerifyCollectionV1
<1>22. Signs(VerifyCreatorV1(y), "verify_creator_v1", y)
  BY DEF VerifyCreatorV1
<1>23. Signs(DelegateV1(y), "delegate_v1", y)
  <2> DEFINE r == DelegateV1(y)
  <2> SUFFICES ASSUME SubmitFalse \notin y, Goes(r, y)
               PROVE  r.payer \in r.keys /\ SignedBy(r.ixs, r.keys)
    BY DEF Signs
  <2>1. r.payer \in r.keys
    BY DEF DelegateV1, DelegateAccounts, Placeholder
  <2> HIDE DEF Goes, SignedBy, Submit, Ix, Instruction
  <2>2. SignedBy(r.ixs, r.keys)
    BY OneSigned, TwoSigned, ThreeSigned, InstructionSigned, SubmitGiven DEF DelegateV1
  <2> QED
    BY <2>1, <2>2
<1>24. Signs(UpdateV1(y), "update_v1", y)
  <2> DEFINE r == UpdateV1(y)
  <2> SUFFICES ASSUME SubmitFalse \notin y, Goes(r, y)
               PROVE  r.payer \in r.keys /\ SignedBy(r.ixs, r.keys)
    BY DEF Signs
  <2>1. r.payer \in r.keys
    BY DEF UpdateV1, OrElse, Placeholder, UpdateAccounts
  <2> HIDE DEF Goes, SignedBy, Submit, Ix, Instruction
  <2>2. SignedBy(r.ixs, r.keys)
    BY OneSigned, TwoSigned, ThreeSigned, InstructionSigned, SubmitGiven DEF UpdateV1
  <2> QED
    BY <2>1, <2>2
<1>25. Signs(ArweaveFileUpload(y), "arweave_file_upload", y)
  BY DEF ArweaveFileUpload
<1>26. Signs(ArweaveNftUpload(y), "arweave_nft_upload", y)
  BY DEF ArweaveNftUpload
<1> HIDE DEF Signs
<1> QED
  BY <1>1, <1>2, <1>3, <1>4, <1>5, <1>6, <1>7, <1>8, <1>9, <1>10, <1>11, <1>12, <1>13, <1>14,
     <1>15, <1>16, <1>17, <1>18, <1>19, <1>20, <1>21, <1>22, <1>23, <1>24, <1>25, <1>26
     DEF NftCommand, NftNames

-----------------------------------------------------------------------------
(* The Wormhole commands *)

\* The Wormhole commands are as their definitions say.
LEMMA WormholeDeclared ==
  ASSUME NEW y, NEW c \in WormholeNames
  PROVE  Declared(WormholeCommand(c, y), WormholeCommand(c, {}), c, y)
<1> USE DEF Declared, Fits, Fixed, Known, Goes, Reads, Calm, Gives, Joins,
            Misdeclared, Panicking, Incomplete, Late, Plain, Instr, Def
<1>1. Declared(GetVaa(y), GetVaa({}), "get_vaa", y)
  BY DEF GetVaa
<1>2. Declared(ParseVaa(y), ParseVaa({}), "parse_vaa", y)
  <2> DEFINE r == ParseVaa(y)
  <2>1. Fixed(r, ParseVaa({}))
    BY DEF ParseVaa, BadVaa, ShortVaa
  <2> SUFFICES ASSUME Known(r, y) PROVE Fits(r, "parse_vaa", y)
    BY <2>1 DEF Declared
  <2>2. Reads(r, "parse_vaa")
    BY DEF ParseVaa, BadVaa, ShortVaa
  <2>3. Calm(r, "parse_vaa", y)
    BY DEF ParseVaa, BadVaa, ShortVaa
  <2>4. Gives(r, "parse_vaa", y)
    BY DEF ParseVaa, BadVaa, ShortVaa
  <2>5. ~r.info
    BY DEF ParseVaa, BadVaa, ShortVaa
  <2>6. Joins(r, "parse_vaa", y)
    BY <2>5 DEF Joins
  <2> HIDE DEF r, Reads, Calm, Gives, Joins
  <2> QED
    BY <2>2, <2>3, <2>4, <2>6 DEF Fits
<1>3. Declared(PostWormholeMessage(y), PostWormholeMessage({}), "post_message", y)
  BY DEF PostWormholeMessage
<1>4. Declared(PostVaa(y), PostVaa({}), "post_vaa", y)
  BY DEF PostVaa, BadVaa
<1>5. Declared(VerifySignatures(y), VerifySignatures({}), "verify_signatures", y)
  BY DEF VerifySignatures, NoGuardian
<1>6. Declared(NftCompleteNative(y), NftCompleteNative({}), "nft_complete_native", y)
  <2> DEFINE r == NftCompleteNative(y)
  <2>1. Fixed(r, NftCompleteNative({}))
    BY DEF NftCompleteNative
  <2> SUFFICES ASSUME Known(r, y) PROVE Fits(r, "nft_complete_native", y)
    BY <2>1 DEF Declared
  <2>2. Reads(r, "nft_complete_native")
    BY DEF NftCompleteNative
  <2>3. Calm(r, "nft_complete_native", y)
    BY DEF NftCompleteNative
  <2>4. Gives(r, "nft_complete_native", y)
    BY DEF NftCompleteNative
  <2>6. Joins(r, "nft_complete_native", y)
    BY DEF NftCompleteNative
  <2> HIDE DEF r, Reads, Calm, Gives, Joins
  <2> QED
    BY <2>2, <2>3, <2>4, <2>6 DEF Fits
<1>7. Declared(NftCompleteWrapped(y), NftCompleteWrapped({}), "nft_complete_wrapped", y)
  <2> DEFINE r == NftCompleteWrapped(y)
  <2>1. Fixed(r, NftCompleteWrapped({}))
    BY DEF NftCompleteWrapped, BadVaa
  <2> SUFFICES ASSUME Known(r, y) PROVE Fits(r, "nft_complete_wrapped", y)
    BY <2>1 DEF Declared
  <2>2. Reads(r, "nft_complete_wrapped")
    BY DEF NftCompleteWrapped, BadVaa
  <2>3. Calm(r, "nft_complete_wrapped", y)
    BY DEF NftCompleteWrapped, BadVaa
  <2>4. Gives(r, "nft_complete_wrapped", y)
    BY DEF NftCompleteWrapped, BadVaa
  <2>6. Joins(r, "nft_complete_wrapped", y)
    BY DEF NftCompleteWrapped, BadVaa
  <2> HIDE DEF r, Reads, Calm, Gives, Joins
  <2> QED
    BY <2>2, <2>3, <2>4, <2>6 DEF Fits
<1>8. Declared(NftCompleteWrappedMeta(y), NftCompleteWrappedMeta({}), "nft_complete_wrapped_meta", y)
  <2> DEFINE r == NftCompleteWrappedMeta(y)
  <2>1. Fixed(r, NftCompleteWrappedMeta({}))
    BY DEF NftCompleteWrappedMeta, BadVaa
  <2> SUFFICES ASSUME Known(r, y) PROVE Fits(r, "nft_complete_wrapped_meta", y)
    BY <2>1 DEF Declared
  <2>2. Reads(r, "nft_complete_wrapped_meta")
    BY DEF NftCompleteWrappedMeta, BadVaa
  <2>3. Calm(r, "nft_complete_wrapped_meta", y)
    BY DEF NftCompleteWrappedMeta, BadVaa
  <2>4. Gives(r, "nft_complete_wrapped_meta", y)
    BY DEF NftCompleteWrappedMeta, BadVaa
  <2>6. Joins(r, "nft_complete_wrapped_meta", y)
    BY DEF NftCompleteWrappedMeta, BadVaa
  <2> HIDE DEF r, Reads, Calm, Gives, Joins
  <2> QED
    BY <2>2, <2>3, <2>4, <2>6 DEF Fits
<1>9. Declared(NftTransferNative(y), NftTransferNative({}), "nft_transfer_native", y)
  <2> DEFINE r == NftTransferNative(y)
  <2>1. Fixed(r, NftTransferNative({}))
    BY DEF NftTransferNative, No0x, NotHex
  <2> SUFFICES ASSUME Known(r, y) PROVE Fits(r, "nft_transfer_native", y)
    BY <2>1 DEF Declared
  <2>2. Reads(r, "nft_transfer_native")
    BY DEF NftTransferNative, No0x, NotHex
  <2>3. Calm(r, "nft_transfer_native", y)
    BY DEF NftTransferNative, No0x, NotHex
  <2>4. Gives(r, "nft_transfer_native", y)
    BY DEF NftTransferNative, No0x, NotHex
  <2>6. Joins(r, "nft_transfer_native", y)
    BY DEF NftTransferNative, No0x, NotHex
  <2> HIDE DEF r, Reads, Calm, Gives, Joins
  <2> QED
    BY <2>2, <2>3, <2>4, <2>6 DEF Fits
<1>10. Declared(NftTransferWrapped(y), NftTransferWrapped({}), "nft_transfer_wrapped", y)
  <2> DEFINE r == NftTransferWrapped(y)
  <2>1. Fixed(r, NftTransferWrapped({}))
    BY DEF NftTransferWrapped, No0x, NotHex
  <2> SUFFICES ASSUME Known(r, y) PROVE Fits(r, "nft_transfer_wrapped", y)
    BY <2>1 DEF Declared
  <2>2. Reads(r, "nft_transfer_wrapped")
    BY DEF NftTransferWrapped, No0x, NotHex
  <2>3. Calm(r, "nft_transfer_wrapped", y)
    BY DEF NftTransferWrapped, No0x, NotHex
  <2>4. Gives(r, "nft_transfer_wrapped", y)
    BY DEF NftTransferWrapped, No0x, NotHex
  <2>6. Joins(r, "nft_transfer_wrapped", y)
    BY DEF NftTransferWrapped, No0x, NotHex
  <2> HIDE DEF r, Reads, Calm, Gives, Joins
  <2> QED
    BY <2>2, <2>3, <2>4, <2>6 DEF Fits
<1>11. Declared(AttestToken(y), AttestToken({}), "attest_token", y)
  BY DEF AttestToken
<1>12. Declared(CompleteNative(y), CompleteNative({}), "complete_native", y)
  <2> DEFINE r == CompleteNative(y)
  <2>1. Fixed(r, CompleteNative({}))
    BY DEF CompleteNative
  <2> SUFFICES ASSUME Known(r, y) PROVE Fits(r, "complete_native", y)
    BY <2>1 DEF Declared
  <2>2. Reads(r, "complete_native")
    BY DEF CompleteNative
  <2>3. Calm(r, "complete_native", y)
    BY DEF CompleteNative
  <2>4. Gives(r, "complete_native", y)
    BY DEF CompleteNative
  <2>6. Joins(r, "complete_native", y)
    BY DEF CompleteNative
  <2> HIDE DEF r, Reads, Calm, Gives, Joins
  <2> QED
    BY <2>2, <2>3, <2>4, <2>6 DEF Fits
<1>13. Declared(CompleteTransferWrapped(y), CompleteTransferWrapped({}), "complete_transfer_wrapped", y)
  <2> DEFINE r == CompleteTransferWrapped(y)
  <2>1. Fixed(r, CompleteTransferWrapped({}))
    BY DEF CompleteTransferWrapped, BadVaa, CreateFirst
  <2> SUFFICES ASSUME Known(r, y) PROVE Fits(r, "complete_transfer_wrapped", y)
    BY <2>1 DEF Declared
  <2>2. Reads(r, "complete_transfer_wrapped")
    BY DEF CompleteTransferWrapped, BadVaa, CreateFirst
  <2>3. Calm(r, "complete_transfer_wrapped", y)
    BY DEF CompleteTransferWrapped, BadVaa, CreateFirst
  <2>4. Gives(r, "complete_transfer_wrapped", y)
    BY DEF CompleteTransferWrapped, BadVaa, CreateFirst
  <2>6. Joins(r, "complete_transfer_wrapped", y)
    BY DEF CompleteTransferWrapped, BadVaa, CreateFirst
  <2> HIDE DEF r, Reads, Calm, Gives, Joins
  <2> QED
    BY <2>2, <2>3, <2>4, <2>6 DEF Fits
<1>14. Declared(CreateWrapped(y), CreateWrapped({}), "create_wrapped", y)
  <2> DEFINE r == CreateWrapped(y)
  <2>1. Fixed(r, CreateWrapped({}))
    BY DEF CreateWrapped, BadVaa
  <2> SUFFICES ASSUME Known(r, y) PROVE Fits(r, "create_wrapped", y)
    BY <2>1 DEF Declared
  <2>2. Reads(r, "create_wrapped")
    BY DEF CreateWrapped, BadVaa
  <2>3. Calm(r, "create_wrapped", y)
    BY DEF CreateWrapped, BadVaa
  <2>4. Gives(r, "create_wrapped", y)
    BY DEF CreateWrapped, BadVaa
  <2>6. Joins(r, "create_wrapped", y)
    BY DEF CreateWrapped, BadVaa
  <2> HIDE DEF r, Reads, Calm, Gives, Joins
  <2> QED
    BY <2>2, <2>3, <2>4, <2>6 DEF Fits
<1>15. Declared(InitializeTokenBridge(y), InitializeTokenBridge({}), "initialize_token_bridge", y)
  BY DEF InitializeTokenBridge
<1>16. Declared(TransferNative(y), TransferNative({}), "transfer_native", y)
  <2> DEFINE r == TransferNative(y)
  <2>1. Fixed(r, TransferNative({}))
    BY DEF TransferNative, No0x, NotHex
  <2> SUFFICES ASSUME Known(r, y) PROVE Fits(r, "transfer_native", y)
    BY <2>1 DEF Declared
  <2>2. Reads(r, "transfer_native")
    BY DEF TransferNative, No0x, NotHex
  <2>3. Calm(r, "transfer_native", y)
    BY DEF TransferNative, No0x, NotHex
  <2>4. Gives(r, "transfer_native", y)
    BY DEF TransferNative, No0x, NotHex
  <2>6. Joins(r, "transfer_native", y)
    BY DEF TransferNative, No0x, NotHex
  <2> HIDE DEF r, Reads, Calm, Gives, Joins
  <2> QED
    BY <2>2, <2>3, <2>4, <2>6 DEF Fits
<1>17. Declared(TransferWrapped(y), TransferWrapped({}), "transfer_wrapped", y)
  <2> DEFINE r == TransferWrapped(y)
  <2>1. Fixed(r, TransferWrapped({}))
    BY DEF TransferWrapped, No0x, NotHex
  <2> SUFFICES ASSUME Known(r, y) PROVE Fits(r, "transfer_wrapped", y)
    BY <2>1 DEF Declared
  <2>2. Reads(r, "transfer_wrapped")
    BY DEF TransferWrapped, No0x, NotHex
  <2>3. Calm(r, "transfer_wrapped", y)
    BY DEF TransferWrapped, No0x, NotHex
  <2>4. Gives(r, "transfer_wrapped", y)
    BY DEF TransferWrapped, No0x, NotHex
  <2>6. Joins(r, "transfer_wrapped", y)
    BY DEF TransferWrapped, No0x, NotHex
  <2> HIDE DEF r, Reads, Calm, Gives, Joins
  <2> QED
    BY <2>2, <2>3, <2>4, <2>6 DEF Fits
<1>18. Declared(GetForeignAssetEth(y), GetForeignAssetEth({}), "get_foreign_asset_eth", y)
  BY DEF GetForeignAssetEth
<1>19. Declared(RedeemNftOnEth(y), RedeemNftOnEth({}), "redeem_nft_on_eth", y)
  BY DEF RedeemNftOnEth
<1>20. Declared(TransferNftFromEth(y), TransferNftFromEth({}), "transfer_nft_from_eth", y)
  BY DEF TransferNftFromEth
<1>21. Declared(AttestFromEth(y), AttestFromEth({}), "attest_from_eth", y)
  BY DEF AttestFromEth
<1>22. Declared(CreateWrappedOnEth(y), CreateWrappedOnEth({}), "create_wrapped_on_eth", y)
  <2> DEFINE r == CreateWrappedOnEth(y)
  <2>1. Fixed(r, CreateWrappedOnEth({}))
    BY DEF CreateWrappedOnEth
  <2> SUFFICES ASSUME Known(r, y) PROVE Fits(r, "create_wrapped_on_eth", y)
    BY <2>1 DEF Declared
  <2>2. Reads(r, "create_wrapped_on_eth")
    BY DEF CreateWrappedOnEth
  <2>3. Calm(r, "create_wrapped_on_eth", y)
    BY DEF CreateWrappedOnEth
  <2>4. Gives(r, "create_wrapped_on_eth", y)
    BY DEF CreateWrappedOnEth
  <2>5. ~r.info
    BY DEF CreateWrappedOnEth
  <2>6. Joins(r, "create_wrapped_on_eth", y)
    BY <2>5 DEF Joins
  <2> HIDE DEF r, Reads, Calm, Gives, Joins
  <2> QED
    BY <2>2, <2>3, <2>4, <2>6 DEF Fits
<1>23. Declared(RedeemOnEth(y), RedeemOnEth({}), "redeem_on_eth", y)
  BY DEF RedeemOnEth
<1>24. Declared(TransferFromEth(y), TransferFromEth({}), "transfer_from_eth", y)
  BY DEF TransferFromEth
<1> HIDE DEF Declared
<1> QED
  BY <1>1, <1>2, <1>3, <1>4, <1>5, <1>6, <1>7, <1>8, <1>9, <1>10, <1>11, <1>12, <1>13, <1>14,
     <1>15, <1>16, <1>17, <1>18, <1>19, <1>20, <1>21, <1>22, <1>23, <1>24
     DEF WormholeCommand, WormholeNames

\* The keys they send suffice.
LEMMA WormholeSigns ==
  ASSUME NEW y, NEW c \in WormholeNames
  PROVE  Signs(WormholeCommand(c, y), c, y)
<1> USE DEF Signs, SignedBy, Goes, Unsigned, Plain, Instr, Def, Submit, Ix, Instruction
<1>1. Signs(GetVaa(y), "get_vaa", y)
  BY DEF GetVaa
<1>2. Signs(ParseVaa(y), "parse_vaa", y)
  BY DEF ParseVaa, BadVaa, ShortVaa
<1>3. Signs(PostWormholeMessage(y), "post_message", y)
  BY DEF PostWormholeMessage, Bridge
<1>4. Signs(PostVaa(y), "post_vaa", y)
  <2> DEFINE r == PostVaa(y)
  <2> SUFFICES ASSUME SubmitFalse \notin y, Goes(r, y)
               PROVE  r.payer \in r.keys /\ SignedBy(r.ixs, r.keys)
    BY DEF Signs
  <2>1. r.payer \in r.keys
    BY DEF PostVaa, BadVaa
  <2> HIDE DEF Goes, SignedBy, Submit, Ix, Instruction
  <2>2. SignedBy(r.ixs, r.keys)
    BY OneSigned, TwoSigned, ThreeSigned, InstructionSigned, SubmitGiven DEF PostVaa, BadVaa
  <2> QED
    BY <2>1, <2>2
<1>5. Signs(VerifySignatures(y), "verify_signatures", y)
  <2> DEFINE r == VerifySignatures(y)
  <2> SUFFICES ASSUME SubmitFalse \notin y, Goes(r, y)
               PROVE  r.payer \in r.keys /\ SignedBy(r.ixs, r.keys)
    BY DEF Signs
  <2>1. r.payer \in r.keys
    BY DEF VerifySignatures, NoGuardian
  <2> HIDE DEF Goes, SignedBy, Submit, Ix, Instruction
  <2>2. SignedBy(r.ixs, r.keys)
    BY OneSigned, TwoSigned, ThreeSigned, InstructionSigned, SubmitGiven
       DEF VerifySignatures, NoGuardian
  <2> QED
    BY <2>1, <2>2
<1>6. Signs(NftCompleteNative(y), "nft_complete_native", y)
  <2> DEFINE r == NftCompleteNative(y)
  <2> SUFFICES ASSUME SubmitFalse \notin y, Goes(r, y)
               PROVE  r.payer \in r.keys /\ SignedBy(r.ixs, r.keys)
    BY DEF Signs
  <2>1. r.payer \in r.keys
    BY DEF NftCompleteNative, BadVaa
  <2> HIDE DEF Goes, SignedBy, Submit, Ix, Instruction
  <2>2. SignedBy(r.ixs, r.keys)
    BY OneSigned, TwoSigned, ThreeSigned, InstructionSigned, SubmitGiven
       DEF NftCompleteNative, BadVaa
  <2> QED
    BY <2>1, <2>2
<1>7. Signs(NftCompleteWrapped(y), "nft_complete_wrapped", y)
  <2> DEFINE r == NftCompleteWrapped(y)
  <2> SUFFICES ASSUME SubmitFalse \notin y, Goes(r, y)
               PROVE  r.payer \in r.keys /\ SignedBy(r.ixs, r.keys)
    BY DEF Signs
  <2>1. r.payer \in r.keys
    BY DEF NftCompleteWrapped, BadVaa
  <2> HIDE DEF Goes, SignedBy, Submit, Ix, Instruction
  <2>2. SignedBy(r.ixs, r.keys)
    BY OneSigned, TwoSigned, ThreeSigned, InstructionSigned, SubmitGiven
       DEF NftCompleteWrapped, BadVaa
  <2> QED
    BY <2>1, <2>2
<1>8. Signs(NftCompleteWrappedMeta(y), "nft_complete_wrapped_meta", y)
  <2> DEFINE r == NftCompleteWrappedMeta(y)
  <2> SUFFICES ASSUME SubmitFalse \notin y, Goes(r, y)
               PROVE  r.payer \in r.keys /\ SignedBy(r.ixs, r.keys)
    BY DEF Signs
  <2>1. r.payer \in r.keys
    BY DEF NftCompleteWrappedMeta, BadVaa
  <2> HIDE DEF Goes, SignedBy, Submit, Ix, Instruction
  <2>2. SignedBy(r.ixs, r.keys)
    BY OneSigned, TwoSigned, ThreeSigned, InstructionSigned, SubmitGiven
       DEF NftCompleteWrappedMeta, BadVaa
  <2> QED
    BY <2>1, <2>2
<1>9. Signs(NftTransferNative(y), "nft_transfer_native", y)
  <2> DEFINE r == NftTransferNative(y)
  <2> SUFFICES ASSUME SubmitFalse \notin y, Goes(r, y)
               PROVE  r.payer \in r.keys /\ SignedBy(r.ixs, r.keys)
    BY DEF Signs
  <2>1. r.payer \in r.keys
    BY DEF NftTransferNative, No0x, NotHex
  <2> HIDE DEF Goes, SignedBy, Submit, Ix, Instruction
  <2>2. SignedBy(r.ixs, r.keys)
    BY OneSigned, TwoSigned, ThreeSigned, InstructionSigned, SubmitGiven
       DEF NftTransferNative, No0x, NotHex
  <2> QED
    BY <2>1, <2>2
<1>10. Signs(NftTransferWrapped(y), "nft_transfer_wrapped", y)
  <2> DEFINE r == NftTransferWrapped(y)
  <2> SUFFICES ASSUME SubmitFalse \notin y, Goes(r, y)
               PROVE  r.payer \in r.keys /\ SignedBy(r.ixs, r.keys)
    BY DEF Signs
  <2>1. r.payer \in r.keys
    BY DEF NftTransferWrapped, No0x, NotHex
  <2> HIDE DEF Goes, SignedBy, Submit, Ix, Instruction
  <2>2. SignedBy(r.ixs, r.keys)
    BY OneSigned, TwoSigned, ThreeSigned, InstructionSigned, SubmitGiven
       DEF NftTransferWrapped, No0x, NotHex
  <2> QED
    BY <2>1, <2>2
<1>11. Signs(AttestToken(y), "attest_token", y)
  BY DEF AttestToken, Bridge
<1>12. Signs(CompleteNative(y), "complete_native", y)
  <2> DEFINE r == CompleteNative(y)
  <2> SUFFICES ASSUME SubmitFalse \notin y, Goes(r, y)
               PROVE  r.payer \in r.keys /\ SignedBy(r.ixs, r.keys)
    BY DEF Signs
  <2>1. r.payer \in r.keys
    BY DEF CompleteNative, BadVaa
  <2> HIDE DEF Goes, SignedBy, Submit, Ix, Instruction
  <2>2. SignedBy(r.ixs, r.keys)
    BY OneSigned, TwoSigned, ThreeSigned, InstructionSigned, SubmitGiven DEF CompleteNative, BadVaa
  <2> QED
    BY <2>1, <2>2
<1>13. Signs(CompleteTransferWrapped(y), "complete_transfer_wrapped", y)
  <2> DEFINE r == CompleteTransferWrapped(y)
  <2> SUFFICES ASSUME SubmitFalse \notin y, Goes(r, y)
               PROVE  r.payer \in r.keys /\ SignedBy(r.ixs, r.keys)
    BY DEF Signs
  <2>1. r.payer \in r.keys
    BY DEF CompleteTransferWrapped, BadVaa, CreateFirst
  <2> HIDE DEF Goes, SignedBy, Submit, Ix, Instruction
  <2> DEFINE found == {"the token account of the payer exists"}
             create == Ix("create_associated_token_account", {"payer"})
  <2>3. PICK d : r.ixs = CreateFirst(y, found, create, <<Bridge({"payer"}, d)>>)
    BY SubmitGiven DEF CompleteTransferWrapped
  <2>4. r.keys = {"payer"}
    BY DEF CompleteTransferWrapped
  <2> DEFINE complete == Bridge({"payer"}, d)
  <2>5. create.signed \subseteq {"payer"} /\ SignedBy(<<complete>>, {"payer"})
    BY InstructionSigned, OneSigned
  <2> HIDE DEF create, complete, found
  <2>6. <<complete>> \in Seq({create, complete})
    OBVIOUS
  <2>7. SignedBy(CreateFirst(y, found, create, <<complete>>), {"payer"})
    BY <2>5, <2>6, FirstSigned
  <2>8. r.ixs = CreateFirst(y, found, create, <<complete>>)
    BY <2>3 DEF complete
  <2>2. SignedBy(r.ixs, r.keys)
    BY <2>4, <2>7, <2>8
  <2> QED
    BY <2>1, <2>2
<1>14. Signs(CreateWrapped(y), "create_wrapped", y)
  <2> DEFINE r == CreateWrapped(y)
  <2> SUFFICES ASSUME SubmitFalse \notin y, Goes(r, y)
               PROVE  r.payer \in r.keys /\ SignedBy(r.ixs, r.keys)
    BY DEF Signs
  <2>1. r.payer \in r.keys
    BY DEF CreateWrapped, BadVaa
  <2> HIDE DEF Goes, SignedBy, Submit, Ix, Instruction
  <2>2. SignedBy(r.ixs, r.keys)
    BY OneSigned, TwoSigned, ThreeSigned, InstructionSigned, SubmitGiven DEF CreateWrapped, BadVaa
  <2> QED
    BY <2>1, <2>2
<1>15. Signs(InitializeTokenBridge(y), "initialize_token_bridge", y)
  BY DEF InitializeTokenBridge
<1>16. Signs(TransferNative(y), "transfer_native", y)
  <2> DEFINE r == TransferNative(y)
  <2> SUFFICES ASSUME SubmitFalse \notin y, Goes(r, y)
               PROVE  r.payer \in r.keys /\ SignedBy(r.ixs, r.keys)
    BY DEF Signs
  <2>1. r.payer \in r.keys
    BY DEF TransferNative, No0x, NotHex
  <2> HIDE DEF Goes, SignedBy, Submit, Ix, Instruction
  <2>2. SignedBy(r.ixs, r.keys)
    BY OneSigned, TwoSigned, ThreeSigned, InstructionSigned, SubmitGiven
       DEF TransferNative, No0x, NotHex
  <2> QED
    BY <2>1, <2>2
<1>17. Signs(TransferWrapped(y), "transfer_wrapped", y)
  <2> DEFINE r == TransferWrapped(y)
  <2> SUFFICES ASSUME SubmitFalse \notin y, Goes(r, y)
               PROVE  r.payer \in r.keys /\ SignedBy(r.ixs, r.keys)
    BY DEF Signs
  <2>1. r.payer \in r.keys
    BY DEF TransferWrapped, No0x, NotHex
  <2> HIDE DEF Goes, SignedBy, Submit, Ix, Instruction
  <2>2. SignedBy(r.ixs, r.keys)
    BY OneSigned, TwoSigned, ThreeSigned, InstructionSigned, SubmitGiven
       DEF TransferWrapped, No0x, NotHex
  <2> QED
    BY <2>1, <2>2
<1>18. Signs(GetForeignAssetEth(y), "get_foreign_asset_eth", y)
  BY DEF GetForeignAssetEth
<1>19. Signs(RedeemNftOnEth(y), "redeem_nft_on_eth", y)
  BY DEF RedeemNftOnEth
<1>20. Signs(TransferNftFromEth(y), "transfer_nft_from_eth", y)
  BY DEF TransferNftFromEth
<1>21. Signs(AttestFromEth(y), "attest_from_eth", y)
  BY DEF AttestFromEth
<1>22. Signs(CreateWrappedOnEth(y), "create_wrapped_on_eth", y)
  BY DEF CreateWrappedOnEth
<1>23. Signs(RedeemOnEth(y), "redeem_on_eth", y)
  BY DEF RedeemOnEth
<1>24. Signs(TransferFromEth(y), "transfer_from_eth", y)
  BY DEF TransferFromEth
<1> HIDE DEF Signs
<1> QED
  BY <1>1, <1>2, <1>3, <1>4, <1>5, <1>6, <1>7, <1>8, <1>9, <1>10, <1>11, <1>12, <1>13, <1>14,
     <1>15, <1>16, <1>17, <1>18, <1>19, <1>20, <1>21, <1>22, <1>23, <1>24
     DEF WormholeCommand, WormholeNames

-----------------------------------------------------------------------------
(* The standard commands *)

\* The standard commands are as their definitions say.
LEMMA StdDeclared ==
  ASSUME NEW y, NEW c \in StdNames
  PROVE  Declared(StdCommand(c, y), StdCommand(c, {}), c, y)
<1> USE DEF Declared, Fits, Fixed, Known, Goes, Reads, Calm, Gives, Joins,
            Misdeclared, Panicking, Incomplete, Late, Plain, Instr, Def
<1>1. Declared(Const(y), Const({}), "const", y)
  BY DEF Const
<1>2. Declared(PrintNode(y), PrintNode({}), "print", y)
  BY DEF PrintNode
<1>3. Declared(Note(y), Note({}), "note", y)
  BY DEF Note
<1>4. Declared(Wait(y), Wait({}), "wait", y)
  BY DEF Wait
<1>5. Declared(FlowRunInfo(y), FlowRunInfo({}), "flow_run_info", y)
  BY DEF FlowRunInfo
<1>6. Declared(JsonExtract(y), JsonExtract({}), "json_extract", y)
  BY DEF JsonExtract
<1>7. Declared(JsonInsert(y), JsonInsert({}), "json_insert", y)
  BY DEF JsonInsert
<1>8. Declared(JsonGetField(y), JsonGetField({}), "json_get_field", y)
  <2> DEFINE r == JsonGetField(y)
  <2>1. Fixed(r, JsonGetField({}))
    BY DEF JsonGetField
  <2> SUFFICES ASSUME Known(r, y) PROVE Fits(r, "json_get_field", y)
    BY <2>1 DEF Declared
  <2>2. Reads(r, "json_get_field")
    BY DEF JsonGetField
  <2>3. Calm(r, "json_get_field", y)
    BY DEF JsonGetField
  <2>4. Gives(r, "json_get_field", y)
    BY DEF JsonGetField
  <2>5. ~r.info
    BY DEF JsonGetField
  <2>6. Joins(r, "json_get_field", y)
    BY <2>5 DEF Joins
  <2> HIDE DEF r, Reads, Calm, Gives, Joins
  <2> QED
    BY <2>2, <2>3, <2>4, <2>6 DEF Fits
<1>9. Declared(ToStringNode(y), ToStringNode({}), "to_string", y)
  BY DEF ToStringNode
<1>10. Declared(ToVec(y), ToVec({}), "to_vec", y)
  BY DEF ToVec
<1>11. Declared(ToBytes(y), ToBytes({}), "to_bytes", y)
  BY DEF ToBytes
<1>12. Declared(RangeNode(y), RangeNode({}), "range", y)
  <2> DEFINE r == RangeNode(y)
  <2>1. Fixed(r, RangeNode({}))
    BY DEF RangeNode, BadLength, StepIsZero
  <2> SUFFICES ASSUME Known(r, y) PROVE Fits(r, "range", y)
    BY <2>1 DEF Declared
  <2>2. Reads(r, "range")
    BY DEF RangeNode, BadLength, StepIsZero
  <2>3. Calm(r, "range", y)
    BY DEF RangeNode, BadLength, StepIsZero
  <2>4. Gives(r, "range", y)
    BY DEF RangeNode, BadLength, StepIsZero
  <2>5. ~r.info
    BY DEF RangeNode, BadLength, StepIsZero
  <2>6. Joins(r, "range", y)
    BY <2>5 DEF Joins
  <2> HIDE DEF r, Reads, Calm, Gives, Joins
  <2> QED
    BY <2>2, <2>3, <2>4, <2>6 DEF Fits
<1>13. Declared(KvCreateStore(y), KvCreateStore({}), "kv_create_store", y)
  BY DEF KvCreateStore
<1>14. Declared(KvDeleteStore(y), KvDeleteStore({}), "kv_delete_store", y)
  BY DEF KvDeleteStore
<1>15. Declared(KvWriteItem(y), KvWriteItem({}), "kv_write_item", y)
  <2> DEFINE r == KvWriteItem(y)
  <2>1. Fixed(r, KvWriteItem({}))
    BY DEF KvWriteItem
  <2> SUFFICES ASSUME Known(r, y) PROVE Fits(r, "kv_write_item", y)
    BY <2>1 DEF Declared
  <2>2. Reads(r, "kv_write_item")
    BY DEF KvWriteItem
  <2>3. Calm(r, "kv_write_item", y)
    BY DEF KvWriteItem
  <2>4. Gives(r, "kv_write_item", y)
    BY DEF KvWriteItem
  <2>5. ~r.info
    BY DEF KvWriteItem
  <2>6. Joins(r, "kv_write_item", y)
    BY <2>5 DEF Joins
  <2> HIDE DEF r, Reads, Calm, Gives, Joins
  <2> QED
    BY <2>2, <2>3, <2>4, <2>6 DEF Fits
<1>16. Declared(KvReadItem(y), KvReadItem({}), "kv_read_item", y)
  <2> DEFINE r == KvReadItem(y)
  <2>1. Fixed(r, KvReadItem({}))
    BY DEF KvReadItem
  <2> SUFFICES ASSUME Known(r, y) PROVE Fits(r, "kv_read_item", y)
    BY <2>1 DEF Declared
  <2>2. Reads(r, "kv_read_item")
    BY DEF KvReadItem
  <2>3. Calm(r, "kv_read_item", y)
    BY DEF KvReadItem
  <2>4. Gives(r, "kv_read_item", y)
    BY DEF KvReadItem
  <2>5. ~r.info
    BY DEF KvReadItem
  <2>6. Joins(r, "kv_read_item", y)
    BY <2>5 DEF Joins
  <2> HIDE DEF r, Reads, Calm, Gives, Joins
  <2> QED
    BY <2>2, <2>3, <2>4, <2>6 DEF Fits
<1>17. Declared(KvExplorer(y), KvExplorer({}), "kvexplorer", y)
  BY DEF KvExplorer
<1>18. Declared(StorageDownload(y), StorageDownload({}), "storage_download", y)
  BY DEF StorageDownload, FileSpec
<1>19. Declared(StorageDelete(y), StorageDelete({}), "storage_delete", y)
  BY DEF StorageDelete, FileSpec
<1>20. Declared(StorageGetFileMetadata(y), StorageGetFileMetadata({}), "storage_get_file_metadata", y)
  BY DEF StorageGetFileMetadata, FileSpec
<1>21. Declared(StorageGetPublicUrl(y), StorageGetPublicUrl({}), "storage_get_public_url", y)
  BY DEF StorageGetPublicUrl, FileSpec
<1>22. Declared(StorageCreateSignedUrl(y), StorageCreateSignedUrl({}), "storage_create_signed_url", y)
  BY DEF StorageCreateSignedUrl, FileSpec
<1>23. Declared(StorageList(y), StorageList({}), "storage_list", y)
  BY DEF StorageList
<1>24. Declared(StorageUpload(y), StorageUpload({}), "storage_upload", y)
  BY DEF StorageUpload
<1>25. Declared(FileExplorer(y), FileExplorer({}), "fileexplorer", y)
  BY DEF FileExplorer
<1>26. Declared(Supabase(y), Supabase({}), "supabase", y)
  BY DEF Supabase
<1>27. Declared(BuilderEq(y), BuilderEq({}), "postgrest_builder_eq", y)
  BY DEF BuilderEq
<1>28. Declared(BuilderNeq(y), BuilderNeq({}), "postgrest_builder_neq", y)
  BY DEF BuilderNeq
<1>29. Declared(BuilderIs(y), BuilderIs({}), "postgrest_builder_is", y)
  BY DEF BuilderIs
<1>30. Declared(BuilderNot(y), BuilderNot({}), "postgrest_builder_not", y)
  BY DEF BuilderNot
<1>31. Declared(BuilderInsert(y), BuilderInsert({}), "postgrest_builder_insert", y)
  BY DEF BuilderInsert
<1>32. Declared(BuilderUpdate(y), BuilderUpdate({}), "postgrest_builder_update", y)
  BY DEF BuilderUpdate
<1>33. Declared(BuilderUpsert(y), BuilderUpsert({}), "postgrest_builder_upsert", y)
  BY DEF BuilderUpsert
<1>34. Declared(BuilderMatch(y), BuilderMatch({}), "postgrest_builder_match", y)
  <2> DEFINE r == BuilderMatch(y)
  <2>1. Fixed(r, BuilderMatch({}))
    BY DEF BuilderMatch
  <2> SUFFICES ASSUME Known(r, y) PROVE Fits(r, "postgrest_builder_match", y)
    BY <2>1 DEF Declared
  <2>2. Reads(r, "postgrest_builder_match")
    BY DEF BuilderMatch
  <2>3. Calm(r, "postgrest_builder_match", y)
    BY DEF BuilderMatch
  <2>4. Gives(r, "postgrest_builder_match", y)
    BY DEF BuilderMatch
  <2>5. ~r.info
    BY DEF BuilderMatch
  <2>6. Joins(r, "postgrest_builder_match", y)
    BY <2>5 DEF Joins
  <2> HIDE DEF r, Reads, Calm, Gives, Joins
  <2> QED
    BY <2>2, <2>3, <2>4, <2>6 DEF Fits
<1>35. Declared(BuilderLimit(y), BuilderLimit({}), "postgrest_builder_limit", y)
  BY DEF BuilderLimit
<1>36. Declared(BuilderSelect(y), BuilderSelect({}), "postgrest_builder_select", y)
  BY DEF BuilderSelect
<1>37. Declared(BuilderOrder(y), BuilderOrder({}), "postgrest_builder_order", y)
  BY DEF BuilderOrder
<1>38. Declared(NewQuery(y), NewQuery({}), "postgrest_new_query", y)
  BY DEF NewQuery
<1>39. Declared(NewRpc(y), NewRpc({}), "postgrest_new_rpc", y)
  BY DEF NewRpc
<1>40. Declared(ExecuteQuery(y), ExecuteQuery({}), "postgrest_execute_query", y)
  BY DEF ExecuteQuery
<1>41. Declared(HttpRequest(y), HttpRequest({}), "http_request", y)
  <2> DEFINE r == HttpRequest(y)
  <2>1. Fixed(r, HttpRequest({}))
    BY DEF HttpRequest, NoHost, NotGlobal
  <2> SUFFICES ASSUME Known(r, y) PROVE Fits(r, "http_request", y)
    BY <2>1 DEF Declared
  <2>2. Reads(r, "http_request")
    BY DEF HttpRequest, NoHost, NotGlobal
  <2>3. Calm(r, "http_request", y)
    BY DEF HttpRequest, NoHost, NotGlobal
  <2>4. Gives(r, "http_request", y)
    BY DEF HttpRequest, NoHost, NotGlobal
  <2>5. ~r.info
    BY DEF HttpRequest, NoHost, NotGlobal
  <2>6. Joins(r, "http_request", y)
    BY <2>5 DEF Joins
  <2> HIDE DEF r, Reads, Calm, Gives, Joins
  <2> QED
    BY <2>2, <2>3, <2>4, <2>6 DEF Fits
<1>42. Declared(GenMetaplexAttrs(y), GenMetaplexAttrs({}), "gen_metaplex_attrs", y)
  BY DEF GenMetaplexAttrs
<1>43. Declared(GenPdgAttrs(y), GenPdgAttrs({}), "gen_pdg_attrs", y)
  BY DEF GenPdgAttrs
<1>44. Declared(GenerateBase(y), GenerateBase({}), "generate_base", y)
  BY DEF GenerateBase
<1>45. Declared(GetEffectList(y), GetEffectList({}), "get_effect_list", y)
  BY DEF GetEffectList
<1>46. Declared(ParsePdgAttrs(y), ParsePdgAttrs({}), "parse_pdg_attrs", y)
  BY DEF ParsePdgAttrs
<1>47. Declared(PdgRenderNode(y), PdgRenderNode({}), "pdg_render", y)
  BY DEF PdgRenderNode
<1>48. Declared(PushEffectList(y), PushEffectList({}), "push_effect_list", y)
  BY DEF PushEffectList
<1>49. Declared(UpdateRenderParams(y), UpdateRenderParams({}), "update_render_params", y)
  BY DEF UpdateRenderParams
<1> HIDE DEF Declared
<1> QED
  BY <1>1, <1>2, <1>3, <1>4, <1>5, <1>6, <1>7, <1>8, <1>9, <1>10, <1>11, <1>12, <1>13, <1>14,
     <1>15, <1>16, <1>17, <1>18, <1>19, <1>20, <1>21, <1>22, <1>23, <1>24, <1>25, <1>26, <1>27,
     <1>28, <1>29, <1>30, <1>31, <1>32, <1>33, <1>34, <1>35, <1>36, <1>37, <1>38, <1>39, <1>40,
     <1>41, <1>42, <1>43, <1>44, <1>45, <1>46, <1>47, <1>48, <1>49
     DEF StdCommand, StdNames

\* They have no instructions.
LEMMA StdSigns ==
  ASSUME NEW y, NEW c \in StdNames
  PROVE  Signs(StdCommand(c, y), c, y)
<1> USE DEF Signs, SignedBy, Goes, Unsigned, Plain, Instr, Def, Submit, Ix, Instruction
<1>1. Signs(Const(y), "const", y)
  BY DEF Const
<1>2. Signs(PrintNode(y), "print", y)
  BY DEF PrintNode
<1>3. Signs(Note(y), "note", y)
  BY DEF Note
<1>4. Signs(Wait(y), "wait", y)
  BY DEF Wait
<1>5. Signs(FlowRunInfo(y), "flow_run_info", y)
  BY DEF FlowRunInfo
<1>6. Signs(JsonExtract(y), "json_extract", y)
  BY DEF JsonExtract
<1>7. Signs(JsonInsert(y), "json_insert", y)
  BY DEF JsonInsert
<1>8. Signs(JsonGetField(y), "json_get_field", y)
  BY DEF JsonGetField
<1>9. Signs(ToStringNode(y), "to_string", y)
  BY DEF ToStringNode
<1>10. Signs(ToVec(y), "to_vec", y)
  BY DEF ToVec
<1>11. Signs(ToBytes(y), "to_bytes", y)
  BY DEF ToBytes
<1>12. Signs(RangeNode(y), "range", y)
  BY DEF RangeNode, BadLength, StepIsZero
<1>13. Signs(KvCreateStore(y), "kv_create_store", y)
  BY DEF KvCreateStore
<1>14. Signs(KvDeleteStore(y), "kv_delete_store", y)
  BY DEF KvDeleteStore
<1>15. Signs(KvWriteItem(y), "kv_write_item", y)
  BY DEF KvWriteItem
<1>16. Signs(KvReadItem(y), "kv_read_item", y)
  <2>1. ~KvReadItem(y).info
    BY DEF KvReadItem
  <2> QED
    BY <2>1 DEF Signs
<1>17. Signs(KvExplorer(y), "kvexplorer", y)
  BY DEF KvExplorer
<1>18. Signs(StorageDownload(y), "storage_download", y)
  BY DEF StorageDownload, FileSpec
<1>19. Signs(StorageDelete(y), "storage_delete", y)
  BY DEF StorageDelete, FileSpec
<1>20. Signs(StorageGetFileMetadata(y), "storage_get_file_metadata", y)
  BY DEF StorageGetFileMetadata, FileSpec
<1>21. Signs(StorageGetPublicUrl(y), "storage_get_public_url", y)
  BY DEF StorageGetPublicUrl, FileSpec
<1>22. Signs(StorageCreateSignedUrl(y), "storage_create_signed_url", y)
  BY DEF StorageCreateSignedUrl, FileSpec
<1>23. Signs(StorageList(y), "storage_list", y)
  BY DEF StorageList
<1>24. Signs(StorageUpload(y), "storage_upload", y)
  BY DEF StorageUpload
<1>25. Signs(FileExplorer(y), "fileexplorer", y)
  BY DEF FileExplorer
<1>26. Signs(Supabase(y), "supabase", y)
  BY DEF Supabase
<1>27. Signs(BuilderEq(y), "postgrest_builder_eq", y)
  BY DEF BuilderEq
<1>28. Signs(BuilderNeq(y), "postgrest_builder_neq", y)
  BY DEF BuilderNeq
<1>29. Signs(BuilderIs(y), "postgrest_builder_is", y)
  BY DEF BuilderIs
<1>30. Signs(BuilderNot(y), "postgrest_builder_not", y)
  BY DEF BuilderNot
<1>31. Signs(BuilderInsert(y), "postgrest_builder_insert", y)
  BY DEF BuilderInsert
<1>32. Signs(BuilderUpdate(y), "postgrest_builder_update", y)
  BY DEF BuilderUpdate
<1>33. Signs(BuilderUpsert(y), "postgrest_builder_upsert", y)
  BY DEF BuilderUpsert
<1>34. Signs(BuilderMatch(y), "postgrest_builder_match", y)
  BY DEF BuilderMatch
<1>35. Signs(BuilderLimit(y), "postgrest_builder_limit", y)
  BY DEF BuilderLimit
<1>36. Signs(BuilderSelect(y), "postgrest_builder_select", y)
  BY DEF BuilderSelect
<1>37. Signs(BuilderOrder(y), "postgrest_builder_order", y)
  BY DEF BuilderOrder
<1>38. Signs(NewQuery(y), "postgrest_new_query", y)
  BY DEF NewQuery
<1>39. Signs(NewRpc(y), "postgrest_new_rpc", y)
  BY DEF NewRpc
<1>40. Signs(ExecuteQuery(y), "postgrest_execute_query", y)
  BY DEF ExecuteQuery
<1>41. Signs(HttpRequest(y), "http_request", y)
  BY DEF HttpRequest, NoHost, NotGlobal
<1>42. Signs(GenMetaplexAttrs(y), "gen_metaplex_attrs", y)
  BY DEF GenMetaplexAttrs
<1>43. Signs(GenPdgAttrs(y), "gen_pdg_attrs", y)
  BY DEF GenPdgAttrs
<1>44. Signs(GenerateBase(y), "generate_base", y)
  BY DEF GenerateBase
<1>45. Signs(GetEffectList(y), "get_effect_list", y)
  BY DEF GetEffectList
<1>46. Signs(ParsePdgAttrs(y), "parse_pdg_attrs", y)
  BY DEF ParsePdgAttrs
<1>47. Signs(PdgRenderNode(y), "pdg_render", y)
  BY DEF PdgRenderNode
<1>48. Signs(PushEffectList(y), "push_effect_list", y)
  BY DEF PushEffectList
<1>49. Signs(UpdateRenderParams(y), "update_render_params", y)
  BY DEF UpdateRenderParams
<1> HIDE DEF Signs
<1> QED
  BY <1>1, <1>2, <1>3, <1>4, <1>5, <1>6, <1>7, <1>8, <1>9, <1>10, <1>11, <1>12, <1>13, <1>14,
     <1>15, <1>16, <1>17, <1>18, <1>19, <1>20, <1>21, <1>22, <1>23, <1>24, <1>25, <1>26, <1>27,
     <1>28, <1>29, <1>30, <1>31, <1>32, <1>33, <1>34, <1>35, <1>36, <1>37, <1>38, <1>39, <1>40,
     <1>41, <1>42, <1>43, <1>44, <1>45, <1>46, <1>47, <1>48, <1>49
     DEF StdCommand, StdNames

-----------------------------------------------------------------------------
(* The catalogues *)

\* Whatever a command is given, it is as its definition says: the catalogues together.
LEMMA CommandDeclared ==
  ASSUME NEW c \in AllCommands, NEW y
  PROVE  Declared(Command(c, y), Command(c, {}), c, y)
  BY GovernanceDeclared, TokenDeclared, AccountDeclared, NftDeclared, WormholeDeclared,
     StdDeclared DEF Command, AllCommands

\* The same for the keys.
LEMMA CommandSigns ==
  ASSUME NEW c \in AllCommands, NEW y
  PROVE  Signs(Command(c, y), c, y)
  BY GovernanceSigns, TokenSigns, AccountSigns, NftSigns, WormholeSigns, StdSigns
     DEF Command, AllCommands

-----------------------------------------------------------------------------
(* The invariant *)

\* What holds of the command of a node that has its inputs.
LEMMA ThisFacts ==
  ASSUME InputsInv, pc # "idle"
  PROVE  /\ Reads(This, node) /\ Calm(This, node, x) /\ Gives(This, node, x)
         /\ Joins(This, node, x) /\ Signs(This, node, x)
         /\ This.def.required \subseteq x
<1>1. node \in AllCommands /\ Known(Command(node, {}), x)
  BY CommandsExist DEF InputsInv
<1>2. Declared(This, Command(node, {}), node, x) /\ Signs(This, node, x)
  BY <1>1, CommandDeclared, CommandSigns DEF This
<1>3. Known(This, x)
  BY <1>1, <1>2 DEF Declared, Fixed, Known
<1> QED
  BY <1>2, <1>3 DEF Declared, Fits, Known

\* Inputs that arrive are known.
LEMMA ChoicesKnown ==
  ASSUME NEW c, NEW chosen \in Choices(c)
  PROVE  Known(Command(c, {}), DefOf(c).required \cup chosen)
<1> DEFINE free == DefOf(c).optional \cup Command(c, {}).facts
<1>1. chosen \subseteq free \cup {SubmitFalse}
  BY DEF Choices
<1> QED
  BY <1>1 DEF Known, DefOf

\* Initially no node has inputs.
LEMMA InitInv == Init => Inv
  BY DEF Init, Inv, InputsInv, ProgressInv, SavedInv, RunsAsDeclared, InputsSuffice,
     OutputsComplete, NoPanic, TokensAllowed

\* The node keeps its command and its inputs.
LEMMA SameNode ==
  ASSUME UNCHANGED <<node, x>>
  PROVE  This' = This /\ (SubmitIsFalse' <=> SubmitIsFalse) /\ FirstOutputs' = FirstOutputs
  BY DEF This, SubmitIsFalse, FirstOutputs, Before

\* How a step of the node that does not end it keeps the invariant.
LEMMA StepInv ==
  ASSUME Inv, UNCHANGED <<node, x, result>>, pc # "idle", ProgressInv', SavedInv'
  PROVE  Inv'
  BY DEF Inv, InputsInv, RunsAsDeclared, InputsSuffice, OutputsComplete, NoPanic, TokensAllowed

\* How the end of a node keeps it.
LEMMA EndInv ==
  ASSUME Inv, UNCHANGED <<node, x>>, pc # "idle", pc' = "ended", RunsAsDeclared'
  PROVE  Inv'
  BY DEF Inv, InputsInv, ProgressInv, SavedInv

\* Every step keeps the invariant: a node ends badly only if its command is listed.
LEMMA NextInv == Inv /\ [Next]_vars => Inv'
<1> SUFFICES ASSUME Inv, [Next]_vars PROVE Inv'
  OBVIOUS
<1> USE DEF RunsAsDeclared, InputsSuffice, OutputsComplete, NoPanic, TokensAllowed
<1>1. ASSUME NEW c \in Commands, Arrive(c) PROVE Inv'
  <2>1. PICK chosen \in Choices(c) : x' = DefOf(c).required \cup chosen
    BY <1>1 DEF Arrive
  <2>2. InputsInv'
    BY <1>1, <2>1, ChoicesKnown DEF Arrive, InputsInv
  <2>3. ProgressInv' /\ SavedInv'
    BY <1>1 DEF Arrive, ProgressInv, SavedInv
  <2>4. result' = "none"
    BY <1>1 DEF Arrive, Inv, ProgressInv
  <2> QED
    BY <2>2, <2>3, <2>4 DEF Inv
<1>2. CASE Start
  <2>1. ProgressInv' /\ SavedInv'
    BY <1>2, SameNode DEF Start, ProgressInv, SavedInv
  <2> QED
    BY <1>2, <2>1, StepInv DEF Start
<1>3. CASE ReadInput
  <2>1. pc = "started" /\ UNCHANGED <<node, x>>
    BY <1>3 DEF ReadInput
  <2>2. ~SubmitIsFalse
    BY <2>1 DEF Inv, ProgressInv
  <2>3. CASE This.needs \subseteq x
    <3>1. pc' = "running" /\ UNCHANGED result
      BY <1>3, <2>3 DEF ReadInput
    <3>2. ProgressInv' /\ SavedInv'
      BY <2>1, <2>2, <2>3, <3>1, SameNode DEF ProgressInv, SavedInv
    <3> QED
      BY <2>1, <3>1, <3>2, StepInv
  <2>4. CASE ~(This.needs \subseteq x)
    <3>1. pc' = "ended" /\ result' = "bad input"
      BY <1>3, <2>4 DEF ReadInput, End
    <3>2. node \in Misdeclared
      BY <2>1, <2>4, ThisFacts DEF Inv, Reads
    <3> QED
      BY <2>1, <3>1, <3>2, EndInv
  <2> QED
    BY <2>3, <2>4
<1>4. CASE CommandFails
  <2>1. pc = "running" /\ UNCHANGED <<node, x>> /\ pc' = "ended"
    BY <1>4 DEF CommandFails, End
  <2>2. ~NotAllowed
    BY <2>1, ThisFacts DEF Inv, ProgressInv, Calm, NotAllowed
  <2>3. result' = "error"
    BY <1>4, <2>2 DEF CommandFails, End
  <2> QED
    BY <2>1, <2>3, EndInv
<1>5. CASE CommandPanics
  <2>1. pc = "running" /\ UNCHANGED <<node, x>> /\ pc' = "ended" /\ result' = "panic" /\ This.panics
    BY <1>5 DEF CommandPanics, End
  <2>2. node \in Panicking
    BY <2>1, ThisFacts DEF Inv, ProgressInv, Calm
  <2> QED
    BY <2>1, <2>2, EndInv
<1>6. CASE Execute
  <2>1. /\ pc = "running" /\ pc' = "waiting" /\ UNCHANGED <<node, x, bundling, result>>
        /\ This.info /\ ~This.panics /\ ~This.refuses
    BY <1>6 DEF Execute, Works
  <2>5. ~SubmitIsFalse /\ This.needs \subseteq x /\ This.info /\ ~This.panics /\ ~This.refuses
    BY <2>1 DEF Inv, ProgressInv
  <2>6. ~SubmitIsFalse' /\ (This.needs \subseteq x)' /\ This'.info /\ ~This'.panics /\ ~This'.refuses
    BY <2>1, <2>5, SameNode, Zenon
  <2>2. ProgressInv'
    BY <2>1, <2>6 DEF ProgressInv
  <2>3. bundling => FirstOutputs \subseteq saved'
    BY <1>6 DEF Execute
  <2>4. SavedInv'
    BY <2>1, <2>3, SameNode DEF SavedInv
  <2> QED
    BY <2>1, <2>2, <2>4, StepInv
<1>7. CASE Confirmed
  <2>1. pc = "waiting" /\ pc' = "confirmed" /\ UNCHANGED <<node, x, bundling, result>>
    BY <1>7 DEF Confirmed
  <2>5. ~SubmitIsFalse /\ This.needs \subseteq x /\ This.info /\ ~This.panics /\ ~This.refuses
    BY <2>1 DEF Inv, ProgressInv
  <2>6. ~SubmitIsFalse' /\ (This.needs \subseteq x)' /\ This'.info /\ ~This'.panics /\ ~This'.refuses
    BY <2>1, <2>5, SameNode, Zenon
  <2>2. ProgressInv'
    BY <2>1, <2>6 DEF ProgressInv
  <2>3. FirstOutputs \subseteq saved'
    BY <1>7, <2>1 DEF Confirmed, Inv, SavedInv
  <2>4. SavedInv'
    BY <2>1, <2>3, SameNode DEF SavedInv
  <2> QED
    BY <2>1, <2>2, <2>4, StepInv
<1>8. CASE ExecuteFails \/ FollowUpFails
  <2>1. pc # "idle" /\ UNCHANGED <<node, x>> /\ pc' = "ended" /\ result' = "error"
    BY <1>8 DEF ExecuteFails, FollowUpFails, End
  <2> QED
    BY <2>1, EndInv
<1>9. CASE Finish
  <2> DEFINE last == saved \cup This.final \cup (IF This.info THEN {} ELSE This.def.through \cap x)
             needed == This.def.outputs \ This.def.lacks
  <2>1. /\ pc \in {"running", "confirmed"} /\ UNCHANGED <<node, x>> /\ pc' = "ended"
        /\ result' = IF needed \subseteq last THEN "ok" ELSE "output not found"
    BY <1>9 DEF Finish, Works, End
  <2>2. Goes(This, x)
    BY <1>9, <2>1 DEF Finish, Works, Goes, Inv, ProgressInv
  <2>3. ASSUME node \notin Incomplete PROVE needed \subseteq last
    <3>1. needed \subseteq This.final \cup (This.def.through \cap x)
                             \cup (IF This.info THEN This.early ELSE {})
      BY <2>1, <2>2, <2>3, ThisFacts DEF Inv, Gives
    <3>2. CASE This.info
      <4>1. pc = "confirmed"
        BY <1>9, <3>2 DEF Finish, Works
      <4>2. This.early \cup (This.def.through \cap x) \subseteq saved
        BY <4>1 DEF Inv, SavedInv, FirstOutputs, Before
      <4> QED
        BY <3>1, <3>2, <4>2
    <3>3. CASE ~This.info
      BY <3>1, <3>3
    <3> QED
      BY <3>2, <3>3
  <2> HIDE DEF last, needed
  <2>4. result' \in {"ok", "output not found"} /\ (result' = "output not found" => node \in Incomplete)
    BY <2>1, <2>3
  <2> QED
    BY <2>1, <2>4, EndInv
<1>10. CASE NextNode
  BY <1>10 DEF NextNode, Inv, InputsInv, ProgressInv, SavedInv
<1>11. CASE UNCHANGED vars
  <2>1. UNCHANGED <<node, x>>
    BY <1>11 DEF vars
  <2>2. UNCHANGED pc
    BY <1>11 DEF vars
  <2>3. UNCHANGED saved
    BY <1>11 DEF vars
  <2>4. UNCHANGED result
    BY <1>11 DEF vars
  <2>5. UNCHANGED bundling
    BY <1>11 DEF vars
  <2> QED
    BY <2>1, <2>2, <2>3, <2>4, <2>5, SameNode, Zenon DEF Inv, InputsInv, ProgressInv, SavedInv
<1> QED
  BY <1>1, <1>2, <1>3, <1>4, <1>5, <1>6, <1>7, <1>8, <1>9, <1>10, <1>11 DEF Next

\* The invariant holds in every state.
THEOREM InvHolds == Spec => []Inv
  BY InitInv, NextInv, PTL DEF Spec

\* A node of a command that is not listed as deviating reads its inputs, gives its
\* outputs, may ask for the tokens it asks for and does not panic, whichever of its optional
\* inputs it has.
THEOREM RunsAsDeclaredHolds == Spec => []RunsAsDeclared
<1>1. Inv => RunsAsDeclared
  BY DEF Inv
<1> QED
  BY <1>1, InvHolds, PTL

\* What a command that waits for a bundle gives before its transaction is there for the
\* nodes that may have to join it.
THEOREM DependentsCanJoinHolds == Spec => []DependentsCanJoin
<1>1. Inv => DependentsCanJoin
  <2> SUFFICES ASSUME Inv, pc = "waiting", bundling, node \notin Incomplete \cup Late
               PROVE  Before \cap (x \cup (This.def.outputs \ This.def.lacks)) \subseteq saved
    BY DEF DependentsCanJoin
  <2>1. This.info /\ FirstOutputs \subseteq saved
    BY DEF Inv, ProgressInv, SavedInv
  <2>2. Before \cap (x \cup (This.def.outputs \ This.def.lacks))
          \subseteq This.early \cup (This.def.through \cap x)
    BY <2>1, ThisFacts DEF Inv, Joins, Before
  <2>3. This.early \cup (This.def.through \cap x) \subseteq FirstOutputs
    BY DEF FirstOutputs, Before
  <2> QED
    BY <2>1, <2>2, <2>3
<1> QED
  BY <1>1, InvHolds, PTL

\* The keys that go with the instructions of a command suffice to sign them, whichever
\* optional accounts they have.
THEOREM KeysSufficeHolds == Spec => []KeysSuffice
<1>1. Inv => KeysSuffice
  <2> SUFFICES ASSUME Inv, pc = "waiting", node \notin Unsigned
               PROVE  {This.payer} \cup UNION {This.ixs[i].signed : i \in 1..Len(This.ixs)} \subseteq This.keys
    BY DEF KeysSuffice
  <2>1. This.info /\ Goes(This, x) /\ SubmitFalse \notin x
    BY DEF Inv, ProgressInv, Goes, SubmitIsFalse
  <2>2. This.payer \in This.keys /\ SignedBy(This.ixs, This.keys)
    BY <2>1, ThisFacts DEF Inv, Signs
  <2> QED
    BY <2>2 DEF SignedBy
<1> QED
  BY <1>1, InvHolds, PTL
=============================================================================
