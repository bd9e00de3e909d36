----------------------------- MODULE CommandRun -----------------------------
(***************************************************************************)
(* One node of a flow runs its command: FlowGraph starts it when its       *)
(* inputs are there, CmdBuilder deserializes them, the command builds its  *)
(* instructions and hands them to Context::execute together with its first *)
(* outputs, and returns its last ones when the transaction was confirmed.  *)
(* With bundling the first outputs are saved while the command waits, so   *)
(* that dependent nodes can add instructions to the same transaction.      *)
(*                                                                         *)
(* The commands are those of the catalogues; the machine is the part of    *)
(* FlowGraph, CmdBuilder and Context that they all share.                  *)
(***************************************************************************)
EXTENDS CommandDefs, GovernanceCommands, GovernanceProgram, TokenCommands, AccountCommands,
        NftCommands, WormholeCommands, StdCommands, Functions, TLC

CONSTANTS
  Commands,      \* The commands that are run.
  MaxChoices     \* Bound: how many optional inputs and facts hold, or do not.

VARIABLES
  node,      \* The command of the node, or "none".
  x,         \* The inputs it was given, and the facts it finds.
  bundling,  \* Instructions wait for those of other nodes.
  pc,        \* How far the run of the command is.
  saved,     \* The outputs that were saved so far.
  result     \* How the node ended, or "none".

vars == <<node, x, bundling, pc, saved, result>>

Command(c, y) ==
  CASE c \in GovernanceNames -> GovernanceCommand(c, y)
    [] c \in TokenNames -> TokenCommand(c, y)
    [] c \in AccountNames -> AccountCommand(c, y)
    [] c \in NftNames -> NftCommand(c, y)
    [] c \in WormholeNames -> WormholeCommand(c, y)
    [] c \in StdNames -> StdCommand(c, y)

AllCommands ==
  GovernanceNames \cup TokenNames \cup AccountNames \cup NftNames
    \cup WormholeNames \cup StdNames

ASSUME CommandsExist == Commands \subseteq AllCommands
ASSUME BoundIsNumber == MaxChoices \in Nat

DefOf(c) == Command(c, {}).def
This == Command(node, x)

\* What the flow and the world decide: some of the optional inputs are given,
\* some of the facts hold, and submit may be false.
Choices(c) ==
  LET free == DefOf(c).optional \cup Command(c, {}).facts
      few(S) == Cardinality(S) <= MaxChoices
      sets == {S \in SUBSET free : few(S) \/ few(free \ S)}
  IN  sets \cup {S \cup {SubmitFalse} : S \in {T \in sets : "submit" \in T}}

\* InstructionInfo::simple: outputs that are saved before the instructions are
\* sent.
Before == This.def.through \cup (This.def.outputs \ {"signature"})

-----------------------------------------------------------------------------

Init ==
  /\ node = "none" /\ x = {} /\ bundling \in BOOLEAN
  /\ pc = "idle" /\ saved = {} /\ result = "none"

\* The values of the node's edges have arrived.
Arrive(c) ==
  /\ pc = "idle"
  /\ node' = c
  /\ \E chosen \in Choices(c) : x' = DefOf(c).required \cup chosen
  /\ pc' = "inputs"
  /\ UNCHANGED <<bundling, saved, result>>

\* FlowGraph::ready: a node with instructions is not started when submit is
\* false.
SubmitIsFalse == This.info /\ SubmitFalse \in x

Start ==
  /\ pc = "inputs"
  /\ ~SubmitIsFalse
  /\ pc' = "started"
  /\ UNCHANGED <<node, x, bundling, saved, result>>

End(res) ==
  /\ pc' = "ended" /\ result' = res

\* value::from_map: a field without a default that is not in the map is an error.
ReadInput ==
  /\ pc = "started"
  /\ IF This.needs \subseteq x
       THEN pc' = "running" /\ UNCHANGED result
       ELSE End("bad input")
  /\ UNCHANGED <<node, x, bundling, saved>>

\* run_command: only a command with the permission gets the user's token.
NotAllowed == This.jwt /\ ~This.permitted

\* Nothing that the command was given or asked for stops it.
Works == pc = "running" /\ ~This.panics /\ ~This.refuses /\ ~NotAllowed

\* A query, a conversion or an upload of the command fails, perhaps before a value
\* makes it panic.
CommandFails ==
  /\ pc = "running"
  /\ This.asks \/ (This.refuses /\ ~This.panics)
  /\ End(IF NotAllowed THEN "not allowed" ELSE "error")
  /\ UNCHANGED <<node, x, bundling, saved>>

CommandPanics ==
  /\ pc = "running" /\ This.panics
  /\ End("panic")
  /\ UNCHANGED <<node, x, bundling, saved>>

\* save_outputs: the first outputs come with the inputs that are passed on.
FirstOutputs == This.early \cup (Before \cap This.def.through \cap x)

\* Seeded fault: the first outputs are not saved while the bundle is collected.
Execute_SavesLate ==
  /\ Works /\ This.info
  /\ pc' = "waiting"
  /\ saved' = saved
  /\ UNCHANGED <<node, x, bundling, result>>

\* Context::execute.  With bundling the outputs are saved at once, otherwise
\* the transaction goes first.
Execute ==
  /\ Works /\ This.info
  /\ pc' = "waiting"
  /\ saved' = IF bundling THEN saved \cup FirstOutputs ELSE saved
  /\ UNCHANGED <<node, x, bundling, result>>

Confirmed ==
  /\ pc = "waiting"
  /\ pc' = "confirmed"
  /\ saved' = IF bundling THEN saved ELSE saved \cup FirstOutputs
  /\ UNCHANGED <<node, x, bundling, result>>

ExecuteFails ==
  /\ pc = "waiting"
  /\ End("error")
  /\ UNCHANGED <<node, x, bundling, saved>>

\* A command that asks for something when its transaction was confirmed fails
\* although its instructions were carried out.
FollowUpFails ==
  /\ pc = "confirmed" /\ This.follows
  /\ End("error")
  /\ UNCHANGED <<node, x, bundling, saved>>

\* node_finished: the last outputs are saved, and every output that is not
\* optional must have come.
Finish ==
  /\ pc = "confirmed" \/ (Works /\ ~This.info)
  /\ LET last == saved \cup This.final
                   \cup (IF This.info THEN {} ELSE This.def.through \cap x)
     IN  /\ saved' = last
         /\ End(IF This.def.outputs \ This.def.lacks \subseteq last
                  THEN "ok" ELSE "output not found")
  /\ UNCHANGED <<node, x, bundling>>

\* The next node.
NextNode ==
  /\ pc = "ended" \/ (pc = "inputs" /\ SubmitIsFalse)
  /\ node' = "none" /\ x' = {} /\ pc' = "idle" /\ saved' = {} /\ result' = "none"
  /\ bundling' \in BOOLEAN

Next ==
  \/ \E c \in Commands : Arrive(c)
  \/ Start \/ ReadInput \/ CommandFails \/ CommandPanics
  \/ Execute \/ Confirmed \/ ExecuteFails \/ FollowUpFails
  \/ Finish \/ NextNode

Spec == Init /\ [][Next]_vars

-----------------------------------------------------------------------------
(* What the commands deviate in (README, deviations) *)

\* Commands whose definition and Input disagree.
Misdeclared ==
  {"burn_v1", "cancel_proposal", "create_core_collection_v2", "create_core_v2",
   "create_master_edition", "create_metadata_account", "create_proposal",
   "create_tree", "create_v1", "execute_transaction", "find_pda",
   "gen_metaplex_attrs", "get_foreign_asset_eth", "initialize_candy_guard",
   "initialize_core_candy_guards", "mint_v1", "mpl_core_update_plugin",
   "relinquish_token_owner_record_locks", "set_authority", "set_authority_2022",
   "set_realm_authority", "set_token_owner_record_locks", "storage_create_signed_url",
   "storage_delete", "storage_download", "storage_get_file_metadata",
   "storage_get_public_url", "supabase", "update_cNFT", "verify_signatures"}

\* Commands that never give a declared output.
Incomplete ==
  {"execute_transaction", "fileexplorer", "finalize_vote", "kvexplorer",
   "remove_transaction", "update_core_v1"}

\* Commands that unwrap a missing input, or do not expect how long, how large or of
\* which form a value is.
Panicking ==
  {"burn_cNFT", "complete_native", "complete_transfer_wrapped", "create_realm",
   "create_streamflow_timelock", "create_v1", "create_wrapped", "create_wrapped_on_eth",
   "execute_transaction", "fetch_assets", "find_pda", "initialize_record_with_seed",
   "mint_cNFT_to_collection", "mint_compressed_NFT", "mint_token", "nft_complete_native",
   "nft_complete_wrapped", "nft_complete_wrapped_meta", "nft_transfer_native",
   "nft_transfer_wrapped", "parse_vaa", "post_vaa", "range", "read_record",
   "relinquish_vote", "set_realm_authority", "transfer_cNFT", "transfer_native",
   "transfer_token", "transfer_wrapped", "update_v1", "verify_signatures",
   "write_to_record"}

\* Commands that may send a key too few.
Unsigned ==
  {"add_signatory", "create_master_edition", "create_metadata_account", "create_v1",
   "mint_candy_machine_core", "set_authority", "set_authority_2022"}

\* Commands that give outputs only when they end.
Late ==
  {"attest_token", "mint_cNFT_to_collection", "mint_compressed_NFT",
   "nft_transfer_native", "nft_transfer_wrapped", "post_message", "transfer_native",
   "transfer_wrapped"}

\* Variants that are built against their documentation.
Undocumented ==
  {"RecordWrite", "SetGovernanceConfig", "PostMessage"}

-----------------------------------------------------------------------------

\* A node that has all inputs its definition requires can read them: no field of
\* Input without a default belongs to an optional input, or to none.
InputsSuffice == result = "bad input" => node \in Misdeclared

\* A command that ran to its end has given every output its definition promises.
OutputsComplete == result = "output not found" => node \in Incomplete

\* No combination of inputs makes a command panic, which would end the whole run.
NoPanic == result = "panic" => node \in Panicking

\* A command that asks for a token of the user has the permission to get it.
TokensAllowed == result # "not allowed"

\* A node runs as its definition says, whichever inputs it has: it can read them, it
\* gives its outputs, may ask for the tokens it asks for, and does not panic.
RunsAsDeclared == InputsSuffice /\ OutputsComplete /\ NoPanic /\ TokensAllowed

\* The keys that go with the instructions suffice to sign them: those of the
\* fee payer and of every account an instruction marks as a signer.
KeysSuffice ==
  pc = "waiting" /\ This.ixs # <<>> /\ node \notin Unsigned =>
    {This.payer} \cup UNION {This.ixs[i].signed : i \in 1..Len(This.ixs)} \subseteq This.keys

\* While a command waits for a bundle, the nodes that read its other outputs
\* have them: they may have to join the same transaction.
DependentsCanJoin ==
  pc = "waiting" /\ bundling /\ node \notin Incomplete \cup Late =>
    Before \cap (x \cup (This.def.outputs \ This.def.lacks)) \subseteq saved

\* What the sources document of the accounts of an instruction.
Documented == Contracts @@ RecordContracts @@ MetadataContracts

\* Optional accounts are left out at the end, or their place is kept.
SameAccounts(have, doc) ==
  IF Placeholder \in Range(have)
    THEN /\ Len(have) = Len(doc.accounts)
         /\ \A k \in 1..Len(have) :
              have[k] \in {doc.accounts[k]}
                            \cup (IF doc.accounts[k] \in doc.optional THEN {Placeholder} ELSE {})
    ELSE /\ have = SelectSeq(doc.accounts, LAMBDA a : a \in Range(have))
         /\ Range(doc.accounts) \subseteq Range(have) \cup doc.optional

Conforms(i) ==
  LET doc == Documented[i.program]
      have == Range(i.accounts)
  IN  /\ SameAccounts(i.accounts, doc)
      /\ doc.signed \cap have \subseteq i.signed
      /\ \A a \in DOMAIN doc.seeds \cap have : i.seeds[a] = doc.seeds[a]

\* An instruction has the accounts its documentation lists, in this order; those
\* that must sign do, and derived addresses have the documented seeds.
AsDocumented ==
  pc = "waiting" =>
    \A k \in 1..Len(This.ixs) :
      This.ixs[k].program \in DOMAIN Documented \ Undocumented => Conforms(This.ixs[k])

\* Commands of the bridges that work on the same account derive its address in the
\* same way: what one writes the others find.
AddressesAgree ==
  pc = "waiting" =>
    \A d \in Commands \cap WormholeNames :
      LET theirs == Command(d, DefOf(d).required \cup DefOf(d).optional).ixs
      IN  \A k \in 1..Len(This.ixs), l \in 1..Len(theirs) :
            This.ixs[k].program = "wormhole" /\ theirs[l].program = "wormhole" =>
              \A a \in DOMAIN This.ixs[k].seeds \cap DOMAIN theirs[l].seeds :
                This.ixs[k].seeds[a] = theirs[l].seeds[a]

\* The instructions agree with their documentation and with each other.
InstructionsAgree == AsDocumented /\ AddressesAgree

-----------------------------------------------------------------------------
(* The inductive invariant *)

\* The inputs of a node are those its definition requires, others it has, and facts.
Known(r, y) ==
  /\ r.def.required \subseteq y
  /\ y \subseteq r.def.required \cup r.def.optional \cup r.facts \cup {SubmitFalse}

InputsInv ==
  pc # "idle" => node \in Commands /\ Known(Command(node, {}), x)

\* How far a command gets with its inputs.
ProgressInv ==
  /\ pc = "idle" => result = "none"
  /\ pc \in {"started", "running", "waiting", "confirmed"} => ~SubmitIsFalse
  /\ pc \in {"running", "waiting", "confirmed"} => This.needs \subseteq x
  /\ pc \in {"waiting", "confirmed"} => This.info /\ ~This.panics /\ ~This.refuses

\* What was saved when the transaction is sent or confirmed.
SavedInv ==
  pc = "confirmed" \/ (pc = "waiting" /\ bundling) => FirstOutputs \subseteq saved

Inv == InputsInv /\ ProgressInv /\ SavedInv /\ RunsAsDeclared

=============================================================================
