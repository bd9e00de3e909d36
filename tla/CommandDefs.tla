----------------------------- MODULE CommandDefs -----------------------------
(***************************************************************************)
(* The vocabulary of the command catalogues.  A command is what the runner *)
(* of a flow can tell of it: the ports its node definition declares, the   *)
(* inputs that deserializing `struct Input' insists on, the instructions   *)
(* it hands to Context::execute and the keys it sends along, the outputs   *)
(* it sends together with them, and the outputs it returns at the end.     *)
(*                                                                         *)
(* Each catalogue defines a command as an operator of the set x: the names *)
(* of the inputs that were given, and of the facts that held when the      *)
(* command asked the chain or another service.                             *)
(***************************************************************************)
EXTENDS Integers, Sequences, FiniteSets

\* The node definition: inputs that are required and optional ones, inputs
\* that are passed through, outputs, and the outputs that may be missing.
Def(required, optional, through, outputs, lacks) ==
  [ required |-> required, optional |-> optional, through |-> through,
    outputs |-> outputs, lacks |-> lacks ]

\* An instruction: its program's variant, its accounts in order, the accounts
\* whose signature it needs, and the seeds of the addresses it derives.
Instruction(program, accounts, signed, seeds) ==
  [ program |-> program, accounts |-> accounts, signed |-> signed, seeds |-> seeds ]

\* The account that keeps the place of an optional one: the program itself.
Placeholder == "the program"

\* An instruction of which only the signatures matter here.
Ix(program, signed) == Instruction(program, <<>>, signed, <<>>)

\* A command with simple_instruction_info("signature"): it calls execute once
\* with the instructions `ixs', the keys `keys' and the outputs `early'.  It
\* `needs' some inputs, and returns `final'.  `facts' are what it may learn from
\* the values of its inputs or from others, `asks' tells that it may fail
\* before execute, `refuses' that it returns an error for these inputs, `panics'
\* that an unwrap, expect or index of its code does, and `follows' that it asks
\* again after execute.  `jwt' tells that it asks for a token of the user, and
\* `permitted' that its builder permits this.
Instr(def, needs, final) ==
  [ def |-> def, needs |-> needs, final |-> final, info |-> TRUE,
    payer |-> "fee_payer", ixs |-> <<>>, keys |-> {}, early |-> {},
    facts |-> {}, asks |-> FALSE, refuses |-> FALSE, panics |-> FALSE,
    follows |-> FALSE, jwt |-> FALSE, permitted |-> FALSE ]

\* A command that only computes or asks.
Plain(def, needs, final) ==
  [ Instr(def, needs, final) EXCEPT !.info = FALSE ]

\* "submit" is an input that is true unless it was given as false.
SubmitFalse == "submit is false"

\* Commands that look at submit hand over nothing when it is false.
Submit(x, ixs) == IF SubmitFalse \in x THEN <<>> ELSE ixs

\* An account is created first unless one was found.
CreateFirst(x, found, create, ixs) == IF found \cap x # {} THEN ixs ELSE <<create>> \o ixs

\* Accounts that are left out when a fact holds.
Unless(x, fact, accounts) == IF fact \in x THEN <<>> ELSE accounts

\* An optional account or key that is there when its input was given.
Given(x, name) == IF name \in x THEN <<name>> ELSE <<>>
Keys(x, names) == names \cap x

\* The input, or the one that is used in its stead.
OrElse(x, name, other) == IF name \in x THEN name ELSE other

=============================================================================
