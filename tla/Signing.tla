------------------------------ MODULE Signing ------------------------------
(***************************************************************************)
(* How a transaction gets its signatures.  Instructions::execute builds a   *)
(* message and asks for the signatures of the wallets it does not hold the  *)
(* keys of.  SignerWorker signs itself for the keypairs stored with the     *)
(* server and forwards the other requests to the UserWorker of the wallet's *)
(* owner, which records them in the database and keeps them until somebody  *)
(* submits a signature or their time is over.                               *)
(*                                                                         *)
(* A wallet may change the message it signs as long as its logic stays the  *)
(* same, but not once others signed it.                                     *)
(* On the current machine the fee payer is asked first and alone.  For a    *)
(* Solana action all the others are asked at once and the action's signer   *)
(* last, with no time at all: it signs on its own, outside of the server.   *)
(***************************************************************************)
EXTENDS Naturals, FiniteSets, Sequences

CONSTANTS
    Builds,    \* the transactions that are being built, of one or more flows
    Wallets,
    Signers,   \* the wallets that sign each of them
    Lead,      \* the fee payer of each, or the signer of the action
    Actions,   \* the builds that are executed as a Solana action
    Kind,      \* how a wallet's key is known: "local" to the instructions,
               \* "keypair" or "user" to the SignerWorker, or "unknown"
    Lists,     \* the lists of accounts that an instruction may be given
    Inputs,    \* the one that each build gives to its instruction
    ReadOnly   \* how many of the accounts a build makes read-only

ASSUME SignersAssumption ==
    /\ Signers \in [Builds -> SUBSET Wallets]
    /\ \A b \in Builds : Lead[b] \in Signers[b]
    /\ Actions \subseteq Builds
    /\ "none" \notin Builds
ASSUME KindAssumption == Kind \in [Wallets -> {"local", "keypair", "user", "unknown"}]
ASSUME InputsAssumption ==
    /\ Lists \subseteq Seq(STRING)
    /\ Inputs \in [Builds -> Lists]
    /\ ReadOnly \in Nat

\* A message: its programs, their data and all else that has to be the same
\* (logic), the accounts of its instructions and how many are read-only.
Messages == [logic : Builds, accounts : Lists, readonly : 0 .. ReadOnly]
NoMessage == [logic |-> "none", accounts |-> <<>>, readonly |-> 0]
MaybeMessage == Messages \cup {NoMessage}

\* build_message
Built(b) == [logic |-> b, accounts |-> Inputs[b], readonly |-> ReadOnly]

\* A build asks each wallet once; the database's id stands for the pair.
Ids == {i \in Builds \X Wallets : i[2] \in Signers[i[1]]}

VARIABLES
    phase,     \* how far each build is
    msg,       \* `message' (and `data', its bytes) of build_and_sign_tx
    sigs,      \* the message that each collected signature is over
    asked,     \* SignatureRequest::message of each request
    presigned, \* requests whose SignatureRequest::signatures is not empty
    call,      \* what became of each request
    answer,    \* the message that the SignatureResponse is over
    sigreg,    \* UserWorker::sigreg of the wallets' owners
    timers,    \* run_later timers that did not fire yet
    saving     \* signatures that are being saved

signVars == <<phase, msg, sigs, asked, presigned, call, answer, sigreg, timers, saving>>

Phases == {"new", "lead", "others", "last", "signed", "failed"}
CallStates == {"none", "inserting", "pending", "signed", "timeout", "failed", "not_allowed"}

SignTypeOK ==
    /\ phase \in [Builds -> Phases]
    /\ msg \in [Builds -> MaybeMessage]
    /\ sigs \in [Ids -> MaybeMessage]
    /\ asked \in [Ids -> MaybeMessage]
    /\ presigned \subseteq Ids
    /\ call \in [Ids -> CallStates]
    /\ answer \in [Ids -> MaybeMessage]
    /\ sigreg \subseteq Ids
    /\ timers \subseteq Ids
    /\ saving \subseteq Ids

SignInit ==
    /\ phase = [b \in Builds |-> "new"]
    /\ msg = [b \in Builds |-> NoMessage]
    /\ sigs = [i \in Ids |-> NoMessage]
    /\ asked = [i \in Ids |-> NoMessage]
    /\ presigned = {}
    /\ call = [i \in Ids |-> "none"]
    /\ answer = [i \in Ids |-> NoMessage]
    /\ sigreg = {} /\ timers = {} /\ saving = {}

workerVars == <<sigreg, timers, saving>>

\* Two lists agree as far as both go.
Zipped(l, r) == \A k \in DOMAIN l \cap DOMAIN r : l[k] = r[k]

\* Seeded fault: the accounts of the instructions are not compared.
is_same_message_logic_AnyAccounts(l, r) == l.logic = r.logic /\ r.readonly <= l.readonly

\* The new message r may make more accounts writable.  The accounts of an
\* instruction are zipped: their number is not compared.
is_same_message_logic(l, r) ==
    /\ l.logic = r.logic
    /\ r.readonly <= l.readonly
    /\ Zipped(l.accounts, r.accounts)

----------------------------------------------------------------------------
(* build_and_sign_tx and build_for_solana_action *)

\* Requests reach SignerWorker: a stored keypair signs at once, a request for
\* a user's wallet goes to the database first.  Those in `withSignatures' come
\* with the signatures that the message has already.
Ask(ids, m, withSignatures) ==
    /\ asked' = [i \in Ids |-> IF i \in ids THEN m ELSE asked[i]]
    /\ presigned' = presigned \cup withSignatures
    /\ answer' = [i \in Ids |-> IF i \in ids /\ Kind[i[2]] = "keypair" THEN m ELSE answer[i]]
    /\ call' = [i \in Ids |->
                  IF i \notin ids THEN call[i]
                  ELSE IF Kind[i[2]] = "keypair" THEN "signed"
                  ELSE IF Kind[i[2]] = "user" THEN "inserting"
                  ELSE "failed"]

\* The adapter wallets other than the lead.
Others(b) == {i \in Ids : i[1] = b /\ i[2] # Lead[b] /\ Kind[i[2]] # "local"}
LeadId(b) == <<b, Lead[b]>>

\* build_message: the fees are inserted, the message gets its blockhash.
BuildMessage(b) ==
    LET m == Built(b) IN
    /\ phase[b] = "new"
    /\ msg' = [msg EXCEPT ![b] = m]
    /\ IF b \in Actions
       THEN /\ phase' = [phase EXCEPT ![b] = "others"]
            /\ Ask(Others(b), m, {})
            /\ UNCHANGED sigs
       ELSE IF Kind[Lead[b]] = "local"
       THEN /\ phase' = [phase EXCEPT ![b] = "others"]
            /\ sigs' = [sigs EXCEPT ![LeadId(b)] = m]
            /\ Ask(Others(b), m, Others(b))
       ELSE /\ phase' = [phase EXCEPT ![b] = "lead"]
            /\ Ask({LeadId(b)}, m, {})
            /\ UNCHANGED sigs
    /\ UNCHANGED workerVars

\* A request that ended without a signature.
NoAnswer == {"timeout", "failed", "not_allowed"}

\* No blockhash, no fee payer among the signers.
Fail(b) ==
    /\ phase' = [phase EXCEPT ![b] = "failed"]
    /\ UNCHANGED <<msg, sigs, asked, presigned, call, answer, workerVars>>
BuildFails(b) == phase[b] = "new" /\ Fail(b)

\* The fee payer signed: its message is the one that the others sign.
LeadSigned(b) ==
    LET m == answer[LeadId(b)] IN
    /\ phase[b] = "lead" /\ call[LeadId(b)] = "signed"
    /\ is_same_message_logic(msg[b], m)
    /\ msg' = [msg EXCEPT ![b] = m]
    /\ sigs' = [sigs EXCEPT ![LeadId(b)] = m]
    /\ phase' = [phase EXCEPT ![b] = "others"]
    /\ Ask(Others(b), m, Others(b))
    /\ UNCHANGED workerVars

LeadFailed(b) ==
    /\ phase[b] = "lead"
    /\ \/ call[LeadId(b)] \in NoAnswer
       \/ call[LeadId(b)] = "signed" /\ ~is_same_message_logic(msg[b], answer[LeadId(b)])
    /\ Fail(b)

\* Seeded fault: it is not checked that the signatures are over one message.
AllSigned_Unchecked(b) == \A i \in Others(b) : call[i] = "signed"
AllSigned(b) == \A i \in Others(b) : call[i] = "signed" /\ answer[i] = msg[b]

\* Everybody signed, and the message as it was asked: the local keypairs sign
\* it too.  An action then needs its signer.
Collected(b) ==
    [i \in Ids |-> IF i[1] # b \/ i[2] = Lead[b] THEN sigs[i]
                   ELSE IF Kind[i[2]] = "local" THEN msg[b] ELSE answer[i]]

\* list_signatures: the signatures the action's signer gets to see, if any.
SignedBefore(b) ==
    IF \E i \in Ids : i[1] = b /\ Collected(b)[i] # NoMessage THEN {LeadId(b)} ELSE {}

OthersSigned(b) ==
    /\ phase[b] = "others" /\ AllSigned(b)
    /\ sigs' = Collected(b)
    /\ IF b \in Actions
       THEN /\ phase' = [phase EXCEPT ![b] = "last"]
            /\ Ask({LeadId(b)}, msg[b], SignedBefore(b))
       ELSE /\ phase' = [phase EXCEPT ![b] = "signed"]
            /\ UNCHANGED <<asked, presigned, call, answer>>
    /\ UNCHANGED <<msg, workerVars>>

\* One of them failed, or signed another message: "not allowed to change
\* transaction".
OthersFailed(b) ==
    /\ phase[b] = "others"
    /\ \E i \in Others(b) :
          \/ call[i] \in NoAnswer
          \/ call[i] = "signed" /\ answer[i] # msg[b]
    /\ Fail(b)

\* The action's signer was told; that it did not answer in time is expected.
LastAnswered(b) ==
    /\ phase[b] = "last" /\ call[LeadId(b)] \in {"signed", "timeout"}
    /\ phase' = [phase EXCEPT ![b] = "signed"]
    /\ UNCHANGED <<msg, sigs, asked, presigned, call, answer, workerVars>>

LastFailed(b) == phase[b] = "last" /\ call[LeadId(b)] \in {"failed", "not_allowed"} /\ Fail(b)

\* Seeded fault: the build starts again and keeps what it has collected.
GiveUp_StartsAgain(b) ==
    /\ phase[b] \in {"lead", "others"}
    /\ phase' = [phase EXCEPT ![b] = "new"]
    /\ UNCHANGED <<msg, sigs, asked, presigned, call, answer, workerVars>>

\* tokio::time::timeout around the requests, or the flow is stopped: nobody
\* waits for the answers any more, the requests stay with the UserWorker.
GiveUp(b) == phase[b] \in {"lead", "others", "last"} /\ Fail(b)

----------------------------------------------------------------------------
(* UserWorker *)

\* Seeded fault: the request is kept without a timer.
Inserted_NoTimer(i) ==
    /\ call[i] = "inserting"
    /\ call' = [call EXCEPT ![i] = "pending"]
    /\ sigreg' = sigreg \cup {i}
    /\ UNCHANGED <<phase, msg, sigs, asked, presigned, answer, timers, saving>>

\* new_signature_request gave the request its id: process_sigreq.
Inserted(i) ==
    /\ call[i] = "inserting"
    /\ call' = [call EXCEPT ![i] = "pending"]
    /\ sigreg' = sigreg \cup {i}
    /\ timers' = timers \cup {i}
    /\ UNCHANGED <<phase, msg, sigs, asked, presigned, answer, saving>>

InsertFailed(i) ==
    /\ call[i] = "inserting"
    /\ call' = [call EXCEPT ![i] = "failed"]
    /\ UNCHANGED <<phase, msg, sigs, asked, presigned, answer, workerVars>>

\* The closure of run_later.
TimerFires(i) ==
    /\ i \in timers
    /\ timers' = timers \ {i}
    /\ sigreg' = sigreg \ {i}
    /\ call' = IF i \in sigreg THEN [call EXCEPT ![i] = "timeout"] ELSE call
    /\ UNCHANGED <<phase, msg, sigs, asked, presigned, answer, saving>>

\* Handler<SubmitSignature>, for a request that is registered: somebody
\* submits a signature over m, the message of the request or another one.
\* `valid': the signature is the wallet's, over m.
Refused(i, m, valid) ==
    ~valid \/ (m # asked[i] /\ ~is_same_message_logic(asked[i], m))

\* NotAllowChangeTx: the request was taken out of sigreg and is dropped.
SubmitNotAllowed(i, m) ==
    /\ i \in sigreg
    /\ i \in presigned /\ m # asked[i]
    /\ sigreg' = sigreg \ {i}
    /\ call' = [call EXCEPT ![i] = "not_allowed"]
    /\ UNCHANGED <<phase, msg, sigs, asked, presigned, answer, timers, saving>>

\* Seeded fault: a wrong submission uses the request up.
SubmitRefused_Drops(i, m, valid) ==
    /\ i \in sigreg
    /\ ~(i \in presigned /\ m # asked[i])
    /\ Refused(i, m, valid)
    /\ sigreg' = sigreg \ {i}
    /\ call' = [call EXCEPT ![i] = "failed"]
    /\ UNCHANGED <<phase, msg, sigs, asked, presigned, answer, timers, saving>>

\* TxChanged and WrongSignature: the request is put back.
SubmitRefused(i, m, valid) ==
    /\ i \in sigreg
    /\ ~(i \in presigned /\ m # asked[i])
    /\ Refused(i, m, valid)
    /\ UNCHANGED signVars

\* The requester is answered, then the signature is saved.
SubmitAccepted(i, m) ==
    /\ i \in sigreg
    /\ ~(i \in presigned /\ m # asked[i])
    /\ ~Refused(i, m, TRUE)
    /\ sigreg' = sigreg \ {i}
    /\ call' = [call EXCEPT ![i] = "signed"]
    /\ answer' = [answer EXCEPT ![i] = m]
    /\ saving' = saving \cup {i}
    /\ UNCHANGED <<phase, msg, sigs, asked, presigned, timers>>

\* save_signature returns.  When it fails the submitter is told; the requester
\* has its signature all the same.
Saved(i) ==
    /\ i \in saving
    /\ saving' = saving \ {i}
    /\ UNCHANGED <<phase, msg, sigs, asked, presigned, call, answer, sigreg, timers>>

Submit(i) ==
    \E m \in Messages :
        \/ SubmitNotAllowed(i, m)
        \/ SubmitAccepted(i, m)
        \/ \E valid \in BOOLEAN : SubmitRefused(i, m, valid)

----------------------------------------------------------------------------
Build(b) ==
    \/ BuildMessage(b) \/ BuildFails(b)
    \/ LeadSigned(b) \/ LeadFailed(b)
    \/ OthersSigned(b) \/ OthersFailed(b)
    \/ LastAnswered(b) \/ LastFailed(b)
    \/ GiveUp(b)

Worker(i) == Inserted(i) \/ InsertFailed(i) \/ TimerFires(i) \/ Saved(i)

Terminated ==
    /\ \A b \in Builds : phase[b] \in {"signed", "failed"}
    /\ timers = {} /\ saving = {} /\ \A i \in Ids : call[i] # "inserting"
    /\ UNCHANGED signVars

SignNext ==
    \/ \E b \in Builds : Build(b)
    \/ \E i \in Ids : Worker(i) \/ Submit(i)
    \/ Terminated

\* The runtime polls the builds, the actor's futures and its timers, and the
\* database answers.  Nobody has to submit a signature.
SignFairness ==
    /\ WF_signVars(\E b \in Builds : Build(b))
    /\ WF_signVars(\E i \in Ids : Worker(i))

SignSpec == SignInit /\ [][SignNext]_signVars
SignFairSpec == SignSpec /\ SignFairness

----------------------------------------------------------------------------
(* Properties *)

\* A transaction that is ready to be sent is signed by all its wallets, over
\* one and the same message, although a wallet may rewrite what it signs and
\* the wallets are asked at different times; the action's signer is missing.
SignedOverOneMessage ==
    \A b \in Builds : phase[b] \in {"last", "signed"} =>
        \A w \in Signers[b] : sigs[<<b, w>>] = msg[b] \/ (b \in Actions /\ w = Lead[b])

\* Whatever the wallets rewrite, the transaction runs the programs it was built
\* for, and every account it gives them is the one the build gave them at that
\* place.  (It may give them fewer accounts, or more.)  Comparing zipped lists
\* is not transitive: this holds because a message is rewritten at most once.
LogicIsKept ==
    \A b \in Builds : phase[b] \in {"lead", "others", "last", "signed"} =>
        msg[b].logic = b /\ Zipped(Inputs[b], msg[b].accounts)

\* The message is never changed once a wallet has signed it.
SignedMessageIsFixed ==
    [][\A i \in Ids : sigs[i] # NoMessage => msg'[i[1]] = msg[i[1]]]_signVars

\* A request is lost before its time only when it was answered; a wrong
\* submission does no harm.  The exception is a rewritten message for a
\* transaction that others signed already: it ends the request.
RequestsOutliveWrongSubmissions ==
    \A i \in timers :
        \/ i \in sigreg
        \/ call[i] = "signed"
        \/ call[i] = "not_allowed" /\ i \in presigned

\* What makes these inductive.  The fee payer signs before the others do, the
\* signer of an action after them, ...
LeadSignsFirst ==
    \A b \in Builds :
        IF b \in Actions THEN phase[b] # "lead"
        ELSE phase[b] \in {"others", "last", "signed"} => sigs[LeadId(b)] = msg[b]
\* ... until it did, the message is the one that was built, ...
NotRewrittenYet == \A b \in Builds : phase[b] = "lead" => msg[b] = Built(b)
\* ... nobody has signed before, ...
NoEarlySignature ==
    \A i \in Ids : phase[i[1]] \in {"new", "lead"} => sigs[i] = NoMessage
\* ... and a request that is not made, or not inserted, is not registered.
Unasked(i) ==
    LET b == i[1] IN
    \/ phase[b] = "new"
    \/ phase[b] = "lead" /\ i # LeadId(b)
    \/ phase[b] = "others" /\ b \in Actions /\ i = LeadId(b)
NotRegisteredYet ==
    \A i \in Ids :
        /\ Unasked(i) => call[i] = "none"
        /\ call[i] \in {"none", "inserting"} => i \notin sigreg \cup timers

\* The inductive invariant.
SignInv ==
    /\ SignTypeOK
    /\ SignedOverOneMessage
    /\ LogicIsKept
    /\ RequestsOutliveWrongSubmissions
    /\ LeadSignsFirst
    /\ NotRewrittenYet
    /\ NoEarlySignature
    /\ NotRegisteredYet

\* Every build comes to an end and the UserWorker forgets every request,
\* whether or not anybody submits a signature.
EverythingEnds ==
    <>[](sigreg = {} /\ \A b \in Builds : phase[b] \in {"signed", "failed"})
=============================================================================
