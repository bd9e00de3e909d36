----------------------------- MODULE CloneFlow -----------------------------
(***************************************************************************)
(* UserConnection::clone_flow: a flow and all flows that it reaches with   *)
(* interflow nodes are copied for a user, in one transaction.  Nodes of    *)
(* the copies are then changed to refer to the other copies and to the     *)
(* wallets of the user.                                                    *)
(*                                                                         *)
(* Every statement of the transaction sees what others have committed, so  *)
(* the owner may edit a flow, or make it private, between two of them.     *)
(* There is one transaction: others do not see its copies, and their own   *)
(* copies are private.                                                     *)
(***************************************************************************)
EXTENDS Naturals, Sequences, FiniteSets, SequencesExt, FiniteSetsExt, Subsequences

CONSTANTS
  Users,      \* Who may clone flows.
  WalletsOf,  \* WalletsOf[u]: the wallets of a user, as the database lists them.
  PublicKey,  \* PublicKey[w]: the public key of a wallet.
  Stored,     \* The flows at first: their owner, if they are public, their nodes.
  Edits,      \* The nodes that an owner may write in the place of another.
  MaxEdits    \* Bound: edits.

\* A node: its command, the flow or the wallet it refers to (0: none), the key it shows.
Node == [kind : {"interflow", "wallet", "other", "null"}, ref : Nat, key : Range(PublicKey) \cup {"none"}]
Flow == [owner : Users, public : BOOLEAN, nodes : Seq(Node)]

\* The wallets that are listed are rows of the database.
ASSUME WalletsAssumption ==
  /\ WalletsOf \in [Users -> Seq(Nat)]
  /\ \A u \in Users : Range(WalletsOf[u]) \subseteq DOMAIN PublicKey

\* The ids of flows start at 1.
ASSUME StoredAssumption ==
  /\ DOMAIN Stored \subseteq Nat \ {0} /\ IsFiniteSet(DOMAIN Stored)
  /\ Stored \in [DOMAIN Stored -> Flow]

ASSUME EditsAssumption == Edits \subseteq Node
ASSUME MaxEditsAssumption == MaxEdits \in Nat

VARIABLES
  flows,    \* The flows that are committed.
  edits,    \* How many edits there were.
  user,     \* Who clones.
  stage,    \* How far the transaction is.
  root,     \* The flow that is cloned.
  owner,    \* Its owner.
  queue,    \* The flows that are still to be visited.
  current,  \* The one that is visited.
  ids,      \* The flows that were visited.
  draft,    \* The copies.
  idMap,    \* The id of the copy of a flow.
  begun,    \* The flows when the transaction began.
  edited    \* The flows that were edited during the transaction.

flowVars == <<flows, edits, edited>>
requestVars == <<user, root, owner, begun>>
walkVars == <<queue, current, ids>>
copyVars == <<draft, idMap>>
cloneVars == <<flowVars, requestVars, stage, walkVars, copyVars>>

NullNode == [kind |-> "null", ref |-> 0, key |-> "none"]
NoFlows == <<>>
Running == {"owner", "wallets", "check", "interflows"}

CloneInit ==
  /\ flows = Stored /\ edits = 0 /\ edited = {}
  /\ user \in Users /\ root \in DOMAIN Stored /\ owner = user /\ begun = NoFlows
  /\ stage = "begin" /\ queue = <<>> /\ current = 0 /\ ids = {}
  /\ draft = NoFlows /\ idMap = NoFlows

Visible(f) == f \in DOMAIN flows /\ (flows[f].owner = user \/ flows[f].public)

-----------------------------------------------------------------------------
(* The transaction *)

\* The request starts a transaction.
Begin ==
  /\ stage = "begin"
  /\ stage' = "owner" /\ begun' = flows /\ edited' = {}
  /\ UNCHANGED <<flows, edits, user, root, owner, walkVars, copyVars>>

\* An error drops the transaction, which is rolled back.
Rollback == stage' = "failed" /\ draft' = NoFlows /\ idMap' = NoFlows

\* The owner of the flow, which the user must be allowed to see.
GetOwner ==
  /\ stage = "owner"
  /\ IF Visible(root)
       THEN owner' = flows[root].owner /\ stage' = "wallets" /\ UNCHANGED copyVars
       ELSE Rollback /\ UNCHANGED owner
  /\ UNCHANGED <<flowVars, user, root, begun, walkVars>>

\* A user without wallets cannot clone.
GetWallets ==
  /\ stage = "wallets"
  /\ IF WalletsOf[user] = <<>>
       THEN Rollback /\ UNCHANGED queue
       ELSE queue' = <<root>> /\ stage' = "check" /\ UNCHANGED copyVars
  /\ UNCHANGED <<flowVars, requestVars, current, ids>>

\* Seeded fault: the flow stays in the queue.
CheckFlow_Peeks ==
  /\ stage = "check" /\ queue # <<>>
  /\ queue' = queue
  /\ IF Visible(Last(queue))
       THEN /\ ids' = ids \cup {Last(queue)} /\ current' = Last(queue)
            /\ stage' = "interflows" /\ UNCHANGED copyVars
       ELSE Rollback /\ UNCHANGED <<ids, current>>
  /\ UNCHANGED <<flowVars, requestVars>>

\* check_flow, for the flow that was pushed last.
CheckFlow ==
  /\ stage = "check" /\ queue # <<>>
  /\ queue' = Front(queue)
  /\ IF Visible(Last(queue))
       THEN /\ ids' = ids \cup {Last(queue)} /\ current' = Last(queue)
            /\ stage' = "interflows" /\ UNCHANGED copyVars
       ELSE Rollback /\ UNCHANGED <<ids, current>>
  /\ UNCHANGED <<flowVars, requestVars>>

\* The flows that the interflow nodes refer to.
Interflows(nodes) ==
  LET calls == Keep(nodes, {n \in Range(nodes) : n.kind = "interflow"})
  IN  [i \in DOMAIN calls |-> calls[i].ref]

\* Seeded fault: the walk does not go on.
GetInterflows_NoWalk ==
  LET refs == Interflows(flows[current].nodes)
  IN  /\ stage = "interflows"
      /\ IF Contains(refs, 0)
           THEN Rollback /\ UNCHANGED queue
           ELSE /\ queue' = queue
                /\ stage' = "check" /\ UNCHANGED copyVars
      /\ UNCHANGED <<flowVars, requestVars, current, ids>>

\* get_interflows: what was not visited is pushed; a node without a flow is an error.
GetInterflows ==
  LET refs == Interflows(flows[current].nodes)
  IN  /\ stage = "interflows"
      /\ IF Contains(refs, 0)
           THEN Rollback /\ UNCHANGED queue
           ELSE /\ queue' = queue \o Keep(refs, Range(refs) \ ids)
                /\ stage' = "check" /\ UNCHANGED copyVars
      /\ UNCHANGED <<flowVars, requestVars, current, ids>>

Walked == stage = "check" /\ queue = <<>>
NewId == 1 + Max(DOMAIN flows \cup DOMAIN draft)

\* A table with one more row, as table @@ (id :> row) is, which the provers cannot expand.
Add(table, id, row) ==
  [x \in DOMAIN table \cup {id} |-> IF x \in DOMAIN table THEN table[x] ELSE row]

\* copy_flow: the set of ids has no order.  A copy is private.
CopyFlow(id) ==
  /\ Walked /\ id \in ids \ DOMAIN idMap
  /\ draft' = Add(draft, NewId, [owner |-> user, public |-> FALSE, nodes |-> flows[id].nodes])
  /\ idMap' = Add(idMap, id, NewId)
  /\ UNCHANGED <<flowVars, requestVars, stage, walkVars>>

\* Seeded fault: a wallet of the owner is kept.
WalletFor_AnyKnown(w) ==
  LET same == Keep(WalletsOf[user], {v \in Range(WalletsOf[user]) : PublicKey[v] = PublicKey[w]})
      known == Contains(WalletsOf[owner], w)
  IN  CASE known /\ same = <<>> -> w
        [] known /\ owner # user /\ same # <<>> -> same[1]
        [] OTHER -> WalletsOf[user][1]

\* wallet_map: the wallet of the user for a wallet of the owner, the same one or
\* one with the same key; the first one for all others.
WalletFor(w) ==
  LET same == Keep(WalletsOf[user], {v \in Range(WalletsOf[user]) : PublicKey[v] = PublicKey[w]})
      known == Contains(WalletsOf[owner], w)
  IN  CASE known /\ owner = user -> w
        [] known /\ owner # user /\ same # <<>> -> same[1]
        [] OTHER -> WalletsOf[user][1]

\* update_flow: jsonb_set with a NULL is NULL.
UpdateNode(n) ==
  CASE n.kind = "interflow" ->
         IF n.ref \in DOMAIN idMap THEN [n EXCEPT !.ref = idMap[n.ref]] ELSE NullNode
    [] n.kind = "wallet" ->
         [n EXCEPT !.ref = WalletFor(n.ref), !.key = PublicKey[WalletFor(n.ref)]]
    [] OTHER -> n

UpdateFlow(f) == [f EXCEPT !.nodes = [i \in DOMAIN @ |-> UpdateNode(@[i])]]

\* The nodes are updated and the transaction is committed.
Commit ==
  /\ Walked /\ DOMAIN idMap = ids
  /\ flows' = [f \in DOMAIN flows \cup DOMAIN draft |->
                 IF f \in DOMAIN flows THEN flows[f] ELSE UpdateFlow(draft[f])]
  /\ stage' = "done"
  /\ UNCHANGED <<edits, edited, requestVars, walkVars, copyVars>>

\* A statement or the commit fails.
Fails ==
  /\ stage \in Running
  /\ Rollback
  /\ UNCHANGED <<flowVars, requestVars, walkVars>>

-----------------------------------------------------------------------------
(* The owner of a flow *)

Edit(f, new) ==
  /\ edits < MaxEdits /\ flows[f] # new
  /\ edits' = edits + 1
  /\ flows' = [flows EXCEPT ![f] = new]
  /\ edited' = IF stage \in Running THEN edited \cup {f} ELSE edited
  /\ UNCHANGED <<requestVars, stage, walkVars, copyVars>>

SetPublic(f, b) == Edit(f, [flows[f] EXCEPT !.public = b])

EditNode(f, i, n) == Edit(f, [flows[f] EXCEPT !.nodes[i] = n])

-----------------------------------------------------------------------------

CloneStep ==
  \/ Begin \/ GetOwner \/ GetWallets \/ CheckFlow \/ GetInterflows \/ Commit
  \/ \E id \in ids : CopyFlow(id)

CloneNext ==
  \/ CloneStep \/ Fails
  \/ \E f \in DOMAIN Stored :
       \/ \E b \in BOOLEAN : SetPublic(f, b)
       \/ \E i \in DOMAIN flows[f].nodes, n \in Edits : EditNode(f, i, n)

\* The statements of the transaction are executed.
CloneSpec == CloneInit /\ [][CloneNext]_cloneVars /\ WF_cloneVars(CloneStep)

-----------------------------------------------------------------------------

Copies == {idMap[f] : f \in DOMAIN idMap}

\* A flow that was not edited meanwhile is copied node by node, whatever happens to
\* the others: its interflow nodes refer to the copies of the flows that they
\* referred to, and no node is lost; and its user might see it.  (In the copy of
\* one that was edited a node may be NULL; get_flow_config fails for such a flow.)
CloneIsFaithful ==
  stage = "done" =>
    /\ root \in DOMAIN idMap
    /\ \A f \in DOMAIN idMap \ edited : begun[f].owner = user \/ begun[f].public
    /\ \A f \in DOMAIN idMap \ edited :
         LET old == begun[f].nodes
             new == flows[idMap[f]].nodes
         IN  /\ Len(new) = Len(old)
             /\ \A i \in DOMAIN old :
                  /\ new[i].kind = old[i].kind
                  /\ old[i].kind = "interflow" =>
                       old[i].ref \in DOMAIN idMap /\ new[i].ref = idMap[old[i].ref]

\* A clone refers to nothing outside of it but wallets of its user, with their own
\* keys, whatever the owners of the flows do meanwhile.
CloneStandsAlone ==
  stage = "done" =>
    \A f \in Copies : \A i \in DOMAIN flows[f].nodes :
      LET n == flows[f].nodes[i]
      IN  /\ n.kind = "interflow" => n.ref \in Copies /\ flows[n.ref].owner = user
          /\ n.kind = "wallet" => Contains(WalletsOf[user], n.ref) /\ n.key = PublicKey[n.ref]

\* The walk over the flows ends, although flows may call each other in a circle.
CloneEnds == <>(stage \in {"failed", "done"})

-----------------------------------------------------------------------------
(* The inductive invariant *)

CloneTypeOK ==
  /\ flows \in [DOMAIN flows -> Flow]
  /\ edits \in 0..MaxEdits /\ edited \subseteq DOMAIN Stored
  /\ user \in Users /\ owner \in Users /\ root \in DOMAIN Stored
  /\ stage \in Running \cup {"begin", "failed", "done"}
  /\ queue \in Seq(Nat) /\ current \in Nat /\ ids \subseteq DOMAIN Stored
  /\ draft \in [DOMAIN draft -> Flow] /\ idMap \in [DOMAIN idMap -> DOMAIN draft]
  /\ begun \in [DOMAIN begun -> Flow]

\* The copies belong to the user and are apart from the flows that there were.
CopiesApart ==
  /\ IsFiniteSet(DOMAIN draft) /\ DOMAIN draft \subseteq Nat \ DOMAIN Stored
  /\ DOMAIN flows = IF stage = "done" THEN DOMAIN Stored \cup DOMAIN draft ELSE DOMAIN Stored
  /\ DOMAIN idMap \subseteq ids
  /\ \A c \in DOMAIN draft : draft[c].owner = user

\* How far the walk over the flows is.
WalkInv ==
  /\ stage \in {"begin", "owner", "wallets"} => ids = {}
  /\ stage \in {"check", "interflows", "done"} =>
       WalletsOf[user] # <<>> /\ root \in ids \cup Range(queue)
  /\ stage = "interflows" => current \in ids
  /\ stage = "done" => queue = <<>> /\ DOMAIN idMap = ids

\* What the transaction saw of a flow that was not edited.
BegunInv ==
  stage \in Running \cup {"done"} =>
    /\ DOMAIN begun = DOMAIN Stored
    /\ stage # "done" => \A f \in DOMAIN Stored \ edited : flows[f] = begun[f]
    /\ \A f \in ids \ edited : begun[f].owner = user \/ begun[f].public

Calls(nodes, set) ==
  \A i \in DOMAIN nodes : nodes[i].kind = "interflow" => nodes[i].ref \in set

\* What a visited flow calls is visited or will be.
CallsInv ==
  stage \in Running \cup {"done"} =>
    \A f \in ids \ edited :
      (stage # "interflows" \/ f # current) => Calls(begun[f].nodes, ids \cup Range(queue))

\* What is copied.
DraftInv ==
  /\ stage \in Running \cup {"done"} =>
       \A f \in DOMAIN idMap \ edited : draft[idMap[f]].nodes = begun[f].nodes
  /\ stage = "done" => \A c \in DOMAIN draft : flows[c] = UpdateFlow(draft[c])

CloneInv == CloneTypeOK /\ CopiesApart /\ WalkInv /\ BegunInv /\ CallsInv /\ DraftInv
=============================================================================
