----------------------------- MODULE UserProofs -----------------------------
(***************************************************************************)
(* What is proved of the four components that act for a user.  They share  *)
(* no state: Login, for any number of requests, keys, semaphores and       *)
(* passwords; the TokenWorker, for any number of callers and JWTs; the     *)
(* collection of signatures, for any number of transactions, wallets and   *)
(* forms of a message; and clone_flow, for any flows, users, wallets and   *)
(* edits.                                                                  *)
(***************************************************************************)
EXTENDS Login, TokenWorker, Signing, CloneFlow, SequenceLemmas, FiniteSetTheorems, TLAPS

-----------------------------------------------------------------------------
(* Consequences of the invariant *)

\* Two requests for one key that have a permit have it of the same semaphore, and so
\* are the same.
LEMMA OnePermit ==
  ASSUME Inv, NEW q \in permits, NEW r \in permits, KeyOf[q] = KeyOf[r]
  PROVE  q = r
<1>1. q \in Requests /\ r \in Requests /\ ref[q] # None /\ ref[r] # None
  BY DEF Inv, TypeOK
<1>2. ref[q] = ref[r]
  BY <1>1 DEF Inv, SemaphoreInv, RefsOwnEntry
<1> QED
  BY <1>2 DEF Inv, PermitInv, PermitsDiffer

\* At most one request of a key is inside, claims aside.
LEMMA InvOneInside == Inv => OneInside
<1> SUFFICES ASSUME Inv,
                    NEW q \in Requests, NEW r \in Requests,
                    q # r, KeyOf[q] = KeyOf[r],
                    pc[q] \in Inside, kind[q] # "claim",
                    pc[r] \in Inside, kind[r] # "claim"
             PROVE  FALSE
  BY DEF OneInside
<1>1. q \in permits /\ r \in permits
  BY DEF Inv, PermitInv, InsideWithPermit
<1> QED
  BY <1>1, OnePermit

\* Nobody is left who would remove an entry: then there is none, cancellations aside.
LEMMA InvNoSemaphoreLeft == Inv => NoSemaphoreLeft
<1> SUFFICES ASSUME Inv, NEW k \in Keys,
                    \A r \in Requests : KeyOf[r] = k => pc[r] \in {"idle", "ended"} /\ r \notin cancelled,
                    limits[k] # None
             PROVE  FALSE
  BY DEF NoSemaphoreLeft
<1>1. PICK r \in Requests :
        KeyOf[r] = k /\ (r \in cancelled \/ ref[r] # None \/ pc[r] = "dropped")
  BY DEF Inv, SemaphoreInv, EntriesHaveUsers
<1>2. ref[r] # None => pc[r] \in {"waiting", "leaving", "released"} \cup Inside
  BY DEF Inv, SemaphoreInv, RefsWhileNeeded
<1> QED
  BY <1>1, <1>2 DEF Inside

\* A request that returns: where it goes, and that it refers to no semaphore when it
\* had no permit.
LEMMA ReturnFacts ==
  ASSUME Inv, NEW r \in Requests, pc[r] \in Inside
  PROVE  /\ r \notin permits => ref[r] = None
         /\ kind[r] = "claim" => r \notin permits /\ pc[r] \in {"credential", "set", "login"}
<1>1. kind[r] = "claim" => ref[r] = None /\ pc[r] \in {"credential", "set", "login"}
  BY DEF Inv, PermitInv, ClaimsApart, Inside
<1>2. r \in permits => ref[r] # None
  BY DEF Inv, TypeOK
<1>3. kind[r] # "claim" => r \in permits
  BY DEF Inv, PermitInv, InsideWithPermit
<1> QED
  BY <1>1, <1>2, <1>3

-----------------------------------------------------------------------------
(* Parts that a step leaves alone *)

\* What changes when one request goes to another place.
LEMMA PcFacts ==
  ASSUME TypeOK, NEW r \in Requests, NEW l \in Steps, pc' = [pc EXCEPT ![r] = l]
  PROVE  /\ pc' \in [Requests -> Steps]
         /\ \A q \in Requests : pc'[q] = IF q = r THEN l ELSE pc[q]
  BY DEF TypeOK

\* What changes when a request has a result.
LEMMA ResultFacts ==
  ASSUME TypeOK, NEW r \in Requests, NEW res \in Results, result' = [result EXCEPT ![r] = res]
  PROVE  /\ result' \in [Requests -> Results]
         /\ \A q \in Requests : result'[q] = IF q = r THEN res ELSE result[q]
  BY DEF TypeOK

\* Semaphores and permits, for a step of a request that stays inside, or returns.
LEMMA SemaphoreFrame ==
  ASSUME Inv, NEW r \in Requests, pc[r] \in Inside,
         NEW l \in Inside \cup {"leaving", "ended"},
         \A q \in Requests : pc'[q] = IF q = r THEN l ELSE pc[q],
         UNCHANGED <<kind, semVars, cancelled>>,
         l = "leaving" => r \in permits,
         l = "ended" => r \notin permits,
         kind[r] = "claim" => l \in {"set", "login", "ended"}
  PROVE  SemaphoreInv' /\ PermitInv'
<1>1. kind' = kind /\ ref' = ref /\ permits' = permits /\ limits' = limits /\ cancelled' = cancelled
  BY DEF semVars
<1>2. permits \subseteq Requests
  BY DEF Inv, TypeOK
<1>3. l = "ended" => ref[r] = None
  BY ReturnFacts
<1>4. RefsOwnEntry'
  BY <1>1 DEF Inv, SemaphoreInv, RefsOwnEntry
<1>5. RefsWhileNeeded'
  BY <1>1, <1>3 DEF Inv, SemaphoreInv, RefsWhileNeeded, Inside
<1>6. EntriesDiffer'
  BY <1>1 DEF Inv, SemaphoreInv, EntriesDiffer
<1>7. EntriesHaveUsers'
  BY <1>1 DEF Inv, SemaphoreInv, EntriesHaveUsers, Inside
<1>8. PermitsDiffer'
  BY <1>1 DEF Inv, PermitInv, PermitsDiffer
<1>9. PermitsAtWork'
  BY <1>1, <1>2 DEF Inv, PermitInv, PermitsAtWork
<1>10. InsideWithPermit'
  BY <1>1 DEF Inv, PermitInv, InsideWithPermit, Inside
<1>11. ClaimsApart'
  BY <1>1 DEF Inv, PermitInv, ClaimsApart
<1> QED
  BY <1>4, <1>5, <1>6, <1>7, <1>8, <1>9, <1>10, <1>11 DEF SemaphoreInv, PermitInv

\* Where a request is that has not sent a creation.
Early == {"idle", "semaphore", "waiting", "lookup", "whitelist", "send"}

\* Accounts and passwords, for a step that changes neither; who goes away from a
\* creation makes its key a lost one.
LEMMA AccountFrame ==
  ASSUME Inv, NEW r \in Requests, NEW l, NEW res,
         \A q \in Requests : pc'[q] = IF q = r THEN l ELSE pc[q],
         \A q \in Requests : result'[q] = IF q = r THEN res ELSE result[q],
         UNCHANGED <<accounts, pending, replies, passwordVars>>, lost \subseteq lost',
         l \in Early => pc[r] \in Early,
         l \in {"whitelist", "send"} /\ KeyOf[r] \in accounts => KeyOf[r] \in lost,
         l \notin {"creating", "set", "login"},
         r \in pending => KeyOf[r] \in lost',
         res = "conflict" => KeyOf[r] \in lost',
         res # "wrong password"
  PROVE  AccountInv'
<1>1. /\ accounts' = accounts /\ pending' = pending /\ replies' = replies
      /\ stored' = stored /\ password' = password /\ mine' = mine
  BY DEF passwordVars
<1>2. pending \subseteq Requests
  BY DEF Inv, TypeOK
<1>3. CreatesOnce'
  BY <1>1 DEF Inv, AccountInv, CreatesOnce, Early
<1>4. CreationsAwaited'
  BY <1>1, <1>2 DEF Inv, AccountInv, CreationsAwaited, Creates
<1>5. PasswordsAgree'
  BY <1>1 DEF Inv, AccountInv, PasswordsAgree
<1>6. NoConflict'
  BY DEF Inv, AccountInv, NoConflict
<1> QED
  BY <1>3, <1>4, <1>5, <1>6 DEF AccountInv

\* Whoever has a creation under way that is not lost waits for it.
LEMMA PendingFacts ==
  ASSUME Inv, NEW r \in Requests, r \in pending, pc[r] # "creating"
  PROVE  KeyOf[r] \in lost
  BY DEF Inv, AccountInv, CreationsAwaited

\* What is known of a result that a request keeps.
LEMMA KeptResult ==
  ASSUME Inv, NEW r \in Requests
  PROVE  result[r] \in Results /\ (result[r] = "conflict" => KeyOf[r] \in lost) /\ result[r] # "wrong password"
  BY DEF Inv, TypeOK, AccountInv, NoConflict

-----------------------------------------------------------------------------
(* The steps of a request *)

\* The step of a request that returns, or goes on inside, and changes nothing else.
LEMMA MoveInv ==
  ASSUME Inv, NEW r \in Requests, pc[r] \in Inside,
         NEW l \in {"whitelist", "send", "credential", "leaving", "ended"}, NEW res \in Results,
         pc' = [pc EXCEPT ![r] = l], result' = [result EXCEPT ![r] = res],
         UNCHANGED <<kind, semVars, accounts, pending, replies, passwordVars, cancelled>>,
         lost' \subseteq Keys, lost \subseteq lost',
         l = "leaving" => r \in permits,
         l = "ended" => r \notin permits,
         kind[r] = "claim" => l = "ended",
         l \in Early => pc[r] \in Early,
         l \in {"whitelist", "send"} /\ KeyOf[r] \in accounts => KeyOf[r] \in lost,
         r \in pending => KeyOf[r] \in lost',
         res = "conflict" => KeyOf[r] \in lost',
         res # "wrong password"
  PROVE  Inv'
<1>1. TypeOK /\ l \in Steps /\ l \in Inside \cup {"leaving", "ended"}
  BY DEF Inv, Steps, Inside
<1>2. /\ pc' \in [Requests -> Steps]
      /\ \A q \in Requests : pc'[q] = IF q = r THEN l ELSE pc[q]
  BY <1>1, PcFacts
<1>3. /\ result' \in [Requests -> Results]
      /\ \A q \in Requests : result'[q] = IF q = r THEN res ELSE result[q]
  BY <1>1, ResultFacts
<1>4. TypeOK'
  BY <1>1, <1>2, <1>3 DEF TypeOK, semVars, passwordVars
<1>5. SemaphoreInv' /\ PermitInv'
  BY <1>1, <1>2, SemaphoreFrame
<1>6. AccountInv'
  BY <1>2, <1>3, AccountFrame
<1> QED
  BY <1>4, <1>5, <1>6 DEF Inv

\* Return, for a request that is inside.
LEMMA ReturnInv ==
  ASSUME Inv, NEW r \in Requests, pc[r] \in Inside, NEW res \in Results, Return(r, res),
         UNCHANGED <<kind, semVars, accounts, pending, replies, passwordVars, cancelled>>,
         lost' \subseteq Keys, lost \subseteq lost',
         r \in pending => KeyOf[r] \in lost',
         res = "conflict" => KeyOf[r] \in lost',
         res # "wrong password"
  PROVE  Inv'
<1>1. CASE r \in permits
  <2>1. pc' = [pc EXCEPT ![r] = "leaving"] /\ result' = [result EXCEPT ![r] = res]
    BY <1>1 DEF Return
  <2>2. kind[r] # "claim"
    BY <1>1, ReturnFacts
  <2> QED
    BY <1>1, <2>1, <2>2, MoveInv DEF Early
<1>2. CASE r \notin permits
  <2>1. pc' = [pc EXCEPT ![r] = "ended"] /\ result' = [result EXCEPT ![r] = res]
    BY <1>2 DEF Return
  <2> QED
    BY <1>2, <2>1, MoveInv DEF Early
<1> QED
  BY <1>1, <1>2

\* Goto, for a request that goes on inside.
LEMMA GotoInv ==
  ASSUME Inv, NEW r \in Requests, pc[r] \in Inside, NEW l \in {"whitelist", "send", "credential"},
         Goto(r, l), kind[r] # "claim",
         UNCHANGED <<kind, semVars, accountVars, passwordVars, cancelled>>,
         l \in Early => pc[r] \in Early,
         l \in {"whitelist", "send"} /\ KeyOf[r] \in accounts => KeyOf[r] \in lost,
         r \in pending => KeyOf[r] \in lost
  PROVE  Inv'
<1>1. pc' = [pc EXCEPT ![r] = l] /\ result' = [result EXCEPT ![r] = result[r]]
  BY DEF Goto, Inv, TypeOK
<1>2. result[r] \in Results /\ (result[r] = "conflict" => KeyOf[r] \in lost) /\ result[r] # "wrong password"
  BY KeptResult
<1>3. /\ UNCHANGED <<accounts, pending, replies>> /\ lost' = lost /\ lost \subseteq Keys
  BY DEF accountVars, Inv, TypeOK
<1> QED
  BY <1>1, <1>2, <1>3, MoveInv

\* Found, for a request that is not a claim.
LEMMA FoundInv ==
  ASSUME Inv, NEW r \in Requests, pc[r] \in Inside, Found(r), kind[r] # "claim",
         UNCHANGED <<kind, semVars, accountVars, passwordVars, cancelled>>,
         r \in pending => KeyOf[r] \in lost
  PROVE  Inv'
<1>1. /\ UNCHANGED <<accounts, pending, replies>> /\ lost' = lost /\ lost \subseteq Keys
  BY DEF accountVars, Inv, TypeOK
<1>2. CASE kind[r] = "login"
  BY <1>2, GotoInv DEF Found, Early
<1>3. CASE kind[r] # "login"
  BY <1>1, <1>3, ReturnInv DEF Found, Results
<1> QED
  BY <1>2, <1>3

\* The search for the account: it is found, or there is none yet.
LEMMA LookupInv ==
  ASSUME Inv, NEW r \in Requests, NEW ok \in BOOLEAN, Lookup(r, ok)
  PROVE  Inv'
<1>1. /\ pc[r] = "lookup" /\ pc[r] \in Inside /\ pc[r] \in Early
      /\ UNCHANGED <<kind, semVars, accountVars, passwordVars, cancelled>>
  BY DEF Lookup, Inside, Early
<1>2. kind[r] # "claim" /\ (r \in pending => KeyOf[r] \in lost)
  BY <1>1, ReturnFacts, PendingFacts
<1>3. /\ UNCHANGED <<accounts, pending, replies>> /\ lost' = lost /\ lost \subseteq Keys
  BY <1>1 DEF accountVars, Inv, TypeOK
<1>4. CASE ~ok
  <2>1. Return(r, "failed")
    BY <1>4 DEF Lookup
  <2> QED
    BY <1>1, <1>2, <1>3, <2>1, ReturnInv DEF Results
<1>5. CASE ok /\ KeyOf[r] \in accounts
  <2>1. Found(r)
    BY <1>5 DEF Lookup
  <2> QED
    BY <1>1, <1>2, <2>1, FoundInv
<1>6. CASE ok /\ KeyOf[r] \notin accounts
  <2>1. Goto(r, "whitelist")
    BY <1>6 DEF Lookup
  <2> QED
    BY <1>1, <1>2, <1>6, <2>1, GotoInv
<1> QED
  BY <1>4, <1>5, <1>6

\* The key is put on the list; there is still no account, or somebody else's creation is
\* a lost one.
LEMMA WhitelistInv ==
  ASSUME Inv, NEW r \in Requests, NEW ok \in BOOLEAN, Whitelist(r, ok)
  PROVE  Inv'
<1>1. /\ pc[r] = "whitelist" /\ pc[r] \in Inside /\ pc[r] \in Early
      /\ UNCHANGED <<kind, semVars, accountVars, passwordVars, cancelled>>
  BY DEF Whitelist, Inside, Early
<1>2. kind[r] # "claim" /\ (r \in pending => KeyOf[r] \in lost)
  BY <1>1, ReturnFacts, PendingFacts
<1>3. /\ UNCHANGED <<accounts, pending, replies>> /\ lost' = lost /\ lost \subseteq Keys
  BY <1>1 DEF accountVars, Inv, TypeOK
<1>4. CASE ~ok
  <2>1. Return(r, "failed")
    BY <1>4 DEF Whitelist
  <2> QED
    BY <1>1, <1>2, <1>3, <2>1, ReturnInv DEF Results
<1>5. CASE ok
  <2>1. Goto(r, "send")
    BY <1>5 DEF Whitelist
  <2>2. KeyOf[r] \in accounts => KeyOf[r] \in lost
    BY <1>1 DEF Inv, AccountInv, CreationsAwaited, Creates
  <2> QED
    BY <1>1, <1>2, <2>1, <2>2, GotoInv
<1> QED
  BY <1>4, <1>5

\* The reply to a creation: a conflict means that the key is a lost one.
LEMMA CreatedInv ==
  ASSUME Inv, NEW r \in Requests, Created(r)
  PROVE  Inv'
<1>1. /\ pc[r] = "creating" /\ pc[r] \in Inside /\ replies[r] # "none"
      /\ UNCHANGED <<kind, semVars, accountVars, passwordVars, cancelled>>
  BY DEF Created, Inside
<1>2. kind[r] # "claim" /\ r \notin pending
  BY <1>1, ReturnFacts DEF Inv, AccountInv, CreatesOnce
<1>3. /\ UNCHANGED <<accounts, pending, replies>> /\ lost' = lost /\ lost \subseteq Keys
  BY <1>1 DEF accountVars, Inv, TypeOK
<1>4. CASE replies[r] = "ok"
  BY <1>1, <1>2, <1>4, FoundInv DEF Created
<1>5. CASE replies[r] # "ok"
  <2> DEFINE res == IF replies[r] = "conflict" THEN "conflict" ELSE "failed"
  <2>1. Return(r, res)
    BY <1>5 DEF Created
  <2>2. res \in Results /\ res # "wrong password" /\ (res = "conflict" => KeyOf[r] \in lost)
    BY DEF Results, Inv, AccountInv, CreationsAwaited
  <2> HIDE DEF res
  <2> QED
    BY <1>1, <1>2, <1>3, <2>1, <2>2, ReturnInv
<1> QED
  BY <1>4, <1>5

\* Who goes away makes its key a lost one.
LEMMA AbandonFacts ==
  ASSUME Inv, NEW r \in Requests, Abandon(r)
  PROVE  lost' \subseteq Keys /\ lost \subseteq lost' /\ (r \in pending => KeyOf[r] \in lost')
  BY LoginAssumption DEF Abandon, Inv, TypeOK

\* The reply is lost: the creation, if it is still under way, is one that nobody waits
\* for.
LEMMA CreateLostInv ==
  ASSUME Inv, NEW r \in Requests, CreateLost(r)
  PROVE  Inv'
<1>1. /\ pc[r] \in Inside /\ Return(r, "failed") /\ Abandon(r)
      /\ UNCHANGED <<kind, semVars, accounts, pending, replies, passwordVars, cancelled>>
  BY DEF CreateLost, Inside
<1> QED
  BY <1>1, AbandonFacts, ReturnInv DEF Results

\* The password that is sent is the one of the account.
LEMMA PasswordLoginInv ==
  ASSUME Inv, NEW r \in Requests, NEW ok \in BOOLEAN, PasswordLogin(r, ok)
  PROVE  Inv'
<1>1. /\ pc[r] = "login" /\ pc[r] \in Inside
      /\ UNCHANGED <<kind, semVars, accountVars, passwordVars, cancelled>>
  BY DEF PasswordLogin, Inside
<1>2. password[KeyOf[r]] = mine[r]
  BY <1>1 DEF Inv, AccountInv, PasswordsAgree
<1>3. PICK res \in {"ok", "failed"} : Return(r, res)
  BY <1>2 DEF PasswordLogin
<1>4. /\ UNCHANGED <<accounts, pending, replies>> /\ lost' = lost /\ lost \subseteq Keys
  BY <1>1 DEF accountVars, Inv, TypeOK
<1>5. r \in pending => KeyOf[r] \in lost
  BY <1>1, PendingFacts
<1> QED
  BY <1>1, <1>3, <1>4, <1>5, ReturnInv DEF Results

\* The creation is sent by the only request that is inside, and nobody has answered it.
LEMMA SendCreateInv ==
  ASSUME Inv, NEW r \in Requests, SendCreate(r)
  PROVE  Inv'
<1>1. /\ pc[r] = "send" /\ pc[r] \in Inside /\ pc' = [pc EXCEPT ![r] = "creating"] /\ result' = result
      /\ pending' = pending \cup {r}
      /\ UNCHANGED <<kind, semVars, accounts, replies, lost, passwordVars, cancelled>>
  BY DEF SendCreate, Goto, Inside
<1>2. /\ pc' \in [Requests -> Steps]
      /\ \A q \in Requests : pc'[q] = IF q = r THEN "creating" ELSE pc[q]
  BY <1>1, PcFacts DEF Inv, Steps, Inside
<1>3. TypeOK'
  BY <1>1, <1>2 DEF Inv, TypeOK, semVars, passwordVars
<1>4. SemaphoreInv' /\ PermitInv'
  <2>1. kind[r] # "claim"
    BY <1>1, ReturnFacts
  <2> QED
    BY <1>1, <1>2, <2>1, SemaphoreFrame DEF Inside
<1>5. AccountInv'
  <2>1. replies[r] = "none" /\ (KeyOf[r] \in accounts => KeyOf[r] \in lost)
    BY <1>1 DEF Inv, AccountInv, CreatesOnce, CreationsAwaited, Creates
  <2>2. pending \subseteq Requests
    BY DEF Inv, TypeOK
  <2>3. CreatesOnce'
    BY <1>1, <1>2, <2>1 DEF Inv, AccountInv, CreatesOnce
  <2>4. CreationsAwaited'
    BY <1>1, <1>2, <2>1, <2>2 DEF Inv, AccountInv, CreationsAwaited, Creates
  <2>5. PasswordsAgree'
    BY <1>1, <1>2 DEF Inv, AccountInv, PasswordsAgree, passwordVars
  <2>6. NoConflict'
    BY <1>1 DEF Inv, AccountInv, NoConflict
  <2> QED
    BY <2>3, <2>4, <2>5, <2>6 DEF AccountInv
<1> QED
  BY <1>3, <1>4, <1>5 DEF Inv

\* The account is created for a request that still waits, which is then the only one
\* that is inside, or the key is a lost one.
LEMMA CreateUserInv ==
  ASSUME Inv, NEW r \in Requests, NEW allowed \in BOOLEAN, CreateUser(r, allowed)
  PROVE  Inv'
<1> DEFINE reply == CASE KeyOf[r] \in accounts -> "conflict"
                      [] ~allowed -> "refused"
                      [] OTHER -> "ok"
<1>1. /\ r \in pending /\ pending' = pending \ {r}
      /\ replies' = [replies EXCEPT ![r] = reply]
      /\ accounts' = IF allowed THEN accounts \cup {KeyOf[r]} ELSE accounts
      /\ UNCHANGED <<loginVars, semVars, lost, passwordVars, cancelled>>
  BY DEF CreateUser
<1>2. reply \in {"ok", "conflict", "refused"} /\ (reply = "conflict" => KeyOf[r] \in accounts)
  OBVIOUS
<1> HIDE DEF reply
<1>3. /\ pc' = pc /\ kind' = kind /\ result' = result /\ ref' = ref /\ permits' = permits /\ limits' = limits
      /\ stored' = stored /\ password' = password /\ mine' = mine /\ lost' = lost /\ cancelled' = cancelled
  BY <1>1 DEF loginVars, semVars, passwordVars
<1>4. /\ replies' \in [Requests -> {"none", "ok", "conflict", "refused"}]
      /\ \A q \in Requests : replies'[q] = IF q = r THEN reply ELSE replies[q]
  BY <1>1, <1>2 DEF Inv, TypeOK
<1>5. TypeOK'
  BY <1>1, <1>3, <1>4, LoginAssumption DEF Inv, TypeOK
<1>6. SemaphoreInv'
  BY <1>3 DEF Inv, SemaphoreInv, RefsOwnEntry, RefsWhileNeeded, EntriesDiffer, EntriesHaveUsers
<1>7. PermitInv'
  BY <1>3 DEF Inv, PermitInv, PermitsDiffer, PermitsAtWork, InsideWithPermit, ClaimsApart
<1>8. AccountInv'
  <2>1. pending \subseteq Requests
    BY DEF Inv, TypeOK
  <2>2. CreatesOnce'
    <3>1. pc[r] \notin Early
      BY <1>1 DEF Inv, AccountInv, CreatesOnce, Early
    <3> QED
      BY <1>1, <1>3, <1>4, <3>1 DEF Inv, AccountInv, CreatesOnce, Early
  <2>3. CreationsAwaited'
    <3>1. \A q \in pending' : KeyOf[q] \in lost' \/ pc'[q] = "creating"
      BY <1>1, <1>3 DEF Inv, AccountInv, CreationsAwaited
    <3>2. ASSUME NEW q \in Requests, Creates(q)', KeyOf[q] \in accounts'
          PROVE  KeyOf[q] \in lost'
      <4>1. Creates(q) /\ pc[q] \in Inside
        BY <1>1, <1>3, <3>2 DEF Creates, Inside
      <4>2. CASE KeyOf[q] \in accounts
        BY <1>3, <4>1, <4>2 DEF Inv, AccountInv, CreationsAwaited
      <4>3. CASE KeyOf[q] = KeyOf[r] /\ pc[r] # "creating"
        BY <1>1, <1>3, <4>3, PendingFacts
      <4>4. CASE KeyOf[q] = KeyOf[r] /\ pc[r] = "creating"
        <5>1. q # r
          BY <1>1, <1>3, <3>2, <4>4 DEF Creates
        <5>2. kind[q] # "claim" /\ kind[r] # "claim"
          BY <3>2, <1>3, <4>4 DEF Inv, PermitInv, ClaimsApart, Creates
        <5>3. pc[r] \in Inside
          BY <4>4 DEF Inside
        <5> QED
          BY <4>1, <4>4, <5>1, <5>2, <5>3, InvOneInside DEF OneInside
      <4> QED
        BY <1>1, <3>2, <4>2, <4>3, <4>4
    <3>3. KeyOf[r] \in accounts => KeyOf[r] \in lost
      BY <1>1 DEF Inv, AccountInv, CreationsAwaited, Creates
    <3>4. \A q \in Requests : replies'[q] = "conflict" => KeyOf[q] \in lost'
      BY <1>2, <1>3, <1>4, <3>3 DEF Inv, AccountInv, CreationsAwaited
    <3> QED
      BY <3>1, <3>2, <3>4 DEF CreationsAwaited
  <2>4. PasswordsAgree' /\ NoConflict'
    BY <1>3 DEF Inv, AccountInv, PasswordsAgree, NoConflict
  <2> QED
    BY <2>2, <2>3, <2>4 DEF AccountInv
<1> QED
  BY <1>5, <1>6, <1>7, <1>8 DEF Inv

\* The part of the accounts that has to do with creations, for a request at work on its
\* password.
LEMMA PasswordFrame ==
  ASSUME Inv, NEW r \in Requests, NEW l, pc[r] \in {"credential", "set"}, l \in {"set", "login"},
         \A q \in Requests : pc'[q] = IF q = r THEN l ELSE pc[q],
         result' = result, UNCHANGED accountVars
  PROVE  CreatesOnce' /\ CreationsAwaited' /\ NoConflict'
<1>1. accounts' = accounts /\ pending' = pending /\ replies' = replies /\ lost' = lost
  BY DEF accountVars
<1>2. pending \subseteq Requests
  BY DEF Inv, TypeOK
<1>3. CreatesOnce'
  BY <1>1 DEF Inv, AccountInv, CreatesOnce
<1>4. CreationsAwaited'
  BY <1>1, <1>2 DEF Inv, AccountInv, CreationsAwaited, Creates
<1>5. NoConflict'
  BY <1>1 DEF Inv, AccountInv, NoConflict
<1> QED
  BY <1>3, <1>4, <1>5

\* A stored password is never replaced.
LEMMA GetPasswordInv ==
  ASSUME Inv, NEW r \in Requests, GetPassword(r)
  PROVE  Inv'
<1>1. /\ pc[r] = "credential" /\ pc[r] \in Inside /\ pc' = [pc EXCEPT ![r] = "set"] /\ result' = result
      /\ UNCHANGED <<kind, semVars, accountVars, password, cancelled>>
  BY DEF GetPassword, Goto, Inside
<1>2. /\ pc' \in [Requests -> Steps]
      /\ \A q \in Requests : pc'[q] = IF q = r THEN "set" ELSE pc[q]
  BY <1>1, PcFacts DEF Inv, Steps, Inside
<1>3. PICK p \in Passwords :
        /\ mine' = [mine EXCEPT ![r] = p]
        /\ \/ stored[KeyOf[r]] = p /\ stored' = stored
           \/ stored[KeyOf[r]] = None /\ stored' = [stored EXCEPT ![KeyOf[r]] = p]
  BY LoginAssumption DEF GetPassword, Inv, TypeOK
<1>4. p # None /\ KeyOf[r] \in Keys
  BY LoginAssumption
<1>5. /\ mine' \in [Requests -> Passwords \cup {None}] /\ stored' \in [Keys -> Passwords \cup {None}]
      /\ \A q \in Requests : mine'[q] = IF q = r THEN p ELSE mine[q]
      /\ stored'[KeyOf[r]] = p
      /\ \A k \in Keys : stored[k] # None => stored'[k] = stored[k]
  BY <1>3, <1>4 DEF Inv, TypeOK
<1>6. TypeOK'
  BY <1>1, <1>2, <1>5 DEF Inv, TypeOK, semVars, accountVars
<1>7. SemaphoreInv' /\ PermitInv'
  BY <1>1, <1>2, SemaphoreFrame DEF Inside
<1>8. CreatesOnce' /\ CreationsAwaited' /\ NoConflict'
  BY <1>1, <1>2, PasswordFrame
<1>9. PasswordsAgree'
  <2> SUFFICES ASSUME NEW q \in Requests
               PROVE  /\ pc'[q] \in {"set", "login"} => mine'[q] = stored'[KeyOf[q]] /\ mine'[q] # None
                      /\ pc'[q] = "login" => password'[KeyOf[q]] = stored'[KeyOf[q]]
    BY DEF PasswordsAgree
  <2>1. CASE q = r
    BY <1>2, <1>4, <1>5, <2>1
  <2>2. CASE q # r
    <3>1. KeyOf[q] \in Keys /\ password' = password
      BY <1>1, LoginAssumption
    <3>2. /\ pc[q] \in {"set", "login"} => mine[q] = stored[KeyOf[q]] /\ mine[q] # None
          /\ pc[q] = "login" => password[KeyOf[q]] = stored[KeyOf[q]]
      BY DEF Inv, AccountInv, PasswordsAgree
    <3> QED
      BY <1>2, <1>5, <2>2, <3>1, <3>2
  <2> QED
    BY <2>1, <2>2
<1> QED
  BY <1>6, <1>7, <1>8, <1>9 DEF Inv, AccountInv

\* Whoever sets the password of an account sets the one that is stored.
LEMMA SetPasswordInv ==
  ASSUME Inv, NEW r \in Requests, NEW ok \in BOOLEAN, SetPassword(r, ok)
  PROVE  Inv'
<1>1. /\ pc[r] = "set" /\ pc[r] \in Inside
      /\ UNCHANGED <<kind, semVars, accountVars, stored, mine, cancelled>>
  BY DEF SetPassword, Inside
<1>2. CASE ~ok
  <2>1. Return(r, "failed") /\ password' = password
    BY <1>2 DEF SetPassword
  <2>2. /\ UNCHANGED <<accounts, pending, replies, passwordVars>> /\ lost' = lost /\ lost \subseteq Keys
    BY <1>1, <2>1 DEF accountVars, passwordVars, Inv, TypeOK
  <2>3. r \in pending => KeyOf[r] \in lost
    BY <1>1, PendingFacts
  <2> QED
    BY <1>1, <2>1, <2>2, <2>3, ReturnInv DEF Results
<1>3. CASE ok
  <2>1. /\ pc' = [pc EXCEPT ![r] = "login"] /\ result' = result
        /\ password' = [password EXCEPT ![KeyOf[r]] = mine[r]]
    BY <1>3 DEF SetPassword, Goto
  <2>2. /\ pc' \in [Requests -> Steps]
        /\ \A q \in Requests : pc'[q] = IF q = r THEN "login" ELSE pc[q]
    BY <2>1, PcFacts DEF Inv, Steps, Inside
  <2>3. /\ password' \in [Keys -> Passwords \cup {None}]
        /\ \A k \in Keys : password'[k] = IF k = KeyOf[r] THEN mine[r] ELSE password[k]
    BY <2>1, LoginAssumption DEF Inv, TypeOK
  <2>4. TypeOK'
    BY <1>1, <2>1, <2>2, <2>3 DEF Inv, TypeOK, semVars, accountVars
  <2>5. SemaphoreInv' /\ PermitInv'
    BY <1>1, <2>2, SemaphoreFrame DEF Inside
  <2>6. CreatesOnce' /\ CreationsAwaited' /\ NoConflict'
    BY <1>1, <2>1, <2>2, PasswordFrame
  <2>7. PasswordsAgree'
    <3>1. mine[r] = stored[KeyOf[r]] /\ mine[r] # None
      BY <1>1 DEF Inv, AccountInv, PasswordsAgree
    <3> QED
      BY <1>1, <2>2, <2>3, <3>1, LoginAssumption DEF Inv, AccountInv, PasswordsAgree
  <2> QED
    BY <2>4, <2>5, <2>6, <2>7 DEF Inv, AccountInv
<1> QED
  BY <1>2, <1>3

-----------------------------------------------------------------------------
(* Semaphores and permits *)

\* A request that is not inside has no permit, but for the one that gives it back.
LEMMA OutsideFacts ==
  ASSUME Inv, NEW r \in Requests, pc[r] \notin Inside \cup {"leaving"}
  PROVE  r \notin permits
  BY DEF Inv, PermitInv, PermitsAtWork

\* Semaphores and permits, for a request that comes, and refers to none.
LEMMA ArriveFrame ==
  ASSUME Inv, NEW r \in Requests, pc[r] = "idle", NEW l, NEW k,
         \/ l \in {"semaphore", "ended"} /\ k # "claim"
         \/ l = "credential" /\ k = "claim",
         \A q \in Requests : pc'[q] = IF q = r THEN l ELSE pc[q],
         \A q \in Requests : kind'[q] = IF q = r THEN k ELSE kind[q],
         UNCHANGED <<semVars, cancelled>>
  PROVE  SemaphoreInv' /\ PermitInv'
<1>1. ref' = ref /\ permits' = permits /\ limits' = limits /\ cancelled' = cancelled
  BY DEF semVars
<1>2. permits \subseteq Requests
  BY DEF Inv, TypeOK
<1>3. ref[r] = None /\ r \notin permits
  BY OutsideFacts DEF Inv, SemaphoreInv, RefsWhileNeeded, Inside
<1>4. RefsOwnEntry' /\ EntriesDiffer'
  BY <1>1 DEF Inv, SemaphoreInv, RefsOwnEntry, EntriesDiffer
<1>5. RefsWhileNeeded'
  BY <1>1, <1>3 DEF Inv, SemaphoreInv, RefsWhileNeeded, Inside
<1>6. EntriesHaveUsers'
  BY <1>1 DEF Inv, SemaphoreInv, EntriesHaveUsers
<1>7. PermitsDiffer'
  BY <1>1 DEF Inv, PermitInv, PermitsDiffer
<1>8. PermitsAtWork'
  BY <1>1, <1>2, <1>3 DEF Inv, PermitInv, PermitsAtWork
<1>9. InsideWithPermit'
  BY <1>1 DEF Inv, PermitInv, InsideWithPermit, Inside
<1>10. ClaimsApart'
  BY <1>1, <1>3 DEF Inv, PermitInv, ClaimsApart
<1> QED
  BY <1>4, <1>5, <1>6, <1>7, <1>8, <1>9, <1>10 DEF SemaphoreInv, PermitInv

\* Accounts and passwords, for a request that goes to a place where it has nothing to do
\* with them.
LEMMA AwayFrame ==
  ASSUME Inv, NEW r \in Requests, NEW l, pc[r] # "creating",
         l \notin {"whitelist", "send", "creating", "set", "login"},
         l \in Early => pc[r] \in Early,
         \A q \in Requests : pc'[q] = IF q = r THEN l ELSE pc[q],
         result' = result, UNCHANGED <<accountVars, passwordVars>>
  PROVE  AccountInv'
<1>1. /\ UNCHANGED <<accounts, pending, replies, passwordVars>> /\ lost' = lost
      /\ \A q \in Requests : result'[q] = IF q = r THEN result[r] ELSE result[q]
  BY DEF accountVars
<1>2. (result[r] = "conflict" => KeyOf[r] \in lost) /\ result[r] # "wrong password"
  BY KeptResult
<1>3. r \in pending => KeyOf[r] \in lost
  BY PendingFacts
<1>4. l \notin {"whitelist", "send"} /\ l \notin {"creating", "set", "login"}
  OBVIOUS
<1>5. lost \subseteq lost' /\ (r \in pending => KeyOf[r] \in lost') /\ (result[r] = "conflict" => KeyOf[r] \in lost')
  BY <1>1, <1>2, <1>3
<1> QED
  BY <1>1, <1>2, <1>4, <1>5, AccountFrame

\* A sign-in or the start of a flow arrives.
LEMMA ArriveInv ==
  ASSUME Inv, NEW r \in Requests, NEW k \in {"login", "start"}, NEW valid \in BOOLEAN,
         Arrive(r, k, valid)
  PROVE  Inv'
<1>1. /\ pc[r] = "idle" /\ kind' = [kind EXCEPT ![r] = k]
      /\ UNCHANGED <<semVars, accountVars, passwordVars, cancelled>>
  BY DEF Arrive
<1>2. r \notin permits /\ pc[r] \in Early
  BY <1>1, OutsideFacts DEF Inside, Early
<1>3. /\ kind' \in [Requests -> {"none", "login", "start", "claim"}]
      /\ \A q \in Requests : kind'[q] = IF q = r THEN k ELSE kind[q]
  BY <1>1 DEF Inv, TypeOK
<1>4. PICK l \in {"semaphore", "ended"}, res \in {result[r], "failed"} :
        pc' = [pc EXCEPT ![r] = l] /\ result' = [result EXCEPT ![r] = res]
  BY <1>2 DEF Arrive, Goto, Return, Inv, TypeOK
<1>5. /\ pc' \in [Requests -> Steps]
      /\ \A q \in Requests : pc'[q] = IF q = r THEN l ELSE pc[q]
  BY <1>4, PcFacts DEF Inv, Steps
<1>6. res \in Results /\ (res = "conflict" => KeyOf[r] \in lost) /\ res # "wrong password"
  BY KeptResult DEF Results
<1>7. /\ result' \in [Requests -> Results]
      /\ \A q \in Requests : result'[q] = IF q = r THEN res ELSE result[q]
  BY <1>4, <1>6, ResultFacts DEF Inv
<1>8. TypeOK'
  BY <1>1, <1>3, <1>5, <1>7 DEF Inv, TypeOK, semVars, accountVars, passwordVars
<1>9. SemaphoreInv' /\ PermitInv'
  BY <1>1, <1>3, <1>5, ArriveFrame
<1>10. AccountInv'
  <2>1. UNCHANGED <<accounts, pending, replies, passwordVars>> /\ lost' = lost
    BY <1>1 DEF accountVars
  <2>2. r \in pending => KeyOf[r] \in lost
    BY <1>1, PendingFacts
  <2>3. l \notin {"whitelist", "send", "creating", "set", "login"}
    BY <1>4
  <2> QED
    BY <1>2, <1>5, <1>6, <1>7, <2>1, <2>2, <2>3, AccountFrame
<1> QED
  BY <1>8, <1>9, <1>10 DEF Inv

\* The claim of a token arrives.
LEMMA ArriveClaimInv ==
  ASSUME Inv, NEW r \in Requests, ArriveClaim(r)
  PROVE  Inv'
<1>1. /\ pc[r] = "idle" /\ kind' = [kind EXCEPT ![r] = "claim"]
      /\ pc' = [pc EXCEPT ![r] = "credential"] /\ result' = result
      /\ UNCHANGED <<semVars, accountVars, passwordVars, cancelled>>
  BY DEF ArriveClaim, Goto
<1>2. /\ kind' \in [Requests -> {"none", "login", "start", "claim"}]
      /\ \A q \in Requests : kind'[q] = IF q = r THEN "claim" ELSE kind[q]
  BY <1>1 DEF Inv, TypeOK
<1>3. /\ pc' \in [Requests -> Steps]
      /\ \A q \in Requests : pc'[q] = IF q = r THEN "credential" ELSE pc[q]
  BY <1>1, PcFacts DEF Inv, Steps, Inside
<1>4. TypeOK'
  BY <1>1, <1>2, <1>3 DEF Inv, TypeOK, semVars, accountVars, passwordVars
<1>5. SemaphoreInv' /\ PermitInv'
  BY <1>1, <1>2, <1>3, ArriveFrame
<1>6. AccountInv'
  BY <1>1, <1>3, AwayFrame DEF Early
<1> QED
  BY <1>4, <1>5, <1>6 DEF Inv

\* The entry of the key, an old or a new one, is the semaphore that the request refers
\* to; nobody referred to a new one.
LEMMA GetSemaphoreInv ==
  ASSUME Inv, NEW r \in Requests, GetSemaphore(r)
  PROVE  Inv'
<1>1. /\ pc[r] = "semaphore" /\ pc' = [pc EXCEPT ![r] = "waiting"] /\ result' = result
      /\ UNCHANGED <<kind, permits, accountVars, passwordVars, cancelled>>
  BY DEF GetSemaphore, Goto
<1>2. KeyOf[r] \in Keys
  BY LoginAssumption
<1>3. PICK s \in Semaphores :
        /\ ref' = [ref EXCEPT ![r] = s]
        /\ \/ limits[KeyOf[r]] = s /\ limits' = limits
           \/ limits[KeyOf[r]] = None /\ Fresh(s) /\ limits' = [limits EXCEPT ![KeyOf[r]] = s]
  BY <1>2 DEF GetSemaphore, Inv, TypeOK
<1>4. s # None
  BY LoginAssumption
<1>5. /\ pc' \in [Requests -> Steps]
      /\ \A q \in Requests : pc'[q] = IF q = r THEN "waiting" ELSE pc[q]
  BY <1>1, PcFacts DEF Inv, Steps
<1>6. /\ ref' \in [Requests -> Semaphores \cup {None}]
      /\ \A q \in Requests : ref'[q] = IF q = r THEN s ELSE ref[q]
      /\ limits' \in [Keys -> Semaphores \cup {None}]
      /\ \A k \in Keys : limits'[k] = IF k = KeyOf[r] THEN s ELSE limits[k]
  BY <1>2, <1>3 DEF Inv, TypeOK
<1>7. \A k \in Keys : limits[k] = s => k = KeyOf[r]
  BY <1>2, <1>3, <1>4 DEF Fresh, Inv, SemaphoreInv, EntriesDiffer
<1>8. r \notin permits /\ permits \subseteq Requests /\ kind' = kind /\ permits' = permits /\ cancelled' = cancelled
  BY <1>1, OutsideFacts DEF Inside, Inv, TypeOK
<1>9. kind[r] # "claim"
  BY <1>1 DEF Inv, PermitInv, ClaimsApart
<1>10. TypeOK'
  BY <1>1, <1>4, <1>5, <1>6, <1>8 DEF Inv, TypeOK, accountVars, passwordVars
<1>11. RefsOwnEntry'
  <2>1. \A q \in Requests : q # r /\ ref[q] # None /\ KeyOf[q] = KeyOf[r] => ref[q] = s
    BY <1>3 DEF Inv, SemaphoreInv, RefsOwnEntry
  <2> QED
    BY <1>6, <2>1, LoginAssumption DEF Inv, SemaphoreInv, RefsOwnEntry
<1>12. RefsWhileNeeded'
  BY <1>4, <1>5, <1>6 DEF Inv, SemaphoreInv, RefsWhileNeeded, Inside
<1>13. EntriesDiffer'
  BY <1>6, <1>7 DEF Inv, SemaphoreInv, EntriesDiffer
<1>14. EntriesHaveUsers'
  <2> SUFFICES ASSUME NEW k \in Keys, limits'[k] # None
               PROVE  \E q \in Requests : KeyOf[q] = k /\ (q \in cancelled' \/ ref'[q] # None \/ pc'[q] = "dropped")
    BY DEF EntriesHaveUsers
  <2>1. CASE k = KeyOf[r]
    BY <1>4, <1>6, <2>1
  <2>2. CASE k # KeyOf[r]
    <3>1. PICK q \in Requests : KeyOf[q] = k /\ (q \in cancelled \/ ref[q] # None \/ pc[q] = "dropped")
      BY <1>6, <2>2 DEF Inv, SemaphoreInv, EntriesHaveUsers
    <3> QED
      BY <1>5, <1>6, <1>8, <2>2, <3>1
  <2> QED
    BY <2>1, <2>2
<1>15. PermitsDiffer'
  BY <1>6, <1>8 DEF Inv, PermitInv, PermitsDiffer
<1>16. PermitsAtWork'
  BY <1>5, <1>8 DEF Inv, PermitInv, PermitsAtWork
<1>17. InsideWithPermit'
  BY <1>5, <1>8 DEF Inv, PermitInv, InsideWithPermit, Inside
<1>18. ClaimsApart'
  BY <1>5, <1>6, <1>8, <1>9 DEF Inv, PermitInv, ClaimsApart
<1>19. AccountInv'
  BY <1>1, <1>5, AwayFrame DEF Early
<1> QED
  BY <1>10, <1>11, <1>12, <1>13, <1>14, <1>15, <1>16, <1>17, <1>18, <1>19
  DEF Inv, SemaphoreInv, PermitInv

\* The permit is acquired when no other request has one of that semaphore.
LEMMA AcquireInv ==
  ASSUME Inv, NEW r \in Requests, Acquire(r)
  PROVE  Inv'
<1>1. /\ pc[r] = "waiting" /\ pc' = [pc EXCEPT ![r] = "lookup"] /\ result' = result
      /\ permits' = permits \cup {r} /\ (\A q \in permits : ref[q] # ref[r])
      /\ UNCHANGED <<kind, ref, limits, accountVars, passwordVars, cancelled>>
  BY DEF Acquire, Goto
<1>2. /\ pc' \in [Requests -> Steps]
      /\ \A q \in Requests : pc'[q] = IF q = r THEN "lookup" ELSE pc[q]
  BY <1>1, PcFacts DEF Inv, Steps, Inside
<1>3. ref[r] # None /\ permits \subseteq Requests
  BY <1>1 DEF Inv, SemaphoreInv, RefsWhileNeeded, TypeOK
<1>4. kind[r] # "claim"
  BY <1>1 DEF Inv, PermitInv, ClaimsApart
<1>5. kind' = kind /\ ref' = ref /\ limits' = limits /\ cancelled' = cancelled
  BY <1>1
<1>6. TypeOK'
  BY <1>1, <1>2, <1>3 DEF Inv, TypeOK, accountVars, passwordVars
<1>7. RefsOwnEntry' /\ EntriesDiffer'
  BY <1>5 DEF Inv, SemaphoreInv, RefsOwnEntry, EntriesDiffer
<1>8. RefsWhileNeeded'
  BY <1>2, <1>5 DEF Inv, SemaphoreInv, RefsWhileNeeded, Inside
<1>9. EntriesHaveUsers'
  BY <1>1, <1>2, <1>5 DEF Inv, SemaphoreInv, EntriesHaveUsers
<1>10. PermitsDiffer'
  BY <1>1, <1>5 DEF Inv, PermitInv, PermitsDiffer
<1>11. PermitsAtWork'
  BY <1>1, <1>2, <1>3 DEF Inv, PermitInv, PermitsAtWork, Inside
<1>12. InsideWithPermit'
  BY <1>1, <1>2, <1>5 DEF Inv, PermitInv, InsideWithPermit
<1>13. ClaimsApart'
  BY <1>2, <1>4, <1>5 DEF Inv, PermitInv, ClaimsApart
<1>14. AccountInv'
  BY <1>1, <1>2, AwayFrame DEF Early
<1> QED
  BY <1>6, <1>7, <1>8, <1>9, <1>10, <1>11, <1>12, <1>13, <1>14
  DEF Inv, SemaphoreInv, PermitInv

\* The permit is given back; the reference keeps the entry.
LEMMA ReleaseInv ==
  ASSUME Inv, NEW r \in Requests, Release(r)
  PROVE  Inv'
<1>1. /\ pc[r] = "leaving" /\ pc' = [pc EXCEPT ![r] = "released"] /\ result' = result
      /\ permits' = permits \ {r}
      /\ UNCHANGED <<kind, ref, limits, accountVars, passwordVars, cancelled>>
  BY DEF Release, Goto
<1>2. /\ pc' \in [Requests -> Steps]
      /\ \A q \in Requests : pc'[q] = IF q = r THEN "released" ELSE pc[q]
  BY <1>1, PcFacts DEF Inv, Steps
<1>3. permits \subseteq Requests
  BY DEF Inv, TypeOK
<1>4. kind[r] # "claim"
  BY <1>1 DEF Inv, PermitInv, ClaimsApart
<1>5. kind' = kind /\ ref' = ref /\ limits' = limits /\ cancelled' = cancelled
  BY <1>1
<1>6. TypeOK'
  BY <1>1, <1>2 DEF Inv, TypeOK, accountVars, passwordVars
<1>7. RefsOwnEntry' /\ EntriesDiffer'
  BY <1>5 DEF Inv, SemaphoreInv, RefsOwnEntry, EntriesDiffer
<1>8. RefsWhileNeeded'
  BY <1>2, <1>5 DEF Inv, SemaphoreInv, RefsWhileNeeded
<1>9. EntriesHaveUsers'
  BY <1>1, <1>2, <1>5 DEF Inv, SemaphoreInv, EntriesHaveUsers
<1>10. PermitsDiffer'
  BY <1>1, <1>5 DEF Inv, PermitInv, PermitsDiffer
<1>11. PermitsAtWork'
  BY <1>1, <1>2, <1>3 DEF Inv, PermitInv, PermitsAtWork
<1>12. InsideWithPermit'
  BY <1>1, <1>2, <1>5 DEF Inv, PermitInv, InsideWithPermit, Inside
<1>13. ClaimsApart'
  BY <1>2, <1>4, <1>5 DEF Inv, PermitInv, ClaimsApart
<1>14. AccountInv'
  BY <1>1, <1>2, AwayFrame DEF Early
<1> QED
  BY <1>6, <1>7, <1>8, <1>9, <1>10, <1>11, <1>12, <1>13, <1>14
  DEF Inv, SemaphoreInv, PermitInv

\* What a request that drops its reference leaves behind; it must be one that will remove
\* the entry, or be cancelled.
LEMMA DropFrame ==
  ASSUME Inv, NEW r \in Requests, r \notin permits', permits' = permits \ {r},
         ref' = [ref EXCEPT ![r] = None], kind' = kind, limits' = limits,
         NEW l \in {"dropped", "ended"}, kind[r] = "claim" => l = "ended",
         pc[r] # "dropped",
         \A q \in Requests : pc'[q] = IF q = r THEN l ELSE pc[q],
         cancelled \subseteq cancelled', l = "dropped" \/ r \in cancelled'
  PROVE  SemaphoreInv' /\ PermitInv'
<1>1. permits \subseteq Requests /\ \A q \in Requests : ref'[q] = IF q = r THEN None ELSE ref[q]
  BY DEF Inv, TypeOK
<1>2. RefsOwnEntry'
  BY <1>1 DEF Inv, SemaphoreInv, RefsOwnEntry
<1>3. EntriesDiffer'
  BY DEF Inv, SemaphoreInv, EntriesDiffer
<1>4. RefsWhileNeeded'
  BY <1>1 DEF Inv, SemaphoreInv, RefsWhileNeeded
<1>5. EntriesHaveUsers'
  <2> SUFFICES ASSUME NEW k \in Keys, limits[k] # None
               PROVE  \E q \in Requests : KeyOf[q] = k /\ (q \in cancelled' \/ ref'[q] # None \/ pc'[q] = "dropped")
    BY DEF EntriesHaveUsers
  <2>1. PICK q \in Requests : KeyOf[q] = k /\ (q \in cancelled \/ ref[q] # None \/ pc[q] = "dropped")
    BY DEF Inv, SemaphoreInv, EntriesHaveUsers
  <2> QED
    BY <1>1, <2>1
<1>6. PermitsDiffer'
  BY <1>1 DEF Inv, PermitInv, PermitsDiffer
<1>7. PermitsAtWork'
  BY <1>1 DEF Inv, PermitInv, PermitsAtWork
<1>8. InsideWithPermit'
  BY <1>1 DEF Inv, PermitInv, InsideWithPermit, Inside
<1>9. ClaimsApart'
  BY <1>1 DEF Inv, PermitInv, ClaimsApart
<1> QED
  BY <1>2, <1>3, <1>4, <1>5, <1>6, <1>7, <1>8, <1>9 DEF SemaphoreInv, PermitInv

\* Types, when a reference is dropped.
LEMMA DropTypes ==
  ASSUME TypeOK, NEW r \in Requests, ref' = [ref EXCEPT ![r] = None], permits' = permits \ {r}
  PROVE  /\ ref' \in [Requests -> Semaphores \cup {None}]
         /\ permits' \subseteq Requests /\ \A q \in permits' : ref'[q] # None
  BY DEF TypeOK

\* The reference goes, and the request is about to remove the entry.
LEMMA DropRefInv ==
  ASSUME Inv, NEW r \in Requests, DropRef(r)
  PROVE  Inv'
<1>1. /\ pc[r] = "released" /\ pc' = [pc EXCEPT ![r] = "dropped"] /\ result' = result
      /\ ref' = [ref EXCEPT ![r] = None]
      /\ UNCHANGED <<kind, permits, limits, accountVars, passwordVars, cancelled>>
  BY DEF DropRef, Goto
<1>2. /\ pc' \in [Requests -> Steps]
      /\ \A q \in Requests : pc'[q] = IF q = r THEN "dropped" ELSE pc[q]
  BY <1>1, PcFacts DEF Inv, Steps
<1>3. r \notin permits /\ kind[r] # "claim"
  BY <1>1, OutsideFacts DEF Inside, Inv, PermitInv, ClaimsApart
<1>4. permits' = permits \ {r} /\ r \notin permits'
  BY <1>1, <1>3
<1>5. /\ ref' \in [Requests -> Semaphores \cup {None}]
      /\ permits' \subseteq Requests /\ \A q \in permits' : ref'[q] # None
  BY <1>1, <1>4, DropTypes DEF Inv
<1>6. TypeOK'
  BY <1>1, <1>2, <1>5 DEF Inv, TypeOK, accountVars, passwordVars
<1>7. SemaphoreInv' /\ PermitInv'
  BY <1>1, <1>2, <1>3, <1>4, DropFrame
<1>8. AccountInv'
  BY <1>1, <1>2, AwayFrame DEF Early
<1> QED
  BY <1>6, <1>7, <1>8 DEF Inv

\* The entry is removed only when nobody refers to it; otherwise whoever refers to it is
\* the one who will.
LEMMA CleanupInv ==
  ASSUME Inv, NEW r \in Requests, Cleanup(r)
  PROVE  Inv'
<1> DEFINE k == KeyOf[r]
<1> DEFINE gone == limits[k] # None /\ \A q \in Requests : ref[q] # limits[k]
<1>1. /\ pc[r] = "dropped" /\ pc' = [pc EXCEPT ![r] = "ended"] /\ result' = result
      /\ limits' = IF gone THEN [limits EXCEPT ![k] = None] ELSE limits
      /\ UNCHANGED <<kind, ref, permits, accountVars, passwordVars, cancelled>>
  BY DEF Cleanup, Goto
<1>2. k \in Keys
  BY LoginAssumption
<1>3. /\ limits' \in [Keys -> Semaphores \cup {None}]
      /\ \A j \in Keys : limits'[j] = IF gone /\ j = k THEN None ELSE limits[j]
  BY <1>1, <1>2 DEF Inv, TypeOK
<1>4. /\ pc' \in [Requests -> Steps]
      /\ \A q \in Requests : pc'[q] = IF q = r THEN "ended" ELSE pc[q]
  BY <1>1, PcFacts DEF Inv, Steps
<1>5. r \notin permits /\ permits \subseteq Requests /\ ref[r] = None /\ kind[r] # "claim"
  BY <1>1, OutsideFacts DEF Inside, Inv, PermitInv, ClaimsApart, SemaphoreInv, RefsWhileNeeded, TypeOK
<1>6. kind' = kind /\ ref' = ref /\ permits' = permits /\ cancelled' = cancelled
  BY <1>1
<1>7. \A q \in Requests : KeyOf[q] \in Keys
  BY LoginAssumption
<1>8. TypeOK'
  BY <1>1, <1>3, <1>4 DEF Inv, TypeOK, accountVars, passwordVars
<1>9. RefsOwnEntry'
  BY <1>3, <1>6, <1>7 DEF Inv, SemaphoreInv, RefsOwnEntry
<1>10. EntriesDiffer'
  BY <1>2, <1>3 DEF Inv, SemaphoreInv, EntriesDiffer
<1>11. RefsWhileNeeded'
  BY <1>4, <1>5, <1>6 DEF Inv, SemaphoreInv, RefsWhileNeeded
<1>12. EntriesHaveUsers'
  <2> SUFFICES ASSUME NEW j \in Keys, limits'[j] # None
               PROVE  \E q \in Requests : KeyOf[q] = j /\ (q \in cancelled' \/ ref'[q] # None \/ pc'[q] = "dropped")
    BY DEF EntriesHaveUsers
  <2>1. limits[j] # None
    BY <1>3
  <2>2. CASE j # k
    <3>1. PICK q \in Requests : KeyOf[q] = j /\ (q \in cancelled \/ ref[q] # None \/ pc[q] = "dropped")
      BY <2>1 DEF Inv, SemaphoreInv, EntriesHaveUsers
    <3> QED
      BY <1>4, <1>6, <2>2, <3>1
  <2>3. CASE j = k
    <3>1. ~ gone
      BY <1>3, <2>3
    <3>2. PICK q \in Requests : ref[q] = limits[j]
      BY <2>1, <2>3, <3>1
    <3>3. limits[KeyOf[q]] = limits[j]
      BY <2>1, <3>2 DEF Inv, SemaphoreInv, RefsOwnEntry
    <3>4. KeyOf[q] = j
      BY <1>7, <2>1, <3>3 DEF Inv, SemaphoreInv, EntriesDiffer
    <3> QED
      BY <1>6, <2>1, <3>2, <3>4
  <2> QED
    BY <2>2, <2>3
<1>13. PermitsDiffer'
  BY <1>6 DEF Inv, PermitInv, PermitsDiffer
<1>14. PermitsAtWork'
  BY <1>4, <1>5, <1>6 DEF Inv, PermitInv, PermitsAtWork
<1>15. InsideWithPermit'
  BY <1>4, <1>6 DEF Inv, PermitInv, InsideWithPermit, Inside
<1>16. ClaimsApart'
  BY <1>4, <1>5, <1>6 DEF Inv, PermitInv, ClaimsApart
<1>17. AccountInv'
  BY <1>1, <1>4, AwayFrame DEF Early
<1> QED
  BY <1>8, <1>9, <1>10, <1>11, <1>12, <1>13, <1>14, <1>15, <1>16, <1>17
  DEF Inv, SemaphoreInv, PermitInv

\* A request that is dropped frees its permit and its reference, leaves the entry, and may
\* leave a creation behind.
LEMMA CancelInv ==
  ASSUME Inv, NEW r \in Requests, Cancel(r)
  PROVE  Inv'
<1>1. /\ pc[r] \in {"waiting"} \cup Inside /\ pc' = [pc EXCEPT ![r] = "ended"]
      /\ result' = [result EXCEPT ![r] = "failed"]
      /\ permits' = permits \ {r} /\ ref' = [ref EXCEPT ![r] = None]
      /\ Abandon(r) /\ cancelled' = cancelled \cup {r}
      /\ UNCHANGED <<kind, limits, accounts, pending, replies, passwordVars>>
  BY DEF Cancel
<1>2. /\ pc' \in [Requests -> Steps]
      /\ \A q \in Requests : pc'[q] = IF q = r THEN "ended" ELSE pc[q]
  BY <1>1, PcFacts DEF Inv, Steps
<1>3. /\ result' \in [Requests -> Results]
      /\ \A q \in Requests : result'[q] = IF q = r THEN "failed" ELSE result[q]
  BY <1>1, ResultFacts DEF Inv, Results
<1>4. lost' \subseteq Keys /\ lost \subseteq lost' /\ (r \in pending => KeyOf[r] \in lost')
  BY <1>1, AbandonFacts
<1>5. /\ ref' \in [Requests -> Semaphores \cup {None}]
      /\ permits' \subseteq Requests /\ \A q \in permits' : ref'[q] # None
  BY <1>1, DropTypes DEF Inv
<1>6. TypeOK'
  BY <1>1, <1>2, <1>3, <1>4, <1>5 DEF Inv, TypeOK, passwordVars
<1>7. SemaphoreInv' /\ PermitInv'
  <2>1. pc[r] # "dropped" /\ r \notin permits'
    BY <1>1 DEF Inside
  <2> QED
    BY <1>1, <1>2, <2>1, DropFrame
<1>8. AccountInv'
  BY <1>1, <1>2, <1>3, <1>4, AccountFrame DEF Early
<1> QED
  BY <1>6, <1>7, <1>8 DEF Inv

-----------------------------------------------------------------------------
(* The theorems *)

\* It holds in the beginning.
LEMMA InitInv == Init => Inv
<1> SUFFICES ASSUME Init PROVE Inv
  OBVIOUS
<1>1. TypeOK
  BY DEF Init, TypeOK, Steps, Results
<1>2. SemaphoreInv
  BY LoginAssumption DEF Init, SemaphoreInv, RefsOwnEntry, RefsWhileNeeded, EntriesDiffer, EntriesHaveUsers
<1>3. PermitInv
  BY DEF Init, PermitInv, PermitsDiffer, PermitsAtWork, InsideWithPermit, ClaimsApart, Inside
<1>4. AccountInv
  <2>1. /\ pending = {} /\ \A r \in Requests : pc[r] = "idle" /\ result[r] = "none" /\ replies[r] = "none"
    BY DEF Init
  <2>2. CreatesOnce
    BY <2>1 DEF CreatesOnce
  <2>3. CreationsAwaited
    BY <2>1 DEF CreationsAwaited, Creates
  <2>4. PasswordsAgree /\ NoConflict
    BY <2>1 DEF PasswordsAgree, NoConflict
  <2> QED
    BY <2>2, <2>3, <2>4 DEF AccountInv
<1> QED
  BY <1>1, <1>2, <1>3, <1>4 DEF Inv

\* Every step preserves it.
LEMMA NextInv == Inv /\ [Next]_vars => Inv'
<1> SUFFICES ASSUME Inv, [Next]_vars PROVE Inv'
  OBVIOUS
<1>1. ASSUME NEW r \in Requests, NEW k \in {"login", "start"}, NEW valid \in BOOLEAN, Arrive(r, k, valid)
      PROVE  Inv'
  BY <1>1, ArriveInv
<1>2. ASSUME NEW r \in Requests, ArriveClaim(r) PROVE Inv'
  BY <1>2, ArriveClaimInv
<1>3. ASSUME NEW r \in Requests, Step(r) PROVE Inv'
  <2>1. CASE GetSemaphore(r) \/ Acquire(r)
    BY <2>1, GetSemaphoreInv, AcquireInv
  <2>2. CASE SendCreate(r) \/ Created(r) \/ GetPassword(r)
    BY <2>2, SendCreateInv, CreatedInv, GetPasswordInv
  <2>3. CASE Release(r) \/ DropRef(r) \/ Cleanup(r)
    BY <2>3, ReleaseInv, DropRefInv, CleanupInv
  <2>4. ASSUME NEW ok \in BOOLEAN,
               Lookup(r, ok) \/ Whitelist(r, ok) \/ SetPassword(r, ok) \/ PasswordLogin(r, ok)
        PROVE  Inv'
    BY <2>4, LookupInv, WhitelistInv, SetPasswordInv, PasswordLoginInv
  <2> QED
    BY <1>3, <2>1, <2>2, <2>3, <2>4 DEF Step
<1>4. ASSUME NEW r \in Requests, Server(r) PROVE Inv'
  BY <1>4, CreateUserInv DEF Server
<1>5. ASSUME NEW r \in Requests, CreateLost(r) PROVE Inv'
  BY <1>5, CreateLostInv
<1>6. ASSUME NEW r \in Requests, Cancel(r) PROVE Inv'
  BY <1>6, CancelInv
<1>7. CASE UNCHANGED vars
  <2>1. /\ pc' = pc /\ kind' = kind /\ result' = result /\ ref' = ref /\ permits' = permits
        /\ limits' = limits /\ accounts' = accounts /\ pending' = pending /\ replies' = replies
        /\ stored' = stored /\ password' = password /\ mine' = mine /\ lost' = lost
        /\ cancelled' = cancelled
    BY <1>7 DEF vars, loginVars, semVars, accountVars, passwordVars
  <2>2. TypeOK'
    BY <2>1 DEF Inv, TypeOK
  <2>3. SemaphoreInv'
    BY <2>1 DEF Inv, SemaphoreInv, RefsOwnEntry, RefsWhileNeeded, EntriesDiffer, EntriesHaveUsers
  <2>4. PermitInv'
    BY <2>1 DEF Inv, PermitInv, PermitsDiffer, PermitsAtWork, InsideWithPermit, ClaimsApart
  <2>5. AccountInv'
    BY <2>1 DEF Inv, AccountInv, CreatesOnce, CreationsAwaited, Creates, PasswordsAgree, NoConflict
  <2> QED
    BY <2>2, <2>3, <2>4, <2>5 DEF Inv
<1> QED
  BY <1>1, <1>2, <1>3, <1>4, <1>5, <1>6, <1>7 DEF Next

\* Requests refer to the entry of their key and hold permits as the code means them to, in
\* every reachable state.
THEOREM InvHolds == Spec => []Inv
<1>1. Init => Inv
  BY InitInv
<1>2. Inv /\ [Next]_vars => Inv'
  BY NextInv
<1> QED
  BY <1>1, <1>2, PTL DEF Spec

\* Every variable keeps its type, and a permit belongs to a semaphore that the request
\* refers to.
THEOREM TypeCorrect == Spec => []TypeOK
<1>1. Inv => TypeOK
  BY DEF Inv
<1> QED
  BY <1>1, InvHolds, PTL

\* get_or_create_user: of the requests for one key at most one at a time looks for the
\* account and creates it, however the entries of `limits' come and go.
THEOREM OneInsideHolds == Spec => []OneInside
  BY InvOneInside, InvHolds, PTL

\* No request is refused because another one created the account meanwhile, unless that
\* one's client went away; and no request sends a password that another one has replaced.
THEOREM NoConflictHolds == Spec => []NoConflict
<1>1. Inv => NoConflict
  BY DEF Inv, AccountInv
<1> QED
  BY <1>1, InvHolds, PTL

\* cleanup_semaphore: when no request for a key is under way its entry is gone, unless a
\* client went away.
THEOREM NoSemaphoreLeftHolds == Spec => []NoSemaphoreLeft
  BY InvNoSemaphoreLeft, InvHolds, PTL

-----------------------------------------------------------------------------
(* The TokenWorker *)

USE DEF Retries, NoJwt, Jwt, MaybeJwt, Replies, NoTask, Tasks, TokenState, CallerState

\* Before the first request nothing is in flight and nothing was answered.
LEMMA TokenInitInv == TokenInit => TokenInv
  BY BoundsAssumption, CallersAssumption
  DEF TokenInit, TokenInv, TokenTypeOK, SingleFlight, StaleRefreshIsHidden, SecondAttemptIsSafe,
      GrantedIsUsable, NewRequestHasRetry, Retrying, Busy

\* Each step of the actor, its callers or the auth server keeps the types.
LEMMA TokenNextTypeOK == TokenTypeOK /\ GrantedIsUsable /\ [TokenNext]_tokenVars => TokenTypeOK'
  <1> SUFFICES ASSUME TokenTypeOK, GrantedIsUsable, [TokenNext]_tokenVars PROVE TokenTypeOK'
    OBVIOUS
  <1> USE BoundsAssumption, CallersAssumption
  <1>1. CASE Started
    BY <1>1 DEF TokenTypeOK, Started
  <1>2. CASE Stopped
    BY <1>2 DEF TokenTypeOK, Stopped
  <1>3. CASE Crash
    BY <1>3 DEF TokenTypeOK, Crash
  <1>4. CASE Expire
    BY <1>4 DEF TokenTypeOK, Expire
  <1>5. ASSUME NEW c \in Callers, Handle(c) PROVE TokenTypeOK'
    <2>1. CASE WrongRecipient(c)
      BY <2>1 DEF TokenTypeOK, WrongRecipient, Asks
    <2>2. CASE HandleNone(c)
      BY <2>2 DEF TokenTypeOK, HandleNone, Fetch, Asks
    <2>3. CASE HandleExpiring(c)
      BY <2>3 DEF TokenTypeOK, HandleExpiring, Fetch, Asks
    <2>4. CASE HandleAvailable(c)
      BY <2>4 DEF TokenTypeOK, HandleAvailable, Asks
    <2>5. CASE HandleFetching(c)
      BY <2>5 DEF TokenTypeOK, HandleFetching, Asks
    <2>6. QED
      BY <1>5, <2>1, <2>2, <2>3, <2>4, <2>5 DEF Handle
  <1>6. ASSUME NEW c \in Callers, AuthReplies(c) PROVE TokenTypeOK'
    <2>1. CASE AuthGrants(c)
      <3>1. issued + 1 \in Jwt /\ task[c].tok \in MaybeJwt
        BY <2>1 DEF TokenTypeOK, AuthGrants
      <3>a. [tok |-> task[c].tok, reply |-> "granted", got |-> issued + 1] \in Tasks
        BY <3>1
      <3>2. task' \in [Callers -> Tasks \cup {NoTask}]
        BY <2>1, <3>a DEF TokenTypeOK, AuthGrants, Reply
      <3>3. usable' \subseteq Jwt
        BY <2>1, <3>1 DEF TokenTypeOK, AuthGrants
      <3>4. issued' \in 0 .. MaxJwt
        BY <2>1, <3>1 DEF TokenTypeOK, AuthGrants
      <3>5. QED
        BY <2>1, <3>2, <3>3, <3>4 DEF TokenTypeOK, AuthGrants
    <2>2. CASE AuthRefuses(c)
      BY <2>2 DEF TokenTypeOK, AuthRefuses, Reply
    <2>3. CASE AuthFails(c)
      BY <2>3 DEF TokenTypeOK, AuthFails, Reply
    <2>4. QED
      BY <1>6, <2>1, <2>2, <2>3 DEF AuthReplies
  <1>7. ASSUME NEW c \in Callers, ProcessResult(c) PROVE TokenTypeOK'
    <2>1. task[c].reply = "granted" => task[c].got \in Jwt
      BY <1>7 DEF TokenTypeOK, GrantedIsUsable
    <2>2. QED
      BY <1>7, <2>1 DEF TokenTypeOK, ProcessResult, Told
  <1>8. ASSUME NEW c \in Callers, AskAgain(c) PROVE TokenTypeOK'
    BY <1>8 DEF TokenTypeOK, AskAgain
  <1>9. CASE UNCHANGED tokenVars
    BY <1>9 DEF TokenTypeOK, tokenVars
  <1>10. QED
    BY <1>1, <1>2, <1>3, <1>4, <1>5, <1>6, <1>7, <1>8, <1>9 DEF TokenNext

\* Each step keeps one request in flight and its waiters registered, and
\* keeps the JWT that a second attempt depends on refreshable.
LEMMA TokenNextInv == TokenInv /\ [TokenNext]_tokenVars => TokenInv'
  <1> SUFFICES ASSUME TokenInv, [TokenNext]_tokenVars PROVE TokenInv'
    OBVIOUS
  <1> USE BoundsAssumption, CallersAssumption
  <1>0. TokenTypeOK /\ TokenTypeOK'
    BY TokenNextTypeOK DEF TokenInv
  <1> DEFINE Rest == SingleFlight /\ StaleRefreshIsHidden
                     /\ SecondAttemptIsSafe /\ GrantedIsUsable /\ NewRequestHasRetry
  <1>a. Rest
    BY DEF TokenInv
  <1>1. CASE Started
    BY <1>0, <1>a, <1>1 DEF TokenTypeOK, Started, SingleFlight, StaleRefreshIsHidden,
       SecondAttemptIsSafe, GrantedIsUsable, Retrying, Busy,
       NewRequestHasRetry, TokenInv
  <1>2. CASE Stopped
    BY <1>0, <1>a, <1>2 DEF TokenTypeOK, Stopped, SingleFlight, StaleRefreshIsHidden,
       SecondAttemptIsSafe, GrantedIsUsable, Retrying, Busy,
       NewRequestHasRetry, TokenInv
  <1>3. CASE Crash
    BY <1>0, <1>a, <1>3 DEF TokenTypeOK, Crash, SingleFlight, StaleRefreshIsHidden,
       SecondAttemptIsSafe, GrantedIsUsable, Retrying, Busy,
       NewRequestHasRetry, TokenInv
  <1>4. CASE Expire
    BY <1>0, <1>a, <1>4 DEF TokenTypeOK, Expire, SingleFlight, StaleRefreshIsHidden,
       SecondAttemptIsSafe, GrantedIsUsable, Retrying, Busy,
       NewRequestHasRetry, TokenInv
  <1>5. ASSUME NEW c \in Callers, Handle(c) PROVE TokenInv'
    <2>1. CASE WrongRecipient(c)
      BY <1>0, <1>a, <2>1 DEF TokenTypeOK, WrongRecipient, Asks, SingleFlight,
         StaleRefreshIsHidden, SecondAttemptIsSafe, GrantedIsUsable, Retrying, Busy,
       NewRequestHasRetry, TokenInv
    <2>2. CASE HandleNone(c)
      BY <1>0, <1>a, <2>2 DEF TokenTypeOK, HandleNone, Fetch, Asks, SingleFlight,
         StaleRefreshIsHidden, SecondAttemptIsSafe, GrantedIsUsable, Retrying, Busy,
       NewRequestHasRetry, TokenInv
    <2>3. CASE HandleExpiring(c)
      BY <1>0, <1>a, <2>3 DEF TokenTypeOK, HandleExpiring, Fetch, Asks, SingleFlight,
         StaleRefreshIsHidden, SecondAttemptIsSafe, GrantedIsUsable, Retrying, Busy,
       NewRequestHasRetry, TokenInv
    <2>4. CASE HandleAvailable(c)
      BY <1>0, <1>a, <2>4 DEF TokenTypeOK, HandleAvailable, Asks, SingleFlight,
         StaleRefreshIsHidden, SecondAttemptIsSafe, GrantedIsUsable, Retrying, Busy,
       NewRequestHasRetry, TokenInv
    <2>5. CASE HandleFetching(c)
      BY <1>0, <1>a, <2>5 DEF TokenTypeOK, HandleFetching, Asks, SingleFlight,
         StaleRefreshIsHidden, SecondAttemptIsSafe, GrantedIsUsable, Retrying, Busy,
       NewRequestHasRetry, TokenInv
    <2>6. QED
      BY <1>5, <2>1, <2>2, <2>3, <2>4, <2>5 DEF Handle
  <1>6. ASSUME NEW c \in Callers, AuthReplies(c) PROVE TokenInv'
    <2>1. CASE AuthGrants(c)
      BY <1>0, <1>a, <2>1 DEF TokenTypeOK, AuthGrants, Reply, SingleFlight,
         StaleRefreshIsHidden, SecondAttemptIsSafe, GrantedIsUsable, Retrying, Busy,
       NewRequestHasRetry, TokenInv
    <2>2. CASE AuthRefuses(c)
      BY <1>0, <1>a, <2>2 DEF TokenTypeOK, AuthRefuses, Reply, SingleFlight,
         StaleRefreshIsHidden, SecondAttemptIsSafe, GrantedIsUsable, Retrying, Busy,
       NewRequestHasRetry, TokenInv
    <2>3. CASE AuthFails(c)
      BY <1>0, <1>a, <2>3 DEF TokenTypeOK, AuthFails, Reply, SingleFlight,
         StaleRefreshIsHidden, SecondAttemptIsSafe, GrantedIsUsable, Retrying, Busy,
       NewRequestHasRetry, TokenInv
    <2>4. QED
      BY <1>6, <2>1, <2>2, <2>3 DEF AuthReplies
  <1>7. ASSUME NEW c \in Callers, ProcessResult(c) PROVE TokenInv'
    BY <1>0, <1>a, <1>7 DEF TokenTypeOK, ProcessResult, Told, SingleFlight,
       StaleRefreshIsHidden, SecondAttemptIsSafe, GrantedIsUsable, Retrying, Busy,
       NewRequestHasRetry, TokenInv
  <1>8. ASSUME NEW c \in Callers, AskAgain(c) PROVE TokenInv'
    BY <1>0, <1>a, <1>8 DEF TokenTypeOK, AskAgain, SingleFlight,
       StaleRefreshIsHidden, SecondAttemptIsSafe, GrantedIsUsable, Retrying, Busy,
       NewRequestHasRetry, TokenInv
  <1>9. CASE UNCHANGED tokenVars
    BY <1>0, <1>a, <1>9 DEF TokenTypeOK, tokenVars, SingleFlight,
       StaleRefreshIsHidden, SecondAttemptIsSafe, GrantedIsUsable, Retrying, Busy,
       NewRequestHasRetry, TokenInv
  <1>10. QED
    BY <1>1, <1>2, <1>3, <1>4, <1>5, <1>6, <1>7, <1>8, <1>9 DEF TokenNext

\* The inductive invariant holds in every reachable state.
THEOREM TokenInvHolds == TokenSpec => []TokenInv
  BY TokenInitInv, TokenNextInv, PTL DEF TokenSpec

\* The types of the actor's state, of its callers and of the local storage.
THEOREM TokenTypeCorrect == TokenSpec => []TokenTypeOK
  <1>1. TokenInv => TokenTypeOK
    BY DEF TokenInv
  <1>2. QED
    BY <1>1, TokenInvHolds, PTL

\* The worker never has two requests to the auth server in flight, and the
\* unreachable!() arms of process_result are never taken.
THEOREM SingleFlightHolds == TokenSpec => []SingleFlight
  <1>1. TokenInv => SingleFlight
    BY DEF TokenInv
  <1>2. QED
    BY <1>1, TokenInvHolds, PTL

\* A refresh token used up before a crash never reaches a flow run as an error,
\* however many other callers, with or without a retry, ask meanwhile.
THEOREM StaleRefreshHidden == TokenSpec => []StaleRefreshIsHidden
  <1>1. TokenInv => StaleRefreshIsHidden
    BY DEF TokenInv
  <1>2. QED
    BY <1>1, TokenInvHolds, PTL

HIDE DEF Retries, NoJwt, Jwt, MaybeJwt, Replies, NoTask, Tasks, TokenState, CallerState
-----------------------------------------------------------------------------
(* The collection of signatures *)

\* A request is a build and one of its signers; the lead is one of them.
LEMMA IdFacts ==
    /\ \A i \in Ids : i[1] \in Builds /\ i[2] \in Wallets /\ i[2] \in Signers[i[1]] /\ i = <<i[1], i[2]>>
    /\ \A b \in Builds : LeadId(b) \in Ids /\ LeadId(b)[1] = b /\ LeadId(b)[2] = Lead[b]
    /\ \A b \in Builds : \A w \in Signers[b] : <<b, w>> \in Ids
    /\ \A b \in Builds : Others(b) \subseteq Ids
  BY SignersAssumption DEF Ids, LeadId, Others

\* The message of a build is a message, and a missing one is none.
LEMMA MessageFacts ==
    /\ \A b \in Builds : Built(b) \in Messages
    /\ NoMessage \notin Messages
    /\ NoMessage.logic \notin Builds
    /\ \A b \in Builds : Built(b).logic = b /\ Built(b).accounts = Inputs[b]
  BY SignersAssumption, InputsAssumption DEF Messages, NoMessage, Built

\* Asking keeps the types.
LEMMA AskTypes ==
    ASSUME SignTypeOK, NEW reqs \in SUBSET Ids, NEW m \in MaybeMessage, NEW p \in SUBSET Ids,
           Ask(reqs, m, p)
    PROVE  /\ asked' \in [Ids -> MaybeMessage]
           /\ presigned' \subseteq Ids
           /\ answer' \in [Ids -> MaybeMessage]
           /\ call' \in [Ids -> CallStates]
  BY DEF SignTypeOK, Ask, CallStates

\* Before anything is built nothing is signed or asked for.
LEMMA SignInitInv == SignInit => SignInv
  BY IdFacts
  DEF SignInit, SignInv, SignTypeOK, SignedOverOneMessage, LogicIsKept, RequestsOutliveWrongSubmissions,
      LeadSignsFirst, NotRewrittenYet, NoEarlySignature, NotRegisteredYet, MaybeMessage, Phases, CallStates

\* Each step of a build, of the UserWorker or of a submitter keeps the types.
LEMMA SignNextTypeOK == SignTypeOK /\ [SignNext]_signVars => SignTypeOK'
  <1> SUFFICES ASSUME SignTypeOK, [SignNext]_signVars PROVE SignTypeOK'
    OBVIOUS
  <1> USE IdFacts, MessageFacts
  <1>1. ASSUME NEW b \in Builds, BuildMessage(b) PROVE SignTypeOK'
    <2> DEFINE m == Built(b)
    <2>1. m \in MaybeMessage
      BY DEF MaybeMessage
    <2> HIDE DEF m
    <2>5. /\ msg' = [msg EXCEPT ![b] = m]
          /\ phase' \in {[phase EXCEPT ![b] = "others"], [phase EXCEPT ![b] = "lead"]}
          /\ sigs' \in {sigs, [sigs EXCEPT ![LeadId(b)] = m]}
      BY <1>1, Zenon DEF BuildMessage, m
    <2>6. phase' \in [Builds -> Phases]
      BY <2>5 DEF SignTypeOK, Phases
    <2>7. msg' \in [Builds -> MaybeMessage]
      BY <2>1, <2>5 DEF SignTypeOK
    <2>8. sigs' \in [Ids -> MaybeMessage]
      BY <2>1, <2>5 DEF SignTypeOK
    <2>3. \E reqs, p \in SUBSET Ids : Ask(reqs, m, p)
      BY <1>1 DEF BuildMessage, m
    <2>4. QED
      BY <1>1, <2>1, <2>6, <2>7, <2>8, <2>3, AskTypes DEF SignTypeOK, BuildMessage, workerVars
  <1>2. ASSUME NEW b \in Builds, Fail(b) PROVE SignTypeOK'
    BY <1>2 DEF SignTypeOK, Fail, Phases, workerVars
  <1>3. ASSUME NEW b \in Builds, LeadSigned(b) PROVE SignTypeOK'
    <2>1. answer[LeadId(b)] \in MaybeMessage
      BY DEF SignTypeOK
    <2>2. /\ phase' \in [Builds -> Phases] /\ msg' \in [Builds -> MaybeMessage]
          /\ sigs' \in [Ids -> MaybeMessage]
      BY <1>3, <2>1 DEF SignTypeOK, LeadSigned, Phases
    <2>3. QED
      BY <1>3, <2>1, <2>2, AskTypes DEF SignTypeOK, LeadSigned, workerVars
  <1>4. ASSUME NEW b \in Builds, OthersSigned(b) PROVE SignTypeOK'
    <2>1. /\ phase' \in [Builds -> Phases]
          /\ sigs' \in [Ids -> MaybeMessage]
      BY <1>4 DEF SignTypeOK, OthersSigned, Phases, Collected
    <2>2. msg[b] \in MaybeMessage
      BY DEF SignTypeOK
    <2>6. SignedBefore(b) \in SUBSET Ids
      BY DEF SignedBefore
    <2>3. CASE b \in Actions
      <3>1. Ask({LeadId(b)}, msg[b], SignedBefore(b))
        BY <1>4, <2>3, Zenon DEF OthersSigned
      <3>2. {LeadId(b)} \in SUBSET Ids
        BY IdFacts
      <3>3. /\ asked' \in [Ids -> MaybeMessage] /\ presigned' \subseteq Ids
            /\ answer' \in [Ids -> MaybeMessage] /\ call' \in [Ids -> CallStates]
        BY <3>1, <3>2, <2>2, <2>6, AskTypes
      <3>4. UNCHANGED <<msg, sigreg, timers, saving>>
        BY <1>4 DEF OthersSigned, workerVars
      <3> QED
        BY <2>1, <3>3, <3>4 DEF SignTypeOK
    <2>4. CASE b \notin Actions
      BY <1>4, <2>1, <2>4 DEF SignTypeOK, OthersSigned, workerVars
    <2>5. QED
      BY <2>3, <2>4
  <1>5. ASSUME NEW b \in Builds, LastAnswered(b) PROVE SignTypeOK'
    BY <1>5 DEF SignTypeOK, LastAnswered, Phases, workerVars
  <1>6. ASSUME NEW i \in Ids, Worker(i) PROVE SignTypeOK'
    <2>1. CASE Inserted(i)
      BY <2>1 DEF SignTypeOK, Inserted, CallStates
    <2>2. CASE InsertFailed(i)
      BY <2>2 DEF SignTypeOK, InsertFailed, CallStates, workerVars
    <2>3. CASE TimerFires(i)
      BY <2>3 DEF SignTypeOK, TimerFires, CallStates
    <2>4. CASE Saved(i)
      BY <2>4 DEF SignTypeOK, Saved
    <2>5. QED
      BY <1>6, <2>1, <2>2, <2>3, <2>4 DEF Worker
  <1>7. ASSUME NEW i \in Ids, Submit(i) PROVE SignTypeOK'
    <2>1. ASSUME NEW m \in Messages, SubmitNotAllowed(i, m) PROVE SignTypeOK'
      BY <2>1 DEF SignTypeOK, SubmitNotAllowed, CallStates
    <2>2. ASSUME NEW m \in Messages, SubmitAccepted(i, m) PROVE SignTypeOK'
      BY <2>2 DEF SignTypeOK, SubmitAccepted, CallStates, MaybeMessage
    <2>3. ASSUME NEW m \in Messages, NEW valid \in BOOLEAN, SubmitRefused(i, m, valid) PROVE SignTypeOK'
      BY <2>3 DEF SignTypeOK, SubmitRefused, signVars
    <2>4. QED
      BY <1>7, <2>1, <2>2, <2>3 DEF Submit
  <1>8. CASE UNCHANGED signVars
    BY <1>8 DEF SignTypeOK, signVars
  <1>9. ASSUME NEW b \in Builds, Build(b) PROVE SignTypeOK'
    BY <1>9, <1>1, <1>2, <1>3, <1>4, <1>5
    DEF Build, BuildFails, LeadFailed, OthersFailed, LastFailed, GiveUp
  <1>10. QED
    BY <1>6, <1>7, <1>8, <1>9 DEF SignNext, Terminated

\* Asking changes the requests that are made and no other.
LEMMA AskCalls ==
    ASSUME SignTypeOK, NEW reqs \in SUBSET Ids, NEW m, NEW p, Ask(reqs, m, p), NEW i \in Ids
    PROVE  /\ i \notin reqs => call'[i] = call[i]
           /\ i \in reqs => call'[i] \in {"signed", "inserting", "failed"}
           /\ presigned \subseteq presigned'
  BY DEF SignTypeOK, Ask

\* Requests that were not made before keep the bookkeeping of the UserWorker
\* in order when they are made.
LEMMA AskKeepsRegister ==
    ASSUME SignTypeOK, NotRegisteredYet, RequestsOutliveWrongSubmissions,
           NEW reqs \in SUBSET Ids, NEW m, NEW p, Ask(reqs, m, p), UNCHANGED workerVars,
           \A i \in reqs : Unasked(i) /\ ~Unasked(i)',
           \A i \in Ids : Unasked(i)' => Unasked(i)
    PROVE  NotRegisteredYet' /\ RequestsOutliveWrongSubmissions'
  <1>1. \A i \in reqs : call[i] = "none" /\ i \notin sigreg \cup timers
    BY DEF NotRegisteredYet
  <1>2. ASSUME NEW i \in Ids
        PROVE  /\ Unasked(i)' => call'[i] = "none"
               /\ call'[i] \in {"none", "inserting"} => i \notin sigreg' \cup timers'
    <2>1. CASE i \in reqs
      BY <1>1, <2>1, AskCalls DEF workerVars
    <2>2. CASE i \notin reqs
      BY <2>2, AskCalls DEF workerVars, NotRegisteredYet
    <2>3. QED
      BY <2>1, <2>2
  <1>3. ASSUME NEW i \in timers'
        PROVE  \/ i \in sigreg'
               \/ call'[i] = "signed"
               \/ call'[i] = "not_allowed" /\ i \in presigned'
    <2>1. i \in timers /\ i \in Ids /\ i \notin reqs /\ sigreg' = sigreg
      BY <1>1, <1>3 DEF workerVars, SignTypeOK
    <2>2. QED
      BY <2>1, AskCalls DEF RequestsOutliveWrongSubmissions
  <1>4. QED
    BY <1>2, <1>3 DEF NotRegisteredYet, RequestsOutliveWrongSubmissions

\* A build that fails takes nothing back.
LEMMA FailInv ==
    ASSUME SignInv, SignTypeOK', NEW b \in Builds, Fail(b)
    PROVE  SignInv'
  <1> USE IdFacts
  <1>1. \A d \in Builds : phase'[d] = IF d = b THEN "failed" ELSE phase[d]
    BY DEF Fail, SignInv, SignTypeOK
  <1>2. /\ msg' = msg /\ sigs' = sigs /\ call' = call /\ presigned' = presigned
        /\ sigreg' = sigreg /\ timers' = timers
    BY DEF Fail, workerVars
  <1>3. SignedOverOneMessage'
    BY <1>1, <1>2 DEF SignInv, SignedOverOneMessage
  <1>4. LogicIsKept'
    BY <1>1, <1>2 DEF SignInv, LogicIsKept
  <1>5. RequestsOutliveWrongSubmissions'
    BY <1>2 DEF SignInv, RequestsOutliveWrongSubmissions
  <1>6. LeadSignsFirst' /\ NotRewrittenYet'
    BY <1>1, <1>2 DEF SignInv, LeadSignsFirst, NotRewrittenYet, LeadId
  <1>7. NoEarlySignature'
    BY <1>1, <1>2 DEF SignInv, NoEarlySignature
  <1>8. NotRegisteredYet'
    BY <1>1, <1>2 DEF SignInv, NotRegisteredYet, Unasked
  <1>9. QED
    BY <1>3, <1>4, <1>5, <1>6, <1>7, <1>8 DEF SignInv

\* A build that starts has no signature but that of a local fee payer, which
\* is over the message it starts with.
LEMMA BuildMessageInv ==
    ASSUME SignInv, SignTypeOK', NEW b \in Builds, BuildMessage(b)
    PROVE  SignInv'
  <1> USE IdFacts
  <1> DEFINE m == Built(b)
  <1>1. /\ phase[b] = "new"
        /\ msg' = [msg EXCEPT ![b] = m]
        /\ UNCHANGED workerVars
    BY Zenon DEF BuildMessage, m
  <1>2. \/ /\ phase' = [phase EXCEPT ![b] = "others"]
           /\ b \in Actions
           /\ sigs' = sigs
           /\ Ask(Others(b), m, {})
        \/ /\ phase' = [phase EXCEPT ![b] = "others"]
           /\ b \notin Actions
           /\ sigs' = [sigs EXCEPT ![LeadId(b)] = m]
           /\ Ask(Others(b), m, Others(b))
        \/ /\ phase' = [phase EXCEPT ![b] = "lead"]
           /\ b \notin Actions
           /\ sigs' = sigs
           /\ Ask({LeadId(b)}, m, {})
    BY Zenon DEF BuildMessage, m
  <1>3. m.logic = b /\ m.accounts = Inputs[b]
    BY MessageFacts
  <1>16. m = Built(b)
    OBVIOUS
  <1> HIDE DEF m
  <1>4. /\ \A d \in Builds \ {b} : phase'[d] = phase[d] /\ msg'[d] = msg[d]
        /\ \A i \in Ids : i[1] # b => sigs'[i] = sigs[i]
        /\ phase'[b] \in {"others", "lead"} /\ msg'[b] = m
    BY <1>1, <1>2 DEF SignInv, SignTypeOK
  <1>5. SignedOverOneMessage'
    BY <1>4 DEF SignInv, SignedOverOneMessage
  <1>6. LogicIsKept'
    BY <1>3, <1>4 DEF SignInv, LogicIsKept, Zipped
  <1>17. NotRewrittenYet'
    BY <1>4, <1>16 DEF SignInv, NotRewrittenYet
  <1>7. LeadSignsFirst'
    <2>1. ASSUME NEW d \in Builds, d # b
          PROVE  /\ d \in Actions => phase'[d] # "lead"
                 /\ d \notin Actions /\ phase'[d] \in {"others", "last", "signed"} =>
                      sigs'[LeadId(d)] = msg'[d]
      <3>1. LeadId(d) \in Ids /\ LeadId(d)[1] # b
        BY <2>1
      <3>2. phase'[d] = phase[d] /\ msg'[d] = msg[d] /\ sigs'[LeadId(d)] = sigs[LeadId(d)]
        BY <2>1, <3>1, <1>4
      <3>3. QED
        BY <3>2 DEF SignInv, LeadSignsFirst
    <2>2. b \in Actions => phase'[b] # "lead"
      BY <1>1, <1>2 DEF SignInv, SignTypeOK
    <2>3. b \notin Actions /\ phase'[b] \in {"others", "last", "signed"} =>
            sigs'[LeadId(b)] = msg'[b]
      <3>1. LeadId(b) \in Ids
        OBVIOUS
      <3>2. QED
        BY <3>1, <1>1, <1>2, <1>4 DEF SignInv, SignTypeOK
    <2>4. QED
      BY <2>1, <2>2, <2>3 DEF LeadSignsFirst
  <1>8. NoEarlySignature'
    BY <1>1, <1>2, <1>4 DEF SignInv, SignTypeOK, NoEarlySignature
  <1>9. \A i \in Ids : Unasked(i)' => Unasked(i)
    BY <1>1, <1>4 DEF Unasked
  <1>10. \A i \in Ids : i[1] = b => Unasked(i)
    BY <1>1 DEF Unasked
  <1>11. phase'[b] = "others" => \A i \in Others(b) : ~Unasked(i)'
    BY DEF Others, Unasked, LeadId
  <1>12. phase'[b] = "lead" => ~Unasked(LeadId(b))'
    BY DEF Unasked
  <1>13. \A i \in Others(b) : i[1] = b
    BY DEF Others
  <1>14. NotRegisteredYet' /\ RequestsOutliveWrongSubmissions'
    <2>0. SignInv => SignTypeOK /\ NotRegisteredYet /\ RequestsOutliveWrongSubmissions
      BY DEF SignInv
    <2>1. CASE phase' = [phase EXCEPT ![b] = "others"]
      <3>1. phase'[b] = "others"
        BY <2>1 DEF SignInv, SignTypeOK
      <3>2. \E p : Ask(Others(b), m, p)
        BY <1>2, <3>1 DEF SignInv, SignTypeOK
      <3>3. QED
        BY <1>1, <1>9, <1>10, <1>11, <1>13, <2>0, <3>1, <3>2, AskKeepsRegister
    <2>2. CASE phase' = [phase EXCEPT ![b] = "lead"]
      <3>1. phase'[b] = "lead"
        BY <2>2 DEF SignInv, SignTypeOK
      <3>2. Ask({LeadId(b)}, m, {})
        BY <1>2, <3>1 DEF SignInv, SignTypeOK
      <3>3. QED
        BY <1>1, <1>9, <1>10, <1>12, <2>0, <3>1, <3>2, AskKeepsRegister
    <2>3. QED
      BY <1>2, <2>1, <2>2
  <1>15. QED
    BY <1>5, <1>6, <1>7, <1>8, <1>14, <1>17 DEF SignInv

\* The message the fee payer signed becomes the one that the others sign; it
\* does what the message before did.
LEMMA LeadSignedInv ==
    ASSUME SignInv, SignTypeOK', NEW b \in Builds, LeadSigned(b)
    PROVE  SignInv'
  <1> USE IdFacts
  <1> DEFINE m == answer[LeadId(b)]
  <1>1. /\ phase[b] = "lead" /\ phase' = [phase EXCEPT ![b] = "others"]
        /\ m.logic = b /\ Zipped(Inputs[b], m.accounts)
        /\ msg' = [msg EXCEPT ![b] = m]
        /\ sigs' = [sigs EXCEPT ![LeadId(b)] = m]
        /\ Ask(Others(b), m, Others(b))
        /\ UNCHANGED workerVars
    BY MessageFacts DEF LeadSigned, is_same_message_logic, SignInv, NotRewrittenYet
  <1> HIDE DEF m
  <1>2. /\ \A d \in Builds \ {b} : phase'[d] = phase[d] /\ msg'[d] = msg[d]
        /\ \A i \in Ids : i # LeadId(b) => sigs'[i] = sigs[i]
        /\ phase'[b] = "others" /\ msg'[b] = m /\ sigs'[LeadId(b)] = m
    BY <1>1 DEF SignInv, SignTypeOK
  <1>3. SignedOverOneMessage'
    BY <1>2 DEF SignInv, SignedOverOneMessage
  <1>4. LogicIsKept'
    BY <1>1, <1>2 DEF SignInv, LogicIsKept
  <1>5. LeadSignsFirst' /\ NotRewrittenYet'
    BY <1>2 DEF SignInv, LeadSignsFirst, NotRewrittenYet, LeadId
  <1>6. NoEarlySignature'
    BY <1>2 DEF SignInv, NoEarlySignature
  <1>7. \A i \in Ids : Unasked(i)' => Unasked(i)
    BY <1>1, <1>2 DEF Unasked, SignInv, LeadSignsFirst
  <1>8. \A i \in Others(b) : Unasked(i) /\ ~Unasked(i)'
    BY <1>1, <1>2 DEF Others, Unasked, LeadId
  <1>9. NotRegisteredYet' /\ RequestsOutliveWrongSubmissions'
    BY <1>1, <1>7, <1>8, AskKeepsRegister DEF SignInv
  <1>10. QED
    BY <1>3, <1>4, <1>5, <1>6, <1>9 DEF SignInv

\* When the others have signed, every signature is over the message.
LEMMA OthersSignedInv ==
    ASSUME SignInv, SignTypeOK', NEW b \in Builds, OthersSigned(b)
    PROVE  SignInv'
  <1> USE IdFacts
  <1>1. /\ phase[b] = "others" /\ AllSigned(b)
        /\ sigs' = Collected(b)
        /\ msg' = msg
        /\ UNCHANGED workerVars
    BY DEF OthersSigned
  <1>2. \/ /\ b \in Actions
           /\ phase' = [phase EXCEPT ![b] = "last"]
           /\ Ask({LeadId(b)}, msg[b], SignedBefore(b))
        \/ /\ b \notin Actions
           /\ phase' = [phase EXCEPT ![b] = "signed"]
           /\ presigned' = presigned /\ call' = call
    BY Zenon DEF OthersSigned
  <1>3. /\ \A d \in Builds \ {b} : phase'[d] = phase[d]
        /\ phase'[b] \in {"last", "signed"}
    BY <1>2 DEF SignInv, SignTypeOK
  <1>4. /\ \A i \in Ids : i[1] # b \/ i = LeadId(b) => sigs'[i] = sigs[i]
        /\ \A i \in Ids : i[1] = b /\ i # LeadId(b) => sigs'[i] = msg[b]
    BY <1>1 DEF Collected, AllSigned, Others, LeadId
  <1>5. SignedOverOneMessage'
    <2>1. ASSUME NEW w \in Signers[b]
          PROVE  sigs'[<<b, w>>] = msg'[b] \/ (b \in Actions /\ w = Lead[b])
      BY <1>1, <1>4 DEF SignInv, LeadSignsFirst, LeadId
    <2>2. QED
      BY <1>1, <1>3, <1>4, <2>1 DEF SignInv, SignedOverOneMessage
  <1>6. LogicIsKept'
    BY <1>1, <1>3 DEF SignInv, LogicIsKept
  <1>7. LeadSignsFirst' /\ NotRewrittenYet'
    BY <1>1, <1>3, <1>4 DEF SignInv, LeadSignsFirst, NotRewrittenYet
  <1>8. NoEarlySignature'
    BY <1>3, <1>4 DEF SignInv, NoEarlySignature
  <1>9. \A i \in Ids : Unasked(i)' => Unasked(i)
    BY <1>3 DEF Unasked
  <1>10. NotRegisteredYet' /\ RequestsOutliveWrongSubmissions'
    <2>1. CASE b \in Actions
      <3>1. Unasked(LeadId(b)) /\ ~Unasked(LeadId(b))'
        BY <1>1, <1>3, <2>1 DEF Unasked
      <3>2. Ask({LeadId(b)}, msg[b], SignedBefore(b))
        BY <1>2, <2>1, Zenon
      <3>3. SignInv => SignTypeOK /\ NotRegisteredYet /\ RequestsOutliveWrongSubmissions
        BY DEF SignInv
      <3>4. QED
        BY <1>1, <1>9, <3>1, <3>2, <3>3, AskKeepsRegister
    <2>2. CASE b \notin Actions
      BY <1>1, <1>2, <1>9, <2>2
      DEF SignInv, NotRegisteredYet, RequestsOutliveWrongSubmissions, workerVars
    <2>3. QED
      BY <2>1, <2>2
  <1>11. QED
    BY <1>5, <1>6, <1>7, <1>8, <1>10 DEF SignInv

\* The action's signer has the last word.
LEMMA LastAnsweredInv ==
    ASSUME SignInv, SignTypeOK', NEW b \in Builds, LastAnswered(b)
    PROVE  SignInv'
  <1> USE IdFacts
  <1>1. /\ phase[b] = "last"
        /\ \A d \in Builds : phase'[d] = IF d = b THEN "signed" ELSE phase[d]
        /\ msg' = msg /\ sigs' = sigs /\ call' = call /\ presigned' = presigned
        /\ sigreg' = sigreg /\ timers' = timers
    BY DEF LastAnswered, workerVars, SignInv, SignTypeOK
  <1>2. SignedOverOneMessage'
    BY <1>1 DEF SignInv, SignedOverOneMessage
  <1>3. LogicIsKept' /\ RequestsOutliveWrongSubmissions'
    BY <1>1 DEF SignInv, LogicIsKept, RequestsOutliveWrongSubmissions
  <1>4. LeadSignsFirst' /\ NotRewrittenYet' /\ NoEarlySignature'
    BY <1>1 DEF SignInv, LeadSignsFirst, NotRewrittenYet, NoEarlySignature, LeadId
  <1>5. NotRegisteredYet'
    BY <1>1 DEF SignInv, NotRegisteredYet, Unasked
  <1>6. QED
    BY <1>2, <1>3, <1>4, <1>5 DEF SignInv

\* What the UserWorker does never touches a build.
LEMMA WorkerKeepsBuilds ==
    ASSUME SignInv, SignTypeOK', UNCHANGED <<phase, msg, sigs>>,
           RequestsOutliveWrongSubmissions', NotRegisteredYet'
    PROVE  SignInv'
  <1>1. SignedOverOneMessage' /\ LogicIsKept'
    BY DEF SignInv, SignedOverOneMessage, LogicIsKept
  <1>2. LeadSignsFirst' /\ NotRewrittenYet' /\ NoEarlySignature'
    BY DEF SignInv, LeadSignsFirst, NotRewrittenYet, NoEarlySignature, LeadId
  <1>3. QED
    BY <1>1, <1>2 DEF SignInv

\* A request is registered with its timer and leaves the register when it is
\* answered or the timer fires.
LEMMA WorkerInv ==
    ASSUME SignInv, SignTypeOK', NEW i \in Ids, Worker(i)
    PROVE  SignInv'
  <1>1. CASE Inserted(i)
    <2>1. RequestsOutliveWrongSubmissions'
      BY <1>1 DEF Inserted, SignInv, SignTypeOK, RequestsOutliveWrongSubmissions
    <2>2. NotRegisteredYet'
      BY <1>1 DEF Inserted, SignInv, SignTypeOK, NotRegisteredYet, Unasked
    <2>3. QED
      BY <1>1, <2>1, <2>2, WorkerKeepsBuilds DEF Inserted
  <1>2. CASE InsertFailed(i)
    <2>1. RequestsOutliveWrongSubmissions'
      BY <1>2 DEF InsertFailed, SignInv, SignTypeOK, RequestsOutliveWrongSubmissions, NotRegisteredYet, workerVars
    <2>2. NotRegisteredYet'
      BY <1>2 DEF InsertFailed, SignInv, SignTypeOK, NotRegisteredYet, Unasked, workerVars
    <2>3. QED
      BY <1>2, <2>1, <2>2, WorkerKeepsBuilds DEF InsertFailed
  <1>3. CASE TimerFires(i)
    <2>0. \A j \in Ids : call'[j] = IF j = i /\ i \in sigreg THEN "timeout" ELSE call[j]
      BY <1>3 DEF TimerFires, SignInv, SignTypeOK
    <2>1. RequestsOutliveWrongSubmissions'
      BY <1>3, <2>0 DEF TimerFires, SignInv, SignTypeOK, RequestsOutliveWrongSubmissions
    <2>2. NotRegisteredYet'
      BY <1>3, <2>0 DEF TimerFires, SignInv, SignTypeOK, NotRegisteredYet, Unasked
    <2>3. QED
      BY <1>3, <2>1, <2>2, WorkerKeepsBuilds DEF TimerFires
  <1>4. CASE Saved(i)
    <2>1. RequestsOutliveWrongSubmissions' /\ NotRegisteredYet'
      BY <1>4 DEF Saved, SignInv, RequestsOutliveWrongSubmissions, NotRegisteredYet, Unasked
    <2>2. QED
      BY <1>4, <2>1, WorkerKeepsBuilds DEF Saved
  <1>5. QED
    BY <1>1, <1>2, <1>3, <1>4 DEF Worker

\* A submission ends a request by an answer, or because the message of a
\* request that comes with signatures must not change.
LEMMA SubmitInv ==
    ASSUME SignInv, SignTypeOK', NEW i \in Ids, Submit(i)
    PROVE  SignInv'
  <1>1. ASSUME NEW m \in Messages, SubmitNotAllowed(i, m) PROVE SignInv'
    <2>1. RequestsOutliveWrongSubmissions'
      BY <1>1 DEF SubmitNotAllowed, SignInv, SignTypeOK, RequestsOutliveWrongSubmissions
    <2>2. NotRegisteredYet'
      BY <1>1 DEF SubmitNotAllowed, SignInv, SignTypeOK, NotRegisteredYet, Unasked
    <2>3. QED
      BY <1>1, <2>1, <2>2, WorkerKeepsBuilds DEF SubmitNotAllowed
  <1>2. ASSUME NEW m \in Messages, SubmitAccepted(i, m) PROVE SignInv'
    <2>1. RequestsOutliveWrongSubmissions'
      BY <1>2 DEF SubmitAccepted, SignInv, SignTypeOK, RequestsOutliveWrongSubmissions
    <2>2. NotRegisteredYet'
      BY <1>2 DEF SubmitAccepted, SignInv, SignTypeOK, NotRegisteredYet, Unasked
    <2>3. QED
      BY <1>2, <2>1, <2>2, WorkerKeepsBuilds DEF SubmitAccepted
  <1>3. ASSUME NEW m \in Messages, NEW valid \in BOOLEAN, SubmitRefused(i, m, valid) PROVE SignInv'
    <2>1. RequestsOutliveWrongSubmissions' /\ NotRegisteredYet'
      BY <1>3 DEF SubmitRefused, signVars, SignInv, RequestsOutliveWrongSubmissions, NotRegisteredYet, Unasked
    <2>2. QED
      BY <1>3, <2>1, WorkerKeepsBuilds DEF SubmitRefused, signVars
  <1>4. QED
    BY <1>1, <1>2, <1>3 DEF Submit

\* Every step keeps the invariant.
LEMMA SignNextInv == SignInv /\ [SignNext]_signVars => SignInv'
  <1> SUFFICES ASSUME SignInv, [SignNext]_signVars PROVE SignInv'
    OBVIOUS
  <1>1. SignTypeOK'
    BY SignNextTypeOK DEF SignInv
  <1>2. ASSUME NEW b \in Builds, Build(b) PROVE SignInv'
    BY <1>1, <1>2, BuildMessageInv, FailInv, LeadSignedInv, OthersSignedInv, LastAnsweredInv
    DEF Build, BuildFails, LeadFailed, OthersFailed, LastFailed, GiveUp
  <1>3. ASSUME NEW i \in Ids, Worker(i) \/ Submit(i) PROVE SignInv'
    BY <1>1, <1>3, WorkerInv, SubmitInv
  <1>4. CASE UNCHANGED signVars
    <2>1. RequestsOutliveWrongSubmissions' /\ NotRegisteredYet'
      BY <1>4 DEF signVars, SignInv, RequestsOutliveWrongSubmissions, NotRegisteredYet, Unasked
    <2>2. QED
      BY <1>1, <1>4, <2>1, WorkerKeepsBuilds DEF signVars
  <1>5. QED
    BY <1>2, <1>3, <1>4 DEF SignNext, Terminated

\* The invariant of the collection of signatures holds in every reachable
\* state, for every set of transactions and wallets.
THEOREM SignInvHolds == SignSpec => []SignInv
  BY SignInitInv, SignNextInv, PTL DEF SignSpec

\* The types of the builds, the requests and the UserWorker's register.
THEOREM SignTypeCorrect == SignSpec => []SignTypeOK
  <1>1. SignInv => SignTypeOK
    BY DEF SignInv
  <1>2. QED
    BY <1>1, SignInvHolds, PTL

\* build_and_sign_tx and build_for_solana_action only hand out transactions
\* that all wallets signed over the same message.
THEOREM SignedOverOneMessageHolds == SignSpec => []SignedOverOneMessage
  <1>1. SignInv => SignedOverOneMessage
    BY DEF SignInv
  <1>2. QED
    BY <1>1, SignInvHolds, PTL

\* However a wallet rewrites a message, the transaction runs the programs it
\* was built for and gives them no account in the place of another.
THEOREM LogicIsKeptHolds == SignSpec => []LogicIsKept
  <1>1. SignInv => LogicIsKept
    BY DEF SignInv
  <1>2. QED
    BY <1>1, SignInvHolds, PTL

\* A wrong submission never uses up a request that may still be rewritten.
THEOREM RequestsOutliveHolds == SignSpec => []RequestsOutliveWrongSubmissions
  <1>1. SignInv => RequestsOutliveWrongSubmissions
    BY DEF SignInv
  <1>2. QED
    BY <1>1, SignInvHolds, PTL

\* A message that somebody signed is never changed.
THEOREM SignedMessageStaysFixed == SignSpec => SignedMessageIsFixed
  <1> DEFINE Fixed == \A i \in Ids : sigs[i] # NoMessage => msg'[i[1]] = msg[i[1]]
  <1>1. SignInv /\ [SignNext]_signVars => Fixed
    <2> SUFFICES ASSUME SignInv, [SignNext]_signVars, NEW i \in Ids, sigs[i] # NoMessage
                 PROVE  msg'[i[1]] = msg[i[1]]
      OBVIOUS
    <2> USE IdFacts
    <2>1. phase[i[1]] \notin {"new", "lead"}
      BY DEF SignInv, NoEarlySignature
    <2>2. ASSUME NEW b \in Builds, BuildMessage(b) \/ LeadSigned(b) PROVE msg'[i[1]] = msg[i[1]]
      <3>1. phase[b] \in {"new", "lead"} /\ \E m : msg' = [msg EXCEPT ![b] = m]
        BY <2>2, Zenon DEF BuildMessage, LeadSigned
      <3>2. QED
        BY <2>1, <3>1 DEF SignInv, SignTypeOK
    <2>3. ASSUME NEW b \in Builds, Build(b), ~BuildMessage(b), ~LeadSigned(b) PROVE msg' = msg
      BY <2>3 DEF Build, BuildFails, LeadFailed, OthersSigned, OthersFailed, LastAnswered,
                  LastFailed, GiveUp, Fail
    <2>4. ASSUME NEW j \in Ids, Worker(j) \/ Submit(j) PROVE msg' = msg
      BY <2>4 DEF Worker, Inserted, InsertFailed, TimerFires, Saved,
                  Submit, SubmitNotAllowed, SubmitAccepted, SubmitRefused, signVars
    <2>5. CASE UNCHANGED signVars
      BY <2>5 DEF signVars
    <2>6. QED
      BY <2>2, <2>3, <2>4, <2>5 DEF SignNext, Terminated
  <1>2. QED
    BY <1>1, SignInvHolds, PTL DEF SignSpec, SignedMessageIsFixed

-----------------------------------------------------------------------------
(* The copies of flows *)

(* The helpers *)

\* A finite set of numbers has a bound.
LEMMA FiniteIsBounded ==
  ASSUME NEW S, S \subseteq Nat, IsFiniteSet(S)
  PROVE  \E k \in Nat : \A x \in S : x <= k
<1> DEFINE Unbounded(T) == T \subseteq Nat /\ IsFiniteSet(T) /\ ~ \E k \in Nat : \A x \in T : x <= k
           Sizes == {n \in Nat : \E T \in SUBSET Nat : Unbounded(T) /\ Cardinality(T) = n}
<1> SUFFICES ASSUME Unbounded(S) PROVE FALSE
  OBVIOUS
<1>1. Cardinality(S) \in Sizes /\ Sizes \subseteq Nat
  BY FS_CardinalityType
<1>2. PICK m \in Sizes : \A n \in Sizes : m <= n
  <2> HIDE DEF Sizes
  <2> QED
    BY <1>1, LeastElement
<1>3. PICK T \in SUBSET Nat : Unbounded(T) /\ Cardinality(T) = m
  BY <1>2
<1>4. PICK x \in T : x \in Nat
  <2>1. T # {}
    BY <1>3
  <2> QED
    BY <1>3, <2>1
<1>5. IsFiniteSet(T \ {x}) /\ Cardinality(T \ {x}) = m - 1 /\ m \in Nat
  BY <1>2, <1>3, <1>4, FS_RemoveElement
<1>6. Cardinality(T \ {x}) \in Nat
  BY <1>5, FS_CardinalityType
<1>7. ~ Unbounded(T \ {x})
  <2>1. m - 1 \notin Sizes
    BY <1>2, <1>5
  <2> QED
    BY <1>5, <1>6, <2>1
<1>8. PICK k \in Nat : \A y \in T \ {x} : y <= k
  BY <1>3, <1>5, <1>7
<1>9. PICK l \in Nat : k <= l /\ x <= l
  BY <1>4
<1>10. \A y \in T : y <= l
  BY <1>3, <1>8, <1>9
<1> QED
  BY <1>3, <1>9, <1>10

\* It has a greatest element.
LEMMA MaxFacts ==
  ASSUME NEW S, S \subseteq Nat, IsFiniteSet(S), S # {}
  PROVE  Max(S) \in S /\ \A x \in S : x <= Max(S)
<1> DEFINE Bounds == {k \in Nat : \A x \in S : x <= k}
<1>1. Bounds # {} /\ Bounds \subseteq Nat
  BY FiniteIsBounded
<1>2. PICK m \in Bounds : \A n \in Bounds : m <= n
  <2> HIDE DEF Bounds
  <2> QED
    BY <1>1, LeastElement
<1>3. m \in S
  <2> SUFFICES ASSUME m \notin S PROVE FALSE
    OBVIOUS
  <2>1. \A x \in S : x \in Nat /\ x <= m /\ x # m
    BY <1>2
  <2>2. m # 0
    <3>1. PICK x \in S : x <= m /\ x # m /\ x \in Nat
      BY <2>1
    <3> QED
      BY <3>1
  <2>3. m - 1 \in Nat /\ \A x \in S : x <= m - 1
    BY <1>2, <2>1, <2>2
  <2> QED
    BY <1>2, <2>3
<1>4. \E x \in S : \A y \in S : x >= y
  BY <1>2, <1>3
<1>5. Max(S) \in S /\ \A y \in S : Max(S) >= y
  BY <1>4 DEF Max
<1> QED
  BY <1>5

\* The queue without its last element.
LEMMA PopFacts ==
  ASSUME NEW S, NEW s \in Seq(S), s # <<>>
  PROVE  Front(s) \in Seq(S) /\ Last(s) \in S /\ Range(s) = Range(Front(s)) \cup {Last(s)}
<1>1. Len(s) \in Nat /\ Len(s) # 0
  BY EmptyFacts
<1> DEFINE k == Len(s) - 1
           t == SubSeq(s, 1, k)
<1>2. k \in 0..Len(s) /\ k \in Nat /\ Len(s) = k + 1
  BY <1>1
<1>3. t \in Seq(S) /\ Len(t) = k /\ \A i \in 1..k : t[i] = s[i]
  BY <1>2, SplitFacts
<1>4. Front(s) = t /\ Last(s) = s[k + 1] /\ s[k + 1] \in S
  BY <1>1, <1>2 DEF Front, Last
<1> HIDE DEF k, t
<1>5. \A x : x \in Range(s) <=> \E i \in 1..k + 1 : x = s[i]
  BY <1>2, RangeFacts
<1>6. \A x : x \in Range(t) <=> \E i \in 1..k : x = s[i]
  <2>1. \A x : x \in Range(t) <=> \E i \in 1..Len(t) : x = t[i]
    BY <1>3, RangeFacts
  <2> QED
    BY <1>3, <2>1
<1>7. \A i \in 1..k + 1 : i \in 1..k \/ i = k + 1
  BY <1>2
<1>8. Range(s) = Range(t) \cup {s[k + 1]}
  <2>1. k + 1 \in 1..k + 1 /\ \A i \in 1..k : i \in 1..k + 1
    BY <1>2
  <2> QED
    BY <1>5, <1>6, <1>7, <2>1
<1> QED
  BY <1>3, <1>4, <1>8

\* The flows that the interflow nodes call.
LEMMA InterflowsFacts ==
  ASSUME NEW nodes \in Seq(Node)
  PROVE  /\ Interflows(nodes) \in Seq(Nat)
         /\ Calls(nodes, Range(Interflows(nodes)))
<1> DEFINE T == {n \in Range(nodes) : n.kind = "interflow"}
           c == Keep(nodes, T)
           r == [i \in DOMAIN c |-> c[i].ref]
<1>1. c \in Seq(Node) /\ Range(c) = Range(nodes) \cap T
  <2> HIDE DEF T
  <2> QED
    BY KeepRange
<1>2. Interflows(nodes) = r
  BY DEF Interflows
<1>3. \A x \in Range(nodes) : x.kind = "interflow" => x \in Range(c)
  BY <1>1
<1> HIDE DEF T, c
<1>4. \A n \in Node : n.ref \in Nat
  BY DEF Node
<1>5. r \in Seq(Nat) /\ Len(r) = Len(c) /\ \A i \in 1..Len(c) : r[i] = c[i].ref
  BY <1>1, <1>4
<1> HIDE DEF r
<1>6. \A x : x \in Range(c) <=> \E i \in 1..Len(c) : x = c[i]
  BY <1>1, RangeFacts
<1>7. \A x : x \in Range(r) <=> \E i \in 1..Len(r) : x = r[i]
  BY <1>5, RangeFacts
<1>8. ASSUME NEW i \in DOMAIN nodes, nodes[i].kind = "interflow"
      PROVE  nodes[i].ref \in Range(r)
  <2>1. nodes[i] \in Range(nodes)
    BY RangeFacts
  <2>2. PICK j \in 1..Len(c) : nodes[i] = c[j]
    BY <1>3, <1>6, <1>8, <2>1
  <2> QED
    BY <1>5, <1>7, <2>2
<1> QED
  BY <1>2, <1>5, <1>8 DEF Calls

\* What is pushed makes all that is called known.
LEMMA PushFacts ==
  ASSUME NEW q \in Seq(Nat), NEW refs \in Seq(Nat), NEW T
  PROVE  /\ q \o Keep(refs, Range(refs) \ T) \in Seq(Nat)
         /\ Range(q) \subseteq Range(q \o Keep(refs, Range(refs) \ T))
         /\ Range(refs) \subseteq T \cup Range(q \o Keep(refs, Range(refs) \ T))
<1> DEFINE X == Range(refs) \ T
           k == Keep(refs, X)
<1>1. k \in Seq(Nat) /\ Range(k) = Range(refs) \cap X
  <2> HIDE DEF X
  <2> QED
    BY KeepRange
<1>2. Range(refs) \cap X = Range(refs) \ T
  OBVIOUS
<1> HIDE DEF k
<1>3. q \o k \in Seq(Nat) /\ Range(q \o k) = Range(q) \cup Range(k)
  BY <1>1, ConcatFacts, RangeConcat
<1>4. Range(q) \subseteq Range(q \o k) /\ Range(refs) \subseteq T \cup Range(q \o k)
  BY <1>1, <1>2, <1>3
<1> QED
  BY <1>3, <1>4 DEF k

\* A new flow has an id that no flow has.
LEMMA NewIdFacts ==
  ASSUME CopiesApart, DOMAIN flows = DOMAIN Stored, root \in DOMAIN Stored
  PROVE  NewId \in Nat /\ NewId \notin DOMAIN flows /\ NewId \notin DOMAIN draft
<1> DEFINE S == DOMAIN flows \cup DOMAIN draft
<1>1. S \subseteq Nat /\ S # {}
  BY StoredAssumption DEF CopiesApart
<1>2. IsFiniteSet(S)
  BY StoredAssumption, FS_Union DEF CopiesApart
<1>3. NewId = 1 + Max(S)
  BY DEF NewId
<1> HIDE DEF S
<1>4. Max(S) \in S /\ \A x \in S : x <= Max(S)
  BY <1>1, <1>2, MaxFacts
<1>5. PICK m \in Nat : m = Max(S) /\ \A x \in S : x <= m
  BY <1>1, <1>4
<1>6. m + 1 \in Nat /\ m + 1 \notin S
  BY <1>1, <1>5
<1>7. NewId = m + 1
  BY <1>3, <1>5
<1> QED
  BY <1>6, <1>7 DEF S

\* The wallet that a wallet node gets is one of the user.
LEMMA WalletForFacts ==
  ASSUME user \in Users, owner \in Users, WalletsOf[user] # <<>>, NEW w
  PROVE  WalletFor(w) \in Range(WalletsOf[user])
<1> DEFINE own == WalletsOf[user]
           T == {v \in Range(own) : PublicKey[v] = PublicKey[w]}
           same == Keep(own, T)
           known == Contains(WalletsOf[owner], w)
<1>1. own \in Seq(Nat) /\ own # <<>> /\ WalletsOf[owner] \in Seq(Nat)
  BY WalletsAssumption
<1>2. WalletFor(w) = CASE known /\ owner = user -> w
                       [] known /\ owner # user /\ same # <<>> -> same[1]
                       [] OTHER -> own[1]
  BY DEF WalletFor
<1>3. known /\ owner = user => w \in Range(own)
  BY <1>1, RangeFacts DEF Contains
<1> HIDE DEF own, known
<1>4. same \in Seq(Nat) /\ Range(same) = Range(own) \cap T
  <2> HIDE DEF T
  <2> QED
    BY <1>1, KeepRange
<1> HIDE DEF T, same
<1>5. ASSUME NEW s \in Seq(Nat), s # <<>> PROVE s[1] \in Range(s)
  BY <1>5, RangeFacts, EmptyFacts
<1>6. own[1] \in Range(own) /\ (same # <<>> => same[1] \in Range(own))
  BY <1>1, <1>4, <1>5
<1>7. WalletFor(w) \in Range(own)
  BY <1>2, <1>3, <1>6
<1> QED
  BY <1>7 DEF own

\* What update_flow does with a node.
LEMMA UpdateNodeFacts ==
  ASSUME CloneTypeOK, CopiesApart, WalletsOf[user] # <<>>, NEW n \in Node
  PROVE  /\ UpdateNode(n) \in Node
         /\ n.kind = "interflow" =>
              IF n.ref \in DOMAIN idMap
                THEN UpdateNode(n).kind = "interflow" /\ UpdateNode(n).ref = idMap[n.ref]
                ELSE UpdateNode(n).kind = "null"
         /\ n.kind = "wallet" =>
              /\ UpdateNode(n).kind = "wallet" /\ UpdateNode(n).ref \in Range(WalletsOf[user])
              /\ UpdateNode(n).key = PublicKey[UpdateNode(n).ref]
         /\ n.kind \notin {"interflow", "wallet"} => UpdateNode(n) = n
<1>1. user \in Users /\ owner \in Users
  BY DEF CloneTypeOK
<1>2. PICK w : w = WalletFor(n.ref)
  OBVIOUS
<1>3. w \in Range(WalletsOf[user])
  BY <1>1, <1>2, WalletForFacts
<1>4. w \in Nat /\ PublicKey[w] \in Range(PublicKey)
  <2>1. WalletsOf[user] \in Seq(Nat) /\ Range(WalletsOf[user]) \subseteq DOMAIN PublicKey
    BY <1>1, WalletsAssumption
  <2> QED
    BY <1>3, <2>1, RangeFacts DEF Range
<1>5. \A f \in DOMAIN idMap : idMap[f] \in Nat
  BY DEF CloneTypeOK, CopiesApart
<1>6. /\ n = [kind |-> n.kind, ref |-> n.ref, key |-> n.key]
      /\ n.ref \in Nat /\ n.key \in Range(PublicKey) \cup {"none"}
  BY DEF Node
<1>7. CASE n.kind = "interflow"
  <2>1. UpdateNode(n) = IF n.ref \in DOMAIN idMap THEN [n EXCEPT !.ref = idMap[n.ref]] ELSE NullNode
    BY <1>7 DEF UpdateNode
  <2>2. CASE n.ref \in DOMAIN idMap
    <3>1. UpdateNode(n) = [kind |-> "interflow", ref |-> idMap[n.ref], key |-> n.key]
      BY <1>6, <1>7, <2>1, <2>2
    <3> QED
      BY <1>5, <1>6, <1>7, <2>2, <3>1 DEF Node
  <2>3. CASE n.ref \notin DOMAIN idMap
    <3>1. UpdateNode(n) = NullNode
      BY <2>1, <2>3
    <3>2. NullNode \in Node /\ NullNode.kind = "null"
      BY DEF NullNode, Node
    <3> QED
      BY <1>7, <2>3, <3>1, <3>2
  <2> QED
    BY <2>2, <2>3
<1>8. CASE n.kind = "wallet"
  <2>1. UpdateNode(n) = [n EXCEPT !.ref = w, !.key = PublicKey[w]]
    BY <1>2, <1>8 DEF UpdateNode
  <2>2. UpdateNode(n) = [kind |-> "wallet", ref |-> w, key |-> PublicKey[w]]
    BY <1>6, <1>8, <2>1
  <2> QED
    BY <1>3, <1>4, <1>8, <2>2 DEF Node
<1>9. CASE n.kind \notin {"interflow", "wallet"}
  BY <1>9 DEF UpdateNode
<1> QED
  BY <1>7, <1>8, <1>9

\* What it does with a flow.
LEMMA UpdateFlowFacts ==
  ASSUME CloneTypeOK, CopiesApart, WalletsOf[user] # <<>>, NEW f \in Flow
  PROVE  /\ UpdateFlow(f) \in Flow /\ UpdateFlow(f).owner = f.owner
         /\ Len(UpdateFlow(f).nodes) = Len(f.nodes)
         /\ \A i \in 1..Len(f.nodes) : UpdateFlow(f).nodes[i] = UpdateNode(f.nodes[i])
<1> DEFINE new == [i \in DOMAIN f.nodes |-> UpdateNode(f.nodes[i])]
<1>1. f.nodes \in Seq(Node)
  BY DEF Flow
<1>2. \A n \in Node : UpdateNode(n) \in Node
  BY UpdateNodeFacts
<1>3. new \in Seq(Node) /\ Len(new) = Len(f.nodes)
      /\ \A i \in 1..Len(f.nodes) : new[i] = UpdateNode(f.nodes[i])
  BY <1>1, <1>2
<1>4. UpdateFlow(f) = [f EXCEPT !.nodes = new]
  BY DEF UpdateFlow
<1> HIDE DEF new
<1>5. UpdateFlow(f) = [owner |-> f.owner, public |-> f.public, nodes |-> new]
  BY <1>4 DEF Flow
<1> QED
  BY <1>3, <1>5 DEF Flow

-----------------------------------------------------------------------------
(* The steps *)

\* The initial states satisfy the invariant.
LEMMA CloneInitInv == CloneInit => CloneInv
<1> SUFFICES ASSUME CloneInit PROVE CloneInv
  OBVIOUS
<1>1. NoFlows \in [DOMAIN NoFlows -> Flow] /\ DOMAIN NoFlows = {} /\ NoFlows \in [DOMAIN NoFlows -> DOMAIN NoFlows]
  BY DEF NoFlows
<1> HIDE DEF NoFlows
<1>2. CloneTypeOK
  BY <1>1, StoredAssumption, MaxEditsAssumption, EmptyFacts DEF CloneInit, CloneTypeOK
<1>3. CopiesApart
  BY <1>1, FS_EmptySet DEF CloneInit, CopiesApart
<1> QED
  BY <1>1, <1>2, <1>3 DEF CloneInit, CloneInv, WalkInv, BegunInv, CallsInv, DraftInv, Running

\* Begin: the transaction sees the flows as they are.
LEMMA BeginInv == CloneInv /\ Begin => CloneInv'
<1> SUFFICES ASSUME CloneInv, Begin PROVE CloneInv'
  OBVIOUS
<1> USE DEF flowVars, requestVars, walkVars, copyVars
<1>1. CloneTypeOK'
  BY DEF CloneInv, CloneTypeOK, Begin, Running
<1>2. CopiesApart'
  BY DEF CloneInv, CopiesApart, Begin
<1>3. WalkInv'
  BY DEF CloneInv, WalkInv, Begin
<1>4. BegunInv'
  BY DEF CloneInv, CopiesApart, WalkInv, BegunInv, Begin
<1>5. CallsInv'
  BY DEF CloneInv, WalkInv, CallsInv, Begin
<1>6. DraftInv'
  BY DEF CloneInv, CopiesApart, WalkInv, DraftInv, Begin
<1> QED
  BY <1>1, <1>2, <1>3, <1>4, <1>5, <1>6 DEF CloneInv

\* An error: nothing was changed but the copies, which are dropped.
LEMMA RollbackInv ==
  ASSUME CloneInv, Rollback, UNCHANGED <<flows, edits, edited, user, root, owner, begun, current, ids>>,
         queue' \in Seq(Nat), stage \in Running
  PROVE  CloneInv'
<1>1. NoFlows \in [DOMAIN NoFlows -> Flow] /\ DOMAIN NoFlows = {} /\ NoFlows \in [DOMAIN NoFlows -> DOMAIN NoFlows]
  BY DEF NoFlows
<1>2. stage' = "failed" /\ draft' = NoFlows /\ idMap' = NoFlows
  BY DEF Rollback
<1> HIDE DEF NoFlows
<1>3. CloneTypeOK'
  BY <1>1, <1>2 DEF CloneInv, CloneTypeOK
<1>4. CopiesApart'
  BY <1>1, <1>2, FS_EmptySet DEF CloneInv, CopiesApart, Running
<1> QED
  BY <1>2, <1>3, <1>4 DEF CloneInv, WalkInv, BegunInv, CallsInv, DraftInv, Running

\* The owner is read.
LEMMA GetOwnerInv == CloneInv /\ GetOwner => CloneInv'
<1> SUFFICES ASSUME CloneInv, GetOwner PROVE CloneInv'
  OBVIOUS
<1> USE DEF flowVars, requestVars, walkVars, copyVars
<1>1. CASE ~ Visible(root)
  BY <1>1, RollbackInv DEF GetOwner, CloneInv, CloneTypeOK, Running
<1>2. CASE Visible(root)
  <2>1. /\ stage = "owner" /\ stage' = "wallets" /\ owner' = flows[root].owner /\ owner' \in Users
        /\ UNCHANGED <<flows, edits, edited, user, root, begun, queue, current, ids, draft, idMap>>
    BY <1>2 DEF GetOwner, Visible, CloneInv, CloneTypeOK, Flow
  <2>2. CloneTypeOK'
    BY <2>1 DEF CloneInv, CloneTypeOK, Running
  <2> QED
    BY <2>1, <2>2 DEF CloneInv, CopiesApart, WalkInv, BegunInv, CallsInv, DraftInv, Running
<1> QED
  BY <1>1, <1>2

\* The wallets are read.
LEMMA GetWalletsInv == CloneInv /\ GetWallets => CloneInv'
<1> SUFFICES ASSUME CloneInv, GetWallets PROVE CloneInv'
  OBVIOUS
<1> USE DEF flowVars, requestVars, walkVars, copyVars
<1>1. CASE WalletsOf[user] = <<>>
  BY <1>1, RollbackInv DEF GetWallets, CloneInv, CloneTypeOK, Running
<1>2. CASE WalletsOf[user] # <<>>
  <2>1. /\ stage = "wallets" /\ stage' = "check" /\ queue' = <<root>> /\ root \in Nat
        /\ UNCHANGED <<flows, edits, edited, user, root, owner, begun, current, ids, draft, idMap>>
    BY <1>2, StoredAssumption DEF GetWallets, CloneInv, CloneTypeOK
  <2>2. queue' \in Seq(Nat) /\ root \in Range(queue')
    BY <2>1 DEF Range
  <2>3. CloneTypeOK'
    BY <2>1, <2>2 DEF CloneInv, CloneTypeOK, Running
  <2> QED
    BY <1>2, <2>1, <2>2, <2>3 DEF CloneInv, CopiesApart, WalkInv, BegunInv, CallsInv, DraftInv, Running
<1> QED
  BY <1>1, <1>2

\* A flow is visited.
LEMMA CheckFlowInv == CloneInv /\ CheckFlow => CloneInv'
<1> SUFFICES ASSUME CloneInv, CheckFlow PROVE CloneInv'
  OBVIOUS
<1> USE DEF flowVars, requestVars, walkVars, copyVars
<1>1. /\ stage = "check" /\ queue # <<>> /\ queue' = Front(queue) /\ queue' \in Seq(Nat)
      /\ Last(queue) \in Nat /\ Range(queue) = Range(queue') \cup {Last(queue)}
  BY PopFacts DEF CheckFlow, CloneInv, CloneTypeOK
<1>2. CASE ~ Visible(Last(queue))
  BY <1>1, <1>2, RollbackInv DEF CheckFlow, Running
<1>3. CASE Visible(Last(queue))
  <2>1. PICK l : l = Last(queue) /\ Visible(l)
    BY <1>3
  <2>2. /\ stage' = "interflows" /\ ids' = ids \cup {l} /\ current' = l /\ l \in Nat
        /\ Range(queue) = Range(queue') \cup {l}
        /\ UNCHANGED <<flows, edits, edited, user, root, owner, begun, draft, idMap>>
    BY <1>1, <1>3, <2>1 DEF CheckFlow
  <2>3. l \in DOMAIN Stored /\ DOMAIN flows = DOMAIN Stored
        /\ (flows[l].owner = user \/ flows[l].public)
    BY <1>1, <2>1 DEF CloneInv, CopiesApart, Visible
  <2>4. CloneTypeOK'
    BY <1>1, <2>2, <2>3 DEF CloneInv, CloneTypeOK, Running
  <2>5. CopiesApart'
    BY <1>1, <2>2 DEF CloneInv, CopiesApart
  <2>6. WalkInv'
    BY <1>1, <2>2 DEF CloneInv, WalkInv
  <2>7. BegunInv'
    BY <1>1, <2>2, <2>3 DEF CloneInv, BegunInv, Running
  <2>8. CallsInv'
    <3> SUFFICES ASSUME NEW f \in ids' \ edited', f # current'
                 PROVE  Calls(begun[f].nodes, ids' \cup Range(queue'))
      BY <2>2 DEF CallsInv
    <3>1. f \in ids \ edited /\ Calls(begun[f].nodes, ids \cup Range(queue))
      BY <1>1, <2>2 DEF CloneInv, CallsInv, Running
    <3>2. ids \cup Range(queue) \subseteq ids' \cup Range(queue')
      BY <2>2
    <3> QED
      BY <3>1, <3>2 DEF Calls
  <2>9. DraftInv'
    BY <1>1, <2>2 DEF CloneInv, DraftInv, Running
  <2> QED
    BY <2>4, <2>5, <2>6, <2>7, <2>8, <2>9 DEF CloneInv
<1> QED
  BY <1>2, <1>3

\* What it calls is pushed.
LEMMA GetInterflowsInv == CloneInv /\ GetInterflows => CloneInv'
<1> SUFFICES ASSUME CloneInv, GetInterflows PROVE CloneInv'
  OBVIOUS
<1> USE DEF flowVars, requestVars, walkVars, copyVars
<1>1. PICK refs : refs = Interflows(flows[current].nodes)
  OBVIOUS
<1>2. stage = "interflows" /\ current \in ids /\ current \in DOMAIN Stored /\ DOMAIN flows = DOMAIN Stored
  BY DEF GetInterflows, CloneInv, WalkInv, CloneTypeOK, CopiesApart
<1>3. flows[current].nodes \in Seq(Node)
  BY <1>2 DEF CloneInv, CloneTypeOK, Flow
<1>4. refs \in Seq(Nat) /\ Calls(flows[current].nodes, Range(refs))
  BY <1>1, <1>3, InterflowsFacts
<1>5. CASE Contains(refs, 0)
  BY <1>1, <1>2, <1>5, RollbackInv DEF GetInterflows, CloneInv, CloneTypeOK, Running
<1>6. CASE ~ Contains(refs, 0)
  <2>1. /\ stage' = "check" /\ queue' = queue \o Keep(refs, Range(refs) \ ids)
        /\ UNCHANGED <<flows, edits, edited, user, root, owner, begun, current, ids, draft, idMap>>
    BY <1>1, <1>6 DEF GetInterflows
  <2>2. /\ queue' \in Seq(Nat) /\ Range(queue) \subseteq Range(queue')
        /\ Range(refs) \subseteq ids \cup Range(queue')
    <3>1. queue \in Seq(Nat)
      BY DEF CloneInv, CloneTypeOK
    <3> QED
      BY <1>4, <2>1, <3>1, PushFacts
  <2>3. CloneTypeOK'
    BY <2>1, <2>2 DEF CloneInv, CloneTypeOK, Running
  <2>4. CopiesApart'
    BY <1>2, <2>1 DEF CloneInv, CopiesApart
  <2>5. WalkInv'
    BY <1>2, <2>1, <2>2 DEF CloneInv, WalkInv
  <2>6. BegunInv'
    BY <1>2, <2>1 DEF CloneInv, BegunInv, Running
  <2>7. CallsInv'
    <3> SUFFICES ASSUME NEW f \in ids \ edited
                 PROVE  Calls(begun[f].nodes, ids \cup Range(queue'))
      BY <2>1 DEF CallsInv
    <3>1. CASE f = current
      <4>1. begun[f] = flows[current]
        BY <1>2, <3>1 DEF CloneInv, BegunInv, Running
      <4> QED
        BY <1>4, <2>2, <4>1 DEF Calls
    <3>2. CASE f # current
      <4>1. Calls(begun[f].nodes, ids \cup Range(queue))
        BY <1>2, <3>2 DEF CloneInv, CallsInv, Running
      <4> QED
        BY <2>2, <4>1 DEF Calls
    <3> QED
      BY <3>1, <3>2
  <2>8. DraftInv'
    BY <1>2, <2>1 DEF CloneInv, DraftInv, Running
  <2> QED
    BY <2>3, <2>4, <2>5, <2>6, <2>7, <2>8 DEF CloneInv
<1> QED
  BY <1>5, <1>6

\* A flow is copied.
LEMMA CopyFlowInv == ASSUME CloneInv, NEW id, CopyFlow(id) PROVE CloneInv'
<1> USE DEF flowVars, requestVars, walkVars, copyVars
<1> DEFINE copy == [owner |-> user, public |-> FALSE, nodes |-> flows[id].nodes]
<1>1. PICK new : new = NewId
  OBVIOUS
<1>2. /\ stage = "check" /\ queue = <<>> /\ id \in ids /\ id \notin DOMAIN idMap
      /\ draft' = Add(draft, new, copy) /\ idMap' = Add(idMap, id, new)
      /\ UNCHANGED <<flows, edits, edited, user, root, owner, begun, stage, queue, current, ids>>
  BY <1>1 DEF CopyFlow, Walked
<1>3. id \in DOMAIN Stored /\ DOMAIN flows = DOMAIN Stored /\ flows[id] \in Flow
  BY <1>2 DEF CloneInv, CloneTypeOK, CopiesApart
<1>4. copy \in Flow /\ copy.owner = user /\ copy.nodes = flows[id].nodes
  BY <1>3 DEF CloneInv, CloneTypeOK, Flow
<1> HIDE DEF copy
<1>5. new \in Nat /\ new \notin DOMAIN Stored /\ new \notin DOMAIN draft
  <2>1. CopiesApart /\ root \in DOMAIN Stored
    BY DEF CloneInv, CloneTypeOK
  <2> QED
    BY <1>1, <1>3, <2>1, NewIdFacts
<1>6. /\ DOMAIN draft' = DOMAIN draft \cup {new} /\ draft'[new] = copy
      /\ \A c \in DOMAIN draft : draft'[c] = draft[c]
  <2>1. draft' = [c \in DOMAIN draft \cup {new} |-> IF c \in DOMAIN draft THEN draft[c] ELSE copy]
    BY <1>2 DEF Add
  <2> QED
    BY <1>5, <2>1
<1>7. /\ DOMAIN idMap' = DOMAIN idMap \cup {id} /\ idMap'[id] = new
      /\ \A f \in DOMAIN idMap : idMap'[f] = idMap[f]
  <2>1. idMap' = [f \in DOMAIN idMap \cup {id} |-> IF f \in DOMAIN idMap THEN idMap[f] ELSE new]
    BY <1>2 DEF Add
  <2> QED
    BY <1>2, <2>1
<1>8. draft' \in [DOMAIN draft' -> Flow]
  <2>1. draft' = [c \in DOMAIN draft \cup {new} |-> IF c \in DOMAIN draft THEN draft[c] ELSE copy]
    BY <1>2 DEF Add
  <2>2. draft \in [DOMAIN draft -> Flow]
    BY DEF CloneInv, CloneTypeOK
  <2> QED
    BY <1>4, <2>1, <2>2
<1>9. idMap' \in [DOMAIN idMap' -> DOMAIN draft']
  <2>1. idMap' = [f \in DOMAIN idMap \cup {id} |-> IF f \in DOMAIN idMap THEN idMap[f] ELSE new]
    BY <1>2 DEF Add
  <2>2. idMap \in [DOMAIN idMap -> DOMAIN draft]
    BY DEF CloneInv, CloneTypeOK
  <2> QED
    BY <1>6, <2>1, <2>2
<1>10. CloneTypeOK'
  BY <1>2, <1>8, <1>9 DEF CloneInv, CloneTypeOK
<1>11. CopiesApart'
  <2>1. IsFiniteSet(DOMAIN draft')
    BY <1>6, FS_AddElement DEF CloneInv, CopiesApart
  <2>2. DOMAIN draft' \subseteq Nat \ DOMAIN Stored
    BY <1>5, <1>6 DEF CloneInv, CopiesApart
  <2>3. \A c \in DOMAIN draft' : draft'[c].owner = user
    BY <1>4, <1>6 DEF CloneInv, CopiesApart
  <2>4. DOMAIN idMap' \subseteq ids
    BY <1>2, <1>7 DEF CloneInv, CopiesApart
  <2> QED
    BY <1>2, <1>3, <2>1, <2>2, <2>3, <2>4 DEF CopiesApart
<1>12. WalkInv' /\ BegunInv' /\ CallsInv'
  BY <1>2 DEF CloneInv, WalkInv, BegunInv, CallsInv
<1>13. DraftInv'
  <2> SUFFICES ASSUME NEW f \in DOMAIN idMap' \ edited
               PROVE  draft'[idMap'[f]].nodes = begun[f].nodes
    BY <1>2 DEF DraftInv
  <2>1. CASE f = id
    <3>1. flows[id] = begun[id]
      BY <1>2, <1>3, <2>1 DEF CloneInv, BegunInv, Running
    <3> QED
      BY <1>4, <1>6, <1>7, <2>1, <3>1
  <2>2. CASE f # id
    <3>1. f \in DOMAIN idMap \ edited /\ idMap[f] \in DOMAIN draft
      BY <1>7, <2>2 DEF CloneInv, CloneTypeOK
    <3>2. draft[idMap[f]].nodes = begun[f].nodes
      BY <1>2, <3>1 DEF CloneInv, DraftInv, Running
    <3> QED
      BY <1>6, <1>7, <3>1, <3>2
  <2> QED
    BY <2>1, <2>2
<1> QED
  BY <1>10, <1>11, <1>12, <1>13 DEF CloneInv

\* What update_flow does depends on nothing that others change.
LEMMA UpdateFlowFrame ==
  ASSUME UNCHANGED <<user, owner, idMap, draft>>
  PROVE  \A c \in DOMAIN draft : UpdateFlow(draft[c])' = UpdateFlow(draft[c])
<1>1. ASSUME NEW w PROVE WalletFor(w)' = WalletFor(w)
  BY DEF WalletFor
<1>2. ASSUME NEW n PROVE UpdateNode(n)' = UpdateNode(n)
  BY <1>1 DEF UpdateNode
<1> QED
  BY <1>2 DEF UpdateFlow

\* The transaction is committed.
LEMMA CommitInv == CloneInv /\ Commit => CloneInv'
<1> SUFFICES ASSUME CloneInv, Commit PROVE CloneInv'
  OBVIOUS
<1> USE DEF flowVars, requestVars, walkVars, copyVars
<1> DEFINE new == [f \in DOMAIN flows \cup DOMAIN draft |->
                    IF f \in DOMAIN flows THEN flows[f] ELSE UpdateFlow(draft[f])]
<1>1. /\ stage = "check" /\ queue = <<>> /\ DOMAIN idMap = ids /\ stage' = "done" /\ flows' = new
      /\ UNCHANGED <<edits, edited, user, root, owner, begun, queue, current, ids, draft, idMap>>
  BY DEF Commit, Walked
<1>2. CloneTypeOK /\ CopiesApart /\ WalletsOf[user] # <<>> /\ DOMAIN flows = DOMAIN Stored
  BY <1>1 DEF CloneInv, WalkInv, CopiesApart
<1>3. \A c \in DOMAIN draft : c \notin DOMAIN flows /\ draft[c] \in Flow /\ UpdateFlow(draft[c]) \in Flow
  BY <1>2, UpdateFlowFacts DEF CloneTypeOK, CopiesApart
<1>4. \A f \in DOMAIN flows : flows[f] \in Flow
  BY <1>2 DEF CloneTypeOK
<1>5. /\ DOMAIN flows' = DOMAIN Stored \cup DOMAIN draft /\ flows' \in [DOMAIN flows' -> Flow]
      /\ \A c \in DOMAIN draft : flows'[c] = UpdateFlow(draft[c])
  BY <1>1, <1>2, <1>3, <1>4
<1> HIDE DEF new
<1>6. CloneTypeOK'
  BY <1>1, <1>5 DEF CloneInv, CloneTypeOK
<1>7. CopiesApart'
  BY <1>1, <1>5 DEF CloneInv, CopiesApart
<1>8. WalkInv' /\ BegunInv' /\ CallsInv'
  BY <1>1 DEF CloneInv, WalkInv, BegunInv, CallsInv, Running
<1>9. DraftInv'
  <2>1. \A c \in DOMAIN draft : UpdateFlow(draft[c])' = UpdateFlow(draft[c])
    BY <1>1, UpdateFlowFrame
  <2>2. \A f \in DOMAIN idMap \ edited : draft[idMap[f]].nodes = begun[f].nodes
    BY <1>1 DEF CloneInv, DraftInv, Running
  <2> QED
    BY <1>1, <1>5, <2>1, <2>2 DEF DraftInv
<1> QED
  BY <1>6, <1>7, <1>8, <1>9 DEF CloneInv

\* A statement fails.
LEMMA FailsInv == CloneInv /\ Fails => CloneInv'
  BY RollbackInv DEF Fails, flowVars, requestVars, walkVars, CloneInv, CloneTypeOK

\* An owner edits a flow: its owner stays, and no copy is touched.
LEMMA EditInv ==
  ASSUME CloneInv, NEW f \in DOMAIN Stored, NEW new \in Flow, Edit(f, new) PROVE CloneInv'
<1> USE DEF flowVars, requestVars, walkVars, copyVars
<1>1. /\ edits < MaxEdits /\ edits' = edits + 1 /\ flows' = [flows EXCEPT ![f] = new]
      /\ edited' = IF stage \in Running THEN edited \cup {f} ELSE edited
      /\ UNCHANGED <<user, root, owner, begun, stage, queue, current, ids, draft, idMap>>
  BY DEF Edit
<1>2. f \in DOMAIN flows /\ f \notin DOMAIN draft
  BY DEF CloneInv, CopiesApart
<1>3. /\ DOMAIN flows' = DOMAIN flows /\ flows' \in [DOMAIN flows' -> Flow]
      /\ \A g \in DOMAIN flows : g # f => flows'[g] = flows[g]
  BY <1>1, <1>2 DEF CloneInv, CloneTypeOK
<1>4. CloneTypeOK'
  BY <1>1, <1>3, MaxEditsAssumption DEF CloneInv, CloneTypeOK
<1>5. CopiesApart' /\ WalkInv'
  BY <1>1, <1>3 DEF CloneInv, CopiesApart, WalkInv
<1>6. BegunInv'
  BY <1>1, <1>3 DEF CloneInv, CopiesApart, BegunInv
<1>7. CallsInv'
  BY <1>1 DEF CloneInv, CallsInv
<1>8. DraftInv'
  <2>1. \A c \in DOMAIN draft : UpdateFlow(draft[c])' = UpdateFlow(draft[c])
    BY <1>1, UpdateFlowFrame
  <2>2. stage = "done" => \A c \in DOMAIN draft : flows'[c] = UpdateFlow(draft[c])
    BY <1>2, <1>3 DEF CloneInv, CopiesApart, DraftInv
  <2>3. stage \in Running \cup {"done"} =>
          \A g \in DOMAIN idMap \ edited' : draft[idMap[g]].nodes = begun[g].nodes
    BY <1>1 DEF CloneInv, DraftInv
  <2> QED
    BY <1>1, <2>1, <2>2, <2>3 DEF DraftInv
<1> QED
  BY <1>4, <1>5, <1>6, <1>7, <1>8 DEF CloneInv

\* It stays a flow.
LEMMA EditedIsFlow ==
  ASSUME CloneInv, NEW f \in DOMAIN Stored
  PROVE  /\ \A b \in BOOLEAN : [flows[f] EXCEPT !.public = b] \in Flow
         /\ \A i \in DOMAIN flows[f].nodes, n \in Edits : [flows[f] EXCEPT !.nodes[i] = n] \in Flow
<1>1. flows[f] \in Flow
  BY DEF CloneInv, CloneTypeOK, CopiesApart
<1>2. flows[f].nodes \in Seq(Node)
  BY <1>1 DEF Flow
<1>3. \A i \in DOMAIN flows[f].nodes, n \in Edits : [flows[f].nodes EXCEPT ![i] = n] \in Seq(Node)
  BY <1>2, EditsAssumption
<1> QED
  BY <1>1, <1>3 DEF Flow

\* Every step keeps the invariant.
LEMMA CloneNextInv == CloneInv /\ [CloneNext]_cloneVars => CloneInv'
<1> SUFFICES ASSUME CloneInv, [CloneNext]_cloneVars PROVE CloneInv'
  OBVIOUS
<1>1. CASE CloneStep
  BY <1>1, BeginInv, GetOwnerInv, GetWalletsInv, CheckFlowInv, GetInterflowsInv, CommitInv, CopyFlowInv
     DEF CloneStep
<1>2. CASE Fails
  BY <1>2, FailsInv
<1>3. ASSUME NEW f \in DOMAIN Stored, NEW b \in BOOLEAN, SetPublic(f, b) PROVE CloneInv'
  BY <1>3, EditedIsFlow, EditInv DEF SetPublic
<1>4. ASSUME NEW f \in DOMAIN Stored, NEW i \in DOMAIN flows[f].nodes, NEW n \in Edits, EditNode(f, i, n)
      PROVE  CloneInv'
  BY <1>4, EditedIsFlow, EditInv DEF EditNode
<1>5. CASE UNCHANGED cloneVars
  <2>1. UNCHANGED <<flows, edits, edited, user, root, owner, begun, stage, queue, current, ids, draft, idMap>>
    BY <1>5 DEF cloneVars, flowVars, requestVars, walkVars, copyVars
  <2>2. \A c \in DOMAIN draft : UpdateFlow(draft[c])' = UpdateFlow(draft[c])
    BY <2>1, UpdateFlowFrame
  <2>3. DraftInv'
    BY <2>1, <2>2 DEF CloneInv, DraftInv
  <2> QED
    BY <2>1, <2>3 DEF CloneInv, CloneTypeOK, CopiesApart, WalkInv, BegunInv, CallsInv
<1> QED
  BY <1>1, <1>2, <1>3, <1>4, <1>5 DEF CloneNext

-----------------------------------------------------------------------------
(* The theorems *)

\* The invariant of clone_flow holds in every state.
THEOREM CloneInvHolds == CloneSpec => []CloneInv
  BY CloneInitInv, CloneNextInv, PTL DEF CloneSpec

\* The variables keep their types: the copies of clone_flow are flows.
THEOREM CloneTypeCorrect == CloneSpec => []CloneTypeOK
<1>1. CloneInv => CloneTypeOK
  BY DEF CloneInv
<1> QED
  BY <1>1, CloneInvHolds, PTL

\* A clone refers to nothing outside of it but wallets of its user, whatever the owners of
\* the flows do while clone_flow runs and afterwards.
THEOREM CloneStandsAloneHolds == CloneSpec => []CloneStandsAlone
<1>1. CloneInv => CloneStandsAlone
  <2> SUFFICES ASSUME CloneInv, stage = "done", NEW c \in Copies, NEW i \in DOMAIN flows[c].nodes
               PROVE  LET n == flows[c].nodes[i]
                      IN  /\ n.kind = "interflow" => n.ref \in Copies /\ flows[n.ref].owner = user
                          /\ n.kind = "wallet" =>
                               Contains(WalletsOf[user], n.ref) /\ n.key = PublicKey[n.ref]
    BY DEF CloneStandsAlone
  <2>1. CloneTypeOK /\ CopiesApart /\ WalletsOf[user] # <<>>
    BY DEF CloneInv, WalkInv
  <2>2. Copies \subseteq DOMAIN draft
    BY <2>1 DEF Copies, CloneTypeOK
  <2>3. \A d \in DOMAIN draft : draft[d] \in Flow /\ flows[d] = UpdateFlow(draft[d]) /\ draft[d].owner = user
    BY <2>1 DEF CloneInv, DraftInv, CloneTypeOK, CopiesApart
  <2>4. \A d \in Copies : flows[d].owner = user
    BY <2>1, <2>2, <2>3, UpdateFlowFacts
  <2>5. PICK old \in Node : flows[c].nodes[i] = UpdateNode(old)
    <3>1. draft[c] \in Flow /\ flows[c] = UpdateFlow(draft[c])
      BY <2>2, <2>3
    <3>2. /\ flows[c] \in Flow /\ Len(flows[c].nodes) = Len(draft[c].nodes)
          /\ \A j \in 1..Len(draft[c].nodes) : flows[c].nodes[j] = UpdateNode(draft[c].nodes[j])
      BY <2>1, <3>1, UpdateFlowFacts
    <3>3. flows[c].nodes \in Seq(Node) /\ draft[c].nodes \in Seq(Node)
      BY <3>1, <3>2 DEF Flow
    <3>4. i \in 1..Len(draft[c].nodes)
      BY <3>2, <3>3
    <3> QED
      BY <3>2, <3>3, <3>4
  <2>6. PICK n : n = UpdateNode(old)
    OBVIOUS
  <2>7. n.kind = "interflow" => \E f \in DOMAIN idMap : n.ref = idMap[f]
    <3>1. old.kind \notin {"interflow", "wallet"} => n = old
      BY <2>1, <2>6, UpdateNodeFacts
    <3>2. old.kind = "wallet" => n.kind = "wallet"
      BY <2>1, <2>6, UpdateNodeFacts
    <3>3. old.kind = "interflow" =>
            IF old.ref \in DOMAIN idMap THEN n.kind = "interflow" /\ n.ref = idMap[old.ref]
                                       ELSE n.kind = "null"
      BY <2>1, <2>6, UpdateNodeFacts
    <3> QED
      BY <3>1, <3>2, <3>3
  <2>8. n.kind = "wallet" => n.ref \in Range(WalletsOf[user]) /\ n.key = PublicKey[n.ref]
    <3>1. old.kind \notin {"interflow", "wallet"} => n = old
      BY <2>1, <2>6, UpdateNodeFacts
    <3>2. old.kind = "wallet" => n.ref \in Range(WalletsOf[user]) /\ n.key = PublicKey[n.ref]
      BY <2>1, <2>6, UpdateNodeFacts
    <3>3. old.kind = "interflow" => n.kind = "interflow" \/ n.kind = "null"
      BY <2>1, <2>6, UpdateNodeFacts
    <3> QED
      BY <3>1, <3>2, <3>3
  <2>9. n.ref \in Range(WalletsOf[user]) => Contains(WalletsOf[user], n.ref)
    <3>1. WalletsOf[user] \in Seq(Nat)
      BY <2>1, WalletsAssumption DEF CloneTypeOK
    <3> QED
      BY <3>1, RangeFacts DEF Contains
  <2> QED
    BY <2>4, <2>5, <2>6, <2>7, <2>8, <2>9 DEF Copies
<1> QED
  BY <1>1, CloneInvHolds, PTL

\* A flow that was not edited while clone_flow ran is copied node by node, its user might
\* see it, and its interflow nodes refer to the copies of what they referred to: the walk
\* over the flows, which others edit, misses nothing.
THEOREM CloneIsFaithfulHolds == CloneSpec => []CloneIsFaithful
<1>1. CloneInv => CloneIsFaithful
  <2> SUFFICES ASSUME CloneInv, stage = "done" PROVE CloneIsFaithful
    BY DEF CloneIsFaithful
  <2>1. CloneTypeOK /\ CopiesApart /\ WalletsOf[user] # <<>> /\ DOMAIN idMap = ids /\ queue = <<>>
        /\ root \in ids \cup Range(queue)
    BY DEF CloneInv, WalkInv
  <2>2. Range(queue) = {} /\ root \in DOMAIN idMap
    BY <2>1, RangeEmpty
  <2>3. \A f \in DOMAIN idMap \ edited :
          /\ begun[f].owner = user \/ begun[f].public
          /\ Calls(begun[f].nodes, ids) /\ draft[idMap[f]].nodes = begun[f].nodes
    BY <2>1, <2>2 DEF CloneInv, BegunInv, CallsInv, DraftInv, Running
  <2>4. ASSUME NEW f \in DOMAIN idMap \ edited
        PROVE  LET old == begun[f].nodes
                   new == flows[idMap[f]].nodes
               IN  /\ Len(new) = Len(old)
                   /\ \A i \in DOMAIN old :
                        /\ new[i].kind = old[i].kind
                        /\ old[i].kind = "interflow" =>
                             old[i].ref \in DOMAIN idMap /\ new[i].ref = idMap[old[i].ref]
    <3>1. PICK c \in DOMAIN draft : c = idMap[f]
      BY <2>1 DEF CloneTypeOK
    <3>2. draft[c] \in Flow /\ flows[c] = UpdateFlow(draft[c])
      BY <2>1 DEF CloneInv, DraftInv, CloneTypeOK
    <3>3. PICK old \in Seq(Node) : old = draft[c].nodes /\ old = begun[f].nodes
      BY <2>3, <3>1, <3>2 DEF Flow
    <3>4. /\ Len(flows[c].nodes) = Len(old)
          /\ \A i \in 1..Len(old) : flows[c].nodes[i] = UpdateNode(old[i])
      BY <2>1, <3>2, <3>3, UpdateFlowFacts
    <3>5. ASSUME NEW i \in 1..Len(old)
          PROVE  /\ UpdateNode(old[i]).kind = old[i].kind
                 /\ old[i].kind = "interflow" =>
                      old[i].ref \in DOMAIN idMap /\ UpdateNode(old[i]).ref = idMap[old[i].ref]
      <4>1. old[i] \in Node /\ i \in DOMAIN old
        OBVIOUS
      <4>2. old[i].kind = "interflow" => old[i].ref \in DOMAIN idMap
        BY <2>1, <2>3, <3>3, <4>1 DEF Calls
      <4>3. PICK n \in Node : n = old[i]
        BY <4>1
      <4>4. /\ n.kind = "interflow" /\ n.ref \in DOMAIN idMap =>
                 UpdateNode(n).kind = "interflow" /\ UpdateNode(n).ref = idMap[n.ref]
            /\ n.kind = "wallet" => UpdateNode(n).kind = "wallet"
            /\ n.kind \notin {"interflow", "wallet"} => UpdateNode(n) = n
        BY <2>1, UpdateNodeFacts
      <4> QED
        BY <4>2, <4>3, <4>4
    <3>6. DOMAIN old = 1..Len(old)
      OBVIOUS
    <3> QED
      BY <3>1, <3>3, <3>4, <3>5, <3>6
  <2> QED
    BY <2>2, <2>3, <2>4 DEF CloneIsFaithful
<1> QED
  BY <1>1, CloneInvHolds, PTL
=============================================================================
