------------------------------- MODULE Login -------------------------------
(***************************************************************************)
(* SupabaseAuth: how a request finds or creates the account of a public    *)
(* key.  The HTTP server runs several threads.  A map (`limits') gives     *)
(* each key that is in use a semaphore with one permit, so that only one   *)
(* request at a time looks for the account and creates it; the entry is    *)
(* removed by the last one.  The accounts are kept by another server,      *)
(* whose answers may be lost, and which may work on a request that nobody  *)
(* waits for any more.                                                     *)
(*                                                                         *)
(* A request is a sign-in (confirm_auth), the start of a flow by a user    *)
(* that is known only by its key (start_flow_unverified), or a claim of a  *)
(* token (LoginWithAdminCred), which needs no permit.  The latter and the  *)
(* sign-in set the password of the account and then use it.                *)
(***************************************************************************)
EXTENDS Naturals, FiniteSets

CONSTANTS
  Requests,    \* The requests; each is made once.
  Keys,        \* The public keys.
  KeyOf,       \* The key of a request.
  Semaphores,  \* Names for semaphores; one that nobody refers to is used again.
  Passwords,   \* The passwords that may be generated.
  None         \* Neither a semaphore nor a password.

ASSUME LoginAssumption ==
  /\ KeyOf \in [Requests -> Keys]
  /\ None \notin Semaphores \cup Passwords

VARIABLES
  pc,        \* How far a request is.
  result,    \* What it returns.
  kind,      \* What it is.
  ref,       \* The semaphore it refers to, or None.
  permits,   \* The requests that have the permit of their semaphore.
  limits,    \* limits[k]: the semaphore of a key, or None.
  accounts,  \* The keys that have an account.
  pending,   \* Creations that were sent and not worked on.
  replies,   \* What the other server replied: "ok", "conflict", "refused".
  stored,    \* stored[k]: the password in the local storage, or None.
  password,  \* password[k]: the password of the account, or None.
  mine,      \* The password that a request has read.
  lost,      \* Keys for which nobody waits for a creation that was sent.
  cancelled  \* Requests whose client went away.

loginVars == <<pc, kind, result>>
semVars == <<ref, permits, limits>>
accountVars == <<accounts, pending, replies, lost>>
passwordVars == <<stored, password, mine>>
vars == <<loginVars, semVars, accountVars, passwordVars, cancelled>>

\* The steps between the acquisition of the permit and its release.
Inside == {"lookup", "whitelist", "send", "creating", "credential", "set", "login"}
Steps == {"idle", "semaphore", "waiting", "leaving", "released", "dropped", "ended"} \cup Inside
Results == {"none", "ok", "failed", "conflict", "wrong password"}

Init ==
  /\ pc = [r \in Requests |-> "idle"] /\ kind = [r \in Requests |-> "none"]
  /\ result = [r \in Requests |-> "none"]
  /\ ref = [r \in Requests |-> None] /\ permits = {}
  /\ limits = [k \in Keys |-> None]
  /\ accounts \in SUBSET Keys /\ pending = {} /\ replies = [r \in Requests |-> "none"]
  /\ stored = [k \in Keys |-> None] /\ password = [k \in Keys |-> None]
  /\ mine = [r \in Requests |-> None] /\ lost = {} /\ cancelled = {}

Goto(r, l) == pc' = [pc EXCEPT ![r] = l] /\ UNCHANGED result

\* The request returns; one that has a permit gives it back before.
Return(r, res) ==
  /\ result' = [result EXCEPT ![r] = res]
  /\ pc' = [pc EXCEPT ![r] = IF r \in permits THEN "leaving" ELSE "ended"]

\* It has the account: a sign-in goes on with the password.
Found(r) == IF kind[r] = "login" THEN Goto(r, "credential") ELSE Return(r, "ok")

-----------------------------------------------------------------------------
(* Requests *)

\* confirm_auth: the signed message is valid, and not older than a minute;
\* start_flow_unverified: the flow may be started by anyone.
Arrive(r, k, valid) ==
  /\ pc[r] = "idle"
  /\ kind' = [kind EXCEPT ![r] = k]
  /\ IF valid THEN Goto(r, "semaphore") ELSE Return(r, "failed")
  /\ UNCHANGED <<semVars, accountVars, passwordVars, cancelled>>

\* claim_token and TokenWorker: the user is known.
ArriveClaim(r) ==
  /\ pc[r] = "idle" /\ KeyOf[r] \in accounts
  /\ kind' = [kind EXCEPT ![r] = "claim"]
  /\ Goto(r, "credential")
  /\ UNCHANGED <<semVars, accountVars, passwordVars, cancelled>>

Fresh(s) == (\A k \in Keys : limits[k] # s) /\ (\A r \in Requests : ref[r] # s)

\* get_semaphore_permit, with the map locked
GetSemaphore(r) ==
  LET k == KeyOf[r]
  IN  /\ pc[r] = "semaphore"
      /\ IF limits[k] # None
           THEN ref' = [ref EXCEPT ![r] = limits[k]] /\ UNCHANGED limits
           ELSE \E s \in Semaphores :
                  /\ Fresh(s)
                  /\ limits' = [limits EXCEPT ![k] = s]
                  /\ ref' = [ref EXCEPT ![r] = s]
      /\ Goto(r, "waiting")
      /\ UNCHANGED <<kind, permits, accountVars, passwordVars, cancelled>>

\* acquire_owned
Acquire(r) ==
  /\ pc[r] = "waiting"
  /\ \A q \in permits : ref[q] # ref[r]
  /\ permits' = permits \cup {r}
  /\ Goto(r, "lookup")
  /\ UNCHANGED <<kind, ref, limits, accountVars, passwordVars, cancelled>>

\* get_or_create_user_impl up to the search for the user
Lookup(r, ok) ==
  /\ pc[r] = "lookup"
  /\ CASE ~ok -> Return(r, "failed")
       [] ok /\ KeyOf[r] \in accounts -> Found(r)
       [] ok /\ KeyOf[r] \notin accounts -> Goto(r, "whitelist")
  /\ UNCHANGED <<kind, semVars, accountVars, passwordVars, cancelled>>

\* insert_whitelist, when new users are put on the list.
Whitelist(r, ok) ==
  /\ pc[r] = "whitelist"
  /\ IF ok THEN Goto(r, "send") ELSE Return(r, "failed")
  /\ UNCHANGED <<kind, semVars, accountVars, passwordVars, cancelled>>

\* The creation is sent.
SendCreate(r) ==
  /\ pc[r] = "send"
  /\ pending' = pending \cup {r}
  /\ Goto(r, "creating")
  /\ UNCHANGED <<kind, semVars, accounts, replies, lost, passwordVars, cancelled>>

\* The other server: one account per address, for keys on its list.
CreateUser(r, allowed) ==
  /\ r \in pending
  /\ pending' = pending \ {r}
  /\ replies' = [replies EXCEPT ![r] = CASE KeyOf[r] \in accounts -> "conflict"
                                          [] ~allowed -> "refused"
                                          [] OTHER -> "ok"]
  /\ accounts' = IF allowed THEN accounts \cup {KeyOf[r]} ELSE accounts
  /\ UNCHANGED <<loginVars, semVars, lost, passwordVars, cancelled>>

\* The rest of get_or_create_user_impl
Created(r) ==
  /\ pc[r] = "creating" /\ replies[r] # "none"
  /\ IF replies[r] = "ok"
       THEN Found(r)
       ELSE Return(r, IF replies[r] = "conflict" THEN "conflict" ELSE "failed")
  /\ UNCHANGED <<kind, semVars, accountVars, passwordVars, cancelled>>

\* The request or its answer is lost on the way: login_error.
Abandon(r) == lost' = IF r \in pending THEN lost \cup {KeyOf[r]} ELSE lost

\* Seeded fault: a creation whose answer is lost is sent again.
CreateLost_Retries(r) ==
  /\ pc[r] = "creating"
  /\ UNCHANGED lost
  /\ Goto(r, "send")
  /\ UNCHANGED <<kind, semVars, accounts, pending, replies, passwordVars, cancelled>>

CreateLost(r) ==
  /\ pc[r] = "creating"
  /\ Abandon(r)
  /\ Return(r, "failed")
  /\ UNCHANGED <<kind, semVars, accounts, pending, replies, passwordVars, cancelled>>

\* get_login_credential: get_or_generate_password is a transaction of the local
\* storage.
GetPassword(r) ==
  LET k == KeyOf[r]
  IN  /\ pc[r] = "credential"
      /\ IF stored[k] # None
           THEN mine' = [mine EXCEPT ![r] = stored[k]] /\ UNCHANGED stored
           ELSE \E p \in Passwords :
                  /\ mine' = [mine EXCEPT ![r] = p]
                  /\ stored' = [stored EXCEPT ![k] = p]
      /\ Goto(r, "set")
      /\ UNCHANGED <<kind, semVars, accountVars, password, cancelled>>

\* The UPDATE of get_login_credential
SetPassword(r, ok) ==
  /\ pc[r] = "set"
  /\ password' = IF ok THEN [password EXCEPT ![KeyOf[r]] = mine[r]] ELSE password
  /\ IF ok THEN Goto(r, "login") ELSE Return(r, "failed")
  /\ UNCHANGED <<kind, semVars, accountVars, stored, mine, cancelled>>

\* The password is sent; the answer may be lost.
PasswordLogin(r, ok) ==
  /\ pc[r] = "login"
  /\ Return(r, CASE password[KeyOf[r]] # mine[r] -> "wrong password"
                 [] password[KeyOf[r]] = mine[r] /\ ok -> "ok"
                 [] OTHER -> "failed")
  /\ UNCHANGED <<kind, semVars, accountVars, passwordVars, cancelled>>

\* drop(permit): the permit is given back, then the reference goes.
Release(r) ==
  /\ pc[r] = "leaving"
  /\ permits' = permits \ {r}
  /\ Goto(r, "released")
  /\ UNCHANGED <<kind, ref, limits, accountVars, passwordVars, cancelled>>

DropRef(r) ==
  /\ pc[r] = "released"
  /\ ref' = [ref EXCEPT ![r] = None]
  /\ Goto(r, "dropped")
  /\ UNCHANGED <<kind, permits, limits, accountVars, passwordVars, cancelled>>

\* Seeded fault: the entry is removed although others wait for the permit.
Cleanup_InUse(r) ==
  LET k == KeyOf[r]
  IN  /\ pc[r] = "dropped"
      /\ limits' = IF limits[k] # None
                     THEN [limits EXCEPT ![k] = None] ELSE limits
      /\ Goto(r, "ended")
      /\ UNCHANGED <<kind, ref, permits, accountVars, passwordVars, cancelled>>

\* Seeded fault: the reference of the map is not counted.
Cleanup_Never(r) ==
  LET k == KeyOf[r]
  IN  /\ pc[r] = "dropped"
      /\ limits' = IF limits[k] # None /\ \A j \in Keys : limits[j] # limits[k]
                     THEN [limits EXCEPT ![k] = None] ELSE limits
      /\ Goto(r, "ended")
      /\ UNCHANGED <<kind, ref, permits, accountVars, passwordVars, cancelled>>

\* cleanup_semaphore: strong_count is 1 when only the map refers to it.
Cleanup(r) ==
  LET k == KeyOf[r]
  IN  /\ pc[r] = "dropped"
      /\ limits' = IF limits[k] # None /\ \A q \in Requests : ref[q] # limits[k]
                     THEN [limits EXCEPT ![k] = None] ELSE limits
      /\ Goto(r, "ended")
      /\ UNCHANGED <<kind, ref, permits, accountVars, passwordVars, cancelled>>

\* The future is dropped with all that it owns.
Cancel(r) ==
  /\ pc[r] \in {"waiting"} \cup Inside
  /\ permits' = permits \ {r}
  /\ ref' = [ref EXCEPT ![r] = None]
  /\ Abandon(r)
  /\ cancelled' = cancelled \cup {r}
  /\ pc' = [pc EXCEPT ![r] = "ended"] /\ result' = [result EXCEPT ![r] = "failed"]
  /\ UNCHANGED <<kind, limits, accounts, pending, replies, passwordVars>>

-----------------------------------------------------------------------------

Step(r) ==
  \/ GetSemaphore(r) \/ Acquire(r) \/ SendCreate(r) \/ Created(r) \/ GetPassword(r)
  \/ Release(r) \/ DropRef(r) \/ Cleanup(r)
  \/ \E ok \in BOOLEAN :
       Lookup(r, ok) \/ Whitelist(r, ok) \/ SetPassword(r, ok) \/ PasswordLogin(r, ok)

Server(r) == \E allowed \in BOOLEAN : CreateUser(r, allowed)

Next ==
  \E r \in Requests :
    \/ \E k \in {"login", "start"}, valid \in BOOLEAN : Arrive(r, k, valid)
    \/ ArriveClaim(r)
    \/ Step(r) \/ Server(r) \/ CreateLost(r) \/ Cancel(r)

Spec == Init /\ [][Next]_vars

-----------------------------------------------------------------------------

\* Types; a permit is one of a semaphore that the request refers to.
TypeOK ==
  /\ pc \in [Requests -> Steps]
  /\ kind \in [Requests -> {"none", "login", "start", "claim"}]
  /\ result \in [Requests -> Results]
  /\ ref \in [Requests -> Semaphores \cup {None}]
  /\ permits \subseteq Requests /\ \A r \in permits : ref[r] # None
  /\ limits \in [Keys -> Semaphores \cup {None}]
  /\ accounts \subseteq Keys /\ lost \subseteq Keys
  /\ pending \subseteq Requests /\ cancelled \subseteq Requests
  /\ replies \in [Requests -> {"none", "ok", "conflict", "refused"}]
  /\ stored \in [Keys -> Passwords \cup {None}]
  /\ password \in [Keys -> Passwords \cup {None}]
  /\ mine \in [Requests -> Passwords \cup {None}]

\* Of the requests for one key, at most one looks for the account and creates
\* it, although the semaphores come and go: cleanup_semaphore never takes one away
\* that somebody has or waits for.
OneInside ==
  \A q, r \in Requests :
    /\ q # r /\ KeyOf[q] = KeyOf[r]
    /\ pc[q] \in Inside /\ kind[q] # "claim"
    => ~ (pc[r] \in Inside /\ kind[r] # "claim")

\* No request fails because of another one: the account was not created meanwhile,
\* unless the other one went away while its creation was under way; and the password
\* that is sent is the one of the account, although claims and sign-ins set it at the
\* same time.
NoConflict ==
  \A r \in Requests :
    /\ result[r] = "conflict" => KeyOf[r] \in lost
    /\ result[r] # "wrong password"

\* When no request for a key is under way its semaphore is gone, unless a client
\* went away: then cleanup_semaphore was not called.
NoSemaphoreLeft ==
  \A k \in Keys :
    LET of == {r \in Requests : KeyOf[r] = k}
    IN  (\A r \in of : pc[r] \in {"idle", "ended"} /\ r \notin cancelled) => limits[k] = None

-----------------------------------------------------------------------------
(* The inductive invariant *)

\* Who refers to a semaphore refers to the entry of its key, so that nobody takes that
\* away; and is between waiting for the permit and dropping the reference.
RefsOwnEntry == \A r \in Requests : ref[r] # None => limits[KeyOf[r]] = ref[r]
RefsWhileNeeded ==
  \A r \in Requests :
    /\ ref[r] # None => pc[r] \in {"waiting", "leaving", "released"} \cup Inside
    /\ pc[r] = "waiting" => ref[r] # None

\* A semaphore belongs to one key; an entry is somebody's to remove, or its last user
\* was cancelled.
EntriesDiffer == \A j, k \in Keys : limits[j] = limits[k] /\ limits[k] # None => j = k
EntriesHaveUsers ==
  \A k \in Keys : limits[k] # None =>
    \E r \in Requests : KeyOf[r] = k /\ (r \in cancelled \/ ref[r] # None \/ pc[r] = "dropped")

\* A semaphore has one permit; a permit is given back by Release, or with the request.
PermitsDiffer == \A q, r \in permits : ref[q] = ref[r] => q = r
PermitsAtWork == \A r \in permits : pc[r] \in Inside \cup {"leaving"}

\* Who is inside has the permit, unless it is a claim; a claim has no semaphore.
InsideWithPermit == \A r \in Requests : pc[r] \in Inside /\ kind[r] # "claim" => r \in permits
ClaimsApart ==
  \A r \in Requests : kind[r] = "claim" =>
    ref[r] = None /\ pc[r] \in {"credential", "set", "login", "ended"}

\* Where a request is that has seen no account and has not created one.
Creates(r) == pc[r] \in {"whitelist", "send"} \/ (pc[r] = "creating" /\ r \in pending)

\* A creation is sent once, and there is no reply before it was sent or until it was
\* worked on.
CreatesOnce ==
  \A r \in Requests :
    /\ pc[r] \in {"idle", "semaphore", "waiting", "lookup", "whitelist", "send"} =>
         replies[r] = "none" /\ r \notin pending
    /\ replies[r] # "none" => r \notin pending

\* Until somebody goes away from a creation, whoever creates an account waits for it,
\* and there is none yet.
CreationsAwaited ==
  /\ \A r \in pending : KeyOf[r] \in lost \/ pc[r] = "creating"
  /\ \A r \in Requests : Creates(r) /\ KeyOf[r] \in accounts => KeyOf[r] \in lost
  /\ \A r \in Requests : replies[r] = "conflict" => KeyOf[r] \in lost

\* A stored password stays, and the account has it once it was set.
PasswordsAgree ==
  \A r \in Requests :
    /\ pc[r] \in {"set", "login"} => mine[r] = stored[KeyOf[r]] /\ mine[r] # None
    /\ pc[r] = "login" => password[KeyOf[r]] = stored[KeyOf[r]]

SemaphoreInv == RefsOwnEntry /\ RefsWhileNeeded /\ EntriesDiffer /\ EntriesHaveUsers
PermitInv == PermitsDiffer /\ PermitsAtWork /\ InsideWithPermit /\ ClaimsApart
AccountInv == CreatesOnce /\ CreationsAwaited /\ PasswordsAgree /\ NoConflict
Inv == TypeOK /\ SemaphoreInv /\ PermitInv /\ AccountInv

=============================================================================
