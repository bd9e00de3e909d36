---------------------------- MODULE TokenWorker ----------------------------
(***************************************************************************)
(* The TokenWorker actor: one per user, it hands out the user's access      *)
(* token.  It claims a JWT when it has none, refreshes it when it is about  *)
(* to expire, keeps at most one of these requests in flight and lets every  *)
(* other caller wait for its result.  Its JWT is mirrored in the local      *)
(* storage, which survives the actor (idle actors are dropped and started   *)
(* again by DBWorker) and the process.                                      *)
(*                                                                         *)
(* A JWT is a number; 0 is "no JWT".  The refresh token of a JWT can be     *)
(* used once: the auth server rotates it.                                   *)
(***************************************************************************)
EXTENDS Naturals

CONSTANTS
    Callers,      \* concurrent users of the get_jwt service
    Misdirected,  \* callers that name another user's id
    Direct,       \* callers through a service of token_from_apikeys (ProxiedUserConn)
    MaxJwt,       \* bound: how many JWTs the auth server issues
    MaxCrash      \* bound: how often the process dies

ASSUME CallersAssumption == Misdirected \subseteq Callers /\ Direct \subseteq Callers
ASSUME BoundsAssumption == MaxJwt \in Nat /\ MaxCrash \in Nat

NoJwt == 0
Jwt == 1 .. MaxJwt
MaybeJwt == {NoJwt} \cup Jwt

\* A spawned future: the JWT it refreshes (NoJwt: it claims a new one), the
\* auth server's reply (the "Invalid Refresh Token" error of GoTrue is told
\* apart from every other failure) and the JWT that came with it.
Replies == {"pending", "granted", "refresh_error", "other_error"}
NoTask == [tok |-> NoJwt, reply |-> "none", got |-> NoJwt]
Tasks == [tok : MaybeJwt, reply : Replies, got : MaybeJwt]

\* The service a flow run asks through is made with RetryPolicy(1); the ones
\* of token_from_apikeys are handed out without a policy.
Retries(c) == IF c \in Direct THEN 0 ELSE 1

VARIABLES
    state,     \* TokenState, or "Off" while no actor runs
    jwt,       \* the JWT of TokenState::Available
    waiters,   \* the senders of TokenState::Fetching
    task,      \* the future each caller's request made the actor spawn
    disk,      \* local storage, bucket "JWTs"
    caller,    \* what each caller is doing or was told last
    retries,   \* RetryPolicy: retries each caller has left
    issued,    \* auth server: JWTs issued so far are 1 .. issued
    usable,    \* auth server: JWTs whose refresh token was not used yet
    expiring,  \* JWTs with less than five minutes to live
    crashes    \* how often the process died

tokenVars == <<state, jwt, waiters, task, disk, caller, retries,
               issued, usable, expiring, crashes>>

TokenState == {"Off", "None", "Available", "Fetching"}
CallerState == {"idle", "waiting", "retry", "ok",
                "refresh_error", "other_error", "wrong_recipient"}

TokenTypeOK ==
    /\ state \in TokenState
    /\ jwt \in MaybeJwt
    /\ waiters \subseteq Callers
    /\ task \in [Callers -> Tasks \cup {NoTask}]
    /\ disk \in MaybeJwt
    /\ caller \in [Callers -> CallerState]
    /\ retries \in [Callers -> 0 .. 1]
    /\ issued \in 0 .. MaxJwt
    /\ usable \subseteq Jwt
    /\ expiring \subseteq Jwt
    /\ crashes \in 0 .. MaxCrash
    /\ state = "Available" <=> jwt # NoJwt

TokenInit ==
    /\ state = "Off"
    /\ jwt = NoJwt
    /\ waiters = {}
    /\ task = [c \in Callers |-> NoTask]
    /\ disk = NoJwt
    /\ caller = [c \in Callers |-> "idle"]
    /\ retries = [c \in Callers |-> Retries(c)]
    /\ issued = 0
    /\ usable = {}
    /\ expiring = {}
    /\ crashes = 0

----------------------------------------------------------------------------
(* The actor's life. *)

\* DBWorker's GetTokenWorker starts an actor when none is alive.
\* Actor::started: reading the stored JWT may fail, then it is removed.
Started ==
    /\ state = "Off"
    /\ \/ /\ jwt' = disk
          /\ state' = IF disk = NoJwt THEN "None" ELSE "Available"
          /\ UNCHANGED disk
       \/ /\ jwt' = NoJwt
          /\ state' = "None"
          /\ disk' \in {disk, NoJwt}
    /\ UNCHANGED <<waiters, task, caller, retries, issued, usable, expiring, crashes>>

Busy(c) == caller[c] \in {"waiting", "retry"}

\* The last address is dropped: an actor without a spawned future stops.
Stopped ==
    /\ state \in {"None", "Available"}
    /\ \A c \in Callers : ~Busy(c)
    /\ state' = "Off"
    /\ jwt' = NoJwt
    /\ UNCHANGED <<waiters, task, disk, caller, retries, issued, usable, expiring, crashes>>

\* The process dies and takes the actor, its futures and its callers along.
Crash ==
    /\ crashes < MaxCrash
    /\ crashes' = crashes + 1
    /\ state' = "Off"
    /\ jwt' = NoJwt
    /\ waiters' = {}
    /\ task' = [c \in Callers |-> NoTask]
    /\ caller' = [c \in Callers |-> "idle"]
    /\ retries' = [c \in Callers |-> Retries(c)]
    /\ UNCHANGED <<disk, issued, usable, expiring>>

----------------------------------------------------------------------------
(* Handler<get_jwt::Request>, for a caller that asks first or asks again.   *)

Asks(c) == state # "Off" /\ caller[c] \in {"idle", "retry"}

WrongRecipient(c) ==
    /\ Asks(c)
    /\ c \in Misdirected
    /\ caller' = [caller EXCEPT ![c] = "wrong_recipient"]
    /\ UNCHANGED <<state, jwt, waiters, task, disk, retries, issued, usable, expiring, crashes>>

\* Spawn a request to the auth server and make c its first waiter.
Fetch(c, tok) ==
    /\ task' = [task EXCEPT ![c] = [tok |-> tok, reply |-> "pending", got |-> NoJwt]]
    /\ state' = "Fetching"
    /\ jwt' = NoJwt
    /\ waiters' = {c}
    /\ caller' = [caller EXCEPT ![c] = "waiting"]
    /\ UNCHANGED <<disk, retries, issued, usable, expiring, crashes>>

HandleNone(c) ==
    /\ Asks(c) /\ c \notin Misdirected
    /\ state = "None"
    /\ Fetch(c, NoJwt)

HandleExpiring(c) ==
    /\ Asks(c) /\ c \notin Misdirected
    /\ state = "Available"
    /\ jwt \in expiring
    /\ Fetch(c, jwt)

HandleAvailable(c) ==
    /\ Asks(c) /\ c \notin Misdirected
    /\ state = "Available"
    /\ jwt \notin expiring
    /\ caller' = [caller EXCEPT ![c] = "ok"]
    /\ UNCHANGED <<state, jwt, waiters, task, disk, retries, issued, usable, expiring, crashes>>

\* Seeded fault: a request that comes while one is in flight starts another.
HandleFetching_Spawns(c) ==
    /\ Asks(c) /\ c \notin Misdirected
    /\ state = "Fetching"
    /\ Fetch(c, NoJwt)

\* Seeded fault: the sender of a request that comes meanwhile is not kept.
HandleFetching_Forgets(c) ==
    /\ Asks(c) /\ c \notin Misdirected
    /\ state = "Fetching"
    /\ caller' = [caller EXCEPT ![c] = "waiting"]
    /\ UNCHANGED <<state, jwt, waiters, task, disk, retries, issued, usable, expiring, crashes>>

HandleFetching(c) ==
    /\ Asks(c) /\ c \notin Misdirected
    /\ state = "Fetching"
    /\ waiters' = waiters \cup {c}
    /\ caller' = [caller EXCEPT ![c] = "waiting"]
    /\ UNCHANGED <<state, jwt, task, disk, retries, issued, usable, expiring, crashes>>

----------------------------------------------------------------------------
(* The auth server, and the result of the spawned future. *)

Reply(c, reply, got) ==
    task' = [task EXCEPT ![c] = [tok |-> task[c].tok, reply |-> reply, got |-> got]]

\* GoTrue answers a claim, or rotates the refresh token of a refresh.
AuthGrants(c) ==
    /\ task[c].reply = "pending"
    /\ task[c].tok \in usable \cup {NoJwt}
    /\ issued < MaxJwt
    /\ issued' = issued + 1
    /\ usable' = (usable \ {task[c].tok}) \cup {issued + 1}
    /\ Reply(c, "granted", issued + 1)
    /\ UNCHANGED <<state, jwt, waiters, disk, caller, retries, expiring, crashes>>

\* A refresh token that was used before is refused.
AuthRefuses(c) ==
    /\ task[c].reply = "pending"
    /\ task[c].tok # NoJwt
    /\ task[c].tok \notin usable
    /\ Reply(c, "refresh_error", NoJwt)
    /\ UNCHANGED <<state, jwt, waiters, disk, caller, retries, issued, usable, expiring, crashes>>

\* The database, the network or the server fails.
AuthFails(c) ==
    /\ task[c].reply = "pending"
    /\ Reply(c, "other_error", NoJwt)
    /\ UNCHANGED <<state, jwt, waiters, disk, caller, retries, issued, usable, expiring, crashes>>

\* Seeded fault: RetryPolicy(0).
Told_NoRetry(w, reply) == reply

\* RetryPolicy: only a refresh token error is tried again, by a caller that
\* has a retry.
Told(w, reply) ==
    IF reply = "refresh_error" /\ retries[w] > 0 THEN "retry" ELSE reply

\* TokenState::process_result: the waiters get the result, the JWT is kept
\* and stored, or forgotten and removed; failing to write is only logged.
ProcessResult(c) ==
    LET reply == task[c].reply
        new == task[c].got IN
    /\ state = "Fetching"
    /\ reply \notin {"none", "pending"}
    /\ task' = [task EXCEPT ![c] = NoTask]
    /\ waiters' = {}
    /\ retries' = [w \in Callers |->
                      IF w \in waiters /\ Told(w, reply) = "retry" THEN retries[w] - 1 ELSE retries[w]]
    /\ IF reply = "granted"
       THEN /\ state' = "Available"
            /\ jwt' = new
            /\ disk' \in {new, disk}
            /\ caller' = [w \in Callers |-> IF w \in waiters THEN "ok" ELSE caller[w]]
       ELSE /\ state' = "None"
            /\ jwt' = NoJwt
            /\ disk' \in {NoJwt, disk}
            /\ caller' = [w \in Callers |-> IF w \in waiters THEN Told(w, reply) ELSE caller[w]]
    /\ UNCHANGED <<issued, usable, expiring, crashes>>

\* Time passes for a JWT the worker holds or has stored.
Expire ==
    /\ \E j \in {jwt, disk} \cap Jwt :
          /\ j \notin expiring
          /\ expiring' = expiring \cup {j}
    /\ UNCHANGED <<state, jwt, waiters, task, disk, caller, retries, issued, usable, crashes>>

\* A caller that has its answer may ask again, as a new request.
AskAgain(c) ==
    /\ caller[c] \notin {"idle", "waiting", "retry"}
    /\ caller' = [caller EXCEPT ![c] = "idle"]
    /\ retries' = [retries EXCEPT ![c] = Retries(c)]
    /\ UNCHANGED <<state, jwt, waiters, task, disk, issued, usable, expiring, crashes>>

Handle(c) ==
    \/ WrongRecipient(c)
    \/ HandleNone(c)
    \/ HandleExpiring(c)
    \/ HandleAvailable(c)
    \/ HandleFetching(c)

AuthReplies(c) == AuthGrants(c) \/ AuthRefuses(c) \/ AuthFails(c)

TokenNext ==
    \/ Started
    \/ Stopped
    \/ Crash
    \/ Expire
    \/ \E c \in Callers : Handle(c) \/ AuthReplies(c) \/ ProcessResult(c) \/ AskAgain(c)

\* The actor's mailbox and its futures are polled by the runtime; that the
\* auth server answers, be it with an error, is an assumption about it.
TokenFairness ==
    /\ WF_tokenVars(Started)
    /\ \A c \in Callers :
          WF_tokenVars(Handle(c)) /\ WF_tokenVars(AuthReplies(c)) /\ WF_tokenVars(ProcessResult(c))

TokenSpec == TokenInit /\ [][TokenNext]_tokenVars
TokenFairSpec == TokenSpec /\ TokenFairness

----------------------------------------------------------------------------
(* Properties *)

\* At most one request to the auth server is in flight, exactly while the
\* actor is Fetching, and whoever waits for it is in its list of senders:
\* the unreachable!() arms of process_result are, and no caller is forgotten.
SingleFlight ==
    /\ \A c, d \in Callers : task[c] # NoTask /\ task[d] # NoTask => c = d
    /\ state = "Fetching" <=> \E c \in Callers : task[c] # NoTask
    /\ \A c \in Callers : caller[c] = "waiting" <=> c \in waiters
    /\ state # "Fetching" => waiters = {}

\* The refresh token of a JWT that was rotated before the new JWT reached the
\* disk is refused after a restart.  A flow run never sees that: the failed
\* refresh forgets the JWT, and the one retry of RetryPolicy claims a new one,
\* although other callers use and refresh the JWT meanwhile.  The callers in
\* Direct have no retry and do see it.
StaleRefreshIsHidden == \A c \in Callers \ Direct : caller[c] # "refresh_error"

\* What makes StaleRefreshIsHidden inductive: while a caller is in its second
\* attempt, the JWT the worker holds, or is refreshing, can still be refreshed.
Retrying(c) == c \notin Direct /\ Busy(c) /\ retries[c] = 0
SecondAttemptIsSafe ==
    (\E c \in Callers : Retrying(c)) =>
        /\ state # "Off"
        /\ state = "Available" => jwt \in usable
        /\ \A c \in Callers :
              /\ task[c].reply = "pending" => task[c].tok \in usable \cup {NoJwt}
              /\ task[c].reply # "refresh_error"
\* The JWT of a request that was granted has not been refreshed since.
GrantedIsUsable ==
    \A c \in Callers :
        /\ task[c].reply = "granted" => task[c].got \in usable
        /\ task[c].reply = "none" => task[c] = NoTask
\* A new request starts with its retry.
NewRequestHasRetry == \A c \in Callers : caller[c] = "idle" => retries[c] = Retries(c)

\* The inductive invariant of the actor.
TokenInv ==
    /\ TokenTypeOK
    /\ SingleFlight
    /\ StaleRefreshIsHidden
    /\ SecondAttemptIsSafe
    /\ GrantedIsUsable
    /\ NewRequestHasRetry

\* Every caller is answered, whatever fails.
EveryCallerAnswered == \A c \in Callers : Busy(c) ~> ~Busy(c)
=============================================================================
