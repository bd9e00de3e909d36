------------------------------ MODULE DBWorker ------------------------------
(***************************************************************************)
(* DBWorker, the root of the actors, as the writer of the log lines of all *)
(* runs and as the one that shuts the server down.  save_to_db of each run *)
(* hands its log lines over with CopyIn and waits until they were taken;   *)
(* db_copy_in writes what has gathered in its channel.  main stops the     *)
(* HTTP server and then sends SystemShutdown: the runs that are found in   *)
(* the address book are asked to end, the channel is closed when all have  *)
(* answered, and DBWorker stops when the channel is empty.  Then the       *)
(* process ends, with whatever else still runs.                            *)
(*                                                                         *)
(* A run that is saved may have a worker that lives on, because commands   *)
(* it left behind hold its stream or somebody holds its address: it is     *)
(* found and asked too, and then never answers (FlowRunWorker shows why).  *)
(* The lines of one CopyIn, which belong to one run, are one row.          *)
(***************************************************************************)
EXTENDS Naturals, Sequences, Functions, Subsequences

CONSTANTS
  Runs,       \* The runs that may be started.
  Owner,      \* Owner[r]: the user of the run.
  MaxRows,    \* Bound: the rows of one run.
  ChunkSize,  \* CHUNK_SIZE
  Proxied     \* The database is another server (DbPool::Proxied).

ASSUME ChunkAssumption == ChunkSize \in Nat \ {0} /\ MaxRows \in Nat
ASSUME ModeAssumption == Proxied \in BOOLEAN

VARIABLES
  server,    \* The HTTP server: "serving" or "closed".
  root,      \* DBWorker: "up", "joining", "flushing" or "stopped".
  asked,     \* The runs that were sent SystemShutdown.
  told,      \* Those whose worker has taken that message.
  late,      \* The runs that did not exist then.
  state,     \* Each run and its FlowRunWorker, see RunState.
  cut,       \* The runs that were stopped by the shutdown.
  rows,      \* How many rows each run has handed over.
  mailbox,   \* The rows in DBWorker's mailbox.
  queue,     \* The channel to db_copy_in.
  open,      \* DBWorker still has the sender of that channel.
  chunk,     \* What db_copy_in is writing.
  copied,    \* db_copy_in has ended.
  written,   \* The rows in the database.
  failed,    \* The rows that were dropped with an error.
  lost       \* The rows that went to a closed channel.

runVars == <<state, cut, rows>>
chanVars == <<queue, open, chunk, copied, written, failed, lost>>
rootVars == <<server, root, asked, told, late>>
vars == <<rootVars, runVars, mailbox, chanVars>>

Up == root # "stopped"
\* The graph runs, it has ended, it is saved too but its worker lives on, or the
\* worker is gone.
RunState == {"absent", "active", "finished", "lingers", "saved"}
Alive == {r \in Runs : state[r] \in {"active", "finished", "lingers"}}
RowsOf(r) == {<<r, k>> : k \in 1..rows[r]}

Init ==
  /\ server = "serving" /\ root = "up" /\ asked = {} /\ told = {} /\ late = {}
  /\ state = [r \in Runs |-> "absent"]
  /\ cut = {} /\ rows = [r \in Runs |-> 0]
  /\ mailbox = <<>> /\ queue = <<>> /\ open = TRUE /\ chunk = <<>> /\ copied = FALSE
  /\ written = <<>> /\ failed = {} /\ lost = {}

-----------------------------------------------------------------------------
(* The runs *)

\* A user starts a run, or the interflow of another run of the same user does, be it
\* one that its run has left behind.
StartFlowRunWorker(r, p) ==
  /\ Up /\ state[r] = "absent"
  /\ IF p = r THEN server = "serving"
              ELSE p \in Alive /\ Owner[p] = Owner[r]
  /\ state' = [state EXCEPT ![r] = "active"]
  /\ UNCHANGED <<cut, rows, mailbox, chanVars, rootVars>>

\* save_to_db sends the rows of a chunk; it goes on when they were taken.
SendCopyIn(r) ==
  /\ Up /\ state[r] \in {"active", "finished"}
  /\ <<r, rows[r]>> \notin Range(mailbox)
  /\ rows[r] < MaxRows
  /\ rows' = [rows EXCEPT ![r] = @ + 1]
  /\ mailbox' = Append(mailbox, <<r, rows[r] + 1>>)
  /\ UNCHANGED <<state, cut, chanVars, rootVars>>

\* The graph of the run ends.
Finish(r) ==
  /\ Up /\ state[r] = "active"
  /\ state' = [state EXCEPT ![r] = "finished"]
  /\ UNCHANGED <<cut, rows, mailbox, chanVars, rootVars>>

\* save_to_db has written FlowFinish and done_tx fires.  A worker that was told waits
\* for that: it answers and stops.  Another one stops when nothing holds it.
Save(r) ==
  /\ Up /\ state[r] = "finished"
  /\ <<r, rows[r]>> \notin Range(mailbox)
  /\ \E s \in IF r \in told THEN {"saved"} ELSE {"saved", "lingers"} :
       state' = [state EXCEPT ![r] = s]
  /\ UNCHANGED <<cut, rows, mailbox, chanVars, rootVars>>

\* What held a worker is gone.  One that was told after done_tx has fired waits for ever.
Release(r) ==
  /\ Up /\ state[r] = "lingers" /\ r \notin told
  /\ state' = [state EXCEPT ![r] = "saved"]
  /\ UNCHANGED <<cut, rows, mailbox, chanVars, rootVars>>

\* Handler<SystemShutdown> of FlowRunWorker subscribes to done_tx.
Told(r) ==
  /\ Up /\ r \in (asked \cap Alive) \ told
  /\ told' = told \cup {r}
  /\ UNCHANGED <<server, root, asked, late, runVars, mailbox, chanVars>>

\* Its timeout passed: the run is stopped.
ForceStop(r) ==
  /\ Up /\ r \in told \ cut /\ state[r] = "active"
  /\ cut' = cut \cup {r}
  /\ UNCHANGED <<state, rows, mailbox, chanVars, rootVars>>

-----------------------------------------------------------------------------
(* DBWorker *)

\* Handler<CopyIn>: a row that finds the channel closed is dropped.
CopyIn ==
  /\ Up /\ mailbox # <<>>
  /\ mailbox' = Tail(mailbox)
  /\ IF open
       THEN queue' = Append(queue, Head(mailbox)) /\ UNCHANGED lost
       ELSE lost' = lost \cup {Head(mailbox)} /\ UNCHANGED queue
  /\ UNCHANGED <<runVars, rootVars, open, chunk, copied, written, failed>>

\* main: the HTTP server stops.
CloseServer ==
  /\ server = "serving" /\ server' = "closed"
  /\ UNCHANGED <<root, asked, told, late, runVars, mailbox, chanVars>>

\* Handler<SystemShutdown>: every FlowRunWorker that can be found is asked.
SystemShutdown ==
  /\ server = "closed" /\ root = "up"
  /\ root' = "joining"
  /\ asked' = Alive
  /\ late' = {r \in Runs : state[r] = "absent"}
  /\ UNCHANGED <<server, told, runVars, mailbox, chanVars>>

\* Seeded fault: the sender of the channel is kept.
Joined_KeepsSender ==
  /\ root = "joining" /\ \A r \in asked : state[r] = "saved"
  /\ root' = "flushing" /\ UNCHANGED open
  /\ UNCHANGED <<server, asked, told, late, runVars, mailbox, queue, chunk, copied, written,
                 failed, lost>>

\* All have answered: the only sender of the channel is dropped.
Joined ==
  /\ root = "joining" /\ \A r \in asked : state[r] = "saved"
  /\ root' = "flushing" /\ open' = FALSE
  /\ UNCHANGED <<server, asked, told, late, runVars, mailbox, queue, chunk, copied, written,
                 failed, lost>>

Stopped ==
  /\ root = "flushing" /\ copied
  /\ root' = "stopped"
  /\ UNCHANGED <<server, asked, told, late, runVars, mailbox, chanVars>>

-----------------------------------------------------------------------------
(* db_copy_in and db_copy_in_proxied *)

\* Seeded fault: the newest rows are taken first.
TakeChunk_FromEnd ==
  /\ Up /\ chunk = <<>> /\ queue # <<>>
  /\ LET n == IF Len(queue) < ChunkSize THEN Len(queue) ELSE ChunkSize
     IN  chunk' = SubSeq(queue, Len(queue) - n + 1, Len(queue))
           /\ queue' = SubSeq(queue, 1, Len(queue) - n)
  /\ UNCHANGED <<runVars, rootVars, mailbox, open, copied, written, failed, lost>>

TakeChunk ==
  /\ Up /\ chunk = <<>> /\ queue # <<>>
  /\ LET n == IF Len(queue) < ChunkSize THEN Len(queue) ELSE ChunkSize
     IN  chunk' = SubSeq(queue, 1, n) /\ queue' = SubSeq(queue, n + 1, Len(queue))
  /\ UNCHANGED <<runVars, rootVars, mailbox, open, copied, written, failed, lost>>

\* Another server takes only the rows of the user of the token, that of the first
\* row (db_push_logs).
Accepted ==
  Keep(chunk, {row \in Range(chunk) : Proxied => Owner[row[1]] = Owner[chunk[1][1]]})

Insert ==
  /\ Up /\ chunk # <<>>
  /\ chunk' = <<>>
  /\ written' = written \o Accepted
  /\ UNCHANGED <<runVars, rootVars, mailbox, queue, open, copied, failed, lost>>

\* There is no connection, or the statement fails.
InsertFails ==
  /\ Up /\ chunk # <<>>
  /\ chunk' = <<>>
  /\ failed' = failed \cup Range(chunk)
  /\ UNCHANGED <<runVars, rootVars, mailbox, queue, open, copied, written, lost>>

\* Seeded fault: the copier ends with rows in its channel.
CopierEnds_Early ==
  /\ Up /\ ~open /\ chunk = <<>> /\ ~copied
  /\ copied' = TRUE
  /\ UNCHANGED <<runVars, rootVars, mailbox, queue, open, chunk, written, failed,
                 lost>>

CopierEnds ==
  /\ Up /\ ~open /\ queue = <<>> /\ chunk = <<>> /\ ~copied
  /\ copied' = TRUE
  /\ UNCHANGED <<runVars, rootVars, mailbox, queue, open, chunk, written, failed,
                 lost>>

-----------------------------------------------------------------------------

Writer == TakeChunk \/ Insert \/ InsertFails \/ CopierEnds
Worker(r) == Told(r) \/ ForceStop(r) \/ Save(r) \/ (r \in cut /\ Finish(r))

Next ==
  \/ \E r, p \in Runs : StartFlowRunWorker(r, p)
  \/ \E r \in Runs : SendCopyIn(r) \/ Finish(r) \/ Save(r) \/ Release(r) \/ Told(r) \/ ForceStop(r)
  \/ CopyIn \/ CloseServer \/ SystemShutdown \/ Joined \/ Stopped
  \/ Writer

\* Actors and futures are polled, and timeouts pass.  A run need not end by itself, and
\* what holds a worker need not go away.
Spec ==
  /\ Init /\ [][Next]_vars
  /\ WF_vars(CopyIn) /\ WF_vars(SystemShutdown) /\ WF_vars(Joined) /\ WF_vars(Stopped)
  /\ WF_vars(Writer) /\ \A r \in Runs : WF_vars(Worker(r))

-----------------------------------------------------------------------------

\* The rows of a run are in the database in the order of their log_index, although
\* they pass through a mailbox, a channel and chunks that other runs share.
RowsInOrder ==
  \A i, j \in 1..Len(written) :
    i < j /\ written[i][1] = written[j][1] => written[i][2] < written[j][2]

\* Another server drops the rows of a chunk that are not of its first user.
MayMix == Proxied /\ \E q, r \in Runs : Owner[q] # Owner[r]

\* A shutdown loses nothing of the runs that it found, nor of those before it: when
\* the process ends they are saved, and their rows are in the database or were
\* dropped with an error.  Only a run that an interflow starts meanwhile finds the
\* channel closed.
ShutdownKeepsRows ==
  /\ \A row \in lost : row[1] \in late
  /\ root = "stopped" =>
       \A r \in Runs \ late :
         /\ state[r] \in {"absent", "saved"}
         /\ MayMix \/ RowsOf(r) \subseteq Range(written) \cup failed

\* The server stops once its HTTP server has, however long the runs would take, unless a
\* worker that is asked lingers for ever: DBWorker then waits for it for ever.
ShutdownEnds ==
  \/ server = "closed" ~> root = "stopped"
  \/ <>[](root = "joining" /\ \E r \in asked : state[r] = "lingers")

-----------------------------------------------------------------------------
(* The inductive invariant *)

Row == Runs \X Nat

\* Types.
TypeOK ==
  /\ server \in {"serving", "closed"} /\ root \in {"up", "joining", "flushing", "stopped"}
  /\ asked \subseteq Runs /\ told \subseteq Runs /\ late \subseteq Runs /\ cut \subseteq Runs
  /\ state \in [Runs -> RunState] /\ rows \in [Runs -> Nat]
  /\ mailbox \in Seq(Row) /\ queue \in Seq(Row) /\ chunk \in Seq(Row) /\ written \in Seq(Row)
  /\ open \in BOOLEAN /\ copied \in BOOLEAN
  /\ failed \subseteq Row /\ lost \subseteq Row

\* The rows of a run keep their order, from the mailbox to the database, and a row that
\* is handed over comes after all of them.
Precedes(a, b) == a[1] = b[1] => a[2] < b[2]
Ordered(s) == \A i, j \in 1..Len(s) : i < j => Precedes(s[i], s[j])
Before(s, t) == \A i \in 1..Len(s), j \in 1..Len(t) : Precedes(s[i], t[j])
Given(s) == \A i \in 1..Len(s) : s[i][2] <= rows[s[i][1]]
InOrder ==
  /\ Ordered(written) /\ Ordered(chunk) /\ Ordered(queue) /\ Ordered(mailbox)
  /\ Before(written, chunk) /\ Before(written, queue) /\ Before(written, mailbox)
  /\ Before(chunk, queue) /\ Before(chunk, mailbox) /\ Before(queue, mailbox)
  /\ Given(written) /\ Given(chunk) /\ Given(queue) /\ Given(mailbox)

\* A run waits for its last row, and is not saved before that was taken.
Awaited ==
  \A i \in 1..Len(mailbox) :
    LET r == mailbox[i][1] IN mailbox[i][2] = rows[r] /\ state[r] \in {"active", "finished"}

\* A row is somewhere.
NoRowVanishes ==
  MayMix \/ \A r \in Runs :
    RowsOf(r) \subseteq Range(mailbox) \cup Range(queue) \cup Range(chunk) \cup Range(written)
                          \cup failed \cup lost

\* The shutdown goes step by step: the runs that it found are saved before the channel is
\* closed, that is empty when the copier ends, and DBWorker waits for it.  Only a closed
\* channel loses rows.
Staged ==
  /\ open <=> root \in {"up", "joining"}
  /\ root # "up" => \A r \in Runs : r \in asked \cup late \/ state[r] = "saved"
  /\ ~open => \A r \in asked : state[r] = "saved"
  /\ copied => ~open /\ queue = <<>> /\ chunk = <<>>
  /\ root = "stopped" => copied
  /\ open => lost = {}
  /\ \A row \in lost : row[1] \in late

Inv == TypeOK /\ InOrder /\ Awaited /\ NoRowVanishes /\ Staged

=============================================================================
