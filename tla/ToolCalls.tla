------------------------------ MODULE ToolCalls ------------------------------
(***************************************************************************)
(* The raw tools of typedb-mcp-core (tools.rs) and the transaction helper  *)
(* for library consumers (core.rs, with_owned_tx), as concurrent calls     *)
(* over shared sessions.  A call runs on its own task; it interleaves with *)
(* the others at every await.  A session is one tokio Mutex around the     *)
(* schema-read gate and at most one open transaction.                      *)
(*                                                                         *)
(* Left to other modules: the time-to-live of sessions, the store's own    *)
(* mutex and the reaper's timing (SessionStore), and the inside of a       *)
(* migration job.  Here a call starts on a session that is in the store,   *)
(* and a job is accepted, answers and lets go of what it owns.             *)
(***************************************************************************)
EXTENDS Naturals, FiniteSets

CONSTANTS
    Call,       \* tasks that serve one tool call at a time
    Session,    \* session ids that start_session can mint
    Database,   \* database names
    Enabled,    \* the tools the router mounts
    None,       \* Rust's Option::None, and "nobody" for an owner
    Worker      \* the migration worker thread, as an owner

Kind == {"read", "write", "schema"}
OpenTx == [database: Database, kind: Kind]

Tools == {"get_schema", "open", "query", "checkpoint", "commit", "rollback",
          "read_once", "with_owned_tx", "create_database", "delete_database",
          "migrate"}

(* What a client can ask for; the fields a tool has no parameter for are None. *)
Request ==
    [tool: {"query", "checkpoint", "commit", "rollback"},
     session: Session, database: {None}, kind: {None}]
    \cup [tool: {"get_schema", "create_database", "delete_database"},
          session: Session, database: Database, kind: {None}]
    \cup [tool: {"open"}, session: Session, database: Database, kind: Kind]
    \cup [tool: {"read_once"}, session: Session, database: Database, kind: {"read"}]
    \cup [tool: {"with_owned_tx"}, session: Session, database: Database,
          kind: {"write", "schema"}]
    \cup [tool: {"migrate"}, session: Session, database: Database,
          kind: {"export", "import"}]

Arguments == [tool: Tools \cup {None}, session: Session \cup {None},
              database: Database \cup {None}, kind: Kind \cup {None, "export", "import"}]

NoRequest == [tool |-> None, session |-> None, database |-> None, kind |-> None]

ASSUME ConstantsOK ==
    /\ Enabled \subseteq Tools
    /\ None \notin Call /\ Worker \notin Call /\ None # Worker
    /\ None \notin Session /\ None \notin Database /\ None \notin OpenTx
    /\ None \notin Tools

VARIABLES
    live,         \* sessions in the store
    lock,         \* lock[s]: who holds the mutex of session s
    schema_seen,  \* schema_seen[s]: databases whose gate is open in s
    tx,           \* tx[s]: the transaction stashed in s, or None
    reserved,     \* reserved[d]: owner of the NameReservation of d, or None
    job,          \* the call whose migration job has the permit, or None
    exist,        \* databases that exist on the TypeDB server
    pc,           \* where each call is
    arg,          \* its request (checkpoint and commit fill in the tx's db and kind)
    held,         \* the transaction it has in a local variable, or None
    todo, peer,   \* sessions its loop over all_sessions has left, and the next
    stale,        \* history: gates of s older than an acknowledged schema change
    late,         \* history: gates of s opened by a fetch older than such a change
    missed        \* history: calls whose fetch in flight is older than such a change

sessions == <<lock, schema_seen, tx>>
server   == <<reserved, job, exist>>
loop     == <<todo, peer>>
history  == <<stale, late, missed>>
vars == <<live, sessions, server, pc, arg, held, loop, history>>

Labels == {"idle", "enter", "insert", "opening", "querying", "committing",
           "checkpointing", "reopening", "releasing", "once_open", "once_query",
           "owned_open", "owned_body", "owned_commit", "owned_rollback",
           "scan", "reserve", "creating", "deleting", "await_job",
           "sweep", "sweeping", "reply"}

Init ==
    /\ live = {}
    /\ lock = [s \in Session |-> None]
    /\ schema_seen = [s \in Session |-> {}]
    /\ tx = [s \in Session |-> None]
    /\ reserved = [d \in Database |-> None]
    /\ job = None
    /\ exist \in SUBSET Database
    /\ pc = [c \in Call |-> "idle"]
    /\ arg = [c \in Call |-> NoRequest]
    /\ held = [c \in Call |-> None]
    /\ todo = [c \in Call |-> {}]
    /\ peer = [c \in Call |-> None]
    /\ stale = [s \in Session |-> {}]
    /\ late = [s \in Session |-> {}]
    /\ missed = {}

-----------------------------------------------------------------------------
(* Helpers. *)

At(c, t) == pc[c] = "enter" /\ arg[c].tool = t
Goto(c, label) == pc' = [pc EXCEPT ![c] = label]
Mine(c) == arg[c].session
Db(c) == arg[c].database

Free(s) == lock[s] = None
Take(c) == lock' = [lock EXCEPT ![Mine(c)] = c]
Unlock(c) == lock' = [lock EXCEPT ![Mine(c)] = None]

(* TypeDB runs a schema transaction alone among the writers of a database. *)
WritersOf(d) ==
    {t \in {tx[s] : s \in Session} \cup {held[c] : c \in Call} :
        t # None /\ t.database = d /\ t.kind # "read"}
CanOpen(d, k) ==
    /\ d \in exist
    /\ k = "write" => \A t \in WritersOf(d) : t.kind # "schema"
    /\ k = "schema" => WritersOf(d) = {}

(* The tail of every schema commit, import and delete_database: every other *)
(* session's gate is behind until the sweep over all_sessions reaches it.   *)
SchemaChanged(d, committer) ==
    /\ stale' = [p \in Session |-> IF p = committer THEN stale[p] \ {d}
                                   ELSE stale[p] \cup ({d} \cap schema_seen[p])]
    /\ late' = [p \in Session |-> IF p = committer THEN late[p] \ {d} ELSE late[p]]
    /\ missed' = missed \cup {c \in Call : /\ pc[c] = "insert"
                                           /\ Db(c) = d
                                           /\ Mine(c) # committer}

(* A commit the server acknowledged: only a schema commit has peers to tell. *)
Committed(c) ==
    IF arg[c].kind = "schema" THEN SchemaChanged(Db(c), Mine(c))
                              ELSE UNCHANGED history
AfterCommit(c) == IF arg[c].kind = "schema" THEN "sweep" ELSE "reply"

(* Start a loop over the sessions S, in whatever order the HashMap gives. *)
Over(c, S, label, end) ==
    /\ todo' = [todo EXCEPT ![c] = S]
    /\ IF S = {} THEN Goto(c, end) /\ peer' = [peer EXCEPT ![c] = None]
       ELSE Goto(c, label) /\ \E p \in S : peer' = [peer EXCEPT ![c] = p]

-----------------------------------------------------------------------------
(* Sessions and the end of every call. *)

StartSession(s) ==
    /\ s \notin live
    /\ live' = live \cup {s}
    /\ UNCHANGED <<sessions, server, pc, arg, held, loop, history>>

(* The call resolved its session: the handler body starts. *)
Begin(c) ==
    /\ pc[c] = "idle"
    /\ \E r \in Request :
          /\ r.tool \in Enabled /\ r.session \in live
          /\ arg' = [arg EXCEPT ![c] = r]
    /\ Goto(c, "enter")
    /\ UNCHANGED <<live, sessions, server, held, loop, history>>

(* The envelope carries a snapshot, which locks the caller's session; then *)
(* the handler returns and drops whatever guard it still owns.             *)
Reply(c) ==
    /\ pc[c] = "reply"
    /\ Free(Mine(c))
    /\ lock' = [s \in Session |-> IF lock[s] = c THEN None ELSE lock[s]]
    /\ Goto(c, "idle")
    /\ arg' = [arg EXCEPT ![c] = NoRequest]
    /\ todo' = [todo EXCEPT ![c] = {}]
    /\ peer' = [peer EXCEPT ![c] = None]
    /\ UNCHANGED <<live, schema_seen, tx, server, held, history>>

(* A database name or a confirmation the tool refuses. *)
RejectArguments(c) ==
    /\ pc[c] = "enter"
    /\ arg[c].tool \in {"create_database", "delete_database", "migrate"}
    /\ Goto(c, "reply")
    /\ UNCHANGED <<live, sessions, server, arg, held, loop, history>>

-----------------------------------------------------------------------------
(* get_schema: the schema is fetched without the session's lock. *)

FetchSchema(c) ==
    /\ At(c, "get_schema")
    /\ \/ Db(c) \in exist /\ Goto(c, "insert")
       \/ Goto(c, "reply")
    /\ UNCHANGED <<live, sessions, server, arg, held, loop, history>>

InsertSchemaSeen(c) ==
    /\ pc[c] = "insert"
    /\ Free(Mine(c))
    /\ schema_seen' = [schema_seen EXCEPT ![Mine(c)] = @ \cup {Db(c)}]
    /\ stale' = [stale EXCEPT ![Mine(c)] = @ \ {Db(c)}]
    /\ late' = [late EXCEPT ![Mine(c)] =
                   IF c \in missed THEN @ \cup {Db(c)} ELSE @ \ {Db(c)}]
    /\ missed' = missed \ {c}
    /\ Goto(c, "reply")
    /\ UNCHANGED <<live, lock, tx, server, arg, held, loop>>

-----------------------------------------------------------------------------
(* open_read, open_write, open_schema. *)

OpenRefused(c) ==
    \/ reserved[Db(c)] # None
    \/ tx[Mine(c)] # None
    \/ Db(c) \notin schema_seen[Mine(c)]

(* Slip: the precondition check and the network open under two guards. *)
OpenUnguarded(c) ==
    /\ At(c, "open")
    /\ Free(Mine(c))
    /\ ~OpenRefused(c)
    /\ Goto(c, "opening")
    /\ UNCHANGED <<live, sessions, server, arg, held, loop, history>>

(* Slip: the refusal's snapshot is taken before the guard is dropped. *)
OpenRefusedUnderGuard(c) ==
    /\ At(c, "open")
    /\ Free(Mine(c))
    /\ Goto(c, IF OpenRefused(c) THEN "reply" ELSE "opening")
    /\ Take(c)
    /\ UNCHANGED <<live, schema_seen, tx, server, arg, held, loop, history>>

Open(c) ==
    /\ At(c, "open")
    /\ Free(Mine(c))
    /\ \/ OpenRefused(c) /\ Goto(c, "reply") /\ UNCHANGED lock
       \/ ~OpenRefused(c) /\ Goto(c, "opening") /\ Take(c)
    /\ UNCHANGED <<live, schema_seen, tx, server, arg, held, loop, history>>

OpenDone(c) ==
    /\ pc[c] = "opening"
    /\ \/ /\ CanOpen(Db(c), arg[c].kind)
          /\ tx' = [tx EXCEPT ![Mine(c)] =
                       [database |-> Db(c), kind |-> arg[c].kind]]
       \/ UNCHANGED tx
    /\ Unlock(c)
    /\ Goto(c, "reply")
    /\ UNCHANGED <<live, schema_seen, server, arg, held, loop, history>>

-----------------------------------------------------------------------------
(* query: a fatal error class forgets the transaction. *)

Query(c) ==
    /\ At(c, "query")
    /\ Free(Mine(c))
    /\ \/ tx[Mine(c)] = None /\ Goto(c, "reply") /\ UNCHANGED lock
       \/ tx[Mine(c)] # None /\ Goto(c, "querying") /\ Take(c)
    /\ UNCHANGED <<live, schema_seen, tx, server, arg, held, loop, history>>

QueryDone(c) ==
    /\ pc[c] = "querying"
    /\ \/ UNCHANGED tx
       \/ tx' = [tx EXCEPT ![Mine(c)] = None]
    /\ Unlock(c)
    /\ Goto(c, "reply")
    /\ UNCHANGED <<live, schema_seen, server, arg, held, loop, history>>

-----------------------------------------------------------------------------
(* commit, checkpoint and rollback take the transaction out of the session *)
(* and hold the session's lock while the server works on it.               *)

(* Slip: the guard is dropped once the transaction is out of the session. *)
TakeTxUnguarded(c, label) ==
    /\ held' = [held EXCEPT ![c] = tx[Mine(c)]]
    /\ arg' = [arg EXCEPT ![c].database = tx[Mine(c)].database,
                          ![c].kind = tx[Mine(c)].kind]
    /\ tx' = [tx EXCEPT ![Mine(c)] = None]
    /\ Goto(c, label)
    /\ UNCHANGED lock

(* Slip: the kind is not remembered for the reopening. *)
TakeTxForgetsKind(c, label) ==
    /\ held' = [held EXCEPT ![c] = tx[Mine(c)]]
    /\ arg' = [arg EXCEPT ![c].database = tx[Mine(c)].database]
    /\ tx' = [tx EXCEPT ![Mine(c)] = None]
    /\ Take(c)
    /\ Goto(c, label)

TakeTx(c, label) ==
    /\ held' = [held EXCEPT ![c] = tx[Mine(c)]]
    /\ arg' = [arg EXCEPT ![c].database = tx[Mine(c)].database,
                          ![c].kind = tx[Mine(c)].kind]
    /\ tx' = [tx EXCEPT ![Mine(c)] = None]
    /\ Take(c)
    /\ Goto(c, label)

(* A READ transaction cannot be committed. *)
Committable(c) == tx[Mine(c)] # None /\ tx[Mine(c)].kind # "read"

(* NO_TX_OPEN, TX_IS_READ, or nothing to roll back. *)
NothingToClose(c) ==
    /\ pc[c] = "enter"
    /\ Free(Mine(c))
    /\ \/ arg[c].tool \in {"commit", "checkpoint"} /\ ~Committable(c)
       \/ arg[c].tool = "rollback" /\ tx[Mine(c)] = None
    /\ Goto(c, "reply")
    /\ UNCHANGED <<live, sessions, server, arg, held, loop, history>>

Commit(c) ==
    /\ At(c, "commit")
    /\ Free(Mine(c))
    /\ Committable(c)
    /\ TakeTx(c, "committing")
    /\ UNCHANGED <<live, schema_seen, server, loop, history>>

CommitDone(c) ==
    /\ pc[c] = "committing"
    /\ \/ Committed(c) /\ Goto(c, AfterCommit(c))
       \/ UNCHANGED history /\ Goto(c, "reply")
    /\ held' = [held EXCEPT ![c] = None]
    /\ Unlock(c)
    /\ UNCHANGED <<live, schema_seen, tx, server, arg, loop>>

Checkpoint(c) ==
    /\ At(c, "checkpoint")
    /\ Free(Mine(c))
    /\ Committable(c)
    /\ TakeTx(c, "checkpointing")
    /\ UNCHANGED <<live, schema_seen, server, loop, history>>

(* Slip: a failed commit answers while it still has the guard. *)
CheckpointCommittedKeepsGuard(c) ==
    /\ pc[c] = "checkpointing"
    /\ \/ Committed(c) /\ Goto(c, "reopening")
       \/ UNCHANGED history /\ Goto(c, "reply")
    /\ held' = [held EXCEPT ![c] = None]
    /\ UNCHANGED <<live, sessions, server, arg, loop>>

CheckpointCommitted(c) ==
    /\ pc[c] = "checkpointing"
    /\ \/ Committed(c) /\ Goto(c, "reopening") /\ UNCHANGED lock
       \/ UNCHANGED history /\ Goto(c, "reply") /\ Unlock(c)
    /\ held' = [held EXCEPT ![c] = None]
    /\ UNCHANGED <<live, schema_seen, tx, server, arg, loop>>

(* Slip: a failed reopening returns before the peers are told. *)
CheckpointReopenedOrReturned(c) ==
    /\ pc[c] = "reopening"
    /\ \/ /\ CanOpen(Db(c), arg[c].kind)
          /\ tx' = [tx EXCEPT ![Mine(c)] =
                       [database |-> Db(c), kind |-> arg[c].kind]]
          /\ Goto(c, AfterCommit(c))
       \/ UNCHANGED tx /\ Goto(c, "reply")
    /\ Unlock(c)
    /\ UNCHANGED <<live, schema_seen, server, arg, held, loop, history>>

(* The peers are told whether or not the fresh transaction opened. *)
CheckpointReopened(c) ==
    /\ pc[c] = "reopening"
    /\ \/ /\ CanOpen(Db(c), arg[c].kind)
          /\ tx' = [tx EXCEPT ![Mine(c)] =
                       [database |-> Db(c), kind |-> arg[c].kind]]
       \/ UNCHANGED tx
    /\ Unlock(c)
    /\ Goto(c, AfterCommit(c))
    /\ UNCHANGED <<live, schema_seen, server, arg, held, loop, history>>

Rollback(c) ==
    /\ At(c, "rollback")
    /\ Free(Mine(c))
    /\ tx[Mine(c)] # None
    /\ TakeTx(c, "releasing")
    /\ UNCHANGED <<live, schema_seen, server, loop, history>>

RollbackDone(c) ==
    /\ pc[c] = "releasing"
    /\ held' = [held EXCEPT ![c] = None]
    /\ Unlock(c)
    /\ Goto(c, "reply")
    /\ UNCHANGED <<live, schema_seen, tx, server, arg, loop, history>>

(* run_reaper on a session it can lock: an idle transaction is taken and *)
(* released without letting go of the lock.                              *)
ReapIdleTx(s) ==
    /\ s \in live
    /\ Free(s)
    /\ tx[s] # None
    /\ tx' = [tx EXCEPT ![s] = None]
    /\ UNCHANGED <<live, lock, schema_seen, server, pc, arg, held, loop, history>>

-----------------------------------------------------------------------------
(* read_once and with_owned_tx open a transaction of their own: they ask for *)
(* the gate and for no open transaction, not for the name reservation.       *)

OwnTxRefused(c) == tx[Mine(c)] # None \/ Db(c) \notin schema_seen[Mine(c)]

OpenOwnTx(c, tool, label) ==
    /\ At(c, tool)
    /\ Free(Mine(c))
    /\ \/ OwnTxRefused(c) /\ Goto(c, "reply") /\ UNCHANGED lock
       \/ ~OwnTxRefused(c) /\ Goto(c, label) /\ Take(c)
    /\ UNCHANGED <<live, schema_seen, tx, server, arg, held, loop, history>>

OwnTxOpened(c, from, label) ==
    /\ pc[c] = from
    /\ \/ /\ CanOpen(Db(c), arg[c].kind)
          /\ held' = [held EXCEPT ![c] = [database |-> Db(c), kind |-> arg[c].kind]]
          /\ Goto(c, label)
          /\ UNCHANGED lock
       \/ Goto(c, "reply") /\ Unlock(c) /\ UNCHANGED held
    /\ UNCHANGED <<live, schema_seen, tx, server, arg, loop, history>>

ReadOnce(c) == OpenOwnTx(c, "read_once", "once_open")
ReadOnceOpened(c) == OwnTxOpened(c, "once_open", "once_query")

(* Drained or failed, the transaction is closed before the lock goes. *)
ReadOnceDone(c) ==
    /\ pc[c] = "once_query"
    /\ held' = [held EXCEPT ![c] = None]
    /\ Unlock(c)
    /\ Goto(c, "reply")
    /\ UNCHANGED <<live, schema_seen, tx, server, arg, loop, history>>

WithOwnedTx(c) == OpenOwnTx(c, "with_owned_tx", "owned_open")
WithOwnedTxOpened(c) == OwnTxOpened(c, "owned_open", "owned_body")

(* The closure returned Commit, or Rollback or an error: the session is *)
(* unlocked first, the transaction is still open.                       *)
WithOwnedTxBody(c) ==
    /\ pc[c] = "owned_body"
    /\ Unlock(c)
    /\ \/ Goto(c, "owned_commit")
       \/ Goto(c, "owned_rollback")
    /\ UNCHANGED <<live, schema_seen, tx, server, arg, held, loop, history>>

WithOwnedTxDone(c) ==
    /\ \/ pc[c] = "owned_commit" /\ Committed(c) /\ Goto(c, AfterCommit(c))
       \/ /\ pc[c] \in {"owned_commit", "owned_rollback"}
          /\ UNCHANGED history
          /\ Goto(c, "reply")
    /\ held' = [held EXCEPT ![c] = None]
    /\ UNCHANGED <<live, sessions, server, arg, loop>>

-----------------------------------------------------------------------------
(* invalidate_schema_seen_except after a schema change; delete_database has *)
(* the same loop without the exception.                                     *)

Sweep(c) ==
    /\ pc[c] = "sweep"
    /\ Over(c, IF arg[c].tool = "delete_database" THEN live ELSE live \ {Mine(c)},
            "sweeping", "reply")
    /\ UNCHANGED <<live, sessions, server, arg, held, history>>

SweepOne(c) ==
    /\ pc[c] = "sweeping"
    /\ Free(peer[c])
    /\ schema_seen' = [schema_seen EXCEPT ![peer[c]] = @ \ {Db(c)}]
    /\ stale' = [stale EXCEPT ![peer[c]] = @ \ {Db(c)}]
    /\ late' = [late EXCEPT ![peer[c]] = @ \ {Db(c)}]
    /\ Over(c, todo[c] \ {peer[c]}, "sweeping", "reply")
    /\ UNCHANGED <<live, lock, tx, server, arg, held, missed>>

-----------------------------------------------------------------------------
(* create_database and delete_database. *)

(* delete_database goes on to look at every session in the store. *)
CheckOwnTx(c) ==
    /\ pc[c] = "enter"
    /\ arg[c].tool \in {"create_database", "delete_database"}
    /\ Free(Mine(c))
    /\ CASE tx[Mine(c)] # None -> Goto(c, "reply") /\ UNCHANGED loop
         [] tx[Mine(c)] = None /\ arg[c].tool = "create_database" ->
               Goto(c, "reserve") /\ UNCHANGED loop
         [] OTHER -> Over(c, live, "scan", "reserve")
    /\ UNCHANGED <<live, sessions, server, arg, held, history>>

(* Finding a transaction, the handler returns from inside the loop: it still *)
(* holds the lock of the session it found.                                   *)
ScanOne(c) ==
    /\ pc[c] = "scan"
    /\ Free(peer[c])
    /\ LET found == tx[peer[c]] # None /\ tx[peer[c]].database = Db(c)
       IN  IF found
           THEN /\ lock' = [lock EXCEPT ![peer[c]] = c]
                /\ Goto(c, "reply")
                /\ UNCHANGED loop
           ELSE /\ Over(c, todo[c] \ {peer[c]}, "scan", "reserve")
                /\ UNCHANGED lock
    /\ UNCHANGED <<live, schema_seen, tx, server, arg, held, history>>

(* Slip: a name somebody reserved is reserved again. *)
ReserveTwice(c) ==
    /\ pc[c] = "reserve"
    /\ reserved' = [reserved EXCEPT ![Db(c)] = c]
    /\ Goto(c, IF arg[c].tool = "create_database" THEN "creating" ELSE "deleting")
    /\ UNCHANGED <<live, sessions, job, exist, arg, held, loop, history>>

Reserve(c) ==
    /\ pc[c] = "reserve"
    /\ IF reserved[Db(c)] # None
       THEN Goto(c, "reply") /\ UNCHANGED reserved
       ELSE /\ reserved' = [reserved EXCEPT ![Db(c)] = c]
            /\ Goto(c, IF arg[c].tool = "create_database" THEN "creating"
                                                          ELSE "deleting")
    /\ UNCHANGED <<live, sessions, job, exist, arg, held, loop, history>>

CreateDone(c) ==
    /\ pc[c] = "creating"
    /\ reserved' = [reserved EXCEPT ![Db(c)] = None]
    /\ \/ Db(c) \notin exist /\ exist' = exist \cup {Db(c)}
       \/ UNCHANGED exist
    /\ Goto(c, "reply")
    /\ UNCHANGED <<live, sessions, job, arg, held, loop, history>>

(* The reservation is dropped before the gates are cleared. *)
DeleteOk(c) ==
    /\ pc[c] = "deleting"
    /\ Db(c) \in exist
    /\ exist' = exist \ {Db(c)}
    /\ reserved' = [reserved EXCEPT ![Db(c)] = None]
    /\ SchemaChanged(Db(c), None)
    /\ Goto(c, "sweep")
    /\ UNCHANGED <<live, sessions, job, arg, held, loop>>

DeleteFailed(c) ==
    /\ pc[c] = "deleting"
    /\ reserved' = [reserved EXCEPT ![Db(c)] = None]
    /\ Goto(c, "reply")
    /\ UNCHANGED <<live, sessions, job, exist, arg, held, loop, history>>

-----------------------------------------------------------------------------
(* export_database and import_database: the job owns the permit, the name *)
(* reservation and the caller's session guard until the worker drops it.  *)

MigrateRefused(c) == job # None \/ reserved[Db(c)] # None

Migrate(c) ==
    /\ At(c, "migrate")
    /\ Free(Mine(c))
    /\ \/ /\ tx[Mine(c)] # None         \* the snapshot is taken under the guard
          /\ Take(c)
          /\ Goto(c, "reply")
          /\ UNCHANGED <<reserved, job>>
       \/ /\ tx[Mine(c)] = None         \* submit fails: guard and permit dropped
          /\ Goto(c, "reply")
          /\ UNCHANGED <<lock, reserved, job>>
       \/ /\ tx[Mine(c)] = None /\ ~MigrateRefused(c)
          /\ lock' = [lock EXCEPT ![Mine(c)] = Worker]
          /\ reserved' = [reserved EXCEPT ![Db(c)] = Worker]
          /\ job' = c
          /\ Goto(c, "await_job")
    /\ UNCHANGED <<live, schema_seen, tx, exist, arg, held, loop, history>>

(* The worker sends its result, then drops the job. An import that fails *)
(* after it started may leave a partial database behind.  A worker that  *)
(* panics drops the job without a result: for the call, an error; as it  *)
(* can then only wait for its guard, the order makes no difference.      *)
JobReply ==
    /\ job # None /\ pc[job] = "await_job"
    /\ \/ /\ arg[job].kind = "import" /\ Db(job) \notin exist
          /\ exist' = exist \cup {Db(job)}
          /\ \/ SchemaChanged(Db(job), Mine(job)) /\ Goto(job, "sweep")
             \/ UNCHANGED history /\ Goto(job, "reply")
       \/ Goto(job, "reply") /\ UNCHANGED <<exist, history>>
    /\ UNCHANGED <<live, sessions, reserved, job, arg, held, loop>>

JobDropped ==
    /\ job # None /\ pc[job] # "await_job"
    /\ job' = None
    /\ reserved' = [reserved EXCEPT ![Db(job)] = None]
    /\ lock' = [lock EXCEPT ![Mine(job)] = None]
    /\ UNCHANGED <<live, schema_seen, tx, exist, pc, arg, held, loop, history>>

-----------------------------------------------------------------------------

(* Steps that end a wait for a mutex of a session. *)
Lock(c) ==
    \/ InsertSchemaSeen(c) \/ Open(c) \/ Query(c)
    \/ NothingToClose(c) \/ Commit(c) \/ Checkpoint(c) \/ Rollback(c)
    \/ ReadOnce(c) \/ WithOwnedTx(c) \/ SweepOne(c)
    \/ CheckOwnTx(c) \/ ScanOne(c) \/ Migrate(c) \/ Reply(c)

(* Steps the task or the server completes on its own. *)
Proceed(c) ==
    \/ RejectArguments(c) \/ FetchSchema(c) \/ OpenDone(c) \/ QueryDone(c)
    \/ CommitDone(c) \/ CheckpointCommitted(c) \/ CheckpointReopened(c)
    \/ RollbackDone(c) \/ ReadOnceOpened(c) \/ ReadOnceDone(c)
    \/ WithOwnedTxOpened(c) \/ WithOwnedTxBody(c) \/ WithOwnedTxDone(c)
    \/ Sweep(c) \/ Reserve(c) \/ CreateDone(c) \/ DeleteOk(c) \/ DeleteFailed(c)

Next ==
    \/ \E s \in Session : StartSession(s) \/ ReapIdleTx(s)
    \/ \E c \in Call : Begin(c) \/ Lock(c) \/ Proceed(c)
    \/ JobReply \/ JobDropped

Spec == Init /\ [][Next]_vars

(* tokio's Mutex is a FIFO queue, so a call that waits for a session's lock   *)
(* gets it if it keeps being released (strong fairness); the runtime runs a   *)
(* ready task, the driver's requests end and the worker thread finishes a job *)
(* (weak fairness).  No client has to call, and the reaper has to reap        *)
(* nothing.                                                                   *)
Fairness ==
    /\ \A c \in Call : SF_vars(Lock(c)) /\ WF_vars(Proceed(c))
    /\ WF_vars(JobReply) /\ WF_vars(JobDropped)

FairSpec == Spec /\ Fairness

-----------------------------------------------------------------------------
(* Properties. *)

TypeOK ==
    /\ live \subseteq Session
    /\ lock \in [Session -> Call \cup {None, Worker}]
    /\ schema_seen \in [Session -> SUBSET Database]
    /\ tx \in [Session -> OpenTx \cup {None}]
    /\ reserved \in [Database -> Call \cup {None, Worker}]
    /\ job \in Call \cup {None}
    /\ exist \subseteq Database
    /\ pc \in [Call -> Labels]
    /\ arg \in [Call -> Arguments]
    /\ held \in [Call -> OpenTx \cup {None}]
    /\ todo \in [Call -> SUBSET Session]
    /\ peer \in [Call -> Session \cup {None}]
    /\ stale \in [Session -> SUBSET Database]
    /\ late \in [Session -> SUBSET Database]
    /\ missed \subseteq Call

(* Where with_owned_tx has unlocked the session and not yet ended its        *)
(* transaction.                                                              *)
Detached == {"owned_commit", "owned_rollback"}

(* A session has one transaction at a time, in its slot or in the hands of a *)
(* call that is committing, releasing or draining it.  with_owned_tx's last  *)
(* step is set aside: see AtMostOneTransaction.                              *)
OneTransaction ==
    \A c \in Call : held[c] # None /\ pc[c] \notin Detached =>
        /\ tx[Mine(c)] = None
        /\ \A b \in Call \ {c} :
              held[b] # None /\ pc[b] \notin Detached => Mine(b) # Mine(c)

(* DESIGN.md section 3, invariant 4, with with_owned_tx in: "At most one     *)
(* transaction per session."                                                 *)
AtMostOneTransaction ==
    \A c \in Call : held[c] # None =>
        /\ tx[Mine(c)] = None
        /\ \A b \in Call \ {c} : held[b] # None => Mine(b) # Mine(c)

(* A call that still has to close the gate of database d in session s after  *)
(* a schema change: it holds its own session for a checkpoint, has yet to    *)
(* list the sessions, or has s left on its list.                             *)
Closing(c, s, d) ==
    /\ Db(c) = d
    /\ \/ pc[c] = "reopening" /\ arg[c].kind = "schema" /\ s # Mine(c)
       \/ pc[c] = "sweep" /\ (arg[c].tool = "delete_database" \/ s # Mine(c))
       \/ pc[c] = "sweeping" /\ s \in todo[c]

(* No schema change is forgotten: a gate opened before it is closed by it,   *)
(* whether the change was a commit, a checkpoint (reopened or not), an       *)
(* import or a delete, and whatever the session was doing meanwhile.         *)
StaleGatesAreClosed ==
    \A s \in Session : \A d \in stale[s] : \E c \in Call : Closing(c, s, d)

(* DESIGN.md section 3, invariant 6: after a schema commit other sessions    *)
(* "must call get_schema again before opening further transactions".  So a   *)
(* gate never stands for a schema fetched before an acknowledged change.     *)
GatesStandForTheSchema ==
    \A s \in Session : \A d \in stale[s] \cup late[s] :
        \E c \in Call : Closing(c, s, d)

(* The coordinator: a name is reserved exactly while the one call or job     *)
(* that reserved it creates, deletes or migrates that database; every way    *)
(* out gives it back.                                                        *)
ReservationsAreOwned ==
    /\ \A d \in Database : \A c \in Call :
          reserved[d] = c <=> pc[c] \in {"creating", "deleting"} /\ Db(c) = d
    /\ \A d \in Database : reserved[d] = Worker <=> job # None /\ Db(job) = d
    /\ \A s \in Session : lock[s] = Worker <=> job # None /\ Mine(job) = s

(* DESIGN.md section 7.12: delete_database has the gate "no live server      *)
(* session has an open transaction on the target database".                  *)
DeletesUnusedDatabase ==
    [][\A d \in exist \ exist' : \A s \in live :
          tx[s] = None \/ tx[s].database # d]_vars

(* No handler waits, for the snapshot of its answer, for a mutex whose guard *)
(* it still owns.                                                            *)
NobodyWaitsForItself == \A c \in Call : pc[c] = "reply" => lock[Mine(c)] # c

(* Who waits for a session's mutex owns none, so that calls cannot wait for  *)
(* each other in a circle, but for two refusals that are answered under a    *)
(* guard: delete_database has that of the session in which it found the      *)
(* transaction, a migration tool that of its own.                            *)
NoHoldAndWait ==
    \A c \in Call, s \in Session :
        lock[s] = c /\ pc[c] \in {"enter", "insert", "scan", "sweeping", "reply"} =>
            pc[c] = "reply" /\ arg[c].tool \in {"delete_database", "migrate"}

(* Every tool call is answered.                                              *)
EveryCallReturns == \A c \in Call : pc[c] # "idle" ~> pc[c] = "idle"

(* The transaction of a session as its agent sees it: in the slot, or with   *)
(* the call that holds the session's lock to end, renew or drain it.         *)
SlotOf(s) ==
    IF lock[s] \notin Call THEN tx[s]
    ELSE CASE Mine(lock[s]) = s /\ held[lock[s]] # None -> held[lock[s]]
           [] Mine(lock[s]) = s /\ pc[lock[s]] = "reopening" ->
                 [database |-> Db(lock[s]), kind |-> arg[lock[s]].kind]
           [] OTHER -> tx[s]

Lifecycle == INSTANCE TxLifecycle
    WITH gate <- schema_seen, slot <- [s \in Session |-> SlotOf(s)]

(* Every step of every handler is a step of the lifecycle or invisible: a    *)
(* transaction is opened only in an empty slot and through the gate, and a   *)
(* checkpoint renews the very transaction it committed.                      *)
KeepsLifecycle == Lifecycle!Spec

=============================================================================
