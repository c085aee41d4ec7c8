------------------------------- MODULE Answers -------------------------------
(***************************************************************************)
(* One agent, one session, one call at a time: what each answer says of    *)
(* the session's transaction, and where an agent that follows the advice   *)
(* of the answers gets.                                                    *)
(*                                                                         *)
(* An action is a whole handler of core/tools.rs, with the lock held, save *)
(* for query and read_once, whose answers arrive row by row: they start    *)
(* with Query or ReadOnce and end in Pull. The interleaving of calls is    *)
(* the matter of ToolCalls; here everything but the agent's own call, the  *)
(* reaper, other sessions, TypeDB's own timeouts, is an action of the      *)
(* environment.                                                            *)
(***************************************************************************)
EXTENDS NextMoves

CONSTANTS Cap,        \* config: result_cap
          Home,       \* bound: a database that exists and nobody deletes
          MaxRows,    \* bound: the rows an answer of TypeDB has at most
          MaxFaults   \* bound: mistakes of the agent and faults of the others

ASSUME BoundsOK == Home \in Databases /\ Cap \in Nat /\ MaxRows \in Nat /\ MaxFaults \in Nat

VARIABLES
  sid,       \* the agent's session id: unknown to the store, live or expired
  seen,      \* SessionState::schema_seen
  tx,        \* SessionState::tx: its database and kind, or NoTx
  upstream,  \* TypeDB's side of tx, see below
  exist,     \* the databases TypeDB has
  reserved,  \* the names the coordinator has reserved, for others
  stream,    \* the answer of TypeDB being read, or NoStream
  reply,     \* the last answer
  faults     \* how many faults may still happen

vars == <<sid, seen, tx, upstream, exist, reserved, stream, reply, faults>>

NoTx     == [db |-> NoDb, kind |-> "none"]
Txs      == {NoTx} \cup [db : Databases, kind : Kinds]
NoError  == [kind |-> "none", top |-> <<"", 0>>, stack |-> {}]

(* TypeDB has no transaction for us, has it open, has lost it without a    *)
(* word yet, or has answered a call on it with the error that ended it.    *)
NoUpstream == [state |-> "none", cause |-> NoError]
IsOpen     == [state |-> "open", cause |-> NoError]
Ended(state, error) == [state |-> state, cause |-> error]

NoStream == [call |-> <<"none", NoDb>>, kept |-> 0, sent |-> 0, left |-> 0,
             end |-> NoError, kills |-> FALSE]

-----------------------------------------------------------------------------
(* TypeDB's errors: DESIGN.md section 5 gives the codes of each stage, and  *)
(* whether the transaction survives. The causes of a failed write or of a   *)
(* failed schema change come from any family.                               *)

Hsr16  == <<"HSR", 16>>
Failed == {<<"TSV", 11>>, Hsr16}
Causes == {{<<"CNT", 6>>, <<"DVL", 7>>}, {<<"INF", 2>>, <<"QUA", 1>>}, {<<"COW", 5>>}}

Stage(top, stack, kills) == [error |-> Server(top, stack), kills |-> kills]

Rejected(kind) ==      \* the query does not get to run: a mistake in it
  {Stage(<<"TQL", 3>>, {<<"TQL", 3>>, <<"TSV", 7>>, Hsr16}, FALSE),
   Stage(<<"INF", 2>>, {<<"INF", 2>>, <<"QUA", 1>>, <<"QEX", 8>>} \cup Failed, FALSE)}
  \cup (CASE kind = "read"  -> {Stage(<<"TSV", 9>>, {<<"TSV", 9>>, Hsr16}, FALSE)}
          [] kind = "write" -> {Stage(<<"TSV", 8>>, {<<"TSV", 8>>, Hsr16}, FALSE)}
          [] OTHER          -> {})

Aborted(kind) ==       \* a write, or a schema change, that fails half way
  (IF kind = "read" THEN {}
   ELSE {Stage(<<"WEX", 1>>, c \cup {<<"WEX", 1>>, <<"PEX", 6>>, <<"QEX", 14>>} \cup Failed,
               TRUE) : c \in Causes})
  \cup (IF kind # "schema" THEN {}
        ELSE {Stage(<<"QEX", 3>>, c \cup {<<"QEX", 3>>, <<"TSV", 10>>}, TRUE) : c \in Causes})

Interrupted ==         \* any query: planning, a conflict, a timeout, a new code, the network
  {Stage(<<"REP", 27>>, {<<"REP", 27>>, <<"QEX", 8>>} \cup Failed, k) : k \in BOOLEAN}
  \cup {Stage(<<"NEW", 1>>, {<<"NEW", 1>>, Hsr16}, k) : k \in BOOLEAN}
  \cup {Stage(<<"TSV", 13>>, {<<"TSV", 13>>, Hsr16}, TRUE),
        Stage(<<"TXN", 1>>, {<<"TXN", 1>>}, TRUE),
        [error |-> Other, kills |-> TRUE]}

QueryFailures(kind) == Rejected(kind) \cup Aborted(kind) \cup Interrupted

CommitFailures ==
  {Server(<<"DCT", 3>>, c \cup {<<"DCT", 3>>, <<"TSV", 5>>, <<"HSR", 18>>}) : c \in Causes}
  \cup {Server(<<"TSV", 13>>, {<<"TSV", 13>>, Hsr16}), Server(<<"NEW", 1>>, {<<"NEW", 1>>}),
        Other}

Missing == Server(<<"SRV", 3>>, {<<"SRV", 3>>})
Exists  == Server(<<"DBC", 2>>, {<<"DBC", 2>>})
RequestFailures == {Server(<<"TSV", 13>>, {<<"TSV", 13>>, Hsr16}), Other,
                    Server(<<"NEW", 1>>, {<<"NEW", 1>>})}

(* A call on a transaction that is gone: the HTTP API says so, the gRPC     *)
(* driver says that it is closed or repeats the error that ended it.        *)
Gone(error) == {error, Closed, Server(<<"TSV", 12>>, {<<"TSV", 12>>, Hsr16})}

-----------------------------------------------------------------------------
(* Answers. "held" is the kind of the transaction in the session when the   *)
(* handler lets go of its lock; "kept" and "sent" are the rows the agent    *)
(* got and those that TypeDB had; "turn" tells an answer from the one       *)
(* before it, which may say the same.                                       *)

Ok(call, moves, held) ==
  [call |-> call, ok |-> TRUE, class |-> "none", moves |-> moves, held |-> held,
   kept |-> 0, sent |-> 0, turn |-> ~reply.turn]

Err(call, class, moves, held) ==
  [call |-> call, ok |-> FALSE, class |-> class, moves |-> moves, held |-> held,
   kept |-> 0, sent |-> 0, turn |-> ~reply.turn]

Fail(call, class, held) == Err(call, class, on_error(class, call), held)
Busy(call, held) == Err(call, "Unclassified", on_upstream_unavailable(call), held)

(* The agent calls what the last answer advised; any other call is a stray, *)
(* and strays are bounded with the faults.                                  *)
Spend(call, n) ==
  LET cost == n + IF call \in reply.moves THEN 0 ELSE 1
  IN  cost <= faults /\ faults' = faults - cost

Asks(call) == sid = "live" /\ stream = NoStream /\ call \in Calls

-----------------------------------------------------------------------------
(* The session. *)

StartSession ==
  LET call == <<"start_session", NoDb>> IN
  /\ stream = NoStream
  /\ sid' = "live"
  /\ seen' = {}
  /\ tx' = NoTx
  /\ upstream' = NoUpstream
  /\ \/ Spend(call, 0) /\ reply' = Ok(call, after_start_session(exist), "none")
     \/ \E e \in RequestFailures :
          /\ Spend(call, 1)
          /\ reply' = Err(call, classify_driver_error(e), after_start_session_partial, "none")
  /\ UNCHANGED <<exist, reserved, stream>>

(* core.resolve: any other tool, with an id the store does not take. *)
Unresolved(call) ==
  /\ call[1] # "start_session" /\ call \in Calls
  /\ sid # "live" /\ stream = NoStream
  /\ Spend(call, 0)
  /\ sid' = "unknown"
  /\ seen' = {}
  /\ tx' = NoTx
  /\ upstream' = NoUpstream
  /\ reply' = Fail(call, IF sid = "expired" THEN "SessionExpired" ELSE "SessionUnknown",
                   "none")
  /\ UNCHANGED <<exist, reserved, stream>>

ListDatabases(tool) ==
  LET call == <<tool, NoDb>> IN
  /\ Asks(call)
  /\ \/ /\ Spend(call, 0)
        /\ reply' = Ok(call, after_list_databases(IF tool = "list_databases" THEN exist
                                                  ELSE Databases), tx.kind)
     \/ \E e \in RequestFailures :
          /\ Spend(call, 1)
          /\ reply' = Err(call, classify_driver_error(e), on_upstream_unavailable(call),
                          tx.kind)
  /\ UNCHANGED <<sid, seen, tx, upstream, exist, reserved, stream>>

GetSchema(d) ==
  LET call == <<"get_schema", d>> IN
  /\ Asks(call)
  /\ \/ /\ d \in exist /\ Spend(call, 0)
        /\ seen' = seen \cup {d}
        /\ reply' = Ok(call, after_get_schema(d), tx.kind)
     \/ /\ d \notin exist /\ Spend(call, 0)
        /\ reply' = Fail(call, classify_driver_error(Missing), tx.kind)
        /\ UNCHANGED seen
     \/ \E e \in RequestFailures :
          /\ Spend(call, 1)
          /\ reply' = Fail(call, classify_driver_error(e), tx.kind)
          /\ UNCHANGED seen
  /\ UNCHANGED <<sid, tx, upstream, exist, reserved, stream>>

-----------------------------------------------------------------------------
(* Opening. The coordinator is asked before the slot and the gate. *)

(* Slip: any schema will do. *)
AnySchemaRead(d) == seen # {}

SchemaRead(d) == d \in seen

OpenErrors(d) == RequestFailures \cup (IF d \in exist THEN {} ELSE {Missing})
OpenCost(e) == IF e = Missing THEN 0 ELSE 1

Open(kind, d) ==
  LET call == <<open(kind), d>> IN
  /\ Asks(call)
  /\ \/ /\ d \in reserved /\ Spend(call, 0)
        /\ reply' = Busy(call, tx.kind)
        /\ UNCHANGED <<tx, upstream>>
     \/ /\ d \notin reserved /\ tx # NoTx /\ Spend(call, 0)
        /\ reply' = Fail(call, "TxAlreadyOpen", tx.kind)
        /\ UNCHANGED <<tx, upstream>>
     \/ /\ d \notin reserved /\ tx = NoTx /\ ~SchemaRead(d) /\ Spend(call, 0)
        /\ reply' = Fail(call, "SchemaNotRead", "none")
        /\ UNCHANGED <<tx, upstream>>
     \/ /\ d \notin reserved /\ tx = NoTx /\ SchemaRead(d) /\ d \in exist /\ Spend(call, 0)
        /\ tx' = [db |-> d, kind |-> kind]
        /\ upstream' = IsOpen
        /\ reply' = Ok(call, after_open(kind), kind)
     \/ /\ d \notin reserved /\ tx = NoTx /\ SchemaRead(d)
        /\ \E e \in OpenErrors(d) :
             /\ Spend(call, OpenCost(e))
             /\ reply' = Fail(call, classify_driver_error(e), "none")
        /\ UNCHANGED <<tx, upstream>>
  /\ UNCHANGED <<sid, seen, exist, reserved, stream>>

-----------------------------------------------------------------------------
(* Queries. *)

(* Only the errors of a write and of a commit drop the transaction. *)
JudgeSlip(call, f) ==
  LET class == classify_driver_error(f.error)
      keeps == class \notin {"WriteFailed", "CommitFailed", "Timeout", "IdleTimeout"}
  IN  /\ tx' = IF keeps THEN tx ELSE NoTx
      /\ upstream' = IF keeps THEN upstream ELSE NoUpstream
      /\ reply' = Fail(call, class, IF keeps THEN tx.kind ELSE "none")

(* do_query with an error of TypeDB: only a retriable one keeps the slot. *)
Judge(call, f) ==
  LET class == classify_driver_error(f.error)
      keeps == Retriable(class)
  IN  /\ tx' = IF keeps THEN tx ELSE NoTx
      /\ upstream' = CASE ~keeps            -> NoUpstream
                       [] keeps /\ f.kills -> Ended("aborted", f.error)
                       [] OTHER             -> upstream
      /\ reply' = Fail(call, class, IF keeps THEN tx.kind ELSE "none")

(* TypeDB answers with a stream: so many rows, and perhaps an error. *)
Streams(call, kind) ==
  \E n \in 0 .. MaxRows :
    \/ /\ Spend(call, IF n > Cap THEN 1 ELSE 0)
       /\ stream' = [call |-> call, kept |-> 0, sent |-> n, left |-> n,
                     end |-> NoError, kills |-> FALSE]
    \/ \E f \in Aborted(kind) \cup Interrupted :
         /\ Spend(call, 1)
         /\ stream' = [call |-> call, kept |-> 0, sent |-> n, left |-> n,
                       end |-> f.error, kills |-> f.kills]

Query ==
  LET call == <<"query", NoDb>> IN
  /\ Asks(call)
  /\ \/ /\ tx = NoTx /\ Spend(call, 0)
        /\ reply' = Fail(call, "NoTxOpen", "none")
        /\ UNCHANGED <<tx, upstream, stream>>
     \/ /\ tx # NoTx /\ upstream.state = "open"
        /\ \E f \in QueryFailures(tx.kind) : Spend(call, 1) /\ Judge(call, f)
        /\ UNCHANGED stream
     \/ /\ tx # NoTx /\ upstream.state = "open"
        /\ Streams(call, tx.kind)
        /\ UNCHANGED <<tx, upstream, reply>>
     \/ /\ tx # NoTx /\ upstream.state # "open" /\ Spend(call, 0)
        /\ \E e \in Gone(upstream.cause) : Judge(call, [error |-> e, kills |-> TRUE])
        /\ UNCHANGED stream
  /\ UNCHANGED <<sid, seen, exist, reserved>>

(* read_once asks neither the coordinator nor the session for a slot; its   *)
(* transaction is closed before the answer.                                 *)
ReadOnce(d) ==
  LET call == <<"read_once", d>> IN
  /\ Asks(call)
  /\ \/ /\ tx # NoTx /\ Spend(call, 0)
        /\ reply' = Fail(call, "TxAlreadyOpen", tx.kind)
        /\ UNCHANGED stream
     \/ /\ tx = NoTx /\ ~SchemaRead(d) /\ Spend(call, 0)
        /\ reply' = Fail(call, "SchemaNotRead", "none")
        /\ UNCHANGED stream
     \/ /\ tx = NoTx /\ SchemaRead(d)
        /\ \E e \in OpenErrors(d) :
             /\ Spend(call, OpenCost(e))
             /\ reply' = Fail(call, classify_driver_error(e), "none")
        /\ UNCHANGED stream
     \/ /\ tx = NoTx /\ SchemaRead(d) /\ d \in exist
        /\ \E f \in QueryFailures("read") :
             /\ Spend(call, 1)
             /\ reply' = Fail(call, classify_driver_error(f.error), "none")
        /\ UNCHANGED stream
     \/ /\ tx = NoTx /\ SchemaRead(d) /\ d \in exist
        /\ Streams(call, "read")
        /\ UNCHANGED reply
  /\ UNCHANGED <<sid, seen, tx, upstream, exist, reserved>>

(* A full answer counts as one too long. *)
TooManySlip(kept) == kept + 1 >= Cap

(* query_answer_to_json: a row that finds the result full truncates it. *)
TooMany(kept) == kept >= Cap

Rows(answer) == [answer EXCEPT !.kept = stream.kept, !.sent = stream.sent]

PullRow ==
  /\ stream.left > 0 /\ ~TooMany(stream.kept)
  /\ stream' = [stream EXCEPT !.kept = @ + 1, !.left = @ - 1]
  /\ UNCHANGED <<tx, upstream, reply>>

PullTooMany ==       \* what the stream still held is never seen
  /\ stream.left > 0 /\ TooMany(stream.kept)
  /\ stream' = NoStream
  /\ reply' = Rows(Fail(stream.call, "ResultLimitExceeded", tx.kind))
  /\ upstream' = IF tx # NoTx /\ stream.kills THEN Ended("lost", stream.end) ELSE upstream
  /\ UNCHANGED tx

PullEnd ==
  /\ stream.left = 0 /\ stream.end = NoError
  /\ stream' = NoStream
  /\ reply' = Rows(Ok(stream.call, IF tx = NoTx THEN after_read_once_ok
                                   ELSE after_query_ok(tx.kind), tx.kind))
  /\ UNCHANGED <<tx, upstream>>

PullFailed ==
  /\ stream.left = 0 /\ stream.end # NoError
  /\ stream' = NoStream
  /\ IF tx # NoTx THEN Judge(stream.call, [error |-> stream.end, kills |-> stream.kills])
     ELSE /\ reply' = Fail(stream.call, classify_driver_error(stream.end), "none")
          /\ UNCHANGED <<tx, upstream>>

Pull ==
  /\ stream # NoStream
  /\ PullRow \/ PullTooMany \/ PullEnd \/ PullFailed
  /\ UNCHANGED <<sid, seen, exist, reserved, faults>>

-----------------------------------------------------------------------------
(* Commit, checkpoint and rollback take the transaction out of the slot.    *)

NothingOpen(call) == tx = NoTx /\ Spend(call, 0) /\ reply' = Fail(call, "NoTxOpen", "none")
OnlyRead(call) == tx.kind = "read" /\ Spend(call, 0) /\ reply' = Fail(call, "TxIsRead", "read")
Writable == tx # NoTx /\ tx.kind # "read"

CommitFails(call) ==
  \/ /\ upstream.state = "open"
     /\ \E e \in CommitFailures :
          Spend(call, 1) /\ reply' = Fail(call, classify_driver_error(e), "none")
  \/ /\ upstream.state # "open" /\ Spend(call, 0)
     /\ \E e \in Gone(upstream.cause) : reply' = Fail(call, classify_driver_error(e), "none")

Commit ==
  LET call == <<"commit", NoDb>> IN
  /\ Asks(call)
  /\ \/ (NothingOpen(call) \/ OnlyRead(call)) /\ UNCHANGED <<tx, upstream>>
     \/ /\ Writable /\ tx' = NoTx /\ upstream' = NoUpstream
        /\ \/ CommitFails(call)
           \/ /\ upstream.state = "open" /\ Spend(call, 0)
              /\ reply' = Ok(call, after_commit_ok, "none")
  /\ UNCHANGED <<sid, seen, exist, reserved, stream>>

Checkpoint ==
  LET call == <<"checkpoint", NoDb>> IN
  /\ Asks(call)
  /\ \/ (NothingOpen(call) \/ OnlyRead(call)) /\ UNCHANGED <<tx, upstream>>
     \/ Writable /\ tx' = NoTx /\ upstream' = NoUpstream /\ CommitFails(call)
     \/ /\ Writable /\ upstream.state = "open" /\ tx.db \in exist /\ Spend(call, 0)
        /\ reply' = Ok(call, after_checkpoint_ok, tx.kind)
        /\ UNCHANGED <<tx, upstream>>
     \/ /\ Writable /\ upstream.state = "open"
        /\ tx' = NoTx /\ upstream' = NoUpstream
        /\ \E e \in OpenErrors(tx.db) :
             /\ Spend(call, OpenCost(e))
             /\ reply' = Err(call, classify_driver_error(e),
                             after_checkpoint_reopen_failed(tx.kind, tx.db), "none")
  /\ UNCHANGED <<sid, seen, exist, reserved, stream>>

Rollback ==
  LET call == <<"rollback", NoDb>> IN
  /\ Asks(call) /\ Spend(call, 0)
  /\ tx' = NoTx
  /\ upstream' = NoUpstream
  /\ reply' = Ok(call, after_rollback_ok, "none")
  /\ UNCHANGED <<sid, seen, exist, reserved, stream>>

-----------------------------------------------------------------------------
(* The admin tools.                                                         *)

CreateDatabase(d) ==
  LET call == <<"create_database", d>> IN
  /\ Asks(call)
  /\ \/ /\ tx # NoTx /\ Spend(call, 0)
        /\ reply' = Fail(call, "TxAlreadyOpen", tx.kind) /\ UNCHANGED exist
     \/ tx = NoTx /\ d \in reserved /\ Spend(call, 0) /\ reply' = Busy(call, "none")
          /\ UNCHANGED exist
     \/ /\ tx = NoTx /\ d \notin reserved /\ d \notin exist /\ Spend(call, 0)
        /\ exist' = exist \cup {d}
        /\ reply' = Ok(call, after_create_database(d), "none")
     \/ /\ tx = NoTx /\ d \notin reserved
        /\ \E e \in RequestFailures \cup (IF d \in exist THEN {Exists} ELSE {}) :
             /\ Spend(call, IF e = Exists THEN 0 ELSE 1)
             /\ reply' = Fail(call, classify_driver_error(e), "none")
        /\ UNCHANGED exist
  /\ UNCHANGED <<sid, seen, tx, upstream, reserved, stream>>

DeleteDatabase(d) ==
  LET call == <<"delete_database", d>> IN
  /\ Asks(call)
  /\ \/ /\ Spend(call, 1)       \* the wrong confirmation, checked before the lock
        /\ reply' = Fail(call, "ConfirmationRequired", tx.kind) /\ UNCHANGED <<exist, seen>>
     \/ /\ tx # NoTx /\ Spend(call, 0)
        /\ reply' = Fail(call, "TxAlreadyOpen", tx.kind) /\ UNCHANGED <<exist, seen>>
     \/ /\ tx = NoTx /\ Spend(call, 1)    \* another session has it open
        /\ reply' = Fail(call, "TxAlreadyOpen", "none") /\ UNCHANGED <<exist, seen>>
     \/ /\ tx = NoTx /\ d \in reserved /\ Spend(call, 0)
        /\ reply' = Busy(call, "none") /\ UNCHANGED <<exist, seen>>
     \/ /\ tx = NoTx /\ d \notin reserved /\ d \in exist /\ Spend(call, 0)
        /\ exist' = exist \ {d}
        /\ seen' = seen \ {d}
        /\ reply' = Ok(call, after_delete_database, "none")
     \/ /\ tx = NoTx /\ d \notin reserved
        /\ \E e \in OpenErrors(d) :
             /\ Spend(call, OpenCost(e))
             /\ reply' = Fail(call, classify_driver_error(e), "none")
        /\ UNCHANGED <<exist, seen>>
  /\ UNCHANGED <<sid, tx, upstream, reserved, stream>>

-----------------------------------------------------------------------------
(* The others. None of it happens while a call has the session's lock,      *)
(* which it keeps until its stream is read.                                 *)

Fault == faults > 0 /\ faults' = faults - 1

Reap ==              \* the reaper: idle for too long
  /\ stream = NoStream /\ tx # NoTx /\ Fault
  /\ tx' = NoTx /\ upstream' = NoUpstream
  /\ UNCHANGED <<sid, seen, exist, reserved, stream, reply>>

Expire ==            \* the time-to-live passes
  /\ stream = NoStream /\ sid = "live" /\ Fault
  /\ sid' = "expired"
  /\ UNCHANGED <<seen, tx, upstream, exist, reserved, stream, reply>>

Purge ==             \* the reaper purges before the agent comes back
  /\ stream = NoStream /\ sid = "expired"
  /\ sid' = "unknown" /\ seen' = {} /\ tx' = NoTx /\ upstream' = NoUpstream
  /\ UNCHANGED <<exist, reserved, stream, reply, faults>>

Lapse ==             \* TypeDB gives the transaction up: its own timeouts, a restart
  /\ stream = NoStream /\ upstream.state = "open" /\ Fault
  /\ upstream' = Ended("lost", Closed)
  /\ UNCHANGED <<sid, seen, tx, exist, reserved, stream, reply>>

PeerCommitsSchema(d) ==
  /\ stream = NoStream /\ d \in seen /\ Fault
  /\ seen' = seen \ {d}
  /\ UNCHANGED <<sid, tx, upstream, exist, reserved, stream, reply>>

PeerDeletes(d) ==
  /\ stream = NoStream /\ d \in exist /\ tx.db # d /\ Fault
  /\ exist' = exist \ {d}
  /\ seen' = seen \ {d}
  /\ UNCHANGED <<sid, tx, upstream, reserved, stream, reply>>

PeerReserves(d) ==
  /\ d \notin reserved /\ Fault
  /\ reserved' = reserved \cup {d}
  /\ UNCHANGED <<sid, seen, tx, upstream, exist, stream, reply>>

PeerReleases(d) ==
  /\ d \in reserved
  /\ reserved' = reserved \ {d}
  /\ UNCHANGED <<sid, seen, tx, upstream, exist, stream, reply, faults>>

-----------------------------------------------------------------------------
Init ==
  /\ sid = "unknown" /\ seen = {} /\ tx = NoTx /\ upstream = NoUpstream
  /\ exist \in {e \in SUBSET Databases : Home \in e}
  /\ reserved = {} /\ stream = NoStream /\ faults = MaxFaults
  /\ reply = [call |-> <<"list_databases", NoDb>>, ok |-> TRUE, class |-> "none",
               moves |-> Plain({"start_session"}), held |-> "none", kept |-> 0,
               sent |-> 0, turn |-> FALSE]

Agent ==
  \/ StartSession
  \/ \E call \in Calls : Unresolved(call)
  \/ \E tool \in {"list_databases", "server_info"} : ListDatabases(tool)
  \/ Query \/ Commit \/ Checkpoint \/ Rollback
  \/ \E d \in Databases :
       \/ GetSchema(d)
       \/ \E kind \in Kinds : Open(kind, d)
       \/ ReadOnce(d)
       \/ CreateDatabase(d)
  \/ \E d \in Databases \ {Home} : DeleteDatabase(d)

Others ==
  \/ Reap \/ Expire \/ Purge \/ Lapse
  \/ \E d \in Databases : PeerCommitsSchema(d) \/ PeerReserves(d) \/ PeerReleases(d)
  \/ \E d \in Databases \ {Home} : PeerDeletes(d)

Next == Agent \/ Pull \/ Others

Spec == Init /\ [][Next]_vars

(* The agent goes on calling, TypeDB goes on answering, and an operation    *)
(* that has a name reserved comes to its end. Nothing has to fail.          *)
Fairness == WF_vars(Agent) /\ WF_vars(Pull)
              /\ \A d \in Databases : WF_vars(PeerReleases(d))
FairSpec == Spec /\ Fairness

-----------------------------------------------------------------------------
Held == {"none"} \cup Kinds

Replies == [call : Calls, ok : BOOLEAN, class : ErrorClasses \cup {"none"},
            moves : SUBSET Calls, held : Held, kept : Nat, sent : Nat,
            turn : BOOLEAN]

TypeOK ==
  /\ sid \in {"unknown", "live", "expired"}
  /\ seen \subseteq Databases /\ exist \subseteq Databases /\ reserved \subseteq Databases
  /\ tx \in Txs
  /\ upstream \in [state : {"none", "open", "lost", "aborted"},
                   cause : DriverErrors \cup {NoError}]
  /\ stream \in [call : Calls \cup {<<"none", NoDb>>}, kept : Nat, sent : Nat, left : Nat,
                 end : DriverErrors \cup {NoError}, kills : BOOLEAN]
  /\ reply \in Replies
  /\ faults \in 0 .. MaxFaults

(* The session never keeps a transaction that TypeDB has told it is over:   *)
(* classify_typedb_error finds the error that ends a transaction under      *)
(* whatever other codes its stack holds.                                    *)
KeptIsAlive == tx # NoTx => upstream.state \in {"open", "lost"}

(* The calls that address the session's own transaction. An open on a name  *)
(* somebody has reserved is refused before the slot is looked at.           *)
OwnTools == {"query", "commit", "checkpoint", "rollback"} \cup Opens
OnlyRetry == reply.moves = {reply.call}

(* retriable_in_same_tx is true iff a transaction is open after the error,  *)
(* and the words of explain_query_error agree with it.                      *)
FlagIsTrue ==
  LET tool == reply.call[1]
      words == explain_query_error(reply.class)
  IN  /\ ~reply.ok /\ tool \in OwnTools /\ ~(OnlyRetry /\ tool \in Opens)
           => (Retriable(reply.class) <=> reply.held # "none")
      /\ ~reply.ok /\ tool = "query"
           => (words = "open" => reply.held # "none") /\ (words = "closed" => reply.held = "none")

(* An answer about the session's transaction advises calls the session is   *)
(* ready for: a query, commit or checkpoint of a transaction that is open,  *)
(* an open or read_once when none is. "Retry" alone is set aside.           *)
AdviceFits ==
  reply.call[1] \in OwnTools /\ ~OnlyRetry =>
    \A m \in reply.moves :
      /\ m[1] \in {"query", "commit"} => reply.held # "none"
      /\ m[1] = "checkpoint" => reply.held \in {"write", "schema"}
      /\ m[1] \in Opens \cup {"read_once"} => reply.held = "none"

(* A result is complete or refused: an answer carries every row TypeDB had, *)
(* never more than the cap, and only one that had more is refused for it.   *)
CapIsExact ==
  /\ reply.ok => reply.kept = reply.sent /\ reply.kept <= Cap
  /\ reply.class = "ResultLimitExceeded" => reply.sent > Cap

(* Whatever the calls answer, each of them and each fault does to gates and *)
(* slot only what TxLifecycle allows: a transaction is opened behind the    *)
(* gate of its own database and beside none, an error ends the one there    *)
(* is, and a new session starts with nothing of the old one.                *)
Lifecycle == INSTANCE TxLifecycle
  WITH Session <- {"agent"}, Database <- Databases, Kind <- Kinds,
       None <- [database |-> NoDb, kind |-> "none"],
       gate <- [s \in {"agent"} |-> seen],
       slot <- [s \in {"agent"} |-> [database |-> tx.db, kind |-> tx.kind]]
KeepsLifecycle == Lifecycle!AgentSpec

(* Whatever advised call the agent picks, again and again, it gets to open  *)
(* a transaction, or to an answer of a query.                               *)
Useful == reply.ok /\ reply.call[1] \in Opens \cup {"query", "read_once", "checkpoint"}
AdviceConverges == []<>Useful
=============================================================================
