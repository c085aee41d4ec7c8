------------------------------ MODULE NextMoves ------------------------------
(***************************************************************************)
(* core/envelope.rs: what an answer tells the agent to do next.            *)
(*                                                                         *)
(* A piece of advice is a call, <<tool, database>>; a text is the set of   *)
(* calls it names. "Retry" names the call that was answered. A text that   *)
(* leaves the database open names the tool with each of them.              *)
(***************************************************************************)
EXTENDS ErrorClass

CONSTANTS Databases, NoDb

ASSUME DatabasesOK == NoDb \notin Databases

Kinds  == {"read", "write", "schema"}
open(kind) == CASE kind = "read"  -> "open_read"
                [] kind = "write" -> "open_write"
                [] OTHER          -> "open_schema"
Opens == {"open_read", "open_write", "open_schema"}

Tools == Opens \cup {"start_session", "list_databases", "get_schema", "query",
                     "checkpoint", "commit", "rollback", "read_once",
                     "server_info", "create_database", "delete_database"}

Calls == Tools \X (Databases \cup {NoDb})

On(tools, databases) == tools \X databases
Plain(tools) == On(tools, {NoDb})

-----------------------------------------------------------------------------
(* After a success. "names" are the databases the answer lists. *)

after_start_session(names)   == On({"get_schema"}, names)
after_start_session_partial  == Plain({"list_databases"})
after_list_databases(names)  == On({"get_schema"}, names)
after_create_database(db)    == Plain({"list_databases"})
                                  \cup On({"get_schema", "open_schema"}, {db})
after_delete_database        == Plain({"list_databases"})
after_get_schema(db)         == On(Opens \cup {"read_once"}, {db})
after_open(kind) ==
  Plain(IF kind = "read" THEN {"query", "rollback"}
        ELSE {"query", "checkpoint", "commit", "rollback"})
after_query_ok(kind)         == after_open(kind)
after_checkpoint_ok          == Plain({"query", "checkpoint", "commit"})
after_checkpoint_reopen_failed(kind, db) == On({open(kind), "read_once"}, {db})
after_rollback_ok            == On(Opens \cup {"read_once", "get_schema"}, Databases)
after_commit_ok              == after_rollback_ok
after_read_once_ok           == after_rollback_ok

(* What explain_query_error says of the transaction of a failed query. *)
explain_query_error(class) ==
  CASE class \in {"ParseError", "TypeError", "WrongTxType"} -> "open"
    [] class \in {"QueryFailed", "WriteFailed", "CommitFailed", "Timeout",
                  "IdleTimeout", "Unclassified"}             -> "closed"
    [] OTHER                                                 -> "silent"

(* A failure to plan a query is taken for one more typing mistake. *)
FixTheQuerySlip == {"WrongTxType", "ParseError", "TypeError", "QueryFailed"}

(* The classes whose advice is to repair the query, or to roll back. *)
FixTheQuery == {"WrongTxType", "ParseError", "TypeError"}

(* After an error of this class, of this call. *)
on_upstream_unavailable(call) == {call}

on_error(class, call) ==
  CASE class \in {"SessionUnknown", "SessionExpired"} -> Plain({"start_session"})
    [] class = "SchemaNotRead"        -> On({"get_schema"}, {call[2]})
    [] class = "TxAlreadyOpen"        -> Plain({"query", "commit", "rollback"})
    [] class = "NoTxOpen"             -> On(Opens \cup {"read_once"}, Databases)
    [] class = "TxIsRead"             -> Plain({"rollback"})
    [] class \in FixTheQuery          -> Plain({"query", "rollback"})
    [] class = "QueryFailed"          -> On(Opens \cup {"get_schema"}, Databases)
    [] class \in {"WriteFailed", "Timeout", "IdleTimeout", "Unclassified"}
                                      -> On(Opens, Databases)
    [] class = "CommitFailed"         -> On({"open_write", "open_schema"}, Databases)
    [] class = "UnknownDatabase"      -> Plain({"list_databases"})
    [] class = "UpstreamUnavailable"  -> on_upstream_unavailable(call)
    [] class \in {"ConfirmationRequired", "ResultLimitExceeded", "TransientConflict"}
                                      -> {call}
=============================================================================
