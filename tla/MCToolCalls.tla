----------------------------- MODULE MCToolCalls -----------------------------
EXTENDS ToolCalls, TLC

Symmetry == Permutations(Call) \cup Permutations(Session)

AllTools == Tools

(* A guard kept across two requests, a sweep and a refusal; see MigrateTools *)
(* and DeleteTools for the calls that can wait for themselves.               *)
LiveTools == {"get_schema", "open", "checkpoint"}

OwnedTxTools == {"get_schema", "open", "with_owned_tx"}
CommitTools  == {"get_schema", "open", "commit"}
DeleteTools  == {"get_schema", "open", "delete_database"}
MigrateTools == {"get_schema", "open", "migrate"}
=============================================================================
