---------------------------- MODULE AnswersProofs ----------------------------
(***************************************************************************)
(* Proofs about Answers for any number of databases, any result cap and    *)
(* any number of rows and faults.                                          *)
(***************************************************************************)
EXTENDS Answers, TLAPS

-----------------------------------------------------------------------------
(* Errors of TypeDB and what the classifier makes of them. *)

ServerClasses ==
  {"ParseError", "TypeError", "QueryFailed", "WriteFailed", "CommitFailed", "Timeout",
   "UnknownDatabase", "IdleTimeout", "TransientConflict", "UpstreamUnavailable",
   "WrongTxType", "TxIsRead", "Unclassified"}

LEMMA ServerClass ==
    ASSUME NEW top, NEW stack
    PROVE  classify_typedb_error(top, stack) \in ServerClasses
BY DEF classify_typedb_error, BySpecificCode, ByFamily, ByTopCode, ServerClasses

LEMMA DriverClass ==
    ASSUME NEW e
    PROVE  classify_driver_error(e) \in ServerClasses
BY ServerClass DEF classify_driver_error, ServerClasses

(* An error after which the session keeps no transaction. *)
Deadly(e) == ~Retriable(classify_driver_error(e))

LEMMA DeadlyServer ==
    ASSUME NEW top, NEW stack,
           \/ Holds(stack, PipelineMarkers) \/ Holds(stack, CommitMarkers)
           \/ <<"TSV", 12>> \in stack \/ <<"TSV", 13>> \in stack
           \/ /\ ~Holds(stack, WrongKind) /\ <<"TSV", 2>> \notin stack /\ <<"TSV", 7>> \notin stack
              /\ \/ Holds(stack, SchemaMarkers) \/ Holds(stack, PlanMarkers)
                 \/ ~HoldsFamily(stack, {"TQL", "INF", "QUA"})
    PROVE  Deadly(Server(top, stack))
<1>1. classify_driver_error(Server(top, stack)) = classify_typedb_error(top, stack)
  BY DEF classify_driver_error, Server
<1>2. HoldsFamily(stack, {"TQL"}) \/ HoldsFamily(stack, {"INF", "QUA"}) =>
        HoldsFamily(stack, {"TQL", "INF", "QUA"})
  BY DEF HoldsFamily
<1>3. ByTopCode(top) \in {"Timeout", "UnknownDatabase", "UpstreamUnavailable", "Unclassified"}
  BY DEF ByTopCode
<1>4. classify_typedb_error(top, stack) \in
        {"WriteFailed", "CommitFailed", "IdleTimeout", "TransientConflict", "QueryFailed",
         "Timeout", "UnknownDatabase", "UpstreamUnavailable", "Unclassified"}
  BY <1>2, <1>3 DEF classify_typedb_error, BySpecificCode, ByFamily
<1>5. QED
  BY <1>1, <1>4 DEF Deadly, Retriable

LEMMA DeadlyDriver == Deadly(Other) /\ Deadly(Closed)
BY DEF Deadly, Other, Closed, classify_driver_error, Retriable

LEMMA AbortedAreDeadly ==
    ASSUME NEW kind, NEW f \in Aborted(kind)
    PROVE  Deadly(f.error)
<1>1. PICK c \in Causes :
         \/ f = Stage(<<"WEX", 1>>,
                      c \cup {<<"WEX", 1>>, <<"PEX", 6>>, <<"QEX", 14>>} \cup Failed, TRUE)
         \/ f = Stage(<<"QEX", 3>>, c \cup {<<"QEX", 3>>, <<"TSV", 10>>}, TRUE)
  BY DEF Aborted
<1>2. CASE f = Stage(<<"WEX", 1>>,
                     c \cup {<<"WEX", 1>>, <<"PEX", 6>>, <<"QEX", 14>>} \cup Failed, TRUE)
  <2>1. Holds(c \cup {<<"WEX", 1>>, <<"PEX", 6>>, <<"QEX", 14>>} \cup Failed, PipelineMarkers)
    BY DEF Holds, PipelineMarkers
  <2>2. QED
    BY <1>2, <2>1, DeadlyServer DEF Stage
<1>3. CASE f = Stage(<<"QEX", 3>>, c \cup {<<"QEX", 3>>, <<"TSV", 10>>}, TRUE)
  <2> DEFINE stack == c \cup {<<"QEX", 3>>, <<"TSV", 10>>}
  <2>1. Holds(stack, SchemaMarkers)
    BY DEF Holds, SchemaMarkers
  <2>2. \A x \in c : x \in {<<"CNT", 6>>, <<"DVL", 7>>, <<"INF", 2>>, <<"QUA", 1>>, <<"COW", 5>>}
    BY DEF Causes
  <2>3. ~Holds(stack, WrongKind) /\ <<"TSV", 2>> \notin stack /\ <<"TSV", 7>> \notin stack
    BY <2>2 DEF Holds, WrongKind
  <2>4. QED
    BY <1>3, <2>1, <2>3, DeadlyServer DEF Stage
<1>4. QED
  BY <1>1, <1>2, <1>3

LEMMA InterruptedAreDeadly ==
    ASSUME NEW f \in Interrupted
    PROVE  Deadly(f.error)
<1>1. CASE \E k \in BOOLEAN : f = Stage(<<"REP", 27>>, {<<"REP", 27>>, <<"QEX", 8>>} \cup Failed, k)
  <2> DEFINE stack == {<<"REP", 27>>, <<"QEX", 8>>} \cup Failed
  <2>1. ~Holds(stack, WrongKind) /\ <<"TSV", 2>> \notin stack /\ <<"TSV", 7>> \notin stack
    BY DEF Holds, WrongKind, Failed, Hsr16
  <2>2. Holds(stack, PlanMarkers)
    BY DEF Holds, PlanMarkers
  <2>3. QED
    BY <1>1, <2>1, <2>2, DeadlyServer DEF Stage
<1>2. CASE \E k \in BOOLEAN : f = Stage(<<"NEW", 1>>, {<<"NEW", 1>>, Hsr16}, k)
  <2> DEFINE stack == {<<"NEW", 1>>, Hsr16}
  <2>1. ~Holds(stack, WrongKind) /\ <<"TSV", 2>> \notin stack /\ <<"TSV", 7>> \notin stack
    BY DEF Holds, WrongKind, Hsr16
  <2>2. ~HoldsFamily(stack, {"TQL", "INF", "QUA"})
    BY DEF HoldsFamily, Hsr16
  <2>3. QED
    BY <1>2, <2>1, <2>2, DeadlyServer DEF Stage
<1>3. CASE f = Stage(<<"TSV", 13>>, {<<"TSV", 13>>, Hsr16}, TRUE)
  BY <1>3, DeadlyServer DEF Stage
<1>4. CASE f = Stage(<<"TXN", 1>>, {<<"TXN", 1>>}, TRUE)
  <2>1. ~Holds({<<"TXN", 1>>}, WrongKind)
    BY DEF Holds, WrongKind
  <2>2. ~HoldsFamily({<<"TXN", 1>>}, {"TQL", "INF", "QUA"})
    BY DEF HoldsFamily
  <2>3. QED
    BY <1>4, <2>1, <2>2, DeadlyServer DEF Stage
<1>5. CASE f = [error |-> Other, kills |-> TRUE]
  BY <1>5, DeadlyDriver
<1>6. QED
  BY <1>1, <1>2, <1>3, <1>4, <1>5 DEF Interrupted

(* The failures that end the transaction are those of Aborted and of        *)
(* Interrupted; what TypeDB says of a transaction that is gone repeats them. *)
LEMMA KillersAreDeadly ==
    ASSUME NEW kind, NEW f \in QueryFailures(kind), f.kills
    PROVE  Deadly(f.error)
<1>1. f \notin Rejected(kind)
  BY DEF Rejected, Stage
<1>2. QED
  BY <1>1, AbortedAreDeadly, InterruptedAreDeadly DEF QueryFailures

LEMMA GoneAreDeadly ==
    ASSUME NEW error, Deadly(error), NEW e \in Gone(error)
    PROVE  Deadly(e)
<1>1. Deadly(Server(<<"TSV", 12>>, {<<"TSV", 12>>, Hsr16}))
  BY DeadlyServer
<1>2. QED
  BY <1>1, DeadlyDriver DEF Gone

LEMMA RequestsAreDeadly ==
    ASSUME NEW e, e \in RequestFailures \/ e = Missing \/ e = Exists
    PROVE  Deadly(e)
<1> DEFINE new == {<<"NEW", 1>>}
           missing == {<<"SRV", 3>>}
           exists == {<<"DBC", 2>>}
<1>1. Deadly(Server(<<"TSV", 13>>, {<<"TSV", 13>>, Hsr16}))
  BY DeadlyServer
<1>2. ~Holds(new, WrongKind) /\ ~Holds(missing, WrongKind) /\ ~Holds(exists, WrongKind)
  BY DEF Holds, WrongKind
<1>3. /\ ~HoldsFamily(new, {"TQL", "INF", "QUA"}) /\ ~HoldsFamily(missing, {"TQL", "INF", "QUA"})
      /\ ~HoldsFamily(exists, {"TQL", "INF", "QUA"})
  BY DEF HoldsFamily
<1>4. Deadly(Server(<<"NEW", 1>>, new)) /\ Deadly(Server(<<"SRV", 3>>, missing))
         /\ Deadly(Server(<<"DBC", 2>>, exists))
  BY <1>2, <1>3, DeadlyServer
<1>5. QED
  BY <1>1, <1>4, DeadlyDriver DEF RequestFailures, Missing, Exists

LEMMA CommitsAreDeadly ==
    ASSUME NEW e \in CommitFailures
    PROVE  Deadly(e)
<1>1. CASE \E c \in Causes :
             e = Server(<<"DCT", 3>>, c \cup {<<"DCT", 3>>, <<"TSV", 5>>, <<"HSR", 18>>})
  <2>1. PICK c \in Causes :
          e = Server(<<"DCT", 3>>, c \cup {<<"DCT", 3>>, <<"TSV", 5>>, <<"HSR", 18>>})
    BY <1>1
  <2>2. Holds(c \cup {<<"DCT", 3>>, <<"TSV", 5>>, <<"HSR", 18>>}, CommitMarkers)
    BY DEF Holds, CommitMarkers
  <2>3. QED
    BY <2>1, <2>2, DeadlyServer
<1>2. CASE e \in RequestFailures
  BY <1>2, RequestsAreDeadly
<1>3. QED
  BY <1>1, <1>2 DEF CommitFailures, RequestFailures

-----------------------------------------------------------------------------
(* Types. *)

Failures == [error : DriverErrors, kills : BOOLEAN]

LEMMA StageType ==
    ASSUME NEW top \in Codes, NEW stack \in SUBSET Codes, NEW kills \in BOOLEAN
    PROVE  Stage(top, stack, kills) \in Failures
<1>1. Server(top, stack) \in DriverErrors
  BY DEF Server, DriverErrors
<1>2. QED
  BY <1>1 DEF Stage, Failures

LEMMA FailureType ==
    ASSUME NEW kind, NEW f \in Aborted(kind) \cup Interrupted
    PROVE  f \in Failures
<1>1. CASE f \in Aborted(kind)
  <2> DEFINE torn(c) == c \cup {<<"WEX", 1>>, <<"PEX", 6>>, <<"QEX", 14>>} \cup Failed
             half(c) == c \cup {<<"QEX", 3>>, <<"TSV", 10>>}
  <2>1. PICK c \in Causes : \/ f = Stage(<<"WEX", 1>>, torn(c), TRUE)
                            \/ f = Stage(<<"QEX", 3>>, half(c), TRUE)
    BY <1>1 DEF Aborted
  <2>2. c \subseteq Codes
    BY DEF Causes, Codes, Families
  <2>3. <<"WEX", 1>> \in Codes /\ <<"QEX", 3>> \in Codes
    BY DEF Codes, Families
  <2>4. torn(c) \in SUBSET Codes /\ half(c) \in SUBSET Codes
    BY <2>2 DEF Failed, Hsr16, Codes, Families
  <2> HIDE DEF torn, half
  <2>5. Stage(<<"WEX", 1>>, torn(c), TRUE) \in Failures
    BY <2>3, <2>4, StageType
  <2>6. Stage(<<"QEX", 3>>, half(c), TRUE) \in Failures
    BY <2>3, <2>4, StageType
  <2>7. QED
    BY <2>1, <2>5, <2>6
<1>2. CASE f \in Interrupted
  <2> DEFINE planning == {<<"REP", 27>>, <<"QEX", 8>>} \cup Failed
             new      == {<<"NEW", 1>>, Hsr16}
             conflict == {<<"TSV", 13>>, Hsr16}
             timeout  == {<<"TXN", 1>>}
             network  == [error |-> Other, kills |-> TRUE]
  <2>1. /\ <<"REP", 27>> \in Codes /\ <<"NEW", 1>> \in Codes
        /\ <<"TSV", 13>> \in Codes /\ <<"TXN", 1>> \in Codes
    BY DEF Codes, Families
  <2>2. /\ planning \in SUBSET Codes /\ new \in SUBSET Codes
        /\ conflict \in SUBSET Codes /\ timeout \in SUBSET Codes
    BY DEF Failed, Hsr16, Codes, Families
  <2>3. network \in Failures
    BY DEF Failures, Other, DriverErrors, Codes, Families
  <2>4. \/ \E k \in BOOLEAN : f = Stage(<<"REP", 27>>, planning, k)
        \/ \E k \in BOOLEAN : f = Stage(<<"NEW", 1>>, new, k)
        \/ f = Stage(<<"TSV", 13>>, conflict, TRUE)
        \/ f = Stage(<<"TXN", 1>>, timeout, TRUE)
        \/ f = network
    BY <1>2 DEF Interrupted
  <2> HIDE DEF planning, new, conflict, timeout, network
  <2>5. \A k \in BOOLEAN : /\ Stage(<<"REP", 27>>, planning, k) \in Failures
                           /\ Stage(<<"NEW", 1>>, new, k) \in Failures
    BY <2>1, <2>2, StageType
  <2>6. /\ Stage(<<"TSV", 13>>, conflict, TRUE) \in Failures
        /\ Stage(<<"TXN", 1>>, timeout, TRUE) \in Failures
    BY <2>1, <2>2, StageType
  <2>7. QED
    BY <2>3, <2>4, <2>5, <2>6
<1>3. QED
  BY <1>1, <1>2

LEMMA ServerClassesAreClasses ==
  ServerClasses \subseteq ErrorClasses \ {"ResultLimitExceeded", "TxAlreadyOpen"}
BY DEF ServerClasses, ErrorClasses

LEMMA ErrorMoves ==
    ASSUME NEW class \in ErrorClasses, NEW call \in Calls
    PROVE  on_error(class, call) \subseteq Calls
<1>1. call[2] \in Databases \cup {NoDb}
  BY DEF Calls
<1>2. \A tools \in SUBSET Tools, databases \in SUBSET (Databases \cup {NoDb}) :
        On(tools, databases) \subseteq Calls
  BY DEF On, Calls
<1>3. QED
  BY <1>1, <1>2
     DEF on_error, on_upstream_unavailable, Plain, ErrorClasses, FixTheQuery, Tools, Opens

LEMMA OpenTools == \A kind \in Kinds : open(kind) \in Opens /\ open(kind) \in Tools
BY DEF Kinds, open, Opens, Tools

-----------------------------------------------------------------------------
(* The invariant. *)

(* What the agent's slot, TypeDB's side of it and the answer being read     *)
(* have to do with each other.                                              *)
UpstreamInv ==
  /\ tx # NoTx => upstream.state \in {"open", "lost"}
  /\ upstream.state = "lost" => Deadly(upstream.cause)

StreamInv ==
  /\ stream.kills => Deadly(stream.end)
  /\ stream # NoStream =>
       /\ stream.kept + stream.left = stream.sent /\ stream.kept <= Cap
       /\ tx = NoTx => stream.call[1] = "read_once"
       /\ tx # NoTx => stream.call = <<"query", NoDb>>

StateOK ==
  /\ sid \in {"unknown", "live", "expired"}
  /\ seen \subseteq Databases /\ exist \subseteq Databases /\ reserved \subseteq Databases
  /\ tx \in Txs
  /\ upstream \in [state : {"none", "open", "lost", "aborted"},
                   cause : DriverErrors \cup {NoError}]
  /\ stream \in [call : Calls \cup {<<"none", NoDb>>}, kept : Nat, sent : Nat, left : Nat,
                 end : DriverErrors \cup {NoError}, kills : BOOLEAN]
  /\ faults \in 0 .. MaxFaults

ReplyInv == reply \in Replies /\ FlagIsTrue /\ AdviceFits /\ CapIsExact

IInv == StateOK /\ UpstreamInv /\ StreamInv /\ ReplyInv

LEMMA SlotKind ==
    ASSUME StateOK
    PROVE  /\ tx = NoTx => tx.kind = "none"
           /\ tx # NoTx => tx.kind \in Kinds /\ tx.kind # "none" /\ tx.db \in Databases
           /\ tx.kind \in Held
BY DEF StateOK, Txs, NoTx, Kinds, Held

LEMMA Spending ==
    ASSUME StateOK, NEW call, NEW n \in Nat, Spend(call, n)
    PROVE  faults' \in 0 .. MaxFaults
BY BoundsOK DEF StateOK, Spend

-----------------------------------------------------------------------------
(* Answers. A move fits a session that holds a transaction of this kind. *)

Fits(move, held) ==
  /\ move[1] \in {"query", "commit"} => held # "none"
  /\ move[1] = "checkpoint" => held \in {"write", "schema"}
  /\ move[1] \in Opens \cup {"read_once"} => held = "none"

LEMMA ReplyKept ==
    ASSUME ReplyInv, reply' = reply
    PROVE  ReplyInv'
BY DEF ReplyInv, FlagIsTrue, AdviceFits, CapIsExact, OnlyRetry

LEMMA OkReply ==
    ASSUME ReplyInv, NEW call \in Calls, NEW moves \in SUBSET Calls, NEW held \in Held,
           call[1] \in OwnTools => \A m \in moves : Fits(m, held),
           reply' = Ok(call, moves, held)
    PROVE  ReplyInv'
<1>1. /\ reply'.call = call /\ reply'.ok = TRUE /\ reply'.class = "none"
      /\ reply'.moves = moves /\ reply'.held = held /\ reply'.kept = 0 /\ reply'.sent = 0
  BY DEF Ok
<1>2. reply' \in Replies
  BY DEF Ok, Replies, ReplyInv
<1>3. FlagIsTrue'
  BY <1>1 DEF FlagIsTrue
<1>4. AdviceFits'
  BY <1>1 DEF AdviceFits, Fits
<1>5. CapIsExact'
  BY <1>1, BoundsOK DEF CapIsExact
<1>6. QED
  BY <1>2, <1>3, <1>4, <1>5 DEF ReplyInv

LEMMA ErrReply ==
    ASSUME ReplyInv, NEW call \in Calls, NEW class \in ErrorClasses \ {"ResultLimitExceeded"},
           NEW moves \in SUBSET Calls, NEW held \in Held,
           call[1] \in OwnTools =>
             /\ \/ moves = {call} /\ call[1] \in Opens
                \/ Retriable(class) <=> held # "none"
             /\ moves = {call} \/ \A m \in moves : Fits(m, held),
           reply' = Err(call, class, moves, held)
    PROVE  ReplyInv'
<1>1. /\ reply'.call = call /\ reply'.ok = FALSE /\ reply'.class = class
      /\ reply'.moves = moves /\ reply'.held = held /\ reply'.kept = 0 /\ reply'.sent = 0
  BY DEF Err
<1>2. reply' \in Replies
  BY DEF Err, Replies, ReplyInv
<1>3. FlagIsTrue'
  <2>1. /\ explain_query_error(class) = "open" => Retriable(class)
        /\ explain_query_error(class) = "closed" => ~Retriable(class)
    BY DEF explain_query_error, Retriable
  <2>2. "query" \in OwnTools /\ "query" \notin Opens
    BY DEF OwnTools, Opens
  <2>3. QED
    BY <1>1, <2>1, <2>2 DEF FlagIsTrue, OnlyRetry
<1>4. AdviceFits'
  BY <1>1 DEF AdviceFits, Fits, OnlyRetry
<1>5. CapIsExact'
  BY <1>1 DEF CapIsExact
<1>6. QED
  BY <1>2, <1>3, <1>4, <1>5 DEF ReplyInv

(* The advice on_error gives fits, provided the flag is right. *)
LEMMA ErrorFits ==
    ASSUME NEW class \in ErrorClasses, NEW call \in Calls, NEW held \in Held,
           Retriable(class) <=> held # "none"
    PROVE  on_error(class, call) = {call} \/ \A m \in on_error(class, call) : Fits(m, held)
<1>1. CASE class \in {"UpstreamUnavailable", "ConfirmationRequired", "ResultLimitExceeded",
                      "TransientConflict"}
  BY <1>1 DEF on_error, on_upstream_unavailable, FixTheQuery
<1>2. CASE class \in {"SessionUnknown", "SessionExpired", "SchemaNotRead", "TxIsRead",
                      "UnknownDatabase"}
  <2>1. \A m \in on_error(class, call) :
          m[1] \in {"start_session", "get_schema", "rollback", "list_databases"}
    BY <1>2 DEF on_error, On, Plain, FixTheQuery
  <2>2. QED
    BY <2>1 DEF Fits, Opens
<1>3. CASE class \in {"TxAlreadyOpen"} \cup FixTheQuery
  <2>1. held # "none"
    BY <1>3 DEF Retriable, FixTheQuery
  <2>2. \A m \in on_error(class, call) : m[1] \in {"query", "commit", "rollback"}
    BY <1>3 DEF on_error, On, Plain, FixTheQuery
  <2>3. QED
    BY <2>1, <2>2 DEF Fits, Opens
<1>4. CASE class \in {"NoTxOpen", "QueryFailed", "WriteFailed", "Timeout", "IdleTimeout",
                      "Unclassified", "CommitFailed"}
  <2>1. held = "none"
    BY <1>4 DEF Retriable
  <2>2. \A m \in on_error(class, call) : m[1] \in Opens \cup {"read_once", "get_schema"}
    BY <1>4 DEF on_error, On, Plain, FixTheQuery, Opens
  <2>3. QED
    BY <2>1, <2>2 DEF Fits, Opens
<1>5. QED
  BY <1>1, <1>2, <1>3, <1>4 DEF ErrorClasses, FixTheQuery

LEMMA FailReply ==
    ASSUME ReplyInv, NEW call \in Calls, NEW class \in ErrorClasses \ {"ResultLimitExceeded"},
           NEW held \in Held,
           call[1] \in OwnTools => (Retriable(class) <=> held # "none"),
           reply' = Fail(call, class, held)
    PROVE  ReplyInv'
<1>1. on_error(class, call) \in SUBSET Calls
  BY ErrorMoves
<1>2. call[1] \in OwnTools =>
        \/ on_error(class, call) = {call}
        \/ \A m \in on_error(class, call) : Fits(m, held)
  BY ErrorFits
<1>3. QED
  BY <1>1, <1>2, ErrReply DEF Fail

(* An error of TypeDB that leaves the session without a transaction. *)
LEMMA DeadReply ==
    ASSUME ReplyInv, NEW call \in Calls, NEW e, Deadly(e),
           reply' = Fail(call, classify_driver_error(e), "none")
    PROVE  ReplyInv'
BY DriverClass, ServerClassesAreClasses, FailReply DEF Deadly, Held

(* A tool that does not address the session's transaction. *)
LEMMA OtherReply ==
    ASSUME ReplyInv, NEW call \in Calls, call[1] \notin OwnTools, NEW held \in Held, NEW e,
           reply' = Fail(call, classify_driver_error(e), held)
    PROVE  ReplyInv'
BY DriverClass, ServerClassesAreClasses, FailReply

LEMMA BusyReply ==
    ASSUME ReplyInv, NEW call \in Calls, NEW held \in Held,
           call[1] \in OwnTools => call[1] \in Opens,
           reply' = Busy(call, held)
    PROVE  ReplyInv'
<1>1. "Unclassified" \in ErrorClasses \ {"ResultLimitExceeded"}
  BY DEF ErrorClasses
<1>2. QED
  BY <1>1, ErrReply DEF Busy, on_upstream_unavailable

LEMMA CallsMade ==
  \A m \in Tools \X (Databases \cup {NoDb}) : m \in Calls
BY DEF Calls

LEMMA OkMoves ==
  /\ \A names \in SUBSET Databases :
       after_start_session(names) \in SUBSET Calls /\ after_list_databases(names) \in SUBSET Calls
  /\ \A d \in Databases :
       after_create_database(d) \in SUBSET Calls /\ after_get_schema(d) \in SUBSET Calls
  /\ \A kind \in Kinds : after_open(kind) \in SUBSET Calls /\ after_query_ok(kind) \in SUBSET Calls
  /\ \A kind \in Kinds, d \in Databases :
       after_checkpoint_reopen_failed(kind, d) \in SUBSET Calls
  /\ after_start_session_partial \in SUBSET Calls /\ after_delete_database \in SUBSET Calls
  /\ after_checkpoint_ok \in SUBSET Calls /\ after_rollback_ok \in SUBSET Calls
  /\ after_commit_ok \in SUBSET Calls /\ after_read_once_ok \in SUBSET Calls
<1>1. \A tools \in SUBSET Tools, databases \in SUBSET (Databases \cup {NoDb}) :
        On(tools, databases) \in SUBSET Calls
  BY DEF On, Calls
<1>2. \A tools \in SUBSET Tools : Plain(tools) \in SUBSET Calls
  BY <1>1 DEF Plain
<1>3. /\ Opens \cup {"read_once"} \in SUBSET Tools /\ {"query", "rollback"} \in SUBSET Tools
      /\ Opens \cup {"read_once", "get_schema"} \in SUBSET Tools
      /\ {"query", "checkpoint", "commit", "rollback"} \in SUBSET Tools
      /\ {"query", "checkpoint", "commit"} \in SUBSET Tools
      /\ {"get_schema"} \in SUBSET Tools /\ {"list_databases"} \in SUBSET Tools
      /\ {"get_schema", "open_schema"} \in SUBSET Tools
      /\ \A kind \in Kinds : {open(kind), "read_once"} \in SUBSET Tools
  BY OpenTools DEF Tools, Opens
<1>4. \A names \in SUBSET Databases :
        after_start_session(names) \in SUBSET Calls /\ after_list_databases(names) \in SUBSET Calls
  BY <1>1, <1>3 DEF after_start_session, after_list_databases
<1>5. \A d \in Databases :
        after_create_database(d) \in SUBSET Calls /\ after_get_schema(d) \in SUBSET Calls
  BY <1>1, <1>2, <1>3 DEF after_create_database, after_get_schema
<1>6. \A kind \in Kinds :
        after_open(kind) \in SUBSET Calls /\ after_query_ok(kind) \in SUBSET Calls
  BY <1>2, <1>3 DEF after_open, after_query_ok
<1>7. \A kind \in Kinds, d \in Databases :
        after_checkpoint_reopen_failed(kind, d) \in SUBSET Calls
  BY <1>1, <1>3 DEF after_checkpoint_reopen_failed
<1>8. /\ after_start_session_partial \in SUBSET Calls /\ after_delete_database \in SUBSET Calls
      /\ after_checkpoint_ok \in SUBSET Calls
  BY <1>2, <1>3 DEF after_start_session_partial, after_delete_database, after_checkpoint_ok
<1>9. after_rollback_ok \in SUBSET Calls
  BY <1>1, <1>3 DEF after_rollback_ok
<1>10. QED
  BY <1>4, <1>5, <1>6, <1>7, <1>8, <1>9 DEF after_commit_ok, after_read_once_ok

LEMMA OkFits ==
  /\ \A kind \in Kinds : \A m \in after_open(kind) : Fits(m, kind)
  /\ \A held \in {"write", "schema"} : \A m \in after_checkpoint_ok : Fits(m, held)
  /\ \A m \in after_rollback_ok : Fits(m, "none")
  /\ \A kind, d : \A m \in after_checkpoint_reopen_failed(kind, d) : Fits(m, "none")
<1>1. ASSUME NEW kind \in Kinds, NEW m \in after_open(kind)
      PROVE  Fits(m, kind)
  <2>1. /\ m[1] \in {"query", "checkpoint", "commit", "rollback"}
        /\ kind = "read" => m[1] \in {"query", "rollback"}
    BY <1>1 DEF after_open, Plain, On
  <2>2. QED
    BY <2>1 DEF Fits, Opens, Kinds
<1>2. ASSUME NEW held \in {"write", "schema"}, NEW m \in after_checkpoint_ok
      PROVE  Fits(m, held)
  <2>1. m[1] \in {"query", "checkpoint", "commit"}
    BY <1>2 DEF after_checkpoint_ok, Plain, On
  <2>2. QED
    BY <2>1 DEF Fits, Opens
<1>3. ASSUME NEW m \in after_rollback_ok
      PROVE  Fits(m, "none")
  <2>1. m[1] \in Opens \cup {"read_once", "get_schema"}
    BY <1>3 DEF after_rollback_ok, On
  <2>2. QED
    BY <2>1 DEF Fits, Opens
<1>4. ASSUME NEW kind, NEW d, NEW m \in after_checkpoint_reopen_failed(kind, d)
      PROVE  Fits(m, "none")
  <2>1. m[1] \in Opens \cup {"read_once"}
    BY <1>4 DEF after_checkpoint_reopen_failed, On, open, Opens
  <2>2. QED
    BY <2>1 DEF Fits, Opens
<1>5. QED
  BY <1>1, <1>2, <1>3, <1>4

-----------------------------------------------------------------------------
(* Steps that leave the slot alone, and steps that empty it. *)

StateInv == StateOK /\ UpstreamInv /\ StreamInv

SmallTypes ==
  /\ sid \in {"unknown", "live", "expired"}
  /\ seen \subseteq Databases /\ exist \subseteq Databases /\ reserved \subseteq Databases
  /\ faults \in 0 .. MaxFaults

LEMMA SlotKept ==
    ASSUME StateInv, UNCHANGED <<tx, upstream, stream>>, SmallTypes'
    PROVE  StateInv'
BY DEF StateInv, StateOK, SmallTypes, UpstreamInv, StreamInv, NoTx, NoStream

LEMMA NothingTypes ==
  /\ NoTx \in Txs /\ NoTx.db = NoDb
  /\ NoUpstream \in [state : {"none", "open", "lost", "aborted"},
                     cause : DriverErrors \cup {NoError}]
  /\ NoUpstream.state = "none"
  /\ NoStream \in [call : Calls \cup {<<"none", NoDb>>}, kept : Nat, sent : Nat, left : Nat,
                   end : DriverErrors \cup {NoError}, kills : BOOLEAN]
  /\ NoStream.kills = FALSE
BY DEF NoTx, Txs, NoUpstream, NoStream

LEMMA SlotEmptied ==
    ASSUME StateInv, stream' = NoStream, tx' = NoTx, upstream' = NoUpstream, SmallTypes'
    PROVE  StateInv'
<1>1. StateOK'
  BY NothingTypes DEF StateInv, StateOK, SmallTypes
<1>2. UpstreamInv' /\ StreamInv'
  BY NothingTypes DEF UpstreamInv, StreamInv
<1>3. QED
  BY <1>1, <1>2 DEF StateInv

(* What an error of TypeDB does to the slot, in do_query. *)
LEMMA JudgeStep ==
    ASSUME IInv, tx # NoTx, NEW f, f.kills => Deadly(f.error),
           Judge(<<"query", NoDb>>, f), stream' = NoStream, SmallTypes'
    PROVE  StateInv' /\ ReplyInv'
<1> DEFINE class == classify_driver_error(f.error)
           call  == <<"query", NoDb>>
<1>1. class \in ErrorClasses \ {"ResultLimitExceeded"}
  BY DriverClass, ServerClassesAreClasses
<1>2. call \in Calls
  BY DEF Calls, Tools
<1>3. StateInv /\ StateOK /\ UpstreamInv /\ ReplyInv
  BY DEF IInv, StateInv
<1>4. CASE Retriable(class)
  <2>1. tx' = tx /\ upstream' = upstream /\ reply' = Fail(call, class, tx.kind)
    BY <1>4 DEF Judge, Deadly
  <2>2. StateInv'
    BY <2>1, <1>3, NothingTypes
       DEF StateInv, StateOK, SmallTypes, UpstreamInv, StreamInv
  <2>3. tx.kind \in Held /\ tx.kind # "none"
    BY <1>3, SlotKind
  <2>4. ReplyInv'
    BY <2>1, <2>3, <1>1, <1>2, <1>3, <1>4, FailReply
  <2>5. QED
    BY <2>2, <2>4
<1>5. CASE ~Retriable(class)
  <2>1. tx' = NoTx /\ upstream' = NoUpstream /\ reply' = Fail(call, class, "none")
    BY <1>5 DEF Judge
  <2>2. StateInv'
    BY <2>1, <1>3, SlotEmptied
  <2>3. ReplyInv'
    BY <2>1, <1>2, <1>3, <1>5, DeadReply DEF Deadly
  <2>4. QED
    BY <2>2, <2>3
<1>6. QED
  BY <1>4, <1>5

(* An answer that begins to arrive. *)
LEMMA StreamsStep ==
    ASSUME IInv, NEW call \in Calls, NEW kind, Streams(call, kind),
           tx = NoTx => call[1] = "read_once", tx # NoTx => call = <<"query", NoDb>>,
           UNCHANGED <<sid, seen, tx, upstream, exist, reserved, reply>>
    PROVE  StateInv' /\ ReplyInv'
<1>1. ReplyInv /\ StateOK /\ UpstreamInv
  BY DEF IInv
<1>2. ReplyInv'
  BY <1>1, ReplyKept
<1>3. PICK n \in 0 .. MaxRows :
        \/ /\ Spend(call, IF n > Cap THEN 1 ELSE 0)
           /\ stream' = [call |-> call, kept |-> 0, sent |-> n, left |-> n,
                         end |-> NoError, kills |-> FALSE]
        \/ \E f \in Aborted(kind) \cup Interrupted :
             /\ Spend(call, 1)
             /\ stream' = [call |-> call, kept |-> 0, sent |-> n, left |-> n,
                           end |-> f.error, kills |-> f.kills]
  BY DEF Streams
<1>4. n \in Nat /\ Cap \in Nat
  BY BoundsOK
<1>5. faults' \in 0 .. MaxFaults
  BY <1>1, <1>3, <1>4, Spending
<1> DEFINE Begun(st) ==
             /\ st \in [call : Calls \cup {<<"none", NoDb>>}, kept : Nat, sent : Nat,
                        left : Nat, end : DriverErrors \cup {NoError}, kills : BOOLEAN]
             /\ st.call = call /\ st.kept = 0 /\ st.sent = n /\ st.left = n
             /\ st.kills => Deadly(st.end)
<1>6. Begun(stream')
  <2>1. CASE stream' = [call |-> call, kept |-> 0, sent |-> n, left |-> n,
                        end |-> NoError, kills |-> FALSE]
    BY <2>1, <1>4
  <2>2. ASSUME NEW f \in Aborted(kind) \cup Interrupted,
               stream' = [call |-> call, kept |-> 0, sent |-> n, left |-> n,
                          end |-> f.error, kills |-> f.kills]
        PROVE  Begun(stream')
    <3>1. f.error \in DriverErrors /\ f.kills \in BOOLEAN
      BY FailureType DEF Failures
    <3>2. Deadly(f.error)
      BY AbortedAreDeadly, InterruptedAreDeadly
    <3>3. QED
      BY <2>2, <3>1, <3>2, <1>4
  <2>3. QED
    BY <2>1, <2>2, <1>3
<1>7. StateOK'
  BY <1>1, <1>5, <1>6 DEF StateOK
<1>8. UpstreamInv'
  BY <1>1 DEF UpstreamInv, NoTx
<1>9. StreamInv'
  BY <1>4, <1>6 DEF StreamInv, NoTx
<1>10. QED
  BY <1>2, <1>7, <1>8, <1>9 DEF StateInv

-----------------------------------------------------------------------------
(* The calls of the agent. *)

LEMMA Parts ==
    ASSUME IInv
    PROVE  /\ StateInv /\ StateOK /\ UpstreamInv /\ StreamInv /\ ReplyInv
           /\ tx.kind \in Held /\ SmallTypes
BY SlotKind DEF IInv, StateInv, StateOK, SmallTypes

LEMMA Spends ==
    ASSUME IInv
    PROVE  /\ \A call : Spend(call, 0) => faults' \in 0 .. MaxFaults
           /\ \A call : Spend(call, 1) => faults' \in 0 .. MaxFaults
           /\ \A call, e : Spend(call, OpenCost(e)) => faults' \in 0 .. MaxFaults
BY Parts, Spending DEF OpenCost

LEMMA StartSessionStep ==
    ASSUME IInv, StartSession
    PROVE  StateInv' /\ ReplyInv'
<1> DEFINE call == <<"start_session", NoDb>>
<1>1. call \in Calls /\ call[1] \notin OwnTools
  BY DEF Calls, Tools, OwnTools, Opens
<1>2. faults' \in 0 .. MaxFaults
  BY Spends DEF StartSession
<1>3. SmallTypes'
  BY Parts, <1>2 DEF StartSession, SmallTypes
<1>4. StateInv'
  BY Parts, <1>3, SlotEmptied DEF StartSession
<1>5. "none" \in Held
  BY DEF Held
<1>6. CASE reply' = Ok(call, after_start_session(exist), "none")
  <2>1. after_start_session(exist) \in SUBSET Calls
    BY Parts, OkMoves DEF SmallTypes
  <2>2. QED
    BY <1>1, <1>4, <1>5, <1>6, <2>1, Parts, OkReply
<1>7. ASSUME NEW e,
             reply' = Err(call, classify_driver_error(e), after_start_session_partial, "none")
      PROVE  ReplyInv'
  BY <1>1, <1>5, <1>7, Parts, OkMoves, DriverClass, ServerClassesAreClasses, ErrReply
<1>8. QED
  BY <1>4, <1>6, <1>7 DEF StartSession

LEMMA UnresolvedStep ==
    ASSUME IInv, NEW call \in Calls, Unresolved(call)
    PROVE  StateInv' /\ ReplyInv'
<1>1. SmallTypes'
  BY Parts, Spends DEF Unresolved, SmallTypes
<1>2. StateInv'
  BY Parts, <1>1, SlotEmptied DEF Unresolved
<1>3. ASSUME NEW class \in {"SessionExpired", "SessionUnknown"},
             reply' = Fail(call, class, "none")
      PROVE  ReplyInv'
  <2>1. class \in ErrorClasses \ {"ResultLimitExceeded"} /\ ~Retriable(class)
    BY DEF ErrorClasses, Retriable
  <2>2. QED
    BY <1>3, <2>1, Parts, FailReply DEF Held
<1>4. QED
  BY <1>2, <1>3 DEF Unresolved

LEMMA ListDatabasesStep ==
    ASSUME IInv, NEW tool \in {"list_databases", "server_info"}, ListDatabases(tool)
    PROVE  StateInv' /\ ReplyInv'
<1> DEFINE call == <<tool, NoDb>>
<1>1. call \in Calls /\ call[1] \notin OwnTools
  BY DEF Calls, Tools, OwnTools, Opens
<1>2. SmallTypes'
  BY Parts, Spends DEF ListDatabases, SmallTypes
<1>3. StateInv'
  BY Parts, <1>2, SlotKept DEF ListDatabases
<1>4. ASSUME NEW names \in SUBSET Databases,
             reply' = Ok(call, after_list_databases(names), tx.kind)
      PROVE  ReplyInv'
  BY <1>1, <1>4, Parts, OkMoves, OkReply
<1>5. ASSUME NEW e, reply' = Err(call, classify_driver_error(e), on_upstream_unavailable(call),
                                 tx.kind)
      PROVE  ReplyInv'
  BY <1>1, <1>5, Parts, DriverClass, ServerClassesAreClasses, ErrReply
     DEF on_upstream_unavailable
<1>6. (IF tool = "list_databases" THEN exist ELSE Databases) \in SUBSET Databases
  BY Parts DEF SmallTypes
<1>7. QED
  BY <1>3, <1>4, <1>5, <1>6 DEF ListDatabases

LEMMA GetSchemaStep ==
    ASSUME IInv, NEW d \in Databases, GetSchema(d)
    PROVE  StateInv' /\ ReplyInv'
<1> DEFINE call == <<"get_schema", d>>
<1>1. call \in Calls /\ call[1] \notin OwnTools
  BY DEF Calls, Tools, OwnTools, Opens
<1>2. SmallTypes'
  BY Parts, Spends DEF GetSchema, SmallTypes
<1>3. StateInv'
  BY Parts, <1>2, SlotKept DEF GetSchema
<1>4. CASE reply' = Ok(call, after_get_schema(d), tx.kind)
  BY <1>1, <1>3, <1>4, Parts, OkMoves, OkReply
<1>5. ASSUME NEW e, reply' = Fail(call, classify_driver_error(e), tx.kind)
      PROVE  ReplyInv'
  BY <1>1, <1>5, Parts, OtherReply
<1>6. QED
  BY <1>3, <1>4, <1>5 DEF GetSchema

(* The refusals of the slot and of the gate. *)
LEMMA RefusedReply ==
    ASSUME IInv, NEW call \in Calls,
           \/ tx # NoTx /\ reply' = Fail(call, "TxAlreadyOpen", tx.kind)
           \/ reply' = Fail(call, "SchemaNotRead", "none")
           \/ reply' = Fail(call, "NoTxOpen", "none")
           \/ tx.kind = "read" /\ reply' = Fail(call, "TxIsRead", "read")
    PROVE  ReplyInv'
<1>1. /\ Retriable("TxAlreadyOpen") /\ Retriable("TxIsRead")
      /\ ~Retriable("SchemaNotRead") /\ ~Retriable("NoTxOpen")
  BY DEF Retriable
<1>2. \A class \in {"TxAlreadyOpen", "TxIsRead", "SchemaNotRead", "NoTxOpen"} :
        class \in ErrorClasses \ {"ResultLimitExceeded"}
  BY DEF ErrorClasses
<1>3. "none" \in Held /\ "read" \in Held
  BY DEF Held, Kinds
<1>4. tx # NoTx => tx.kind # "none"
  BY Parts, SlotKind
<1>5. QED
  BY <1>1, <1>2, <1>3, <1>4, Parts, FailReply

LEMMA OpenErrorsAreDeadly ==
    ASSUME NEW d, NEW e \in OpenErrors(d)
    PROVE  Deadly(e)
BY RequestsAreDeadly DEF OpenErrors

LEMMA OpenStep ==
    ASSUME IInv, NEW kind \in Kinds, NEW d \in Databases, Open(kind, d)
    PROVE  StateInv' /\ ReplyInv'
<1> DEFINE call == <<open(kind), d>>
<1>1. call \in Calls /\ call[1] \in Opens
  BY OpenTools DEF Calls
<1>2. SmallTypes'
  BY Parts, Spends DEF Open, SmallTypes
<1>3. CASE reply' = Busy(call, tx.kind) /\ UNCHANGED <<tx, upstream>>
  BY <1>1, <1>2, <1>3, Parts, SlotKept, BusyReply DEF Open
<1>4. CASE tx # NoTx /\ reply' = Fail(call, "TxAlreadyOpen", tx.kind) /\ UNCHANGED <<tx, upstream>>
  BY <1>1, <1>2, <1>4, Parts, SlotKept, RefusedReply DEF Open
<1>5. CASE reply' = Fail(call, "SchemaNotRead", "none") /\ UNCHANGED <<tx, upstream>>
  BY <1>1, <1>2, <1>5, Parts, SlotKept, RefusedReply DEF Open
<1>6. CASE tx' = [db |-> d, kind |-> kind] /\ upstream' = IsOpen
             /\ reply' = Ok(call, after_open(kind), kind)
  <2>1. tx' \in Txs /\ tx' # NoTx
    BY <1>6, DatabasesOK DEF Txs, NoTx
  <2>2. /\ upstream' \in [state : {"none", "open", "lost", "aborted"},
                          cause : DriverErrors \cup {NoError}]
        /\ upstream'.state = "open"
    BY <1>6 DEF IsOpen
  <2>3. stream' = NoStream /\ stream = NoStream
    BY DEF Open, Asks
  <2>4. StateInv'
    BY <1>2, <2>1, <2>2, <2>3, NothingTypes, Parts
       DEF StateInv, StateOK, SmallTypes, UpstreamInv, StreamInv
  <2>5. kind \in Held
    BY DEF Held
  <2>6. ReplyInv'
    BY <1>1, <1>6, <2>5, Parts, OkMoves, OkFits, OkReply
  <2>7. QED
    BY <2>4, <2>6
<1>7. ASSUME NEW e \in OpenErrors(d), reply' = Fail(call, classify_driver_error(e), "none"),
             UNCHANGED <<tx, upstream>>
      PROVE  StateInv' /\ ReplyInv'
  BY <1>1, <1>2, <1>7, Parts, SlotKept, OpenErrorsAreDeadly, DeadReply DEF Open
<1>8. QED
  BY <1>3, <1>4, <1>5, <1>6, <1>7 DEF Open

LEMMA QueryStep ==
    ASSUME IInv, Query
    PROVE  StateInv' /\ ReplyInv'
<1> DEFINE call == <<"query", NoDb>>
<1>1. call \in Calls
  BY DEF Calls, Tools
<1>2. stream = NoStream
  BY DEF Query, Asks
<1>3. CASE tx = NoTx /\ Spend(call, 0) /\ reply' = Fail(call, "NoTxOpen", "none")
             /\ UNCHANGED <<tx, upstream, stream>>
  <2>1. SmallTypes'
    BY <1>3, Parts, Spends DEF Query, SmallTypes
  <2>2. QED
    BY <1>1, <1>3, <2>1, Parts, SlotKept, RefusedReply
<1>4. ASSUME NEW f, NEW n \in {0, 1}, tx # NoTx, f.kills => Deadly(f.error), Spend(call, n),
             Judge(call, f), UNCHANGED stream
      PROVE  StateInv' /\ ReplyInv'
  <2>1. SmallTypes'
    BY <1>4, Parts, Spends DEF Query, SmallTypes
  <2>2. QED
    BY <1>2, <1>4, <2>1, JudgeStep
<1>5. CASE tx # NoTx /\ upstream.state = "open"
             /\ (\E f \in QueryFailures(tx.kind) : Spend(call, 1) /\ Judge(call, f))
             /\ UNCHANGED stream
  BY <1>4, <1>5, KillersAreDeadly
<1>6. CASE tx # NoTx /\ upstream.state = "open" /\ Streams(call, tx.kind)
             /\ UNCHANGED <<tx, upstream, reply>>
  BY <1>1, <1>6, StreamsStep DEF Query
<1>7. CASE tx # NoTx /\ upstream.state # "open" /\ Spend(call, 0)
             /\ (\E e \in Gone(upstream.cause) : Judge(call, [error |-> e, kills |-> TRUE]))
             /\ UNCHANGED stream
  <2>1. Deadly(upstream.cause)
    BY <1>7, Parts DEF UpstreamInv
  <2>2. PICK e \in Gone(upstream.cause) : Judge(call, [error |-> e, kills |-> TRUE])
    BY <1>7
  <2>3. Deadly(e)
    BY <2>1, GoneAreDeadly
  <2>4. QED
    BY <1>4, <1>7, <2>2, <2>3
<1>8. QED
  BY <1>3, <1>5, <1>6, <1>7 DEF Query

LEMMA ReadOnceStep ==
    ASSUME IInv, NEW d \in Databases, ReadOnce(d)
    PROVE  StateInv' /\ ReplyInv'
<1> DEFINE call == <<"read_once", d>>
<1>1. call \in Calls /\ call[1] \notin OwnTools
  BY DEF Calls, Tools, OwnTools, Opens
<1>2. CASE tx = NoTx /\ Streams(call, "read") /\ UNCHANGED reply
  BY <1>1, <1>2, StreamsStep DEF ReadOnce
<1>3. ASSUME UNCHANGED stream, faults' \in 0 .. MaxFaults
      PROVE  StateInv'
  <2>1. SmallTypes'
    BY <1>3, Parts DEF ReadOnce, SmallTypes
  <2>2. QED
    BY <1>3, <2>1, Parts, SlotKept DEF ReadOnce
<1>4. CASE /\ UNCHANGED stream /\ Spend(call, 0)
           /\ \/ tx # NoTx /\ reply' = Fail(call, "TxAlreadyOpen", tx.kind)
              \/ reply' = Fail(call, "SchemaNotRead", "none")
  BY <1>1, <1>3, <1>4, Spends, RefusedReply
<1>5. ASSUME NEW e, UNCHANGED stream, Spend(call, OpenCost(e)) \/ Spend(call, 1),
             reply' = Fail(call, classify_driver_error(e), "none")
      PROVE  StateInv' /\ ReplyInv'
  BY <1>1, <1>3, <1>5, Spends, Parts, OtherReply DEF Held
<1>6. QED
  BY <1>2, <1>4, <1>5 DEF ReadOnce

-----------------------------------------------------------------------------
(* Answers that carry rows. *)

LEMMA RowsReply ==
    ASSUME ReplyInv, NEW call \in Calls, NEW moves \in SUBSET Calls, NEW held \in Held,
           stream.kept \in Nat, stream.kept = stream.sent, stream.kept <= Cap,
           call[1] \in OwnTools => \A m \in moves : Fits(m, held),
           reply' = Rows(Ok(call, moves, held))
    PROVE  ReplyInv'
<1>1. /\ reply'.call = call /\ reply'.ok = TRUE /\ reply'.class = "none"
      /\ reply'.moves = moves /\ reply'.held = held
      /\ reply'.kept = stream.kept /\ reply'.sent = stream.sent
  BY DEF Ok, Rows
<1>2. Ok(call, moves, held) \in Replies
  BY DEF Ok, Replies, ReplyInv
<1>3. reply' \in Replies
  BY <1>2 DEF Rows, Replies
<1>4. FlagIsTrue' /\ AdviceFits' /\ CapIsExact'
  BY <1>1 DEF FlagIsTrue, AdviceFits, CapIsExact, Fits
<1>5. QED
  BY <1>3, <1>4 DEF ReplyInv

LEMMA TooManyReply ==
    ASSUME ReplyInv, NEW call \in Calls, NEW held \in Held,
           stream.kept \in Nat, stream.sent \in Nat, stream.sent > Cap,
           call[1] \in OwnTools => held # "none",
           reply' = Rows(Fail(call, "ResultLimitExceeded", held))
    PROVE  ReplyInv'
<1> DEFINE class == "ResultLimitExceeded"
<1>1. class \in ErrorClasses /\ Retriable(class)
  BY DEF ErrorClasses, Retriable
<1>2. on_error(class, call) = {call}
  BY DEF on_error, FixTheQuery
<1>3. /\ reply'.call = call /\ reply'.ok = FALSE /\ reply'.class = class
      /\ reply'.moves = {call} /\ reply'.held = held
      /\ reply'.kept = stream.kept /\ reply'.sent = stream.sent
  BY <1>2 DEF Fail, Err, Rows
<1>4. Fail(call, class, held) \in Replies
  BY <1>1, <1>2 DEF Fail, Err, Replies, ReplyInv
<1>5. reply' \in Replies
  BY <1>4 DEF Rows, Replies
<1>6. FlagIsTrue'
  <2>1. explain_query_error(class) = "silent"
    BY DEF explain_query_error
  <2>2. QED
    BY <1>1, <1>3, <2>1 DEF FlagIsTrue
<1>7. AdviceFits' /\ CapIsExact'
  BY <1>3 DEF AdviceFits, OnlyRetry, CapIsExact
<1>8. QED
  BY <1>5, <1>6, <1>7 DEF ReplyInv

LEMMA RowType ==
    ASSUME NEW T, NEW E, NEW k \in Nat, NEW l \in Nat,
           NEW s \in [call : T, kept : Nat, sent : Nat, left : Nat, end : E, kills : BOOLEAN]
    PROVE  [s EXCEPT !.kept = k, !.left = l]
             \in [call : T, kept : Nat, sent : Nat, left : Nat, end : E, kills : BOOLEAN]
OBVIOUS

LEMMA PullStep ==
    ASSUME IInv, Pull
    PROVE  StateInv' /\ ReplyInv'
<1>1. SmallTypes'
  BY Parts DEF Pull, SmallTypes
<1>2. /\ stream # NoStream /\ StateOK /\ UpstreamInv /\ StreamInv
      /\ stream.kept \in Nat /\ stream.left \in Nat /\ stream.sent \in Nat
      /\ stream.kept + stream.left = stream.sent /\ stream.kept <= Cap
  BY Parts DEF Pull, StateOK, StreamInv
<1>3. stream.call \in Calls
  BY <1>2 DEF StateOK, StreamInv, Calls, Tools
<1>4. /\ tx = NoTx => stream.call[1] \notin OwnTools
      /\ tx # NoTx => stream.call = <<"query", NoDb>> /\ tx.kind \in Kinds /\ tx.kind # "none"
  BY <1>2, SlotKind DEF StreamInv, OwnTools, Opens
<1>5. CASE PullRow
  <2>1. stream' = [stream EXCEPT !.kept = @ + 1, !.left = @ - 1]
          /\ UNCHANGED <<tx, upstream, reply>> /\ stream.left > 0 /\ stream.kept < Cap
    BY <1>2, <1>5, BoundsOK DEF PullRow, TooMany
  <2>2. stream' \in [call : Calls \cup {<<"none", NoDb>>}, kept : Nat, sent : Nat, left : Nat,
                     end : DriverErrors \cup {NoError}, kills : BOOLEAN]
    <3>1. stream' = [stream EXCEPT !.kept = stream.kept + 1, !.left = stream.left - 1]
      BY <2>1
    <3>2. stream.kept + 1 \in Nat /\ stream.left - 1 \in Nat
      BY <1>2, <2>1
    <3>3. QED
      BY <1>2, <3>1, <3>2, RowType DEF StateOK
  <2>3. /\ stream'.kept = stream.kept + 1 /\ stream'.left = stream.left - 1
        /\ stream'.sent = stream.sent /\ stream'.call = stream.call
        /\ stream'.end = stream.end
    BY <1>2, <2>1 DEF StateOK
  <2> DEFINE dies(st) == st.kills
  <2>4. dies(stream') = dies(stream)
    BY <1>2, <2>1 DEF StateOK
  <2>5. StateOK' /\ UpstreamInv'
    BY <1>1, <1>2, <2>1, <2>2 DEF StateOK, SmallTypes, UpstreamInv, NoTx
  <2>6. StreamInv'
    BY <1>2, <2>1, <2>3, <2>4, BoundsOK DEF StreamInv, NoTx
  <2>7. QED
    BY <2>1, <2>5, <2>6, Parts, ReplyKept DEF StateInv
<1>6. CASE PullTooMany
  <2>1. stream' = NoStream /\ tx' = tx /\ stream.sent > Cap
          /\ reply' = Rows(Fail(stream.call, "ResultLimitExceeded", tx.kind))
          /\ upstream' = (IF tx # NoTx /\ stream.kills THEN Ended("lost", stream.end)
                          ELSE upstream)
    BY <1>2, <1>6, BoundsOK DEF PullTooMany, TooMany
  <2>2. StateOK' /\ UpstreamInv'
    <3>1. CASE tx # NoTx /\ stream.kills
      <4>1. upstream' = Ended("lost", stream.end) /\ Deadly(stream.end)
        BY <1>2, <2>1, <3>1 DEF StreamInv
      <4>2. /\ upstream' \in [state : {"none", "open", "lost", "aborted"},
                              cause : DriverErrors \cup {NoError}]
            /\ upstream'.state = "lost" /\ upstream'.cause = stream.end
        BY <1>2, <4>1 DEF Ended, StateOK
      <4>3. QED
        BY <1>1, <1>2, <2>1, <4>1, <4>2, NothingTypes DEF StateOK, SmallTypes, UpstreamInv
    <3>2. CASE ~(tx # NoTx /\ stream.kills)
      BY <1>1, <1>2, <2>1, <3>2, NothingTypes DEF StateOK, SmallTypes, UpstreamInv, NoTx
    <3>3. QED
      BY <3>1, <3>2
  <2>3. StreamInv'
    BY <2>1, NothingTypes DEF StreamInv
  <2>4. ReplyInv'
    BY <1>2, <1>3, <1>4, <2>1, Parts, TooManyReply
  <2>5. QED
    BY <2>2, <2>3, <2>4 DEF StateInv
<1>7. CASE PullEnd
  <2> DEFINE moves == IF tx = NoTx THEN after_read_once_ok ELSE after_query_ok(tx.kind)
  <2>1. /\ stream' = NoStream /\ UNCHANGED <<tx, upstream>> /\ stream.kept = stream.sent
        /\ reply' = Rows(Ok(stream.call, moves, tx.kind))
    BY <1>2, <1>7 DEF PullEnd
  <2>2. StateOK' /\ UpstreamInv' /\ StreamInv'
    BY <1>1, <1>2, <2>1, NothingTypes DEF StateOK, SmallTypes, UpstreamInv, StreamInv, NoTx
  <2>3. moves \in SUBSET Calls
    BY <1>4, OkMoves
  <2>4. stream.call[1] \in OwnTools => \A m \in moves : Fits(m, tx.kind)
    BY <1>4, OkFits DEF after_query_ok
  <2>5. ReplyInv'
    BY <1>2, <1>3, <2>1, <2>3, <2>4, Parts, RowsReply
  <2>6. QED
    BY <2>2, <2>5 DEF StateInv
<1>8. CASE PullFailed
  <2>1. stream' = NoStream
    BY <1>8 DEF PullFailed
  <2>2. CASE tx # NoTx
    <3> DEFINE f == [error |-> stream.end, kills |-> stream.kills]
    <3>1. Judge(<<"query", NoDb>>, f)
      BY <1>4, <1>8, <2>2 DEF PullFailed
    <3>2. f.kills => Deadly(f.error)
      BY <1>2 DEF StreamInv
    <3>3. QED
      BY <1>1, <2>1, <2>2, <3>1, <3>2, JudgeStep
  <2>3. CASE tx = NoTx
    <3>1. reply' = Fail(stream.call, classify_driver_error(stream.end), "none")
            /\ UNCHANGED <<tx, upstream>>
      BY <1>8, <2>3 DEF PullFailed
    <3>2. StateOK' /\ UpstreamInv' /\ StreamInv'
      BY <1>1, <1>2, <2>1, <3>1, NothingTypes
         DEF StateOK, SmallTypes, UpstreamInv, StreamInv, NoTx
    <3>3. ReplyInv'
      BY <1>3, <1>4, <2>3, <3>1, Parts, OtherReply DEF Held
    <3>4. QED
      BY <3>2, <3>3 DEF StateInv
  <2>4. QED
    BY <2>2, <2>3
<1>9. QED
  BY <1>5, <1>6, <1>7, <1>8 DEF Pull

-----------------------------------------------------------------------------
(* The end of a transaction, and the admin tools. *)

LEMMA CommitFailsReply ==
    ASSUME IInv, NEW call \in Calls, tx # NoTx, CommitFails(call)
    PROVE  ReplyInv' /\ faults' \in 0 .. MaxFaults
<1>1. PICK e : /\ Deadly(e) /\ (Spend(call, 0) \/ Spend(call, 1))
               /\ reply' = Fail(call, classify_driver_error(e), "none")
  <2>1. CASE upstream.state = "open"
    BY <2>1, CommitsAreDeadly DEF CommitFails
  <2>2. CASE upstream.state # "open"
    <3>1. Deadly(upstream.cause)
      BY <2>2, Parts DEF UpstreamInv
    <3>2. QED
      BY <2>2, <3>1, GoneAreDeadly DEF CommitFails
  <2>3. QED
    BY <2>1, <2>2
<1>2. QED
  BY <1>1, Parts, Spends, DeadReply

LEMMA CommitStep ==
    ASSUME IInv, Commit
    PROVE  StateInv' /\ ReplyInv'
<1> DEFINE call == <<"commit", NoDb>>
<1>1. call \in Calls
  BY DEF Calls, Tools
<1>2. stream = NoStream /\ stream' = stream
  BY DEF Commit, Asks
<1>3. CASE (NothingOpen(call) \/ OnlyRead(call)) /\ UNCHANGED <<tx, upstream>>
  <2>1. SmallTypes'
    BY <1>3, Parts, Spends DEF Commit, NothingOpen, OnlyRead, SmallTypes
  <2>2. QED
    BY <1>1, <1>2, <1>3, <2>1, Parts, SlotKept, RefusedReply DEF NothingOpen, OnlyRead
<1>4. CASE tx' = NoTx /\ upstream' = NoUpstream /\ Writable /\ CommitFails(call)
  <2>1. ReplyInv' /\ SmallTypes'
    BY <1>1, <1>4, Parts, CommitFailsReply DEF Commit, Writable, SmallTypes
  <2>2. QED
    BY <1>2, <1>4, <2>1, Parts, SlotEmptied
<1>5. CASE tx' = NoTx /\ upstream' = NoUpstream /\ Spend(call, 0)
             /\ reply' = Ok(call, after_commit_ok, "none")
  <2>1. SmallTypes'
    BY <1>5, Parts, Spends DEF Commit, SmallTypes
  <2>2. ReplyInv'
    BY <1>1, <1>5, Parts, OkMoves, OkFits, OkReply DEF after_commit_ok, Held
  <2>3. QED
    BY <1>2, <1>5, <2>1, <2>2, Parts, SlotEmptied
<1>6. QED
  BY <1>3, <1>4, <1>5 DEF Commit

LEMMA CheckpointStep ==
    ASSUME IInv, Checkpoint
    PROVE  StateInv' /\ ReplyInv'
<1> DEFINE call == <<"checkpoint", NoDb>>
<1>1. call \in Calls
  BY DEF Calls, Tools
<1>2. stream = NoStream /\ stream' = stream
  BY DEF Checkpoint, Asks
<1>3. CASE (NothingOpen(call) \/ OnlyRead(call)) /\ UNCHANGED <<tx, upstream>>
  <2>1. SmallTypes'
    BY <1>3, Parts, Spends DEF Checkpoint, NothingOpen, OnlyRead, SmallTypes
  <2>2. QED
    BY <1>1, <1>2, <1>3, <2>1, Parts, SlotKept, RefusedReply DEF NothingOpen, OnlyRead
<1>4. CASE Writable /\ tx' = NoTx /\ upstream' = NoUpstream /\ CommitFails(call)
  <2>1. ReplyInv' /\ SmallTypes'
    BY <1>1, <1>4, Parts, CommitFailsReply DEF Checkpoint, Writable, SmallTypes
  <2>2. QED
    BY <1>2, <1>4, <2>1, Parts, SlotEmptied
<1>5. CASE Writable /\ Spend(call, 0) /\ reply' = Ok(call, after_checkpoint_ok, tx.kind)
             /\ UNCHANGED <<tx, upstream>>
  <2>1. SmallTypes'
    BY <1>5, Parts, Spends DEF Checkpoint, SmallTypes
  <2>2. tx.kind \in {"write", "schema"}
    BY <1>5, Parts, SlotKind DEF Writable, Kinds
  <2>3. ReplyInv'
    BY <1>1, <1>5, <2>2, Parts, OkMoves, OkFits, OkReply
  <2>4. QED
    BY <1>2, <1>5, <2>1, <2>3, Parts, SlotKept
<1>6. ASSUME NEW e \in OpenErrors(tx.db), Writable, tx' = NoTx, upstream' = NoUpstream,
             Spend(call, OpenCost(e)),
             reply' = Err(call, classify_driver_error(e),
                          after_checkpoint_reopen_failed(tx.kind, tx.db), "none")
      PROVE  StateInv' /\ ReplyInv'
  <2>1. SmallTypes'
    BY <1>6, Parts, Spends DEF Checkpoint, SmallTypes
  <2>2. after_checkpoint_reopen_failed(tx.kind, tx.db) \in SUBSET Calls
    BY <1>6, Parts, SlotKind, OkMoves DEF Writable
  <2>3. ~Retriable(classify_driver_error(e))
    BY OpenErrorsAreDeadly DEF Deadly
  <2>4. "none" \in Held
    BY DEF Held
  <2>5. ReplyInv'
    BY <1>1, <1>6, <2>2, <2>3, <2>4, Parts, DriverClass, ServerClassesAreClasses, OkFits,
       ErrReply
  <2>6. QED
    BY <1>2, <1>6, <2>1, <2>5, Parts, SlotEmptied
<1>7. QED
  BY <1>3, <1>4, <1>5, <1>6 DEF Checkpoint

LEMMA RollbackStep ==
    ASSUME IInv, Rollback
    PROVE  StateInv' /\ ReplyInv'
<1> DEFINE call == <<"rollback", NoDb>>
<1>1. call \in Calls
  BY DEF Calls, Tools
<1>2. SmallTypes' /\ stream' = NoStream
  BY Parts, Spends DEF Rollback, Asks, SmallTypes
<1>3. StateInv'
  BY <1>2, Parts, SlotEmptied DEF Rollback
<1>4. ReplyInv'
  BY <1>1, Parts, OkMoves, OkFits, OkReply DEF Rollback, Held
<1>5. QED
  BY <1>3, <1>4

LEMMA CreateDatabaseStep ==
    ASSUME IInv, NEW d \in Databases, CreateDatabase(d)
    PROVE  StateInv' /\ ReplyInv'
<1> DEFINE call == <<"create_database", d>>
<1>1. call \in Calls /\ call[1] \notin OwnTools
  BY DEF Calls, Tools, OwnTools, Opens
<1>2. faults' \in 0 .. MaxFaults /\ exist' \subseteq Databases
  BY Parts, Spends DEF CreateDatabase, SmallTypes
<1>3. StateInv'
  BY <1>2, Parts, SlotKept DEF CreateDatabase, SmallTypes
<1>4. "none" \in Held
  BY DEF Held
<1>5. CASE \/ tx # NoTx /\ reply' = Fail(call, "TxAlreadyOpen", tx.kind)
           \/ reply' = Busy(call, "none")
           \/ reply' = Ok(call, after_create_database(d), "none")
  BY <1>1, <1>3, <1>4, <1>5, Parts, OkMoves, OkReply, RefusedReply, BusyReply
<1>6. ASSUME NEW e, reply' = Fail(call, classify_driver_error(e), "none")
      PROVE  ReplyInv'
  BY <1>1, <1>4, <1>6, Parts, OtherReply
<1>7. QED
  BY <1>3, <1>5, <1>6 DEF CreateDatabase

LEMMA DeleteDatabaseStep ==
    ASSUME IInv, NEW d \in Databases, DeleteDatabase(d)
    PROVE  StateInv' /\ ReplyInv'
<1> DEFINE call == <<"delete_database", d>>
<1>1. call \in Calls /\ call[1] \notin OwnTools
  BY DEF Calls, Tools, OwnTools, Opens
<1>2. faults' \in 0 .. MaxFaults /\ exist' \subseteq Databases /\ seen' \subseteq Databases
  BY Parts, Spends DEF DeleteDatabase, SmallTypes
<1>3. StateInv'
  BY <1>2, Parts, SlotKept DEF DeleteDatabase, SmallTypes
<1>4. "none" \in Held
  BY DEF Held
<1>5. CASE \/ reply' = Busy(call, "none")
           \/ reply' = Ok(call, after_delete_database, "none")
  BY <1>1, <1>3, <1>4, <1>5, Parts, OkMoves, OkReply, BusyReply
<1>6. ASSUME NEW class \in {"ConfirmationRequired", "TxAlreadyOpen"}, NEW held \in Held,
             reply' = Fail(call, class, held)
      PROVE  ReplyInv'
  <2>1. class \in ErrorClasses \ {"ResultLimitExceeded"}
    BY DEF ErrorClasses
  <2>2. QED
    BY <1>1, <1>6, <2>1, Parts, FailReply
<1>7. ASSUME NEW e, reply' = Fail(call, classify_driver_error(e), "none")
      PROVE  ReplyInv'
  BY <1>1, <1>4, <1>7, Parts, OtherReply
<1>8. QED
  BY <1>3, <1>4, <1>5, <1>6, <1>7, Parts DEF DeleteDatabase

-----------------------------------------------------------------------------
(* The others leave the last answer as it is. *)

LEMMA OthersStep ==
    ASSUME IInv, Others
    PROVE  StateInv' /\ ReplyInv'
<1>1. reply' = reply /\ stream' = stream
  BY DEF Others, Reap, Expire, Purge, Lapse, PeerCommitsSchema, PeerReserves, PeerReleases,
         PeerDeletes
<1>2. ReplyInv'
  BY <1>1, Parts, ReplyKept
<1>3. SmallTypes'
  <2>1. Fault => faults' \in 0 .. MaxFaults
    BY Parts, BoundsOK DEF Fault, SmallTypes
  <2>2. CASE Reap \/ Expire \/ Purge \/ Lapse
    BY <2>1, <2>2, Parts DEF Reap, Expire, Purge, Lapse, SmallTypes
  <2>3. ASSUME NEW d \in Databases, PeerCommitsSchema(d) \/ PeerDeletes(d)
        PROVE  SmallTypes'
    BY <2>1, <2>3, Parts DEF PeerCommitsSchema, PeerDeletes, SmallTypes
  <2>4. ASSUME NEW d \in Databases, PeerReserves(d) \/ PeerReleases(d)
        PROVE  SmallTypes'
    BY <2>1, <2>4, Parts DEF PeerReserves, PeerReleases, SmallTypes
  <2>5. QED
    BY <2>2, <2>3, <2>4 DEF Others
<1>4. CASE Reap \/ Purge
  BY <1>1, <1>2, <1>3, <1>4, Parts, SlotEmptied DEF Reap, Purge
<1>5. CASE Lapse
  <2>1. upstream' = Ended("lost", Closed) /\ tx' = tx
    BY <1>5 DEF Lapse
  <2>2. Closed \in DriverErrors
    BY DEF Closed, DriverErrors, Codes, Families
  <2>3. /\ upstream' \in [state : {"none", "open", "lost", "aborted"},
                          cause : DriverErrors \cup {NoError}]
        /\ upstream'.state = "lost" /\ upstream'.cause = Closed
    BY <2>1, <2>2 DEF Ended
  <2>4. StateOK' /\ UpstreamInv' /\ StreamInv'
    BY <1>1, <1>3, <2>1, <2>3, Parts, DeadlyDriver
       DEF StateOK, SmallTypes, UpstreamInv, StreamInv, NoTx, NoStream
  <2>5. QED
    BY <1>2, <2>4 DEF StateInv
<1>6. CASE UNCHANGED <<tx, upstream>>
  BY <1>1, <1>2, <1>3, <1>6, Parts, SlotKept
<1>7. QED
  BY <1>4, <1>5, <1>6 DEF Others, Expire, PeerCommitsSchema, PeerReserves, PeerReleases,
                          PeerDeletes

-----------------------------------------------------------------------------
(* The theorems. *)

LEMMA Initial == Init => IInv
<1> SUFFICES ASSUME Init PROVE IInv
  OBVIOUS
<1>1. StateOK
  BY NothingTypes, BoundsOK DEF Init, StateOK
<1>2. UpstreamInv /\ StreamInv
  BY NothingTypes DEF Init, UpstreamInv, StreamInv
<1>3. /\ reply.call = <<"list_databases", NoDb>> /\ reply.ok = TRUE /\ reply.class = "none"
      /\ reply.kept = 0 /\ reply.sent = 0
  BY DEF Init
<1>4. reply \in Replies
  <2>1. Plain({"start_session"}) \in SUBSET Calls /\ <<"list_databases", NoDb>> \in Calls
    BY DEF Plain, On, Calls, Tools
  <2>2. "none" \in Held
    BY DEF Held
  <2>3. QED
    BY <2>1, <2>2 DEF Init, Replies
<1>5. reply.call[1] \notin OwnTools
  BY <1>3 DEF OwnTools, Opens
<1>6. FlagIsTrue /\ AdviceFits /\ CapIsExact
  BY <1>3, <1>5, BoundsOK DEF FlagIsTrue, AdviceFits, CapIsExact
<1>7. QED
  BY <1>1, <1>2, <1>4, <1>6 DEF IInv, ReplyInv

LEMMA Inductive == IInv /\ [Next]_vars => IInv'
<1> SUFFICES ASSUME IInv, [Next]_vars PROVE StateInv' /\ ReplyInv'
  BY DEF IInv, StateInv
<1>1. CASE Agent
  <2>1. CASE StartSession
    BY <2>1, StartSessionStep
  <2>2. CASE \E call \in Calls : Unresolved(call)
    BY <2>2, UnresolvedStep
  <2>3. CASE \E tool \in {"list_databases", "server_info"} : ListDatabases(tool)
    BY <2>3, ListDatabasesStep
  <2>4. CASE Query
    BY <2>4, QueryStep
  <2>5. CASE Commit
    BY <2>5, CommitStep
  <2>6. CASE Checkpoint
    BY <2>6, CheckpointStep
  <2>7. CASE Rollback
    BY <2>7, RollbackStep
  <2>8. CASE \E d \in Databases : GetSchema(d)
    BY <2>8, GetSchemaStep
  <2>9. CASE \E d \in Databases : \E kind \in Kinds : Open(kind, d)
    BY <2>9, OpenStep
  <2>10. CASE \E d \in Databases : ReadOnce(d)
    BY <2>10, ReadOnceStep
  <2>11. CASE \E d \in Databases : CreateDatabase(d)
    BY <2>11, CreateDatabaseStep
  <2>12. CASE \E d \in Databases \ {Home} : DeleteDatabase(d)
    BY <2>12, DeleteDatabaseStep
  <2>13. QED
    BY <1>1, <2>1, <2>2, <2>3, <2>4, <2>5, <2>6, <2>7, <2>8, <2>9, <2>10, <2>11, <2>12 DEF Agent
<1>2. CASE Pull
  BY <1>2, PullStep
<1>3. CASE Others
  BY <1>3, OthersStep
<1>4. CASE UNCHANGED vars
  <2>1. SmallTypes' /\ UNCHANGED <<tx, upstream, stream>> /\ reply' = reply
    BY <1>4, Parts DEF vars, SmallTypes
  <2>2. QED
    BY <2>1, Parts, SlotKept, ReplyKept
<1>5. QED
  BY <1>1, <1>2, <1>3, <1>4 DEF Next

LEMMA Invariant == Spec => []IInv
BY Initial, Inductive, PTL DEF Spec

(* Every variable keeps its type; the answers are records of the envelope.  *)
THEOREM TypeCorrect == Spec => []TypeOK
<1>1. IInv => TypeOK
  BY DEF IInv, StateOK, ReplyInv, TypeOK
<1>2. QED
  BY <1>1, Invariant, PTL

(* do_query never keeps a transaction TypeDB has said is over: for every    *)
(* failure that ends one, whatever the codes under it, classify_typedb_error *)
(* finds a class that is not retriable_in_same_tx.                          *)
THEOREM DeadAreDropped == Spec => []KeptIsAlive
<1>1. IInv => KeptIsAlive
  BY DEF IInv, UpstreamInv, KeptIsAlive
<1>2. QED
  BY <1>1, Invariant, PTL

(* retriable_in_same_tx, and the words of explain_query_error, say what the *)
(* handler did with the session's transaction.                              *)
THEOREM FlagHolds == Spec => []FlagIsTrue
<1>1. IInv => FlagIsTrue
  BY DEF IInv, ReplyInv
<1>2. QED
  BY <1>1, Invariant, PTL

(* The next moves of every answer about the session's transaction are calls *)
(* its slot is ready for.                                                   *)
THEOREM AdviceHolds == Spec => []AdviceFits
<1>1. IInv => AdviceFits
  BY DEF IInv, ReplyInv
<1>2. QED
  BY <1>1, Invariant, PTL

(* query_answer_to_json returns all the rows or refuses: exactly result_cap *)
(* rows are an answer, one more is not.                                     *)
THEOREM CapHolds == Spec => []CapIsExact
<1>1. IInv => CapIsExact
  BY DEF IInv, ReplyInv
<1>2. QED
  BY <1>1, Invariant, PTL
-----------------------------------------------------------------------------
(* The lifecycle. *)

Gates == [s \in {"agent"} |-> seen]
Slots == [s \in {"agent"} |-> [database |-> tx.db, kind |-> tx.kind]]

(* What a step may do to the session's gates and its transaction.            *)
Change ==
  \/ UNCHANGED <<seen, tx>>
  \/ tx' = NoTx /\ UNCHANGED seen
  \/ UNCHANGED tx /\ \E d \in Databases : seen' \in {seen \cup {d}, seen \ {d}}
  \/ /\ tx = NoTx /\ UNCHANGED seen
     /\ \E d \in seen, k \in Kinds : tx' = [db |-> d, kind |-> k]
  \/ seen' = {} /\ tx' = NoTx

(* Each of these is a step of TxLifecycle, or none.                          *)
LEMMA ChangeIsStep ==
    ASSUME TypeOK, Change
    PROVE  [Lifecycle!Next \/ \E s \in {"agent"} : Lifecycle!Restart(s)]_<<Gates, Slots>>
<1>1. tx \in Txs /\ seen \subseteq Databases
  BY DEF TypeOK
<1>2. tx # NoTx => tx.db # NoDb
  BY <1>1, DatabasesOK DEF Txs
<1>3. CASE UNCHANGED <<seen, tx>>
  BY <1>3 DEF Gates, Slots
<1>4. CASE tx' = NoTx /\ UNCHANGED seen /\ tx # NoTx
  <2>1. Lifecycle!EndTx("agent")
    BY <1>2, <1>4 DEF Lifecycle!EndTx, NoTx
  <2>2. QED
    BY <2>1 DEF Lifecycle!Next
<1>5. ASSUME NEW d \in Databases, UNCHANGED tx, seen' \in {seen \cup {d}, seen \ {d}}
      PROVE  Lifecycle!Next
  <2>1. Lifecycle!OpenGate("agent", d) \/ Lifecycle!CloseGate("agent", d)
    BY <1>5 DEF Lifecycle!OpenGate, Lifecycle!CloseGate
  <2>2. QED
    BY <2>1 DEF Lifecycle!Next
<1>6. ASSUME NEW d \in seen, NEW k \in Kinds, tx = NoTx, UNCHANGED seen,
             tx' = [db |-> d, kind |-> k]
      PROVE  Lifecycle!Next
  <2>1. Lifecycle!OpenTx("agent", d, k)
    BY <1>6 DEF Lifecycle!OpenTx, NoTx
  <2>2. d \in Databases
    BY <1>1
  <2>3. QED
    BY <2>1, <2>2 DEF Lifecycle!Next
<1>7. CASE seen' = {} /\ tx' = NoTx
  BY <1>7 DEF Lifecycle!Restart, NoTx
<1>8. QED
  BY <1>3, <1>4, <1>5, <1>6, <1>7 DEF Change

(* And each handler and fault does one of these.                             *)
LEMMA Changes == TypeOK /\ [Next]_vars => Change
<1> SUFFICES ASSUME TypeOK, [Next]_vars PROVE Change
  OBVIOUS
<1>1. ASSUME NEW call, NEW f, Judge(call, f), UNCHANGED seen PROVE Change
  BY <1>1 DEF Judge, Change
<1>2. CASE StartSession \/ \E call \in Calls : Unresolved(call)
  BY <1>2 DEF StartSession, Unresolved, Change
<1>3. CASE \E tool \in {"list_databases", "server_info"} : ListDatabases(tool)
  BY <1>3 DEF ListDatabases, Change
<1>4. CASE Query
  BY <1>1, <1>4 DEF Query, Change
<1>5. CASE Commit \/ Checkpoint \/ Rollback
  BY <1>5 DEF Commit, Checkpoint, Rollback, Change
<1>6. ASSUME NEW d \in Databases, GetSchema(d) PROVE Change
  BY <1>6 DEF GetSchema, Change
<1>7. ASSUME NEW d \in Databases, NEW kind \in Kinds, Open(kind, d) PROVE Change
  BY <1>7 DEF Open, SchemaRead, Change
<1>8. ASSUME NEW d \in Databases, ReadOnce(d) \/ CreateDatabase(d) PROVE Change
  BY <1>8 DEF ReadOnce, CreateDatabase, Change
<1>9. ASSUME NEW d \in Databases, DeleteDatabase(d) PROVE Change
  BY <1>9 DEF DeleteDatabase, Change
<1>10. CASE Pull
  BY <1>1, <1>10 DEF Pull, PullRow, PullTooMany, PullEnd, PullFailed, Change
<1>11. CASE Reap \/ Expire \/ Purge \/ Lapse
  BY <1>11 DEF Reap, Expire, Purge, Lapse, Change
<1>12. ASSUME NEW d \in Databases,
              PeerCommitsSchema(d) \/ PeerReserves(d) \/ PeerReleases(d) \/ PeerDeletes(d)
       PROVE  Change
  BY <1>12 DEF PeerCommitsSchema, PeerReserves, PeerReleases, PeerDeletes, Change
<1>13. CASE UNCHANGED vars
  BY <1>13 DEF vars, Change
<1>14. QED
  BY <1>2, <1>3, <1>4, <1>5, <1>6, <1>7, <1>8, <1>9, <1>10, <1>11, <1>12, <1>13
     DEF Next, Agent, Others

(* KeepsLifecycle: the handlers with their answers keep the promise that the *)
(* handlers in their interleavings keep (LifecycleProofs), whatever TypeDB   *)
(* answers and whatever the others do.                                       *)
THEOREM LifecycleKept == Spec => KeepsLifecycle
<1>1. Init => Lifecycle!Init
  BY DEF Init, NoTx, Lifecycle!Init
<1>2. TypeOK /\ [Next]_vars =>
        [Lifecycle!Next \/ \E s \in {"agent"} : Lifecycle!Restart(s)]_<<Gates, Slots>>
  BY Changes, ChangeIsStep
<1>3. Spec => []TypeOK
  BY TypeCorrect
<1>4. QED
  BY <1>1, <1>2, <1>3, PTL DEF Spec, KeepsLifecycle, Lifecycle!AgentSpec, Gates, Slots
=============================================================================
