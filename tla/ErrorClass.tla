----------------------------- MODULE ErrorClass -----------------------------
(***************************************************************************)
(* core/error.rs: how an error of TypeDB or of its driver becomes one of   *)
(* the classes the agent sees, and which classes let the session keep its  *)
(* transaction.                                                            *)
(*                                                                         *)
(* A code such as [TSV12] is the pair of its family and its number; the    *)
(* text of an error is the set of the codes it holds, since the classifier *)
(* asks of it only which codes occur.                                      *)
(***************************************************************************)
EXTENDS Naturals

(* The families of TypeDB and of its driver, and one no release has yet. *)
Families == {"AUT", "CNT", "COW", "CXN", "DBC", "DCT", "DVL", "FER", "HSR", "INF",
             "NEW", "PEX", "QEX", "QUA", "REP", "REX", "SRV", "TQL", "TSV", "TXN", "WEX"}
Codes == Families \X Nat

ErrorClasses ==
  {"SessionUnknown", "SessionExpired", "SchemaNotRead", "TxAlreadyOpen",
   "ConfirmationRequired", "NoTxOpen", "TxIsRead", "WrongTxType", "ParseError",
   "TypeError", "QueryFailed", "WriteFailed", "CommitFailed",
   "ResultLimitExceeded", "Timeout", "UnknownDatabase", "IdleTimeout",
   "TransientConflict", "UpstreamUnavailable", "Unclassified"}

(* A retry is advised, so the transaction is kept. *)
RetriableSlip(class) ==
  class \in {"WrongTxType", "ParseError", "TypeError", "ResultLimitExceeded",
             "TxIsRead", "TxAlreadyOpen", "TransientConflict"}

(* The flag retriable_in_same_tx: is a transaction open after this error? *)
Retriable(class) ==
  class \in {"WrongTxType", "ParseError", "TypeError", "ResultLimitExceeded",
             "TxIsRead", "TxAlreadyOpen"}

-----------------------------------------------------------------------------
(* The codes the classifier knows, in the groups its tests form. *)

PipelineMarkers == {<<"WEX", 1>>, <<"PEX", 6>>, <<"QEX", 14>>}
CommitMarkers   == {<<"DCT", 3>>, <<"TSV", 5>>, <<"HSR", 18>>, <<"SRV", 19>>}
SchemaMarkers   == {<<"TSV", 10>>, <<"QEX", 3>>, <<"REX", 24>>}
WrongKind       == {<<"TSV", 9>>, <<"TSV", 8>>}
PlanMarkers     == {<<"REP", 27>>, <<"REP", 44>>, <<"FER", 7>>, <<"REP", 23>>,
                    <<"QEX", 7>>}

Holds(stack, codes) == stack \cap codes # {}
HoldsFamily(stack, families) == \E c \in stack : c[1] \in families

(* The last resort looks at the code of the error itself. *)
ByTopCode(top) ==
  CASE top \in {<<"TXN", 1>>, <<"TXN", 2>>} -> "Timeout"
    [] top = <<"SRV", 3>>                   -> "UnknownDatabase"
    [] top \in {<<"AUT", 2>>, <<"HSR", 9>>} -> "UpstreamUnavailable"
    [] OTHER                                -> "Unclassified"

ByFamily(stack, top) ==
  IF HoldsFamily(stack, {"TQL"}) THEN "ParseError"
  ELSE IF HoldsFamily(stack, {"INF", "QUA"}) THEN "TypeError"
  ELSE IF HoldsFamily(stack, {"CNT", "DVL"}) THEN "WriteFailed"
  ELSE ByTopCode(top)

BySpecificCode(stack, top) ==
  IF <<"TSV", 12>> \in stack THEN "IdleTimeout"
  ELSE IF <<"TSV", 13>> \in stack THEN "TransientConflict"
  ELSE IF Holds(stack, WrongKind) THEN "WrongTxType"
  ELSE IF <<"TSV", 2>> \in stack THEN "TxIsRead"
  ELSE IF <<"TSV", 7>> \in stack THEN "ParseError"
  ELSE IF Holds(stack, SchemaMarkers) THEN "WriteFailed"
  ELSE IF Holds(stack, PlanMarkers) THEN "QueryFailed"
  ELSE ByFamily(stack, top)

(* The family of the cause is looked at before the markers. *)
ClassifySlip(top, stack) ==
  IF HoldsFamily(stack, {"INF", "QUA"}) THEN "TypeError"
  ELSE IF Holds(stack, PipelineMarkers) THEN "WriteFailed"
  ELSE IF Holds(stack, CommitMarkers) THEN "CommitFailed"
  ELSE BySpecificCode(stack, top)

(* The order of the layers decides: a write that fails carries the codes of *)
(* its cause as well as the marker of the torn pipeline.                    *)
classify_typedb_error(top, stack) ==
  IF Holds(stack, PipelineMarkers) THEN "WriteFailed"
  ELSE IF Holds(stack, CommitMarkers) THEN "CommitFailed"
  ELSE BySpecificCode(stack, top)

-----------------------------------------------------------------------------
(* An error of the driver: the server's, with its codes; the word that the  *)
(* transaction is closed; or anything else, a lost connection for instance. *)

Server(top, stack) == [kind |-> "server", top |-> top, stack |-> stack]
Closed == [kind |-> "closed", top |-> <<"CXN", 0>>, stack |-> {}]
Other  == [kind |-> "other",  top |-> <<"CXN", 0>>, stack |-> {}]

DriverErrors == [kind : {"server", "closed", "other"}, top : Codes,
                 stack : SUBSET Codes]

(* An error of the driver's own is passed on under a name of its own. *)
DriverSlip(e) ==
  CASE e.kind = "closed" -> "IdleTimeout"
    [] e.kind = "server" -> classify_typedb_error(e.top, e.stack)
    [] OTHER             -> "Driver"

classify_driver_error(e) ==
  CASE e.kind = "closed" -> "IdleTimeout"
    [] e.kind = "server" -> classify_typedb_error(e.top, e.stack)
    [] OTHER             -> "UpstreamUnavailable"
=============================================================================
