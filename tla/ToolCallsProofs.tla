--------------------------- MODULE ToolCallsProofs ---------------------------
(***************************************************************************)
(* Proofs about ToolCalls for any number of calls, sessions and databases. *)
(***************************************************************************)
EXTENDS ToolCalls, TLAPS

(* Tools whose request names a transaction kind, and a database. *)
KindTools == {"open", "read_once", "with_owned_tx"}
DatabaseTools == KindTools \cup {"get_schema", "create_database", "delete_database",
                                 "migrate"}

(* Labels at which a call is about to open a transaction of the kind it has in *)
(* its request, and to create, drop or look for the database it has there.     *)
KindLabels == {"opening", "checkpointing", "reopening", "once_open", "owned_open"}
DatabaseLabels == {"insert", "scan", "reserve", "creating", "deleting", "await_job"}

(* What a call knows of its request, label by label: type correctness is not *)
(* inductive without it.                                                     *)
WellFormed ==
    \A c \in Call : pc[c] # "idle" =>
        /\ Mine(c) \in Session
        /\ pc[c] = "enter" =>
              /\ arg[c].tool \in KindTools => arg[c].kind \in Kind
              /\ arg[c].tool \in DatabaseTools => Db(c) \in Database
        /\ pc[c] \in KindLabels => arg[c].kind \in Kind
        /\ pc[c] \in DatabaseLabels => Db(c) \in Database

LEMMA RequestFields ==
    ASSUME NEW r \in Request
    PROVE  /\ r \in Arguments
           /\ r.session \in Session
           /\ r.tool \in KindTools => r.kind \in Kind
           /\ r.tool \in DatabaseTools => r.database \in Database
BY DEF Request, Arguments, Tools, Kind, KindTools, DatabaseTools

USE DEF sessions, server, loop, history

LEMMA TypeInit == Init => TypeOK /\ WellFormed
BY ConstantsOK DEF Init, TypeOK, WellFormed, NoRequest, Arguments, Labels

(* A schema change and a loop over sessions keep the types of what they touch. *)
LEMMA SchemaChangedTypes ==
    ASSUME TypeOK, NEW d, NEW p, SchemaChanged(d, p)
    PROVE  /\ stale' \in [Session -> SUBSET Database]
           /\ late' \in [Session -> SUBSET Database]
           /\ missed' \subseteq Call
BY DEF TypeOK, SchemaChanged

(* So does taking the mutex, and taking the transaction with it. *)
LEMMA TakeTypes ==
    ASSUME TypeOK, NEW c \in Call, Take(c) \/ Unlock(c) \/ UNCHANGED lock
    PROVE  lock' \in [Session -> Call \cup {None, Worker}]
BY DEF TypeOK, Take, Unlock

LEMMA GotoTypes ==
    ASSUME TypeOK, NEW c \in Call, NEW label \in Labels, Goto(c, label)
    PROVE  /\ pc' \in [Call -> Labels]
           /\ pc'[c] = label
           /\ \A b \in Call \ {c} : pc'[b] = pc[b]
BY DEF TypeOK, Goto

LEMMA TakeTxTypes ==
    ASSUME TypeOK, NEW c \in Call, NEW label \in Labels, TakeTx(c, label),
           Mine(c) \in Session, tx[Mine(c)] # None
    PROVE  /\ lock' \in [Session -> Call \cup {None, Worker}]
           /\ tx' \in [Session -> OpenTx \cup {None}]
           /\ held' \in [Call -> OpenTx \cup {None}]
           /\ arg' \in [Call -> Arguments]
           /\ arg'[c].kind \in Kind
           /\ arg'[c].session = arg[c].session /\ arg'[c].tool = arg[c].tool
           /\ \A b \in Call \ {c} : arg'[b] = arg[b]
           /\ pc' \in [Call -> Labels]
           /\ pc'[c] = label
           /\ \A b \in Call \ {c} : pc'[b] = pc[b]
<1> PICK t \in OpenTx : tx[Mine(c)] = t
  BY DEF TypeOK
<1>1. t.database \in Database /\ t.kind \in Kind
  BY DEF OpenTx
<1>2. /\ lock' \in [Session -> Call \cup {None, Worker}]
      /\ tx' \in [Session -> OpenTx \cup {None}]
      /\ held' \in [Call -> OpenTx \cup {None}]
  BY DEF TakeTx, Take, TypeOK
<1>3. arg' = [arg EXCEPT ![c].database = t.database, ![c].kind = t.kind]
  BY DEF TakeTx
<1>4. /\ arg[c] \in Arguments
      /\ arg'[c] = [arg[c] EXCEPT !.database = t.database, !.kind = t.kind]
      /\ \A b \in Call \ {c} : arg'[b] = arg[b]
      /\ arg' = [b \in Call |-> arg'[b]]
  BY <1>3 DEF TypeOK
<1>5. /\ arg'[c] \in Arguments
      /\ arg'[c].kind \in Kind
      /\ arg'[c].session = arg[c].session /\ arg'[c].tool = arg[c].tool
  BY <1>1, <1>4 DEF Arguments
<1>6. arg' \in [Call -> Arguments]
  BY <1>4, <1>5 DEF TypeOK
<1>7. QED
  BY <1>2, <1>4, <1>5, <1>6, GotoTypes DEF TakeTx

LEMMA OverTypes ==
    ASSUME TypeOK, NEW c \in Call, NEW S \in SUBSET Session, NEW label, NEW end,
           Over(c, S, label, end)
    PROVE  /\ todo' \in [Call -> SUBSET Session]
           /\ peer' \in [Call -> Session \cup {None}]
           /\ pc'[c] \in {label, end}
           /\ pc' = [pc EXCEPT ![c] = pc'[c]]
<1>1. CASE S = {}
  <2>1. todo' = [todo EXCEPT ![c] = S] /\ peer' = [peer EXCEPT ![c] = None]
        /\ pc' = [pc EXCEPT ![c] = end]
    BY <1>1 DEF Over, Goto
  <2>2. QED
    BY <2>1 DEF TypeOK
<1>2. CASE S # {}
  <2>1. PICK p \in S : peer' = [peer EXCEPT ![c] = p]
    BY <1>2 DEF Over
  <2>2. todo' = [todo EXCEPT ![c] = S] /\ pc' = [pc EXCEPT ![c] = label]
    BY <1>2 DEF Over, Goto
  <2>3. QED
    BY <2>1, <2>2 DEF TypeOK
<1>3. QED
  BY <1>1, <1>2

LEMMA StashTypes ==
    ASSUME TypeOK, NEW c \in Call, arg[c].kind \in Kind, CanOpen(Db(c), arg[c].kind)
    PROVE  [database |-> Db(c), kind |-> arg[c].kind] \in OpenTx
BY DEF TypeOK, CanOpen, OpenTx

LEMMA TypeNext == TypeOK /\ WellFormed /\ [Next]_vars => TypeOK' /\ WellFormed'
<1> SUFFICES ASSUME TypeOK, WellFormed, [Next]_vars
             PROVE  TypeOK' /\ WellFormed'
  OBVIOUS
<1> USE DEF WellFormed, Mine, Db, Labels, KindTools, DatabaseTools, KindLabels,
            DatabaseLabels
<1>1. ASSUME NEW s \in Session, StartSession(s) PROVE TypeOK' /\ WellFormed'
  BY <1>1 DEF TypeOK, Goto, StartSession
<1>2. ASSUME NEW s \in Session, ReapIdleTx(s) PROVE TypeOK' /\ WellFormed'
  BY <1>2 DEF TypeOK, Goto, ReapIdleTx
<1>3. ASSUME NEW c \in Call, Begin(c) PROVE TypeOK' /\ WellFormed'
  BY <1>3, RequestFields DEF TypeOK, Goto, Begin
<1>4. ASSUME NEW c \in Call, Reply(c) PROVE TypeOK' /\ WellFormed'
  BY <1>4 DEF TypeOK, Goto, Reply, NoRequest, Arguments
<1>5. ASSUME NEW c \in Call, RejectArguments(c) PROVE TypeOK' /\ WellFormed'
  BY <1>5 DEF TypeOK, Goto, RejectArguments
<1>6. ASSUME NEW c \in Call, FetchSchema(c) PROVE TypeOK' /\ WellFormed'
  BY <1>6 DEF TypeOK, Goto, FetchSchema, At
<1>7. ASSUME NEW c \in Call, InsertSchemaSeen(c) PROVE TypeOK' /\ WellFormed'
  BY <1>7 DEF TypeOK, Goto, InsertSchemaSeen
<1>8. ASSUME NEW c \in Call, Open(c) PROVE TypeOK' /\ WellFormed'
  <2>1. lock' \in [Session -> Call \cup {None, Worker}]
    BY <1>8, TakeTypes DEF Open, At
  <2>2. pc' \in [Call -> Labels] /\ \A b \in Call \ {c} : pc'[b] = pc[b]
    BY <1>8, GotoTypes DEF Open, At
  <2>3. pc[c] = "enter" /\ pc'[c] # "enter"
    BY <1>8, GotoTypes DEF Open, At
  <2>4. TypeOK'
    BY <1>8, <2>1, <2>2 DEF TypeOK, Open, At
  <2>5. QED
    BY <1>8, <2>2, <2>3, <2>4, GotoTypes DEF Open, At
<1>9. ASSUME NEW c \in Call, OpenDone(c) PROVE TypeOK' /\ WellFormed'
  BY <1>9, StashTypes DEF TypeOK, Goto, OpenDone, Unlock
<1>10. ASSUME NEW c \in Call, Query(c) PROVE TypeOK' /\ WellFormed'
  <2>1. lock' \in [Session -> Call \cup {None, Worker}]
    BY <1>10, TakeTypes DEF Query, At
  <2>2. pc' \in [Call -> Labels] /\ \A b \in Call \ {c} : pc'[b] = pc[b]
    BY <1>10, GotoTypes DEF Query, At
  <2>3. pc[c] = "enter" /\ pc'[c] # "enter"
    BY <1>10, GotoTypes DEF Query, At
  <2>4. TypeOK'
    BY <1>10, <2>1, <2>2 DEF TypeOK, Query, At
  <2>5. QED
    BY <1>10, <2>2, <2>3, <2>4, GotoTypes DEF Query, At
<1>11. ASSUME NEW c \in Call, QueryDone(c) PROVE TypeOK' /\ WellFormed'
  BY <1>11 DEF TypeOK, Goto, QueryDone, Unlock
<1>12. ASSUME NEW c \in Call, NothingToClose(c) PROVE TypeOK' /\ WellFormed'
  BY <1>12 DEF TypeOK, Goto, NothingToClose
<1>13. ASSUME NEW c \in Call, Commit(c) PROVE TypeOK' /\ WellFormed'
  <2>1. Mine(c) \in Session /\ tx[Mine(c)] # None
    BY <1>13 DEF Commit, At, Committable
  <2> DEFINE label == "committing"
  <2>2. label \in Labels /\ TakeTx(c, label)
    BY <1>13 DEF Commit
  <2>3. TypeOK'
    BY <1>13, <2>1, <2>2, TakeTxTypes DEF TypeOK, Commit
  <2>4. QED
    BY <1>13, <2>1, <2>2, <2>3, TakeTxTypes DEF Commit
<1>14. ASSUME NEW c \in Call, CommitDone(c) PROVE TypeOK' /\ WellFormed'
  BY <1>14, SchemaChangedTypes DEF TypeOK, Goto, CommitDone, Committed, AfterCommit, Unlock
<1>15. ASSUME NEW c \in Call, Checkpoint(c) PROVE TypeOK' /\ WellFormed'
  <2>1. Mine(c) \in Session /\ tx[Mine(c)] # None
    BY <1>15 DEF Checkpoint, At, Committable
  <2> DEFINE label == "checkpointing"
  <2>2. label \in Labels /\ TakeTx(c, label)
    BY <1>15 DEF Checkpoint
  <2>3. TypeOK'
    BY <1>15, <2>1, <2>2, TakeTxTypes DEF TypeOK, Checkpoint
  <2>4. QED
    BY <1>15, <2>1, <2>2, <2>3, TakeTxTypes DEF Checkpoint
<1>16. ASSUME NEW c \in Call, CheckpointCommitted(c) PROVE TypeOK' /\ WellFormed'
  <2>1. lock' \in [Session -> Call \cup {None, Worker}]
    BY <1>16, TakeTypes DEF CheckpointCommitted
  <2>2. pc' \in [Call -> Labels] /\ \A b \in Call \ {c} : pc'[b] = pc[b]
    BY <1>16, GotoTypes DEF CheckpointCommitted
  <2>3. /\ stale' \in [Session -> SUBSET Database]
        /\ late' \in [Session -> SUBSET Database]
        /\ missed' \subseteq Call
    BY <1>16, SchemaChangedTypes DEF CheckpointCommitted, Committed, TypeOK
  <2>4. TypeOK'
    BY <1>16, <2>1, <2>2, <2>3 DEF TypeOK, CheckpointCommitted
  <2>5. QED
    BY <1>16, <2>2, <2>4, GotoTypes DEF CheckpointCommitted
<1>17. ASSUME NEW c \in Call, CheckpointReopened(c) PROVE TypeOK' /\ WellFormed'
  BY <1>17, StashTypes DEF TypeOK, Goto, CheckpointReopened, AfterCommit, Unlock
<1>18. ASSUME NEW c \in Call, Rollback(c) PROVE TypeOK' /\ WellFormed'
  <2>1. Mine(c) \in Session /\ tx[Mine(c)] # None
    BY <1>18 DEF Rollback, At, Committable
  <2> DEFINE label == "releasing"
  <2>2. label \in Labels /\ TakeTx(c, label)
    BY <1>18 DEF Rollback
  <2>3. TypeOK'
    BY <1>18, <2>1, <2>2, TakeTxTypes DEF TypeOK, Rollback
  <2>4. QED
    BY <1>18, <2>1, <2>2, <2>3, TakeTxTypes DEF Rollback
<1>19. ASSUME NEW c \in Call, RollbackDone(c) PROVE TypeOK' /\ WellFormed'
  BY <1>19 DEF TypeOK, Goto, RollbackDone, Unlock
<1>20. ASSUME NEW c \in Call, ReadOnce(c) PROVE TypeOK' /\ WellFormed'
  <2>1. lock' \in [Session -> Call \cup {None, Worker}]
    BY <1>20, TakeTypes DEF ReadOnce, OpenOwnTx, At
  <2>2. pc' \in [Call -> Labels] /\ \A b \in Call \ {c} : pc'[b] = pc[b]
    BY <1>20, GotoTypes DEF ReadOnce, OpenOwnTx, At
  <2>3. pc[c] = "enter" /\ pc'[c] # "enter"
    BY <1>20, GotoTypes DEF ReadOnce, OpenOwnTx, At
  <2>4. TypeOK'
    BY <1>20, <2>1, <2>2 DEF TypeOK, ReadOnce, OpenOwnTx, At
  <2>5. QED
    BY <1>20, <2>2, <2>3, <2>4, GotoTypes DEF ReadOnce, OpenOwnTx, At
<1>21. ASSUME NEW c \in Call, ReadOnceOpened(c) PROVE TypeOK' /\ WellFormed'
  <2>1. lock' \in [Session -> Call \cup {None, Worker}]
    BY <1>21, TakeTypes DEF ReadOnceOpened, OwnTxOpened
  <2>2. pc' \in [Call -> Labels] /\ \A b \in Call \ {c} : pc'[b] = pc[b]
    BY <1>21, GotoTypes DEF ReadOnceOpened, OwnTxOpened
  <2>3. pc'[c] \in {"reply", "once_query"}
    BY <1>21, GotoTypes DEF ReadOnceOpened, OwnTxOpened
  <2>4. held' \in [Call -> OpenTx \cup {None}]
    BY <1>21, StashTypes DEF TypeOK, ReadOnceOpened, OwnTxOpened
  <2>5. TypeOK'
    BY <1>21, <2>1, <2>2, <2>4 DEF TypeOK, ReadOnceOpened, OwnTxOpened
  <2>6. QED
    BY <1>21, <2>2, <2>3, <2>5 DEF ReadOnceOpened, OwnTxOpened
<1>22. ASSUME NEW c \in Call, ReadOnceDone(c) PROVE TypeOK' /\ WellFormed'
  BY <1>22 DEF TypeOK, Goto, ReadOnceDone, Unlock
<1>23. ASSUME NEW c \in Call, WithOwnedTx(c) PROVE TypeOK' /\ WellFormed'
  <2>1. lock' \in [Session -> Call \cup {None, Worker}]
    BY <1>23, TakeTypes DEF WithOwnedTx, OpenOwnTx, At
  <2>2. pc' \in [Call -> Labels] /\ \A b \in Call \ {c} : pc'[b] = pc[b]
    BY <1>23, GotoTypes DEF WithOwnedTx, OpenOwnTx, At
  <2>3. pc[c] = "enter" /\ pc'[c] # "enter"
    BY <1>23, GotoTypes DEF WithOwnedTx, OpenOwnTx, At
  <2>4. TypeOK'
    BY <1>23, <2>1, <2>2 DEF TypeOK, WithOwnedTx, OpenOwnTx, At
  <2>5. QED
    BY <1>23, <2>2, <2>3, <2>4, GotoTypes DEF WithOwnedTx, OpenOwnTx, At
<1>24. ASSUME NEW c \in Call, WithOwnedTxOpened(c) PROVE TypeOK' /\ WellFormed'
  <2>1. lock' \in [Session -> Call \cup {None, Worker}]
    BY <1>24, TakeTypes DEF WithOwnedTxOpened, OwnTxOpened
  <2>2. pc' \in [Call -> Labels] /\ \A b \in Call \ {c} : pc'[b] = pc[b]
    BY <1>24, GotoTypes DEF WithOwnedTxOpened, OwnTxOpened
  <2>3. pc'[c] \in {"reply", "owned_body"}
    BY <1>24, GotoTypes DEF WithOwnedTxOpened, OwnTxOpened
  <2>4. held' \in [Call -> OpenTx \cup {None}]
    BY <1>24, StashTypes DEF TypeOK, WithOwnedTxOpened, OwnTxOpened
  <2>5. TypeOK'
    BY <1>24, <2>1, <2>2, <2>4 DEF TypeOK, WithOwnedTxOpened, OwnTxOpened
  <2>6. QED
    BY <1>24, <2>2, <2>3, <2>5 DEF WithOwnedTxOpened, OwnTxOpened
<1>25. ASSUME NEW c \in Call, WithOwnedTxBody(c) PROVE TypeOK' /\ WellFormed'
  BY <1>25 DEF TypeOK, Goto, WithOwnedTxBody, Unlock
<1>26. ASSUME NEW c \in Call, WithOwnedTxDone(c) PROVE TypeOK' /\ WellFormed'
  BY <1>26, SchemaChangedTypes DEF TypeOK, Goto, WithOwnedTxDone, Committed, AfterCommit
<1>27. ASSUME NEW c \in Call, Sweep(c) PROVE TypeOK' /\ WellFormed'
  <2>1. (IF arg[c].tool = "delete_database" THEN live ELSE live \ {Mine(c)}) \in SUBSET Session
    BY DEF TypeOK
  <2>2. /\ todo' \in [Call -> SUBSET Session] /\ peer' \in [Call -> Session \cup {None}]
        /\ pc'[c] \in {"sweeping", "reply"} /\ pc' = [pc EXCEPT ![c] = pc'[c]]
    BY <1>27, <2>1, OverTypes DEF Sweep
  <2>3. pc' \in [Call -> Labels] /\ \A b \in Call \ {c} : pc'[b] = pc[b]
    BY <2>2 DEF TypeOK
  <2>4. TypeOK'
    BY <1>27, <2>2, <2>3 DEF TypeOK, Sweep
  <2>5. QED
    BY <1>27, <2>2, <2>3, <2>4 DEF Sweep
<1>28. ASSUME NEW c \in Call, SweepOne(c) PROVE TypeOK' /\ WellFormed'
  <2>1. todo[c] \ {peer[c]} \in SUBSET Session
    BY DEF TypeOK
  <2>2. /\ todo' \in [Call -> SUBSET Session] /\ peer' \in [Call -> Session \cup {None}]
        /\ pc'[c] \in {"sweeping", "reply"} /\ pc' = [pc EXCEPT ![c] = pc'[c]]
    BY <1>28, <2>1, OverTypes DEF SweepOne
  <2>3. pc' \in [Call -> Labels] /\ \A b \in Call \ {c} : pc'[b] = pc[b]
    BY <2>2 DEF TypeOK
  <2>4. TypeOK'
    BY <1>28, <2>2, <2>3 DEF TypeOK, SweepOne
  <2>5. QED
    BY <1>28, <2>2, <2>3, <2>4 DEF SweepOne
<1>29. ASSUME NEW c \in Call, CheckOwnTx(c) PROVE TypeOK' /\ WellFormed'
  <2>1. /\ todo' \in [Call -> SUBSET Session] /\ peer' \in [Call -> Session \cup {None}]
        /\ pc'[c] \in {"scan", "reserve", "reply"} /\ pc' = [pc EXCEPT ![c] = pc'[c]]
    <3>1. CASE Over(c, live, "scan", "reserve")
      BY <3>1, OverTypes DEF TypeOK
    <3>2. CASE UNCHANGED loop /\ (Goto(c, "reply") \/ Goto(c, "reserve"))
      BY <3>2 DEF TypeOK, Goto
    <3>3. QED
      BY <1>29, <3>1, <3>2 DEF CheckOwnTx
  <2>2. pc' \in [Call -> Labels] /\ \A b \in Call \ {c} : pc'[b] = pc[b]
    BY <2>1 DEF TypeOK
  <2>3. TypeOK'
    BY <1>29, <2>1, <2>2 DEF TypeOK, CheckOwnTx
  <2>4. QED
    BY <1>29, <2>1, <2>2, <2>3 DEF CheckOwnTx
<1>30. ASSUME NEW c \in Call, ScanOne(c) PROVE TypeOK' /\ WellFormed'
  <2>1. /\ todo' \in [Call -> SUBSET Session] /\ peer' \in [Call -> Session \cup {None}]
        /\ pc'[c] \in {"scan", "reserve", "reply"} /\ pc' = [pc EXCEPT ![c] = pc'[c]]
    <3>1. CASE Over(c, todo[c] \ {peer[c]}, "scan", "reserve")
      <4>1. todo[c] \ {peer[c]} \in SUBSET Session
        BY DEF TypeOK
      <4>2. QED
        BY <3>1, <4>1, OverTypes
    <3>2. CASE UNCHANGED loop /\ Goto(c, "reply")
      BY <3>2 DEF TypeOK, Goto
    <3>3. QED
      BY <1>30, <3>1, <3>2 DEF ScanOne
  <2>2. pc' \in [Call -> Labels] /\ \A b \in Call \ {c} : pc'[b] = pc[b]
    BY <2>1 DEF TypeOK
  <2>3. TypeOK'
    BY <1>30, <2>1, <2>2 DEF TypeOK, ScanOne
  <2>4. QED
    BY <1>30, <2>1, <2>2, <2>3 DEF ScanOne
<1>31. ASSUME NEW c \in Call, Reserve(c) PROVE TypeOK' /\ WellFormed'
  <2>1. pc' \in [Call -> Labels] /\ \A b \in Call \ {c} : pc'[b] = pc[b]
    BY <1>31, GotoTypes DEF Reserve
  <2>2. pc'[c] \in {"creating", "deleting", "reply"}
    BY <1>31, GotoTypes DEF Reserve
  <2>3. reserved' \in [Database -> Call \cup {None, Worker}]
    BY <1>31 DEF TypeOK, Reserve
  <2>4. TypeOK'
    BY <1>31, <2>1, <2>3 DEF TypeOK, Reserve
  <2>5. QED
    BY <1>31, <2>1, <2>2, <2>4 DEF Reserve
<1>32. ASSUME NEW c \in Call, CreateDone(c) PROVE TypeOK' /\ WellFormed'
  BY <1>32 DEF TypeOK, Goto, CreateDone
<1>33. ASSUME NEW c \in Call, DeleteOk(c) PROVE TypeOK' /\ WellFormed'
  BY <1>33, SchemaChangedTypes DEF TypeOK, Goto, DeleteOk
<1>34. ASSUME NEW c \in Call, DeleteFailed(c) PROVE TypeOK' /\ WellFormed'
  BY <1>34 DEF TypeOK, Goto, DeleteFailed
<1>35. ASSUME NEW c \in Call, Migrate(c) PROVE TypeOK' /\ WellFormed'
  <2>1. pc' \in [Call -> Labels] /\ \A b \in Call \ {c} : pc'[b] = pc[b]
    BY <1>35, GotoTypes DEF Migrate
  <2>2. pc'[c] \in {"await_job", "reply"}
    BY <1>35, GotoTypes DEF Migrate
  <2>3. /\ lock' \in [Session -> Call \cup {None, Worker}]
        /\ reserved' \in [Database -> Call \cup {None, Worker}]
        /\ job' \in Call \cup {None}
    <3>1. CASE Take(c) /\ UNCHANGED <<reserved, job>>
      BY <3>1 DEF TypeOK, Take
    <3>2. CASE UNCHANGED <<lock, reserved, job>>
      BY <3>2 DEF TypeOK
    <3>3. CASE /\ lock' = [lock EXCEPT ![Mine(c)] = Worker]
               /\ reserved' = [reserved EXCEPT ![Db(c)] = Worker]
               /\ job' = c
      BY <3>3 DEF TypeOK
    <3>4. QED
      BY <1>35, <3>1, <3>2, <3>3 DEF Migrate
  <2>4. TypeOK'
    BY <1>35, <2>1, <2>3 DEF TypeOK, Migrate
  <2>5. QED
    BY <1>35, <2>1, <2>2, <2>4 DEF Migrate, At
<1>36. ASSUME JobReply PROVE TypeOK' /\ WellFormed'
  BY <1>36, SchemaChangedTypes DEF TypeOK, Goto, JobReply
<1>37. ASSUME JobDropped PROVE TypeOK' /\ WellFormed'
  BY <1>37 DEF TypeOK, Goto, JobDropped
<1>38. CASE UNCHANGED vars
  BY <1>38 DEF TypeOK, vars
<1>39. QED
  BY <1>1, <1>2, <1>3, <1>4, <1>5, <1>6, <1>7, <1>8, <1>9, <1>10, <1>11, <1>12,
     <1>13, <1>14, <1>15, <1>16, <1>17, <1>18, <1>19, <1>20, <1>21, <1>22, <1>23,
     <1>24, <1>25, <1>26, <1>27, <1>28, <1>29, <1>30, <1>31, <1>32, <1>33, <1>34,
     <1>35, <1>36, <1>37, <1>38 DEF Next, Lock, Proceed

(* TypeOK: the types of every variable, in every reachable state.            *)
THEOREM TypeCorrect == Spec => []TypeOK
<1>1. Init => TypeOK /\ WellFormed
  BY TypeInit
<1>2. TypeOK /\ WellFormed /\ [Next]_vars => (TypeOK /\ WellFormed)'
  BY TypeNext
<1>3. QED
  BY <1>1, <1>2, PTL DEF Spec

-----------------------------------------------------------------------------
(* Who holds what, at which label. *)

(* Labels at which a call has the mutex of its session, and the transaction  *)
(* it closes, renews or drains in hand.                                      *)
Guarded == {"opening", "querying", "committing", "checkpointing", "reopening",
            "releasing", "once_open", "once_query", "owned_open", "owned_body"}
InHand == {"committing", "checkpointing", "releasing", "once_query", "owned_body"}
              \cup Detached

Discipline ==
    \A c \in Call :
        /\ pc[c] \in Guarded => lock[Mine(c)] = c
        /\ pc[c] \in Guarded \ {"querying"} => tx[Mine(c)] = None
        /\ held[c] # None => pc[c] \in InHand

(* The call of the job in progress waits for it or for the guard it keeps:   *)
(* its arguments, which say what the job owns, do not change.                *)
JobKeepsItsCall ==
    job # None => pc[job] \in {"await_job", "sweep", "sweeping", "reply"}

Ownership == ReservationsAreOwned /\ JobKeepsItsCall

IInv == TypeOK /\ WellFormed /\ Discipline /\ Ownership

LEMMA InvInit == Init => IInv
BY TypeInit, ConstantsOK DEF Init, IInv, Discipline, Ownership, ReservationsAreOwned,
   JobKeepsItsCall, Guarded, InHand

LEMMA TakeTxStep ==
    ASSUME IInv, NEW c \in Call, NEW label \in {"committing", "checkpointing", "releasing"},
           pc[c] = "enter", Free(Mine(c)), tx[Mine(c)] # None, TakeTx(c, label),
           UNCHANGED server
    PROVE  Discipline' /\ Ownership'
<1>1. TypeOK /\ WellFormed /\ Discipline /\ Ownership
  BY DEF IInv
<1>2. Mine(c) \in Session /\ label \in Labels
  BY <1>1 DEF WellFormed, Labels
<1>3. /\ pc'[c] = label /\ \A b \in Call \ {c} : pc'[b] = pc[b]
      /\ \A b \in Call : arg'[b].session = arg[b].session
      /\ \A b \in Call \ {c} : arg'[b] = arg[b]
  BY <1>1, <1>2, TakeTxTypes
<1>4. /\ lock' = [lock EXCEPT ![Mine(c)] = c]
      /\ tx' = [tx EXCEPT ![Mine(c)] = None]
      /\ held' = [held EXCEPT ![c] = tx[Mine(c)]]
  BY DEF TakeTx, Take
<1>5. lock[Mine(c)] = None /\ c # None /\ c # Worker /\ None # Worker
  BY ConstantsOK DEF Free
<1>6. Discipline'
  <2> SUFFICES ASSUME NEW b \in Call
               PROVE  /\ pc'[b] \in Guarded => lock'[arg'[b].session] = b
                      /\ pc'[b] \in Guarded \ {"querying"} => tx'[arg'[b].session] = None
                      /\ held'[b] # None => pc'[b] \in InHand
    BY DEF Discipline, Mine
  <2>1. CASE b = c
    BY <1>1, <1>2, <1>3, <1>4, <2>1 DEF InHand, Mine, TypeOK
  <2>2. CASE b # c
    <3>1. pc[b] \in Guarded => Mine(b) \in Session /\ Mine(b) # Mine(c)
      BY <1>1, <1>5, ConstantsOK, <2>2 DEF Discipline, WellFormed, Guarded
    <3>2. QED
      BY <1>1, <1>3, <1>4, <2>2, <3>1 DEF Discipline, Mine, TypeOK
  <2>3. QED
    BY <2>1, <2>2
<1>7. job # c
  BY <1>1, ConstantsOK DEF Ownership, JobKeepsItsCall
<1>8. Ownership'
  BY <1>1, <1>2, <1>3, <1>4, <1>5, <1>7 DEF Ownership, ReservationsAreOwned,
     JobKeepsItsCall, Mine, Db, TypeOK
<1>9. QED
  BY <1>6, <1>8

LEMMA DisciplineNext == IInv /\ [Next]_vars => Discipline'
<1> SUFFICES ASSUME IInv, [Next]_vars PROVE Discipline'
  OBVIOUS
<1>0. TypeOK /\ WellFormed /\ Discipline /\ Ownership
  BY DEF IInv
<1> USE <1>0, ConstantsOK DEF Discipline, Goto, Mine, Free, Guarded, InHand, Detached
<1>1. ASSUME NEW s \in Session, StartSession(s) PROVE Discipline'
  BY <1>1 DEF TypeOK, WellFormed, StartSession
<1>2. ASSUME NEW s \in Session, ReapIdleTx(s) PROVE Discipline'
  BY <1>2 DEF TypeOK, WellFormed, ReapIdleTx
<1>3. ASSUME NEW c \in Call, Begin(c) PROVE Discipline'
  BY <1>3 DEF TypeOK, WellFormed, Begin
<1>4. ASSUME NEW c \in Call, Reply(c) PROVE Discipline'
  BY <1>4 DEF TypeOK, WellFormed, Reply
<1>5. ASSUME NEW c \in Call, RejectArguments(c) PROVE Discipline'
  BY <1>5 DEF TypeOK, WellFormed, RejectArguments
<1>6. ASSUME NEW c \in Call, FetchSchema(c) PROVE Discipline'
  BY <1>6 DEF TypeOK, WellFormed, FetchSchema, At
<1>7. ASSUME NEW c \in Call, InsertSchemaSeen(c) PROVE Discipline'
  BY <1>7 DEF TypeOK, WellFormed, InsertSchemaSeen
<1>8. ASSUME NEW c \in Call, Open(c) PROVE Discipline'
  BY <1>8 DEF TypeOK, WellFormed, Open, At, Take, OpenRefused
<1>9. ASSUME NEW c \in Call, OpenDone(c) PROVE Discipline'
  BY <1>9 DEF TypeOK, WellFormed, OpenDone, Unlock
<1>10. ASSUME NEW c \in Call, Query(c) PROVE Discipline'
  BY <1>10 DEF TypeOK, WellFormed, Query, At, Take
<1>11. ASSUME NEW c \in Call, QueryDone(c) PROVE Discipline'
  BY <1>11 DEF TypeOK, WellFormed, QueryDone, Unlock
<1>12. ASSUME NEW c \in Call, NothingToClose(c) PROVE Discipline'
  BY <1>12 DEF TypeOK, WellFormed, NothingToClose
<1>13. ASSUME NEW c \in Call, Commit(c) PROVE Discipline'
  BY <1>13, TakeTxStep DEF Commit, At, Committable
<1>14. ASSUME NEW c \in Call, CommitDone(c) PROVE Discipline'
  BY <1>14 DEF TypeOK, WellFormed, CommitDone, AfterCommit, Unlock
<1>15. ASSUME NEW c \in Call, Checkpoint(c) PROVE Discipline'
  BY <1>15, TakeTxStep DEF Checkpoint, At, Committable
<1>16. ASSUME NEW c \in Call, CheckpointCommitted(c) PROVE Discipline'
  BY <1>16 DEF TypeOK, WellFormed, CheckpointCommitted, Unlock
<1>17. ASSUME NEW c \in Call, CheckpointReopened(c) PROVE Discipline'
  BY <1>17 DEF TypeOK, WellFormed, CheckpointReopened, AfterCommit, Unlock
<1>18. ASSUME NEW c \in Call, Rollback(c) PROVE Discipline'
  BY <1>18, TakeTxStep DEF Rollback, At, Committable
<1>19. ASSUME NEW c \in Call, RollbackDone(c) PROVE Discipline'
  BY <1>19 DEF TypeOK, WellFormed, RollbackDone, Unlock
<1>20. ASSUME NEW c \in Call, ReadOnce(c) PROVE Discipline'
  BY <1>20 DEF TypeOK, WellFormed, ReadOnce, OpenOwnTx, At, Take, OwnTxRefused
<1>21. ASSUME NEW c \in Call, ReadOnceOpened(c) PROVE Discipline'
  BY <1>21 DEF TypeOK, WellFormed, ReadOnceOpened, OwnTxOpened, Unlock
<1>22. ASSUME NEW c \in Call, ReadOnceDone(c) PROVE Discipline'
  BY <1>22 DEF TypeOK, WellFormed, ReadOnceDone, Unlock
<1>23. ASSUME NEW c \in Call, WithOwnedTx(c) PROVE Discipline'
  BY <1>23 DEF TypeOK, WellFormed, WithOwnedTx, OpenOwnTx, At, Take, OwnTxRefused
<1>24. ASSUME NEW c \in Call, WithOwnedTxOpened(c) PROVE Discipline'
  BY <1>24 DEF TypeOK, WellFormed, WithOwnedTxOpened, OwnTxOpened, Unlock
<1>25. ASSUME NEW c \in Call, WithOwnedTxBody(c) PROVE Discipline'
  BY <1>25 DEF TypeOK, WellFormed, WithOwnedTxBody, Unlock
<1>26. ASSUME NEW c \in Call, WithOwnedTxDone(c) PROVE Discipline'
  BY <1>26 DEF TypeOK, WellFormed, WithOwnedTxDone, AfterCommit
<1>27. ASSUME NEW c \in Call, Sweep(c) PROVE Discipline'
  BY <1>27 DEF TypeOK, WellFormed, Sweep, Over
<1>28. ASSUME NEW c \in Call, SweepOne(c) PROVE Discipline'
  BY <1>28 DEF TypeOK, WellFormed, SweepOne, Over
<1>29. ASSUME NEW c \in Call, CheckOwnTx(c) PROVE Discipline'
  BY <1>29 DEF TypeOK, WellFormed, CheckOwnTx, Over
<1>30. ASSUME NEW c \in Call, ScanOne(c) PROVE Discipline'
  BY <1>30 DEF TypeOK, WellFormed, ScanOne, Over
<1>31. ASSUME NEW c \in Call, Reserve(c) PROVE Discipline'
  BY <1>31 DEF TypeOK, WellFormed, Reserve
<1>32. ASSUME NEW c \in Call, CreateDone(c) PROVE Discipline'
  BY <1>32 DEF TypeOK, WellFormed, CreateDone
<1>33. ASSUME NEW c \in Call, DeleteOk(c) PROVE Discipline'
  BY <1>33 DEF TypeOK, WellFormed, DeleteOk
<1>34. ASSUME NEW c \in Call, DeleteFailed(c) PROVE Discipline'
  BY <1>34 DEF TypeOK, WellFormed, DeleteFailed
<1>35. ASSUME NEW c \in Call, Migrate(c) PROVE Discipline'
  BY <1>35 DEF TypeOK, WellFormed, Migrate, At, Take, MigrateRefused
<1>36. ASSUME JobReply PROVE Discipline'
  BY <1>36 DEF TypeOK, WellFormed, JobReply
<1>37. ASSUME JobDropped PROVE Discipline'
  BY <1>37 DEF Ownership, ReservationsAreOwned, JobKeepsItsCall, TypeOK, WellFormed, JobDropped
<1>38. CASE UNCHANGED vars
  BY <1>38 DEF TypeOK, vars
<1>39. QED
  BY <1>1, <1>2, <1>3, <1>4, <1>5, <1>6, <1>7, <1>8, <1>9, <1>10, <1>11, <1>12,
     <1>13, <1>14, <1>15, <1>16, <1>17, <1>18, <1>19, <1>20, <1>21, <1>22, <1>23,
     <1>24, <1>25, <1>26, <1>27, <1>28, <1>29, <1>30, <1>31, <1>32, <1>33, <1>34,
     <1>35, <1>36, <1>37, <1>38 DEF Next, Lock, Proceed

LEMMA OwnershipNext == IInv /\ [Next]_vars => Ownership'
<1> SUFFICES ASSUME IInv, [Next]_vars PROVE Ownership'
  OBVIOUS
<1>0. TypeOK /\ WellFormed /\ Discipline /\ Ownership
  BY DEF IInv
<1> USE <1>0, ConstantsOK DEF Ownership, ReservationsAreOwned, JobKeepsItsCall, Goto, Mine,
            Db, Free
<1>1. ASSUME NEW s \in Session, StartSession(s) PROVE Ownership'
  BY <1>1 DEF TypeOK, WellFormed, Discipline, Guarded, StartSession
<1>2. ASSUME NEW s \in Session, ReapIdleTx(s) PROVE Ownership'
  BY <1>2 DEF TypeOK, WellFormed, Discipline, Guarded, ReapIdleTx
<1>3. ASSUME NEW c \in Call, Begin(c) PROVE Ownership'
  BY <1>3 DEF TypeOK, WellFormed, Discipline, Guarded, Begin
<1>4. ASSUME NEW c \in Call, Reply(c) PROVE Ownership'
  BY <1>4 DEF TypeOK, WellFormed, Discipline, Guarded, Reply
<1>5. ASSUME NEW c \in Call, RejectArguments(c) PROVE Ownership'
  BY <1>5 DEF TypeOK, WellFormed, Discipline, Guarded, RejectArguments
<1>6. ASSUME NEW c \in Call, FetchSchema(c) PROVE Ownership'
  BY <1>6 DEF TypeOK, WellFormed, Discipline, Guarded, FetchSchema, At
<1>7. ASSUME NEW c \in Call, InsertSchemaSeen(c) PROVE Ownership'
  BY <1>7 DEF TypeOK, WellFormed, Discipline, Guarded, InsertSchemaSeen
<1>8. ASSUME NEW c \in Call, Open(c) PROVE Ownership'
  BY <1>8 DEF TypeOK, WellFormed, Discipline, Guarded, Open, At, Take, OpenRefused
<1>9. ASSUME NEW c \in Call, OpenDone(c) PROVE Ownership'
  BY <1>9 DEF TypeOK, WellFormed, Discipline, Guarded, OpenDone, Unlock
<1>10. ASSUME NEW c \in Call, Query(c) PROVE Ownership'
  BY <1>10 DEF TypeOK, WellFormed, Discipline, Guarded, Query, At, Take
<1>11. ASSUME NEW c \in Call, QueryDone(c) PROVE Ownership'
  BY <1>11 DEF TypeOK, WellFormed, Discipline, Guarded, QueryDone, Unlock
<1>12. ASSUME NEW c \in Call, NothingToClose(c) PROVE Ownership'
  BY <1>12 DEF TypeOK, WellFormed, Discipline, Guarded, NothingToClose
<1>13. ASSUME NEW c \in Call, Commit(c) PROVE Ownership'
  BY <1>13, TakeTxStep DEF Commit, At, Committable
<1>14. ASSUME NEW c \in Call, CommitDone(c) PROVE Ownership'
  BY <1>14 DEF TypeOK, WellFormed, Discipline, Guarded, CommitDone, AfterCommit, Unlock
<1>15. ASSUME NEW c \in Call, Checkpoint(c) PROVE Ownership'
  BY <1>15, TakeTxStep DEF Checkpoint, At, Committable
<1>16. ASSUME NEW c \in Call, CheckpointCommitted(c) PROVE Ownership'
  BY <1>16 DEF TypeOK, WellFormed, Discipline, Guarded, CheckpointCommitted, Unlock
<1>17. ASSUME NEW c \in Call, CheckpointReopened(c) PROVE Ownership'
  BY <1>17 DEF TypeOK, WellFormed, Discipline, Guarded, CheckpointReopened, AfterCommit, Unlock
<1>18. ASSUME NEW c \in Call, Rollback(c) PROVE Ownership'
  BY <1>18, TakeTxStep DEF Rollback, At, Committable
<1>19. ASSUME NEW c \in Call, RollbackDone(c) PROVE Ownership'
  BY <1>19 DEF TypeOK, WellFormed, Discipline, Guarded, RollbackDone, Unlock
<1>20. ASSUME NEW c \in Call, ReadOnce(c) PROVE Ownership'
  BY <1>20 DEF TypeOK, WellFormed, Discipline, Guarded, ReadOnce, OpenOwnTx, At, Take, OwnTxRefused
<1>21. ASSUME NEW c \in Call, ReadOnceOpened(c) PROVE Ownership'
  BY <1>21 DEF TypeOK, WellFormed, Discipline, Guarded, ReadOnceOpened, OwnTxOpened, Unlock
<1>22. ASSUME NEW c \in Call, ReadOnceDone(c) PROVE Ownership'
  BY <1>22 DEF TypeOK, WellFormed, Discipline, Guarded, ReadOnceDone, Unlock
<1>23. ASSUME NEW c \in Call, WithOwnedTx(c) PROVE Ownership'
  BY <1>23 DEF TypeOK, WellFormed, Discipline, Guarded, WithOwnedTx, OpenOwnTx, At, Take, OwnTxRefused
<1>24. ASSUME NEW c \in Call, WithOwnedTxOpened(c) PROVE Ownership'
  BY <1>24 DEF TypeOK, WellFormed, Discipline, Guarded, WithOwnedTxOpened, OwnTxOpened, Unlock
<1>25. ASSUME NEW c \in Call, WithOwnedTxBody(c) PROVE Ownership'
  BY <1>25 DEF TypeOK, WellFormed, Discipline, Guarded, WithOwnedTxBody, Unlock
<1>26. ASSUME NEW c \in Call, WithOwnedTxDone(c) PROVE Ownership'
  BY <1>26 DEF TypeOK, WellFormed, Discipline, Guarded, WithOwnedTxDone, AfterCommit
<1>27. ASSUME NEW c \in Call, Sweep(c) PROVE Ownership'
  BY <1>27 DEF TypeOK, WellFormed, Discipline, Guarded, Sweep, Over
<1>28. ASSUME NEW c \in Call, SweepOne(c) PROVE Ownership'
  BY <1>28 DEF TypeOK, WellFormed, Discipline, Guarded, SweepOne, Over
<1>29. ASSUME NEW c \in Call, CheckOwnTx(c) PROVE Ownership'
  BY <1>29 DEF TypeOK, WellFormed, Discipline, Guarded, CheckOwnTx, Over
<1>30. ASSUME NEW c \in Call, ScanOne(c) PROVE Ownership'
  BY <1>30 DEF TypeOK, WellFormed, Discipline, Guarded, ScanOne, Over
<1>31. ASSUME NEW c \in Call, Reserve(c) PROVE Ownership'
  BY <1>31 DEF TypeOK, WellFormed, Discipline, Guarded, Reserve
<1>32. ASSUME NEW c \in Call, CreateDone(c) PROVE Ownership'
  BY <1>32 DEF TypeOK, WellFormed, Discipline, Guarded, CreateDone
<1>33. ASSUME NEW c \in Call, DeleteOk(c) PROVE Ownership'
  BY <1>33 DEF TypeOK, WellFormed, Discipline, Guarded, DeleteOk
<1>34. ASSUME NEW c \in Call, DeleteFailed(c) PROVE Ownership'
  BY <1>34 DEF TypeOK, WellFormed, Discipline, Guarded, DeleteFailed
<1>35. ASSUME NEW c \in Call, Migrate(c) PROVE Ownership'
  BY <1>35 DEF TypeOK, WellFormed, Discipline, Guarded, Migrate, At, Take, MigrateRefused
<1>36. ASSUME JobReply PROVE Ownership'
  BY <1>36 DEF TypeOK, WellFormed, Discipline, Guarded, JobReply
<1>37. ASSUME JobDropped PROVE Ownership'
  BY <1>37 DEF TypeOK, WellFormed, Discipline, Guarded, JobDropped
<1>38. CASE UNCHANGED vars
  BY <1>38 DEF TypeOK, Discipline, Guarded, vars
<1>39. QED
  BY <1>1, <1>2, <1>3, <1>4, <1>5, <1>6, <1>7, <1>8, <1>9, <1>10, <1>11, <1>12,
     <1>13, <1>14, <1>15, <1>16, <1>17, <1>18, <1>19, <1>20, <1>21, <1>22, <1>23,
     <1>24, <1>25, <1>26, <1>27, <1>28, <1>29, <1>30, <1>31, <1>32, <1>33, <1>34,
     <1>35, <1>36, <1>37, <1>38 DEF Next, Lock, Proceed

LEMMA Invariance == Spec => []IInv
<1>1. Init => IInv
  BY InvInit
<1>2. IInv /\ [Next]_vars => IInv'
  BY TypeNext, DisciplineNext, OwnershipNext DEF IInv
<1>3. QED
  BY <1>1, <1>2, PTL DEF Spec

(* OneTransaction: a call with a transaction in hand has its session's mutex, *)
(* so no other call has one of that session, and the slot is empty.           *)
THEOREM OneTransactionHolds == Spec => []OneTransaction
<1>1. IInv => OneTransaction
  <2> SUFFICES ASSUME IInv,
                      NEW c \in Call, held[c] # None, pc[c] \notin Detached
               PROVE  /\ tx[Mine(c)] = None
                      /\ \A b \in Call \ {c} :
                            held[b] # None /\ pc[b] \notin Detached => Mine(b) # Mine(c)
    BY DEF OneTransaction
  <2>1. \A b \in Call : held[b] # None /\ pc[b] \notin Detached =>
            lock[Mine(b)] = b /\ tx[Mine(b)] = None
    BY DEF IInv, Discipline, Guarded, InHand, Detached
  <2>2. QED
    BY <2>1
<1>2. QED
  BY <1>1, Invariance, PTL

(* ReservationsAreOwned: a name, the migration permit and the guard a job    *)
(* keeps are owned by the one call or job that is using them.                *)
THEOREM ReservationsHold == Spec => []ReservationsAreOwned
<1>1. IInv => ReservationsAreOwned
  BY DEF IInv, Ownership
<1>2. QED
  BY <1>1, Invariance, PTL

-----------------------------------------------------------------------------
(* Who waits while it owns a mutex. *)

Refusing == {"delete_database", "migrate"}

(* The owner of a mutex is at work under the guard of its own session, or is  *)
(* one of the two refusals; and a call is where its tool goes.                *)
Owners ==
    \A c \in Call :
        /\ \A s \in Session : lock[s] = c =>
              \/ pc[c] \in Guarded /\ s = Mine(c)
              \/ pc[c] = "reply" /\ arg[c].tool \in Refusing
        /\ pc[c] = "scan" => arg[c].tool = "delete_database"
        /\ pc[c] # "idle" => arg[c].tool \in Enabled
        /\ pc[c] \in {"owned_open", "owned_body"} \cup Detached => arg[c].tool = "with_owned_tx"

HInv == IInv /\ Owners

(* Nobody owns a mutex before the first call. *)
LEMMA OwnersInit == Init => Owners
BY ConstantsOK DEF Init, Owners, Guarded, Detached

(* Taking the transaction takes the guard of the call's own session. *)
LEMMA OwnersOfTakeTx ==
    ASSUME HInv, NEW c \in Call, NEW label \in {"committing", "checkpointing", "releasing"},
           pc[c] = "enter", Free(Mine(c)), tx[Mine(c)] # None, TakeTx(c, label)
    PROVE  Owners'
<1>1. TypeOK /\ WellFormed /\ Owners
  BY DEF HInv, IInv
<1>2. Mine(c) \in Session /\ label \in Labels
  BY <1>1 DEF WellFormed, Labels
<1>3. /\ pc'[c] = label /\ \A b \in Call \ {c} : pc'[b] = pc[b]
      /\ \A b \in Call : arg'[b].session = arg[b].session /\ arg'[b].tool = arg[b].tool
  BY <1>1, <1>2, TakeTxTypes
<1>4. lock' = [lock EXCEPT ![Mine(c)] = c]
  BY DEF TakeTx, Take
<1>5. QED
  BY <1>1, <1>2, <1>3, <1>4 DEF Owners, Guarded, Detached, Mine, TypeOK

(* Each handler gives its guard back before it waits again.                   *)
LEMMA OwnersNext == HInv /\ [Next]_vars => Owners'
<1> SUFFICES ASSUME HInv, [Next]_vars PROVE Owners'
  OBVIOUS
<1>0. TypeOK /\ WellFormed /\ Discipline /\ Ownership /\ Owners
  BY DEF HInv, IInv
<1> USE <1>0, ConstantsOK DEF Owners, Goto, Mine, Free, Guarded, Detached, Refusing
<1>1. ASSUME NEW s \in Session, StartSession(s) PROVE Owners'
  BY <1>1 DEF TypeOK, WellFormed, StartSession
<1>2. ASSUME NEW s \in Session, ReapIdleTx(s) PROVE Owners'
  BY <1>2 DEF TypeOK, WellFormed, ReapIdleTx
<1>3. ASSUME NEW c \in Call, Begin(c) PROVE Owners'
  BY <1>3 DEF TypeOK, WellFormed, Begin
<1>4. ASSUME NEW c \in Call, Reply(c) PROVE Owners'
  BY <1>4 DEF TypeOK, WellFormed, Reply
<1>5. ASSUME NEW c \in Call, RejectArguments(c) PROVE Owners'
  BY <1>5 DEF TypeOK, WellFormed, RejectArguments
<1>6. ASSUME NEW c \in Call, FetchSchema(c) PROVE Owners'
  BY <1>6 DEF TypeOK, WellFormed, FetchSchema, At
<1>7. ASSUME NEW c \in Call, InsertSchemaSeen(c) PROVE Owners'
  BY <1>7 DEF TypeOK, WellFormed, InsertSchemaSeen
<1>8. ASSUME NEW c \in Call, Open(c) PROVE Owners'
  BY <1>8 DEF TypeOK, WellFormed, Open, At, Take, OpenRefused
<1>9. ASSUME NEW c \in Call, OpenDone(c) PROVE Owners'
  BY <1>9 DEF TypeOK, WellFormed, OpenDone, Unlock
<1>10. ASSUME NEW c \in Call, Query(c) PROVE Owners'
  BY <1>10 DEF TypeOK, WellFormed, Query, At, Take
<1>11. ASSUME NEW c \in Call, QueryDone(c) PROVE Owners'
  BY <1>11 DEF TypeOK, WellFormed, QueryDone, Unlock
<1>12. ASSUME NEW c \in Call, NothingToClose(c) PROVE Owners'
  BY <1>12 DEF TypeOK, WellFormed, NothingToClose
<1>13. ASSUME NEW c \in Call, Commit(c) PROVE Owners'
  BY <1>13, OwnersOfTakeTx DEF Commit, At, Committable
<1>14. ASSUME NEW c \in Call, CommitDone(c) PROVE Owners'
  BY <1>14 DEF TypeOK, WellFormed, CommitDone, AfterCommit, Unlock
<1>15. ASSUME NEW c \in Call, Checkpoint(c) PROVE Owners'
  BY <1>15, OwnersOfTakeTx DEF Checkpoint, At, Committable
<1>16. ASSUME NEW c \in Call, CheckpointCommitted(c) PROVE Owners'
  BY <1>16 DEF TypeOK, WellFormed, CheckpointCommitted, Unlock
<1>17. ASSUME NEW c \in Call, CheckpointReopened(c) PROVE Owners'
  BY <1>17 DEF TypeOK, WellFormed, CheckpointReopened, AfterCommit, Unlock
<1>18. ASSUME NEW c \in Call, Rollback(c) PROVE Owners'
  BY <1>18, OwnersOfTakeTx DEF Rollback, At, Committable
<1>19. ASSUME NEW c \in Call, RollbackDone(c) PROVE Owners'
  BY <1>19 DEF TypeOK, WellFormed, RollbackDone, Unlock
<1>20. ASSUME NEW c \in Call, ReadOnce(c) PROVE Owners'
  BY <1>20 DEF TypeOK, WellFormed, ReadOnce, OpenOwnTx, At, Take, OwnTxRefused
<1>21. ASSUME NEW c \in Call, ReadOnceOpened(c) PROVE Owners'
  BY <1>21 DEF TypeOK, WellFormed, ReadOnceOpened, OwnTxOpened, Unlock
<1>22. ASSUME NEW c \in Call, ReadOnceDone(c) PROVE Owners'
  BY <1>22 DEF TypeOK, WellFormed, ReadOnceDone, Unlock
<1>23. ASSUME NEW c \in Call, WithOwnedTx(c) PROVE Owners'
  BY <1>23 DEF TypeOK, WellFormed, WithOwnedTx, OpenOwnTx, At, Take, OwnTxRefused
<1>24. ASSUME NEW c \in Call, WithOwnedTxOpened(c) PROVE Owners'
  BY <1>24 DEF TypeOK, WellFormed, WithOwnedTxOpened, OwnTxOpened, Unlock
<1>25. ASSUME NEW c \in Call, WithOwnedTxBody(c) PROVE Owners'
  BY <1>25 DEF TypeOK, WellFormed, WithOwnedTxBody, Unlock
<1>26. ASSUME NEW c \in Call, WithOwnedTxDone(c) PROVE Owners'
  BY <1>26 DEF TypeOK, WellFormed, WithOwnedTxDone, AfterCommit
<1>27. ASSUME NEW c \in Call, Sweep(c) PROVE Owners'
  <2>1. live \in SUBSET Session /\ live \ {Mine(c)} \in SUBSET Session
    BY DEF TypeOK
  <2>2. pc'[c] \in {"sweeping", "reply"} /\ pc' = [pc EXCEPT ![c] = pc'[c]]
    BY <1>27, <2>1, OverTypes DEF Sweep
  <2>3. QED
    BY <1>27, <2>2 DEF TypeOK, WellFormed, Sweep
<1>28. ASSUME NEW c \in Call, SweepOne(c) PROVE Owners'
  BY <1>28 DEF TypeOK, WellFormed, SweepOne, Over
<1>29. ASSUME NEW c \in Call, CheckOwnTx(c) PROVE Owners'
  BY <1>29 DEF TypeOK, WellFormed, CheckOwnTx, Over
<1>30. ASSUME NEW c \in Call, ScanOne(c) PROVE Owners'
  BY <1>30 DEF TypeOK, WellFormed, ScanOne, Over
<1>31. ASSUME NEW c \in Call, Reserve(c) PROVE Owners'
  BY <1>31 DEF TypeOK, WellFormed, Reserve
<1>32. ASSUME NEW c \in Call, CreateDone(c) PROVE Owners'
  BY <1>32 DEF TypeOK, WellFormed, CreateDone
<1>33. ASSUME NEW c \in Call, DeleteOk(c) PROVE Owners'
  BY <1>33 DEF TypeOK, WellFormed, DeleteOk
<1>34. ASSUME NEW c \in Call, DeleteFailed(c) PROVE Owners'
  BY <1>34 DEF TypeOK, WellFormed, DeleteFailed
<1>35. ASSUME NEW c \in Call, Migrate(c) PROVE Owners'
  BY <1>35 DEF TypeOK, WellFormed, Migrate, At, Take, MigrateRefused
<1>36. ASSUME JobReply PROVE Owners'
  BY <1>36 DEF TypeOK, WellFormed, Ownership, ReservationsAreOwned, JobKeepsItsCall, JobReply
<1>37. ASSUME JobDropped PROVE Owners'
  BY <1>37 DEF TypeOK, WellFormed, Ownership, ReservationsAreOwned, JobKeepsItsCall, JobDropped
<1>38. CASE UNCHANGED vars
  BY <1>38 DEF TypeOK, vars
<1>39. QED
  BY <1>1, <1>2, <1>3, <1>4, <1>5, <1>6, <1>7, <1>8, <1>9, <1>10, <1>11, <1>12,
     <1>13, <1>14, <1>15, <1>16, <1>17, <1>18, <1>19, <1>20, <1>21, <1>22, <1>23,
     <1>24, <1>25, <1>26, <1>27, <1>28, <1>29, <1>30, <1>31, <1>32, <1>33, <1>34,
     <1>35, <1>36, <1>37, <1>38 DEF Next, Lock, Proceed

(* So it is in every state.                                                   *)
LEMMA OwnersHold == Spec => []HInv
<1>1. Init => HInv
  BY InvInit, OwnersInit DEF HInv
<1>2. HInv /\ [Next]_vars => HInv'
  BY TypeNext, DisciplineNext, OwnershipNext, OwnersNext DEF HInv, IInv
<1>3. QED
  BY <1>1, <1>2, PTL DEF Spec

(* NoHoldAndWait: no circle of calls that wait for each other's mutexes, the  *)
(* refusals of two tools set aside, for any number of calls and sessions.     *)
THEOREM NoHoldAndWaitHolds == Spec => []NoHoldAndWait
<1>1. HInv => NoHoldAndWait
  BY DEF HInv, Owners, Guarded, Refusing, NoHoldAndWait
<1>2. QED
  BY <1>1, OwnersHold, PTL

(* NobodyWaitsForItself: where those two tools are not mounted, no answer     *)
(* waits for a guard of its own handler.  Where they are, it may: see the run *)
(* migrate_guard (tools.rs, refusals built by snapshot under a guard).        *)
THEOREM NobodyWaitsHolds ==
    ASSUME Enabled \cap {"delete_database", "migrate"} = {}
    PROVE  Spec => []NobodyWaitsForItself
<1>1. HInv => NobodyWaitsForItself
  BY DEF HInv, IInv, WellFormed, Owners, Guarded, Refusing, NobodyWaitsForItself
<1>2. QED
  BY <1>1, OwnersHold, PTL

(* AtMostOneTransaction, which the run owned_tx refutes, is true of every     *)
(* router that does not offer with_owned_tx, the server's own among them      *)
(* (core.rs, with_owned_tx, is called by embedders only).                     *)
THEOREM AtMostOneTransactionHolds ==
    ASSUME "with_owned_tx" \notin Enabled
    PROVE  Spec => []AtMostOneTransaction
<1>1. HInv => AtMostOneTransaction
  <2> SUFFICES ASSUME HInv, NEW c \in Call, held[c] # None
               PROVE  /\ tx[Mine(c)] = None
                      /\ \A b \in Call \ {c} : held[b] # None => Mine(b) # Mine(c)
    BY DEF AtMostOneTransaction
  <2>1. \A b \in Call : pc[b] \notin Detached
    BY DEF HInv, Owners, Detached
  <2>2. \A b \in Call : held[b] # None => lock[Mine(b)] = b /\ tx[Mine(b)] = None
    BY <2>1 DEF HInv, IInv, Discipline, Guarded, InHand
  <2>3. QED
    BY <2>2
<1>2. QED
  BY <1>1, OwnersHold, PTL

-----------------------------------------------------------------------------
(* Gates. *)

(* A gate is open only in a session of the store, which is where a sweep      *)
(* looks; a call that changed a schema knows it.                              *)
GatesAreListed ==
    /\ \A c \in Call : pc[c] # "idle" => Mine(c) \in live
    /\ \A s \in Session : stale[s] \subseteq schema_seen[s]
    /\ \A s \in Session : schema_seen[s] # {} => s \in live
    /\ \A c \in Call :
          /\ pc[c] = "sweeping" => peer[c] \in todo[c]
          /\ pc[c] \in {"scan", "reserve"} =>
                arg[c].tool \in {"create_database", "delete_database"}
          /\ pc[c] = "deleting" => arg[c].tool = "delete_database"

GInv == IInv /\ GatesAreListed /\ StaleGatesAreClosed

LEMMA GatesAreListedNext == GInv /\ [Next]_vars => GatesAreListed'
<1> SUFFICES ASSUME GInv, [Next]_vars PROVE GatesAreListed'
  OBVIOUS
<1>0. TypeOK /\ WellFormed /\ GatesAreListed
  BY DEF GInv, IInv
<1> USE <1>0 DEF GatesAreListed, Goto, Mine, Db
<1>1. ASSUME NEW s \in Session, StartSession(s) PROVE GatesAreListed'
  BY <1>1 DEF TypeOK, WellFormed, StartSession
<1>2. ASSUME NEW s \in Session, ReapIdleTx(s) PROVE GatesAreListed'
  BY <1>2 DEF TypeOK, WellFormed, ReapIdleTx
<1>3. ASSUME NEW c \in Call, Begin(c) PROVE GatesAreListed'
  BY <1>3 DEF TypeOK, WellFormed, Begin
<1>4. ASSUME NEW c \in Call, Reply(c) PROVE GatesAreListed'
  BY <1>4 DEF TypeOK, WellFormed, Reply
<1>5. ASSUME NEW c \in Call, RejectArguments(c) PROVE GatesAreListed'
  BY <1>5 DEF TypeOK, WellFormed, RejectArguments
<1>6. ASSUME NEW c \in Call, FetchSchema(c) PROVE GatesAreListed'
  BY <1>6 DEF TypeOK, WellFormed, FetchSchema, At
<1>7. ASSUME NEW c \in Call, InsertSchemaSeen(c) PROVE GatesAreListed'
  BY <1>7 DEF TypeOK, WellFormed, InsertSchemaSeen
<1>8. ASSUME NEW c \in Call, Open(c) PROVE GatesAreListed'
  BY <1>8 DEF TypeOK, WellFormed, Open, At, Take, OpenRefused
<1>9. ASSUME NEW c \in Call, OpenDone(c) PROVE GatesAreListed'
  BY <1>9 DEF TypeOK, WellFormed, OpenDone, Unlock
<1>10. ASSUME NEW c \in Call, Query(c) PROVE GatesAreListed'
  BY <1>10 DEF TypeOK, WellFormed, Query, At, Take
<1>11. ASSUME NEW c \in Call, QueryDone(c) PROVE GatesAreListed'
  BY <1>11 DEF TypeOK, WellFormed, QueryDone, Unlock
<1>12. ASSUME NEW c \in Call, NothingToClose(c) PROVE GatesAreListed'
  BY <1>12 DEF TypeOK, WellFormed, NothingToClose
<1>13. ASSUME NEW c \in Call, Commit(c) PROVE GatesAreListed'
  <2>1. Mine(c) \in Session /\ tx[Mine(c)] # None /\ pc[c] = "enter"
    BY <1>13 DEF WellFormed, Commit, At, Committable
  <2> DEFINE label == "committing"
  <2>2. label \in Labels /\ TakeTx(c, label)
    BY <1>13 DEF Labels, Commit
  <2>3. /\ pc'[c] = label /\ \A b \in Call \ {c} : pc'[b] = pc[b]
        /\ arg'[c].session = arg[c].session /\ \A b \in Call \ {c} : arg'[b] = arg[b]
    BY <2>1, <2>2, TakeTxTypes
  <2>4. QED
    BY <1>13, <2>1, <2>3 DEF Commit
<1>14. ASSUME NEW c \in Call, CommitDone(c) PROVE GatesAreListed'
  BY <1>14 DEF TypeOK, WellFormed, CommitDone, AfterCommit, Unlock, Committed, SchemaChanged
<1>15. ASSUME NEW c \in Call, Checkpoint(c) PROVE GatesAreListed'
  <2>1. Mine(c) \in Session /\ tx[Mine(c)] # None /\ pc[c] = "enter"
    BY <1>15 DEF WellFormed, Checkpoint, At, Committable
  <2> DEFINE label == "checkpointing"
  <2>2. label \in Labels /\ TakeTx(c, label)
    BY <1>15 DEF Labels, Checkpoint
  <2>3. /\ pc'[c] = label /\ \A b \in Call \ {c} : pc'[b] = pc[b]
        /\ arg'[c].session = arg[c].session /\ \A b \in Call \ {c} : arg'[b] = arg[b]
    BY <2>1, <2>2, TakeTxTypes
  <2>4. QED
    BY <1>15, <2>1, <2>3 DEF Checkpoint
<1>16. ASSUME NEW c \in Call, CheckpointCommitted(c) PROVE GatesAreListed'
  BY <1>16 DEF TypeOK, WellFormed, CheckpointCommitted, Unlock, Committed, SchemaChanged
<1>17. ASSUME NEW c \in Call, CheckpointReopened(c) PROVE GatesAreListed'
  BY <1>17 DEF TypeOK, WellFormed, CheckpointReopened, AfterCommit, Unlock
<1>18. ASSUME NEW c \in Call, Rollback(c) PROVE GatesAreListed'
  <2>1. Mine(c) \in Session /\ tx[Mine(c)] # None /\ pc[c] = "enter"
    BY <1>18 DEF WellFormed, Rollback, At, Committable
  <2> DEFINE label == "releasing"
  <2>2. label \in Labels /\ TakeTx(c, label)
    BY <1>18 DEF Labels, Rollback
  <2>3. /\ pc'[c] = label /\ \A b \in Call \ {c} : pc'[b] = pc[b]
        /\ arg'[c].session = arg[c].session /\ \A b \in Call \ {c} : arg'[b] = arg[b]
    BY <2>1, <2>2, TakeTxTypes
  <2>4. QED
    BY <1>18, <2>1, <2>3 DEF Rollback
<1>19. ASSUME NEW c \in Call, RollbackDone(c) PROVE GatesAreListed'
  BY <1>19 DEF TypeOK, WellFormed, RollbackDone, Unlock
<1>20. ASSUME NEW c \in Call, ReadOnce(c) PROVE GatesAreListed'
  BY <1>20 DEF TypeOK, WellFormed, ReadOnce, OpenOwnTx, At, Take, OwnTxRefused
<1>21. ASSUME NEW c \in Call, ReadOnceOpened(c) PROVE GatesAreListed'
  BY <1>21 DEF TypeOK, WellFormed, ReadOnceOpened, OwnTxOpened, Unlock
<1>22. ASSUME NEW c \in Call, ReadOnceDone(c) PROVE GatesAreListed'
  BY <1>22 DEF TypeOK, WellFormed, ReadOnceDone, Unlock
<1>23. ASSUME NEW c \in Call, WithOwnedTx(c) PROVE GatesAreListed'
  BY <1>23 DEF TypeOK, WellFormed, WithOwnedTx, OpenOwnTx, At, Take, OwnTxRefused
<1>24. ASSUME NEW c \in Call, WithOwnedTxOpened(c) PROVE GatesAreListed'
  BY <1>24 DEF TypeOK, WellFormed, WithOwnedTxOpened, OwnTxOpened, Unlock
<1>25. ASSUME NEW c \in Call, WithOwnedTxBody(c) PROVE GatesAreListed'
  BY <1>25 DEF TypeOK, WellFormed, WithOwnedTxBody, Unlock
<1>26. ASSUME NEW c \in Call, WithOwnedTxDone(c) PROVE GatesAreListed'
  BY <1>26 DEF TypeOK, WellFormed, WithOwnedTxDone, AfterCommit, Committed, SchemaChanged
<1>27. ASSUME NEW c \in Call, Sweep(c) PROVE GatesAreListed'
  BY <1>27 DEF TypeOK, WellFormed, Sweep, Over
<1>28. ASSUME NEW c \in Call, SweepOne(c) PROVE GatesAreListed'
  BY <1>28 DEF TypeOK, WellFormed, SweepOne, Over
<1>29. ASSUME NEW c \in Call, CheckOwnTx(c) PROVE GatesAreListed'
  BY <1>29 DEF TypeOK, WellFormed, CheckOwnTx, Over
<1>30. ASSUME NEW c \in Call, ScanOne(c) PROVE GatesAreListed'
  BY <1>30 DEF TypeOK, WellFormed, ScanOne, Over
<1>31. ASSUME NEW c \in Call, Reserve(c) PROVE GatesAreListed'
  BY <1>31 DEF TypeOK, WellFormed, Reserve
<1>32. ASSUME NEW c \in Call, CreateDone(c) PROVE GatesAreListed'
  BY <1>32 DEF TypeOK, WellFormed, CreateDone
<1>33. ASSUME NEW c \in Call, DeleteOk(c) PROVE GatesAreListed'
  BY <1>33 DEF TypeOK, WellFormed, DeleteOk, SchemaChanged
<1>34. ASSUME NEW c \in Call, DeleteFailed(c) PROVE GatesAreListed'
  BY <1>34 DEF TypeOK, WellFormed, DeleteFailed
<1>35. ASSUME NEW c \in Call, Migrate(c) PROVE GatesAreListed'
  BY <1>35 DEF TypeOK, WellFormed, Migrate, At, Take, MigrateRefused
<1>36. ASSUME JobReply PROVE GatesAreListed'
  BY <1>36 DEF TypeOK, WellFormed, JobReply, SchemaChanged
<1>37. ASSUME JobDropped PROVE GatesAreListed'
  BY <1>37 DEF TypeOK, WellFormed, JobDropped
<1>38. CASE UNCHANGED vars
  BY <1>38 DEF TypeOK, vars
<1>39. QED
  BY <1>1, <1>2, <1>3, <1>4, <1>5, <1>6, <1>7, <1>8, <1>9, <1>10, <1>11, <1>12,
     <1>13, <1>14, <1>15, <1>16, <1>17, <1>18, <1>19, <1>20, <1>21, <1>22, <1>23,
     <1>24, <1>25, <1>26, <1>27, <1>28, <1>29, <1>30, <1>31, <1>32, <1>33, <1>34,
     <1>35, <1>36, <1>37, <1>38 DEF Next, Lock, Proceed

(* The other calls stay where they are, and no gate becomes stale. *)
OthersStay(c) == \A b \in Call \ {c} : /\ pc'[b] = pc[b]
                                        /\ arg'[b] = arg[b]
                                        /\ todo'[b] = todo[b]
NoneStaler == \A s \in Session : stale'[s] \subseteq stale[s]
ClosingLabels == {"reopening", "sweep", "sweeping"}

LEMMA QuietStep ==
    ASSUME StaleGatesAreClosed, NEW c \in Call, OthersStay(c), NoneStaler,
           pc[c] \notin ClosingLabels
    PROVE  StaleGatesAreClosed'
<1> SUFFICES ASSUME NEW s \in Session, NEW d \in stale'[s]
             PROVE  \E b \in Call : Closing(b, s, d)'
  BY DEF StaleGatesAreClosed
<1>1. PICK b \in Call : Closing(b, s, d)
  BY DEF StaleGatesAreClosed, NoneStaler
<1>2. b # c
  BY <1>1 DEF Closing, ClosingLabels
<1>3. QED
  BY <1>1, <1>2 DEF Closing, OthersStay, Mine, Db

(* A schema change whose author goes on to tell the peers. *)
LEMMA ChangeStep ==
    ASSUME StaleGatesAreClosed, stale \in [Session -> SUBSET Database],
           NEW c \in Call, NEW p, OthersStay(c), SchemaChanged(Db(c), p),
           pc[c] \notin ClosingLabels,
           arg' = arg,
           \A s \in Session : s # p => Closing(c, s, Db(c))'
    PROVE  StaleGatesAreClosed'
<1> SUFFICES ASSUME NEW s \in Session, NEW d \in stale'[s]
             PROVE  \E b \in Call : Closing(b, s, d)'
  BY DEF StaleGatesAreClosed
<1>1. CASE d \in stale[s] /\ ~(d = Db(c) /\ s # p)
  <2>1. PICK b \in Call : Closing(b, s, d)
    BY <1>1 DEF StaleGatesAreClosed
  <2>2. b # c
    BY <2>1 DEF Closing, ClosingLabels
  <2>3. QED
    BY <2>1, <2>2 DEF Closing, OthersStay, Mine, Db
<1>2. CASE d = Db(c) /\ s # p
  <2>1. Db(c)' = Db(c)
    BY DEF Db
  <2>2. QED
    BY <1>2, <2>1
<1>3. QED
  BY <1>1, <1>2 DEF SchemaChanged

LEMMA StaleGatesNext == GInv /\ [Next]_vars => StaleGatesAreClosed'
<1> SUFFICES ASSUME GInv, [Next]_vars PROVE StaleGatesAreClosed'
  OBVIOUS
<1>0. TypeOK /\ WellFormed /\ GatesAreListed /\ StaleGatesAreClosed
  BY DEF GInv, IInv
<1> USE <1>0 DEF Goto
<1>1. ASSUME NEW s \in Session, StartSession(s) PROVE StaleGatesAreClosed'
  BY <1>1 DEF StaleGatesAreClosed, Closing, Mine, Db, StartSession
<1>2. ASSUME NEW s \in Session, ReapIdleTx(s) PROVE StaleGatesAreClosed'
  BY <1>2 DEF StaleGatesAreClosed, Closing, Mine, Db, ReapIdleTx
<1>3. ASSUME NEW c \in Call, Begin(c) PROVE StaleGatesAreClosed'
  BY <1>3, QuietStep DEF OthersStay, NoneStaler, ClosingLabels, TypeOK, Begin
<1>4. ASSUME NEW c \in Call, Reply(c) PROVE StaleGatesAreClosed'
  BY <1>4, QuietStep DEF OthersStay, NoneStaler, ClosingLabels, TypeOK, Reply
<1>5. ASSUME NEW c \in Call, RejectArguments(c) PROVE StaleGatesAreClosed'
  BY <1>5, QuietStep DEF OthersStay, NoneStaler, ClosingLabels, TypeOK, RejectArguments
<1>6. ASSUME NEW c \in Call, FetchSchema(c) PROVE StaleGatesAreClosed'
  BY <1>6, QuietStep DEF OthersStay, NoneStaler, ClosingLabels, TypeOK, FetchSchema, At
<1>7. ASSUME NEW c \in Call, InsertSchemaSeen(c) PROVE StaleGatesAreClosed'
  BY <1>7, QuietStep DEF OthersStay, NoneStaler, ClosingLabels, TypeOK, InsertSchemaSeen
<1>8. ASSUME NEW c \in Call, Open(c) PROVE StaleGatesAreClosed'
  BY <1>8, QuietStep DEF OthersStay, NoneStaler, ClosingLabels, TypeOK, Open, At, Take, OpenRefused
<1>9. ASSUME NEW c \in Call, OpenDone(c) PROVE StaleGatesAreClosed'
  BY <1>9, QuietStep DEF OthersStay, NoneStaler, ClosingLabels, TypeOK, OpenDone, Unlock
<1>10. ASSUME NEW c \in Call, Query(c) PROVE StaleGatesAreClosed'
  BY <1>10, QuietStep DEF OthersStay, NoneStaler, ClosingLabels, TypeOK, Query, At, Take
<1>11. ASSUME NEW c \in Call, QueryDone(c) PROVE StaleGatesAreClosed'
  BY <1>11, QuietStep DEF OthersStay, NoneStaler, ClosingLabels, TypeOK, QueryDone, Unlock
<1>12. ASSUME NEW c \in Call, NothingToClose(c) PROVE StaleGatesAreClosed'
  BY <1>12, QuietStep DEF OthersStay, NoneStaler, ClosingLabels, TypeOK, NothingToClose
<1>13. ASSUME NEW c \in Call, Commit(c) PROVE StaleGatesAreClosed'
  <2>1. Mine(c) \in Session /\ tx[Mine(c)] # None /\ pc[c] = "enter"
    BY <1>13 DEF WellFormed, Commit, At, Committable
  <2>2. TakeTx(c, "committing") /\ "committing" \in Labels
    BY <1>13 DEF Labels, Commit
  <2>3. OthersStay(c)
    BY <1>13, <2>1, <2>2, TakeTxTypes DEF OthersStay, Commit
  <2>4. QED
    BY <1>13, <2>1, <2>3, QuietStep DEF NoneStaler, ClosingLabels, Commit
<1>14. ASSUME NEW c \in Call, CommitDone(c) PROVE StaleGatesAreClosed'
  <2>1. OthersStay(c) /\ pc[c] \notin ClosingLabels /\ arg' = arg
    BY <1>14 DEF OthersStay, ClosingLabels, TypeOK, CommitDone
  <2>2. CASE arg[c].kind = "schema" /\ SchemaChanged(Db(c), Mine(c)) /\ Goto(c, "sweep")
    <3>1. \A s \in Session : s # Mine(c) => Closing(c, s, Db(c))'
      BY <1>14, <2>2 DEF Closing, Mine, Db, TypeOK, CommitDone
    <3>2. QED
      BY <2>1, <2>2, <3>1, ChangeStep DEF TypeOK
  <2>3. CASE UNCHANGED history
    BY <2>1, <2>3, QuietStep DEF NoneStaler
  <2>4. QED
    BY <1>14, <2>2, <2>3 DEF CommitDone, Committed, AfterCommit
<1>15. ASSUME NEW c \in Call, Checkpoint(c) PROVE StaleGatesAreClosed'
  <2>1. Mine(c) \in Session /\ tx[Mine(c)] # None /\ pc[c] = "enter"
    BY <1>15 DEF WellFormed, Checkpoint, At, Committable
  <2>2. TakeTx(c, "checkpointing") /\ "checkpointing" \in Labels
    BY <1>15 DEF Labels, Checkpoint
  <2>3. OthersStay(c)
    BY <1>15, <2>1, <2>2, TakeTxTypes DEF OthersStay, Checkpoint
  <2>4. QED
    BY <1>15, <2>1, <2>3, QuietStep DEF NoneStaler, ClosingLabels, Checkpoint
<1>16. ASSUME NEW c \in Call, CheckpointCommitted(c) PROVE StaleGatesAreClosed'
  <2>1. OthersStay(c) /\ pc[c] \notin ClosingLabels /\ arg' = arg
    BY <1>16 DEF OthersStay, ClosingLabels, TypeOK, CheckpointCommitted
  <2>2. CASE arg[c].kind = "schema" /\ SchemaChanged(Db(c), Mine(c)) /\ Goto(c, "reopening")
    <3>1. \A s \in Session : s # Mine(c) => Closing(c, s, Db(c))'
      BY <1>16, <2>2 DEF Closing, Mine, Db, TypeOK, CheckpointCommitted
    <3>2. QED
      BY <2>1, <2>2, <3>1, ChangeStep DEF TypeOK
  <2>3. CASE UNCHANGED history
    BY <2>1, <2>3, QuietStep DEF NoneStaler
  <2>4. QED
    BY <1>16, <2>2, <2>3 DEF CheckpointCommitted, Committed
<1>17. ASSUME NEW c \in Call, CheckpointReopened(c) PROVE StaleGatesAreClosed'
  <2> SUFFICES ASSUME NEW s \in Session, NEW d \in stale'[s]
               PROVE  \E b \in Call : Closing(b, s, d)'
    BY DEF StaleGatesAreClosed
  <2>1. d \in stale[s]
    BY <1>17 DEF CheckpointReopened, TypeOK
  <2>2. PICK b \in Call : Closing(b, s, d)
    BY <2>1 DEF StaleGatesAreClosed
  <2>3. CASE b = c
    BY <1>17, <2>1, <2>2, <2>3 DEF Closing, Mine, Db, TypeOK, CheckpointReopened, AfterCommit
  <2>4. CASE b # c
    <3>1. OthersStay(c)
      BY <1>17 DEF OthersStay, CheckpointReopened, Over, TypeOK
    <3>2. QED
      BY <2>2, <2>4, <3>1 DEF Closing, OthersStay, Mine, Db
  <2>5. QED
    BY <2>3, <2>4
<1>18. ASSUME NEW c \in Call, Rollback(c) PROVE StaleGatesAreClosed'
  <2>1. Mine(c) \in Session /\ tx[Mine(c)] # None /\ pc[c] = "enter"
    BY <1>18 DEF WellFormed, Rollback, At, Committable
  <2>2. TakeTx(c, "releasing") /\ "releasing" \in Labels
    BY <1>18 DEF Labels, Rollback
  <2>3. OthersStay(c)
    BY <1>18, <2>1, <2>2, TakeTxTypes DEF OthersStay, Rollback
  <2>4. QED
    BY <1>18, <2>1, <2>3, QuietStep DEF NoneStaler, ClosingLabels, Rollback
<1>19. ASSUME NEW c \in Call, RollbackDone(c) PROVE StaleGatesAreClosed'
  BY <1>19, QuietStep DEF OthersStay, NoneStaler, ClosingLabels, TypeOK, RollbackDone, Unlock
<1>20. ASSUME NEW c \in Call, ReadOnce(c) PROVE StaleGatesAreClosed'
  BY <1>20, QuietStep DEF OthersStay, NoneStaler, ClosingLabels, TypeOK, ReadOnce, OpenOwnTx, At, Take, OwnTxRefused
<1>21. ASSUME NEW c \in Call, ReadOnceOpened(c) PROVE StaleGatesAreClosed'
  BY <1>21, QuietStep DEF OthersStay, NoneStaler, ClosingLabels, TypeOK, ReadOnceOpened, OwnTxOpened, Unlock
<1>22. ASSUME NEW c \in Call, ReadOnceDone(c) PROVE StaleGatesAreClosed'
  BY <1>22, QuietStep DEF OthersStay, NoneStaler, ClosingLabels, TypeOK, ReadOnceDone, Unlock
<1>23. ASSUME NEW c \in Call, WithOwnedTx(c) PROVE StaleGatesAreClosed'
  BY <1>23, QuietStep DEF OthersStay, NoneStaler, ClosingLabels, TypeOK, WithOwnedTx, OpenOwnTx, At, Take, OwnTxRefused
<1>24. ASSUME NEW c \in Call, WithOwnedTxOpened(c) PROVE StaleGatesAreClosed'
  BY <1>24, QuietStep DEF OthersStay, NoneStaler, ClosingLabels, TypeOK, WithOwnedTxOpened, OwnTxOpened, Unlock
<1>25. ASSUME NEW c \in Call, WithOwnedTxBody(c) PROVE StaleGatesAreClosed'
  BY <1>25, QuietStep DEF OthersStay, NoneStaler, ClosingLabels, TypeOK, WithOwnedTxBody, Unlock
<1>26. ASSUME NEW c \in Call, WithOwnedTxDone(c) PROVE StaleGatesAreClosed'
  <2>1. OthersStay(c) /\ pc[c] \notin ClosingLabels /\ arg' = arg
    BY <1>26 DEF OthersStay, ClosingLabels, TypeOK, WithOwnedTxDone
  <2>2. CASE arg[c].kind = "schema" /\ SchemaChanged(Db(c), Mine(c)) /\ Goto(c, "sweep")
    <3>1. \A s \in Session : s # Mine(c) => Closing(c, s, Db(c))'
      BY <1>26, <2>2 DEF Closing, Mine, Db, TypeOK, WithOwnedTxDone
    <3>2. QED
      BY <2>1, <2>2, <3>1, ChangeStep DEF TypeOK
  <2>3. CASE UNCHANGED history
    BY <2>1, <2>3, QuietStep DEF NoneStaler
  <2>4. QED
    BY <1>26, <2>2, <2>3 DEF WithOwnedTxDone, Committed, AfterCommit
<1>27. ASSUME NEW c \in Call, Sweep(c) PROVE StaleGatesAreClosed'
  <2> SUFFICES ASSUME NEW s \in Session, NEW d \in stale'[s]
               PROVE  \E b \in Call : Closing(b, s, d)'
    BY DEF StaleGatesAreClosed
  <2>1. d \in stale[s]
    BY <1>27 DEF Sweep, TypeOK
  <2>2. PICK b \in Call : Closing(b, s, d)
    BY <2>1 DEF StaleGatesAreClosed
  <2>3. CASE b = c
    <3>1. s \in live
      BY <2>1 DEF GatesAreListed
    <3>2. s \in IF arg[c].tool = "delete_database" THEN live ELSE live \ {Mine(c)}
      BY <1>27, <2>2, <2>3, <3>1 DEF Closing, Sweep
    <3>3. pc'[c] = "sweeping" /\ s \in todo'[c] /\ arg' = arg
      BY <1>27, <3>2 DEF Sweep, Over, TypeOK
    <3>4. QED
      BY <2>2, <2>3, <3>3 DEF Closing, Db
  <2>4. CASE b # c
    <3>1. OthersStay(c)
      BY <1>27 DEF OthersStay, Sweep, Over, TypeOK
    <3>2. QED
      BY <2>2, <2>4, <3>1 DEF Closing, OthersStay, Mine, Db
  <2>5. QED
    BY <2>3, <2>4
<1>28. ASSUME NEW c \in Call, SweepOne(c) PROVE StaleGatesAreClosed'
  <2> SUFFICES ASSUME NEW s \in Session, NEW d \in stale'[s]
               PROVE  \E b \in Call : Closing(b, s, d)'
    BY DEF StaleGatesAreClosed
  <2>1. d \in stale[s]
    BY <1>28 DEF SweepOne, TypeOK
  <2>2. PICK b \in Call : Closing(b, s, d)
    BY <2>1 DEF StaleGatesAreClosed
  <2>3. CASE b = c
    <3>1. s # peer[c]
      BY <1>28, <2>1, <2>2, <2>3 DEF Closing, SweepOne, TypeOK
    <3>2. s \in todo[c] \ {peer[c]} /\ Db(c) = d
      BY <1>28, <2>2, <2>3, <3>1 DEF Closing, SweepOne
    <3>3. pc'[c] = "sweeping" /\ s \in todo'[c] /\ arg' = arg
      BY <1>28, <3>2 DEF SweepOne, Over, TypeOK
    <3>4. QED
      BY <2>3, <3>2, <3>3 DEF Closing, Db
  <2>4. CASE b # c
    <3>1. OthersStay(c)
      BY <1>28 DEF OthersStay, SweepOne, Over, TypeOK
    <3>2. QED
      BY <2>2, <2>4, <3>1 DEF Closing, OthersStay, Mine, Db
  <2>5. QED
    BY <2>3, <2>4
<1>29. ASSUME NEW c \in Call, CheckOwnTx(c) PROVE StaleGatesAreClosed'
  BY <1>29, QuietStep DEF OthersStay, NoneStaler, ClosingLabels, TypeOK, CheckOwnTx, Over
<1>30. ASSUME NEW c \in Call, ScanOne(c) PROVE StaleGatesAreClosed'
  BY <1>30, QuietStep DEF OthersStay, NoneStaler, ClosingLabels, TypeOK, ScanOne, Over
<1>31. ASSUME NEW c \in Call, Reserve(c) PROVE StaleGatesAreClosed'
  BY <1>31, QuietStep DEF OthersStay, NoneStaler, ClosingLabels, TypeOK, Reserve
<1>32. ASSUME NEW c \in Call, CreateDone(c) PROVE StaleGatesAreClosed'
  BY <1>32, QuietStep DEF OthersStay, NoneStaler, ClosingLabels, TypeOK, CreateDone
<1>33. ASSUME NEW c \in Call, DeleteOk(c) PROVE StaleGatesAreClosed'
  <2>1. OthersStay(c) /\ pc[c] \notin ClosingLabels /\ arg' = arg
        /\ SchemaChanged(Db(c), None)
    BY <1>33 DEF OthersStay, ClosingLabels, TypeOK, DeleteOk
  <2>2. arg[c].tool = "delete_database"
    BY <1>33 DEF GatesAreListed, DeleteOk
  <2>3. \A s \in Session : Closing(c, s, Db(c))'
    BY <1>33, <2>2 DEF Closing, Mine, Db, TypeOK, DeleteOk
  <2>4. QED
    BY <2>1, <2>3, ChangeStep DEF TypeOK
<1>34. ASSUME NEW c \in Call, DeleteFailed(c) PROVE StaleGatesAreClosed'
  BY <1>34, QuietStep DEF OthersStay, NoneStaler, ClosingLabels, TypeOK, DeleteFailed
<1>35. ASSUME NEW c \in Call, Migrate(c) PROVE StaleGatesAreClosed'
  BY <1>35, QuietStep DEF OthersStay, NoneStaler, ClosingLabels, TypeOK, Migrate, At, Take, MigrateRefused
<1>36. ASSUME JobReply PROVE StaleGatesAreClosed'
  <2> PICK c \in Call : c = job
    BY <1>36 DEF TypeOK, JobReply
  <2>1. OthersStay(c) /\ pc[c] \notin ClosingLabels /\ arg' = arg
    BY <1>36 DEF OthersStay, ClosingLabels, TypeOK, JobReply
  <2>2. CASE SchemaChanged(Db(c), Mine(c)) /\ Goto(c, "sweep")
    <3>1. \A s \in Session : s # Mine(c) => Closing(c, s, Db(c))'
      BY <2>1, <2>2 DEF Closing, Mine, Db, TypeOK
    <3>2. QED
      BY <2>1, <2>2, <3>1, ChangeStep DEF TypeOK
  <2>3. CASE UNCHANGED history
    BY <2>1, <2>3, QuietStep DEF NoneStaler
  <2>4. QED
    BY <1>36, <2>2, <2>3 DEF JobReply
<1>37. ASSUME JobDropped PROVE StaleGatesAreClosed'
  BY <1>37 DEF StaleGatesAreClosed, Closing, Mine, Db, JobDropped
<1>38. CASE UNCHANGED vars
  BY <1>38 DEF StaleGatesAreClosed, Closing, Mine, Db, vars
<1>39. QED
  BY <1>1, <1>2, <1>3, <1>4, <1>5, <1>6, <1>7, <1>8, <1>9, <1>10, <1>11, <1>12,
     <1>13, <1>14, <1>15, <1>16, <1>17, <1>18, <1>19, <1>20, <1>21, <1>22, <1>23,
     <1>24, <1>25, <1>26, <1>27, <1>28, <1>29, <1>30, <1>31, <1>32, <1>33, <1>34,
     <1>35, <1>36, <1>37, <1>38 DEF Next, Lock, Proceed

(* StaleGatesAreClosed: whoever changed a schema still has every gate that   *)
(* is older on its way; the sweep misses none, because a session with a gate *)
(* is in the store when the sweep lists it.                                  *)
THEOREM StaleGatesHold == Spec => []StaleGatesAreClosed
<1>1. Init => GInv
  BY InvInit, ConstantsOK DEF Init, GInv, GatesAreListed, StaleGatesAreClosed
<1>2. GInv /\ [Next]_vars => GInv'
  <2>1. GInv /\ [Next]_vars => IInv'
    BY TypeNext, DisciplineNext, OwnershipNext DEF IInv, GInv
  <2>2. QED
    BY <2>1, GatesAreListedNext, StaleGatesNext DEF GInv
<1>3. GInv => StaleGatesAreClosed
  BY DEF GInv
<1>4. QED
  BY <1>1, <1>2, <1>3, PTL DEF Spec

=============================================================================
