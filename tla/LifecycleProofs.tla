--------------------------- MODULE LifecycleProofs ---------------------------
(***************************************************************************)
(* ToolCalls implements TxLifecycle, for any number of calls, sessions and *)
(* databases.                                                              *)
(***************************************************************************)
EXTENDS ToolCallsProofs

(* A call that is about to open a transaction keeps the gate it found open:  *)
(* a sweep has to wait for the mutex.  A call about to renew one still has   *)
(* the database and the kind of the one it commits in its request.  What     *)
(* with_owned_tx still has to end after it unlocked is no longer the         *)
(* session's.                                                                *)
Opening == {"opening", "once_open", "owned_open"}

GatesStand ==
    \A c \in Call :
        /\ pc[c] \in Opening => Db(c) \in schema_seen[Mine(c)]
        /\ pc[c] = "checkpointing" =>
              held[c] = [database |-> Db(c), kind |-> arg[c].kind]
        /\ pc[c] \in Detached => lock[Mine(c)] # c

LInv == IInv /\ GatesStand

USE DEF sessions, server, loop, history

LEMMA GatesStandInit == Init => GatesStand
BY DEF Init, GatesStand, Opening, Detached

LEMMA GatesOfTakeTx ==
    ASSUME LInv, NEW c \in Call, NEW label \in {"committing", "checkpointing", "releasing"},
           pc[c] = "enter", tx[Mine(c)] # None, TakeTx(c, label), UNCHANGED schema_seen
    PROVE  GatesStand'
<1>1. TypeOK /\ WellFormed /\ GatesStand
  BY DEF LInv, IInv
<1>2. Mine(c) \in Session /\ label \in Labels
  BY <1>1 DEF WellFormed, Labels
<1>3. /\ pc'[c] = label /\ \A b \in Call \ {c} : pc'[b] = pc[b] /\ arg'[b] = arg[b]
  BY <1>1, <1>2, TakeTxTypes
<1>4. /\ held' = [held EXCEPT ![c] = tx[Mine(c)]]
      /\ arg' = [arg EXCEPT ![c].database = tx[Mine(c)].database,
                            ![c].kind = tx[Mine(c)].kind]
      /\ lock' = [lock EXCEPT ![Mine(c)] = c]
  BY DEF TakeTx, Take
<1>5. tx[Mine(c)] \in OpenTx
  BY <1>1, <1>2 DEF TypeOK
<1>6. held'[c] = [database |-> arg'[c].database, kind |-> arg'[c].kind]
  <2>1. arg[c] \in Arguments /\ held'[c] = tx[Mine(c)]
    BY <1>1, <1>4 DEF TypeOK
  <2>2. arg'[c].database = tx[Mine(c)].database /\ arg'[c].kind = tx[Mine(c)].kind
    BY <1>1, <1>4, <2>1 DEF TypeOK, Arguments
  <2>3. QED
    BY <1>5, <2>1, <2>2 DEF OpenTx
<1>7. ASSUME NEW b \in Call \ {c}
      PROVE  /\ held'[b] = held[b]
             /\ lock'[Mine(b)] = b => lock[Mine(b)] = b
  BY <1>1, <1>4 DEF TypeOK
<1>8. QED
  BY <1>1, <1>3, <1>6, <1>7 DEF GatesStand, Opening, Detached, Mine, Db

LEMMA GatesStandNext == LInv /\ [Next]_vars => GatesStand'
<1> SUFFICES ASSUME LInv, [Next]_vars PROVE GatesStand'
  OBVIOUS
<1>0. TypeOK /\ WellFormed /\ Discipline /\ GatesStand
  BY DEF LInv, IInv
<1> USE <1>0, ConstantsOK DEF GatesStand, Opening, Detached, Goto, Mine, Db, Free
<1>1. ASSUME NEW s \in Session, StartSession(s) PROVE GatesStand'
  BY <1>1 DEF TypeOK, WellFormed, StartSession
<1>2. ASSUME NEW s \in Session, ReapIdleTx(s) PROVE GatesStand'
  BY <1>2 DEF TypeOK, WellFormed, ReapIdleTx
<1>3. ASSUME NEW c \in Call, Begin(c) PROVE GatesStand'
  BY <1>3 DEF TypeOK, WellFormed, Begin
<1>4. ASSUME NEW c \in Call, Reply(c) PROVE GatesStand'
  BY <1>4 DEF TypeOK, WellFormed, Reply
<1>5. ASSUME NEW c \in Call, RejectArguments(c) PROVE GatesStand'
  BY <1>5 DEF TypeOK, WellFormed, RejectArguments
<1>6. ASSUME NEW c \in Call, FetchSchema(c) PROVE GatesStand'
  BY <1>6 DEF TypeOK, WellFormed, FetchSchema, At
<1>7. ASSUME NEW c \in Call, InsertSchemaSeen(c) PROVE GatesStand'
  BY <1>7 DEF TypeOK, WellFormed, InsertSchemaSeen
<1>8. ASSUME NEW c \in Call, Open(c) PROVE GatesStand'
  BY <1>8 DEF TypeOK, WellFormed, Open, At, Take, OpenRefused
<1>9. ASSUME NEW c \in Call, OpenDone(c) PROVE GatesStand'
  BY <1>9 DEF TypeOK, WellFormed, OpenDone, Unlock
<1>10. ASSUME NEW c \in Call, Query(c) PROVE GatesStand'
  BY <1>10 DEF TypeOK, WellFormed, Query, At, Take
<1>11. ASSUME NEW c \in Call, QueryDone(c) PROVE GatesStand'
  BY <1>11 DEF TypeOK, WellFormed, QueryDone, Unlock
<1>12. ASSUME NEW c \in Call, NothingToClose(c) PROVE GatesStand'
  BY <1>12 DEF TypeOK, WellFormed, NothingToClose
<1>13. ASSUME NEW c \in Call, Commit(c) PROVE GatesStand'
  BY <1>13, GatesOfTakeTx DEF Commit, At, Committable
<1>14. ASSUME NEW c \in Call, CommitDone(c) PROVE GatesStand'
  BY <1>14 DEF TypeOK, WellFormed, CommitDone, AfterCommit, Unlock
<1>15. ASSUME NEW c \in Call, Checkpoint(c) PROVE GatesStand'
  BY <1>15, GatesOfTakeTx DEF Checkpoint, At, Committable
<1>16. ASSUME NEW c \in Call, CheckpointCommitted(c) PROVE GatesStand'
  BY <1>16 DEF TypeOK, WellFormed, CheckpointCommitted, Unlock
<1>17. ASSUME NEW c \in Call, CheckpointReopened(c) PROVE GatesStand'
  BY <1>17 DEF TypeOK, WellFormed, CheckpointReopened, AfterCommit, Unlock
<1>18. ASSUME NEW c \in Call, Rollback(c) PROVE GatesStand'
  BY <1>18, GatesOfTakeTx DEF Rollback, At, Committable
<1>19. ASSUME NEW c \in Call, RollbackDone(c) PROVE GatesStand'
  BY <1>19 DEF TypeOK, WellFormed, RollbackDone, Unlock
<1>20. ASSUME NEW c \in Call, ReadOnce(c) PROVE GatesStand'
  BY <1>20 DEF TypeOK, WellFormed, ReadOnce, OpenOwnTx, At, Take, OwnTxRefused
<1>21. ASSUME NEW c \in Call, ReadOnceOpened(c) PROVE GatesStand'
  BY <1>21 DEF TypeOK, WellFormed, ReadOnceOpened, OwnTxOpened, Unlock
<1>22. ASSUME NEW c \in Call, ReadOnceDone(c) PROVE GatesStand'
  BY <1>22 DEF TypeOK, WellFormed, ReadOnceDone, Unlock
<1>23. ASSUME NEW c \in Call, WithOwnedTx(c) PROVE GatesStand'
  BY <1>23 DEF TypeOK, WellFormed, WithOwnedTx, OpenOwnTx, At, Take, OwnTxRefused
<1>24. ASSUME NEW c \in Call, WithOwnedTxOpened(c) PROVE GatesStand'
  BY <1>24 DEF TypeOK, WellFormed, WithOwnedTxOpened, OwnTxOpened, Unlock
<1>25. ASSUME NEW c \in Call, WithOwnedTxBody(c) PROVE GatesStand'
  BY <1>25 DEF TypeOK, WellFormed, WithOwnedTxBody, Unlock
<1>26. ASSUME NEW c \in Call, WithOwnedTxDone(c) PROVE GatesStand'
  BY <1>26 DEF TypeOK, WellFormed, WithOwnedTxDone, AfterCommit
<1>27. ASSUME NEW c \in Call, Sweep(c) PROVE GatesStand'
  BY <1>27 DEF TypeOK, WellFormed, Sweep, Over
<1>28. ASSUME NEW c \in Call, SweepOne(c) PROVE GatesStand'
  BY <1>28 DEF TypeOK, WellFormed, Discipline, Guarded, SweepOne, Over
<1>29. ASSUME NEW c \in Call, CheckOwnTx(c) PROVE GatesStand'
  BY <1>29 DEF TypeOK, WellFormed, CheckOwnTx, Over
<1>30. ASSUME NEW c \in Call, ScanOne(c) PROVE GatesStand'
  BY <1>30 DEF TypeOK, WellFormed, ScanOne, Over
<1>31. ASSUME NEW c \in Call, Reserve(c) PROVE GatesStand'
  BY <1>31 DEF TypeOK, WellFormed, Reserve
<1>32. ASSUME NEW c \in Call, CreateDone(c) PROVE GatesStand'
  BY <1>32 DEF TypeOK, WellFormed, CreateDone
<1>33. ASSUME NEW c \in Call, DeleteOk(c) PROVE GatesStand'
  BY <1>33 DEF TypeOK, WellFormed, DeleteOk
<1>34. ASSUME NEW c \in Call, DeleteFailed(c) PROVE GatesStand'
  BY <1>34 DEF TypeOK, WellFormed, DeleteFailed
<1>35. ASSUME NEW c \in Call, Migrate(c) PROVE GatesStand'
  BY <1>35 DEF TypeOK, WellFormed, Migrate, At, Take, MigrateRefused
<1>36. ASSUME JobReply PROVE GatesStand'
  BY <1>36 DEF TypeOK, WellFormed, JobReply
<1>37. ASSUME JobDropped PROVE GatesStand'
  BY <1>37 DEF TypeOK, WellFormed, JobDropped
<1>38. CASE UNCHANGED vars
  BY <1>38 DEF TypeOK, vars
<1>39. QED
  BY <1>1, <1>2, <1>3, <1>4, <1>5, <1>6, <1>7, <1>8, <1>9, <1>10, <1>11, <1>12,
     <1>13, <1>14, <1>15, <1>16, <1>17, <1>18, <1>19, <1>20, <1>21, <1>22, <1>23,
     <1>24, <1>25, <1>26, <1>27, <1>28, <1>29, <1>30, <1>31, <1>32, <1>33, <1>34,
     <1>35, <1>36, <1>37, <1>38 DEF Next, Lock, Proceed

(* LInv: the invariant the refinement rests on. *)
LEMMA LifecycleInvariance == Spec => []LInv
<1>1. Init => LInv
  BY InvInit, GatesStandInit DEF LInv
<1>2. LInv /\ [Next]_vars => LInv'
  BY TypeNext, DisciplineNext, OwnershipNext, GatesStandNext DEF IInv, LInv
<1>3. QED
  BY <1>1, <1>2, PTL DEF Spec

-----------------------------------------------------------------------------
(* What a step does to the slots of the sessions. *)

Slots == [s \in Session |-> SlotOf(s)]

(* The session's transaction is with a call, or in its slot. *)
LEMMA SlotValues ==
    ASSUME NEW s \in Session
    PROVE  /\ \A c \in Call : lock[s] = c /\ Mine(c) = s /\ held[c] # None /\ pc[c] # "reopening" =>
                  SlotOf(s) = held[c]
           /\ \A c \in Call : lock[s] = c /\ Mine(c) = s /\ held[c] = None /\ pc[c] = "reopening" =>
                  SlotOf(s) = [database |-> Db(c), kind |-> arg[c].kind]
           /\ \A c \in Call : lock[s] = c /\ held[c] = None /\ pc[c] # "reopening" =>
                  SlotOf(s) = tx[s]
           /\ \A c \in Call : lock[s] = c /\ Mine(c) # s => SlotOf(s) = tx[s]
           /\ lock[s] \notin Call => SlotOf(s) = tx[s]
<1>1. \A c \in Call : lock[s] = c /\ Mine(c) = s /\ held[c] # None /\ pc[c] # "reopening" =>
                  SlotOf(s) = held[c]
  BY DEF SlotOf
<1>2. \A c \in Call : lock[s] = c /\ Mine(c) = s /\ held[c] = None /\ pc[c] = "reopening" =>
          SlotOf(s) = [database |-> Db(c), kind |-> arg[c].kind]
  BY DEF SlotOf
<1>3. \A c \in Call : lock[s] = c /\ held[c] = None /\ pc[c] # "reopening" => SlotOf(s) = tx[s]
  BY DEF SlotOf
<1>4. \A c \in Call : lock[s] = c /\ Mine(c) # s => SlotOf(s) = tx[s]
  BY DEF SlotOf
<1>5. lock[s] \notin Call => SlotOf(s) = tx[s]
  BY DEF SlotOf
<1>6. QED
  BY <1>1, <1>2, <1>3, <1>4, <1>5

LEMMA SlotValuesNext ==
    ASSUME NEW s \in Session
    PROVE  /\ \A c \in Call : lock'[s] = c /\ Mine(c)' = s /\ held'[c] # None /\ pc'[c] # "reopening" =>
                  SlotOf(s)' = held'[c]
           /\ \A c \in Call : lock'[s] = c /\ Mine(c)' = s /\ held'[c] = None /\ pc'[c] = "reopening" =>
                  SlotOf(s)' = [database |-> Db(c)', kind |-> arg'[c].kind]
           /\ \A c \in Call : lock'[s] = c /\ held'[c] = None /\ pc'[c] # "reopening" =>
                  SlotOf(s)' = tx'[s]
           /\ \A c \in Call : lock'[s] = c /\ Mine(c)' # s => SlotOf(s)' = tx'[s]
           /\ lock'[s] \notin Call => SlotOf(s)' = tx'[s]
<1>1. \A c \in Call : lock'[s] = c /\ Mine(c)' = s /\ held'[c] # None /\ pc'[c] # "reopening" =>
                  SlotOf(s)' = held'[c]
  BY DEF SlotOf
<1>2. \A c \in Call : lock'[s] = c /\ Mine(c)' = s /\ held'[c] = None /\ pc'[c] = "reopening" =>
          SlotOf(s)' = [database |-> Db(c)', kind |-> arg'[c].kind]
  BY DEF SlotOf
<1>3. \A c \in Call : lock'[s] = c /\ held'[c] = None /\ pc'[c] # "reopening" => SlotOf(s)' = tx'[s]
  BY DEF SlotOf
<1>4. \A c \in Call : lock'[s] = c /\ Mine(c)' # s => SlotOf(s)' = tx'[s]
  BY DEF SlotOf
<1>5. lock'[s] \notin Call => SlotOf(s)' = tx'[s]
  BY DEF SlotOf
<1>6. QED
  BY <1>1, <1>2, <1>3, <1>4, <1>5

OthersSame(c) ==
    \A b \in Call \ {c} : pc'[b] = pc[b] /\ held'[b] = held[b] /\ arg'[b] = arg[b]

LEMMA SlotsOfOthers ==
    ASSUME NEW c \in Call, OthersSame(c), NEW s \in Session,
           lock'[s] = lock[s], tx'[s] = tx[s], lock[s] # c
    PROVE  SlotOf(s)' = SlotOf(s)
BY DEF SlotOf, OthersSame, Mine, Db

(* A step of c in its own session shows in no other. *)
LEMMA SlotsElsewhere ==
    ASSUME NEW c \in Call, OthersSame(c), NEW s \in Session, s # Mine(c),
           Mine(c)' = Mine(c), lock'[s] = lock[s], tx'[s] = tx[s]
    PROVE  SlotOf(s)' = SlotOf(s)
<1>1. CASE lock[s] = c
  BY <1>1 DEF SlotOf
<1>2. CASE lock[s] # c
  BY <1>2, SlotsOfOthers
<1>3. QED
  BY <1>1, <1>2

Quiet(c) == held[c] = None /\ pc[c] # "reopening"

(* A call that has no transaction in hand may take and leave mutexes. *)
LEMMA QuietSlots ==
    ASSUME NEW c \in Call, OthersSame(c), Quiet(c), Quiet(c)', UNCHANGED tx,
           \A s \in Session : lock'[s] = lock[s] \/ {lock[s], lock'[s]} \subseteq {c, None, Worker}
    PROVE  UNCHANGED Slots
<1>1. ASSUME NEW s \in Session PROVE SlotOf(s)' = SlotOf(s)
  <2>1. CASE lock'[s] = lock[s] /\ lock[s] # c
    BY <2>1, SlotsOfOthers
  <2>2. CASE lock[s] \in {c, None, Worker} /\ lock'[s] \in {c, None, Worker}
    BY <2>2, ConstantsOK DEF SlotOf, Quiet
  <2>3. QED
    BY <2>1, <2>2
<1>2. QED
  BY <1>1 DEF Slots

-----------------------------------------------------------------------------
(* The steps of the lifecycle, in the terms of ToolCalls. *)

LEMMA OpenStep ==
    ASSUME TypeOK, NEW s \in Session, NEW d \in Database, NEW k \in Kind,
           SlotOf(s) = None, d \in schema_seen[s],
           SlotOf(s)' = [database |-> d, kind |-> k],
           \A p \in Session \ {s} : SlotOf(p)' = SlotOf(p),
           UNCHANGED schema_seen
    PROVE  Lifecycle!Next
<1>1. Slots' = [Slots EXCEPT ![s] = [database |-> d, kind |-> k]] /\ Slots[s] = None
  BY DEF Slots
<1>2. Lifecycle!OpenTx(s, d, k)
  BY <1>1 DEF Lifecycle!OpenTx, Slots
<1>3. QED
  BY <1>2 DEF Lifecycle!Next

LEMMA EndStep ==
    ASSUME NEW s \in Session, SlotOf(s)' = None \/ SlotOf(s)' = SlotOf(s),
           \A p \in Session \ {s} : SlotOf(p)' = SlotOf(p),
           UNCHANGED schema_seen
    PROVE  [Lifecycle!Next]_<<schema_seen, Slots>>
<1>1. CASE SlotOf(s)' = SlotOf(s)
  BY <1>1 DEF Slots
<1>2. CASE SlotOf(s) # None /\ SlotOf(s)' = None
  <2>0. \A p \in Session : SlotOf(p)' = IF p = s THEN None ELSE SlotOf(p)
    BY <1>2
  <2>1. Slots' = [Slots EXCEPT ![s] = None] /\ Slots[s] # None
    BY <1>2, <2>0 DEF Slots
  <2>2. Lifecycle!EndTx(s)
    BY <2>1 DEF Lifecycle!EndTx, Slots
  <2>3. QED
    BY <2>2 DEF Lifecycle!Next
<1>3. QED
  BY <1>1, <1>2

LEMMA GateStep ==
    ASSUME TypeOK, NEW s, NEW d, UNCHANGED Slots,
           \/ schema_seen' = [schema_seen EXCEPT ![s] = @ \cup {d}] /\ d \in Database
           \/ schema_seen' = [schema_seen EXCEPT ![s] = @ \ {d}]
    PROVE  [Lifecycle!Next]_<<schema_seen, Slots>>
<1>1. CASE s \notin Session \/ d \notin Database
  <2>1. s \notin Session => schema_seen' = schema_seen
    BY DEF TypeOK
  <2>2. ASSUME s \in Session, d \notin Database PROVE schema_seen' = schema_seen
    <3>1. schema_seen[s] \subseteq Database
      BY <2>2 DEF TypeOK
    <3>2. schema_seen[s] \ {d} = schema_seen[s]
      BY <2>2, <3>1
    <3>3. schema_seen' = [schema_seen EXCEPT ![s] = schema_seen[s]]
      BY <2>2, <3>2
    <3>4. QED
      BY <3>3 DEF TypeOK
  <2>3. QED
    BY <1>1, <2>1, <2>2
<1>2. CASE s \in Session /\ d \in Database
  <2>1. Lifecycle!OpenGate(s, d) \/ Lifecycle!CloseGate(s, d)
    BY DEF Lifecycle!OpenGate, Lifecycle!CloseGate, Slots
  <2>2. QED
    BY <1>2, <2>1 DEF Lifecycle!Next
<1>3. QED
  BY <1>1, <1>2

-----------------------------------------------------------------------------
(* The steps of ToolCalls. *)

Outcome == [Lifecycle!Next]_<<schema_seen, Slots>>

(* A call on which nothing of a transaction depends. *)
LEMMA QuietOutcome ==
    ASSUME LInv, NEW c \in Call, OthersSame(c), Quiet(c), Quiet(c)', UNCHANGED <<tx, schema_seen>>,
           \A s \in Session : lock'[s] = lock[s] \/ {lock[s], lock'[s]} \subseteq {c, None, Worker}
    PROVE  Outcome
<1>1. UNCHANGED Slots
  BY QuietSlots
<1>2. QED
  BY <1>1 DEF Outcome

(* A call that lets go of its session's mutex and of what it had in hand.   *)
LEMMA EndedOutcome ==
    ASSUME LInv, NEW c \in Call, NEW s \in Session, s = Mine(c), OthersSame(c), Mine(c)' = Mine(c),
           tx'[s] = None, lock'[s] = None,
           \A p \in Session \ {s} : lock'[p] = lock[p] /\ tx'[p] = tx[p],
           UNCHANGED schema_seen
    PROVE  Outcome
<1>1. \A p \in Session \ {s} : SlotOf(p)' = SlotOf(p)
  BY SlotsElsewhere
<1>2. SlotOf(s)' = None
  BY SlotValuesNext, ConstantsOK
<1>3. QED
  BY <1>1, <1>2, EndStep DEF Outcome

LEMMA Restless == LInv => \A c \in Call : pc[c] \notin InHand \cup {"reopening"} => Quiet(c)
BY DEF LInv, IInv, Discipline, Quiet

LEMMA QuietActions ==
    ASSUME LInv, LInv', NEW c \in Call,
           \/ Begin(c) \/ Reply(c) \/ RejectArguments(c) \/ FetchSchema(c) \/ Open(c) \/ Query(c)
           \/ NothingToClose(c) \/ ReadOnce(c) \/ WithOwnedTx(c) \/ Sweep(c) \/ CheckOwnTx(c)
           \/ ScanOne(c) \/ Reserve(c) \/ CreateDone(c) \/ DeleteOk(c) \/ DeleteFailed(c) \/ Migrate(c)
    PROVE  Outcome
<1>0. TypeOK /\ WellFormed
  BY DEF LInv, IInv
<1>1. pc[c] \notin InHand \cup {"reopening"} /\ pc'[c] \notin InHand \cup {"reopening"}
  BY <1>0 DEF TypeOK, InHand, Detached, Goto, At, Over, Begin, Reply, RejectArguments, FetchSchema, Open,
     Query, NothingToClose, ReadOnce, WithOwnedTx, OpenOwnTx, Sweep, CheckOwnTx, ScanOne, Reserve,
     CreateDone, DeleteOk, DeleteFailed, Migrate
<1>2. Quiet(c) /\ Quiet(c)'
  BY <1>1, Restless DEF LInv, IInv, Discipline, Quiet
<1>3. UNCHANGED <<tx, schema_seen, held>> /\ OthersSame(c)
  BY <1>0 DEF TypeOK, OthersSame, Goto, At, Over, Begin, Reply, RejectArguments, FetchSchema, Open,
     Query, NothingToClose, ReadOnce, WithOwnedTx, OpenOwnTx, Sweep, CheckOwnTx, ScanOne, Reserve,
     CreateDone, DeleteOk, DeleteFailed, Migrate
<1>4. \A s \in Session : lock'[s] = lock[s] \/ {lock[s], lock'[s]} \subseteq {c, None, Worker}
  <2>1. CASE \/ Begin(c) \/ RejectArguments(c) \/ FetchSchema(c) \/ NothingToClose(c) \/ Sweep(c)
             \/ CheckOwnTx(c) \/ Reserve(c) \/ CreateDone(c) \/ DeleteOk(c) \/ DeleteFailed(c)
    BY <2>1 DEF Begin, RejectArguments, FetchSchema, NothingToClose, Sweep, CheckOwnTx, Reserve,
       CreateDone, DeleteOk, DeleteFailed
  <2>2. CASE Reply(c)
    BY <2>2 DEF Reply
  <2>3. CASE Open(c) \/ Query(c) \/ ReadOnce(c) \/ WithOwnedTx(c)
    BY <1>0, <2>3 DEF TypeOK, Free, Take, Open, Query, ReadOnce, WithOwnedTx, OpenOwnTx
  <2>4. CASE ScanOne(c)
    BY <1>0, <2>4 DEF TypeOK, Free, ScanOne
  <2>5. CASE Migrate(c)
    BY <1>0, <2>5 DEF TypeOK, Free, Take, Migrate
  <2>6. QED
    BY <2>1, <2>2, <2>3, <2>4, <2>5
<1>5. QED
  BY <1>2, <1>3, <1>4, QuietOutcome

(* A transaction in hand is the slot's, and nothing is in the slot. *)
LEMMA InOwnSlot ==
    ASSUME LInv, NEW c \in Call, pc[c] \in Guarded, NEW s \in Session, s = Mine(c)
    PROVE  /\ lock[s] = c
           /\ pc[c] # "querying" => tx[s] = None
           /\ pc[c] = "reopening" => held[c] = None
           /\ pc[c] \notin InHand => held[c] = None
BY DEF LInv, IInv, Discipline, Guarded, InHand, Detached

(* OpenDone, CheckpointReopened and the failures of the opens end here too: *)
(* whatever is in the session's slot is what the agent sees.                *)
LEMMA OpenedOutcome ==
    ASSUME LInv, NEW c \in Call, NEW s \in Session, s = Mine(c), OthersSame(c), Mine(c)' = Mine(c),
           pc[c] \in {"opening", "once_open", "owned_open"},
           \A p \in Session \ {s} : lock'[p] = lock[p] /\ tx'[p] = tx[p],
           CanOpen(Db(c), arg[c].kind),
           SlotOf(s)' = [database |-> Db(c), kind |-> arg[c].kind],
           UNCHANGED schema_seen
    PROVE  Outcome
<1>1. TypeOK /\ WellFormed /\ GatesStand
  BY DEF LInv, IInv
<1>2. Db(c) \in Database /\ arg[c].kind \in Kind
  BY <1>1 DEF TypeOK, WellFormed, KindLabels, CanOpen
<1>3. SlotOf(s) = None
  BY InOwnSlot, SlotValues DEF Guarded, InHand, Detached
<1>4. Db(c) \in schema_seen[s]
  BY <1>1 DEF GatesStand, Opening
<1>5. \A p \in Session \ {s} : SlotOf(p)' = SlotOf(p)
  BY SlotsElsewhere
<1>6. ASSUME NEW d, NEW k, d = Db(c), k = arg[c].kind PROVE Lifecycle!Next
  BY <1>1, <1>2, <1>3, <1>4, <1>5, <1>6, OpenStep
<1>7. QED
  BY <1>6 DEF Outcome

(* The step of a call in its own session: the frame, and where it leaves it. *)
Inside(c, s) ==
    /\ s = Mine(c) /\ s \in Session
    /\ OthersSame(c) /\ Mine(c)' = Mine(c)
    /\ \A p \in Session \ {s} : lock'[p] = lock[p] /\ tx'[p] = tx[p]

LEMMA InsideStep ==
    ASSUME LInv, NEW c \in Call,
           \/ OpenDone(c) \/ QueryDone(c) \/ Commit(c) \/ CommitDone(c) \/ Checkpoint(c)
           \/ CheckpointCommitted(c) \/ CheckpointReopened(c) \/ Rollback(c) \/ RollbackDone(c)
           \/ ReadOnceOpened(c) \/ ReadOnceDone(c) \/ WithOwnedTxOpened(c) \/ WithOwnedTxBody(c)
           \/ WithOwnedTxDone(c)
    PROVE  UNCHANGED schema_seen /\ \E s \in Session : Inside(c, s)
<1>0. TypeOK /\ Mine(c) \in Session
  BY DEF LInv, IInv, WellFormed, TypeOK, OpenDone, QueryDone, Commit, CommitDone, Checkpoint,
     CheckpointCommitted, CheckpointReopened, Rollback, RollbackDone, ReadOnceOpened, ReadOnceDone,
     WithOwnedTxOpened, WithOwnedTxBody, WithOwnedTxDone, OwnTxOpened, At
<1>1. ASSUME \/ OpenDone(c) \/ QueryDone(c) \/ CommitDone(c) \/ CheckpointCommitted(c)
             \/ CheckpointReopened(c) \/ RollbackDone(c) \/ ReadOnceOpened(c) \/ ReadOnceDone(c)
             \/ WithOwnedTxOpened(c) \/ WithOwnedTxBody(c) \/ WithOwnedTxDone(c)
      PROVE  Inside(c, Mine(c)) /\ UNCHANGED schema_seen
  BY <1>0, <1>1 DEF TypeOK, Inside, OthersSame, Mine, Db, Goto, Unlock, OpenDone, QueryDone, CommitDone,
     CheckpointCommitted, CheckpointReopened, RollbackDone, ReadOnceOpened, ReadOnceDone,
     WithOwnedTxOpened, WithOwnedTxBody, WithOwnedTxDone, OwnTxOpened
<1>2. ASSUME NEW label \in Labels, TakeTx(c, label), tx[Mine(c)] # None, UNCHANGED schema_seen
      PROVE  Inside(c, Mine(c))
  <2>1. /\ \A b \in Call \ {c} : pc'[b] = pc[b] /\ arg'[b] = arg[b]
        /\ arg'[c].session = arg[c].session
    BY <1>0, <1>2, TakeTxTypes
  <2>2. /\ \A b \in Call \ {c} : held'[b] = held[b]
        /\ \A p \in Session \ {Mine(c)} : lock'[p] = lock[p] /\ tx'[p] = tx[p]
    BY <1>0, <1>2 DEF TypeOK, TakeTx, Take
  <2>3. QED
    BY <1>0, <2>1, <2>2 DEF Inside, OthersSame, Mine
<1>3. CASE Commit(c) \/ Checkpoint(c) \/ Rollback(c)
  <2>1. \E label \in {"committing", "checkpointing", "releasing"} :
            TakeTx(c, label) /\ tx[Mine(c)] # None /\ UNCHANGED schema_seen
    BY <1>3 DEF Commit, Checkpoint, Rollback, Committable
  <2>2. {"committing", "checkpointing", "releasing"} \subseteq Labels
    BY DEF Labels
  <2>3. QED
    BY <1>0, <1>2, <2>1, <2>2
<1>4. QED
  BY <1>0, <1>1, <1>3

(* Taking the transaction out of the slot hides it from no agent. *)
LEMMA TakenOutcome ==
    ASSUME LInv, NEW c \in Call, Commit(c) \/ Checkpoint(c) \/ Rollback(c)
    PROVE  Outcome
<1>0. TypeOK
  BY DEF LInv, IInv
<1>1. PICK s \in Session : Inside(c, s)
  BY InsideStep
<1>2. /\ UNCHANGED schema_seen /\ tx[s] # None /\ lock[s] = None
      /\ \E label \in {"committing", "checkpointing", "releasing"} : TakeTx(c, label)
  BY <1>1 DEF Inside, Commit, Checkpoint, Rollback, Committable, Free
<1>3. /\ lock'[s] = c /\ held'[c] = tx[s] /\ pc'[c] # "reopening"
  BY <1>0, <1>1, <1>2 DEF TypeOK, Inside, TakeTx, Take, Goto
<1>4. SlotOf(s) = tx[s] /\ SlotOf(s)' = tx[s]
  BY <1>1, <1>2, <1>3, SlotValues, SlotValuesNext, ConstantsOK DEF Inside
<1>5. \A p \in Session \ {s} : SlotOf(p)' = SlotOf(p)
  BY <1>1, SlotsElsewhere DEF Inside
<1>6. QED
  BY <1>1, <1>2, <1>4, <1>5, EndStep DEF Outcome

(* Commits, checkpoints and rollbacks that come to an end. *)
LEMMA ClosedOutcome ==
    ASSUME LInv, NEW c \in Call,
           CommitDone(c) \/ RollbackDone(c) \/ ReadOnceDone(c) \/ WithOwnedTxBody(c)
    PROVE  Outcome
<1>0. TypeOK
  BY DEF LInv, IInv
<1>1. PICK s \in Session : Inside(c, s)
  BY InsideStep
<1>2. UNCHANGED <<schema_seen, tx>> /\ lock'[s] = None /\ pc[c] \in Guarded \ {"querying"}
  BY <1>0, <1>1 DEF TypeOK, Inside, Guarded, Unlock, CommitDone, RollbackDone, ReadOnceDone, WithOwnedTxBody
<1>3. tx'[s] = None
  BY <1>1, <1>2, InOwnSlot DEF Inside
<1>4. QED
  BY <1>1, <1>2, <1>3, EndedOutcome DEF Inside

LEMMA OpenDoneOutcome ==
    ASSUME LInv, NEW c \in Call, OpenDone(c)
    PROVE  Outcome
<1>0. TypeOK
  BY DEF LInv, IInv
<1>1. PICK s \in Session : Inside(c, s)
  BY InsideStep
<1>2. UNCHANGED schema_seen /\ lock'[s] = None /\ pc[c] = "opening" /\ tx[s] = None
  BY <1>0, <1>1, InOwnSlot DEF TypeOK, Inside, Guarded, Unlock, OpenDone
<1>3. CASE UNCHANGED tx
  BY <1>1, <1>2, <1>3, EndedOutcome DEF Inside
<1>4. CASE /\ CanOpen(Db(c), arg[c].kind)
           /\ tx' = [tx EXCEPT ![Mine(c)] = [database |-> Db(c), kind |-> arg[c].kind]]
  <2>1. SlotOf(s)' = [database |-> Db(c), kind |-> arg[c].kind]
    BY <1>0, <1>1, <1>2, <1>4, SlotValuesNext, ConstantsOK DEF TypeOK, Inside
  <2>2. QED
    BY <1>1, <1>2, <1>4, <2>1, OpenedOutcome DEF Inside
<1>5. QED
  BY <1>3, <1>4 DEF OpenDone

LEMMA QueryDoneOutcome ==
    ASSUME LInv, NEW c \in Call, QueryDone(c)
    PROVE  Outcome
<1>0. TypeOK
  BY DEF LInv, IInv
<1>1. PICK s \in Session : Inside(c, s)
  BY InsideStep
<1>2. /\ UNCHANGED schema_seen /\ lock'[s] = None /\ pc[c] = "querying" /\ lock[s] = c
      /\ tx'[s] = tx[s] \/ tx'[s] = None
  BY <1>0, <1>1, InOwnSlot DEF TypeOK, Inside, Guarded, Unlock, QueryDone
<1>3. held[c] = None
  BY <1>1, <1>2, InOwnSlot DEF Inside, Guarded, InHand, Detached
<1>4. SlotOf(s) = tx[s] /\ SlotOf(s)' = tx'[s]
  BY <1>2, <1>3, SlotValues, SlotValuesNext, ConstantsOK
<1>5. \A p \in Session \ {s} : SlotOf(p)' = SlotOf(p)
  BY <1>1, SlotsElsewhere DEF Inside
<1>6. QED
  BY <1>2, <1>4, <1>5, EndStep DEF Outcome

(* The fresh transaction of a checkpoint is the one it committed. *)
LEMMA CheckpointOutcome ==
    ASSUME LInv, NEW c \in Call, CheckpointCommitted(c) \/ CheckpointReopened(c)
    PROVE  Outcome
<1>0. TypeOK /\ GatesStand
  BY DEF LInv, IInv
<1> DEFINE mine == [database |-> Db(c), kind |-> arg[c].kind]
<1>1. PICK s \in Session : Inside(c, s)
  BY InsideStep
<1>2. UNCHANGED <<schema_seen, arg>> /\ pc[c] \in {"checkpointing", "reopening"}
  BY DEF CheckpointCommitted, CheckpointReopened
<1>3. lock[s] = c /\ tx[s] = None
  BY <1>1, <1>2, InOwnSlot DEF Inside, Guarded
<1>4. SlotOf(s) = mine
  <2>1. CASE pc[c] = "checkpointing"
    <3>1. held[c] = mine
      BY <1>0, <2>1 DEF GatesStand
    <3>2. QED
      BY <1>1, <1>3, <2>1, <3>1, SlotValues DEF Inside
  <2>2. CASE pc[c] = "reopening"
    <3>1. held[c] = None
      BY <1>1, <2>2, InOwnSlot DEF Inside, Guarded
    <3>2. QED
      BY <1>1, <1>3, <2>2, <3>1, SlotValues DEF Inside
  <2>3. QED
    BY <1>2, <2>1, <2>2
<1>5. SlotOf(s)' \in {mine, None}
  <2>1. CASE CheckpointCommitted(c) /\ Goto(c, "reopening") /\ UNCHANGED lock
    <3>1. pc'[c] = "reopening" /\ held'[c] = None /\ lock'[s] = c
      BY <1>0, <1>3, <2>1 DEF TypeOK, Goto, CheckpointCommitted
    <3>2. Db(c)' = Db(c) /\ arg'[c].kind = arg[c].kind
      BY <1>2 DEF Db
    <3>3. QED
      BY <1>1, <3>1, <3>2, SlotValuesNext DEF Inside
  <2>2. CASE lock'[s] = None /\ (UNCHANGED tx \/ tx' = [tx EXCEPT ![Mine(c)] = mine])
    BY <1>0, <1>1, <1>3, <2>2, SlotValuesNext, ConstantsOK DEF TypeOK, Inside
  <2>3. QED
    BY <1>0, <1>1, <2>1, <2>2 DEF TypeOK, Inside, Unlock, CheckpointCommitted, CheckpointReopened
<1>6. \A p \in Session \ {s} : SlotOf(p)' = SlotOf(p)
  BY <1>1, SlotsElsewhere DEF Inside
<1>7. QED
  BY <1>2, <1>4, <1>5, <1>6, EndStep DEF Outcome

LEMMA OwnTxOutcome ==
    ASSUME LInv, NEW c \in Call, ReadOnceOpened(c) \/ WithOwnedTxOpened(c)
    PROVE  Outcome
<1>0. TypeOK
  BY DEF LInv, IInv
<1> DEFINE mine == [database |-> Db(c), kind |-> arg[c].kind]
<1>1. PICK s \in Session : Inside(c, s)
  BY InsideStep
<1>2. /\ UNCHANGED <<schema_seen, tx>> /\ pc[c] \in {"once_open", "owned_open"}
      /\ \/ /\ CanOpen(Db(c), arg[c].kind) /\ held' = [held EXCEPT ![c] = mine]
            /\ Goto(c, "once_query") \/ Goto(c, "owned_body")
            /\ UNCHANGED lock
         \/ Unlock(c)
  BY DEF ReadOnceOpened, WithOwnedTxOpened, OwnTxOpened
<1>3. lock[s] = c /\ tx[s] = None
  BY <1>1, <1>2, InOwnSlot DEF Inside, Guarded
<1>4. CASE Unlock(c)
  <2>1. lock'[s] = None
    BY <1>0, <1>1, <1>4 DEF TypeOK, Inside, Unlock
  <2>2. QED
    BY <1>1, <1>2, <1>3, <2>1, EndedOutcome DEF Inside
<1>5. CASE /\ CanOpen(Db(c), arg[c].kind) /\ held' = [held EXCEPT ![c] = mine]
           /\ Goto(c, "once_query") \/ Goto(c, "owned_body")
           /\ UNCHANGED lock
  <2>1. /\ held'[c] = mine /\ mine # None /\ lock'[s] = c
        /\ pc'[c] # "reopening"
    <3>1. mine \in OpenTx
      BY <1>0, <1>2, <1>5, StashTypes DEF LInv, IInv, WellFormed, KindLabels
    <3>2. QED
      BY <1>0, <1>3, <1>5, <3>1, ConstantsOK DEF TypeOK, Goto
  <2>2. SlotOf(s)' = mine
    BY <1>1, <2>1, SlotValuesNext DEF Inside
  <2>3. QED
    BY <1>1, <1>2, <1>5, <2>2, OpenedOutcome DEF Inside
<1>6. QED
  BY <1>2, <1>4, <1>5

(* with_owned_tx ends its transaction when the session is no longer its own. *)
LEMMA OwnedDoneOutcome ==
    ASSUME LInv, NEW c \in Call, WithOwnedTxDone(c)
    PROVE  Outcome
<1>0. TypeOK /\ GatesStand
  BY DEF LInv, IInv
<1>1. PICK s \in Session : Inside(c, s)
  BY InsideStep
<1>2. UNCHANGED <<schema_seen, tx, lock>> /\ lock[s] # c
  BY <1>0, <1>1 DEF GatesStand, Detached, Inside, WithOwnedTxDone
<1>3. SlotOf(s)' = SlotOf(s)
  BY <1>1, <1>2, SlotsOfOthers DEF Inside
<1>4. \A p \in Session \ {s} : SlotOf(p)' = SlotOf(p)
  BY <1>1, SlotsElsewhere DEF Inside
<1>5. QED
  BY <1>2, <1>3, <1>4, EndStep DEF Outcome

(* Gates open after a fetch and are closed by sweeps. *)
LEMMA GateOutcome ==
    ASSUME LInv, NEW c \in Call, InsertSchemaSeen(c) \/ SweepOne(c)
    PROVE  Outcome
<1>0. TypeOK
  BY DEF LInv, IInv
<1>1. pc[c] \in {"insert", "sweeping"} /\ pc'[c] \in {"reply", "sweeping"}
  BY <1>0 DEF TypeOK, Goto, Over, InsertSchemaSeen, SweepOne
<1>2. UNCHANGED <<tx, held, lock>> /\ OthersSame(c)
  BY <1>0 DEF TypeOK, OthersSame, Goto, Over, InsertSchemaSeen, SweepOne
<1>3. held[c] = None
  BY <1>1, Restless DEF InHand, Detached, Quiet
<1>4. Quiet(c) /\ Quiet(c)'
  BY <1>1, <1>2, <1>3 DEF Quiet
<1>5. UNCHANGED Slots
  BY <1>2, <1>4, QuietSlots
<1>6. \E s, d : \/ schema_seen' = [schema_seen EXCEPT ![s] = @ \cup {d}] /\ d \in Database
               \/ schema_seen' = [schema_seen EXCEPT ![s] = @ \ {d}]
  <2>1. CASE InsertSchemaSeen(c)
    <3>1. Db(c) \in Database
      BY <2>1 DEF LInv, IInv, WellFormed, DatabaseLabels, InsertSchemaSeen
    <3>2. schema_seen' = [schema_seen EXCEPT ![Mine(c)] = @ \cup {Db(c)}]
      BY <2>1 DEF InsertSchemaSeen
    <3>3. QED
      BY <3>1, <3>2
  <2>2. CASE SweepOne(c)
    <3>1. schema_seen' = [schema_seen EXCEPT ![peer[c]] = @ \ {Db(c)}]
      BY <2>2 DEF SweepOne
    <3>2. QED
      BY <3>1
  <2>3. QED
    BY <2>1, <2>2
<1>7. QED
  BY <1>0, <1>5, <1>6, GateStep DEF Outcome

LEMMA ReapOutcome ==
    ASSUME LInv, NEW s \in Session, ReapIdleTx(s)
    PROVE  Outcome
<1>0. TypeOK
  BY DEF LInv, IInv
<1>1. /\ UNCHANGED <<schema_seen, lock, pc, held, arg>>
      /\ lock[s] = None /\ tx'[s] = None
      /\ \A p \in Session \ {s} : tx'[p] = tx[p]
  BY <1>0 DEF TypeOK, ReapIdleTx, Free
<1>2. SlotOf(s)' = None
  BY <1>1, SlotValuesNext, ConstantsOK
<1>3. \A p \in Session \ {s} : SlotOf(p)' = SlotOf(p)
  BY <1>1 DEF SlotOf, Mine, Db
<1>4. QED
  BY <1>1, <1>2, <1>3, EndStep DEF Outcome

LEMMA JobOutcome ==
    ASSUME LInv, JobReply \/ JobDropped
    PROVE  Outcome
<1>0. TypeOK /\ JobKeepsItsCall
  BY DEF LInv, IInv, Ownership
<1>1. /\ job \in Call /\ UNCHANGED <<tx, schema_seen, held, arg>>
      /\ pc[job] \notin InHand \cup {"reopening"} /\ pc'[job] \notin InHand \cup {"reopening"}
      /\ \A b \in Call \ {job} : pc'[b] = pc[b]
  BY <1>0 DEF TypeOK, JobKeepsItsCall, InHand, Detached, Goto, JobReply, JobDropped
<1>2. \A s \in Session : lock'[s] = lock[s] \/ {lock[s], lock'[s]} \subseteq {None, Worker}
  BY <1>0 DEF TypeOK, LInv, IInv, Ownership, ReservationsAreOwned, JobReply, JobDropped
<1>3. ASSUME NEW c \in Call, c = job
      PROVE  Outcome
  <2>1. OthersSame(c)
    BY <1>1, <1>3 DEF OthersSame
  <2>2. pc[c] \notin InHand \cup {"reopening"} /\ pc'[c] \notin InHand \cup {"reopening"}
    BY <1>1, <1>3
  <2>3. held[c] = None
    BY <2>2, Restless DEF Quiet
  <2>4. Quiet(c) /\ Quiet(c)'
    BY <1>1, <2>2, <2>3 DEF Quiet
  <2>5. QED
    BY <1>1, <1>2, <2>1, <2>4, QuietOutcome
<1>4. QED
  BY <1>1, <1>3

LEMMA LifecycleStep == LInv /\ LInv' /\ [Next]_vars => Outcome
<1> SUFFICES ASSUME LInv, LInv', [Next]_vars PROVE Outcome
  OBVIOUS
<1>1. CASE UNCHANGED vars
  <2>1. UNCHANGED Slots
    BY <1>1 DEF vars, Slots, SlotOf, Mine, Db
  <2>2. QED
    BY <1>1, <2>1 DEF vars, Outcome
<1>2. ASSUME NEW s \in Session, StartSession(s) PROVE Outcome
  <2>1. UNCHANGED Slots
    BY <1>2 DEF StartSession, Slots, SlotOf, Mine, Db
  <2>2. QED
    BY <1>2, <2>1 DEF StartSession, Outcome
<1>3. ASSUME NEW s \in Session, ReapIdleTx(s) PROVE Outcome
  BY <1>3, ReapOutcome
<1>4. ASSUME NEW c \in Call, Begin(c) PROVE Outcome
  BY <1>4, QuietActions
<1>5. ASSUME NEW c \in Call, Lock(c) PROVE Outcome
  BY <1>5, QuietActions, GateOutcome, TakenOutcome DEF Lock
<1>6. ASSUME NEW c \in Call, Proceed(c) PROVE Outcome
  BY <1>6, QuietActions, OpenDoneOutcome, QueryDoneOutcome, ClosedOutcome, CheckpointOutcome,
     OwnTxOutcome, OwnedDoneOutcome DEF Proceed
<1>7. CASE JobReply \/ JobDropped
  BY <1>7, JobOutcome
<1>8. QED
  BY <1>1, <1>2, <1>3, <1>4, <1>5, <1>6, <1>7 DEF Next

LEMMA LifecycleStart == Init => Lifecycle!Init
<1> SUFFICES ASSUME Init PROVE Lifecycle!Init
  OBVIOUS
<1>1. \A s \in Session : SlotOf(s) = None
  BY SlotValues, ConstantsOK DEF Init
<1>2. QED
  BY <1>1 DEF Init, Lifecycle!Init

(* KeepsLifecycle: every handler, however its steps interleave with those of *)
(* the others, does to the gates and the transaction of a session only what  *)
(* TxLifecycle allows: no transaction without the gate, none beside another, *)
(* and a checkpoint renews the very one it committed.                        *)
THEOREM LifecycleKept == Spec => KeepsLifecycle
<1>1. Init => Lifecycle!Init
  BY LifecycleStart
<1>2. LInv /\ LInv' /\ [Next]_vars =>
          [Lifecycle!Next]_<<schema_seen, [s \in Session |-> SlotOf(s)]>>
  BY LifecycleStep DEF Outcome, Slots
<1>3. QED
  BY <1>1, <1>2, LifecycleInvariance, PTL DEF Spec, KeepsLifecycle, Lifecycle!Spec
=============================================================================
