------------------------- MODULE SessionStoreProofs -------------------------
(***************************************************************************)
(* Proofs about SessionStore for any number of calls, sessions and kinds   *)
(* of transactions, any time-to-live and any idle timeouts.                *)
(***************************************************************************)
EXTENDS SessionStore, TLAPS

InStore == {"peek", "touch"}      \* labels of a call that has the store's mutex
InBody  == {"busy", "opening"}    \* labels of a call that has its session's

(* Whoever is at work knows its session, and it was started. *)
Sids ==
  /\ \A c \in Call : pc[c] # "idle" => sid[c] \in born
  /\ rpc \in {"remove", "purge", "idle", "release"} => rsid \in born
  /\ rtodo \subseteq born

(* Nobody has read a clock ahead of time. *)
Clocks == rnow <= now /\ \A c \in Call : at[c] <= now

(* A mutex of a session is owned by the call in its body, or by the reaper  *)
(* that releases its transaction.                                           *)
Guards ==
  /\ \A c \in Call : pc[c] \in InBody => Owns(c, sid[c])
  /\ rpc = "release" => Owns(Reaper, rsid)

(* resolve_and_touch keeps the store's mutex, so the session stays in the   *)
(* store, nobody has refreshed a session later than it is going to, and no  *)
(* sweep of the reaper that has its list began later.                       *)
Resolving ==
  \A c \in Call : pc[c] \in InStore =>
    /\ inner = c /\ sid[c] \in live
    /\ pc[c] = "touch" => at[c] < expires_at[sid[c]]
    /\ \A b \in Call : pc[b] = "resolved" => at[b] <= at[c]
    /\ rpc \notin {"sleep", "list"} => rnow <= at[c]

Refreshed == \A c \in Call : pc[c] = "resolved" => at[c] + Ttl <= expires_at[sid[c]]

(* What the reaper is about to remove stays expired. *)
Condemned == rpc = "remove" => expires_at[rsid] <= rnow

BaseInv == TypeOK /\ Sids /\ Clocks /\ Guards /\ Resolving /\ Refreshed /\ Condemned

-----------------------------------------------------------------------------
LEMMA Names ==
  /\ Locking = {"peek", "touch", "purge", "resolved"}
  /\ \A c \in Call : c # Reaper /\ c # None
BY ConstantsOK DEF Locking

LEMMA SidTypes ==
    ASSUME TypeOK, Sids
    PROVE  /\ \A c \in Call : pc[c] # "idle" => sid[c] \in Session
           /\ rpc \in {"remove", "purge", "idle", "release"} => rsid \in Session
BY DEF TypeOK, Sids

(* What Join and Leave do to the queues. *)
LEMMA JoinStep ==
    ASSUME TypeOK, NEW p \in Tasks, NEW s \in Session, Join(p, s)
    PROVE  /\ queue' \in [Session -> Seq(Tasks)]
           /\ \A r \in Session : \A q : Owns(q, r) => Owns(q, r)'
           /\ queue[s] = <<>> => Owns(p, s)'
<1>1. queue' = [queue EXCEPT ![s] = Append(queue[s], p)] /\ queue \in [Session -> Seq(Tasks)]
  BY DEF Join, TypeOK
<1>2. Append(queue[s], p) \in Seq(Tasks)
  BY <1>1
<1>3. queue[s] # <<>> => Head(Append(queue[s], p)) = Head(queue[s])
  BY <1>1
<1>4. queue[s] = <<>> => Head(Append(queue[s], p)) = p
  BY <1>1
<1>5. Append(queue[s], p) # <<>>
  BY <1>1
<1>6. QED
  BY <1>1, <1>2, <1>3, <1>4, <1>5 DEF Owns

LEMMA LeaveStep ==
    ASSUME TypeOK, NEW p, NEW s \in Session, Owns(p, s), Leave(s)
    PROVE  /\ queue' \in [Session -> Seq(Tasks)]
           /\ \A r \in Session : \A q : Owns(q, r) /\ q # p => Owns(q, r)'
<1>1. queue' = [queue EXCEPT ![s] = Tail(queue[s])] /\ queue \in [Session -> Seq(Tasks)]
  BY DEF Leave, TypeOK
<1>2. Tail(queue[s]) \in Seq(Tasks)
  BY <1>1 DEF Owns
<1>3. \A q : Owns(q, s) => q = p
  BY DEF Owns
<1>4. QED
  BY <1>1, <1>2, <1>3 DEF Owns

LEMMA OwnerLeaves ==
    ASSUME BaseInv
    PROVE  /\ \A c \in Call : pc[c] \in InBody => Owns(c, sid[c])
           /\ rpc = "release" => Owns(Reaper, rsid)
BY DEF BaseInv, Guards

-----------------------------------------------------------------------------
(* Types. *)

LEMMA TypeStep ==
    ASSUME BaseInv, [Next]_vars
    PROVE  TypeOK'
<1> USE DEF InBody
<1>1. TypeOK /\ Sids /\ Clocks /\ MaxTime \in Nat /\ Ttl \in Nat
  BY ConstantsOK DEF BaseInv
<1>2. /\ \A c \in Call : pc[c] # "idle" => sid[c] \in Session
      /\ rpc \in {"remove", "purge", "idle", "release"} => rsid \in Session
  BY <1>1, SidTypes
<1>3. Call \subseteq Tasks /\ Reaper \in Tasks
  BY DEF Tasks
<1>4. ASSUME NEW s \in Session, Start(s) PROVE TypeOK'
  BY <1>1, <1>4 DEF Start, TypeOK, call, reaper
<1>5. ASSUME NEW c \in Call, Begin(c) PROVE TypeOK'
  BY <1>1, <1>5 DEF Begin, Goto, TypeOK, store, session, reaper
<1>6. ASSUME NEW c \in Call, Lookup(c) PROVE TypeOK'
  <2>1. CASE sid[c] \in live
    BY <1>1, <1>6, <2>1 DEF Lookup, Goto, Locking, TypeOK, session, reaper
  <2>2. CASE sid[c] \notin live
    <3>1. Finish(c) /\ UNCHANGED <<now, store, session, reaper>>
      BY <1>6, <2>2 DEF Lookup, store
    <3>2. 0 \in 0..MaxTime /\ None \in Session \cup {None}
      BY <1>1
    <3>3. pc' \in [Call -> Locking \cup {"idle", "lookup", "busy", "opening"}]
      BY <1>1, <3>1 DEF Finish, Goto, TypeOK
    <3>4. sid' \in [Call -> Session \cup {None}] /\ at' \in [Call -> 0..MaxTime]
      BY <1>1, <3>1, <3>2 DEF Finish, TypeOK
    <3>5. QED
      BY <1>1, <3>1, <3>3, <3>4 DEF TypeOK, store, session, reaper
  <2>3. QED
    BY <2>1, <2>2
<1>7. ASSUME NEW c \in Call, Lock(c) PROVE TypeOK'
  BY <1>1, <1>2, <1>3, <1>7, JoinStep DEF Lock, Locking, TypeOK, store, call, reaper
<1>8. ASSUME NEW c \in Call, Peek(c) PROVE TypeOK'
  BY <1>1, <1>2, <1>8, LeaveStep DEF Peek, Goto, Locking, TypeOK, reaper
<1>9. ASSUME NEW c \in Call, Touch(c) PROVE TypeOK'
  <2>1. queue' \in [Session -> Seq(Tasks)]
    BY <1>1, <1>2, <1>9, LeaveStep DEF Touch
  <2>2. at[c] + Ttl \in 0..(MaxTime + Ttl)
    BY <1>1 DEF TypeOK
  <2>3. QED
    BY <1>1, <1>9, <2>1, <2>2 DEF Touch, Goto, Locking, TypeOK, reaper
<1>10. ASSUME NEW c \in Call, Purge(c) PROVE TypeOK'
  BY <1>1, <1>2, <1>10, LeaveStep DEF Purge, Finish, Goto, TypeOK, store, reaper
<1>11. ASSUME NEW c \in Call, Hold(c) PROVE TypeOK'
  BY <1>1, <1>11 DEF Hold, Goto, TypeOK, store, session, reaper
<1>12. ASSUME NEW c \in Call, OpenTx(c) PROVE TypeOK'
  BY <1>1, <1>12 DEF OpenTx, Goto, TypeOK, store, session, reaper
<1>13. ASSUME NEW c \in Call, OpenTxDone(c) PROVE TypeOK'
  <2>1. queue' \in [Session -> Seq(Tasks)]
    BY <1>1, <1>2, <1>13, OwnerLeaves, LeaveStep DEF OpenTxDone
  <2>2. \A k \in Kind : Open(k, now) \in [kind: Kind, last_activity: 0..MaxTime]
    BY <1>1 DEF Open, TypeOK
  <2>3. tx' \in [Session -> [kind: Kind, last_activity: 0..MaxTime] \cup {None}]
    BY <1>1, <1>13, <2>2 DEF OpenTxDone, TypeOK
  <2>4. QED
    BY <1>1, <1>2, <1>13, <2>1, <2>3 DEF OpenTxDone, Finish, Goto, TypeOK, store, reaper
<1>14. ASSUME NEW c \in Call, QueryTx(c) PROVE TypeOK'
  <2>1. [tx[sid[c]] EXCEPT !.last_activity = now] \in [kind: Kind, last_activity: 0..MaxTime]
    BY <1>1, <1>2, <1>14 DEF QueryTx, TypeOK
  <2>2. tx' = [tx EXCEPT ![sid[c]] = [tx[sid[c]] EXCEPT !.last_activity = now]]
    BY <1>14 DEF QueryTx
  <2>3. tx' \in [Session -> [kind: Kind, last_activity: 0..MaxTime] \cup {None}]
    BY <1>1, <2>1, <2>2 DEF TypeOK
  <2>4. QED
    BY <1>1, <1>14, <2>3 DEF QueryTx, Goto, TypeOK, store, reaper
<1>15. ASSUME NEW c \in Call, CloseTx(c) PROVE TypeOK'
  BY <1>1, <1>15 DEF CloseTx, Goto, TypeOK, store, reaper
<1>16. ASSUME NEW c \in Call, Unlock(c) PROVE TypeOK'
  BY <1>1, <1>2, <1>16, OwnerLeaves, LeaveStep DEF Unlock, Finish, Goto, TypeOK, store, reaper
<1>17. CASE ReaperWake \/ ReaperList \/ ReaperSleep \/ ReaperPeek
  BY <1>1, <1>17 DEF ReaperWake, ReaperList, ReaperSleep, ReaperPeek, TypeOK, store, session, call
<1>18. CASE ReaperRemove
  BY <1>1, <1>18 DEF ReaperRemove, TypeOK, session, call
<1>19. CASE ReaperLock
  BY <1>1, <1>2, <1>3, <1>19, JoinStep DEF ReaperLock, TypeOK, store, call, reaper
<1>20. CASE ReaperPurge
  BY <1>1, <1>2, <1>20, LeaveStep DEF ReaperPurge, TypeOK, store, call
<1>21. CASE ReaperIdle
  BY <1>1, <1>2, <1>3, <1>21, JoinStep DEF ReaperIdle, TypeOK, store, call
<1>22. CASE ReaperRelease
  BY <1>1, <1>2, <1>22, OwnerLeaves, LeaveStep DEF ReaperRelease, TypeOK, store, call
<1>23. CASE Tick
  BY <1>1, <1>23 DEF Tick, TypeOK, store, session, call, reaper
<1>24. CASE UNCHANGED vars
  BY <1>1, <1>24 DEF vars, TypeOK, store, session, call, reaper
<1>25. QED
  BY <1>4, <1>5, <1>6, <1>7, <1>8, <1>9, <1>10, <1>11, <1>12, <1>13, <1>14, <1>15, <1>16, <1>17,
     <1>18, <1>19, <1>20, <1>21, <1>22, <1>23, <1>24 DEF Next, Step, Reap

-----------------------------------------------------------------------------
(* What the steps have in common. *)

LEMMA FinishStep ==
    ASSUME TypeOK, NEW c \in Call, Finish(c)
    PROVE  /\ pc'[c] = "idle" /\ sid'[c] = None /\ at'[c] = 0
           /\ \A b \in Call \ {c} : pc'[b] = pc[b] /\ sid'[b] = sid[b] /\ at'[b] = at[b]
BY DEF TypeOK, Finish, Goto

LEMMA GotoStep ==
    ASSUME TypeOK, NEW c \in Call, NEW label, Goto(c, label)
    PROVE  pc'[c] = label /\ \A b \in Call \ {c} : pc'[b] = pc[b]
BY DEF TypeOK, Goto

(* A step of a call that is at work. It moves on to a label, or finishes.   *)
LEMMA CallSteps ==
    ASSUME BaseInv, NEW c \in Call, Lookup(c) \/ Step(c)
    PROVE  /\ pc[c] # "idle" /\ UNCHANGED <<now, born, reaper>>
           /\ \/ UNCHANGED <<pc, sid, at>>
              \/ /\ \E label \in Locking \cup InBody : Goto(c, label)
                 /\ UNCHANGED sid /\ (at' = at \/ pc[c] = "lookup")
              \/ Finish(c)
<1> USE DEF InBody, Locking
<1>1. CASE Lookup(c)
  BY <1>1 DEF Lookup, session
<1>2. CASE Lock(c)
  BY <1>2 DEF Lock, store, call
<1>3. CASE Peek(c) \/ Touch(c)
  BY <1>3 DEF Peek, Touch
<1>4. CASE Hold(c) \/ OpenTx(c) \/ QueryTx(c) \/ CloseTx(c)
  BY <1>4 DEF Hold, OpenTx, QueryTx, CloseTx, store, session
<1>5. CASE Purge(c) \/ OpenTxDone(c) \/ Unlock(c)
  BY <1>5 DEF Purge, OpenTxDone, Unlock, store
<1>6. QED
  BY <1>1, <1>2, <1>3, <1>4, <1>5 DEF Step

LEMMA SidsStep ==
    ASSUME BaseInv, [Next]_vars
    PROVE  Sids'
<1>1. TypeOK /\ Sids
  BY DEF BaseInv
<1>2. ASSUME NEW s \in Session, Start(s) PROVE Sids'
  BY <1>1, <1>2 DEF Start, Sids, call, reaper
<1>3. ASSUME NEW c \in Call, Begin(c) PROVE Sids'
  BY <1>1, <1>3 DEF Begin, Goto, Sids, TypeOK, store, reaper
<1>4. ASSUME NEW c \in Call, Lookup(c) \/ Step(c) PROVE Sids'
  <2>1. pc[c] # "idle" /\ UNCHANGED <<born, reaper>>
    BY <1>4, CallSteps
  <2>2. CASE Finish(c)
    BY <1>1, <2>1, <2>2, FinishStep DEF Sids, reaper
  <2>3. ASSUME NEW label, Goto(c, label), UNCHANGED sid PROVE Sids'
    BY <1>1, <2>1, <2>3, GotoStep DEF Sids, reaper
  <2>4. CASE UNCHANGED <<pc, sid>>
    BY <1>1, <2>1, <2>4 DEF Sids, reaper
  <2>5. QED
    BY <1>4, <2>2, <2>3, <2>4, CallSteps
<1>5. CASE Reap
  BY <1>1, <1>5
     DEF Reap, ReaperWake, ReaperList, ReaperSleep, ReaperPeek, ReaperRemove, ReaperLock,
         ReaperPurge, ReaperIdle, ReaperRelease, Sids, TypeOK, store, call, reaper
<1>6. CASE Tick \/ UNCHANGED vars
  BY <1>1, <1>6 DEF Tick, vars, Sids, store, call, reaper
<1>7. QED
  BY <1>2, <1>3, <1>4, <1>5, <1>6 DEF Next

LEMMA ClocksStep ==
    ASSUME BaseInv, [Next]_vars
    PROVE  Clocks'
<1>1. TypeOK /\ Clocks
  BY DEF BaseInv
<1>2. ASSUME NEW s \in Session, Start(s) PROVE Clocks'
  BY <1>1, <1>2 DEF Start, Clocks, call, reaper
<1>3. ASSUME NEW c \in Call, Begin(c) PROVE Clocks'
  BY <1>1, <1>3 DEF Begin, Clocks, reaper
<1>4. ASSUME NEW c \in Call, Lookup(c) PROVE Clocks'
  <2>1. UNCHANGED <<now, reaper>>
    BY <1>4 DEF Lookup
  <2>2. CASE at' = [at EXCEPT ![c] = now]
    BY <1>1, <2>1, <2>2 DEF Clocks, TypeOK, reaper
  <2>3. CASE Finish(c)
    BY <1>1, <2>1, <2>3, FinishStep DEF Clocks, TypeOK, reaper
  <2>4. QED
    BY <1>4, <2>2, <2>3 DEF Lookup
<1>5. ASSUME NEW c \in Call, Step(c) PROVE Clocks'
  <2>1. UNCHANGED <<now, reaper>> /\ (at' = at \/ Finish(c))
    BY <1>5 DEF Step, Lock, Peek, Touch, Purge, Hold, OpenTx, QueryTx, CloseTx, OpenTxDone,
                Unlock, store, call
  <2>2. CASE Finish(c)
    BY <1>1, <2>1, <2>2, FinishStep DEF Clocks, TypeOK, reaper
  <2>3. CASE at' = at
    BY <1>1, <2>1, <2>3 DEF Clocks, reaper
  <2>4. QED
    BY <2>1, <2>2, <2>3
<1>6. CASE Reap
  BY <1>1, <1>6
     DEF Reap, ReaperWake, ReaperList, ReaperSleep, ReaperPeek, ReaperRemove, ReaperLock,
         ReaperPurge, ReaperIdle, ReaperRelease, Clocks, TypeOK, call, reaper
<1>7. CASE Tick \/ UNCHANGED vars
  BY <1>1, <1>7 DEF Tick, vars, Clocks, TypeOK, call, reaper
<1>8. QED
  BY <1>2, <1>3, <1>4, <1>5, <1>6, <1>7 DEF Next

LEMMA GuardsStep ==
    ASSUME BaseInv, [Next]_vars
    PROVE  Guards'
<1> USE DEF InBody
<1>1. TypeOK /\ Guards /\ Sids
  BY DEF BaseInv
<1>2. /\ \A c \in Call : pc[c] # "idle" => sid[c] \in Session
      /\ rpc \in {"remove", "purge", "idle", "release"} => rsid \in Session
  BY <1>1, SidTypes
<1>3. ASSUME NEW s \in Session, Start(s) PROVE Guards'
  BY <1>1, <1>3 DEF Start, Guards, Owns, call, reaper
<1>4. ASSUME NEW c \in Call, Begin(c) PROVE Guards'
  BY <1>1, <1>4 DEF Begin, Goto, Guards, Owns, TypeOK, session, reaper
<1>5. ASSUME NEW c \in Call, Lookup(c) PROVE Guards'
  BY <1>1, <1>5 DEF Lookup, Finish, Goto, Guards, Owns, TypeOK, session, reaper
<1>6. ASSUME NEW c \in Call, Lock(c) PROVE Guards'
  BY <1>1, <1>2, <1>6, JoinStep DEF Lock, Locking, Guards, Tasks, call, reaper
<1>7. ASSUME NEW c \in Call, Owns(c, sid[c]), pc[c] # "idle", Leave(sid[c]), pc'[c] \notin InBody,
             \A b \in Call \ {c} : pc'[b] = pc[b] /\ sid'[b] = sid[b], UNCHANGED reaper
      PROVE  Guards'
  BY <1>1, <1>2, <1>7, LeaveStep, Names DEF Guards, reaper
<1>8. ASSUME NEW c \in Call, Peek(c) \/ Touch(c) \/ Purge(c) \/ OpenTxDone(c) \/ Unlock(c)
      PROVE  Guards'
  <2>1. Owns(c, sid[c]) /\ pc[c] # "idle" /\ Leave(sid[c]) /\ UNCHANGED reaper
    BY <1>1, <1>8 DEF Peek, Touch, Purge, OpenTxDone, Unlock, Guards
  <2>2. pc'[c] \notin InBody /\ \A b \in Call \ {c} : pc'[b] = pc[b] /\ sid'[b] = sid[b]
    BY <1>1, <1>8 DEF Peek, Touch, Purge, OpenTxDone, Unlock, Finish, Goto, TypeOK
  <2>3. QED
    BY <1>7, <2>1, <2>2
<1>9. ASSUME NEW c \in Call, Hold(c) \/ OpenTx(c) \/ QueryTx(c) \/ CloseTx(c) PROVE Guards'
  <2>1. Owns(c, sid[c]) /\ UNCHANGED <<queue, sid, reaper>>
    BY <1>9 DEF Hold, OpenTx, QueryTx, CloseTx, session
  <2>2. \A b \in Call \ {c} : pc'[b] = pc[b]
    BY <1>1, <1>9 DEF Hold, OpenTx, QueryTx, CloseTx, Goto, TypeOK
  <2>3. QED
    BY <1>1, <2>1, <2>2 DEF Guards, Owns, reaper
<1>10. CASE ReaperWake \/ ReaperList \/ ReaperSleep \/ ReaperPeek \/ ReaperRemove
  BY <1>1, <1>10 DEF ReaperWake, ReaperList, ReaperSleep, ReaperPeek, ReaperRemove, Guards, Owns,
                     session, call
<1>11. CASE ReaperLock
  BY <1>1, <1>2, <1>11, JoinStep DEF ReaperLock, Guards, Tasks, call, reaper
<1>12. CASE ReaperPurge \/ ReaperRelease
  <2>1. rsid \in Session /\ Owns(Reaper, rsid) /\ Leave(rsid) /\ UNCHANGED call /\ rpc' = "next"
    BY <1>1, <1>2, <1>12 DEF ReaperPurge, ReaperRelease, Guards
  <2>2. QED
    <3>1. \A r \in Session : \A q : Owns(q, r) /\ q # Reaper => Owns(q, r)'
      BY <1>1, <2>1, LeaveStep
    <3>2. QED
      BY <1>1, <1>2, <2>1, <3>1, Names DEF Guards, call
<1>13. CASE ReaperIdle
  <2>1. CASE queue[rsid] = <<>> /\ IdleTx(rsid, rnow)
    BY <1>1, <1>2, <1>13, <2>1, JoinStep DEF ReaperIdle, Guards, Tasks, call
  <2>2. CASE ~(queue[rsid] = <<>> /\ IdleTx(rsid, rnow))
    BY <1>1, <1>13, <2>2 DEF ReaperIdle, Guards, Owns, call
  <2>3. QED
    BY <2>1, <2>2
<1>14. CASE Tick \/ UNCHANGED vars
  BY <1>1, <1>14 DEF Tick, vars, Guards, Owns, session, call, reaper
<1>15. QED
  BY <1>3, <1>4, <1>5, <1>6, <1>8, <1>9, <1>10, <1>11, <1>12, <1>13, <1>14 DEF Next, Step, Reap

(* Calls that are in neither mutex's critical section leave the rest of the *)
(* invariant alone: they refresh nothing and remove nothing.                *)
Apart(c) ==
  /\ pc[c] \notin InStore /\ pc'[c] \notin InStore \cup {"resolved"}
  /\ \A b \in Call \ {c} : pc'[b] = pc[b] /\ sid'[b] = sid[b] /\ at'[b] = at[b]
  /\ UNCHANGED <<live, inner, expires_at, reaper>>

LEMMA ApartSteps ==
    ASSUME BaseInv, NEW c \in Call,
           \/ Purge(c) \/ Hold(c) \/ OpenTx(c) \/ QueryTx(c) \/ CloseTx(c)
           \/ OpenTxDone(c) \/ Unlock(c)
    PROVE  Apart(c)
<1>1. TypeOK
  BY DEF BaseInv
<1>2. CASE Hold(c) \/ OpenTx(c) \/ QueryTx(c) \/ CloseTx(c)
  <2>1. /\ pc[c] = "resolved" /\ (Goto(c, "busy") \/ Goto(c, "opening"))
        /\ UNCHANGED <<live, inner, expires_at, sid, at, reaper>>
    BY <1>2 DEF Hold, OpenTx, QueryTx, CloseTx, store, session
  <2>2. QED
    BY <1>1, <2>1, GotoStep DEF Apart, InStore
<1>3. CASE Purge(c) \/ OpenTxDone(c) \/ Unlock(c)
  <2>1. /\ pc[c] \in {"purge", "busy", "opening"} /\ Finish(c)
        /\ UNCHANGED <<live, inner, expires_at, reaper>>
    BY <1>3 DEF Purge, OpenTxDone, Unlock, store
  <2>2. QED
    BY <1>1, <2>1, FinishStep DEF Apart, InStore
<1>4. QED
  BY <1>2, <1>3

LEMMA ResolvingStep ==
    ASSUME BaseInv, [Next]_vars
    PROVE  Resolving'
<1> USE DEF InStore
<1>1. TypeOK /\ Sids /\ Clocks /\ Resolving /\ Refreshed
  BY DEF BaseInv
<1>2. ASSUME NEW s \in Session, Start(s) PROVE Resolving'
  <2>1. inner = None /\ UNCHANGED <<pc, inner>>
    BY <1>2 DEF Start, call
  <2>2. \A c \in Call : pc[c] \notin InStore
    BY <1>1, <2>1, Names DEF Resolving
  <2>3. QED
    BY <2>1, <2>2 DEF Resolving
<1>3. ASSUME NEW c \in Call, Begin(c) PROVE Resolving'
  <2>1. /\ pc[c] = "idle" /\ pc'[c] = "lookup"
        /\ \A b \in Call \ {c} : pc'[b] = pc[b] /\ sid'[b] = sid[b]
        /\ UNCHANGED <<live, inner, expires_at, at, reaper>>
    BY <1>1, <1>3 DEF Begin, Goto, TypeOK, store, session
  <2>2. QED
    BY <1>1, <2>1 DEF Resolving, reaper
<1>4. ASSUME NEW c \in Call, Lookup(c) PROVE Resolving'
  <2>1. /\ inner = None /\ pc[c] = "lookup" /\ UNCHANGED <<live, session, reaper, now>>
        /\ \A b \in Call : pc[b] \notin InStore
    BY <1>1, <1>4, Names DEF Lookup, Resolving
  <2>2. CASE sid[c] \in live
    <3>1. inner' = c /\ at' = [at EXCEPT ![c] = now] /\ Goto(c, "peek") /\ UNCHANGED sid
      BY <1>4, <2>2 DEF Lookup
    <3>2. /\ pc'[c] = "peek" /\ at'[c] = now
          /\ \A b \in Call \ {c} : pc'[b] = pc[b] /\ at'[b] = at[b]
      BY <1>1, <3>1, GotoStep DEF TypeOK
    <3>3. QED
      BY <1>1, <2>1, <2>2, <3>1, <3>2 DEF Resolving, Clocks, reaper
  <2>3. CASE sid[c] \notin live
    <3>1. Finish(c)
      BY <1>4, <2>3 DEF Lookup
    <3>2. \A b \in Call : pc'[b] \notin InStore
      BY <1>1, <2>1, <3>1, FinishStep
    <3>3. QED
      BY <3>2 DEF Resolving
  <2>4. QED
    BY <2>2, <2>3
<1>5. ASSUME NEW c \in Call, Lock(c) PROVE Resolving'
  BY <1>1, <1>5 DEF Lock, Resolving, store, call, reaper
<1>6. ASSUME NEW c \in Call, Peek(c) PROVE Resolving'
  <2>1. /\ inner = c /\ sid[c] \in live /\ UNCHANGED <<expires_at, sid, at, reaper>>
        /\ \A b \in Call \ {c} : pc[b] \notin InStore
    BY <1>1, <1>6 DEF Peek, Resolving
  <2>2. CASE expires_at[sid[c]] <= at[c]
    <3>1. \A b \in Call : pc'[b] \notin InStore
      BY <1>1, <1>6, <2>1, <2>2, GotoStep DEF Peek
    <3>2. QED
      BY <3>1 DEF Resolving
  <2>3. CASE ~(expires_at[sid[c]] <= at[c])
    <3>1. Goto(c, "touch") /\ UNCHANGED <<live, inner>>
      BY <1>6, <2>3 DEF Peek
    <3>2. sid[c] \in Session /\ expires_at[sid[c]] \in Nat /\ at[c] \in Nat
      BY <1>1, <2>1, ConstantsOK DEF TypeOK
    <3>3. at[c] < expires_at[sid[c]]
      BY <2>3, <3>2
    <3>4. pc[c] = "peek"
      BY <1>6 DEF Peek
    <3>5. QED
      BY <1>1, <2>1, <3>1, <3>3, <3>4, GotoStep DEF Resolving, reaper
  <2>4. QED
    BY <2>2, <2>3
<1>7. ASSUME NEW c \in Call, Touch(c) PROVE Resolving'
  <2>1. /\ inner = c /\ Goto(c, "resolved")
        /\ \A b \in Call \ {c} : pc[b] \notin InStore
    BY <1>1, <1>7 DEF Touch, Resolving
  <2>2. \A b \in Call : pc'[b] \notin InStore
    BY <1>1, <2>1, GotoStep
  <2>3. QED
    BY <2>2 DEF Resolving
<1>8. ASSUME NEW c \in Call, Apart(c) PROVE Resolving'
  BY <1>1, <1>8 DEF Apart, Resolving, reaper
<1>9. CASE ReaperWake \/ ReaperSleep \/ ReaperPeek \/ ReaperLock \/ ReaperPurge \/ ReaperIdle
             \/ ReaperRelease
  BY <1>1, <1>9 DEF ReaperWake, ReaperSleep, ReaperPeek, ReaperLock, ReaperPurge, ReaperIdle,
                    ReaperRelease, Resolving, store, session, call, reaper
<1>10. CASE ReaperList \/ ReaperRemove
  <2>1. inner = None /\ UNCHANGED call
    BY <1>10 DEF ReaperList, ReaperRemove
  <2>2. QED
    BY <1>1, <2>1, Names DEF Resolving, call
<1>11. CASE Tick \/ UNCHANGED vars
  BY <1>1, <1>11 DEF Tick, vars, Resolving, store, session, call, reaper
<1>12. QED
  BY <1>2, <1>3, <1>4, <1>5, <1>6, <1>7, <1>8, <1>9, <1>10, <1>11, ApartSteps
     DEF Next, Step, Reap

LEMMA RefreshedStep ==
    ASSUME BaseInv, [Next]_vars
    PROVE  Refreshed'
<1>1. TypeOK /\ Sids /\ Resolving /\ Refreshed
  BY DEF BaseInv
<1>2. ASSUME NEW s \in Session, Start(s) PROVE Refreshed'
  <2>1. s \notin born /\ expires_at' = [expires_at EXCEPT ![s] = now + Ttl] /\ UNCHANGED call
    BY <1>2 DEF Start
  <2>2. \A c \in Call : pc[c] = "resolved" => sid[c] \in born
    BY <1>1 DEF Sids
  <2>3. QED
    BY <1>1, <2>1, <2>2 DEF Refreshed, TypeOK, call
<1>3. ASSUME NEW c \in Call, Begin(c) PROVE Refreshed'
  BY <1>1, <1>3 DEF Begin, Goto, Refreshed, TypeOK, session
<1>4. ASSUME NEW c \in Call, Lookup(c) PROVE Refreshed'
  <2>1. UNCHANGED expires_at /\ pc'[c] # "resolved"
        /\ \A b \in Call \ {c} : pc'[b] = pc[b] /\ sid'[b] = sid[b] /\ at'[b] = at[b]
    <3>1. CASE sid[c] \in live
      BY <1>1, <1>4, <3>1 DEF Lookup, Goto, TypeOK, session
    <3>2. CASE sid[c] \notin live
      <4>1. Finish(c) /\ UNCHANGED expires_at
        BY <1>4, <3>2 DEF Lookup, session
      <4>2. QED
        BY <1>1, <4>1, FinishStep
    <3>3. QED
      BY <3>1, <3>2
  <2>2. QED
    BY <1>1, <2>1 DEF Refreshed
<1>5. ASSUME NEW c \in Call, Lock(c) PROVE Refreshed'
  BY <1>1, <1>5 DEF Lock, Refreshed, call
<1>6. ASSUME NEW c \in Call, Peek(c) PROVE Refreshed'
  <2>1. UNCHANGED <<expires_at, sid, at>> /\ (Goto(c, "purge") \/ Goto(c, "touch"))
    BY <1>6 DEF Peek
  <2>2. QED
    BY <1>1, <2>1, GotoStep DEF Refreshed
<1>7. ASSUME NEW c \in Call, Touch(c) PROVE Refreshed'
  <2>1. /\ expires_at' = [expires_at EXCEPT ![sid[c]] = at[c] + Ttl]
        /\ UNCHANGED <<sid, at>> /\ Goto(c, "resolved") /\ pc[c] = "touch"
    BY <1>7 DEF Touch
  <2>2. sid[c] \in Session
    BY <1>1, <2>1, SidTypes
  <2>3. \A b \in Call : pc[b] = "resolved" => at[b] + Ttl <= at[c] + Ttl
    BY <1>1, <2>1, ConstantsOK DEF Resolving, InStore, TypeOK
  <2>4. \A b \in Call : pc[b] = "resolved" => at[b] + Ttl <= expires_at'[sid[b]]
    BY <1>1, <2>1, <2>2, <2>3, SidTypes DEF Refreshed, TypeOK
  <2>5. at[c] + Ttl <= expires_at'[sid[c]]
    BY <1>1, <2>1, <2>2, ConstantsOK DEF TypeOK
  <2>6. QED
    BY <1>1, <2>1, <2>4, <2>5, GotoStep DEF Refreshed
<1>8. ASSUME NEW c \in Call, Apart(c) PROVE Refreshed'
  BY <1>1, <1>8 DEF Apart, Refreshed
<1>9. CASE Reap \/ Tick \/ UNCHANGED vars
  <2>1. UNCHANGED <<expires_at, call>>
    BY <1>9 DEF Reap, ReaperWake, ReaperList, ReaperSleep, ReaperPeek, ReaperRemove, ReaperLock,
                ReaperPurge, ReaperIdle, ReaperRelease, Tick, vars, session
  <2>2. QED
    BY <1>1, <2>1 DEF Refreshed, call
<1>10. QED
  BY <1>2, <1>3, <1>4, <1>5, <1>6, <1>7, <1>8, <1>9, ApartSteps DEF Next, Step

LEMMA CondemnedStep ==
    ASSUME BaseInv, [Next]_vars
    PROVE  Condemned'
<1>1. TypeOK /\ Sids /\ Resolving /\ Condemned
  BY DEF BaseInv
<1>2. ASSUME NEW s \in Session, Start(s) PROVE Condemned'
  <2>1. s \notin born /\ expires_at' = [expires_at EXCEPT ![s] = now + Ttl] /\ UNCHANGED reaper
    BY <1>2 DEF Start
  <2>2. QED
    BY <1>1, <2>1 DEF Condemned, Sids, TypeOK, reaper
<1>3. ASSUME NEW c \in Call, Touch(c) PROVE Condemned'
  <2>1. /\ expires_at' = [expires_at EXCEPT ![sid[c]] = at[c] + Ttl]
        /\ UNCHANGED reaper /\ pc[c] = "touch"
    BY <1>3 DEF Touch
  <2>2. CASE rpc = "remove" /\ rsid = sid[c]
    <3>1. at[c] < expires_at[rsid] /\ rnow <= at[c] /\ expires_at[rsid] <= rnow
      BY <1>1, <2>1, <2>2 DEF Resolving, InStore, Condemned
    <3>2. rsid \in Session /\ expires_at[rsid] \in Nat /\ at[c] \in Nat /\ rnow \in Nat
      BY <1>1, <2>2, SidTypes, ConstantsOK DEF TypeOK
    <3>3. QED
      BY <3>1, <3>2
  <2>3. CASE ~(rpc = "remove" /\ rsid = sid[c])
    BY <1>1, <2>1, <2>3 DEF Condemned, TypeOK, reaper
  <2>4. QED
    BY <2>2, <2>3
<1>4. CASE UNCHANGED <<expires_at, reaper>>
  BY <1>1, <1>4 DEF Condemned, reaper
<1>5. ASSUME NEW c \in Call, Begin(c) \/ Lookup(c) \/ Lock(c) \/ Peek(c)
      PROVE  Condemned'
  BY <1>4, <1>5 DEF Begin, Lookup, Lock, Peek, session, reaper
<1>6. ASSUME NEW c \in Call, Apart(c) PROVE Condemned'
  BY <1>4, <1>6 DEF Apart
<1>7. CASE Reap
  BY <1>1, <1>7
     DEF Reap, ReaperWake, ReaperList, ReaperSleep, ReaperPeek, ReaperRemove, ReaperLock,
         ReaperPurge, ReaperIdle, ReaperRelease, Condemned, session, reaper
<1>8. CASE Tick \/ UNCHANGED vars
  BY <1>4, <1>8 DEF Tick, vars, session, reaper
<1>9. QED
  BY <1>2, <1>3, <1>5, <1>6, <1>7, <1>8, ApartSteps DEF Next, Step

LEMMA BaseInitial == Init => BaseInv
<1> SUFFICES ASSUME Init PROVE BaseInv
  OBVIOUS
<1>1. TypeOK
  BY ConstantsOK DEF Init, TypeOK
<1>2. QED
  BY <1>1 DEF Init, BaseInv, Sids, Clocks, Guards, Resolving, Refreshed, Condemned, InBody,
              InStore

LEMMA BaseInductive == BaseInv /\ [Next]_vars => BaseInv'
BY TypeStep, SidsStep, ClocksStep, GuardsStep, ResolvingStep, RefreshedStep, CondemnedStep
   DEF BaseInv

LEMMA BaseInvariant == Spec => []BaseInv
BY BaseInitial, BaseInductive, PTL DEF Spec

-----------------------------------------------------------------------------
(* With Prompt, a session that a call has resolved cannot expire before the *)
(* call has the session's mutex, nor be removed while it has it.            *)

Timely == \A c \in Call : pc[c] \in InStore \cup {"resolved"} => now < at[c] + Ttl
Spared == rpc = "remove" => \A c \in Call : pc[c] \in InBody => sid[c] # rsid

PromptInv == BaseInv /\ Timely /\ Spared /\ UsedSessionsAreLive

LEMMA TimelyStep ==
    ASSUME Prompt, PromptInv, [Next]_vars
    PROVE  Timely'
<1> USE DEF InStore
<1>1. TypeOK /\ Timely
  BY DEF PromptInv, BaseInv
<1>2. ASSUME NEW s \in Session, Start(s) PROVE Timely'
  BY <1>1, <1>2 DEF Start, Timely, call
<1>3. ASSUME NEW c \in Call, Begin(c) PROVE Timely'
  BY <1>1, <1>3 DEF Begin, Goto, Timely, TypeOK
<1>4. ASSUME NEW c \in Call, Lookup(c) PROVE Timely'
  <2>1. CASE sid[c] \in live
    <3>1. at' = [at EXCEPT ![c] = now] /\ Goto(c, "peek") /\ UNCHANGED now
      BY <1>4, <2>1 DEF Lookup
    <3>2. now < now + Ttl
      BY <1>1, ConstantsOK DEF TypeOK
    <3>3. QED
      BY <1>1, <3>1, <3>2, GotoStep DEF Timely, TypeOK
  <2>2. CASE sid[c] \notin live
    <3>1. Finish(c) /\ UNCHANGED now
      BY <1>4, <2>2 DEF Lookup
    <3>2. QED
      BY <1>1, <3>1, FinishStep DEF Timely
  <2>3. QED
    BY <2>1, <2>2
<1>5. ASSUME NEW c \in Call, Lock(c) PROVE Timely'
  BY <1>1, <1>5 DEF Lock, Timely, call
<1>6. ASSUME NEW c \in Call, Peek(c) \/ Touch(c) PROVE Timely'
  <2>1. /\ pc[c] \in InStore /\ UNCHANGED <<now, at>>
        /\ Goto(c, "purge") \/ Goto(c, "touch") \/ Goto(c, "resolved")
    BY <1>6 DEF Peek, Touch
  <2>2. QED
    BY <1>1, <2>1, GotoStep DEF Timely
<1>7. ASSUME NEW c \in Call,
             \/ Purge(c) \/ Hold(c) \/ OpenTx(c) \/ QueryTx(c) \/ CloseTx(c)
             \/ OpenTxDone(c) \/ Unlock(c)
      PROVE  Timely'
  <2>1. Apart(c)
    BY <1>7, ApartSteps DEF PromptInv
  <2>2. UNCHANGED now
    BY <1>7 DEF Purge, Hold, OpenTx, QueryTx, CloseTx, OpenTxDone, Unlock
  <2>3. QED
    BY <1>1, <2>1, <2>2 DEF Apart, Timely
<1>8. CASE Reap \/ UNCHANGED vars
  BY <1>1, <1>8
     DEF Reap, ReaperWake, ReaperList, ReaperSleep, ReaperPeek, ReaperRemove, ReaperLock,
         ReaperPurge, ReaperIdle, ReaperRelease, vars, Timely, call
<1>9. CASE Tick
  BY <1>1, <1>9 DEF Tick, Timely, call
<1>10. QED
  BY <1>2, <1>3, <1>4, <1>5, <1>6, <1>7, <1>8, <1>9 DEF Next, Step

(* A session that a resolved call waits for is not one the reaper condemned. *)
LEMMA ResolvedAreFresh ==
    ASSUME PromptInv, NEW c \in Call, pc[c] = "resolved"
    PROVE  now < expires_at[sid[c]] /\ (rpc = "remove" => sid[c] # rsid)
<1>1. TypeOK /\ Sids /\ Clocks /\ Refreshed /\ Condemned /\ Timely
  BY DEF PromptInv, BaseInv
<1>2. sid[c] \in Session
  BY <1>1, SidTypes
<1>3. /\ now \in Nat /\ rnow \in Nat /\ Ttl \in Nat /\ at[c] \in Nat
      /\ expires_at[sid[c]] \in Nat
  BY <1>1, <1>2, ConstantsOK DEF TypeOK
<1>4. now < at[c] + Ttl /\ at[c] + Ttl <= expires_at[sid[c]]
  BY <1>1 DEF Timely, Refreshed
<1>5. now < expires_at[sid[c]]
  BY <1>3, <1>4
<1>6. rpc = "remove" => expires_at[rsid] <= rnow /\ rnow <= now
  BY <1>1 DEF Condemned, Clocks
<1>7. QED
  BY <1>3, <1>5, <1>6

LEMMA SparedStep ==
    ASSUME PromptInv, [Next]_vars
    PROVE  Spared'
<1> USE DEF InBody
<1>1. BaseInv /\ TypeOK /\ Sids /\ Guards /\ Spared
  BY DEF PromptInv, BaseInv
<1>2. ASSUME UNCHANGED reaper, NEW c \in Call, pc'[c] \notin InBody,
             \A b \in Call \ {c} : pc'[b] = pc[b] /\ sid'[b] = sid[b]
      PROVE  Spared'
  BY <1>1, <1>2 DEF Spared, reaper
<1>3. ASSUME NEW c \in Call, Begin(c) PROVE Spared'
  <2>1. /\ UNCHANGED reaper /\ pc'[c] = "lookup"
        /\ \A b \in Call \ {c} : pc'[b] = pc[b] /\ sid'[b] = sid[b]
    BY <1>1, <1>3 DEF Begin, Goto, TypeOK
  <2>2. QED
    BY <1>2, <2>1
<1>4. ASSUME NEW c \in Call, Lookup(c) PROVE Spared'
  <2>1. UNCHANGED reaper
    BY <1>4 DEF Lookup
  <2>2. CASE sid[c] \in live
    BY <1>1, <1>2, <1>4, <2>1, <2>2, GotoStep DEF Lookup
  <2>3. CASE sid[c] \notin live
    BY <1>1, <1>2, <1>4, <2>1, <2>3, FinishStep DEF Lookup
  <2>4. QED
    BY <2>2, <2>3
<1>5. ASSUME NEW c \in Call, Peek(c) \/ Touch(c) PROVE Spared'
  <2>1. /\ UNCHANGED <<reaper, sid>>
        /\ Goto(c, "purge") \/ Goto(c, "touch") \/ Goto(c, "resolved")
    BY <1>5 DEF Peek, Touch
  <2>2. QED
    BY <1>1, <1>2, <2>1, GotoStep
<1>6. ASSUME NEW c \in Call, Purge(c) \/ OpenTxDone(c) \/ Unlock(c) PROVE Spared'
  <2>1. UNCHANGED reaper /\ Finish(c)
    BY <1>6 DEF Purge, OpenTxDone, Unlock
  <2>2. QED
    BY <1>1, <1>2, <2>1, FinishStep
<1>7. ASSUME NEW c \in Call, Hold(c) \/ OpenTx(c) \/ QueryTx(c) \/ CloseTx(c) PROVE Spared'
  <2>1. /\ pc[c] = "resolved" /\ UNCHANGED <<reaper, sid>>
        /\ Goto(c, "busy") \/ Goto(c, "opening")
    BY <1>7 DEF Hold, OpenTx, QueryTx, CloseTx
  <2>2. rpc = "remove" => sid[c] # rsid
    BY <2>1, ResolvedAreFresh
  <2>3. QED
    BY <1>1, <2>1, <2>2, GotoStep DEF Spared, reaper
<1>8. CASE ReaperPeek
  <2>1. PICK s \in rtodo :
          /\ queue[s] # <<>> => UNCHANGED <<rpc, rsid>>
          /\ queue[s] = <<>> => rsid' = s
    BY <1>8 DEF ReaperPeek
  <2>2. UNCHANGED call /\ rpc = "next"
    BY <1>8 DEF ReaperPeek
  <2>3. queue[s] = <<>> => \A c \in Call : pc[c] \in InBody => sid[c] # s
    BY <1>1 DEF Guards, Owns
  <2>4. QED
    BY <2>1, <2>2, <2>3 DEF Spared, call
<1>9. CASE Reap /\ ~ReaperPeek
  BY <1>1, <1>9
     DEF Reap, ReaperWake, ReaperList, ReaperSleep, ReaperRemove, ReaperLock,
         ReaperPurge, ReaperIdle, ReaperRelease, Spared, call, reaper
<1>10. ASSUME NEW s \in Session, Start(s) PROVE Spared'
  BY <1>1, <1>10 DEF Start, Spared, call, reaper
<1>11. ASSUME NEW c \in Call, Lock(c) PROVE Spared'
  BY <1>1, <1>11 DEF Lock, Spared, call, reaper
<1>12. CASE Tick \/ UNCHANGED vars
  BY <1>1, <1>12 DEF Tick, vars, Spared, call, reaper
<1>13. QED
  BY <1>3, <1>4, <1>5, <1>6, <1>7, <1>8, <1>9, <1>10, <1>11, <1>12 DEF Next, Step

LEMMA UsedStep ==
    ASSUME PromptInv, [Next]_vars
    PROVE  UsedSessionsAreLive'
<1> USE DEF InBody
<1>1. BaseInv /\ TypeOK /\ Sids /\ Clocks /\ Guards /\ Resolving /\ Spared /\ UsedSessionsAreLive
  BY DEF PromptInv, BaseInv
<1>2. ASSUME live \subseteq live', NEW c \in Call, pc'[c] \notin InBody \cup {"resolved"},
             \A b \in Call \ {c} : pc'[b] = pc[b] /\ sid'[b] = sid[b]
      PROVE  UsedSessionsAreLive'
  BY <1>1, <1>2 DEF UsedSessionsAreLive
<1>3. ASSUME NEW s \in Session, Start(s) PROVE UsedSessionsAreLive'
  BY <1>1, <1>3 DEF Start, UsedSessionsAreLive, call
<1>4. ASSUME NEW c \in Call, Begin(c) PROVE UsedSessionsAreLive'
  <2>1. /\ UNCHANGED live /\ pc'[c] = "lookup"
        /\ \A b \in Call \ {c} : pc'[b] = pc[b] /\ sid'[b] = sid[b]
    BY <1>1, <1>4 DEF Begin, Goto, TypeOK, store
  <2>2. QED
    BY <1>2, <2>1
<1>5. ASSUME NEW c \in Call, Lookup(c) PROVE UsedSessionsAreLive'
  <2>1. UNCHANGED live
    BY <1>5 DEF Lookup
  <2>2. CASE sid[c] \in live
    BY <1>1, <1>2, <1>5, <2>1, <2>2, GotoStep DEF Lookup
  <2>3. CASE sid[c] \notin live
    BY <1>1, <1>2, <1>5, <2>1, <2>3, FinishStep DEF Lookup
  <2>4. QED
    BY <2>2, <2>3
<1>6. ASSUME NEW c \in Call, Lock(c) PROVE UsedSessionsAreLive'
  BY <1>1, <1>6 DEF Lock, UsedSessionsAreLive, store, call
<1>7. ASSUME NEW c \in Call, Peek(c) PROVE UsedSessionsAreLive'
  <2>1. UNCHANGED sid /\ Owns(c, sid[c]) /\ pc[c] = "peek"
    BY <1>7 DEF Peek
  <2>2. CASE expires_at[sid[c]] <= at[c]
    <3>1. live' = live \ {sid[c]} /\ Goto(c, "purge")
      BY <1>7, <2>2 DEF Peek
    <3>2. ASSUME NEW b \in Call \ {c}, pc[b] \in InBody PROVE sid[b] # sid[c]
      BY <1>1, <2>1, <3>2 DEF Guards, Owns
    <3>3. ASSUME NEW b \in Call, pc[b] = "resolved" PROVE sid[b] # sid[c]
      <4>1. now < expires_at[sid[b]]
        BY <3>3, ResolvedAreFresh
      <4>2. sid[b] \in Session /\ expires_at[sid[b]] \in Nat /\ now \in Nat /\ at[c] \in Nat
        BY <1>1, <3>3, SidTypes, ConstantsOK DEF TypeOK
      <4>3. at[c] <= now
        BY <1>1 DEF Clocks
      <4>4. QED
        BY <2>2, <4>1, <4>2, <4>3
    <3>4. QED
      BY <1>1, <2>1, <3>1, <3>2, <3>3, GotoStep DEF UsedSessionsAreLive
  <2>3. CASE ~(expires_at[sid[c]] <= at[c])
    BY <1>1, <1>2, <1>7, <2>1, <2>3, GotoStep DEF Peek
  <2>4. QED
    BY <2>2, <2>3
<1>8. ASSUME NEW c \in Call, Touch(c) PROVE UsedSessionsAreLive'
  <2>1. UNCHANGED <<live, sid>> /\ Goto(c, "resolved") /\ pc[c] = "touch"
    BY <1>8 DEF Touch
  <2>2. sid[c] \in live
    BY <1>1, <2>1 DEF Resolving, InStore
  <2>3. QED
    BY <1>1, <2>1, <2>2, GotoStep DEF UsedSessionsAreLive
<1>9. ASSUME NEW c \in Call, Purge(c) \/ OpenTxDone(c) \/ Unlock(c) PROVE UsedSessionsAreLive'
  <2>1. UNCHANGED live /\ Finish(c)
    BY <1>9 DEF Purge, OpenTxDone, Unlock, store
  <2>2. QED
    BY <1>1, <1>2, <2>1, FinishStep
<1>10. ASSUME NEW c \in Call, Hold(c) \/ OpenTx(c) \/ QueryTx(c) \/ CloseTx(c)
       PROVE  UsedSessionsAreLive'
  <2>1. /\ pc[c] = "resolved" /\ UNCHANGED <<live, sid>>
        /\ Goto(c, "busy") \/ Goto(c, "opening")
    BY <1>10 DEF Hold, OpenTx, QueryTx, CloseTx, store
  <2>2. QED
    BY <1>1, <2>1, GotoStep DEF UsedSessionsAreLive
<1>11. CASE ReaperRemove
  <2>1. rpc = "remove" /\ live' = live \ {rsid} /\ UNCHANGED call
    BY <1>11 DEF ReaperRemove
  <2>2. \A c \in Call : pc[c] \in InBody \cup {"resolved"} => sid[c] # rsid
    BY <1>1, <2>1, ResolvedAreFresh DEF Spared
  <2>3. QED
    BY <1>1, <2>1, <2>2 DEF UsedSessionsAreLive, call
<1>12. CASE (Reap /\ ~ReaperRemove) \/ Tick \/ UNCHANGED vars
  <2>1. UNCHANGED <<live, call>>
    BY <1>12 DEF Reap, ReaperWake, ReaperList, ReaperSleep, ReaperPeek, ReaperLock, ReaperPurge,
                 ReaperIdle, ReaperRelease, Tick, vars, store
  <2>2. QED
    BY <1>1, <2>1 DEF UsedSessionsAreLive, call
<1>13. QED
  BY <1>3, <1>4, <1>5, <1>6, <1>7, <1>8, <1>9, <1>10, <1>11, <1>12 DEF Next, Step

LEMMA PromptInitial == Init => PromptInv
BY BaseInitial DEF Init, PromptInv, Timely, Spared, UsedSessionsAreLive, InStore, InBody

LEMMA PromptInductive ==
    ASSUME Prompt
    PROVE  PromptInv /\ [Next]_vars => PromptInv'
BY BaseInductive, TimelyStep, SparedStep, UsedStep DEF PromptInv

(* A transaction is stashed in a session that is in the store, and whoever  *)
(* takes the session out goes on to release it.                             *)
LEMMA OrphanStep ==
    ASSUME PromptInv, NoOrphans, [Next]_vars
    PROVE  NoOrphans'
<1> USE DEF InBody
<1>1. BaseInv /\ TypeOK /\ Sids /\ Resolving /\ UsedSessionsAreLive
  BY DEF PromptInv, BaseInv
<1> DEFINE Purged(s) == \/ \E c \in Call : pc[c] = "purge" /\ sid[c] = s
                        \/ rpc = "purge" /\ rsid = s
<1>2. \A s \in born \ live : tx[s] # None => Purged(s)
  BY DEF NoOrphans
<1>3. ASSUME NEW s \in Session, Start(s) PROVE NoOrphans'
  BY <1>2, <1>3 DEF Start, NoOrphans, call, reaper
<1>4. ASSUME NEW c \in Call, Begin(c) \/ Lookup(c) PROVE NoOrphans'
  <2>1. UNCHANGED <<live, born, tx, reaper>> /\ pc[c] # "purge"
          /\ \A b \in Call \ {c} : pc'[b] = pc[b] /\ sid'[b] = sid[b]
    <3>1. CASE Begin(c)
      BY <1>1, <3>1 DEF Begin, Goto, TypeOK, store, session
    <3>2. CASE Lookup(c)
      <4>1. UNCHANGED <<live, born, tx, reaper>> /\ pc[c] # "purge"
        BY <3>2 DEF Lookup, session
      <4>2. (Goto(c, "peek") /\ UNCHANGED sid) \/ Finish(c)
        BY <3>2 DEF Lookup
      <4>3. QED
        BY <1>1, <4>1, <4>2, GotoStep, FinishStep
    <3>3. QED
      BY <1>4, <3>1, <3>2
  <2>2. QED
    BY <1>2, <2>1 DEF NoOrphans, reaper
<1>5. ASSUME NEW c \in Call, Lock(c) PROVE NoOrphans'
  BY <1>2, <1>5 DEF Lock, NoOrphans, store, call, reaper
<1>6. ASSUME NEW c \in Call, Peek(c) PROVE NoOrphans'
  <2>1. UNCHANGED <<born, tx, sid, reaper>> /\ pc[c] = "peek"
    BY <1>6 DEF Peek
  <2>2. \/ live' = live \ {sid[c]} /\ Goto(c, "purge")
        \/ live' = live /\ Goto(c, "touch")
    BY <1>6 DEF Peek
  <2>3. QED
    BY <1>1, <1>2, <2>1, <2>2, GotoStep DEF NoOrphans, reaper
<1>7. ASSUME NEW c \in Call, Touch(c) \/ Hold(c) \/ OpenTx(c) PROVE NoOrphans'
  <2>1. UNCHANGED <<live, born, tx, sid, reaper>> /\ pc[c] # "purge"
          /\ \E label : Goto(c, label)
    BY <1>7 DEF Touch, Hold, OpenTx, store, session
  <2>2. QED
    BY <1>1, <1>2, <2>1, GotoStep DEF NoOrphans, reaper
<1>8. ASSUME NEW c \in Call, QueryTx(c) \/ CloseTx(c) \/ OpenTxDone(c) \/ Unlock(c)
      PROVE  NoOrphans'
  <2>1. /\ UNCHANGED <<live, born, reaper>> /\ pc[c] # "purge" /\ sid[c] \in live
        /\ \A s \in Session \ {sid[c]} : tx'[s] = tx[s]
    BY <1>1, <1>8 DEF QueryTx, CloseTx, OpenTxDone, Unlock, store, TypeOK, UsedSessionsAreLive
  <2>2. \A b \in Call \ {c} : pc'[b] = pc[b] /\ sid'[b] = sid[b]
    <3>1. CASE QueryTx(c) \/ CloseTx(c)
      BY <1>1, <3>1, GotoStep DEF QueryTx, CloseTx
    <3>2. CASE OpenTxDone(c) \/ Unlock(c)
      BY <1>1, <3>2, FinishStep DEF OpenTxDone, Unlock
    <3>3. QED
      BY <1>8, <3>1, <3>2
  <2>3. QED
    <3>1. ASSUME NEW s \in born \ live, tx'[s] # None PROVE Purged(s)'
      <4>1. s \in Session /\ s # sid[c] /\ tx[s] # None
        BY <1>1, <2>1, <3>1 DEF TypeOK
      <4>2. CASE rpc = "purge" /\ rsid = s
        BY <2>1, <4>2 DEF reaper
      <4>3. ASSUME NEW b \in Call, pc[b] = "purge", sid[b] = s PROVE Purged(s)'
        BY <2>1, <2>2, <4>3
      <4>4. QED
        BY <1>2, <3>1, <4>1, <4>2, <4>3
    <3>2. QED
      BY <2>1, <3>1 DEF NoOrphans
<1>9. ASSUME NEW c \in Call, Purge(c) PROVE NoOrphans'
  <2>1. UNCHANGED <<live, born, reaper>> /\ Finish(c) /\ tx' = [tx EXCEPT ![sid[c]] = None]
    BY <1>9 DEF Purge, store
  <2>2. \A b \in Call \ {c} : pc'[b] = pc[b] /\ sid'[b] = sid[b]
    BY <1>1, <2>1, FinishStep
  <2>3. QED
    <3>1. ASSUME NEW s \in born \ live, tx'[s] # None PROVE Purged(s)'
      <4>1. s \in Session /\ s # sid[c] /\ tx[s] # None
        BY <1>1, <1>9, <2>1, <3>1, SidTypes DEF TypeOK, Purge
      <4>2. CASE rpc = "purge" /\ rsid = s
        BY <2>1, <4>2 DEF reaper
      <4>3. ASSUME NEW b \in Call, pc[b] = "purge", sid[b] = s PROVE Purged(s)'
        BY <2>1, <2>2, <4>1, <4>3
      <4>4. QED
        BY <1>2, <3>1, <4>1, <4>2, <4>3
    <3>2. QED
      BY <2>1, <3>1 DEF NoOrphans
<1>10. CASE ReaperRemove
  <2>1. UNCHANGED <<born, tx, call>> /\ live' = live \ {rsid} /\ rpc = "remove"
    BY <1>10 DEF ReaperRemove, session
  <2>2. rsid \in live => rpc' = "purge" /\ UNCHANGED rsid
    BY <1>10 DEF ReaperRemove
  <2>3. QED
    BY <1>2, <2>1, <2>2 DEF NoOrphans, call
<1>11. CASE ReaperPurge
  <2>1. UNCHANGED <<live, born, call>> /\ tx' = [tx EXCEPT ![rsid] = None]
    BY <1>11 DEF ReaperPurge, store
  <2>2. QED
    BY <1>1, <1>2, <2>1 DEF NoOrphans, TypeOK, call
<1>12. CASE ReaperIdle
  <2>1. UNCHANGED <<live, born, call>> /\ rpc # "purge"
          /\ (tx' = tx \/ tx' = [tx EXCEPT ![rsid] = None])
    BY <1>12 DEF ReaperIdle, store
  <2>2. QED
    BY <1>1, <1>2, <2>1 DEF NoOrphans, TypeOK, call
<1>13. CASE ReaperWake \/ ReaperList \/ ReaperSleep \/ ReaperPeek \/ ReaperLock \/ ReaperRelease
              \/ Tick \/ UNCHANGED vars
  <2>1. UNCHANGED <<live, born, tx, call>> /\ (rpc # "purge" \/ UNCHANGED <<rpc, rsid>>)
    BY <1>13 DEF ReaperWake, ReaperList, ReaperSleep, ReaperPeek, ReaperLock, ReaperRelease,
                 Tick, vars, store, session, reaper
  <2>2. QED
    BY <1>2, <2>1 DEF NoOrphans, call
<1>14. QED
  BY <1>3, <1>4, <1>5, <1>6, <1>7, <1>8, <1>9, <1>10, <1>11, <1>12, <1>13 DEF Next, Step, Reap

-----------------------------------------------------------------------------
(* The theorems. *)

(* Every variable keeps its type: clocks within their bounds, owners and    *)
(* waiters of mutexes tasks of the program.                                 *)
THEOREM TypeCorrect == Spec => []TypeOK
<1>1. BaseInv => TypeOK
  BY DEF BaseInv
<1>2. QED
  BY <1>1, BaseInvariant, PTL

(* resolve_and_touch and the reaper remove a session only when it is        *)
(* expired at that moment, however old the instant they go by.              *)
THEOREM ExpiredArePurged == Spec => OnlyExpiredArePurged
<1>1. ASSUME BaseInv, [Next]_vars
      PROVE  [\A s \in live \ live' : expires_at[s] <= now]_vars
  <2>1. TypeOK /\ Clocks /\ Condemned /\ Sids
    BY <1>1 DEF BaseInv
  <2>2. ASSUME NEW c \in Call, Peek(c), NEW s \in live \ live'
        PROVE  expires_at[s] <= now
    <3>1. s = sid[c] /\ expires_at[s] <= at[c]
      BY <2>2 DEF Peek
    <3>2. at[c] <= now /\ s \in Session
      BY <2>1 DEF Clocks, TypeOK
    <3>3. expires_at[s] \in Nat /\ at[c] \in Nat /\ now \in Nat
      BY <2>1, <3>2, ConstantsOK DEF TypeOK
    <3>4. QED
      BY <3>1, <3>2, <3>3
  <2>3. ASSUME ReaperRemove, NEW s \in live \ live'
        PROVE  expires_at[s] <= now
    <3>1. s = rsid /\ expires_at[s] <= rnow /\ rnow <= now
      BY <2>1, <2>3 DEF ReaperRemove, Condemned, Clocks
    <3>2. s \in Session
      BY <2>1 DEF TypeOK
    <3>3. expires_at[s] \in Nat /\ rnow \in Nat /\ now \in Nat
      BY <2>1, <3>2, ConstantsOK DEF TypeOK
    <3>4. QED
      BY <3>1, <3>3
  <2>4. ASSUME NEW c \in Call, \/ Begin(c) \/ Lookup(c) \/ Lock(c) \/ Touch(c) \/ Purge(c)
                               \/ Hold(c) \/ OpenTx(c) \/ QueryTx(c) \/ CloseTx(c)
                               \/ OpenTxDone(c) \/ Unlock(c)
        PROVE  UNCHANGED live
    BY <2>4 DEF Begin, Lookup, Lock, Touch, Purge, Hold, OpenTx, QueryTx, CloseTx, OpenTxDone,
                Unlock, store
  <2>5. CASE Tick \/ (Reap /\ ~ReaperRemove) \/ \E s \in Session : Start(s)
    BY <2>5 DEF Tick, Reap, ReaperWake, ReaperList, ReaperSleep, ReaperPeek, ReaperLock,
                ReaperPurge, ReaperIdle, ReaperRelease, Start, store
  <2>6. QED
    BY <1>1, <2>2, <2>3, <2>4, <2>5 DEF Next, Step
<1>2. QED
  BY <1>1, BaseInvariant, PTL DEF Spec, OnlyExpiredArePurged

(* run_reaper takes a transaction only if it is idle at that moment and no  *)
(* call has or awaits the session's mutex, though it looked at the session  *)
(* earlier and goes by an older instant.                                    *)
THEOREM IdleAreReaped == Spec => OnlyIdleAreReaped
<1>1. ASSUME BaseInv, [Next]_vars
      PROVE  [rpc = "idle" /\ rpc' = "release" =>
                IdleTx(rsid, now) /\ \A c \in Call : ~Waits(c, rsid)]_vars
  <2>1. TypeOK /\ Clocks /\ Sids
    BY <1>1 DEF BaseInv
  <2>2. SUFFICES ASSUME rpc = "idle", rpc' = "release"
                 PROVE  IdleTx(rsid, now) /\ \A c \in Call : ~Waits(c, rsid)
    OBVIOUS
  <2>3. queue[rsid] = <<>> /\ IdleTx(rsid, rnow)
    BY <1>1, <2>2
       DEF Next, Step, Reap, Start, Begin, Lookup, Lock, Peek, Touch, Purge, Hold, OpenTx,
           QueryTx, CloseTx, OpenTxDone, Unlock, ReaperWake, ReaperList, ReaperSleep, ReaperPeek,
           ReaperRemove, ReaperLock, ReaperPurge, ReaperIdle, ReaperRelease, Tick, vars, reaper
  <2>4. rsid \in Session
    BY <2>1, <2>2, SidTypes
  <2>5. /\ tx[rsid] \in [kind: Kind, last_activity: 0..MaxTime]
        /\ rnow \in Nat /\ now \in Nat /\ rnow <= now
    BY <2>1, <2>3, <2>4, ConstantsOK DEF TypeOK, IdleTx, Clocks
  <2>6. tx[rsid].last_activity \in Nat /\ IdleTimeout[tx[rsid].kind] \in Nat
    BY <2>5, ConstantsOK
  <2>7. IdleTx(rsid, now)
    BY <2>3, <2>5, <2>6 DEF IdleTx
  <2>8. \A c \in Call : ~Waits(c, rsid)
    BY <2>3 DEF Waits
  <2>9. QED
    BY <2>7, <2>8
<1>2. QED
  BY <1>1, BaseInvariant, PTL DEF Spec, OnlyIdleAreReaped

(* If no call waits for its session's mutex for as long as the time-to-live, *)
(* a session with a call in it stays in the store.                          *)
THEOREM UsedAreLive ==
    ASSUME Prompt
    PROVE  Spec => []UsedSessionsAreLive
<1>1. PromptInv => UsedSessionsAreLive
  BY DEF PromptInv
<1>2. QED
  BY <1>1, PromptInitial, PromptInductive, PTL DEF Spec

(* And no transaction is left behind by a purge: DESIGN.md section 3,       *)
(* invariant 8.                                                             *)
THEOREM PurgedAreReleased ==
    ASSUME Prompt
    PROVE  Spec => []NoOrphans
<1>1. Init => NoOrphans
  BY DEF Init, NoOrphans
<1>2. PromptInv /\ NoOrphans /\ [Next]_vars => NoOrphans'
  BY OrphanStep
<1>3. QED
  BY <1>1, <1>2, PromptInitial, PromptInductive, PTL DEF Spec
=============================================================================
