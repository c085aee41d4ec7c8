---------------------------- MODULE SessionStore -----------------------------
(***************************************************************************)
(* session.rs: the store of live sessions behind one mutex, each session   *)
(* behind a mutex of its own, the time-to-live that resolve_and_touch      *)
(* refreshes, and the reaper.  Handler bodies (ToolCalls) are reduced to   *)
(* what they do with a session's mutex, transaction and activity time.     *)
(*                                                                         *)
(* tokio's Mutex serves its waiters in order: queue[s] is the owner of the *)
(* mutex of s followed by the tasks that wait for it.  Whether a refreshed *)
(* session can be purged, and a transaction outlive its session, depends   *)
(* on that order and on when each task read the clock.                     *)
(***************************************************************************)
EXTENDS Integers, Sequences, FiniteSets

CONSTANTS
    Call,         \* tasks that serve one tool call at a time
    Session,      \* session ids that start can mint
    Kind,         \* transaction kinds in use
    IdleTimeout,  \* IdleTimeout[k]: idle_timeout_for(k)
    Ttl,          \* session_ttl
    Prompt,       \* a timing assumption, see Tick
    MaxTime,      \* bound of the clock
    Reaper,       \* the reaper's task
    None

ASSUME ConstantsOK ==
    /\ IdleTimeout \in [Kind -> Nat \ {0}]
    /\ Ttl \in Nat \ {0} /\ MaxTime \in Nat /\ Prompt \in BOOLEAN
    /\ Reaper \notin Call /\ None \notin Call /\ None # Reaper
    /\ None \notin Session

VARIABLES
    now,         \* Instant::now()
    live, born,  \* sessions in the store; sessions ever minted
    inner,       \* owner of the store's mutex
    queue,       \* queue[s]: owner and waiters of the mutex of s
    expires_at,
    tx,          \* tx[s]: the stashed transaction with its last_activity, or None
    pc, sid,     \* where each call is, and the session it is about
    at,          \* the instant resolve_and_touch read for it
    rpc,         \* where the reaper is
    rnow, rtodo, rsid  \* the instant of this sweep, what is left of it, the session in hand

store == <<live, born, inner>>
session == <<queue, expires_at, tx>>
call == <<pc, sid, at>>
reaper == <<rpc, rnow, rtodo, rsid>>
vars == <<now, store, session, call, reaper>>

Open(k, t) == [kind |-> k, last_activity |-> t]

Init ==
    /\ now = 0
    /\ live = {} /\ born = {} /\ inner = None
    /\ queue = [s \in Session |-> <<>>]
    /\ expires_at = [s \in Session |-> 0]
    /\ tx = [s \in Session |-> None]
    /\ pc = [c \in Call |-> "idle"]
    /\ sid = [c \in Call |-> None]
    /\ at = [c \in Call |-> 0]
    /\ rpc = "sleep" /\ rnow = 0 /\ rtodo = {} /\ rsid = None

-----------------------------------------------------------------------------
(* tokio's Mutex. *)

Waits(p, s) == \E i \in DOMAIN queue[s] : queue[s][i] = p
Owns(p, s) == queue[s] # <<>> /\ Head(queue[s]) = p
Join(p, s) == queue' = [queue EXCEPT ![s] = Append(@, p)]
Leave(s) == queue' = [queue EXCEPT ![s] = Tail(@)]

Goto(c, label) == pc' = [pc EXCEPT ![c] = label]

(* The labels at which a call awaits arc.lock(). *)
Locking == {"peek", "touch", "purge", "resolved"}

Lock(c) ==
    /\ pc[c] \in Locking
    /\ ~Waits(c, sid[c])
    /\ Join(c, sid[c])
    /\ UNCHANGED <<now, store, expires_at, tx, call, reaper>>

-----------------------------------------------------------------------------
(* SessionStore::start and resolve_and_touch. *)

Start(s) ==
    /\ s \notin born
    /\ inner = None
    /\ born' = born \cup {s}
    /\ live' = live \cup {s}
    /\ expires_at' = [expires_at EXCEPT ![s] = now + Ttl]
    /\ UNCHANGED <<now, inner, queue, tx, call, reaper>>

(* A client sends a call with an id it was given. *)
Begin(c) ==
    /\ pc[c] = "idle"
    /\ \E s \in born : sid' = [sid EXCEPT ![c] = s]
    /\ Goto(c, "lookup")
    /\ UNCHANGED <<now, store, session, at, reaper>>

Finish(c) ==
    /\ Goto(c, "idle")
    /\ sid' = [sid EXCEPT ![c] = None]
    /\ at' = [at EXCEPT ![c] = 0]

(* Slip: the store's mutex is dropped before the session's is awaited. *)
LookupUnguarded(c) ==
    /\ pc[c] = "lookup"
    /\ inner = None
    /\ IF sid[c] \in live
       THEN /\ at' = [at EXCEPT ![c] = now]
            /\ Goto(c, "peek")
            /\ UNCHANGED sid
       ELSE Finish(c)
    /\ UNCHANGED <<now, store, session, reaper>>

(* The store's mutex is kept from here to the end of the refresh. *)
Lookup(c) ==
    /\ pc[c] = "lookup"
    /\ inner = None
    /\ IF sid[c] \in live
       THEN /\ inner' = c
            /\ at' = [at EXCEPT ![c] = now]
            /\ Goto(c, "peek")
            /\ UNCHANGED sid
       ELSE Finish(c) /\ UNCHANGED inner
    /\ UNCHANGED <<now, live, born, session, reaper>>

Peek(c) ==
    /\ pc[c] = "peek"
    /\ Owns(c, sid[c])
    /\ Leave(sid[c])
    /\ IF expires_at[sid[c]] <= at[c]
       THEN /\ live' = live \ {sid[c]}
            /\ inner' = None
            /\ Goto(c, "purge")
       ELSE Goto(c, "touch") /\ UNCHANGED <<live, inner>>
    /\ UNCHANGED <<now, born, expires_at, tx, sid, at, reaper>>

(* Slip: the time-to-live is added to what is left of it. *)
TouchAdds(c) ==
    /\ pc[c] = "touch"
    /\ Owns(c, sid[c])
    /\ Leave(sid[c])
    /\ expires_at' = [expires_at EXCEPT ![sid[c]] = @ + Ttl]
    /\ inner' = None
    /\ Goto(c, "resolved")
    /\ UNCHANGED <<now, live, born, tx, sid, at, reaper>>

Touch(c) ==
    /\ pc[c] = "touch"
    /\ Owns(c, sid[c])
    /\ Leave(sid[c])
    /\ expires_at' = [expires_at EXCEPT ![sid[c]] = at[c] + Ttl]
    /\ inner' = None
    /\ Goto(c, "resolved")
    /\ UNCHANGED <<now, live, born, tx, sid, at, reaper>>

(* Slip: the session is forgotten with its transaction. *)
PurgeKeepsTx(c) ==
    /\ pc[c] = "purge"
    /\ Owns(c, sid[c])
    /\ Leave(sid[c])
    /\ Finish(c)
    /\ UNCHANGED <<now, store, expires_at, tx, reaper>>

Purge(c) ==
    /\ pc[c] = "purge"
    /\ Owns(c, sid[c])
    /\ Leave(sid[c])
    /\ tx' = [tx EXCEPT ![sid[c]] = None]
    /\ Finish(c)
    /\ UNCHANGED <<now, store, expires_at, reaper>>

-----------------------------------------------------------------------------
(* What the body of a handler does once it owns its session's mutex. *)

(* Looks only (a refusal, a snapshot, a gate), or is a migration job. *)
Hold(c) ==
    /\ pc[c] = "resolved"
    /\ Owns(c, sid[c])
    /\ Goto(c, "busy")
    /\ UNCHANGED <<now, store, session, sid, at, reaper>>

OpenTx(c) ==
    /\ pc[c] = "resolved"
    /\ Owns(c, sid[c])
    /\ tx[sid[c]] = None
    /\ Goto(c, "opening")
    /\ UNCHANGED <<now, store, session, sid, at, reaper>>

(* stash_open_tx *)
OpenTxDone(c) ==
    /\ pc[c] = "opening"
    /\ \E k \in Kind : tx' = [tx EXCEPT ![sid[c]] = Open(k, now)]
    /\ Leave(sid[c])
    /\ Finish(c)
    /\ UNCHANGED <<now, store, expires_at, reaper>>

(* do_query and with_current_tx: last_activity is when the query starts. *)
QueryTx(c) ==
    /\ pc[c] = "resolved"
    /\ Owns(c, sid[c])
    /\ tx[sid[c]] # None
    /\ tx' = [tx EXCEPT ![sid[c]].last_activity = now]
    /\ Goto(c, "busy")
    /\ UNCHANGED <<now, store, queue, expires_at, sid, at, reaper>>

(* commit or rollback *)
CloseTx(c) ==
    /\ pc[c] = "resolved"
    /\ Owns(c, sid[c])
    /\ tx[sid[c]] # None
    /\ tx' = [tx EXCEPT ![sid[c]] = None]
    /\ Goto(c, "busy")
    /\ UNCHANGED <<now, store, queue, expires_at, sid, at, reaper>>

(* The guard is dropped; also when an open failed. *)
Unlock(c) ==
    /\ pc[c] \in {"busy", "opening"}
    /\ Leave(sid[c])
    /\ Finish(c)
    /\ UNCHANGED <<now, store, expires_at, tx, reaper>>

-----------------------------------------------------------------------------
(* run_reaper.  Its only blocking waits are the store's mutex and, for a *)
(* session it removed, that session's.                                   *)

(* Slip: the clock is read once, before the loop. *)
ReaperWakeOldClock ==
    /\ rpc = "sleep"
    /\ rpc' = "list"
    /\ UNCHANGED <<now, store, session, call, rnow, rtodo, rsid>>

ReaperWake ==
    /\ rpc = "sleep"
    /\ rnow' = now
    /\ rpc' = "list"
    /\ UNCHANGED <<now, store, session, call, rtodo, rsid>>

ReaperList ==
    /\ rpc = "list"
    /\ inner = None
    /\ rtodo' = live
    /\ rpc' = "next"
    /\ UNCHANGED <<now, store, session, call, rnow, rsid>>

ReaperSleep ==
    /\ rpc = "next"
    /\ rtodo = {}
    /\ rpc' = "sleep"
    /\ rnow' = 0
    /\ UNCHANGED <<now, store, session, call, rtodo, rsid>>

(* Slip: the clock is read again for each session. *)
ReaperPeekFreshClock ==
    /\ rpc = "next"
    /\ \E s \in rtodo :
          /\ rtodo' = rtodo \ {s}
          /\ IF queue[s] # <<>> THEN UNCHANGED <<rpc, rsid>>
             ELSE /\ rsid' = s
                  /\ rpc' = IF expires_at[s] <= now THEN "remove" ELSE "idle"
    /\ UNCHANGED <<now, store, session, call, rnow>>

(* First try_lock: a session in use is skipped. *)
ReaperPeek ==
    /\ rpc = "next"
    /\ \E s \in rtodo :
          /\ rtodo' = rtodo \ {s}
          /\ IF queue[s] # <<>> THEN UNCHANGED <<rpc, rsid>>
             ELSE /\ rsid' = s
                  /\ rpc' = IF expires_at[s] <= rnow THEN "remove" ELSE "idle"
    /\ UNCHANGED <<now, store, session, call, rnow>>

ReaperRemove ==
    /\ rpc = "remove"
    /\ inner = None
    /\ live' = live \ {rsid}
    /\ IF rsid \in live THEN rpc' = "purge" /\ UNCHANGED rsid
                        ELSE rpc' = "next" /\ rsid' = None
    /\ UNCHANGED <<now, born, inner, session, call, rnow, rtodo>>

ReaperLock ==
    /\ rpc = "purge"
    /\ ~Waits(Reaper, rsid)
    /\ Join(Reaper, rsid)
    /\ UNCHANGED <<now, store, expires_at, tx, call, reaper>>

ReaperPurge ==
    /\ rpc = "purge"
    /\ Owns(Reaper, rsid)
    /\ Leave(rsid)
    /\ tx' = [tx EXCEPT ![rsid] = None]
    /\ rpc' = "next" /\ rsid' = None
    /\ UNCHANGED <<now, store, expires_at, call, rnow, rtodo>>

(* Second try_lock. The mutex is kept while the driver releases the tx. *)
IdleTx(s, t) == tx[s] # None /\ t - tx[s].last_activity >= IdleTimeout[tx[s].kind]

(* Slip: the mutex is awaited where the code only tries it. *)
ReaperIdleBusy ==
    /\ rpc = "idle"
    /\ IF IdleTx(rsid, rnow)
       THEN /\ tx' = [tx EXCEPT ![rsid] = None]
            /\ Join(Reaper, rsid)
            /\ rpc' = "release"
            /\ UNCHANGED rsid
       ELSE rpc' = "next" /\ rsid' = None /\ UNCHANGED <<tx, queue>>
    /\ UNCHANGED <<now, store, expires_at, call, rnow, rtodo>>

ReaperIdle ==
    /\ rpc = "idle"
    /\ IF queue[rsid] = <<>> /\ IdleTx(rsid, rnow)
       THEN /\ tx' = [tx EXCEPT ![rsid] = None]
            /\ Join(Reaper, rsid)
            /\ rpc' = "release"
            /\ UNCHANGED rsid
       ELSE rpc' = "next" /\ rsid' = None /\ UNCHANGED <<tx, queue>>
    /\ UNCHANGED <<now, store, expires_at, call, rnow, rtodo>>

ReaperRelease ==
    /\ rpc = "release"
    /\ Leave(rsid)
    /\ rpc' = "next" /\ rsid' = None
    /\ UNCHANGED <<now, store, expires_at, tx, call, rnow, rtodo>>

-----------------------------------------------------------------------------

(* Prompt: a call gets its session's mutex within a Ttl of its clock read.  *)
(* Otherwise bodies and jobs may keep it waiting for longer, but a task that *)
(* waits for nothing runs before the clock moves.                            *)
Tick ==
    /\ now < MaxTime
    /\ \A c \in Call :
          IF Prompt THEN pc[c] \in {"peek", "touch", "resolved"} =>
                            now + 1 < at[c] + Ttl
                    ELSE pc[c] = "resolved" => Waits(c, sid[c])
    /\ now' = now + 1
    /\ UNCHANGED <<store, session, call, reaper>>

Step(c) ==
    \/ Lock(c) \/ Peek(c) \/ Touch(c) \/ Purge(c)
    \/ Hold(c) \/ OpenTx(c) \/ QueryTx(c) \/ CloseTx(c) \/ OpenTxDone(c) \/ Unlock(c)

Reap ==
    \/ ReaperWake \/ ReaperList \/ ReaperSleep \/ ReaperPeek \/ ReaperRemove
    \/ ReaperLock \/ ReaperPurge \/ ReaperIdle \/ ReaperRelease

Next ==
    \/ \E s \in Session : Start(s)
    \/ \E c \in Call : Begin(c) \/ Lookup(c) \/ Step(c)
    \/ Reap
    \/ Tick

Spec == Init /\ [][Next]_vars

(* The store's mutex is handed on in order too (strong fairness); everything *)
(* else is a task that is ready or a request that the driver ends.           *)
Fairness ==
    /\ \A c \in Call : SF_vars(Lookup(c)) /\ WF_vars(Step(c))
    /\ SF_vars(ReaperList \/ ReaperRemove) /\ WF_vars(Reap)
    /\ WF_vars(Tick)

FairSpec == Spec /\ Fairness

-----------------------------------------------------------------------------
(* Properties. *)

Tasks == Call \cup {Reaper}

TypeOK ==
    /\ now \in 0..MaxTime
    /\ born \subseteq Session /\ live \subseteq born
    /\ inner \in Call \cup {None}
    /\ queue \in [Session -> Seq(Tasks)]
    /\ expires_at \in [Session -> 0..(MaxTime + Ttl)]
    /\ tx \in [Session -> [kind: Kind, last_activity: 0..MaxTime] \cup {None}]
    /\ pc \in [Call -> Locking \cup {"idle", "lookup", "busy", "opening"}]
    /\ sid \in [Call -> Session \cup {None}]
    /\ at \in [Call -> 0..MaxTime]
    /\ rpc \in {"sleep", "list", "next", "remove", "purge", "idle", "release"}
    /\ rnow \in 0..MaxTime /\ rtodo \subseteq Session
    /\ rsid \in Session \cup {None}

(* A session leaves the store only when its time is over at that very        *)
(* moment: not when the reaper's older clock said so and a call refreshed it *)
(* in between.                                                               *)
OnlyExpiredArePurged == [][\A s \in live \ live' : expires_at[s] <= now]_vars

(* The reaper takes a transaction of a live session only when it is idle at  *)
(* that very moment, and from nobody's hands.                                *)
OnlyIdleAreReaped ==
    [][rpc = "idle" /\ rpc' = "release" =>
          IdleTx(rsid, now) /\ \A c \in Call : ~Waits(c, rsid)]_vars

(* A session in use is in the store: what a body stashes in it, the reaper   *)
(* and delete_database can find.                                             *)
UsedSessionsAreLive ==
    \A c \in Call : pc[c] \in {"resolved", "busy", "opening"} => sid[c] \in live

(* DESIGN.md section 3, invariant 8: a purge releases the session's open     *)
(* transaction.  So no transaction outlives its session, unless whoever      *)
(* purged it has yet to get the mutex.                                       *)
NoOrphans ==
    \A s \in born \ live : tx[s] # None =>
        \/ \E c \in Call : pc[c] = "purge" /\ sid[c] = s
        \/ rpc = "purge" /\ rsid = s

(* session.rs:97: a session's mutex is its own "so holding it across an      *)
(* await does not block the rest of the server".  Whoever has the store's    *)
(* mutex, which every call needs, does not wait for a handler's body.        *)
BodiesBlockOnlyTheirSession ==
    \A b, c \in Call :
        inner = c /\ Waits(c, sid[c]) /\ pc[b] \in {"busy", "opening"} =>
            ~Owns(b, sid[c])

(* A session nobody uses any more is purged once expired, and its idle       *)
(* transaction released before that; what a call stuck in a queue did to it  *)
(* does not keep the reaper away for good.                                   *)
Unused(s) == \A c \in Call : sid[c] # s

AbandonedAreReaped ==
    \A s \in Session :
        <>[]Unused(s) => <>[](~IdleTx(s, now) /\ (s \in live => now < expires_at[s]))

=============================================================================
