----------------------------- MODULE TxLifecycle -----------------------------
(***************************************************************************)
(* What a session promises its agent, whatever calls run concurrently: one *)
(* transaction slot, filled only through the schema-read gate and only     *)
(* when empty.  ToolCalls implements it for concurrent calls, Answers for  *)
(* one agent among faults.                                                 *)
(***************************************************************************)
CONSTANTS Session, Database, Kind, None

VARIABLES
    gate,   \* gate[s]: databases s may open a transaction on
    slot    \* slot[s]: the transaction of s, or None

Init ==
    /\ gate = [s \in Session |-> {}]
    /\ slot = [s \in Session |-> None]

OpenGate(s, d) ==
    /\ gate' = [gate EXCEPT ![s] = @ \cup {d}]
    /\ UNCHANGED slot

CloseGate(s, d) ==
    /\ gate' = [gate EXCEPT ![s] = @ \ {d}]
    /\ UNCHANGED slot

(* No second transaction, and none without the gate. *)
OpenTx(s, d, k) ==
    /\ slot[s] = None
    /\ d \in gate[s]
    /\ slot' = [slot EXCEPT ![s] = [database |-> d, kind |-> k]]
    /\ UNCHANGED gate

(* Committed, rolled back, reaped, or lost to a fatal error.  A checkpoint *)
(* whose fresh transaction opens is not a step: same database, same kind.  *)
EndTx(s) ==
    /\ slot[s] # None
    /\ slot' = [slot EXCEPT ![s] = None]
    /\ UNCHANGED gate

Next == \E s \in Session :
    \/ EndTx(s)
    \/ \E d \in Database :
          OpenGate(s, d) \/ CloseGate(s, d) \/ \E k \in Kind : OpenTx(s, d, k)

Spec == Init /\ [][Next]_<<gate, slot>>

(* For an agent that goes on in a new session when its own has left the    *)
(* store: neither gate nor slot is carried over.                           *)
Restart(s) ==
    /\ gate' = [gate EXCEPT ![s] = {}]
    /\ slot' = [slot EXCEPT ![s] = None]

AgentSpec == Init /\ [][Next \/ \E s \in Session : Restart(s)]_<<gate, slot>>

=============================================================================
