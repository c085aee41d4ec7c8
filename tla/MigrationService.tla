--------------------------- MODULE MigrationService ---------------------------
(***************************************************************************)
(* What the migration supervisor promises its callers, whatever files,     *)
(* backends and shutdowns do: jobs are served one at a time, each ends in  *)
(* one verdict that is never revised, an export puts its data file beside  *)
(* a whole schema file and never instead of one, and only an export with   *)
(* both files whole is called a success.                                   *)
(***************************************************************************)
EXTENDS Naturals

CONSTANTS Job, None

Slot == {"schema", "data"}

VARIABLES
    phase,    \* of each job: "idle", "asked", "running" or "over"
    kind,     \* of each job: "export" or "import", once asked for
    turn,     \* the job being served
    verdict,  \* of each job that is over
    mark      \* what an export has put at each destination

vars == <<phase, kind, turn, verdict, mark>>

Init ==
    /\ phase = [j \in Job |-> "idle"]
    /\ kind = [j \in Job |-> None]
    /\ turn = None
    /\ verdict = [j \in Job |-> None]
    /\ mark = [j \in Job |-> [k \in Slot |-> "none"]]

End(j, v) ==
    /\ phase' = [phase EXCEPT ![j] = "over"]
    /\ verdict' = [verdict EXCEPT ![j] = v]

Ask(j) ==
    /\ phase[j] = "idle"
    /\ \E k \in {"export", "import"} : kind' = [kind EXCEPT ![j] = k]
    /\ \/ phase' = [phase EXCEPT ![j] = "asked"] /\ UNCHANGED verdict
       \/ End(j, "refused")
    /\ UNCHANGED <<turn, mark>>

(* Before its turn a job is refused, or lost with the worker. *)
Refuse(j) ==
    /\ phase[j] = "asked"
    /\ \E v \in {"refused", "dropped"} : End(j, v)
    /\ UNCHANGED <<kind, turn, mark>>

Begin(j) ==
    /\ phase[j] = "asked"
    /\ turn = None
    /\ turn' = j
    /\ phase' = [phase EXCEPT ![j] = "running"]
    /\ UNCHANGED <<kind, verdict, mark>>

(* A file is made, completed or taken back, the schema before the data. *)
Move(j) ==
    \E k \in Slot, m \in {"none", "partial", "whole"} :
        /\ kind[j] = "export"
        /\ mark[j][k] # "whole"
        /\ (k = "data") = (mark[j]["schema"] = "whole")
        /\ mark' = [mark EXCEPT ![j][k] = m]

Succeeded(j) == kind[j] = "export" => \A k \in Slot : mark'[j][k] = "whole"

Serve(j) ==
    /\ turn = j
    /\ Move(j) \/ UNCHANGED mark
    /\ \/ UNCHANGED <<phase, turn, verdict>>
       \/ /\ \E v \in {"ok", "error", "dropped"} :
                (v = "ok" => Succeeded(j)) /\ End(j, v)
          /\ turn' = None
    /\ UNCHANGED kind

Next == \E j \in Job : Ask(j) \/ Refuse(j) \/ Begin(j) \/ Serve(j)

Spec == Init /\ [][Next]_vars
=============================================================================
