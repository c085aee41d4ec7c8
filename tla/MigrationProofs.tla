--------------------------- MODULE MigrationProofs ---------------------------
(***************************************************************************)
(* Proofs about Migration for any number of jobs, names and file contents. *)
(***************************************************************************)
EXTENDS Migration, FramesProofs, TLAPS

Ours == {"partial", "whole"}
Running == {"start", "export", "publish_schema", "write_schema", "publish_data", "write_data",
            "stage_schema", "stage_data", "snapshot", "check_copy", "import"}
ExportLabels == {"export", "publish_schema", "write_schema", "publish_data", "write_data"}
ImportLabels == {"stage_schema", "stage_data", "snapshot", "check_copy", "import"}

(* What a call holds and has heard, by how far it is. *)
CallInv(j) ==
    /\ pc[j] = "idle" => held[j] = {}
    /\ pc[j] # "idle" => request[j] # None
    /\ pc[j] = "admitted" => held[j] = {"session"}
    /\ pc[j] = "permitted" => held[j] = {"session", "permit"}
    /\ pc[j] = "reserved" => held[j] = Guard
    /\ pc[j] = "answered" => held[j] = {}
    /\ pc[j] = "sent" /\ queue # <<j>> /\ job # j => answer[j] # None /\ held[j] = {}
    /\ pc[j] = "answered" => answer[j] # None
    /\ answer[j] # None => pc[j] \in {"sent", "answered"}
    /\ pc[j] = "sent" /\ "session" \notin held[j] => held[j] = {}
    /\ pc[j] = "sent" /\ "permit" \in held[j] => held[j] = Guard

(* The one job that is queued, and the one the worker has, hold all their *)
(* guards; the worker's until it replied or panicked.                     *)
QueueInv ==
    /\ queue = <<>> \/ \E j \in Job : queue = <<j>>
    /\ ~connected => queue = <<>>
    /\ connected = (wpc # "gone")
    /\ \A j \in Job : queue = <<j>> =>
          pc[j] = "sent" /\ held[j] = Guard /\ answer[j] = None /\ job # j

WorkerInv ==
    /\ wpc \in Running => pc[job] = "sent" /\ held[job] = Guard /\ answer[job] = None
    /\ wpc = "unwinding" => pc[job] = "sent" /\ answer[job] = None
    /\ wpc = "replied" => pc[job] \in {"sent", "answered"} /\ answer[job] \in {"ok", "error"}

(* Nothing is staged, named or published for a job before the worker has it; *)
(* what the job in hand has made so far follows from where the worker is.    *)
Untouched(j) == staged[j] = {} /\ named[j] = {} /\ \A k \in Slot : dest[j][k] \notin Ours

Made ==
    /\ wpc \in Running \cup {"unwinding"} => named[job] = {}
    /\ wpc \in ExportLabels => request[job].kind = "export"
    /\ wpc \in ImportLabels => request[job].kind = "import"
    /\ wpc \in {"start", "export", "publish_schema", "unwinding"} \cup ImportLabels =>
          \A k \in Slot : dest[job][k] \notin Ours
    /\ wpc = "write_schema" => dest[job]["schema"] = "partial" /\ dest[job]["data"] \notin Ours
    /\ wpc = "publish_data" => dest[job]["schema"] = "whole" /\ dest[job]["data"] \notin Ours
    /\ wpc = "write_data" => dest[job]["schema"] = "whole" /\ dest[job]["data"] = "partial"
    /\ wpc \in {"start", "export", "stage_schema", "unwinding"} => staged[job] = {}
    /\ wpc \in {"publish_data", "write_data"} => staged[job] \subseteq {"data"}
    /\ wpc \in {"check_copy", "import"} => copy \in Content
    /\ wpc = "import" => ValidateFrames(copy)

NoCopy ==
    wpc \in {"start", "stage_schema", "stage_data", "snapshot", "poll", "receive", "ended", "gone"}
        => copy = None

FileInv ==
    /\ \A j \in Job : answer[j] = None /\ job # j => Untouched(j)
    /\ Made
    /\ NoCopy

(* The worker is past its last job when the shutdown is told it is. *)
ShutdownInv ==
    /\ completed => wpc \in {"ended", "gone"}
    /\ main \in {"closing", "exit0"} => completed

PermitInv == \A i \in HolderOf("permit"), j \in HolderOf("permit") : i = j
CallsInv == \A j \in Job : CallInv(j)

GuardInv == CallsInv /\ PermitInv /\ QueueInv /\ WorkerInv

(* ReportIsTrue and DataFollowsSchema, of one job. *)
Told(j) ==
    answer[j] # None =>
        /\ answer[j] = "ok" /\ Asked(j, "export") => \A k \in Slot : dest[j][k] = "whole"
        /\ Asked(j, "export") => \A k \in named[j] : dest[j][k] \in Ours
        /\ dest[j]["data"] \in Ours => "schema" \in named[j]
Ordered(j) == dest[j]["data"] \in Ours => dest[j]["schema"] = "whole"

IInv ==
    /\ TypeOK
    /\ GuardInv
    /\ FileInv
    /\ ShutdownInv
    /\ \A j \in Job : Told(j) /\ Ordered(j)

USE DEF flags, channel, process, calls, worker, files, vars

-----------------------------------------------------------------------------
LEMMA InitHolds == Init => IInv
<1> SUFFICES ASSUME Init PROVE IInv
  OBVIOUS
<1> USE ConstantsOK DEF Init
<1>1. TypeOK
  <2>1. /\ http \in {"open", "closed", "failed"} /\ stdio \in BOOLEAN
        /\ accepting \in BOOLEAN /\ stop \in BOOLEAN /\ completed \in BOOLEAN
        /\ connected \in BOOLEAN
    BY Zenon
  <2>2. queue = <<>>
    OBVIOUS
  <2>3. queue \in Seq(Job)
    BY <2>2 DEF Init
  <2>4. (job = None) = (wpc \in {"poll", "receive", "ended", "gone"})
    OBVIOUS
  <2>5. request \in [Job -> Request \cup {None}]
    OBVIOUS
  <2>7. dest \in [Job -> [Slot -> {"absent", "partial", "whole", "foreign"}]]
    BY DEF Slot
  <2>6. QED
    BY <2>1, <2>3, <2>4, <2>5, <2>7 DEF TypeOK, Labels
<1>2. CallsInv /\ PermitInv /\ QueueInv
  BY DEF CallsInv, CallInv, PermitInv, HolderOf, QueueInv
<1>3. WorkerInv /\ FileInv /\ ShutdownInv
  BY DEF WorkerInv, FileInv, Untouched, Made, NoCopy, ShutdownInv, Running, ExportLabels, ImportLabels,
     Slot, Ours
<1>4. \A j \in Job : Told(j) /\ Ordered(j)
  BY DEF Told, Ordered, Slot, Ours
<1>5. QED
  BY <1>1, <1>2, <1>3, <1>4 DEF IInv, GuardInv

(* Whatever a step of the job does to files, the rest of the state moves only *)
(* from one label to the next, or to the reply.                               *)
LEMMA RunJobStep ==
    ASSUME TypeOK, RunJob
    PROVE  /\ UNCHANGED working
           /\ wpc \in Running /\ job \in Job
           /\ \/ wpc' \in Running /\ UNCHANGED <<answer, named>>
              \/ \E r \in {"ok", "error"}, left \in SUBSET Slot : Result(r, left)
<1> DEFINE Moves ==
       /\ UNCHANGED working
       /\ wpc \in Running
       /\ \/ wpc' \in Running /\ UNCHANGED <<answer, named>>
          \/ \E r \in {"ok", "error"}, left \in SUBSET Slot : Result(r, left)
<1> USE DEF Running, Step, working
<1>0. {} \in SUBSET Slot /\ Slot \in SUBSET Slot
  OBVIOUS
<1>1. ASSUME Validate PROVE Moves
  BY <1>0, <1>1 DEF Validate
<1>2. ASSUME ExportDatabase PROVE Moves
  BY <1>0, <1>2 DEF ExportDatabase, FailGuarded
<1>3. ASSUME NEW k \in Slot, NEW publish \in Running, NEW write \in Running,
             Publish(k, publish, write)
      PROVE  Moves
  <2>1. Before(k) \in SUBSET Slot
    BY DEF Before, Slot
  <2>2. QED
    BY <1>3, <2>1 DEF Publish, FailGuarded
<1>4. ASSUME NEW k \in Slot, NEW write \in Running, NEW next \in Running \cup {"done"},
             Write(k, write, next)
      PROVE  Moves
  <2>1. CASE UNCHANGED working /\ IF next = "done" THEN Result("ok", Slot) ELSE Step(next)
    BY <1>0, <1>4, <2>1 DEF Write
  <2>2. ASSUME NEW left \in Leftover(k), FailGuarded(Before(k) \cup left[2])
        PROVE  Moves
    <3>1. left[2] \in SUBSET Slot /\ Before(k) \in SUBSET Slot
      BY DEF Leftover, Before, Slot
    <3>2. QED
      BY <1>4, <2>2, <3>1 DEF Write, FailGuarded
  <2>3. QED
    BY <1>4, <2>1, <2>2 DEF Write
<1>5. ASSUME NEW k \in Slot, NEW stage \in Running, NEW next \in Running, Stage(k, stage, next)
      PROVE  Moves
  BY <1>0, <1>5 DEF Stage, Fail
<1>6. ASSUME Snapshot PROVE Moves
  BY <1>0, <1>6 DEF Snapshot, FailGuarded
<1>7. ASSUME CheckCopy PROVE Moves
  BY <1>0, <1>7 DEF CheckCopy, FailGuarded
<1>8. ASSUME ImportDatabase PROVE Moves
  BY <1>0, <1>8 DEF ImportDatabase, FailGuarded
<1>9. Moves
  BY <1>1, <1>2, <1>3, <1>4, <1>5, <1>6, <1>7, <1>8 DEF RunJob, Slot
<1>10. job \in Job
  BY <1>9 DEF TypeOK
<1>11. QED
  BY <1>9, <1>10

Places == {"idle", "admitted", "permitted", "reserved", "sent", "answered"}
Verdicts == Verdict \cup {None}

(* Taking a guard, refusing and going on keep the types of a call. *)
LEMMA CallTypes ==
    ASSUME TypeOK, NEW j \in Job
    PROVE  /\ \A place \in Places : Goto(j, place) => pc' \in [Job -> Places]
           /\ \A g \in Guard : [held EXCEPT ![j] = @ \cup {g}] \in [Job -> SUBSET Guard]
           /\ [held EXCEPT ![j] = {"session"}] \in [Job -> SUBSET Guard]
           /\ Refuse(j) => /\ pc' \in [Job -> Places]
                           /\ held' \in [Job -> SUBSET Guard]
                           /\ answer' \in [Job -> Verdicts]
<1>1. \A place \in Places : Goto(j, place) => pc' \in [Job -> Places]
  BY DEF TypeOK, Goto, Places
<1>2. \A g \in Guard : [held EXCEPT ![j] = @ \cup {g}] \in [Job -> SUBSET Guard]
  BY DEF TypeOK
<1>3. [held EXCEPT ![j] = {"session"}] \in [Job -> SUBSET Guard]
  BY DEF TypeOK, Guard
<1>4. Refuse(j) => held' \in [Job -> SUBSET Guard]
  BY DEF TypeOK, Refuse
<1>5. Refuse(j) => answer' \in [Job -> Verdicts]
  BY DEF TypeOK, Refuse, Verdicts, Verdict
<1>6. QED
  BY <1>1, <1>2, <1>3, <1>4, <1>5 DEF Refuse, Places

LEMMA TypeNext == IInv /\ [Next]_vars => TypeOK'
<1> SUFFICES ASSUME IInv, TypeOK, [Next]_vars PROVE TypeOK'
  BY DEF IInv
<1>1. ASSUME NEW j \in Job, Submit(j) \/ SubmitStep(j) PROVE TypeOK'
  <2>1. request' \in [Job -> Request \cup {None}]
    <3>1. request' = request \/ \E r \in Request : request' = [request EXCEPT ![j] = r]
      BY <1>1 DEF Submit, SubmitStep, AcquirePermit, ReserveName, Send, Return, Request
    <3>2. QED
      BY <3>1 DEF TypeOK
  <2>2. queue' \in Seq(Job)
    <3>1. queue' = queue \/ queue' = Append(queue, j)
      BY <1>1 DEF TypeOK, Submit, SubmitStep, AcquirePermit, ReserveName, Send, Return
    <3>2. queue \in Seq(Job)
      BY DEF TypeOK
    <3>3. QED
      BY <3>1, <3>2
  <2>3. pc' \in [Job -> Places]
    BY <1>1, CallTypes DEF TypeOK, Submit, SubmitStep, AcquirePermit, ReserveName, Send, Return, Places
  <2>4. held' \in [Job -> SUBSET Guard]
    <3>1. \/ held' = held \/ Refuse(j)
          \/ held' = [held EXCEPT ![j] = {"session"}]
          \/ \E g \in Guard : held' = [held EXCEPT ![j] = @ \cup {g}]
      BY <1>1 DEF TypeOK, Submit, SubmitStep, AcquirePermit, ReserveName, Send, Return, Guard
    <3>2. QED
      <4>1. held \in [Job -> SUBSET Guard]
        BY DEF TypeOK
      <4>2. QED
        BY <3>1, <4>1, CallTypes
  <2>5. answer' \in [Job -> Verdicts]
    BY <1>1, CallTypes DEF TypeOK, Submit, SubmitStep, AcquirePermit, ReserveName, Send, Return, Verdicts
  <2>6. UNCHANGED <<flags, connected, process, named, worker, files>>
    BY <1>1 DEF TypeOK, Submit, SubmitStep, AcquirePermit, ReserveName, Send, Return
  <2>7. QED
    BY <2>1, <2>2, <2>3, <2>4, <2>5, <2>6 DEF TypeOK, Places, Verdicts
<1>2. ASSUME NEW j \in Job, NEW k \in Slot, CreateDestination(j, k) PROVE TypeOK'
  BY <1>2 DEF TypeOK, CreateDestination
<1>3. CASE Poll
  BY <1>3 DEF TypeOK, Poll, Labels
<1>4. CASE Receive
  <2>1. CASE queue = <<>>
    BY <1>4, <2>1 DEF TypeOK, Receive, Labels
  <2>2. CASE queue # <<>>
    <3>1. Head(queue) \in Job /\ Tail(queue) \in Seq(Job)
      BY <2>2 DEF TypeOK
    <3>2. Head(queue) # None
      BY <3>1, ConstantsOK DEF TypeOK
    <3>3. wpc' = "start" /\ job' = Head(queue) /\ queue' = Tail(queue)
          /\ UNCHANGED <<flags, connected, process, calls, files>>
      BY <1>4, <2>2 DEF TypeOK, Receive
    <3>4. QED
      BY <3>1, <3>2, <3>3 DEF TypeOK, Labels
  <2>3. QED
    BY <2>1, <2>2 DEF TypeOK
<1>5. CASE RunJob
  <2>1. /\ UNCHANGED working
        /\ wpc \in Running /\ job \in Job
        /\ \/ wpc' \in Running /\ UNCHANGED <<answer, named>>
           \/ \E r \in {"ok", "error"}, left \in SUBSET Slot : Result(r, left)
    BY <1>5, RunJobStep
  <2>2. /\ answer' \in [Job -> Verdicts]
        /\ named' \in [Job -> SUBSET Slot]
        /\ wpc' \in Running \cup {"replied"}
    <3>1. CASE UNCHANGED <<answer, named>> /\ wpc' \in Running
      BY <3>1 DEF TypeOK, Verdicts
    <3>2. ASSUME NEW r \in {"ok", "error"}, NEW left \in SUBSET Slot, Result(r, left)
          PROVE  /\ answer' \in [Job -> Verdicts]
                 /\ named' \in [Job -> SUBSET Slot]
                 /\ wpc' = "replied"
      BY <2>1, <3>2 DEF TypeOK, Result, Verdicts, Verdict
    <3>3. QED
      BY <2>1, <3>1, <3>2 DEF TypeOK
  <2>3. job' # None /\ job' \in Job
    BY <2>1, ConstantsOK DEF TypeOK, working
  <2>4. staged' \in [Job -> SUBSET Slot]
    <3>1. \/ staged' = staged
          \/ \E S \in SUBSET Slot : staged' = [staged EXCEPT ![job] = S]
      <4>1. /\ {} \in SUBSET Slot /\ Slot \in SUBSET Slot
            /\ \A k \in Slot : staged[job] \cup {k} \in SUBSET Slot /\ staged[job] \ {k} \in SUBSET Slot
        BY <2>1 DEF TypeOK
      <4>2. "schema" \in Slot /\ "data" \in Slot
        BY DEF TypeOK, Slot
      <4>3. QED
        BY <1>5, <2>1, <4>1, <4>2 DEF TypeOK, RunJob, Validate, ExportDatabase, Publish, Write, Stage,
           Snapshot, CheckCopy, ImportDatabase, Fail, FailGuarded
    <3>2. QED
      BY <2>1, <3>1 DEF TypeOK
  <2>5. copy' \in Content \cup {None}
    BY <1>5 DEF TypeOK, RunJob, Validate, ExportDatabase, Publish, Write, Stage, Snapshot, CheckCopy,
       ImportDatabase
  <2>6. dest' \in [Job -> [Slot -> {"absent", "partial", "whole", "foreign"}]]
    BY <1>5, <2>1 DEF TypeOK, RunJob, Validate, ExportDatabase, Publish, Write, Stage, Snapshot, CheckCopy,
       ImportDatabase, Put, Leftover, Slot
  <2>7. QED
    BY <2>1, <2>2, <2>3, <2>4, <2>5, <2>6 DEF TypeOK, working, Labels, Running, Verdicts
<1>6. CASE Drop
  <2>1. job \in Job /\ wpc \in Finished
    BY <1>6 DEF TypeOK, Drop, Finished
  <2>2. held' \in [Job -> SUBSET Guard]
    BY <1>6, <2>1 DEF TypeOK, Drop
  <2>3. /\ wpc' \in Labels /\ job' \in Job \cup {None}
        /\ (job' = None) = (wpc' \in {"poll", "receive", "ended", "gone"})
    BY <1>6, <2>1 DEF TypeOK, Drop, Dropped, Labels, Finished
  <2>4. answer' \in [Job -> Verdicts] /\ copy' \in Content \cup {None}
    BY <1>6, <2>1 DEF TypeOK, Drop, Dropped, Verdicts, Verdict
  <2>5. UNCHANGED <<flags, channel, process, pc, request, named, staged, dest>>
    BY <1>6 DEF TypeOK, Drop
  <2>6. QED
    BY <2>2, <2>3, <2>4, <2>5 DEF TypeOK, Verdicts
<1>7. CASE DropReceiver
  <2>1. PICK lost : /\ held' = [j \in Job |-> IF j \in lost THEN {} ELSE held[j]]
                    /\ answer' = [j \in Job |-> IF j \in lost THEN "dropped" ELSE answer[j]]
    BY <1>7 DEF TypeOK, DropReceiver
  <2>2. held' \in [Job -> SUBSET Guard] /\ answer' \in [Job -> Verdicts]
    BY <2>1 DEF TypeOK, Verdicts, Verdict
  <2>3. /\ queue' = <<>> /\ connected' = FALSE /\ wpc' = "gone" /\ wpc = "ended"
        /\ UNCHANGED <<flags, process, pc, request, named, job, files>>
    BY <1>7 DEF DropReceiver
  <2>5. queue' \in Seq(Job)
    BY <2>3
  <2>4. QED
    BY <2>2, <2>3, <2>5 DEF TypeOK, Verdicts, Labels
<1>8. CASE Panic
  BY <1>8 DEF TypeOK, Panic, Labels, BackendCalls
<1>9. CASE MainStep
  BY <1>9 DEF TypeOK, MainStep, StopAdmission, Shutdown, HttpEnds, StdioCloses, Drained, Deadline, Leave, Exit
<1>10. CASE UNCHANGED vars
  BY <1>10 DEF TypeOK
<1>11. QED
  BY <1>1, <1>2, <1>3, <1>4, <1>5, <1>6, <1>7, <1>8, <1>9, <1>10 DEF TypeOK, Next, WorkerStep

-----------------------------------------------------------------------------
(* Guards.  A queue of at most one job. *)
LEMMA Single ==
    ASSUME NEW i, NEW j
    PROVE  /\ <<j>> # <<>>
           /\ <<i>> = <<j>> => i = j
           /\ Head(<<j>>) = j /\ Tail(<<j>>) = <<>>
           /\ {<<j>>[n] : n \in DOMAIN <<j>>} = {j}
<1>1. <<j>>[1] = j /\ <<i>>[1] = i
  OBVIOUS
<1>2. DOMAIN <<j>> = {1}
  OBVIOUS
<1>3. {<<j>>[n] : n \in DOMAIN <<j>>} = {j}
  BY <1>1, <1>2
<1>4. QED
  BY <1>1, <1>3

(* Who is about to send a job finds no other in the queue or at work. *)
LEMMA SenderIsAlone ==
    ASSUME IInv, NEW j \in Job, "permit" \in held[j], pc[j] # "sent"
    PROVE  queue = <<>> /\ wpc \notin Running
<1>1. ASSUME NEW i \in Job, pc[i] = "sent", held[i] = Guard PROVE FALSE
  BY <1>1 DEF IInv, GuardInv, PermitInv, HolderOf, Guard
<1>2. queue = <<>>
  BY <1>1 DEF IInv, GuardInv, QueueInv
<1>3. ASSUME wpc \in Running PROVE FALSE
  <2>1. job \in Job
    BY <1>3 DEF IInv, TypeOK, Running
  <2>2. QED
    BY <1>1, <1>3, <2>1 DEF IInv, GuardInv, WorkerInv
<1>4. QED
  BY <1>2, <1>3

(* What a call changes is its own. *)
LEMMA CallChanges ==
    ASSUME TypeOK, NEW j \in Job
    PROVE  /\ \A place : Goto(j, place) => pc'[j] = place /\ \A i \in Job \ {j} : pc'[i] = pc[i]
           /\ Refuse(j) => /\ pc'[j] = "answered" /\ held'[j] = {} /\ answer'[j] = "refused"
                           /\ \A i \in Job \ {j} : /\ pc'[i] = pc[i] /\ held'[i] = held[i]
                                                   /\ answer'[i] = answer[i]
<1>1. \A place : Goto(j, place) => pc'[j] = place /\ \A i \in Job \ {j} : pc'[i] = pc[i]
  BY DEF TypeOK, Goto
<1>2. Refuse(j) => pc'[j] = "answered" /\ \A i \in Job \ {j} : pc'[i] = pc[i]
  BY <1>1 DEF Refuse
<1>3. Refuse(j) => held'[j] = {} /\ \A i \in Job \ {j} : held'[i] = held[i]
  BY DEF TypeOK, Refuse
<1>4. Refuse(j) => answer'[j] = "refused" /\ \A i \in Job \ {j} : answer'[i] = answer[i]
  BY DEF TypeOK, Refuse
<1>5. QED
  BY <1>1, <1>2, <1>3, <1>4

(* A step of one call that has not been sent, or that returns, disturbs *)
(* neither the other calls nor the worker.                              *)
LEMMA SubmitGuards ==
    ASSUME IInv, NEW j \in Job, Submit(j) \/ SubmitStep(j)
    PROVE  GuardInv'
<1> DEFINE Others == \A i \in Job \ {j} : /\ pc'[i] = pc[i] /\ held'[i] = held[i]
                                          /\ answer'[i] = answer[i] /\ request'[i] = request[i]
           Queued == /\ queue = <<>> /\ queue' = <<j>> /\ wpc \notin Running /\ connected
                     /\ pc[j] = "reserved"
                     /\ pc'[j] = "sent" /\ held'[j] = Guard /\ answer'[j] = None
           Refused_ == pc'[j] = "answered" /\ held'[j] = {} /\ answer'[j] # None
           Going == /\ answer'[j] = None
                    /\ \/ pc'[j] = "admitted" /\ held'[j] = {"session"}
                       \/ pc'[j] = "permitted" /\ held'[j] = {"session", "permit"}
                       \/ pc'[j] = "reserved" /\ held'[j] = Guard
           Away == pc[j] \notin {"sent", "answered"} /\ (Going \/ Refused_) /\ queue' = queue
           Back == /\ pc[j] = "sent" /\ pc'[j] = "answered" /\ held[j] = {} /\ queue' = queue
                   /\ answer[j] # None /\ UNCHANGED <<held, answer, request>>
<1>0. TypeOK /\ CallsInv /\ PermitInv /\ QueueInv /\ WorkerInv /\ CallInv(j)
  BY DEF IInv, GuardInv, CallsInv
<1>10. job = j => pc[j] \in {"sent", "answered"} /\ (pc[j] = "sent" => wpc \in Running \cup Finished)
  <2>1. job = j => wpc \in Running \cup Finished
    BY <1>0, ConstantsOK DEF TypeOK, Labels, Running, Finished
  <2>2. QED
    BY <1>0, <2>1 DEF WorkerInv, Finished
<1>1. /\ Others /\ UNCHANGED <<connected, worker>>
      /\ request'[j] # None
      /\ Queued \/ Away \/ Back
      /\ "permit" \in held'[j] => "permit" \in held[j] \/ HolderOf("permit") = {}
  <2>1. CASE Submit(j)
    <3>1. /\ pc[j] = "idle" /\ UNCHANGED <<channel, worker>>
          /\ \A i \in Job \ {j} : request'[i] = request[i]
          /\ request'[j] # None
      BY <1>0, <2>1, ConstantsOK DEF Submit, TypeOK, Request
    <3>2. \/ /\ Goto(j, "admitted") /\ held' = [held EXCEPT ![j] = {"session"}]
             /\ UNCHANGED answer
          \/ Refuse(j)
      BY <2>1 DEF Submit
    <3>3. held[j] = {} /\ answer[j] = None
      BY <1>0, <3>1 DEF CallInv
    <3>4. CASE Refuse(j)
      BY <1>0, <3>1, <3>3, <3>4, CallChanges, ConstantsOK DEF Verdict
    <3>5. CASE /\ Goto(j, "admitted") /\ held' = [held EXCEPT ![j] = {"session"}]
               /\ UNCHANGED answer
      <4>1. held'[j] = {"session"} /\ \A i \in Job \ {j} : held'[i] = held[i]
        BY <1>0, <3>5 DEF TypeOK
      <4>2. QED
        BY <1>0, <3>1, <3>3, <3>5, <4>1, CallChanges
    <3>6. QED
      BY <3>2, <3>4, <3>5
  <2>2. CASE AcquirePermit(j)
    <3>1. /\ pc[j] = "admitted" /\ UNCHANGED <<channel, request, worker>>
          /\ \/ /\ HolderOf("permit") = {} /\ Goto(j, "permitted")
                /\ held' = [held EXCEPT ![j] = @ \cup {"permit"}]
                /\ UNCHANGED answer
             \/ Refuse(j)
      BY <2>2 DEF AcquirePermit
    <3>2. held[j] = {"session"} /\ answer[j] = None /\ request[j] # None
      BY <1>0, <3>1 DEF CallInv
    <3>3. CASE Refuse(j)
      BY <1>0, <3>1, <3>2, <3>3, CallChanges, ConstantsOK DEF Verdict
    <3>4. CASE /\ HolderOf("permit") = {} /\ Goto(j, "permitted")
               /\ held' = [held EXCEPT ![j] = @ \cup {"permit"}]
               /\ UNCHANGED answer
      <4>1. held'[j] = held[j] \cup {"permit"} /\ \A i \in Job \ {j} : held'[i] = held[i]
        BY <1>0, <3>4 DEF TypeOK
      <4>2. held'[j] = {"session", "permit"}
        BY <3>2, <4>1
      <4>3. QED
        BY <1>0, <3>1, <3>2, <3>4, <4>1, <4>2, CallChanges
    <3>5. QED
      BY <3>1, <3>3, <3>4
  <2>3. CASE ReserveName(j)
    <3>1. /\ pc[j] = "permitted" /\ UNCHANGED <<channel, request, worker>>
          /\ \/ /\ Goto(j, "reserved")
                /\ held' = [held EXCEPT ![j] = @ \cup {"name"}]
                /\ UNCHANGED answer
             \/ Refuse(j)
      BY <2>3 DEF ReserveName
    <3>2. held[j] = {"session", "permit"} /\ answer[j] = None /\ request[j] # None
      BY <1>0, <3>1 DEF CallInv
    <3>3. CASE Refuse(j)
      BY <1>0, <3>1, <3>2, <3>3, CallChanges, ConstantsOK DEF Verdict
    <3>4. CASE /\ Goto(j, "reserved")
               /\ held' = [held EXCEPT ![j] = @ \cup {"name"}]
               /\ UNCHANGED answer
      <4>1. held'[j] = held[j] \cup {"name"} /\ \A i \in Job \ {j} : held'[i] = held[i]
        BY <1>0, <3>4 DEF TypeOK
      <4>2. held'[j] = Guard
        BY <3>2, <4>1 DEF Guard
      <4>3. QED
        BY <1>0, <3>1, <3>2, <3>4, <4>1, <4>2, CallChanges
    <3>5. QED
      BY <3>1, <3>3, <3>4
  <2>4. CASE Send(j)
    <3>1. /\ pc[j] = "reserved" /\ UNCHANGED <<connected, request, worker>>
          /\ \/ /\ connected /\ queue' = Append(queue, j) /\ Goto(j, "sent")
                /\ UNCHANGED <<held, answer>>
             \/ Refuse(j) /\ UNCHANGED queue
      BY <2>4 DEF Send
    <3>2. held[j] = Guard /\ answer[j] = None /\ request[j] # None
      BY <1>0, <3>1 DEF CallInv
    <3>3. queue = <<>> /\ wpc \notin Running
      BY <3>1, <3>2, SenderIsAlone DEF Guard
    <3>4. Append(<<>>, j) = <<j>>
      OBVIOUS
    <3>5. CASE Refuse(j) /\ UNCHANGED queue
      BY <1>0, <3>1, <3>2, <3>5, CallChanges, ConstantsOK DEF Verdict
    <3>6. CASE connected /\ queue' = Append(queue, j) /\ Goto(j, "sent") /\ UNCHANGED <<held, answer>>
      BY <1>0, <3>1, <3>2, <3>3, <3>4, <3>6, CallChanges
    <3>7. QED
      BY <3>1, <3>5, <3>6
  <2>5. CASE Return(j)
    <3>1. /\ pc[j] = "sent" /\ answer[j] # None /\ "session" \notin held[j] /\ Goto(j, "answered")
          /\ UNCHANGED <<channel, request, held, answer, worker>>
      BY <2>5 DEF Return
    <3>2. held[j] = {} /\ request[j] # None
      BY <1>0, <3>1 DEF CallInv
    <3>3. QED
      BY <1>0, <3>1, <3>2, CallChanges
  <2>6. QED
    BY <2>1, <2>2, <2>3, <2>4, <2>5 DEF SubmitStep
<1>5. PermitInv'
  BY <1>0, <1>1 DEF PermitInv, HolderOf
<1>2. /\ queue' = <<>> \/ \E i \in Job : queue' = <<i>>
      /\ ~connected' => queue' = <<>>
      /\ connected' = (wpc' # "gone")
  <2>1. connected' = (wpc' # "gone")
    BY <1>0, <1>1 DEF QueueInv
  <2>2. CASE Queued
    BY <1>1, <2>1, <2>2
  <2>3. CASE queue' = queue
    BY <1>0, <1>1, <2>1, <2>3 DEF QueueInv
  <2>4. QED
    BY <1>1, <2>2, <2>3
<1>3. ASSUME NEW i \in Job, queue' = <<i>>
      PROVE  pc'[i] = "sent" /\ held'[i] = Guard /\ answer'[i] = None /\ job' # i
  <2>1. CASE Queued
    <3>1. i = j
      BY <1>3, <2>1, Single
    <3>2. job # j /\ job' = job
      BY <1>1, <1>10, <2>1
    <3>3. QED
      BY <2>1, <3>1, <3>2
  <2>2. CASE queue' = queue
    <3>1. pc[i] = "sent" /\ held[i] = Guard /\ answer[i] = None /\ job # i
      BY <1>0, <1>3, <2>2 DEF QueueInv
    <3>2. CASE i = j
      <4>1. FALSE
        BY <1>1, <2>2, <3>1, <3>2, Single DEF Guard
      <4>2. QED
        BY <4>1
    <3>3. QED
      BY <1>1, <3>1, <3>2
  <2>4. QED
    BY <1>1, <2>1, <2>2
<1>6. QueueInv'
  BY <1>2, <1>3 DEF QueueInv
<1>4. CallInv(j)'
  <2>1. CASE Queued
    BY <1>1, <2>1 DEF CallInv, Guard
  <2>2. CASE Away
    BY <1>1, <2>2 DEF CallInv, Guard
  <2>3. CASE Back
    BY <1>1, <2>3 DEF CallInv
  <2>4. QED
    BY <1>1, <2>1, <2>2, <2>3
<1>7. CallsInv'
  <2>1. ASSUME NEW i \in Job \ {j} PROVE CallInv(i)'
    <3>1. CallInv(i)
      BY <1>0 DEF CallsInv
    <3>2. queue' = <<i>> => queue = <<i>>
      BY <1>1, Single
    <3>3. queue = <<i>> => queue' = <<i>>
      BY <1>1, Single
    <3>4. QED
      BY <1>1, <3>1, <3>2, <3>3 DEF CallInv
  <2>2. QED
    BY <1>4, <2>1 DEF CallsInv
<1>8. WorkerInv'
  <2>1. ASSUME wpc \in Running \cup Finished
        PROVE  /\ job' = job /\ wpc' = wpc /\ job \in Job
               /\ held'[job] = held[job] /\ answer'[job] = answer[job]
               /\ pc'[job] = pc[job] \/ (pc[job] = "sent" /\ pc'[job] = "answered" /\ held[job] = {})
    <3>1. job \in Job
      BY <1>0, <2>1 DEF TypeOK, Running, Finished
    <3>2. QED
      BY <1>1, <1>10, <3>1
  <2>2. wpc \in Running => held[job] # {}
    BY <1>0 DEF WorkerInv, Guard
  <2>3. wpc = "unwinding" => pc'[job] = "sent"
    <3>1. wpc = "unwinding" => answer[job] = None /\ pc[job] = "sent"
      BY <1>0 DEF WorkerInv
    <3>2. QED
      BY <1>1, <2>1, <3>1 DEF Finished
  <2>4. QED
    BY <1>0, <1>1, <2>1, <2>2, <2>3 DEF WorkerInv, Finished
<1>9. QED
  BY <1>5, <1>6, <1>7, <1>8 DEF GuardInv

LEMMA GuardNext == IInv /\ [Next]_vars => GuardInv'
<1> SUFFICES ASSUME IInv, [Next]_vars PROVE GuardInv'
  OBVIOUS
<1>0. TypeOK /\ CallsInv /\ PermitInv /\ QueueInv /\ WorkerInv
  BY DEF IInv, GuardInv
<1>1. ASSUME NEW j \in Job, Submit(j) \/ SubmitStep(j) PROVE GuardInv'
  BY <1>1, SubmitGuards
<1>2. ASSUME UNCHANGED <<calls, channel, worker>> PROVE GuardInv'
  BY <1>0, <1>2 DEF GuardInv, CallsInv, CallInv, PermitInv, HolderOf, QueueInv, WorkerInv
<1>3. CASE Poll
  <2>1. /\ UNCHANGED <<calls, channel, job>>
        /\ wpc = "poll" /\ wpc' \in {"receive", "ended"}
    BY <1>3 DEF Poll
  <2>2. CallsInv' /\ PermitInv'
    BY <1>0, <2>1 DEF CallsInv, CallInv, PermitInv, HolderOf
  <2>3. QueueInv' /\ WorkerInv'
    BY <1>0, <2>1 DEF QueueInv, WorkerInv, Running
  <2>4. QED
    BY <2>2, <2>3 DEF GuardInv
<1>4. CASE Receive
  <2>1. CASE queue = <<>>
    <3>1. UNCHANGED <<calls, channel, job>> /\ wpc = "receive" /\ wpc' = "poll"
      BY <1>4, <2>1 DEF Receive
    <3>2. CallsInv' /\ PermitInv'
      BY <1>0, <3>1 DEF CallsInv, CallInv, PermitInv, HolderOf
    <3>3. QueueInv' /\ WorkerInv'
      BY <1>0, <3>1 DEF QueueInv, WorkerInv, Running
    <3>4. QED
      BY <3>2, <3>3 DEF GuardInv
  <2>2. ASSUME NEW q \in Job, queue = <<q>> PROVE GuardInv'
    <3>1. /\ UNCHANGED <<calls, connected>> /\ wpc = "receive" /\ wpc' = "start"
          /\ job' = q /\ queue' = <<>> /\ job = None
      BY <1>0, <1>4, <2>2, Single DEF Receive, TypeOK
    <3>2. pc[q] = "sent" /\ held[q] = Guard /\ answer[q] = None
      BY <1>0, <2>2 DEF QueueInv
    <3>3. \A j \in Job : queue = <<j>> => j = q
      BY <2>2, Single
    <3>4. CallsInv' /\ PermitInv'
      BY <1>0, <2>2, <3>1, <3>3, ConstantsOK, Single DEF CallsInv, CallInv, PermitInv, HolderOf
    <3>5. QueueInv' /\ WorkerInv'
      BY <1>0, <3>1, <3>2, Single DEF QueueInv, WorkerInv, Running
    <3>6. QED
      BY <3>4, <3>5 DEF GuardInv
  <2>3. QED
    BY <1>0, <2>1, <2>2 DEF QueueInv
<1>5. CASE RunJob
  <2>1. /\ UNCHANGED <<pc, request, held, channel, job>>
        /\ wpc \in Running /\ job \in Job
        /\ \/ wpc' \in Running /\ UNCHANGED answer
           \/ \E r \in {"ok", "error"}, left \in SUBSET Slot : Result(r, left)
    BY <1>0, <1>5, RunJobStep DEF working
  <2>2. pc[job] = "sent" /\ held[job] = Guard /\ answer[job] = None
    BY <1>0, <2>1 DEF WorkerInv
  <2>3. CASE wpc' \in Running /\ UNCHANGED answer
    <3>1. CallsInv' /\ PermitInv'
      BY <1>0, <2>1, <2>3 DEF CallsInv, CallInv, PermitInv, HolderOf
    <3>2. QueueInv' /\ WorkerInv'
      BY <1>0, <2>1, <2>2, <2>3 DEF QueueInv, WorkerInv, Running
    <3>3. QED
      BY <3>1, <3>2 DEF GuardInv
  <2>4. ASSUME NEW r \in {"ok", "error"}, NEW left, Result(r, left) PROVE GuardInv'
    <3>1. /\ wpc' = "replied" /\ answer'[job] = r /\ r # None
          /\ \A j \in Job \ {job} : answer'[j] = answer[j]
      BY <1>0, <2>1, <2>4, ConstantsOK DEF Result, TypeOK, Verdict
    <3>2. CallsInv' /\ PermitInv'
      BY <1>0, <2>1, <2>2, <3>1 DEF CallsInv, CallInv, PermitInv, HolderOf, Guard
    <3>3. QueueInv' /\ WorkerInv'
      BY <1>0, <2>1, <2>2, <3>1 DEF QueueInv, WorkerInv, Running
    <3>4. QED
      BY <3>2, <3>3 DEF GuardInv
  <2>5. QED
    BY <2>1, <2>3, <2>4
<1>6. CASE Drop
  <2>1. /\ wpc \in Finished /\ job \in Job /\ pc[job] \in {"sent", "answered"} /\ CallInv(job)
        /\ UNCHANGED <<pc, request, channel>> /\ held[job] \in SUBSET Guard
    BY <1>0, <1>6 DEF Drop, Finished, TypeOK, WorkerInv, CallsInv
  <2>2. CASE held[job] = {}
    <3>1. UNCHANGED held /\ job' = None
      BY <1>6, <2>2 DEF Drop, Dropped
    <3>2. \/ wpc = "replied" /\ wpc' = "poll" /\ UNCHANGED answer /\ answer[job] # None
          \/ /\ wpc = "unwinding" /\ wpc' = "ended" /\ answer'[job] # None /\ pc[job] = "sent"
             /\ \A j \in Job \ {job} : answer'[j] = answer[j]
      BY <1>0, <1>6, <2>1, <2>2, ConstantsOK DEF Drop, Dropped, Finished, WorkerInv, TypeOK, Verdict
    <3>3. CallsInv' /\ PermitInv'
      BY <1>0, <2>1, <2>2, <3>1, <3>2 DEF CallsInv, CallInv, PermitInv, HolderOf
    <3>4. QueueInv' /\ WorkerInv'
      BY <1>0, <2>1, <2>2, <3>1, <3>2, ConstantsOK DEF QueueInv, WorkerInv, Running
    <3>5. QED
      BY <3>3, <3>4 DEF GuardInv
  <2>3. CASE held[job] # {}
    <3>1. pc[job] = "sent" /\ "session" \in held[job]
      BY <2>1, <2>3 DEF CallInv
    <3>2. /\ UNCHANGED <<worker, answer>>
          /\ \/ "permit" \in held[job] /\ held' = [held EXCEPT ![job] = @ \ {"permit"}]
             \/ "permit" \notin held[job] /\ held' = [held EXCEPT ![job] = @ \ {"name"}]
             \/ /\ "permit" \notin held[job] /\ "name" \notin held[job]
                /\ held' = [held EXCEPT ![job] = @ \ {"session"}]
      BY <1>6, <2>3 DEF Drop
    <3>3. /\ \A j \in Job \ {job} : held'[j] = held[j]
          /\ held'[job] \subseteq held[job]
          /\ "permit" \notin held'[job]
          /\ "session" \notin held'[job] => held'[job] = {}
      BY <1>0, <2>1, <3>1, <3>2 DEF TypeOK, Guard
    <3>4. CallsInv' /\ PermitInv'
      BY <1>0, <2>1, <3>1, <3>2, <3>3 DEF CallsInv, CallInv, PermitInv, HolderOf
    <3>5. QueueInv' /\ WorkerInv'
      BY <1>0, <2>1, <3>2, <3>3 DEF QueueInv, WorkerInv, Running, Finished
    <3>6. QED
      BY <3>4, <3>5 DEF GuardInv
  <2>4. QED
    BY <2>2, <2>3
<1>7. CASE DropReceiver
  <2>1. /\ wpc = "ended" /\ wpc' = "gone" /\ connected' = FALSE /\ queue' = <<>> /\ job = None
        /\ UNCHANGED <<pc, request, job>>
    BY <1>0, <1>7 DEF DropReceiver, TypeOK
  <2>2. CASE queue = <<>>
    <3>1. \A j \in Job : held'[j] = held[j] /\ answer'[j] = answer[j]
      BY <1>7, <2>2 DEF DropReceiver
    <3>2. CallsInv' /\ PermitInv'
      BY <1>0, <2>1, <2>2, <3>1 DEF CallsInv, CallInv, PermitInv, HolderOf
    <3>3. QueueInv' /\ WorkerInv'
      BY <2>1, Single DEF QueueInv, WorkerInv, Running
    <3>4. QED
      BY <3>2, <3>3 DEF GuardInv
  <2>3. ASSUME NEW q \in Job, queue = <<q>> PROVE GuardInv'
    <3>1. /\ held'[q] = {} /\ answer'[q] # None
          /\ \A j \in Job \ {q} : held'[j] = held[j] /\ answer'[j] = answer[j]
      BY <1>7, <2>3, Single, ConstantsOK DEF DropReceiver, Verdict
    <3>2. pc[q] = "sent" /\ \A j \in Job : queue = <<j>> => j = q
      BY <1>0, <2>3, Single DEF QueueInv
    <3>3. CallsInv' /\ PermitInv'
      BY <1>0, <2>1, <3>1, <3>2 DEF CallsInv, CallInv, PermitInv, HolderOf
    <3>4. QueueInv' /\ WorkerInv'
      BY <2>1, Single DEF QueueInv, WorkerInv, Running
    <3>5. QED
      BY <3>3, <3>4 DEF GuardInv
  <2>4. QED
    BY <1>0, <2>2, <2>3 DEF QueueInv
<1>8. CASE Panic
  <2>1. UNCHANGED <<calls, channel, job>> /\ wpc \in BackendCalls /\ wpc' = "unwinding"
    BY <1>8 DEF Panic
  <2>2. CallsInv' /\ PermitInv'
    BY <1>0, <2>1 DEF CallsInv, CallInv, PermitInv, HolderOf
  <2>3. QueueInv' /\ WorkerInv'
    BY <1>0, <2>1 DEF QueueInv, WorkerInv, Running, BackendCalls
  <2>4. QED
    BY <2>2, <2>3 DEF GuardInv
<1>9. ASSUME MainStep \/ \E j \in Job, k \in Slot : CreateDestination(j, k)
      PROVE  UNCHANGED <<calls, channel, worker>>
  BY <1>9 DEF MainStep, StopAdmission, Shutdown, HttpEnds, StdioCloses, Drained, Deadline, Leave,
     CreateDestination
<1>10. QED
  BY <1>1, <1>2, <1>3, <1>4, <1>5, <1>6, <1>7, <1>8, <1>9 DEF Next, WorkerStep

-----------------------------------------------------------------------------
(* Files.  Only the job in hand has its files changed, and its verdict made. *)
LEMMA RunJobLocal ==
    ASSUME TypeOK, RunJob, NEW j \in Job, j # job
    PROVE  /\ answer'[j] = answer[j] /\ named'[j] = named[j] /\ request'[j] = request[j]
           /\ staged'[j] = staged[j] /\ dest'[j] = dest[j]
<1>1. UNCHANGED request /\ job \in Job
  BY RunJobStep DEF working
<1>2. answer'[j] = answer[j] /\ named'[j] = named[j]
  <2>1. CASE UNCHANGED <<answer, named>>
    BY <2>1
  <2>2. ASSUME NEW r, NEW left, Result(r, left) PROVE answer'[j] = answer[j] /\ named'[j] = named[j]
    BY <1>1, <2>2 DEF Result, TypeOK
  <2>3. QED
    BY <2>1, <2>2, RunJobStep
<1>3. staged'[j] = staged[j]
  <2>1. UNCHANGED staged \/ \E S : staged' = [staged EXCEPT ![job] = S]
    BY DEF RunJob, Validate, ExportDatabase, Publish, Write, Stage, Snapshot, CheckCopy,
       ImportDatabase, Fail, FailGuarded
  <2>2. QED
    BY <1>1, <2>1 DEF TypeOK
<1>4. dest'[j] = dest[j]
  <2>1. UNCHANGED dest \/ \E D : dest' = [dest EXCEPT ![job] = D]
    BY DEF RunJob, Validate, ExportDatabase, Publish, Write, Stage, Snapshot, CheckCopy,
       ImportDatabase, Put
  <2>2. QED
    BY <1>1, <2>1 DEF TypeOK
<1>5. QED
  BY <1>1, <1>2, <1>3, <1>4

(* What an ending leaves of the job in hand. *)
LEMMA Endings ==
    ASSUME TypeOK, job \in Job, NEW r, NEW left
    PROVE  /\ Result(r, left) => answer'[job] = r /\ named'[job] = left /\ wpc' = "replied"
           /\ FailGuarded(left) => Result("error", left) /\ staged'[job] = {}
<1>1. Result(r, left) => answer'[job] = r /\ named'[job] = left /\ wpc' = "replied"
  BY DEF Result, TypeOK
<1>2. FailGuarded(left) => Result("error", left) /\ staged'[job] = {}
  BY DEF FailGuarded, TypeOK
<1>3. QED
  BY <1>1, <1>2

(* One step of the job leaves it with the files its next label says, or *)
(* with an answer that is true of them.                                 *)
LEMMA RunJobFiles ==
    ASSUME IInv, RunJob
    PROVE  Made' /\ NoCopy' /\ Told(job)' /\ Ordered(job)'
<1> DEFINE Goal == Made' /\ NoCopy' /\ Told(job)' /\ Ordered(job)'
<1>0. /\ TypeOK /\ Made /\ NoCopy /\ job \in Job /\ wpc \in Running
      /\ job' = job /\ request' = request /\ answer[job] = None /\ request[job] # None
      /\ UNCHANGED working /\ named[job] = {}
  <2>1. TypeOK /\ Made /\ NoCopy
    BY DEF IInv, FileInv
  <2>2. UNCHANGED working /\ wpc \in Running /\ job \in Job
    BY <2>1, RunJobStep
  <2>3. answer[job] = None /\ request[job] # None /\ named[job] = {}
    BY <2>1, <2>2 DEF IInv, GuardInv, WorkerInv, CallsInv, CallInv, Made
  <2>4. QED
    BY <2>1, <2>2, <2>3 DEF working
<1>1. dest[job] \in [Slot -> {"absent", "partial", "whole", "foreign"}]
  BY <1>0 DEF TypeOK
<1>2. ASSUME NEW r \in {"ok", "error"}, NEW left, Result(r, left), dest'[job] = dest[job],
             r = "ok" => request[job].kind = "import",
             \/ left = {} /\ dest[job]["data"] \notin Ours
             \/ /\ left = {"schema"} /\ dest[job]["schema"] = "whole"
      PROVE  Goal
  <2>1. wpc' = "replied" /\ answer'[job] = r /\ named'[job] = left
    BY <1>0, <1>2, Endings
  <2>2. Told(job)' /\ Ordered(job)'
    BY <1>0, <1>1, <1>2, <2>1 DEF Told, Ordered, Asked, Ours, Slot
  <2>3. QED
    BY <2>1, <2>2 DEF Made, NoCopy, Running, ExportLabels, ImportLabels
<1> DEFINE Clean == \A k \in Slot : dest[job][k] \notin Ours
<1>4. CASE Validate
  <2>1. /\ wpc = "start" /\ UNCHANGED files /\ Clean /\ staged[job] = {} /\ copy = None
        /\ "data" \in Slot
    BY <1>0, <1>4 DEF Validate, Made, NoCopy, Slot
  <2>2. CASE Result("error", {})
    BY <1>2, <2>1, <2>2
  <2>3. CASE \/ request[job].kind = "export" /\ Step("export")
             \/ request[job].kind = "import" /\ Step("stage_schema")
    <3>1. Told(job)' /\ Ordered(job)' /\ named'[job] = {}
      BY <1>0, <2>1, <2>3 DEF Step, Told, Ordered
    <3>2. QED
      BY <1>0, <2>1, <2>3, <3>1 DEF Step, Made, NoCopy, Running, ExportLabels, ImportLabels, Ours, Slot
  <2>4. QED
    BY <1>4, <2>2, <2>3 DEF Validate
<1>5. CASE ExportDatabase
  <2>1. wpc = "export" /\ Clean /\ UNCHANGED <<copy, dest>> /\ "data" \in Slot
        /\ request[job].kind = "export"
    BY <1>0, <1>5 DEF ExportDatabase, Made, Slot, ExportLabels
  <2>2. CASE FailGuarded({})
    BY <1>0, <1>2, <2>1, <2>2, Endings
  <2>3. CASE Step("publish_schema")
    <3>1. Told(job)' /\ Ordered(job)' /\ named'[job] = {}
      BY <1>0, <2>1, <2>3 DEF Step, Told, Ordered
    <3>2. QED
      BY <1>0, <2>1, <2>3, <3>1 DEF Step, Made, NoCopy, Running, ExportLabels, ImportLabels, Ours, Slot
  <2>4. QED
    BY <1>5, <2>2, <2>3 DEF ExportDatabase
<1>6. CASE Publish("schema", "publish_schema", "write_schema")
  <2>1. wpc = "publish_schema" /\ Clean /\ UNCHANGED copy /\ request[job].kind = "export"
        /\ dest[job]["data"] \notin Ours
    BY <1>0, <1>6 DEF Publish, Made, Slot, ExportLabels
  <2>2. CASE FailGuarded(Before("schema")) /\ UNCHANGED dest
    BY <1>0, <1>2, <2>1, <2>2, Endings DEF Before
  <2>3. CASE Put("schema", "partial") /\ Step("write_schema")
    <3>1. dest'[job]["schema"] = "partial" /\ dest'[job]["data"] = dest[job]["data"]
      BY <1>0, <1>1, <2>3 DEF Put, Slot, TypeOK
    <3>2. Told(job)' /\ Ordered(job)' /\ named'[job] = {}
      BY <1>0, <2>1, <2>3, <3>1 DEF Step, Told, Ordered
    <3>3. QED
      BY <1>0, <2>1, <2>3, <3>1, <3>2 DEF Step, Made, NoCopy, Running, ExportLabels, ImportLabels, Ours
  <2>4. QED
    BY <1>6, <2>2, <2>3 DEF Publish
<1>7. CASE Write("schema", "write_schema", "publish_data")
  <2>1. /\ wpc = "write_schema" /\ UNCHANGED copy /\ request[job].kind = "export"
        /\ dest[job]["data"] \notin Ours
    BY <1>0, <1>7 DEF Write, Made, ExportLabels
  <2>2. \A left : Put("schema", left) => /\ dest'[job]["schema"] = left
                                         /\ dest'[job]["data"] = dest[job]["data"]
    BY <1>0, <1>1 DEF Put, Slot, TypeOK
  <2>3. ASSUME NEW left \in Leftover("schema"), Put("schema", left[1]),
               FailGuarded(Before("schema") \cup left[2])
        PROVE  Goal
    <3>5. Before("schema") \cup left[2] = left[2]
      BY DEF Before
    <3>6. FailGuarded(left[2])
      BY <2>3, <3>5
    <3>1. /\ wpc' = "replied" /\ answer'[job] = "error" /\ named'[job] = left[2]
          /\ dest'[job]["schema"] = left[1] /\ dest'[job]["data"] = dest[job]["data"]
      BY <1>0, <2>2, <2>3, <3>6, Endings
    <3>2. left[2] = {} \/ (left[2] = {"schema"} /\ left[1] = "partial")
      BY DEF Leftover
    <3>3. Told(job)' /\ Ordered(job)'
      BY <1>0, <2>1, <3>1, <3>2 DEF Told, Ordered, Asked, Ours
    <3>4. QED
      BY <3>1, <3>3 DEF Made, NoCopy, Running, ExportLabels, ImportLabels
  <2>4. CASE Put("schema", "whole") /\ staged' = [staged EXCEPT ![job] = @ \ {"schema"}]
             /\ Step("publish_data")
    <3>1. dest'[job]["schema"] = "whole" /\ dest'[job]["data"] = dest[job]["data"]
      BY <2>2, <2>4
    <3>2. staged'[job] \subseteq {"data"}
      BY <1>0, <2>4 DEF TypeOK, Slot
    <3>3. Told(job)' /\ Ordered(job)' /\ named'[job] = {}
      BY <1>0, <2>1, <2>4, <3>1 DEF Step, Told, Ordered
    <3>4. QED
      BY <1>0, <2>1, <2>4, <3>1, <3>2, <3>3 DEF Step, Made, NoCopy, Running, ExportLabels, ImportLabels
  <2>5. QED
    BY <1>7, <2>3, <2>4 DEF Write
<1>8. CASE Publish("data", "publish_data", "write_data")
  <2>1. /\ wpc = "publish_data" /\ UNCHANGED copy /\ request[job].kind = "export"
        /\ dest[job]["data"] \notin Ours /\ dest[job]["schema"] = "whole"
        /\ staged[job] \subseteq {"data"}
    BY <1>0, <1>8 DEF Publish, Made, ExportLabels
  <2>2. CASE FailGuarded(Before("data")) /\ UNCHANGED dest
    BY <1>0, <1>2, <2>1, <2>2, Endings DEF Before
  <2>3. CASE Put("data", "partial") /\ Step("write_data") /\ UNCHANGED staged
    <3>1. dest'[job]["data"] = "partial" /\ dest'[job]["schema"] = "whole"
      BY <1>0, <1>1, <2>1, <2>3 DEF Put, Slot, TypeOK
    <3>2. Told(job)' /\ Ordered(job)' /\ named'[job] = {}
      BY <1>0, <2>1, <2>3, <3>1 DEF Step, Told, Ordered
    <3>3. QED
      BY <1>0, <2>1, <2>3, <3>1, <3>2 DEF Step, Made, NoCopy, Running, ExportLabels, ImportLabels
  <2>4. QED
    BY <1>8, <2>2, <2>3 DEF Publish
<1>9. CASE Write("data", "write_data", "done")
  <2>1. /\ wpc = "write_data" /\ UNCHANGED copy /\ request[job].kind = "export"
        /\ dest[job]["schema"] = "whole"
    BY <1>0, <1>9 DEF Write, Made, ExportLabels
  <2>2. \A left : Put("data", left) => /\ dest'[job]["data"] = left
                                       /\ dest'[job]["schema"] = "whole"
    BY <1>0, <1>1, <2>1 DEF Put, Slot, TypeOK
  <2>3. ASSUME NEW left \in Leftover("data"), Put("data", left[1]),
               FailGuarded(Before("data") \cup left[2])
        PROVE  Goal
    <3>1. /\ wpc' = "replied" /\ answer'[job] = "error" /\ named'[job] = {"schema"} \cup left[2]
          /\ dest'[job]["data"] = left[1] /\ dest'[job]["schema"] = "whole"
      BY <1>0, <2>2, <2>3, Endings DEF Before
    <3>2. left[2] = {} \/ (left[2] = {"data"} /\ left[1] = "partial")
      BY DEF Leftover
    <3>3. Told(job)' /\ Ordered(job)'
      BY <1>0, <3>1, <3>2 DEF Told, Ordered, Asked, Ours
    <3>4. QED
      BY <3>1, <3>3 DEF Made, NoCopy, Running, ExportLabels, ImportLabels
  <2>4. CASE Put("data", "whole") /\ Result("ok", Slot)
    <3>1. /\ wpc' = "replied" /\ answer'[job] = "ok" /\ named'[job] = Slot
          /\ dest'[job]["data"] = "whole" /\ dest'[job]["schema"] = "whole"
      BY <1>0, <2>2, <2>4, Endings
    <3>2. Told(job)' /\ Ordered(job)'
      BY <1>0, <3>1 DEF Told, Ordered, Asked, Ours, Slot
    <3>3. QED
      BY <3>1, <3>2 DEF Made, NoCopy, Running, ExportLabels, ImportLabels
  <2>5. QED
    BY <1>9, <2>3, <2>4 DEF Write
<1>10. ASSUME NEW k \in Slot, NEW stage, NEW next,
              <<stage, next>> \in {<<"stage_schema", "stage_data">>, <<"stage_data", "snapshot">>},
              Stage(k, stage, next)
       PROVE  Goal
  <2>1. /\ wpc = stage /\ stage \in {"stage_schema", "stage_data"} /\ next \in {"stage_data", "snapshot"}
        /\ UNCHANGED <<copy, dest>>
    BY <1>10 DEF Stage
  <2>2. /\ copy = None /\ Clean /\ "data" \in Slot /\ request[job].kind = "import"
    BY <1>0, <2>1 DEF Made, NoCopy, Slot, ImportLabels
  <2>3. CASE Result("error", {})
    BY <1>2, <2>1, <2>2, <2>3
  <2>4. CASE Step(next)
    <3>1. Told(job)' /\ Ordered(job)' /\ named'[job] = {}
      BY <1>0, <2>1, <2>2, <2>4 DEF Step, Told, Ordered
    <3>2. QED
      BY <1>0, <2>1, <2>2, <2>4, <3>1 DEF Step, Made, NoCopy, Running, ExportLabels, ImportLabels
  <2>5. QED
    BY <1>10, <2>3, <2>4 DEF Stage, Fail
<1>11. CASE Snapshot \/ CheckCopy \/ ImportDatabase
  <2>1. /\ wpc \in {"snapshot", "check_copy", "import"} /\ UNCHANGED dest
        /\ Clean /\ "data" \in Slot /\ request[job].kind = "import"
    BY <1>0, <1>11 DEF Snapshot, CheckCopy, ImportDatabase, Made, Slot, ImportLabels
  <2>2. CASE FailGuarded({}) \/ Result("ok", {})
    BY <1>0, <1>2, <2>1, <2>2, Endings
  <2>3. CASE \/ Step("check_copy") /\ copy' \in Content
             \/ Step("import") /\ ValidateFrames(copy) /\ UNCHANGED copy /\ wpc = "check_copy"
    <3>1. Told(job)' /\ Ordered(job)' /\ named'[job] = {}
      BY <1>0, <2>1, <2>3 DEF Step, Told, Ordered
    <3>2. wpc' = "import" => ValidateFrames(copy) /\ copy' = copy
      BY <2>3 DEF Step
    <3>5. wpc' = "import" => ValidateFrames(copy)'
      BY <3>2, Zenon
    <3>3. wpc' \in {"check_copy", "import"} /\ copy' \in Content
      BY <1>0, <2>3 DEF Step, Made
    <3>4. QED
      BY <1>0, <2>1, <3>1, <3>5, <3>3 DEF Made, NoCopy, Running, ExportLabels, ImportLabels
  <2>4. QED
    BY <1>11, <2>2, <2>3 DEF Snapshot, CheckCopy, ImportDatabase
<1>12. QED
  BY <1>4, <1>5, <1>6, <1>7, <1>8, <1>9, <1>10, <1>11 DEF RunJob, Slot

(* A call's own step changes no file, and no answer but its refusal. *)
LEMMA SubmitLocal ==
    ASSUME IInv, NEW j \in Job, Submit(j) \/ SubmitStep(j)
    PROVE  /\ UNCHANGED <<named, worker, files>>
           /\ \A i \in Job : \/ answer'[i] = answer[i] /\ (request'[i] = request[i] \/ answer[i] = None)
                             \/ /\ i = j /\ j # job
                                /\ answer[j] = None /\ answer'[j] = "refused"
           /\ job # None => request'[job] = request[job] /\ answer'[job] = answer[job]
           /\ \A i \in Job : pc[i] # "idle" => request'[i] = request[i]
<1>0. TypeOK /\ CallInv(j)
  BY DEF IInv, GuardInv, CallsInv
<1>1. UNCHANGED <<named, worker, files>>
  BY DEF Submit, SubmitStep, AcquirePermit, ReserveName, Send, Return
<1>2. UNCHANGED answer \/ (Refuse(j) /\ pc[j] \notin {"sent", "answered"})
  BY DEF Submit, SubmitStep, AcquirePermit, ReserveName, Send, Return
<1>3. \/ UNCHANGED request
      \/ pc[j] = "idle" /\ \E r : request' = [request EXCEPT ![j] = r]
  BY DEF Submit, SubmitStep, AcquirePermit, ReserveName, Send, Return
<1>4. job # None => job \in Job /\ pc[job] \in {"sent", "answered"}
  BY <1>0 DEF IInv, GuardInv, WorkerInv, TypeOK, Labels, Running
<1>5. pc[j] \notin {"sent", "answered"} => answer[j] = None
  BY <1>0 DEF CallInv
<1>6. \A i \in Job : request'[i] = request[i] \/ (i = j /\ pc[i] = "idle")
  BY <1>0, <1>3 DEF TypeOK
<1>7. \A i \in Job : answer'[i] = answer[i]
                     \/ (i = j /\ pc[j] \notin {"sent", "answered"} /\ answer'[j] = "refused")
  BY <1>0, <1>2, CallChanges
<1>8. j = job => pc[j] \in {"sent", "answered"}
  BY <1>0, <1>4, ConstantsOK
<1>9. QED
  BY <1>1, <1>4, <1>5, <1>6, <1>7, <1>8

LEMMA FileNext ==
    IInv /\ [Next]_vars => FileInv' /\ \A j \in Job : Told(j)' /\ Ordered(j)'
<1> DEFINE Goal == FileInv' /\ \A j \in Job : Told(j)' /\ Ordered(j)'
<1> SUFFICES ASSUME IInv, [Next]_vars PROVE Goal
  OBVIOUS
<1>0. /\ TypeOK /\ Made /\ NoCopy
      /\ \A j \in Job : answer[j] = None /\ job # j => Untouched(j)
      /\ \A j \in Job : Told(j) /\ Ordered(j)
  BY DEF IInv, FileInv
<1>1. ASSUME NEW j \in Job, Submit(j) \/ SubmitStep(j) PROVE Goal
  <2>1. /\ UNCHANGED <<named, worker, files>>
        /\ \A i \in Job : \/ answer'[i] = answer[i] /\ (request'[i] = request[i] \/ answer[i] = None)
                          \/ /\ i = j /\ j # job
                             /\ answer[j] = None /\ answer'[j] = "refused"
        /\ job # None => request'[job] = request[job] /\ answer'[job] = answer[job]
    BY <1>1, SubmitLocal
  <2>2. \A i \in Job : answer'[i] = None /\ job' # i => Untouched(i)'
    BY <1>0, <2>1, ConstantsOK DEF Untouched, Verdict
  <2>3. Made'
    <3>1. wpc \in Running \cup {"unwinding"} => job # None
      BY <1>0 DEF TypeOK, Running
    <3>2. Made /\ UNCHANGED <<named, worker, files>>
      BY <1>0, <2>1
    <3>3. request[job] = request'[job] \/ wpc \notin Running
      BY <2>1, <3>1
    <3>4. QED
      BY <3>2, <3>3 DEF Made, Running, ExportLabels, ImportLabels
  <2>4. NoCopy'
    BY <1>0, <2>1 DEF NoCopy
  <2>5. ASSUME NEW i \in Job PROVE Told(i)' /\ Ordered(i)'
    <3>1. CASE answer'[i] = answer[i] /\ (request'[i] = request[i] \/ answer[i] = None)
      BY <1>0, <2>1, <3>1 DEF Told, Ordered, Asked
    <3>2. CASE answer[i] = None /\ answer'[i] = "refused" /\ i # job
      <4>1. Untouched(i) /\ Ordered(i)
        BY <1>0, <3>2
      <4>2. "data" \in Slot
        BY DEF Slot
      <4>3. QED
        BY <2>1, <3>2, <4>1, <4>2 DEF Told, Ordered, Untouched
    <3>3. QED
      BY <2>1, <3>1, <3>2
  <2>6. QED
    BY <2>2, <2>3, <2>4, <2>5 DEF FileInv
<1>2. ASSUME NEW i \in Job, NEW k \in Slot, CreateDestination(i, k) PROVE Goal
  <2>1. /\ UNCHANGED <<calls, worker, staged, copy>>
        /\ i = job /\ wpc \notin Finished /\ dest[i][k] = "absent"
        /\ dest' = [dest EXCEPT ![i][k] = "foreign"]
    BY <1>2 DEF CreateDestination, AtWork
  <2>2. /\ \A j \in Job : j # i => dest'[j] = dest[j]
        /\ \A s \in Slot : s # k => dest'[i][s] = dest[i][s]
        /\ dest'[i][k] = "foreign"
    BY <1>0, <2>1 DEF TypeOK
  <2>3. answer[i] = None
    <3>1. wpc \in Running
      BY <1>0, <2>1, ConstantsOK DEF TypeOK, Labels, Running, Finished
    <3>2. QED
      BY <2>1, <3>1 DEF IInv, GuardInv, WorkerInv
  <2>4. \A j \in Job : answer'[j] = None /\ job' # j => Untouched(j)'
    BY <1>0, <2>1, <2>2 DEF Untouched
  <2>5. /\ \A s \in Slot : dest[i][s] \notin Ours => dest'[i][s] \notin Ours
        /\ \A s \in Slot : dest[i][s] \in Ours => dest'[i][s] = dest[i][s]
    BY <2>1, <2>2 DEF Ours
  <2>6. Made'
    <3>1. \A s \in Slot : dest[job][s] \notin Ours => dest'[job][s] \notin Ours
      BY <2>1, <2>5
    <3>2. \A s \in Slot : dest[job][s] \in {"partial", "whole"} => dest'[job][s] = dest[job][s]
      BY <2>1, <2>5 DEF Ours
    <3>3. "schema" \in Slot /\ "data" \in Slot
      BY DEF Slot
    <3>4. QED
      BY <1>0, <2>1, <3>1, <3>2, <3>3 DEF Made
  <2>7. NoCopy'
    BY <1>0, <2>1 DEF NoCopy
  <2>8. \A j \in Job : Told(j)' /\ Ordered(j)'
    <3>1. ASSUME NEW j \in Job, j # i PROVE Told(j)' /\ Ordered(j)'
      BY <1>0, <2>1, <2>2, <3>1 DEF Told, Ordered, Asked
    <3>2. Told(i)' /\ Ordered(i)'
      <4>1. "schema" \in Slot /\ "data" \in Slot
        BY DEF Slot
      <4>2. Ordered(i)
        BY <1>0
      <4>3. QED
        BY <2>1, <2>3, <2>5, <4>1, <4>2 DEF Told, Ordered, Ours
    <3>3. QED
      BY <3>1, <3>2
  <2>9. QED
    BY <2>4, <2>6, <2>7, <2>8 DEF FileInv
<1>3. CASE Poll \/ (Receive /\ queue = <<>>)
  <2>1. /\ UNCHANGED <<calls, job, files>> /\ wpc \in {"poll", "receive"}
        /\ wpc' \in {"poll", "receive", "ended"}
    BY <1>3 DEF Poll, Receive
  <2>2. Made' /\ NoCopy'
    BY <1>0, <2>1 DEF Made, NoCopy, Running, ExportLabels, ImportLabels
  <2>3. \A j \in Job : Told(j)' /\ Ordered(j)' /\ (answer'[j] = None /\ job' # j => Untouched(j)')
    BY <1>0, <2>1 DEF Told, Ordered, Asked, Untouched
  <2>4. QED
    BY <2>2, <2>3 DEF FileInv
<1>4. ASSUME Receive, NEW q \in Job, queue = <<q>> PROVE Goal
  <2>1. /\ UNCHANGED <<calls, files>> /\ wpc = "receive" /\ wpc' = "start"
        /\ job' = q /\ job = None
    BY <1>0, <1>4, Single DEF Receive, TypeOK
  <2>2. answer[q] = None /\ q # job /\ Untouched(q)
    BY <1>0, <1>4, <2>1, ConstantsOK DEF IInv, GuardInv, QueueInv
  <2>3. Made' /\ NoCopy'
    BY <1>0, <2>1, <2>2 DEF Made, NoCopy, Untouched, Running, ExportLabels, ImportLabels
  <2>4. \A j \in Job : Told(j)' /\ Ordered(j)' /\ (answer'[j] = None /\ job' # j => Untouched(j)')
    BY <1>0, <2>1, ConstantsOK DEF Told, Ordered, Asked, Untouched
  <2>5. QED
    BY <2>3, <2>4 DEF FileInv
<1>5. CASE RunJob
  <2>1. Made' /\ NoCopy' /\ Told(job)' /\ Ordered(job)'
    BY <1>5, RunJobFiles
  <2>2. job \in Job /\ job' = job
    BY <1>0, <1>5, RunJobStep DEF working
  <2>3. ASSUME NEW j \in Job, j # job
        PROVE  /\ Told(j)' /\ Ordered(j)'
               /\ answer'[j] = None /\ job' # j => Untouched(j)'
    <3>1. /\ answer'[j] = answer[j] /\ named'[j] = named[j] /\ request'[j] = request[j]
          /\ staged'[j] = staged[j] /\ dest'[j] = dest[j]
      BY <1>0, <1>5, <2>3, RunJobLocal
    <3>2. QED
      BY <1>0, <2>2, <3>1 DEF Told, Ordered, Asked, Untouched
  <2>4. QED
    BY <2>1, <2>2, <2>3 DEF FileInv
<1>6. CASE Drop
  <2>0. job \in Job /\ wpc \in Finished /\ UNCHANGED <<request, named, staged, dest>>
    BY <1>0, <1>6 DEF Drop, Finished, TypeOK
  <2>1. CASE UNCHANGED <<worker, answer, copy>>
    <3>1. Made' /\ NoCopy'
      BY <1>0, <2>0, <2>1 DEF Made, NoCopy, Finished
    <3>2. \A j \in Job : Told(j)' /\ Ordered(j)' /\ (answer'[j] = None /\ job' # j => Untouched(j)')
      BY <1>0, <2>0, <2>1 DEF Told, Ordered, Asked, Untouched
    <3>3. QED
      BY <3>1, <3>2 DEF FileInv
  <2>2. CASE Dropped
    <3>1. /\ job' = None /\ copy' = None /\ wpc' \in {"poll", "ended"}
          /\ \A j \in Job : answer'[j] = answer[j] \/ (j = job /\ wpc = "unwinding" /\ answer'[j] = "dropped")
      BY <1>0, <2>0, <2>2 DEF Dropped, Finished, TypeOK
    <3>2. answer'[job] # None
      <4>1. wpc = "replied" => answer[job] # None /\ answer' = answer
        BY <2>2, ConstantsOK DEF Dropped, IInv, GuardInv, WorkerInv, Verdict
      <4>2. wpc = "unwinding" => answer'[job] = "dropped"
        BY <1>0, <2>0, <2>2 DEF Dropped, TypeOK
      <4>3. QED
        BY <2>0, <4>1, <4>2, ConstantsOK DEF Finished, Verdict
    <3>3. Made' /\ NoCopy'
      BY <3>1 DEF Made, NoCopy, Running, ExportLabels, ImportLabels
    <3>4. \A j \in Job : answer'[j] = None /\ job' # j => Untouched(j)'
      BY <1>0, <2>0, <3>1, <3>2, ConstantsOK DEF Untouched, Verdict
    <3>5. ASSUME NEW j \in Job PROVE Told(j)' /\ Ordered(j)'
      <4>1. CASE answer'[j] = answer[j]
        BY <1>0, <2>0, <4>1 DEF Told, Ordered, Asked
      <4>2. CASE j = job /\ wpc = "unwinding" /\ answer'[j] = "dropped"
        <5>1. named[j] = {} /\ \A k \in Slot : dest[j][k] \notin Ours
          BY <1>0, <4>2 DEF Made
        <5>2. "data" \in Slot
          BY DEF Slot
        <5>3. QED
          BY <2>0, <4>2, <5>1, <5>2 DEF Told, Ordered
      <4>3. QED
        BY <3>1, <4>1, <4>2
    <3>6. QED
      BY <3>3, <3>4, <3>5 DEF FileInv
  <2>3. QED
    BY <1>6, <2>1, <2>2 DEF Drop
<1>7. CASE DropReceiver
  <2>1. /\ wpc = "ended" /\ wpc' = "gone" /\ job = None
        /\ UNCHANGED <<request, named, job, files>>
        /\ \A j \in Job : answer'[j] = answer[j] \/ (answer[j] = None /\ answer'[j] = "dropped")
    <3>1. wpc = "ended" /\ wpc' = "gone" /\ UNCHANGED <<request, named, job, files>>
      BY <1>7 DEF DropReceiver
    <3>2. job = None
      BY <1>0, <3>1 DEF TypeOK
    <3>3. ASSUME NEW j \in Job
          PROVE  answer'[j] = answer[j] \/ (answer[j] = None /\ answer'[j] = "dropped")
      <4>1. CASE queue = <<>>
        BY <1>7, <4>1 DEF DropReceiver
      <4>2. ASSUME NEW q \in Job, queue = <<q>>
            PROVE  answer'[j] = answer[j] \/ (answer[j] = None /\ answer'[j] = "dropped")
        <5>1. answer[q] = None
          BY <4>2 DEF IInv, GuardInv, QueueInv
        <5>2. answer'[j] = IF j = q THEN "dropped" ELSE answer[j]
          BY <1>7, <4>2, Single DEF DropReceiver
        <5>3. QED
          BY <5>1, <5>2
      <4>3. QED
        BY <4>1, <4>2 DEF IInv, GuardInv, QueueInv
    <3>4. QED
      BY <3>1, <3>2, <3>3
  <2>2. Made' /\ NoCopy'
    BY <1>0, <2>1 DEF Made, NoCopy, Running, ExportLabels, ImportLabels
  <2>3. \A j \in Job : answer'[j] = None /\ job' # j => Untouched(j)'
    BY <1>0, <2>1, ConstantsOK DEF Untouched, Verdict
  <2>4. ASSUME NEW j \in Job PROVE Told(j)' /\ Ordered(j)'
    <3>1. CASE answer'[j] = answer[j]
      BY <1>0, <2>1, <3>1 DEF Told, Ordered, Asked
    <3>2. CASE answer[j] = None /\ answer'[j] = "dropped"
      <4>1. Untouched(j) /\ "data" \in Slot /\ Ordered(j)
        BY <1>0, <2>1, <3>2, ConstantsOK DEF Slot
      <4>2. QED
        BY <2>1, <3>2, <4>1 DEF Told, Ordered, Untouched
    <3>3. QED
      BY <2>1, <3>1, <3>2
  <2>5. QED
    BY <2>2, <2>3, <2>4 DEF FileInv
<1>8. CASE Panic
  <2>1. /\ UNCHANGED <<calls, job, copy, dest>> /\ wpc \in {"export", "check_copy", "import"}
        /\ wpc' = "unwinding" /\ staged' = [staged EXCEPT ![job] = {}] /\ job \in Job
    BY <1>0, <1>8 DEF Panic, BackendCalls, TypeOK
  <2>2. staged'[job] = {} /\ \A j \in Job : j # job => staged'[j] = staged[j]
    BY <1>0, <2>1 DEF TypeOK
  <2>3. Made' /\ NoCopy'
    BY <1>0, <2>1, <2>2 DEF Made, NoCopy, Running, ExportLabels, ImportLabels
  <2>4. \A j \in Job : Told(j)' /\ Ordered(j)' /\ (answer'[j] = None /\ job' # j => Untouched(j)')
    BY <1>0, <2>1, <2>2 DEF Told, Ordered, Asked, Untouched
  <2>5. QED
    BY <2>3, <2>4 DEF FileInv
<1>9. CASE UNCHANGED <<calls, worker, files>>
  <2>1. Made' /\ NoCopy'
    BY <1>0, <1>9 DEF Made, NoCopy
  <2>2. \A j \in Job : Told(j)' /\ Ordered(j)' /\ (answer'[j] = None /\ job' # j => Untouched(j)')
    BY <1>0, <1>9 DEF Told, Ordered, Asked, Untouched
  <2>3. QED
    BY <2>1, <2>2 DEF FileInv
<1>10. MainStep => UNCHANGED <<calls, worker, files>>
  BY DEF MainStep, StopAdmission, Shutdown, HttpEnds, StdioCloses, Drained, Deadline, Leave
<1>11. Receive => queue = <<>> \/ \E q \in Job : queue = <<q>>
  BY DEF IInv, GuardInv, QueueInv
<1>12. QED
  BY <1>1, <1>2, <1>3, <1>4, <1>5, <1>6, <1>7, <1>8, <1>9, <1>10, <1>11 DEF Next, WorkerStep

LEMMA ShutdownNext == IInv /\ [Next]_vars => ShutdownInv'
<1> SUFFICES ASSUME IInv, [Next]_vars PROVE ShutdownInv'
  OBVIOUS
<1>1. ShutdownInv
  BY DEF IInv
<1>2. ASSUME UNCHANGED <<completed, main>>, wpc \in {"ended", "gone"} => wpc' \in {"ended", "gone"}
      PROVE  ShutdownInv'
  BY <1>1, <1>2, Zenon DEF ShutdownInv
<1>3. ASSUME NEW j \in Job, Submit(j) \/ SubmitStep(j)
      PROVE  UNCHANGED <<completed, main, wpc>>
  BY <1>3 DEF Submit, SubmitStep, AcquirePermit, ReserveName, Send, Return
<1>4. ASSUME NEW j \in Job, NEW k \in Slot, CreateDestination(j, k)
      PROVE  UNCHANGED <<completed, main, wpc>>
  BY <1>4 DEF CreateDestination
<1>5. CASE Receive \/ Drop \/ DropReceiver \/ Panic
  BY <1>2, <1>5 DEF Receive, Drop, Dropped, DropReceiver, Panic, BackendCalls, Finished
<1>6. CASE RunJob
  <2>1. UNCHANGED <<completed, main>> /\ wpc \in Running
    BY <1>6, RunJobStep DEF IInv, working
  <2>2. QED
    BY <1>2, <2>1 DEF Running
<1>7. CASE Poll
  <2>1. /\ completed' = stop /\ wpc = "poll" /\ main' = main
        /\ wpc' = IF stop THEN "ended" ELSE "receive"
    BY <1>7 DEF Poll
  <2>2. stop \in BOOLEAN /\ completed \in BOOLEAN
    BY DEF IInv, TypeOK
  <2>3. main \notin {"closing", "exit0"}
    BY <1>1, <2>1 DEF ShutdownInv
  <2>4. QED
    BY <2>1, <2>2, <2>3 DEF ShutdownInv
<1>8. CASE MainStep
  <2>1. UNCHANGED <<completed, wpc>>
    BY <1>8 DEF MainStep, StopAdmission, Shutdown, HttpEnds, StdioCloses, Drained, Deadline, Leave
  <2>2. main' \in {"closing", "exit0"} => completed
    BY <1>1, <1>8 DEF ShutdownInv, MainStep, StopAdmission, Shutdown, HttpEnds, StdioCloses, Drained,
       Deadline, Leave, Exit
  <2>3. QED
    BY <1>1, <2>1, <2>2, Zenon DEF ShutdownInv
<1>9. CASE UNCHANGED vars
  BY <1>2, <1>9
<1>10. QED
  BY <1>2, <1>3, <1>4, <1>5, <1>6, <1>7, <1>8, <1>9 DEF Next, WorkerStep

LEMMA Inductive == IInv /\ [Next]_vars => IInv'
BY TypeNext, GuardNext, FileNext, ShutdownNext DEF IInv

LEMMA Invariant == Spec => []IInv
<1>1. Init => IInv
  BY InitHolds
<1>2. IInv /\ [Next]_vars => IInv'
  BY Inductive
<1>3. QED
  BY <1>1, <1>2, PTL DEF Spec

-----------------------------------------------------------------------------
(* The state of the supervisor, its channel, the worker and main, of every *)
(* call and of every file has the type the code gives it.                  *)
THEOREM TypeCorrect == Spec => []TypeOK
BY Invariant, PTL DEF IInv

(* One permit makes of the unbounded channel a queue of capacity one, for  *)
(* any number of calls (migration.rs, submit and the worker's loop).       *)
THEOREM QueueHoldsOne == Spec => []CapacityOne
<1>1. IInv => CapacityOne
  <2> SUFFICES ASSUME IInv PROVE CapacityOne
    OBVIOUS
  <2>1. TypeOK /\ PermitInv /\ QueueInv /\ WorkerInv
    BY DEF IInv, GuardInv
  <2>2. Len(queue) <= 1
    <3>1. CASE queue = <<>>
      BY <3>1
    <3>2. ASSUME NEW q \in Job, queue = <<q>> PROVE Len(queue) <= 1
      BY <3>2
    <3>3. QED
      BY <2>1, <3>1, <3>2 DEF QueueInv
  <2>3. job # None /\ wpc \notin Finished => queue = <<>>
    <3>1. ASSUME job # None, wpc \notin Finished, NEW q \in Job, queue = <<q>> PROVE FALSE
      <4>1. wpc \in Running /\ job \in Job
        BY <2>1, <3>1 DEF TypeOK, Labels, Running, Finished
      <4>2. q # job /\ held[q] = Guard /\ held[job] = Guard
        BY <2>1, <3>1, <4>1 DEF QueueInv, WorkerInv
      <4>3. QED
        BY <2>1, <4>1, <4>2 DEF PermitInv, HolderOf, Guard
    <3>2. QED
      BY <2>1, <3>1 DEF QueueInv
  <2>4. QED
    BY <2>1, <2>2, <2>3 DEF CapacityOne, PermitInv
<1>2. QED
  BY <1>1, Invariant, PTL

(* Whoever has the answer of a migration finds its permit, its name and    *)
(* its session free, though the worker replies before it drops the job     *)
(* and may panic instead (migration.rs, Job and the worker's loop).        *)
THEOREM ReleasedBeforeAnswer == Spec => []AnsweredAreReleased
<1>1. IInv => AnsweredAreReleased
  BY DEF IInv, GuardInv, CallsInv, CallInv, AnsweredAreReleased
<1>2. QED
  BY <1>1, Invariant, PTL

(* A data file of an export never stands without its whole schema file     *)
(* (migration.rs, publish_noclobber and its two calls).                    *)
THEOREM SchemaBeforeData == Spec => []DataFollowsSchema
<1>1. IInv => DataFollowsSchema
  BY DEF IInv, Ordered, Ours, DataFollowsSchema
<1>2. QED
  BY <1>1, Invariant, PTL

(* An answer is true of the files of its export, wherever the publication  *)
(* failed (migration.rs, run_export).                                      *)
THEOREM AnswersAreTrue == Spec => []ReportIsTrue
<1>1. IInv => ReportIsTrue
  BY DEF IInv, Told, Ours, ReportIsTrue
<1>2. QED
  BY <1>1, Invariant, PTL

(* What is imported was validated as whole records, whatever the files held *)
(* before and after (migration.rs, run_import and validate_frames).         *)
THEOREM ImportsAreFramed == Spec => []ImportsValidated
<1>1. \A file \in Content : ValidateFrames(file) => WellFramed(file)
  BY ConstantsOK, ValidateFramesExact
<1>2. IInv => ImportsValidated
  BY <1>1 DEF IInv, FileInv, Made, ImportsValidated
<1>3. QED
  BY <1>2, Invariant, PTL

(* validate_frames accepts exactly what can be cut into records, of any *)
(* files (migration.rs, validate_frames).                               *)
THEOREM FramesAreDecided == Spec => []FramesAreRecords
<1>1. FramesAreRecords
  <2>1. \A file \in Inputs : ValidateFrames(file) = WellFramed(file)
    BY ConstantsOK, ValidateFramesExact
  <2> QED BY <2>1 DEF FramesAreRecords
<1>2. QED
  BY <1>1, PTL

(* The process leaves with success only when no job is half done (main.rs, *)
(* the join of the drains; migration.rs, completed).                       *)
THEOREM CleanExit == Spec => []CleanExitIsIdle
<1>1. IInv => CleanExitIsIdle
  BY DEF IInv, ShutdownInv, TypeOK, CleanExitIsIdle
<1>2. QED
  BY <1>1, Invariant, PTL

(* A file somebody else put at a destination is neither written nor removed *)
(* by any step, the second publication and its cleanup included             *)
(* (migration.rs, publish_noclobber).                                       *)
THEOREM ForeignFilesStay == Spec => NoClobber
<1> DEFINE Kept == \A j \in Job, k \in Slot : dest[j][k] = "foreign" => dest'[j][k] = "foreign"
<1>1. IInv /\ [Next]_vars => Kept
  <2> SUFFICES ASSUME IInv, [Next]_vars PROVE Kept
    OBVIOUS
  <2>0. TypeOK /\ Made
    BY DEF IInv, FileInv
  <2>1. ASSUME NEW i \in Job, NEW s \in Slot, NEW content, dest[i][s] # "foreign",
               dest' = [dest EXCEPT ![i][s] = content]
        PROVE  Kept
    BY <2>0, <2>1 DEF TypeOK
  <2>2. ASSUME NEW i \in Job, NEW s \in Slot, CreateDestination(i, s) PROVE Kept
    BY <2>1, <2>2 DEF CreateDestination
  <2>3. CASE RunJob
    <3>1. job \in Job
      BY <2>0, <2>3, RunJobStep
    <3>2. CASE UNCHANGED dest
      BY <3>2
    <3>3. CASE \E s \in Slot : dest[job][s] # "foreign" /\ \E content : Put(s, content)
      BY <2>1, <3>1, <3>3 DEF Put
    <3>4. "schema" \in Slot /\ "data" \in Slot
      BY DEF Slot
    <3>5. CASE \/ Publish("schema", "publish_schema", "write_schema")
               \/ Publish("data", "publish_data", "write_data")
      BY <3>2, <3>3, <3>4, <3>5 DEF Publish
    <3>6. CASE Write("schema", "write_schema", "publish_data")
      <4>1. dest[job]["schema"] # "foreign" /\ \E content : Put("schema", content)
        BY <2>0, <3>6 DEF Write, Made
      <4>2. QED
        BY <3>3, <3>4, <4>1
    <3>7. CASE Write("data", "write_data", "done")
      <4>1. dest[job]["data"] # "foreign" /\ \E content : Put("data", content)
        BY <2>0, <3>7 DEF Write, Made
      <4>2. QED
        BY <3>3, <3>4, <4>1
    <3>8. QED
      BY <2>3, <3>2, <3>5, <3>6, <3>7 DEF RunJob, Validate, ExportDatabase, Stage, Snapshot, CheckCopy,
         ImportDatabase
  <2>4. ASSUME NEW j \in Job, Submit(j) \/ SubmitStep(j) PROVE UNCHANGED dest
    BY <2>4 DEF Submit, SubmitStep, AcquirePermit, ReserveName, Send, Return
  <2>5. Poll \/ Receive \/ Drop \/ DropReceiver \/ Panic \/ MainStep => UNCHANGED dest
    BY DEF Poll, Receive, Drop, DropReceiver, Panic, MainStep, StopAdmission, Shutdown, HttpEnds,
       StdioCloses, Drained, Deadline, Leave
  <2>6. QED
    BY <2>2, <2>3, <2>4, <2>5 DEF Next, WorkerStep
<1>2. QED
  BY <1>1, Invariant, PTL DEF Spec, NoClobber

(* What is staged when a job's verdict is made was left by an import that   *)
(* succeeded or that had no staging guard yet (migration.rs, run_import and *)
(* StagingGuard).                                                           *)
THEOREM StagingAccounted == Spec => StagingIsAccounted
<1> DEFINE Leaves(j) == answer[j] = None /\ answer'[j] # None /\ staged'[j] # {}
           Goal == \A j \in Job : Leaves(j) => Asked(j, "import") /\ (answer'[j] = "ok" \/ copy = None)
<1>1. IInv /\ [Next]_vars => Goal
  <2> SUFFICES ASSUME IInv, [Next]_vars PROVE Goal
    OBVIOUS
  <2>0. /\ TypeOK /\ Made /\ NoCopy
        /\ \A j \in Job : answer[j] = None /\ job # j => staged[j] = {}
    BY DEF IInv, FileInv, Untouched
  <2>1. ASSUME NEW j \in Job, Submit(j) \/ SubmitStep(j) PROVE Goal
    <3>1. UNCHANGED staged /\ \A i \in Job : answer'[i] = answer[i] \/ (answer[i] = None /\ i # job)
      BY <2>1, SubmitLocal
    <3>2. QED
      BY <2>0, <3>1
  <2>2. CASE RunJob
    <3>1. job \in Job /\ wpc \in Running /\ \A j \in Job \ {job} : answer'[j] = answer[j]
      BY <2>0, <2>2, RunJobStep, RunJobLocal
    <3>2. request[job] # None
      BY <3>1 DEF IInv, GuardInv, WorkerInv, CallsInv, CallInv
    <3>3. CASE UNCHANGED answer
      BY <3>3
    <3>4. CASE staged'[job] = {}
      BY <3>1, <3>4
    <3>5. CASE request[job].kind = "import" /\ (copy = None \/ answer'[job] = "ok")
      BY <3>1, <3>2, <3>5 DEF Asked
    <3>6. ASSUME NEW left, FailGuarded(left) PROVE staged'[job] = {}
      BY <2>0, <3>1, <3>6, Endings
    <3>7. CASE Validate
      BY <2>0, <3>3, <3>4, <3>7 DEF Validate, Step, Made
    <3>8. CASE ExportDatabase \/ Snapshot \/ CheckCopy
      BY <3>3, <3>4, <3>6, <3>8 DEF ExportDatabase, Snapshot, CheckCopy, Step
    <3>9. CASE \/ Publish("schema", "publish_schema", "write_schema")
               \/ Publish("data", "publish_data", "write_data")
      BY <3>3, <3>4, <3>6, <3>9 DEF Publish, Step
    <3>10. CASE Write("schema", "write_schema", "publish_data")
      BY <3>3, <3>4, <3>6, <3>10 DEF Write, Step
    <3>11. CASE Write("data", "write_data", "done")
      <4>1. wpc = "write_data" /\ staged[job] \subseteq {"data"}
        BY <2>0, <3>11 DEF Write, Made
      <4>2. CASE staged' = [staged EXCEPT ![job] = @ \ {"data"}]
        BY <2>0, <3>1, <3>4, <4>1, <4>2 DEF TypeOK
      <4>3. QED
        BY <3>4, <3>6, <3>11, <4>2 DEF Write
    <3>12. CASE Stage("schema", "stage_schema", "stage_data") \/ Stage("data", "stage_data", "snapshot")
      <4>1. wpc \in {"stage_schema", "stage_data"}
        BY <3>12 DEF Stage
      <4>2. QED
        BY <2>0, <3>5, <4>1 DEF Made, NoCopy, ImportLabels
    <3>13. CASE ImportDatabase
      <4>1. wpc = "import" /\ request[job].kind = "import"
        BY <2>0, <3>13 DEF ImportDatabase, Made, ImportLabels
      <4>2. CASE Result("ok", {})
        BY <2>0, <3>1, <3>5, <4>1, <4>2, Endings
      <4>3. QED
        BY <3>4, <3>6, <3>13, <4>2 DEF ImportDatabase
    <3>14. QED
      BY <2>2, <3>7, <3>8, <3>9, <3>10, <3>11, <3>12, <3>13 DEF RunJob
  <2>3. CASE Drop
    <3>1. job \in Job /\ UNCHANGED staged /\ wpc \in Finished
      BY <2>0, <2>3 DEF TypeOK, Drop, Finished
    <3>2. answer' = answer \/ (wpc = "unwinding" /\ answer' = [answer EXCEPT ![job] = "dropped"])
      BY <2>3, <3>1 DEF Drop, Dropped, Finished
    <3>3. wpc = "unwinding" => staged[job] = {}
      BY <2>0 DEF Made
    <3>4. QED
      BY <2>0, <3>1, <3>2, <3>3 DEF TypeOK
  <2>4. CASE DropReceiver
    <3>1. UNCHANGED staged /\ job = None
      BY <2>0, <2>4 DEF TypeOK, DropReceiver
    <3>2. QED
      BY <2>0, <3>1, ConstantsOK
  <2>5. Poll \/ Receive \/ Panic \/ MainStep => UNCHANGED answer
    BY DEF Poll, Receive, Panic, MainStep, StopAdmission, Shutdown, HttpEnds, StdioCloses, Drained,
       Deadline, Leave
  <2>6. ASSUME NEW j \in Job, NEW k \in Slot, CreateDestination(j, k) PROVE UNCHANGED answer
    BY <2>6 DEF CreateDestination
  <2>7. QED
    BY <2>1, <2>2, <2>3, <2>4, <2>5, <2>6 DEF Next, WorkerStep
<1>2. QED
  BY <1>1, Invariant, PTL DEF Spec, StagingIsAccounted

-----------------------------------------------------------------------------
(* MigrationService: a step of the code is one of the service, or none.  *)
KindOf(j) == IF request[j] = None THEN None ELSE request[j].kind
Turn == IF wpc = "replied" THEN None ELSE job
Phases == [j \in Job |-> Phase(j)]
Kinds == [j \in Job |-> KindOf(j)]
MarksOf(j) == [k \in Slot |-> Mark(dest[j][k])]
Marks == [j \in Job |-> MarksOf(j)]

LEMMA PhaseValues ==
    ASSUME NEW j \in Job
    PROVE  /\ answer[j] # None => Phase(j) = "over"
           /\ answer[j] = None /\ job = j => Phase(j) = "running"
           /\ answer[j] = None /\ job # j /\ pc[j] = "idle" => Phase(j) = "idle"
           /\ answer[j] = None /\ job # j /\ pc[j] # "idle" => Phase(j) = "asked"
BY DEF Phase

LEMMA Unfold ==
    ASSUME NEW j \in Job
    PROVE  /\ Service!Ask(j) =
                /\ Phases[j] = "idle"
                /\ \E k \in {"export", "import"} : Kinds' = [Kinds EXCEPT ![j] = k]
                /\ \/ Phases' = [Phases EXCEPT ![j] = "asked"] /\ UNCHANGED answer
                   \/ Phases' = [Phases EXCEPT ![j] = "over"] /\ answer' = [answer EXCEPT ![j] = "refused"]
                /\ UNCHANGED <<Turn, Marks>>
           /\ Service!Refuse(j) =
                /\ Phases[j] = "asked"
                /\ \E v \in {"refused", "dropped"} :
                      Phases' = [Phases EXCEPT ![j] = "over"] /\ answer' = [answer EXCEPT ![j] = v]
                /\ UNCHANGED <<Kinds, Turn, Marks>>
           /\ Service!Begin(j) =
                /\ Phases[j] = "asked" /\ Turn = None /\ Turn' = j
                /\ Phases' = [Phases EXCEPT ![j] = "running"]
                /\ UNCHANGED <<Kinds, answer, Marks>>
           /\ Service!vars = <<Phases, Kinds, Turn, answer, Marks>>
BY DEF Service!Ask, Service!Refuse, Service!Begin, Service!End, Service!vars,
       Phases, Kinds, Turn, Marks, MarksOf, KindOf

Moved(j) ==
    \E k \in Slot, m \in {"none", "partial", "whole"} :
        /\ Kinds[j] = "export"
        /\ Marks[j][k] # "whole"
        /\ (k = "data") = (Marks[j]["schema"] = "whole")
        /\ Marks' = [Marks EXCEPT ![j][k] = m]

LEMMA UnfoldServe ==
    ASSUME NEW j \in Job
    PROVE  Service!Serve(j) =
            /\ Turn = j
            /\ Moved(j) \/ UNCHANGED Marks
            /\ \/ UNCHANGED <<Phases, Turn, answer>>
               \/ /\ \E v \in {"ok", "error", "dropped"} :
                       /\ v = "ok" => (Kinds[j] = "export" => \A k \in Slot : Marks'[j][k] = "whole")
                       /\ Phases' = [Phases EXCEPT ![j] = "over"]
                       /\ answer' = [answer EXCEPT ![j] = v]
                  /\ Turn' = None
            /\ UNCHANGED Kinds
BY DEF Service!Serve, Service!Move, Service!Succeeded, Service!End, Service!Slot, Slot, Moved,
       Phases, Kinds, Turn, Marks, MarksOf, KindOf

LEMMA StartOfService == Init => Service!Init
<1> SUFFICES ASSUME Init PROVE Service!Init
  OBVIOUS
<1>1. \A j \in Job : Phase(j) = "idle" /\ KindOf(j) = None
  BY PhaseValues, ConstantsOK DEF Init, KindOf
<1>2. \A j \in Job, k \in Slot : Mark(dest[j][k]) = "none"
  BY DEF Init, Mark
<1>3. Turn = None
  BY DEF Init, Turn
<1>4. QED
  BY <1>1, <1>2, <1>3 DEF Init, Service!Init, Service!Slot, Slot, Turn, KindOf

(* What does not change of one call, or of all. *)
LEMMA Unmoved ==
    /\ \A i \in Job : answer'[i] = answer[i] /\ job' = job /\ (pc'[i] = "idle") = (pc[i] = "idle") => Phase(i)' = Phase(i)
    /\ UNCHANGED request => UNCHANGED Kinds
    /\ UNCHANGED dest => UNCHANGED Marks
    /\ (UNCHANGED job /\ wpc # "replied" /\ wpc' # "replied") => UNCHANGED Turn
<1>1. \A i \in Job : answer'[i] = answer[i] /\ job' = job /\ (pc'[i] = "idle") = (pc[i] = "idle") => Phase(i)' = Phase(i)
  BY DEF Phase
<1>2. UNCHANGED request => UNCHANGED Kinds
  BY DEF Kinds, KindOf
<1>3. UNCHANGED dest => UNCHANGED Marks
  BY DEF Marks, MarksOf
<1>4. (UNCHANGED job /\ wpc # "replied" /\ wpc' # "replied") => UNCHANGED Turn
  BY DEF Turn
<1>5. QED
  BY <1>1, <1>2, <1>3, <1>4

(* The job in hand moves on, or ends with a verdict true of its files. *)
LEMMA ServeStep ==
    ASSUME IInv, IInv', RunJob
    PROVE  Service!Serve(job)
<1>0. /\ TypeOK /\ Made /\ TypeOK' /\ job \in Job /\ wpc \in Running
      /\ job' = job /\ request' = request /\ pc' = pc /\ answer[job] = None /\ request[job] # None
      /\ (wpc' \in Running /\ UNCHANGED answer) \/ \E r \in {"ok", "error"} : \E left : Result(r, left)
  <2>1. TypeOK /\ Made /\ TypeOK'
    BY DEF IInv, FileInv
  <2>2. /\ UNCHANGED working /\ wpc \in Running /\ job \in Job
        /\ (wpc' \in Running /\ UNCHANGED answer) \/ \E r \in {"ok", "error"} : \E left : Result(r, left)
    BY <2>1, RunJobStep
  <2>3. answer[job] = None /\ request[job] # None
    BY <2>1, <2>2 DEF IInv, GuardInv, WorkerInv, CallsInv, CallInv
  <2>4. QED
    BY <2>1, <2>2, <2>3 DEF working
<1>1. Turn = job /\ UNCHANGED Kinds
  BY <1>0, Unmoved DEF Turn, Running
<1> DEFINE Last(v) == /\ Phases' = [Phases EXCEPT ![job] = "over"]
                      /\ answer' = [answer EXCEPT ![job] = v]
                      /\ Turn' = None
<1>2. \/ UNCHANGED <<Phases, Turn, answer>>
      \/ \E v \in {"ok", "error"} : Last(v)
  <2>1. CASE wpc' \in Running /\ UNCHANGED answer
    <3>1. \A i \in Job : Phase(i)' = Phase(i)
      BY <1>0, <2>1, Unmoved
    <3>2. QED
      BY <1>0, <2>1, <3>1, Unmoved DEF Phases, Running
  <2>2. ASSUME NEW r \in {"ok", "error"}, NEW left, Result(r, left) PROVE Last(r)
    <3>1. answer' = [answer EXCEPT ![job] = r] /\ wpc' = "replied"
      BY <2>2 DEF Result
    <3>2. answer'[job] = r /\ r # None /\ \A i \in Job \ {job} : answer'[i] = answer[i]
      BY <1>0, <3>1, ConstantsOK DEF TypeOK, Verdict
    <3>3. Phase(job)' = "over"
      BY <1>0, <3>2 DEF Phase
    <3>4. \A i \in Job \ {job} : Phase(i)' = Phase(i)
      BY <1>0, <3>2, Unmoved
    <3>5. QED
      BY <1>0, <3>1, <3>3, <3>4 DEF Phases, Turn
  <2>3. QED
    BY <1>0, <2>1, <2>2
<1>3. Moved(job) \/ UNCHANGED Marks
  <2>1. CASE UNCHANGED dest
    BY <2>1, Unmoved
  <2>2. ASSUME NEW k \in Slot, NEW content \in {"absent", "partial", "whole"}, Put(k, content),
               request[job].kind = "export", dest[job][k] # "whole",
               (k = "data") = (dest[job]["schema"] = "whole")
        PROVE  Moved(job)
    <3>1. /\ dest'[job][k] = content
          /\ \A s \in Slot : s # k => dest'[job][s] = dest[job][s]
          /\ \A i \in Job : i # job => dest'[i] = dest[i]
      BY <1>0, <2>2 DEF Put, TypeOK
    <3>2. \A c : Mark(c) \in {"none", "partial", "whole"} /\ (Mark(c) = "whole") = (c = "whole")
      BY DEF Mark
    <3>3. Marks' = [Marks EXCEPT ![job][k] = Mark(content)]
      <4>1. \A i \in Job : i # job => MarksOf(i)' = MarksOf(i)
        BY <3>1 DEF MarksOf
      <4>2. MarksOf(job)' = [MarksOf(job) EXCEPT ![k] = Mark(content)]
        BY <1>0, <3>1 DEF MarksOf
      <4>3. QED
        BY <1>0, <4>1, <4>2 DEF Marks
    <3>4. Marks[job][k] = Mark(dest[job][k]) /\ Marks[job]["schema"] = Mark(dest[job]["schema"])
      BY <1>0 DEF Marks, MarksOf, Slot
    <3>5. Kinds[job] = "export"
      BY <1>0, <2>2 DEF Kinds, KindOf
    <3>6. QED
      BY <2>2, <3>2, <3>3, <3>4, <3>5 DEF Moved
  <2>3. "schema" \in Slot /\ "data" \in Slot
    BY DEF Slot
  <2>4. \A k \in Slot : \A left \in Leftover(k) : left[1] \in {"absent", "partial", "whole"}
    BY DEF Leftover
  <2>5. CASE Publish("schema", "publish_schema", "write_schema")
    <3>1. request[job].kind = "export"
      BY <1>0, <2>5 DEF Publish, Made, ExportLabels
    <3>2. QED
      BY <2>1, <2>2, <2>3, <2>5, <3>1 DEF Publish
  <2>6. CASE Publish("data", "publish_data", "write_data")
    <3>1. request[job].kind = "export" /\ dest[job]["schema"] = "whole"
      BY <1>0, <2>6 DEF Publish, Made, ExportLabels
    <3>2. QED
      BY <2>1, <2>2, <2>3, <2>6, <3>1 DEF Publish
  <2>7. CASE Write("schema", "write_schema", "publish_data")
    <3>1. request[job].kind = "export" /\ dest[job]["schema"] = "partial"
      BY <1>0, <2>7 DEF Write, Made, ExportLabels
    <3>2. \E content \in {"absent", "partial", "whole"} : Put("schema", content)
      BY <2>3, <2>4, <2>7 DEF Write
    <3>3. QED
      BY <2>2, <2>3, <3>1, <3>2
  <2>8. CASE Write("data", "write_data", "done")
    <3>1. request[job].kind = "export" /\ dest[job]["schema"] = "whole" /\ dest[job]["data"] = "partial"
      BY <1>0, <2>8 DEF Write, Made, ExportLabels
    <3>2. \E content \in {"absent", "partial", "whole"} : Put("data", content)
      BY <2>3, <2>4, <2>8 DEF Write
    <3>3. QED
      BY <2>2, <2>3, <3>1, <3>2
  <2>9. QED
    BY <2>1, <2>5, <2>6, <2>7, <2>8 DEF RunJob, Validate, ExportDatabase, Stage, Snapshot, CheckCopy,
       ImportDatabase
<1>4. answer'[job] = "ok" /\ Kinds[job] = "export" => \A k \in Slot : Marks'[job][k] = "whole"
  <2> SUFFICES ASSUME answer'[job] = "ok", Kinds[job] = "export", NEW k \in Slot
               PROVE  Marks'[job][k] = "whole"
    OBVIOUS
  <2>1. request'[job] # None /\ request'[job].kind = "export"
    BY <1>0 DEF Kinds, KindOf
  <2>2. Told(job)'
    BY <1>0 DEF IInv
  <2>3. dest'[job][k] = "whole"
    BY <1>0, <2>1, <2>2, ConstantsOK DEF Told, Asked, Verdict
  <2>4. QED
    BY <1>0, <2>3 DEF Marks, MarksOf, Mark
<1>5. \A v : Last(v) => answer'[job] = v
  BY <1>0 DEF TypeOK
<1>6. QED
  <2>1. CASE UNCHANGED <<Phases, Turn, answer>>
    BY <1>0, <1>1, <1>3, <2>1, UnfoldServe
  <2>2. ASSUME NEW v \in {"ok", "error"}, Last(v) PROVE Service!Serve(job)
    <3>1. v = "ok" => (Kinds[job] = "export" => \A k \in Slot : Marks'[job][k] = "whole")
      BY <1>4, <1>5, <2>2
    <3>2. \E w \in {"ok", "error", "dropped"} :
             /\ w = "ok" => (Kinds[job] = "export" => \A k \in Slot : Marks'[job][k] = "whole")
             /\ Phases' = [Phases EXCEPT ![job] = "over"]
             /\ answer' = [answer EXCEPT ![job] = w]
      BY <2>2, <3>1
    <3>3. QED
      BY <1>0, <1>1, <1>3, <2>2, <3>2, UnfoldServe
  <2>3. QED
    BY <1>2, <2>1, <2>2

(* A job that is lost or refused before its turn. *)
LEMMA RefuseStep ==
    ASSUME TypeOK, NEW q \in Job, NEW v \in {"refused", "dropped"},
           Phase(q) = "asked", answer'[q] = v, \A i \in Job \ {q} : answer'[i] = answer[i],
           answer' \in [Job -> Verdicts], \A i \in Job \ {q} : (pc'[i] = "idle") = (pc[i] = "idle"),
           UNCHANGED <<request, job, dest>>, UNCHANGED Turn
    PROVE  Service!Refuse(q)
<1>1. answer' = [answer EXCEPT ![q] = v]
  BY DEF TypeOK
<1>2. v # None
  BY ConstantsOK DEF Verdict
<1>3. Phase(q)' = "over"
  BY <1>2 DEF Phase
<1>4. \A i \in Job \ {q} : Phase(i)' = Phase(i)
  BY Unmoved
<1>5. Phases[q] = "asked" /\ Phases' = [Phases EXCEPT ![q] = "over"]
  BY <1>3, <1>4 DEF Phases
<1>6. UNCHANGED <<Kinds, Turn, Marks>>
  BY Unmoved
<1>7. QED
  BY <1>1, <1>5, <1>6, Unfold

LEMMA ServiceStep == IInv /\ IInv' /\ [Next]_vars => [Service!Next]_(Service!vars)
<1> DEFINE Goal == [Service!Next]_(Service!vars)
<1> SUFFICES ASSUME IInv, IInv', [Next]_vars PROVE Goal
  OBVIOUS
<1>0. TypeOK /\ TypeOK'
  BY DEF IInv
<1>1. ASSUME UNCHANGED <<answer, request, dest, Turn>>, \A j \in Job : Phase(j)' = Phase(j) PROVE Goal
  <2>1. UNCHANGED <<Phases, Kinds, Turn, answer, Marks>>
    BY <1>1, Unmoved DEF Phases
  <2>2. UNCHANGED Service!vars
    BY <2>1 DEF Service!vars, Phases, Kinds, Turn, Marks, MarksOf, KindOf
  <2>3. QED
    BY <2>2
<1>2. ASSUME NEW j \in Job, Service!Ask(j) \/ Service!Refuse(j) \/ Service!Begin(j) \/ Service!Serve(j)
      PROVE  Goal
  BY <1>2 DEF Service!Next
<1>3. ASSUME NEW j \in Job, Submit(j) PROVE Goal
  <2>1. /\ pc[j] = "idle" /\ CallInv(j) /\ UNCHANGED <<worker, files>>
        /\ Refuse(j) \/ (Goto(j, "admitted") /\ UNCHANGED answer)
    BY <1>3 DEF Submit, IInv, GuardInv, CallsInv
  <2>2. answer[j] = None /\ job # j
    <3>1. job \in Job => pc[job] \in {"sent", "answered"}
      BY <1>0, ConstantsOK DEF IInv, GuardInv, WorkerInv, TypeOK, Labels, Running
    <3>2. QED
      BY <2>1, <3>1 DEF CallInv
  <2>3. Phase(j) = "idle" /\ \A i \in Job \ {j} : Phase(i)' = Phase(i)
    BY <1>0, <2>1, <2>2, PhaseValues, CallChanges, Unmoved
  <2>4. \E k \in {"export", "import"} : Kinds' = [Kinds EXCEPT ![j] = k]
    <3>1. PICK k \in Kind, d \in Database : request' = [request EXCEPT ![j] = [kind |-> k, database |-> d]]
      BY <1>3 DEF Submit
    <3>2. [kind |-> k, database |-> d] # None
      BY ConstantsOK DEF Request
    <3>3. KindOf(j)' = k /\ \A i \in Job \ {j} : KindOf(i)' = KindOf(i)
      BY <1>0, <3>1, <3>2 DEF KindOf, TypeOK
    <3>4. QED
      BY <3>3 DEF Kinds, Kind
  <2>5. UNCHANGED <<Turn, Marks>>
    BY <2>1, Unmoved DEF Turn
  <2>6. CASE Goto(j, "admitted") /\ UNCHANGED answer
    <3>1. Phase(j)' = "asked"
      BY <1>0, <2>1, <2>2, <2>6, CallChanges DEF Phase
    <3>2. Phases[j] = "idle" /\ Phases' = [Phases EXCEPT ![j] = "asked"]
      BY <2>3, <3>1 DEF Phases
    <3>3. QED
      BY <1>2, <2>4, <2>5, <2>6, <3>2, Unfold
  <2>7. CASE Refuse(j)
    <3>1. answer' = [answer EXCEPT ![j] = "refused"] /\ answer'[j] = "refused"
      BY <1>0, <2>7 DEF Refuse, TypeOK
    <3>2. Phase(j)' = "over"
      BY <3>1, ConstantsOK DEF Phase, Verdict
    <3>3. Phases[j] = "idle" /\ Phases' = [Phases EXCEPT ![j] = "over"]
      BY <2>3, <3>2 DEF Phases
    <3>4. QED
      BY <1>2, <2>4, <2>5, <3>1, <3>3, Unfold
  <2>8. QED
    BY <2>1, <2>6, <2>7
<1>4. ASSUME NEW j \in Job, SubmitStep(j) PROVE Goal
  <2>1. /\ pc[j] # "idle" /\ CallInv(j) /\ UNCHANGED <<request, worker, files>>
        /\ \/ Refuse(j) /\ pc[j] \notin {"sent", "answered"}
           \/ UNCHANGED answer /\ \E place \in Places \ {"idle"} : Goto(j, place)
    BY <1>4 DEF SubmitStep, AcquirePermit, ReserveName, Send, Return, IInv, GuardInv, CallsInv, Places
  <2>2. UNCHANGED Turn
    BY <2>1 DEF Turn
  <2>3. CASE UNCHANGED answer /\ \E place \in Places \ {"idle"} : Goto(j, place)
    <3>1. \A i \in Job : (pc'[i] = "idle") = (pc[i] = "idle")
      BY <1>0, <2>1, <2>3, CallChanges DEF Places
    <3>2. \A i \in Job : Phase(i)' = Phase(i)
      BY <2>1, <2>3, <3>1, Unmoved
    <3>3. QED
      BY <1>1, <2>1, <2>2, <2>3, <3>2
  <2>4. CASE Refuse(j) /\ pc[j] \notin {"sent", "answered"}
    <3>1. job # j /\ answer[j] = None
      <4>1. job \in Job => pc[job] \in {"sent", "answered"}
        BY <1>0, ConstantsOK DEF IInv, GuardInv, WorkerInv, TypeOK, Labels, Running
      <4>2. QED
        BY <2>1, <2>4, <4>1 DEF CallInv
    <3>2. Phase(j) = "asked"
      BY <2>1, <3>1, PhaseValues
    <3>3. /\ answer'[j] = "refused" /\ \A i \in Job \ {j} : answer'[i] = answer[i] /\ pc'[i] = pc[i]
          /\ answer' \in [Job -> Verdicts]
      BY <1>0, <2>4, CallChanges, CallTypes
    <3>4. Service!Refuse(j)
      BY <1>0, <2>1, <2>2, <3>2, <3>3, RefuseStep
    <3>5. QED
      BY <1>2, <3>4
  <2>5. QED
    BY <2>1, <2>3, <2>4
<1>5. ASSUME NEW i \in Job, NEW k \in Slot, CreateDestination(i, k) PROVE Goal
  <2>1. /\ UNCHANGED <<calls, worker>> /\ dest[i][k] = "absent"
        /\ dest' = [dest EXCEPT ![i][k] = "foreign"]
    BY <1>5 DEF CreateDestination
  <2>2. \A j \in Job, s \in Slot : Mark(dest'[j][s]) = Mark(dest[j][s])
    BY <1>0, <2>1 DEF TypeOK, Mark
  <2>3. \A j \in Job : Phase(j)' = Phase(j)
    BY <2>1, Unmoved
  <2>4. UNCHANGED <<Phases, Kinds, Turn, answer, Marks>>
    BY <2>1, <2>2, <2>3, Unmoved DEF Phases, Marks, MarksOf, Turn
  <2>5. UNCHANGED Service!vars
    BY <2>4 DEF Service!vars, Phases, Kinds, Turn, Marks, MarksOf, KindOf
  <2>6. QED
    BY <2>5
<1>6. CASE Poll \/ Panic \/ (Receive /\ queue = <<>>)
  <2>1. /\ UNCHANGED <<calls, job, dest>> /\ wpc # "replied" /\ wpc' # "replied"
    BY <1>6 DEF Poll, Panic, Receive, BackendCalls
  <2>2. \A j \in Job : Phase(j)' = Phase(j)
    BY <2>1, Unmoved
  <2>3. QED
    BY <1>1, <2>1, <2>2, Unmoved
<1>7. ASSUME Receive, NEW q \in Job, queue = <<q>> PROVE Goal
  <2>1. /\ UNCHANGED <<calls, files>> /\ wpc = "receive" /\ wpc' = "start"
        /\ job' = q /\ job = None
    BY <1>0, <1>7, Single DEF Receive, TypeOK
  <2>2. answer[q] = None /\ pc[q] = "sent"
    BY <1>7 DEF IInv, GuardInv, QueueInv
  <2>3. Phase(q) = "asked" /\ Phase(q)' = "running"
    BY <2>1, <2>2, ConstantsOK DEF Phase
  <2>4. \A i \in Job \ {q} : Phase(i)' = Phase(i)
    BY <2>1, ConstantsOK DEF Phase
  <2>5. Phases[q] = "asked" /\ Phases' = [Phases EXCEPT ![q] = "running"]
    BY <2>3, <2>4 DEF Phases
  <2>6. Turn = None /\ Turn' = q
    BY <2>1 DEF Turn
  <2>7. Service!Begin(q)
    BY <2>1, <2>5, <2>6, Unfold, Unmoved
  <2>8. QED
    BY <1>2, <2>7
<1>8. CASE RunJob
  BY <1>0, <1>2, <1>8, ServeStep, RunJobStep
<1>9. CASE Drop
  <2>0. job \in Job /\ wpc \in Finished /\ UNCHANGED <<pc, request, dest>>
    BY <1>0, <1>9 DEF Drop, Finished, TypeOK
  <2>1. CASE UNCHANGED <<worker, answer>>
    <3>1. UNCHANGED Turn /\ \A j \in Job : Phase(j)' = Phase(j)
      BY <2>0, <2>1, Unmoved DEF Turn
    <3>2. QED
      BY <1>1, <2>0, <2>1, <3>1
  <2>2. CASE wpc = "replied" /\ Dropped
    <3>1. wpc' = "poll" /\ job' = None /\ UNCHANGED answer /\ answer[job] # None
      BY <2>2, ConstantsOK DEF Dropped, IInv, GuardInv, WorkerInv, Verdict
    <3>2. \A j \in Job : Phase(j)' = Phase(j)
      BY <2>0, <3>1, ConstantsOK DEF Phase
    <3>3. UNCHANGED Turn
      BY <2>2, <3>1 DEF Turn
    <3>4. QED
      BY <1>1, <2>0, <3>1, <3>2, <3>3
  <2>3. ASSUME NEW w \in Job, w = job, wpc = "unwinding", Dropped PROVE Goal
    <3>1. /\ wpc' = "ended" /\ job' = None /\ answer' = [answer EXCEPT ![w] = "dropped"]
          /\ Turn = w /\ Turn' = None
      BY <2>3 DEF Dropped, Turn
    <3>2. answer'[w] = "dropped" /\ \A i \in Job \ {w} : answer'[i] = answer[i]
      BY <1>0, <3>1 DEF TypeOK
    <3>3. Phase(w)' = "over" /\ \A i \in Job \ {w} : Phase(i)' = Phase(i)
      BY <2>0, <2>3, <3>1, <3>2, ConstantsOK DEF Phase, Verdict
    <3>4. Phases' = [Phases EXCEPT ![w] = "over"]
      BY <3>3 DEF Phases
    <3>5. \E v \in {"ok", "error", "dropped"} :
             /\ v = "ok" => (Kinds[w] = "export" => \A k \in Slot : Marks'[w][k] = "whole")
             /\ Phases' = [Phases EXCEPT ![w] = "over"]
             /\ answer' = [answer EXCEPT ![w] = v]
      BY <3>1, <3>4
    <3>6. UNCHANGED <<Kinds, Marks>>
      BY <2>0, Unmoved
    <3>7. Service!Serve(w)
      BY <3>1, <3>5, <3>6, UnfoldServe
    <3>8. QED
      BY <1>2, <3>7
  <2>4. QED
    BY <1>9, <2>0, <2>1, <2>2, <2>3 DEF Drop, Finished
<1>10. CASE DropReceiver
  <2>1. /\ wpc = "ended" /\ wpc' = "gone" /\ job = None /\ UNCHANGED <<pc, request, job, dest>>
        /\ UNCHANGED Turn
    BY <1>0, <1>10 DEF DropReceiver, TypeOK, Turn
  <2>2. CASE queue = <<>>
    <3>1. \A j \in Job : answer'[j] = answer[j]
      BY <1>10, <2>2 DEF DropReceiver
    <3>2. answer' = answer
      BY <1>0, <3>1 DEF TypeOK
    <3>3. \A j \in Job : Phase(j)' = Phase(j)
      BY <2>1, <3>1, Unmoved
    <3>4. QED
      BY <1>1, <2>1, <3>2, <3>3
  <2>3. ASSUME NEW q \in Job, queue = <<q>> PROVE Goal
    <3>1. answer'[q] = "dropped" /\ \A i \in Job \ {q} : answer'[i] = answer[i]
      BY <1>10, <2>3, Single DEF DropReceiver
    <3>2. answer[q] = None /\ pc[q] = "sent"
      BY <2>3 DEF IInv, GuardInv, QueueInv
    <3>3. Phase(q) = "asked"
      BY <2>1, <3>2, PhaseValues, ConstantsOK
    <3>4. answer' \in [Job -> Verdicts]
      BY <1>0 DEF TypeOK, Verdicts
    <3>5. Service!Refuse(q)
      BY <1>0, <2>1, <3>1, <3>3, <3>4, RefuseStep
    <3>6. QED
      BY <1>2, <3>5
  <2>4. QED
    BY <2>2, <2>3 DEF IInv, GuardInv, QueueInv
<1>11. CASE UNCHANGED <<calls, worker, files>>
  <2>1. UNCHANGED Turn /\ \A j \in Job : Phase(j)' = Phase(j)
    BY <1>11, Unmoved DEF Turn
  <2>2. QED
    BY <1>1, <1>11, <2>1
<1>12. MainStep => UNCHANGED <<calls, worker, files>>
  BY DEF MainStep, StopAdmission, Shutdown, HttpEnds, StdioCloses, Drained, Deadline, Leave
<1>13. Receive => queue = <<>> \/ \E q \in Job : queue = <<q>>
  BY DEF IInv, GuardInv, QueueInv
<1>14. QED
  BY <1>3, <1>4, <1>5, <1>6, <1>7, <1>8, <1>9, <1>10, <1>11, <1>12, <1>13 DEF Next, WorkerStep

(* The supervisor, its worker and the shutdown implement MigrationService: *)
(* one job at a time, one verdict each that is never revised, the data     *)
(* file after the schema file, success only with both.                     *)
THEOREM Refinement == Spec => ImplementsService
<1>1. Init => Service!Init
  BY StartOfService
<1>2. IInv /\ IInv' /\ [Next]_vars => [Service!Next]_(Service!vars)
  BY ServiceStep
<1>3. QED
  BY <1>1, <1>2, Invariant, PTL DEF Spec, ImplementsService, Service!Spec
=============================================================================
