------------------------------ MODULE Migration ------------------------------
(***************************************************************************)
(* migration.rs and the shutdown of main.rs: calls submit jobs to a single *)
(* worker thread; the job carries the permit, the name's reservation and   *)
(* the caller's session guard; the worker stages, publishes or imports,    *)
(* replies and drops the job; main stops admission, drains HTTP and the    *)
(* worker or leaves at the deadline, and waits for stdio to close.         *)
(*                                                                         *)
(* A job is known by the call that submits it.  Its two files are "schema" *)
(* and "data".  Somebody else may create a destination or rewrite an input *)
(* at any time but removes nothing, and any file operation or backend call *)
(* may fail, with one exception: cleanup, which ignores errors, is taken   *)
(* to remove its files.  The worker may panic in a backend call.           *)
(***************************************************************************)
EXTENDS Frames

CONSTANTS
    Job,       \* calls of export_database and import_database, one job each
    Database,
    Content,   \* what the data file of an import may hold
    Inputs,    \* any files, to ask validate_frames about
    None

Slot == {"schema", "data"}
Kind == {"export", "import"}
Request == [kind : Kind, database : Database]
Verdict == {"ok", "error", "refused", "dropped"}

ASSUME ConstantsOK ==
    /\ None \notin Job \cup Request \cup Verdict \cup Content
    /\ Content \subseteq Seq(Byte) /\ Inputs \subseteq Seq(Byte)

Guard == {"permit", "name", "session"}

VARIABLES
    accepting, stop, completed,  \* the supervisor's flags
    queue, connected,            \* the channel, and whether its receiver exists
    main, http, stdio,           \* where the shutdown of main.rs is; the transports
    pc, request, held,           \* a call's progress; its arguments; its job's guards
    answer, named,               \* the job's reply, and the files it says it left
    wpc, job,                    \* the worker, and the job it runs
    staged,                      \* staged files that exist
    copy,                        \* what the staged data of the running import holds
    dest                         \* what is at each destination of an export

flags == <<accepting, stop, completed>>
channel == <<queue, connected>>
process == <<main, http, stdio>>
calls == <<pc, request, held, answer, named>>
worker == <<wpc, job>>
files == <<staged, copy, dest>>
vars == <<flags, channel, process, calls, worker, files>>

Exited == main \in {"exit0", "exit1"}

Init ==
    /\ accepting = TRUE /\ stop = FALSE /\ completed = FALSE
    /\ queue = <<>> /\ connected = TRUE
    /\ main = "running"
    /\ http \in {"open", "closed"} /\ stdio \in BOOLEAN
    /\ http = "open" \/ stdio
    /\ pc = [j \in Job |-> "idle"]
    /\ request = [j \in Job |-> None]
    /\ held = [j \in Job |-> {}]
    /\ answer = [j \in Job |-> None]
    /\ named = [j \in Job |-> {}]
    /\ wpc = "poll" /\ job = None
    /\ staged = [j \in Job |-> {}]
    /\ copy = None
    /\ dest = [j \in Job |-> [k \in Slot |-> "absent"]]

-----------------------------------------------------------------------------
(* submit: the checks are separate steps, for main and the worker run on   *)
(* threads of their own.  do_migration comes in with the session's guard.  *)

Goto(j, label) == pc' = [pc EXCEPT ![j] = label]
Refuse(j) ==
    /\ Goto(j, "answered")
    /\ held' = [held EXCEPT ![j] = {}]
    /\ answer' = [answer EXCEPT ![j] = "refused"]

Submit(j) ==
    /\ pc[j] = "idle"
    /\ http = "open" \/ stdio
    /\ \E k \in Kind, d \in Database :
          request' = [request EXCEPT ![j] = [kind |-> k, database |-> d]]
    /\ IF accepting
       THEN /\ Goto(j, "admitted")
            /\ held' = [held EXCEPT ![j] = {"session"}]
            /\ UNCHANGED answer
       ELSE Refuse(j)
    /\ UNCHANGED <<flags, channel, process, named, worker, files>>

HolderOf(g) == {i \in Job : g \in held[i]}
NameFree(d) == \A i \in HolderOf("name") : request[i].database # d

(* Slip: the job is sent without a permit. *)
AcquireNoPermit(j) ==
    /\ pc[j] = "admitted"
    /\ Goto(j, "permitted")
    /\ held' = [held EXCEPT ![j] = @ \cup {"permit"}]
    /\ UNCHANGED <<flags, channel, process, request, answer, named, worker, files>>

AcquirePermit(j) ==
    /\ pc[j] = "admitted"
    /\ IF HolderOf("permit") = {}
       THEN /\ Goto(j, "permitted")
            /\ held' = [held EXCEPT ![j] = @ \cup {"permit"}]
            /\ UNCHANGED answer
       ELSE Refuse(j)
    /\ UNCHANGED <<flags, channel, process, request, named, worker, files>>

(* try_reserve, then normalize_destination, which may fail. *)
ReserveName(j) ==
    /\ pc[j] = "permitted"
    /\ \/ /\ NameFree(request[j].database)
          /\ Goto(j, "reserved")
          /\ held' = [held EXCEPT ![j] = @ \cup {"name"}]
          /\ UNCHANGED answer
       \/ /\ ~NameFree(request[j].database) \/ request[j].kind = "export"
          /\ Refuse(j)
    /\ UNCHANGED <<flags, channel, process, request, named, worker, files>>

Send(j) ==
    /\ pc[j] = "reserved"
    /\ IF connected
       THEN /\ queue' = Append(queue, j)
            /\ Goto(j, "sent")
            /\ UNCHANGED <<held, answer>>
       ELSE Refuse(j) /\ UNCHANGED queue
    /\ UNCHANGED <<flags, connected, process, request, named, worker, files>>

(* The reply, or the loss of its sender, has arrived; the envelope needs   *)
(* session.snapshot(), which waits for the session's mutex.                *)
Return(j) ==
    /\ pc[j] = "sent"
    /\ answer[j] # None
    /\ "session" \notin held[j]
    /\ Goto(j, "answered")
    /\ UNCHANGED <<flags, channel, process, request, held, answer, named, worker, files>>

-----------------------------------------------------------------------------
(* The worker's loop. *)

(* Slip: the loop notices stop and reports completion before its last job. *)
PollEarly ==
    /\ wpc = "poll"
    /\ completed' = stop
    /\ wpc' = IF stop /\ queue = <<>> THEN "ended" ELSE "receive"
    /\ UNCHANGED <<accepting, stop, channel, process, calls, job, files>>

Poll ==
    /\ wpc = "poll"
    /\ completed' = stop
    /\ wpc' = IF stop THEN "ended" ELSE "receive"
    /\ UNCHANGED <<accepting, stop, channel, process, calls, job, files>>

Receive ==
    /\ wpc = "receive"
    /\ IF queue = <<>>
       THEN wpc' = "poll" /\ UNCHANGED <<queue, job>>
       ELSE /\ job' = Head(queue)
            /\ queue' = Tail(queue)
            /\ wpc' = "start"
    /\ UNCHANGED <<flags, connected, process, calls, files>>

Step(label) == wpc' = label /\ UNCHANGED <<answer, named>>
Result(r, left) ==
    /\ answer' = [answer EXCEPT ![job] = r]
    /\ named' = [named EXCEPT ![job] = left]
    /\ wpc' = "replied"

Fail == Result("error", {}) /\ UNCHANGED staged

(* The staging guard was made: its drop removes what is staged. *)
FailGuarded(left) ==
    /\ Result("error", left)
    /\ staged' = [staged EXCEPT ![job] = {}]

(* Slip: the job in hand is not cleared. *)
DropKeepsJob ==
    /\ wpc = "replied"
    /\ held' = [held EXCEPT ![job] = {}]
    /\ wpc' = "poll"
    /\ UNCHANGED <<flags, channel, process, pc, request, answer, named, job, files>>

Finished == {"replied", "unwinding"}

(* The last of the job is gone; a reply channel that was not used goes     *)
(* with it, and so does the worker.                                        *)
Dropped ==
    /\ job' = None /\ copy' = None
    /\ IF wpc = "replied"
       THEN wpc' = "poll" /\ UNCHANGED answer
       ELSE wpc' = "ended" /\ answer' = [answer EXCEPT ![job] = "dropped"]

(* Slip: the session's guard is the first field of the job. *)
DropSessionFirst ==
    /\ wpc \in Finished
    /\ IF held[job] = {}
       THEN Dropped /\ UNCHANGED held
       ELSE LET next == IF "session" \in held[job] THEN "session"
                        ELSE IF "permit" \in held[job] THEN "permit" ELSE "name"
            IN /\ held' = [held EXCEPT ![job] = @ \ {next}]
               /\ UNCHANGED <<worker, answer, copy>>
    /\ UNCHANGED <<flags, channel, process, pc, request, named, staged, dest>>

(* The job's fields are dropped in order: permit, reservation, session. *)
Drop ==
    /\ wpc \in Finished
    /\ IF held[job] = {}
       THEN Dropped /\ UNCHANGED held
       ELSE LET next == IF "permit" \in held[job] THEN "permit"
                        ELSE IF "name" \in held[job] THEN "name" ELSE "session"
            IN /\ held' = [held EXCEPT ![job] = @ \ {next}]
               /\ UNCHANGED <<worker, answer, copy>>
    /\ UNCHANGED <<flags, channel, process, pc, request, named, staged, dest>>

(* Slip: the receiver outlives the thread, and with it what is queued. *)
ReceiverKept ==
    /\ wpc = "ended"
    /\ wpc' = "gone"
    /\ connected' = FALSE
    /\ UNCHANGED <<flags, queue, process, calls, job, files>>

(* The thread ends: the receiver is dropped with the jobs still queued. *)
DropReceiver ==
    /\ wpc = "ended"
    /\ wpc' = "gone"
    /\ connected' = FALSE
    /\ queue' = <<>>
    /\ LET lost == {queue[i] : i \in DOMAIN queue}
       IN /\ held' = [j \in Job |-> IF j \in lost THEN {} ELSE held[j]]
          /\ answer' = [j \in Job |-> IF j \in lost THEN "dropped" ELSE answer[j]]
    /\ UNCHANGED <<flags, process, pc, request, named, job, files>>

(* "kills the worker mid-job": a backend call panics, the stack unwinds    *)
(* through the staging guard, and the job is dropped without a reply.      *)
BackendCalls == {"export", "check_copy", "import"}
Panic ==
    /\ wpc \in BackendCalls
    /\ wpc' = "unwinding"
    /\ staged' = [staged EXCEPT ![job] = {}]
    /\ UNCHANGED <<flags, channel, process, calls, job, copy, dest>>

working == <<flags, channel, process, pc, request, held, job>>

(* validate_export_inputs or validate_pair, which does not read the data.  *)
(* A factory that failed answers every job with an error as well.          *)
Validate ==
    /\ wpc = "start"
    /\ \/ Result("error", {})
       \/ /\ request[job].kind = "export"
          /\ \A k \in Slot : dest[job][k] = "absent"
          /\ Step("export")
       \/ request[job].kind = "import" /\ Step("stage_schema")
    /\ UNCHANGED <<working, files>>

-----------------------------------------------------------------------------
(* export: stage_path_only names the staged files, the driver makes them.  *)

ExportDatabase ==
    /\ wpc = "export"
    /\ \/ /\ staged' = [staged EXCEPT ![job] = Slot]
          /\ Step("publish_schema")
       \/ FailGuarded({})
    /\ UNCHANGED <<working, copy, dest>>

Put(k, content) == dest' = [dest EXCEPT ![job][k] = content]

(* A failed second publication names the first in its error. *)
Before(k) == IF k = "data" THEN {"schema"} ELSE {}

(* Slip: a destination is named though it could be removed. *)
LeftoverNamesRemoved(k) == {<<"absent", {k}>>, <<"partial", {}>>, <<"partial", {k}>>, <<"whole", {}>>}

(* What a failed publication leaves and says it leaves: the file removed;  *)
(* its staged source not opened; its removal failed; the removal of the    *)
(* staged source failed.                                                   *)
Leftover(k) == {<<"absent", {}>>, <<"partial", {}>>, <<"partial", {k}>>, <<"whole", {}>>}

(* Slip: File::create truncates what is there. *)
PublishOver(k, publish, write) ==
    /\ wpc = publish
    /\ \/ /\ Put(k, "partial")
          /\ Step(write)
          /\ UNCHANGED staged
       \/ FailGuarded(Before(k)) /\ UNCHANGED dest
    /\ UNCHANGED <<working, copy>>

(* create_new of publish_noclobber, before the schema also hash_file. *)
Publish(k, publish, write) ==
    /\ wpc = publish
    /\ \/ /\ dest[job][k] = "absent"
          /\ Put(k, "partial")
          /\ Step(write)
          /\ UNCHANGED staged
       \/ FailGuarded(Before(k)) /\ UNCHANGED dest
    /\ UNCHANGED <<working, copy>>

(* Slip: a failed publication of the schema is not looked at. *)
WriteAnyway(k, write, next) ==
    /\ wpc = write
    /\ \E left \in {"absent", "partial", "whole"} : Put(k, left)
    /\ staged' = [staged EXCEPT ![job] = @ \ {k}]
    /\ IF next = "done" THEN Result("ok", Slot) ELSE Step(next)
    /\ UNCHANGED <<working, copy>>

(* Slip: the staged file is left to a guard that success disarms. *)
WriteKeepsStaged(k, write, next) ==
    /\ wpc = write
    /\ \/ /\ Put(k, "whole")
          /\ IF next = "done" THEN Result("ok", Slot) ELSE Step(next)
          /\ UNCHANGED staged
       \/ \E left \in Leftover(k) : Put(k, left[1]) /\ FailGuarded(Before(k) \cup left[2])
    /\ UNCHANGED <<working, copy>>

(* The copy into place, its removal when it fails, and the removal of the  *)
(* staged file.  A partial file stays when its own removal fails or the    *)
(* staged file cannot be opened, a whole one when the staged file stays.   *)
Write(k, write, next) ==
    /\ wpc = write
    /\ \/ /\ Put(k, "whole")
          /\ staged' = [staged EXCEPT ![job] = @ \ {k}]
          /\ IF next = "done" THEN Result("ok", Slot) ELSE Step(next)
       \/ \E left \in Leftover(k) : Put(k, left[1]) /\ FailGuarded(Before(k) \cup left[2])
    /\ UNCHANGED <<working, copy>>

-----------------------------------------------------------------------------
(* import.  Staged files made before the guard are not removed by it.      *)

(* stage; after the second, ensure_filesystem_headroom. *)
Stage(k, stage, next) ==
    /\ wpc = stage
    /\ \/ Fail
       \/ /\ staged' = [staged EXCEPT ![job] = @ \cup {k}]
          /\ Step(next) \/ (k = "data" /\ Result("error", {}))
    /\ UNCHANGED <<working, copy, dest>>

(* The caller's file holds anything by now, whatever it held before. *)
Snapshot ==
    /\ wpc = "snapshot"
    /\ \/ /\ copy' \in Content
          /\ Step("check_copy")
          /\ UNCHANGED staged
       \/ FailGuarded({}) /\ UNCHANGED copy
    /\ UNCHANGED <<working, dest>>

(* Slip: the caller's files are validated, once more, not their copies. *)
CheckInput ==
    /\ wpc = "check_copy"
    /\ \/ (\E file \in Content : ValidateFrames(file)) /\ Step("import") /\ UNCHANGED staged
       \/ FailGuarded({})
    /\ UNCHANGED <<working, copy, dest>>

(* validate_schema, validate_frames and hash_file, all of the staged copy, *)
(* then database_exists.  The schema may be refused, like all that fails.  *)
CheckCopy ==
    /\ wpc = "check_copy"
    /\ \/ ValidateFrames(copy) /\ Step("import") /\ UNCHANGED staged
       \/ FailGuarded({})
    /\ UNCHANGED <<working, copy, dest>>

(* import_database; success disarms the guard, and the copies stay. *)
ImportDatabase ==
    /\ wpc = "import"
    /\ \/ Result("ok", {}) /\ UNCHANGED staged
       \/ FailGuarded({})
    /\ UNCHANGED <<working, copy, dest>>

RunJob ==
    \/ Validate
    \/ ExportDatabase
    \/ Publish("schema", "publish_schema", "write_schema")
    \/ Write("schema", "write_schema", "publish_data")
    \/ Publish("data", "publish_data", "write_data")
    \/ Write("data", "write_data", "done")
    \/ Stage("schema", "stage_schema", "stage_data")
    \/ Stage("data", "stage_data", "snapshot")
    \/ Snapshot
    \/ CheckCopy
    \/ ImportDatabase

-----------------------------------------------------------------------------
(* Other processes of the machine, followed while the worker has the job:  *)
(* nothing looks at its files before, and its first look comes after them. *)

AtWork(j) == job = j /\ wpc \notin Finished

Asked(j, kind) == request[j] # None /\ request[j].kind = kind

CreateDestination(j, k) ==
    /\ Asked(j, "export") /\ AtWork(j)
    /\ dest[j][k] = "absent"
    /\ dest' = [dest EXCEPT ![j][k] = "foreign"]
    /\ UNCHANGED <<flags, channel, process, calls, worker, staged, copy>>

-----------------------------------------------------------------------------
(* main.rs.  Either transport may not be configured, and is then closed    *)
(* from the start; shutdown runs in a thread of its own.                   *)

(* A signal or a transport that closed, then stop_admission. *)
StopAdmission ==
    /\ main = "running"
    /\ \/ UNCHANGED <<http, stdio>>
       \/ stdio /\ stdio' = FALSE /\ UNCHANGED http
       \/ http = "open" /\ http' = "closed" /\ UNCHANGED stdio
    /\ main' = "stopping"
    /\ accepting' = FALSE
    /\ UNCHANGED <<stop, completed, channel, calls, worker, files>>

Shutdown ==
    /\ main = "stopping"
    /\ main' = "draining"
    /\ stop' = TRUE
    /\ UNCHANGED <<accepting, completed, channel, http, stdio, calls, worker, files>>

(* The process is gone, and with it what was open. *)
Exit(code) == main' = code /\ http' = "closed" /\ stdio' = FALSE

(* A running HTTP server can only fail; while it drains it may also close. *)
(* Who ends earlier than main looks at it is taken to end when main does.  *)
HttpEnds ==
    /\ http = "open"
    /\ \/ main = "running" /\ Exit("exit1")
       \/ /\ main = "draining"
          /\ http' \in {"closed", "failed"}
          /\ UNCHANGED <<main, stdio>>
    /\ UNCHANGED <<flags, channel, calls, worker, files>>

StdioCloses ==
    /\ main = "closing" /\ stdio
    /\ stdio' = FALSE
    /\ UNCHANGED <<flags, channel, main, http, calls, worker, files>>

(* The join of the two drains. *)
Drained ==
    /\ main = "draining"
    /\ http # "open" /\ completed
    /\ IF http = "closed" THEN main' = "closing" /\ UNCHANGED <<http, stdio>> ELSE Exit("exit1")
    /\ UNCHANGED <<flags, channel, calls, worker, files>>

(* Slip: only the drain of HTTP has a deadline. *)
DeadlineOfHttp ==
    /\ main \in {"stopping", "draining"} /\ http = "open"
    /\ Exit("exit1")
    /\ UNCHANGED <<flags, channel, calls, worker, files>>

(* The grace expires, at any time: "migration state uncertain". *)
Deadline ==
    /\ main \in {"stopping", "draining"}
    /\ Exit("exit1")
    /\ UNCHANGED <<flags, channel, calls, worker, files>>

(* stdio is awaited without a deadline. *)
Leave ==
    /\ main = "closing" /\ ~stdio
    /\ Exit("exit0")
    /\ UNCHANGED <<flags, channel, calls, worker, files>>

SubmitStep(j) == AcquirePermit(j) \/ ReserveName(j) \/ Send(j) \/ Return(j)
WorkerStep == Poll \/ Receive \/ RunJob \/ Drop \/ DropReceiver
MainStep == StopAdmission \/ Shutdown \/ HttpEnds \/ StdioCloses \/ Drained \/ Deadline \/ Leave

Next ==
    /\ ~Exited
    /\ \/ \E j \in Job : Submit(j) \/ SubmitStep(j)
       \/ \E j \in Job, k \in Slot : CreateDestination(j, k)
       \/ WorkerStep
       \/ Panic
       \/ MainStep

Spec == Init /\ [][Next]_vars

(* Tasks and the worker's thread are scheduled and timers fire.  Nothing   *)
(* is assumed of the backend: see BackendReturns.                          *)
FairSpec ==
    /\ Spec
    /\ \A j \in Job : WF_vars(~Exited /\ SubmitStep(j))
    /\ WF_vars(~Exited /\ wpc \notin BackendCalls /\ WorkerStep)
    /\ WF_vars(Deadline)
    /\ WF_vars(Leave)

-----------------------------------------------------------------------------
(* Properties. *)

Labels == {"poll", "receive", "start", "export", "publish_schema", "write_schema",
           "publish_data", "write_data", "stage_schema", "stage_data", "snapshot",
           "check_copy", "import", "replied", "unwinding", "ended", "gone"}

(* The flags, channel, calls, worker and files have the values the code    *)
(* gives them; the worker has a job exactly while it runs one.             *)
TypeOK ==
    /\ accepting \in BOOLEAN /\ stop \in BOOLEAN /\ completed \in BOOLEAN
    /\ queue \in Seq(Job) /\ connected \in BOOLEAN
    /\ main \in {"running", "stopping", "draining", "closing", "exit0", "exit1"}
    /\ http \in {"open", "closed", "failed"} /\ stdio \in BOOLEAN
    /\ pc \in [Job -> {"idle", "admitted", "permitted", "reserved", "sent", "answered"}]
    /\ request \in [Job -> Request \cup {None}]
    /\ held \in [Job -> SUBSET Guard]
    /\ answer \in [Job -> Verdict \cup {None}]
    /\ named \in [Job -> SUBSET Slot]
    /\ wpc \in Labels
    /\ job \in Job \cup {None}
    /\ (job = None) = (wpc \in {"poll", "receive", "ended", "gone"})
    /\ staged \in [Job -> SUBSET Slot]
    /\ copy \in Content \cup {None}
    /\ dest \in [Job -> [Slot -> {"absent", "partial", "whole", "foreign"}]]

(* The semaphore makes of the unbounded channel a queue of capacity one:   *)
(* one permit, at most one job queued, and none while another is at work   *)
(* (DESIGN 9a; migration.rs, "capacity-1 admission").                      *)
CapacityOne ==
    /\ \A i \in HolderOf("permit"), j \in HolderOf("permit") : i = j
    /\ Len(queue) <= 1
    /\ job # None /\ wpc \notin Finished => queue = <<>>

(* Who has the answer of a migration can ask for the next one: the permit, *)
(* the reservation and the session are all free by then, although the      *)
(* worker replies before it drops the job.                                 *)
AnsweredAreReleased == \A j \in Job : pc[j] = "answered" => held[j] = {}

(* What the backend is given to import can be cut into whole records,      *)
(* however often the caller's files change meanwhile.                      *)
ImportsValidated == wpc = "import" => WellFramed(copy)

(* validate_frames accepts exactly the files that can be cut into records: *)
(* no truncated or overflowing length, no short payload, nothing refused   *)
(* at the end of the file.  It says nothing of the state, so that the      *)
(* initial states are enough to evaluate it.                               *)
FramesAreRecords == Init => \A file \in Inputs : ValidateFrames(file) = WellFramed(file)

(* "Reconciliation and staging cleanup finish before guards release"       *)
(* (DESIGN 9a), with two exceptions the code makes: the copies of an       *)
(* import that succeeded, or that failed before its guard was made.        *)
StagingIsAccounted ==
    [][\A j \in Job : answer[j] = None /\ answer'[j] # None /\ staged'[j] # {} =>
           Asked(j, "import") /\ (answer'[j] = "ok" \/ copy = None)]_vars

(* A data file is only ever published beside a whole schema file, so that  *)
(* a partial publication is the schema alone, as the error says.           *)
DataFollowsSchema ==
    \A j \in Job : dest[j]["data"] \in {"partial", "whole"} => dest[j]["schema"] = "whole"

(* What an answer says of an export's files: success is both whole; a file *)
(* that is named is there and the export's own; and an error that leaves a *)
(* data file names the schema it stands beside.  (A file that is left      *)
(* because its staged source could not be opened or removed is not named.) *)
ReportIsTrue ==
    \A j \in Job : answer[j] # None =>
        /\ answer[j] = "ok" /\ Asked(j, "export") => \A k \in Slot : dest[j][k] = "whole"
        /\ Asked(j, "export") => \A k \in named[j] : dest[j][k] \in {"partial", "whole"}
        /\ dest[j]["data"] \in {"partial", "whole"} => "schema" \in named[j]

(* The process leaves with success, or waits for stdio to do so, only when *)
(* no job is half done, whatever panicked before.                          *)
CleanExitIsIdle == main \in {"closing", "exit0"} => job = None

(* A file somebody else put at a destination is never written or removed. *)
NoClobber ==
    [][\A j \in Job, k \in Slot : dest[j][k] = "foreign" => dest'[j][k] = "foreign"]_vars

(* Every job that was sent is answered, were it by the loss of its reply   *)
(* channel, unless the process leaves first or the backend never returns.  *)
BackendReturns == WF_vars(~Exited /\ RunJob)
EveryJobIsAnswered ==
    BackendReturns => \A j \in Job : pc[j] = "sent" ~> (pc[j] = "answered" \/ Exited)

(* A shutdown ends by the deadline at the latest, though a backend call    *)
(* hangs or its panic took the worker, unless stdio is all it waits for.   *)
ShutdownEnds == main = "stopping" ~> (Exited \/ (main = "closing" /\ stdio))

(* The supervisor keeps what MigrationService promises.  A job is over     *)
(* when it is answered; its turn ends with the reply, before its guards    *)
(* are dropped, or, if the worker panicked, with the reply channel.        *)
Phase(j) ==
    CASE answer[j] # None -> "over"
      [] answer[j] = None /\ job = j -> "running"
      [] answer[j] = None /\ job # j -> IF pc[j] = "idle" THEN "idle" ELSE "asked"
Mark(content) == IF content \in {"partial", "whole"} THEN content ELSE "none"

Service == INSTANCE MigrationService WITH
    phase <- [j \in Job |-> Phase(j)],
    kind <- [j \in Job |-> IF request[j] = None THEN None ELSE request[j].kind],
    turn <- IF wpc = "replied" THEN None ELSE job,
    verdict <- answer,
    mark <- [j \in Job |-> [k \in Slot |-> Mark(dest[j][k])]]

ImplementsService == Service!Spec
=============================================================================
