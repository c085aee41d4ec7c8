# A TLA+ development for typedb-mcp

typedb-mcp is an MCP server in front of TypeDB. Agents call tools; the server keeps, per
*application session*, which schemas the agent has read and at most one open transaction.
Everything hard in it comes from the fact that these sessions are shared: calls of one session run
concurrently, some tools touch the sessions of others, a reaper removes what is idle, and a native
thread keeps a session's guard for as long as a migration lasts.

Paths below are relative to the repository; `core/` stands for `crates/typedb-mcp-core/src/`.

## 1. Inventory

| part | source | state | operations | what is hard |
|---|---|---|---|---|
| Tool handlers | `core/tools.rs` | none of their own: a guard, a transaction in a local | `start_session`, `get_schema`, `open_read/write/schema`, `query`, `checkpoint`, `commit`, `rollback`, `read_once`, `create_database`, `delete_database`, `export_database`, `import_database` | a session's mutex is kept across network requests; checks made before a lock or a reservation; sweeps over all sessions |
| Helpers for embedders | `core/core.rs` | the same | `with_read_tx`, `with_write_tx`, `with_schema_tx`, `with_current_tx` | unlocks before the transaction is over |
| Session store | `core/session.rs` | map of sessions under one mutex; per session a FIFO mutex, `schema_seen`, `tx`, `expires_at` | `start`, `resolve_and_touch`, `all_sessions`, `remove`, `invalidate_schema_seen_except` | nested mutexes, clocks read before waits, purge against calls in flight |
| Reaper | `core/session.rs` | one instant per sweep | `run_reaper` | `try_lock` twice, stale instants |
| Coordinator | `core/coordinator.rs` | set of reserved names | `try_reserve`, `is_reserved`, drop | who still owns a name, and when |
| Migration supervisor | `core/migration.rs` | flags, a permit, a channel, a worker thread | `submit`, worker loop, `stop_admission`, `shutdown` | admission against shutdown, reply against release |
| Migration files | `core/migration.rs` | staged files, destinations | export, import, publication, cleanup | partial failure, other processes |
| Shutdown | `crates/typedb-mcp/src/main.rs` | phase, deadline | drain, clean or forced exit | half-done jobs |
| Error classifier | `core/error.rs` | none | an error of TypeDB or its driver to one of twenty classes | the order of its tests decides whether a transaction is kept |
| Envelope, next moves | `core/envelope.rs` | none | what an answer says of the session, and what it advises | an agent does what it says |
| TypeDB adapter | `core/typedb.rs` | the driver | open, commit, the result cap, ... | what TypeDB lets run together; boundaries |
| Connection | `core/connection.rs` | none after startup | TLS options, version policy | strings nobody expects |
| Rest | `core/config.rs`, `core/extensions.rs`, `core/diagnostics.rs`, ... | none | settings, reports | - |

Interactions: a transport calls a handler; the handler resolves its session in the store, locks it,
asks TypeDB, and answers with a snapshot of the session, for which it locks the session again. Schema
commits, imports and deletions then visit the other sessions. Migration tools hand the session's
guard, a permit and a name reservation to the worker in a `Job` and wait for a reply. The reaper and
`main` run beside all that.

What makes each part correct:

- handlers: one transaction per session; no transaction without the schema gate; a gate that became
  stale is closed again; a deleted database is not in use; every call is answered;
- store and reaper: only what expired is purged, only what is idle is reaped, nothing leaks, nothing
  is kept for ever, one busy session does not stop the others;
- coordinator: a name has one owner, and an owner that still needs it;
- migration: one job at a time, its guards kept until it is over and free when it is answered, no
  foreign file touched, only validated data imported, what an error says of the files true, no job
  lost, a clean exit never in the middle of a job, an end to every shutdown;
- classifier and envelope: a transaction TypeDB has ended is never kept, what an answer says of the
  transaction is true, its advice can be followed and gets the agent somewhere, a result is complete
  or refused.

`PROJECT.json` lists the hazards behind these, each with its line and the properties that cover it.

## 2. Modules

| module | models | state |
|---|---|---|
| `TxLifecycle` | abstract: a session's gate and slot; what any client may rely on | `gate`, `slot` |
| `ToolCalls` | the bodies of all handlers, interleaved, with the coordinator and the job's guards; implements `TxLifecycle` (`KeepsLifecycle`) | `lock`, `schema_seen`, `tx`, `reserved`, `job`, `exist`, a program counter per call |
| `SessionStore` | the two levels of mutexes as FIFO queues, the clock, `resolve_and_touch` and `run_reaper` statement by statement; handler bodies reduced to what they do with mutex and transaction | `now`, `live`, `inner`, `queue`, `expires_at`, `tx` |
| `Frames` | `validate_frames` as a function, and what a data file is | - |
| `MigrationService` | abstract: jobs served one at a time, one verdict each, schema before data | `phase`, `kind`, `turn`, `verdict`, `mark` |
| `Migration` | `submit`, the channel, the worker, the files of a job, the transports, the shutdown; implements `MigrationService` (`ImplementsService`) | flags, `queue`, `held`, `staged`, `dest`, `answer`, `named`, `main`, ... |
| `ErrorClass` | the classifier, over sets of error codes | - |
| `NextMoves` | the advice of each answer, as a set of calls | - |
| `Answers` | the handlers with their answers, one call at a time, and an agent that follows them | `sid`, `seen`, `tx`, `upstream`, `exist`, `reserved`, `stream`, `reply`, `faults` |
| `MCToolCalls`, `MCSessionStore`, `MCMigration`, `MCAnswers` | instances for TLC | |
| `ToolCallsProofs`, `LifecycleProofs`, `SessionStoreProofs`, `MigrationProofs`, `AnswersProofs`, `FramesProofs` | theorems | |
| `Recursion` | least elements, induction and the existence of recursive functions, for `FramesProofs` | |

**ToolCalls.** A call is a task at a label. An action is what it does between two points where
something else may run: a wait for a session's mutex, a request to TypeDB, the worker's reply.
`FetchSchema`/`InsertSchemaSeen` are the two halves of `do_get_schema`; `Open`/`OpenDone` the
check and the network open of `do_open_any` under one guard; `Commit`, `Checkpoint`, `Rollback` take the
transaction out of the session (`TakeTx`) and `...Done` ends it; `Sweep`/`SweepOne` is
`invalidate_schema_seen_except` and the loop at the end of `do_delete_database`; `CheckOwnTx`, `ScanOne`,
`Reserve`, `DeleteOk`/`DeleteFailed` are `do_delete_database`; `Migrate`, `JobReply`, `JobDropped` the
migration tools. `Reply` is the snapshot that every answer carries: it needs the session's mutex, also when
the handler still owns it. `read_once` stands for `with_read_tx` too, `query` for `with_current_tx`, and
`with_owned_tx` for `with_write_tx` and `with_schema_tx`. The gate, the slot and the reservation are the code's variables;
`stale`, `late` and `missed` are history: gates that stand for a schema older than a change. TypeDB is its databases (`exist`) and the rule that a schema transaction excludes
other writers (`CanOpen`); any request may fail, and then changed nothing.

**SessionStore.** `queue[s]` is the owner of a session's mutex followed by its waiters. `at` is the instant
`resolve_and_touch` reads before it waits for the session; `rnow` the one instant a sweep of the reaper
uses. `Tick` moves the clock up to `MaxTime`. With `Prompt = TRUE` a call waits less than the
time-to-live between that instant and its body; with `FALSE` it may wait longer, as a call
behind a long query can. The code does not enforce `Prompt`: the passing runs say what holds when it is kept, `orphan`
what happens when it is not.

**Migration.** `submit` is four steps, because `main` and the worker run on other threads. `held[j]` is
which of permit, name and session the job (or the call, before it is sent) still owns; `Drop` releases
them in the order of the fields of `Job`, after the reply. A call returns only when its
session's mutex is free, since its answer carries a snapshot. Each file step may fail, and leaves what
the code leaves: `Write` may leave a partial or a whole destination behind; `Stage` leaves staged files
that no guard owns yet. `named` is the files an answer's text names. The one step taken not to fail is
cleanup, which ignores errors: it is taken to remove its files. A backend call may hang, or panic, which
ends the worker thread and drops its job. Somebody else may create a destination while the worker has
the job (`CreateDestination`), and the input may hold anything at every read of it (`Snapshot`). HTTP
and stdio may each be unused from the start. Who ends earlier than `main` looks is taken to end when it
does. A running HTTP server that fails ends the process at once (`HttpEnds`); in the drain its
failure only turns the exit code. The drains of HTTP and of the worker share one deadline (`Deadline`),
at any time; `Leave` waits for stdio, after them.

**MigrationService** is what a caller may rely on: a job is asked for, runs alone, and ends in one
verdict that is never revised; an export completes its schema file before it touches its data file,
takes back nothing that is whole, and succeeds only with both whole. The refinement reads phase and verdict off
`answer`, `job` and `pc`, and the marks off `dest`, where a file somebody else made counts as none.

**Answers.** One agent, one session, one call at a time: an action is a whole handler under its lock,
except that `query` and `read_once` get the rows of their answer one by one (`Pull`) and are cut at the cap.
`reply` is the last answer: call, class, advised calls, the kind of transaction in the session when the
handler let go of it, rows kept and sent. `upstream` is TypeDB's side of the transaction: open, lost
without a word, or ended with an error the server was given. The errors of each stage are those of DESIGN.md
section 5, with causes from several families in the stack of a torn write. The agent follows advice;
its mistakes and the faults of others (a reap, an expiry, a lapse at TypeDB, schema commits,
deletions and reservations of peers) are bounded together by `MaxFaults`. `Home` is a database nobody
deletes. `held` is the slot at the moment the lock is let go; what other calls do between that and the
snapshot of the answer is not followed here.

Definitions marked "Slip" are not the code: each is a plausible mistake in the definition that follows it, used
to confirm that a property would notice it (`mutants` in `PROJECT.json`).

## 3. Runs

| run | instance | shows |
|---|---|---|
| `tool_calls` | 2 calls, 2 sessions, 1 database, all tools, symmetric | `TypeOK`, `OneTransaction`, `StaleGatesAreClosed`, `ReservationsAreOwned`, `NoHoldAndWait`, `KeepsLifecycle` |
| `tool_calls_live` | 2 calls, 2 sessions, `get_schema`, `open_*`, `checkpoint`, fair | `NobodyWaitsForItself`, `EveryCallReturns` |
| `session_store` | 3 calls, 1 session, read and write, time to 6, prompt | `TypeOK`, `UsedSessionsAreLive`, `NoOrphans`, `OnlyExpiredArePurged`, `OnlyIdleAreReaped` |
| `session_store_live` | 2 calls, 1 session, time to 4, fair | `AbandonedAreReaped` |
| `migration` | 2 jobs of either kind on 1 name, 2 contents, either transport, fair | `TypeOK`, `CapacityOne`, `AnsweredAreReleased`, `ImportsValidated`, `DataFollowsSchema`, `ReportIsTrue`, `CleanExitIsIdle`, `FramesAreRecords`, `NoClobber`, `StagingIsAccounted`, `ImplementsService`, `EveryJobIsAnswered`, `ShutdownEnds` |
| `answers` | 2 databases, cap 1, answers of up to 2 rows, 2 faults, fair | `TypeOK`, `KeptIsAlive`, `FlagIsTrue`, `AdviceFits`, `CapIsExact`, `KeepsLifecycle`, `AdviceConverges` |
| `owned_tx` | 2 calls, violated | `with_owned_tx` unlocks before it commits: two transactions in one session (DESIGN.md:155, 1204; `core.rs:548`) |
| `schema_fetch` | violated | a schema fetched before a change opens the gate after the sweep (DESIGN.md:160-166; `tools.rs:1013`) |
| `delete_scan` | violated | a transaction opened between scan and reservation is open when its database is deleted (DESIGN.md:761-764; `tools.rs:958`) |
| `migrate_guard` | violated | a migration tool called with a transaction open waits for its own guard for ever (`tools.rs:724`) |
| `orphan` | 3 calls, not prompt, violated | a call that waited longer than the time-to-live stashes a transaction in a session that was purged (DESIGN.md:184-187; `session.rs:190`) |
| `store_blocked` | 2 sessions, violated | `resolve_and_touch` holds the store while it waits for one session (`session.rs:97-99` against 157) |

Why the bounds are enough. The properties of the handlers are about one session seen by two of its calls,
or two sessions and one schema change; with 2 calls, 2 sessions and 1 database all of those meet,
and names only matter by being equal. The store's hazards need a call in the body, one in the queue and
one that purges, with the reaper: 3 calls on 1 session; blocking across sessions has a run with 2.
The clock passes the time-to-live twice. A third migration job would find the same permit and name taken as
the second. `FramesAreRecords` covers every file of up to five bytes over the bytes that matter, with
2 bits per byte and 5 per word in place of 7 and 64: as there, the last byte of the longest length has one bit left.
In `answers` an answer can be empty, exactly full and one too long; two faults let one hit while the agent still
deals with the other (three pass too, at four times the states), and the second database is the one a call can be
wrong about. The largest runs are `tool_calls` (611,520 distinct states), `migration` (412,742),
`tool_calls_live` (122,818) and `answers` (103,699).
Deadlock is checked in `answers` alone, where the agent can always go on; elsewhere calls may stop coming, time stops at its
bound, and the process exits.

Fairness. `EveryCallReturns`: strong fairness for taking a session's mutex, because tokio's `Mutex` is a
FIFO queue; weak fairness for steps a task, the driver or the worker completes on its own. No client has to
call and nothing has to be reaped. `AbandonedAreReaped`: the same for calls, for the store's mutex, the reaper's loop
and the clock. `EveryJobIsAnswered` and `ShutdownEnds`: weak fairness of the submitting tasks, of the worker thread outside the backend,
of the deadline's timer and of `main` once all it waits for has closed. A backend call may take for ever: that it ends is a hypothesis of
`EveryJobIsAnswered` alone; a shutdown ends without it. The wait for stdio after ctrl-c has no deadline in the
code, and `ShutdownEnds` names it as its exception. `AdviceConverges`: the agent goes on choosing among the
advised calls, TypeDB goes on answering, and whoever reserved a name lets go of it; which of the advised calls the agent picks
is left open. What the code does not give is not assumed: no promptness in `orphan`, no end of stdio.
`tool_calls_live` leaves out `delete_database` and the migration tools because they can wait for
themselves: `do_migration` with a transaction open, and `do_delete_database` when a transaction turned up in its own session
between its check and its scan (`tools.rs:948`). With either enabled `NobodyWaitsForItself` fails, as `migrate_guard` shows. `NoHoldAndWait`, in `tool_calls`, is what all tools keep: who waits for a
session's mutex owns none, but for those two refusals, so no two calls wait for each other in a circle.

Two invariants have companions that name an exception. `OneTransaction` sets aside the last step of `with_owned_tx`;
`AtMostOneTransaction` does not, and fails. `StaleGatesAreClosed` is about gates
that were open when the schema changed; `GatesStandForTheSchema` also covers a fetch in flight, and fails.

Also seen while modelling, without a run of their own:

- `read_once` and `with_*_tx` do not ask the coordinator, although DESIGN.md section 9a reserves names "across ... transaction-open paths";
- an import leaves the importer's own gate as it is, against DESIGN.md:828-829 ("invalidate target schema-seen state everywhere");
- `export_database` does not require a prior `get_schema`, against DESIGN.md:782-783 and README.md:49;
- a job sent by a call that passed the `accepting` check before the shutdown began may still be run, or be dropped with its reply channel;
- after ctrl-c `main` waits for stdio without a deadline;
- staged copies survive a successful import, and failures before the staging guard (`migration.rs:345`; DESIGN.md:983-984, README.md:53):
  the two exceptions `StagingIsAccounted` names;
- a published file whose staged source cannot be opened or removed is not named in the error (`migration.rs:577`, 592; README.md:49,
  DESIGN.md:790): set aside in `ReportIsTrue`;
- on `TransientConflict` and `UpstreamUnavailable` a query's answer advises to retry it as it is and says "No state was damaged"
  (`envelope.rs:636-644`), though `do_query` has dropped the transaction (so DESIGN.md:401-408); `AdviceFits` sets "retry" aside;
- a parse or type error of `read_once` says "Your transaction is still open": it has none;
- a `delete_database` refused for another session's transaction advises `query` and `commit` to a session that has none;
- the agent whose transaction was reaped is answered `NO_TX_OPEN`, where DESIGN.md:651 documents `IDLE_TIMEOUT`;
- a name of more than 128 characters passes `validate_database_name`, and `create_database` then answers for ever that it is
  busy: `try_reserve` refuses it as invalid and the two refusals are told apart nowhere;
- a commit that TypeDB applied and whose answer was lost is answered with "NO changes were persisted", and no peer is told (`tools.rs:1325`,
  DESIGN.md:253): its gate stands for a schema that is gone;
- `validate_server_version` looks at nothing after the second part, so `3.12.x` counts as tested (`connection.rs:103`, DESIGN.md:874), and refuses a stable version whose build has a hyphen in it (`3.12.0+a-b`).

## 4. Proofs

Each theorem says that `Spec`, for all values of the constants its module's assumptions admit, implies the property.

**ToolCalls.** `ToolCallsProofs` proves, for any finite or infinite sets of calls, sessions and databases and any
`Enabled` subset of the tools (assumption `ConstantsOK` of `ToolCalls`: `None` and `Worker` are neither calls nor
data), that `Spec` implies

- `TypeCorrect`: `[]TypeOK`;
- `OneTransactionHolds`: `[]OneTransaction`;
- `ReservationsHold`: `[]ReservationsAreOwned`;
- `StaleGatesHold`: `[]StaleGatesAreClosed`;
- `NoHoldAndWaitHolds`: `[]NoHoldAndWait`;
- `NobodyWaitsHolds`: `[]NobodyWaitsForItself`, if `Enabled` has neither `delete_database` nor `migrate`;
- `AtMostOneTransactionHolds`: `[]AtMostOneTransaction`, if `Enabled` does not have `with_owned_tx`.

The hypotheses of the last two are not conveniences: with those tools the properties are false, as the runs `migrate_guard` and
`owned_tx` show. The second is what the server itself offers, for only an embedder calls `with_owned_tx`; the first
says that no other tool has the flaw.

None is inductive alone. The first three follow from one inductive invariant,
`IInv == TypeOK /\ WellFormed /\ Discipline /\ Ownership`. `WellFormed` says which fields of a request are set at
which label; without it not even types are preserved, as an open writes `arg[c].kind` into the
session. `Discipline` is the locking discipline: a call at a label where the code keeps its guard owns its
session's mutex, a call that holds a transaction elsewhere than in `with_owned_tx`'s last step is at such a
label, and the slot is then empty. So two calls holding transactions of one session would own one mutex.
`Ownership` adds to `ReservationsAreOwned` that the job's call is still waiting or answering.
`StaleGatesAreClosed` needs `GInv == IInv /\ GatesAreListed /\ StaleGatesAreClosed`: a session that has an open
gate is in the store, hence on the list a sweep starts from. The waits need `HInv == IInv /\ Owners`: the
owner of a mutex is a call at work under the guard of its own session, or one of the two refusals. `Discipline` says that a call at such
a label owns its mutex, `Owners` the converse: every way out of a handler gives the guard back before the answer's snapshot asks for it. Each step of the proof is one action
of the model; frames are shared through lemmas about `Take`, `TakeTx`, `Over` and `SchemaChanged`. The invariants were checked by TLC on the
instance of `tool_calls` before they were proved.

`LifecycleProofs` proves `LifecycleKept`: `ToolCalls` implements `TxLifecycle`. Each action changes the gate and slot of at most the
sessions it locks, and every change is a step of the lifecycle. That needs `LInv == IInv /\ GatesStand`: the gate
that an open found is still open when the transaction arrives, because a sweep needs the mutex the open keeps; a checkpoint's
request names the database and kind it holds; `with_owned_tx`'s last step owns no mutex.

**SessionStore.** `BaseInv` is the store's discipline: who is in the store's section found its session in the map, who is in a body
owns the session's mutex, clocks that were read are not ahead of time, a refresh sets an expiry that is not earlier than the one
promised to anyone who resolved the session, and what a purge is about to remove is still expired. It gives `TypeCorrect`,
`ExpiredArePurged` and `IdleAreReaped` without an assumption on timing. `UsedAreLive` and `PurgedAreReleased` are
stated under `ASSUME Prompt`, with `PromptInv`, which adds that whoever is between its instant and its body is
within the time-to-live of it: without `Prompt` both are false, as `orphan` shows.

**Migration.** One inductive invariant, `IInv`: types; `GuardInv`, what a call holds and has heard at each of its places, and that
queue and worker share one permit; `FileInv`, nothing is staged, named or published for a job before the worker has it, and what
the job in hand has made follows from where the worker is; `ShutdownInv`, the worker is past its last job when the
shutdown is told so. From it: `TypeCorrect`, `QueueHoldsOne` (`CapacityOne`), `ReleasedBeforeAnswer` (`AnsweredAreReleased`),
`SchemaBeforeData` (`DataFollowsSchema`), `AnswersAreTrue` (`ReportIsTrue`), `ImportsAreFramed` (`ImportsValidated`), `CleanExit`
(`CleanExitIsIdle`), `ForeignFilesStay` (`NoClobber`), `StagingAccounted` (`StagingIsAccounted`) and `Refinement`
(`ImplementsService`, step by step). `FramesAreDecided` is `FramesAreRecords` for
every set of files. `ImportsAreFramed` and it rest on the next paragraph, and need no hypothesis on what the code's check accepts.

**Frames.** `ValidateFramesExact`: for every file, `validate_frames` answers ok exactly if the file is a sequence of records,
for all widths that `WidthsOK` admits (7 and 64 in the code: a word is some bytes' worth of bits and one more). `WellFramed` does not
mention a loop: the file can be cut so that what lies between two neighbouring cuts is one varint, whose value fits the word, and
that many bytes. Up to `VarintRead` the inner loop is followed along a varint: after k bytes it has the value of the first k, by induction
on k; what it shifts out of the word is nothing as long as the test at the last byte lets it pass (`LongerIs`); and where there is no varint
it refuses. `ReadRecordsExact` is an induction on the bytes left: `OneMoreCut` and `OneCutLess` add and remove the first record.
The library's induction and recursion theorems take an operator as a parameter, which these provers cannot instantiate. `Recursion`
replaces them by first-order ones, over a set and a function: `LeastElement`, from the library's fact that inclusion is
well founded on finite sets; `Induction` and `CompleteInduction` from it; and `Recursion`, that an equation whose calls decrease some
measure has a solution, so that the function `CHOOSE`s in `Frames` do satisfy their equations.

**Answers.** `IInv` relates the slot, TypeDB's side of it, the stream being read and the last answer. Its core is a fact about the
classifier: every error that ends a transaction is `Deadly`, that is, classified as not retriable whatever the codes
of its cause, because the markers of torn pipelines and of commits are tested first. Hence
`DeadAreDropped` (`KeptIsAlive`), and with the advice table `FlagHolds`, `AdviceHolds`, `CapHolds` and `TypeCorrect`.
Its `LifecycleKept` proves `KeepsLifecycle`: `Answers`, one call at a time with every answer TypeDB can give, implements `TxLifecycle` as
`ToolCalls` does with all interleavings and none of the answers, so the two models of the handlers agree on what a session is. Here the
session may also leave the store and its agent start another, which is the one step `TxLifecycle`'s `AgentSpec` has beyond `Spec`.

Only model-checked: liveness (`EveryCallReturns`, `AbandonedAreReaped`, `EveryJobIsAnswered`, `ShutdownEnds`, `AdviceConverges`), which
like `ENABLED` is outside this prover. Every invariant and action property that a passing run checks is proved, `NobodyWaitsForItself` for the tools of its run.

## 5. Not modelled

Wording and JSON of answers, how error codes are found in a text, configuration parsing, TLS, the version policy
(a pure function at startup), the wiring of the transports, logging,
session extensions, diagnostics, the rmcp and axum machinery, the example server, release scripts: no state or control
that a property here could be about. A task cancelled in the middle of an await is not modelled, nor a process that removes
files it does not own, nor what stays on disk after a crash, nor a commit that
TypeDB applied and whose acknowledgement is lost. The checks of paths, of the schema text, of free space and of
hashes in `migration.rs` are steps that may fail. Sessions are in memory: nothing survives a crash, so there is no
recovery to model.

## 6. Plan

Done: `TxLifecycle`, `ToolCalls`, `SessionStore`, `Frames`, `Migration`, in that order: the agent's promises first, then the mutexes
and clocks under them, then the worker; then `MigrationService`, `ErrorClass`, `NextMoves`, `Answers`; proofs about all that keep state and about `Frames`.

Left: in `Answers`, the snapshots taken after the lock is dropped, which need the other sessions' calls; in `ToolCalls`, commits,
deletions and imports that TypeDB applied and whose answer is lost, with what the peers' gates then stand for; `validate_server_version`; `valid_name` against `validate_database_name`; the crash of a migration between staging and
publication.
