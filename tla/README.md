# A TLA+ verification of agent-claim-network

An *agent* holds sessions with a user and distils what it learns into *claims*.
When a session ends, or its history is compacted, a **Recap** turns its messages
into claims; a background process, the **Supervisor**, runs this work after the
TUI has gone. *Dream* consolidates claims in the background. Every claim version is
uploaded to the team's **Maintainer**, which mirrors it, detects disputes and
sends their resolutions and withdrawn policies back through the agent's *inbox*.

This project models the places where that work can be lost, done twice or done in
the wrong order:

1. the life of a session, from the TUI through the Supervisor's persistent job
   queue to a recapped and closed session, and back again when the user resumes
   it while it is being finalized (`Supervisor.tla`);
2. the way of a claim version, from one of its writers through the files of the
   agent and the upload queue to the mirror (`UploadQueue.tla`,
   `KnowledgeApply.tla`, `MaintainerUpload.tla`);
3. a dispute on the Maintainer, from its report through analysis, adoption or a
   person's decision to the delivery of the resolution (`Arbitration.tla`), and the
   scheduler that feeds the analyses to their worker (`AnalysisQueue.tla`);
4. the messages of the Maintainer to an agent, from the outbox to their effect on
   the agent's claims (`InboxDelivery.tla`, which implements `InboxAbstract.tla`);
5. the subagents of a session (`Delegation.tla`);
6. the connection to an MCP server (`McpConnections.tla`).

Every module is checked by TLC on small instances; `SupervisorProofs.tla`,
`KnowledgeProofs.tla`, `UploadProofs.tla`, `ArbitrationProofs.tla`,
`AnalysisQueueProofs.tla`, `InboxProofs.tla`, `McpProofs.tla` and `DelegationProofs.tla`
prove properties for all values of the constants.

`PROJECT.json` lists components, runs, mutants, hazards, theorems and, under
`map`, the source lines of every definition. Paths in this file are relative to
`src/src/` of the repository.

## 1. Inventory

| Component | State | Operations | What makes it correct |
|---|---|---|---|
| Supervisor (`supervisor.rs`) | `supervisor/jobs/*.yaml`; in memory the lifecycle gate, the registered running job with its preemption control, the worker's own copy of the job | IPC: Enqueue, Retry, Resume takeover, CreateRecap, Shutdown; the worker loop; start-up reconciliation; idle stop | one unresolved Finalize per session; attempts within the budget; a Recap settled as "subsumed" is never work lost; a waiting resume is answered |
| Finalize and Recap engine (`agent/session_engine/finalize.rs`) | `finalize_checkpoint.yaml`, `finalize.lock`, recap cursor | prepare, apply, advance the cursor, close; recover a prefix or a whole range after a crash | a session closes only fully recapped; a covering checkpoint is applied, not redone |
| Session store (`session/mod.rs`) | `session.yaml` (status, message count, cursor), runtime lease | append, mark Finalizing, Open, Closed, reserve | a session in use is Open |
| TUI life cycle (`session_tui/app.rs`, `runtime.rs`) | lease, step of the exit or resume | exit, enqueue or finalize in the foreground, resume a Closed or Finalizing session | never enters a session somebody else is finalizing |
| Local claims and writers (`agent/claims.rs`, `claim_alignment.rs`, `session_engine/finalize.rs`, `session_engine/dream.rs`, `inbox.rs`) | claim files, `claim_edit_pending.yaml`, the two checkpoints, `dream_pending.yaml`, the dispute ledger | edit, apply a checkpoint, commit a Dream, withdraw a policy; recovery of each | no version is overwritten unread; a source is not deprecated before its successors exist |
| Upload queue (`agent/maintainer_upload.rs`, `consolidation_delivery.rs`) | `maintainer_uploads/pending.yaml`: claims, durable marks, disputes, dependency groups, acknowledged carriers | stage, rebind, deliver, reconcile | what the mirror lacks is queued; a consolidated source is retired in the mirror after its carriers; the mirror never goes back |
| Inbox (`agent/inbox.rs`, `agent/fs.rs`, `maintainer/outbox_io.rs`) | outbox entries with receipts; pending, leased and done files; the effect journal | publish, deprecate, suggest; pull, accept, acknowledge; claim, process in batches, release, recover a stale lease | a message on the disk is never lost; a receipt means it is there; an update takes effect once; everything received is done |
| Arbitration (`maintainer/arbitration/`) | dispute, current analysis, resolution record, pending deliveries, outbox | report, create, analyse in phases under a lease, adopt, resolve by a person, reject and replace, deliver, recover | decided once; decided on what was read; whatever is decided reaches every holder and nothing else does |
| Analysis queue (`maintainer/arbitration/worker.rs`, `server/api.rs`) | bounded channel, placeholders, ready and delayed entries, recovery wake | enqueue, cancel, scan the disk, run, park, retry, restart | an unfinished analysis is in the queue or certain to be found; never twice |
| Delegation (`delegation/`, `tool/delegation.rs`) | metadata of each subagent; queue, slots, tasks, activity revision | create, register, pump, execute, complete, abandon, wait | no subagent nobody runs, none outlives its session, results are final, a wait is answered |
| MCP connections (`mcp/connection_manager.rs`, `mcp/client.rs`, `session_tui/mcp_panel.rs`) | generation, status, client, attempts with release fences, quarantine, configuration file | refresh, enable, disable, reconnect, report a failure, shut down | an outdated connection is never installed; the last toggle wins; two sessions with a server do not overlap; every operation ends |
| Process manager, read state (`tool/process`, `tool/read_state.rs`) | background processes, completion cursor; what a tool has read | spawn, poll, edit after read | no completion lost; no edit over an unread version (not modelled) |
| Turn journal, session cleanup, Responses websocket, turn loop, router, storage, search, config | | | see section 11 |

How they interact: the TUI talks to the Supervisor over a Unix socket; both
write `session.yaml`, the checkpoint and the claims, and are kept apart by the
runtime lease (one process per session), `finalize.lock` (one finalizer per
session) and the knowledge lock (one writer of claims per agent). Inside the
Supervisor the handlers run under one mutex, the lifecycle gate; the worker takes
it only to pick a job and to convert one. Every writer of claims stages what it
wrote in the upload queue; a single-flight delivery empties it. The Maintainer's
requests and its two workers share the files of a dispute under one lock per
dispute; it reaches an agent through the outbox, which the agent's processes pull
and acknowledge over HTTP, and what an inbox message changes goes through the same
knowledge lock and upload queue as every other writer. A finalize abandons the
subagents of its session before it closes it.

The hard behaviours: handler and worker hold different copies of a job; the
preemption control decides between a resume and the Prepared boundary; each
process can die between any two writes; a reply may be lost after the request was
carried out; a plan (checkpoint) may be resumed on claims that changed meanwhile;
versions are staged while earlier ones are in flight, fail or are refused; the
delivery order must follow chains of consolidations; an operation on a dispute writes
up to six files and can be cut after each; leases expire under slow processes;
requests are cancelled between their two halves. `PROJECT.json` lists 40 hazards at
their lines with the properties that cover them.

## 2. Supervisor.tla

**State.** On disk: `sess` (status, messages, cursor), `ckpt` (range and status of
the finalize checkpoint), `jobs`. In memory of the Supervisor, lost when it dies:
`gate` (which handler holds it and what it has read), `running` (registered job,
phase of the preemption control, cancellation token, result in the channel), `wk`
(the worker's step and *its own copy* of the job record). `lock` is the holder of
each `finalize.lock`, `client` the step of the process that holds the runtime
lease. `applied` is a history variable: how often the recap of each message took
effect. `faults` counts crashes and failed writes. Six switches say which
disturbances an instance has: `Crashes` (the Supervisor is killed; a TUI may be killed
in any case), `WriteErrors`, `Foreground`, `TornReads`, `UserRecaps` and `ExitRetries`.
`acn supervisor retry` asks for neither the runtime lease nor the TUI, only for the
status of the session and, for a moment, for `finalize.lock` (`supervisor.rs:2468`), so it
may come at any time; `ExitRetries` says whether it may also come while the TUI of that
session is on its way out. *faults* and five of the theorems allow it; the four properties
about cycles are stated without it, because all four fail with it (section 9).

**Actions** carry the source's names.

- TUI (`ClientStep`): `append_messages`, `mark_session_finalizing`,
  `finalize_without_job`, `enqueue_unavailable`, the foreground finalize
  `fg_*`, and the resume: `reserve_runtime_session`, `reconcile_skipped` (no
  supervisor answers), `mark_open`, `complete_finalizing_resume`,
  `wait_for_resume_finalize_job`, `client_crash`.
- Handlers are two steps, a request that takes the gate and reads the session, and
  the rest; with `TornReads` the worker may write in between, because it does not
  take the gate for most of its writes. `resume_finalizing_takeover` is one action
  per branch: `resume_not_unique`, `resume_closed`, `resume_open`,
  `resume_orphan`, `resume_checkpointed`, `resume_running`, `resume_convert`, and
  `open_finalizing_session_for_resume` with its rollback.
- Worker: `pick_job`, then `run_job` write by write (`publish_running`,
  `defer_job`, `charge_attempt`, ...), the engine (`enter_session`,
  `lock_session`, `recover_current_recap_checkpoint_prefix`, `finalize_segment`,
  `commit_prepared`, `apply_finalize_checkpoint`, `commit_segment`), the end of the
  attempt (`finish_attempt`, `convert_finalize_job`, `open_converted_session`,
  `write_succeeded`, `write_failure`, `report_failure`) and `job_write_fails`.
- Process: `start` with the reconciliation of stale jobs, the two ways to stop,
  `crash`.

**Abstraction.** A session's messages are a count, a checkpoint is its range and
status (how it is applied claim by claim is section 3), job files are records
without times, errors and settings. A session without messages is deleted by the
code and is left out. Dream appears only as the recovery that precedes every
session job and may defer it. The foreground finalizer runs the worker's
algorithm in coarser steps.

## 3. UploadQueue.tla, KnowledgeApply.tla, MaintainerUpload.tla

A claim version is `[id, v, dep, by]`: identity, its place in the strictly
increasing update times (`next_claim_update_at`), deprecated or not, last writer.
The code compares contents and times; two versions with equal `id` and `v` have
the same content here.

`UploadQueue` holds the pure functions of the queue: `merge_pending_uploads`, the
four ways to stage, `rebind_consolidation`,
`reconcile_pending_uploads_after_attempt`, and of `consolidation_delivery.rs`
`ready`, `acknowledge`, `supersede`, `prune`. A group says that a source `before`
is replaced by `retired` and that `carriers` hold its knowledge; the retirement is
ready when each carrier has been acknowledged as it is, or was itself consolidated
and its own carriers are ready.

`KnowledgeApply` (specification `KSpec`) has the writers, each under the knowledge
lock and write by write:

- edit: recover a pending edit, journal, write, stage, clear;
- recap: prepare, discard the checkpoint if its analysis is stale, apply claim by
  claim with progress saved after each, stage, ledger, mark applied;
- dream: prepare outside the lock, write `dream_pending`, check the group for
  conflicts, apply, stage with its dependencies, finish, clear; `review_sync`
  later rebinds a dependency to other carriers;
- policy: deprecate the claims of a withdrawn policy, stage them free of
  dependencies, acknowledge the message.

A writer that finds nothing to do ends (`give_up`), and `writer_crash`, a crash or
an I/O error, may strike at every step. While `dream_pending` is set all other writers refuse to work.

`MaintainerUpload` (specification `Spec`) adds the delivery: a snapshot of the
queue, a refresh of claims with dependencies, rounds of concurrent requests, each
of which succeeds, fails with or without having been executed, or is refused
(`AuthErrors`), then disputes, then the reconciliation of the file, which may
have changed. The maintainer is external: it stores the version it receives.

**Abstraction.** One Dream checkpoint at a time, with one consolidation group that
has one source; one policy; one recap plan. Older checkpoint formats, traces,
other kinds of Dream groups and claims internalised from arbitration are left out.

**Assumption.** A request the client has given up on is not executed after a later
one. The Maintainer compares no versions (`maintainer.rs:405`), so without it
`MirrorMovesForward` could not hold; the hazard list records this.

## 4. Arbitration.tla, AnalysisQueue.tla

`Arbitration` is one dispute. On disk: `decided` (the resolution in the dispute
record), `analysis` (the current one), `record` (the resolution file), `pending`
(pending deliveries), `outbox`, `noted` (observation targets). `world` is the version
of the claims and policies an analysis reads. An operation decides everything under
the dispute lock and then writes its files in a fixed order: `op.todo` is what it has
still to write, one action per file (`write_intent`, `persist_pending_delivery`,
`write_resolution_record`, `write_dispute`, `preempt_current_analysis`,
`ensure_outbox_entry`, `register_observation`, `remove_pending_delivery`,
`write_adopted`), and `cut` (a failed write or a dropped request) or `crash` ends it
after any of them. Workers walk an analysis through its phases with a fencing lease
(`prepare_context` ... `save_verification`, `start_reanalysis_round`), adopt it in two
locked sections with the context built again in between (`adopt_approved`,
`adopt_recheck`), or recover an adoption that was cut. `resolve_human` and
`reject_and_replace` are a person's decisions; the event worker
(`recover_pending_delivery`, `complete_analysis_adoption_after_delivery`,
`persist_retry`) finishes what is pending. A scan that fails, or a retry that can neither
be read nor written, ends the event worker (`scheduler_ends`); the server goes on without
it and never starts another (`server.rs:119`).

`AnalysisQueue` abstracts an analysis to whether a run is still owed to it and models
the scheduler: a handler saves the analysis, then enqueues it in two looks at the
placeholders with a reserved place of the channel in between, and may be cancelled at
each point; the consumer boots from the disk, scans it when woken and when there is
room, takes due entries, runs, retries or parks them. A scan (`recoverable_jobs`) may leave
out any entry, since one that cannot be read or decoded is logged and skipped while the
scan succeeds (`store.rs:168`); `skipped` remembers what the last scan left out although
nobody holds it. `scan_fails` ends the consumer, as the code does; `restart` loses
everything but the disk. An adoption is `adopting` until its pending delivery is on disk
and `delivering` after that: the event worker (`deliver_pending`) sees only the latter,
because the server starts it without adoption recovery when arbitration is enabled
(`server.rs:81`), and may end (`scheduler_ends`); one that was cut earlier is left to the
scan of the analysis queue.

**Abstraction.** What an analysis says is left out; its context is the version of the
world it was built from. The files a context reads are read at one moment. One
server process; more workers are possible through `Workers`. Retry delays are left
out: `expire` lets a deadline pass at any time the consumer can notice.

## 5. InboxAbstract.tla, InboxDelivery.tla

`InboxAbstract` is the promise: a message once kept is kept, a receipt is given only
for a kept one, and a message is done only once its outcome is durable.
`InboxDelivery` is one agent with several processes: the Maintainer's
`publish_new_policy`, `deprecate_policy` and `claim_update_suggestion`; the round of
a process: `pull_inbox`, `accept_pulled` and `write_pulled` (a check and a write
without a lock), `ack_inbox`, `claim_pending` with the recovery of stale leases,
`claim_message`, then batches by kind in the order of the messages, each under the
knowledge lock: `internalize_inbox_updates` and `stage_maintainer_batch` for
policies, the effect journal (`load_effect_batch`, `prepare_effect`,
`repair_effect_refs`, `apply_effect`, `mark_effect_applied`) for updates from a
dispute, `apply_policy_deprecation`; and `ack_claimed`, `remove_processing`,
`release_claimed`. A request may be lost or executed without an answer, a process may
die at every step, and `time_passes` makes leases old, also those of a slow process.

`NothingIsLost` says that `InboxDelivery` implements `InboxAbstract` under the mapping
`sent <- Created, kept <- {m : HasCopy(m)}, receipts <- delivered`, with `settled` and
`done` as they are.

**Abstraction.** The scan of the inbox directory is one step. The locks on single
effect files are covered by the knowledge lock, which is taken around them. The claim
made from a message is its id and whether it is active. `Delayed` allows a message to
arrive while an older one is being processed in company. A broadcast update or
deprecation of a policy is offered under the conditions of `pull_inbox`
(`maintainer.rs:516`); a claim update counts as addressed to this agent, so that the
withdrawal of the policy behind a *broadcast* claim update before it is offered is left
out.

## 6. Delegation.tla, McpConnections.tla

`Delegation`: `status` and `sess` are on disk, everything else dies with the process.
`create_subagent` holds `session.lock` until its registration answers; the
registration is a task of its own that survives the cancelled turn
(`RegisterDir` ... `RegisterPush`, `RegisterUndo`). The pump takes candidates while
slots are free (`PumpNext`, `PumpStart`, `PumpStartFails`, `PumpMark`); a task begins
its checkpoint, executes, completes in two writes, settles the checkpoint and
releases its slot. A finalize marks the session, abandons what is unfinished
(strictly) and closes it, which abandons again (best effort); a resume abandons what a
dead process left. The mark may also fail behind the status change, when the completion of
a background process cannot be saved (`finalize.rs:302`), with nothing abandoned.
The Supervisor's finalize is a second actor (`SupervisorFinalize`, `SupervisorAbandon`,
`SupervisorClose`, `SupervisorStops`): it runs in a process of its own whose runner is
empty, so it changes the files and nothing else; queue, tasks and watchers of the session's
process are emptied by that process alone (`abort_all_in_memory`, `runner.rs:553`).
`finalize.lock` keeps it apart from the process's own finalize, not from the mark.
`LateSweeps` lets a resume overtake the best-effort abandon that follows its close.
`wait_subagents` subscribes, chooses its ids (named by the caller, or all active ones) and
whether one or all must be terminal, looks and sleeps. Steering messages,
progress, transcripts and compaction are left out. `abandon_generation` is left out
because the abandon holds `pump_lock` from end to end, so the pump never sees it move. The
Supervisor's best-effort abandon is not held to a list it read; that it can mark an *open*
session Finalizing through an orphan job belongs to `Supervisor` (section 9) and is not
repeated here.

`McpConnections`: one server. A request of the panel (`BeginRequest`) moves the
generation, takes the client out and cancels the attempt at once; its task waits for
the transports it replaces, takes the configuration lock, checks, writes and connects
(`AwaitAttempt`, `Fence`, `Close`, `Lock`, `Read`, `Check`, `Write`, `TurnOff`,
`BeginConnect`, `Dial` ... `Apply`, `Finish`). Transports settle on their own
(`Settle`), a failure report removes the client it names, `Shutdown` ... `Exit` end the
process. The panel's copy of the status is taken to be current (it lags only
between Ready and Failed, which offer the same requests), and OAuth is left out.

## 7. Runs

Each of the twelve runs finishes in under five minutes; eleven pass, and *reopen* shows
a disagreement between the code and what it says of itself. Deadlock is checked except
in *policy*, *arbitration*, *analysis_queue*, *mcp* and *delegation*, where the system
may come to rest: everything is delivered, decided, analysed, closed or shut down.

| Run | Instance | Distinct states | Checks |
|---|---|---|---|
| sessions | 1 session, 3 jobs, 3 messages, 1 crash of a TUI; no retry by hand during an exit | 10.7 M | `OneUnresolvedFinalize`, `LiveSessionIsOpen`, `ClosedIsRecapped`, `RecapWorkKept`, `TakeoverKeepsWork` |
| faults | 1 session, 2 jobs, 1 message, 1 fault: crashes, write errors; foreground finalizers, torn reads, retries by hand at any moment | 900 k | `TypeOK`, `BudgetRespected`, `FinalizeHonoursCheckpoint`, `AwaitEnds` |
| reopen | 1 session, 2 jobs, 2 messages, 1 crash of the Supervisor | stops at 35 k | `ReopenedIsSettled`, which is violated (section 9) |
| plans | `KSpec`, 2 claims in 3 versions, one under the policy, all writers, 1 fault | 5.6 M | `EditsKept`, `SuccessorsFirst` |
| sync | 1 claim in 3 versions, 1 dispute, edit and recap, 2 faults, refusals | 950 k | `UnsyncedIsQueued`, `DisputeKept`, `MirrorMovesForward` |
| policy | 3 claims in 2 versions, one under the policy, dream, rebind and policy, symmetry of the others | 3.1 M | `WithdrawnIsNotHeldBack`, `SourceKeptUntilCarried` |
| arbitration | 1 worker, 1 person, 2 holders, 2 analyses, 3 resolutions, 2 changes of the inputs, 2 faults (cuts, crashes, end of the event worker), automatic adoption | 272 k | `HoldersAreTold`, `OnlyDecisionsAreSent`, `AdoptedIsDone`, `AdoptsWhatItRead`, `DecisionsStand`, `DecidedIsDelivered`, `AdoptionEnds` |
| inbox | 2 processes, 2 messages, 1 policy, 2 claims, 1 fault, symmetry | 3.0 M | `EffectsOnce`, `NothingIsLost` (refinement) |
| inbox_live | 1 process, 2 messages, 2 faults | 73 k | `ReceivedIsDone`, `SentIsReceived` |
| analysis_queue | 2 jobs, 2 requests, capacity 1, 1 stall, 1 repeated request, 1 fault: failed or incomplete scan, end of the event worker, restart | 539 k | `QTypeOK`, `OneTicket`, `NeverForgotten`, `AnalysisEnds` |
| mcp | startup and 3 requests, 1 retry, 2 faults | 1.0 M | `ClientIsCurrent`, `LastToggleWins`, `AdmittedAlone`, `OperationsEnd` |
| delegation | 2 subagents, 1 slot, 1 resume, 1 fault, the supervisor beside the session's process | 1.0 M | `NoOrphans`, `ClosedIsQuiet`, `CommittedIsCompleted`, `RegisteredEnds`, `WaitIsAnswered` |

On the same instances TLC also confirms the type invariants `UTypeOK` (and
`UnsyncedIsQueued` in *policy*), `ATypeOK`, `ITypeOK`, `CTypeOK`, `DTypeOK`, and
`AwaitedJobIsRunning`, `RecordIsBacked`, `ProgressIsReal`, `ExitStopsAll`,
`SlotsRespected`, `TerminalIsFinal`, and `JournalAgrees` in *inbox_live*; they are one
line in the configuration each, and left out of it because they say less than the
ones listed or are proved (all types, `AwaitedJobIsRunning`, `RecordIsBacked`,
`SlotsRespected`, `TerminalIsFinal`, and `UnsyncedIsQueued` where `MarksDecide`). The
properties of *delegation* also hold with `LateSweeps`: safety on the same instance (2.0 M
states), liveness without faults (430 k states).

**Why the bounds are enough.** `MaxAttempts` of the Supervisor is 2 instead of 5: one
failure that leaves an attempt and one that does not. Three jobs give a Recap, the
Finalize that preempts it, and its conversion or the Finalize of the next cycle. Two
messages give a checkpoint that covers a prefix of the backlog and one that covers all
of it; a third is appended in the cycle after. *faults* makes do with one message, since
what it asks about ranges is proved for any number of them, and with two jobs, enough for
the handlers to meet two unresolved Finalize jobs, which a lost reply can produce. The
bound on jobs is in the guards of the steps that create one and stops nothing else. One
session is enough for TLC: sessions meet only in the worker, which keeps one waiting
while it runs another, and the theorems of section 10 state all properties of *sessions*
for any number of them. Three versions of a claim are the analysed one, a concurrent
edit and a target; two claims a source and a carrier; three claims a chain of
consolidations, and a source with two carriers. In *arbitration*, three resolutions are
an automatic one, a person's that overtakes it and one that rejects and replaces it; two
holders let a delivery be cut between them; two changes of the inputs let them change
during a round and again during its repetition. Two inbox messages are a batch that can
be cut, or a policy and its deprecation. The analysis queue has fewer places than jobs.
Three panel requests are an operation, the one that overtakes it, and one that waits for
both; two faults fail a connection and the close that follows. Two subagents and one
slot make one wait for the other. One fault stops any step and is followed by a full
recovery; with two a recovery is itself interrupted.

**Symmetry.** Claims are interchangeable when all exist at the start and are not
under the policy; processes of one agent are. Only safety is checked under
symmetry.

**Fairness.** In every module requests, exits, faults and the decisions of people are
never assumed to happen.

- *faults*: weak for the handler that holds the gate and for a foreground finalizer
  that holds `finalize.lock`, since nothing stops either; strong for the worker, whose
  steps other processes can disable again and again but not forever: the gate is a
  tokio mutex, first come first served, and the worker waits for the file lock in a
  blocking call. A resume that waits is answered also when the Supervisor dies: the
  connection breaks.
- *arbitration*: weak for the writes of an operation that holds the lock, for the
  event worker until it ends and for each analysis worker: both loops take up what they
  find. The event worker may end for good as a fault; nobody is assumed to restart the
  server.
- *inbox_live*: weak for the round of a process in steps that do not fail (a session
  start runs a round, and sessions keep being started) and for time.
- *analysis_queue*: weak for the consumer, for the event worker until it ends and only on
  adoptions whose delivery is pending on disk, and for handlers that are not cancelled; strong for a deadline to pass, since the consumer is busy in between.
- *mcp*, *delegation*: weak for the tasks of the runtime as a whole, which is as strong
  as for each because what is under way is finite; a waiter has its own condition, and
  its deadline is not assumed to come. Nothing is assumed of the Supervisor's finalize.

**Every property has a mutant** in `PROJECT.json`: a plausible slip in one mapped
definition (a dropped guard, a swapped order, a missing reset) that TLC must catch
under the same configuration. Mutants are defined just before their originals and
used nowhere else.

## 8. What the properties say

Sessions and jobs: `OneUnresolvedFinalize` and `LiveSessionIsOpen` are the promise
that an old job never acts on a new cycle. They hold over any number of exits and
resumes, with a TUI killed at any step, without lost replies, crashes of the
Supervisor and retries by hand during an exit; section 9 shows how each fails with one. `ClosedIsRecapped`,
`TakeoverKeepsWork` and `RecapWorkKept` say that no message escapes the recap, whichever
of the competing jobs ends up with it. `ReopenedIsSettled` is what the comment on
`reconcile_closed_session_for_resume` expects of the next start.
`FinalizeHonoursCheckpoint`: a prepared checkpoint is a commitment.
`BudgetRespected`: an attempt is charged before it starts and every path back to
the queue leaves one. `AwaitEnds`: a resume does not wait forever.

Claims: `EditsKept` and `SuccessorsFirst` are what the recovery of plans must
respect. `UnsyncedIsQueued` is the promise of the queue; it exempts versions of a
recap or a policy when the maintainer may refuse requests, because
those are staged without a durable mark and the code gives them up on 401 and 403.
`WithdrawnIsNotHeldBack` is stated for instances without edits and Recaps: either can
restore a withdrawn claim, which a Dream may then consolidate like any other.
`SourceKeptUntilCarried`, `WithdrawnIsNotHeldBack`, `DisputeKept` and
`MirrorMovesForward` concern the order of delivery.

Disputes: `DecisionsStand` and `OnlyDecisionsAreSent` say what can be decided and
heard of it, `HoldersAreTold` and `DecidedIsDelivered` that nothing decided is
forgotten however often operations are cut. `AdoptsWhatItRead` is about the gap
between the two locked sections of an adoption, `AdoptedIsDone` and `AdoptionEnds`
about its recovery. `DecidedIsDelivered` is promised while the event worker runs; when it
has ended, `HoldersAreTold` still says that the pending file is there for the next start. `NeverForgotten`, `OneTicket` and `AnalysisEnds` are the promise
of the queue. Both `NeverForgotten` and `AnalysisEnds` exempt what the last scan could not
read, which waits for another scan or a restart, and adoptions when the event worker has
ended. While it runs, `NeverForgotten` exempts only adoptions whose delivery is pending:
`enqueue` trusts the placeholder of a run that is just ending, and the event worker
finishes those; an adoption cut before that must be found by the queue's own scan.

Messages: `NothingIsLost` is the refinement; `EffectsOnce` that no update is applied
through two plans, in whatever company it is found again. A policy has no journal and
may be internalised twice; nothing in the code says otherwise.

Subagents and connections: `NoOrphans`, `ClosedIsQuiet` and `RegisteredEnds` cover
the races of registration, pump, abandon and resume, with the Supervisor finalizing the
same session from its own process. `ClosedIsQuiet` speaks of the files whoever closes the
session, and of queue and tasks once the session's own process has emptied its runner or
ended; before that the Supervisor may close the session over subagents that still act
(section 9). `WaitIsAnswered` says that no wake-up is lost, for waits for one and for all; it
exempts a subagent the Supervisor abandoned behind a resume, of which nobody in the new
process is told (`LateSweeps`). `AdmittedAlone` names the one window in which a replacement may overlap the
old transport: a client that was taken out and is not quarantined yet (section 9).
`OperationsEnd` matters because `wait_for_completion` has no limit of its own.

## 9. Known not to hold

These formulas are defined in the modules and fail for what the code does. Each can
be reproduced with TLC by a configuration with the constants given (`None = None`;
what is not mentioned as in the run of the same module, and `Spec`). In those of
`Supervisor` a switch that is not named is off.

- **`LiveSessionIsOpen` with lost replies** (1 session, 2 jobs, 2 messages,
  `Foreground`, no faults). The client gives up on Enqueue after the IPC timeout
  although the job was created (`supervisor.rs:3132`), the TUI finalizes in the
  foreground, the session is resumed, which settles the job on disk without stopping
  the worker (`supervisor.rs:1423`); the worker then publishes its own copy and marks
  the reopened session Finalizing. `docs/PRDs/PRD_resume_finalizing_session.md:140`:
  "旧 job 不得关闭新的 Open 周期".
- **`ReopenedIsSettled`** (run *reopen*, the finding of `PROJECT.json`). The Supervisor is
  killed between closing a session and settling its job. The session is resumed while no
  supervisor answers and exited again with nothing new to recap, so that it is Finalizing
  when the Supervisor starts; `recover_stale_running_job` therefore takes the old job for
  unfinished and queues it (`supervisor.rs:2349`), although the comment at
  `supervisor.rs:697` expects it to be settled. The TUI closes the session without a job
  and resumes it; `resume_finalizing_takeover` settles the job's file without looking at
  the worker (`:1423`), which has picked it and writes its own copy back (`:1984`). The
  session is Open and the Finalize of its earlier cycle is Running.
- **`LiveSessionIsOpen`, `ClosedIsRecapped`, `OneUnresolvedFinalize` and `RecapWorkKept`
  with `Crashes`** (1 session, 3 jobs, 3 messages, 1 fault) fail for the same reason, a
  few steps later: the worker marks the live session Finalizing and closes it behind its
  TUI, and a second exit enqueues a second Finalize. Recaps that find the session closed
  this way are settled as subsumed, and a resume opens it with their range not recapped.
  `docs/PRDs/PRD_resume_finalizing_session.md:140`: "旧 job 不得关闭新的 Open 周期",
  `docs/PRDs/PRD_finalize_supervisor.md:31`: "同时至多有一个未成功的 finalize job".
- **The same four with `ExitRetries`** (1 session, no faults; 2 jobs and 2 messages for
  `LiveSessionIsOpen` and `OneUnresolvedFinalize`, 3 and 3 for the others). A TUI with
  nothing left to recap marks the session Finalizing (`runtime.rs:1358`); `acn supervisor
  retry` finds a Finalizing session without a job and creates one (`supervisor.rs:2498`);
  the TUI closes the session without it (`runtime.rs:1384`). The worker picks the job, a
  resume settles the job's file (`supervisor.rs:1423`) and reopens the session, the worker
  writes its own copy back (`:1984`) and marks the live session Finalizing
  (`finalize.rs:491`). The next exit creates a second Finalize; once that is converted, the
  worker closes the open session with the end it had read. No crash and no lost reply is
  needed, and nothing in the code keeps a retry from a session whose TUI is leaving.
- **`RecappedOnce`** (1 session, 2 jobs, 2 messages, `UserRecaps`, no faults). A Recap
  that uses up its attempts behind a Prepared checkpoint stays Failed; the next Recap
  has a later end, does not recognise the checkpoint (`finalize.rs:1128`), overwrites
  it and applies the same messages again. `docs/PRDs/PRD_recap_in_supervisor.md:492`:
  "Prepared 成功后 Recap 必须完成，不能留下 Prepared 未应用".
- **`TakeoverKeepsWork` with `Foreground` and `TornReads`** (1 session, 3 jobs, 2 messages,
  no faults): `resume_convert` opens a session without looking at `finalize.lock`
  (`supervisor.rs:1663`), behind a finalizer that prepares its checkpoint in between.
- **`OneUnresolvedFinalize` and `LiveSessionIsOpen` with `TornReads`** (1 session, 3 jobs, 2
  messages, no faults): a handler combines reads of different moments. With two failing
  writes instead (`WriteErrors`, 2 faults) `ClosedIsRecapped` and `RecapWorkKept` fail as
  well: the rollback of a conversion can itself fail. *faults*, which has all of these,
  checks none of the four.
- **`DurableUntilMirrored`** (2 claims, 2 versions, recap and dream, `AuthErrors`). A
  durable mark set while the same version is in flight without one is dropped with
  that request on a 401 or 403: the decision is made on the snapshot
  (`maintainer_upload.rs:406`) and the reconciliation removes the equal entry with its
  new mark (`:696`). The header of the file, line 7, promises delivery once
  authentication works again. For the same reason `UnsyncedIsQueued` fails with
  `AuthErrors` when more than users and Recaps are at work (1 claim under the policy, 3
  versions, edit and policy, 1 fault): a user's deprecation that a crash left in its
  journal is staged unmarked by the withdrawal, the recovery marks it and drops the
  journal while it is in flight, and a 403 removes it.
- **`HumanFirst`** (1 worker, 1 holder, 1 analysis, 2 resolutions, 2 faults). A human
  resolution whose pending delivery is on disk but not committed loses to the recovery
  of an automatic adoption. `docs/PRDs/PRD_maintainer_dispute_auto_arbitration.md:186`
  has it the other way round.
- **`RetiredIsInactive`** (1 process, 2 messages, 2 claims, 1 fault). An update of a
  policy that is processed after its deprecation, because its first processing was cut,
  makes an active claim from a withdrawn policy; see
  `docs/PRDs/PRD_inbox_delivery_refactor.md:235` and `docs/outstanding_issues.md:11`.
- **`JournalAgrees` with `Delayed`, or with 2 processes** (2 messages, 2 faults). The
  plan of a batch that was cut before its references were complete meets one of its
  members under another plan; the conflict (`inbox.rs:961`) is then permanent, and the
  messages are retried without end. `ReceivedIsDone` is therefore checked with one
  process and without `Delayed`.
- **`AbandonFailsForCause`** (1 subagent, no faults). The turn that creates a subagent is
  cancelled, the session is marked finalizing, and the strict abandon meets the
  directory without `delegation.yaml` of the registration that is still running
  (`delegation/store.rs:336`); the finalize fails and is retried. After a crash at that
  point the directory stays and every finalize fails.
  `docs/PRDs/PRD_subagents.md:1063` (AS2) rules it out.
- **`ClosedIsQuiet` without its premise `swept`** (1 subagent, no faults). The TUI marks the
  session finalizing; before its own abandon, or after that failed, `acn supervisor retry`
  finds `finalize.lock` free and finishes the session. It abandons the subagent's file and
  closes the session, and the task in the TUI goes on until the TUI empties its runner
  (`runner.rs:553` reaches its own process only, and no lease keeps the Supervisor out,
  `supervisor.rs:2498`).
- **Delivery without the event worker**: `DecidedIsDelivered` and `AnalysisEnds` without
  their exemptions. A refill or a `persist_retry` that fails ends the event scheduler
  (`resolution_events.rs:200`, `:218`, `:232`), the server keeps serving
  (`server.rs:119`), and what was pending waits for a restart. Likewise an analysis that
  one scan could not read (`store.rs:168`) is not looked at again before something else asks
  for a scan.
- **Overlap of two MCP sessions**: the premise of `AdmittedAlone`. A failure report or
  a request takes the client out first and quarantines the server second
  (`connection_manager.rs:1405`, `:1529`), and a reconnect may be admitted in between.
  Also, a connect task that is cancelled in the middle of `shutdown_client` leaves the
  quarantine until the process is restarted.

## 10. Proofs

Every theorem holds for all values of the constants that satisfy the assumptions of the
module it is about: any sessions, workers, subagents, processes, messages, operations,
capacities and bounds. The assumptions say that bounds are naturals, that switches are
Boolean and that `None` is none of the values it stands beside (`SupervisorAssumption`,
`ArbitrationAssumption` and `NoneAssumption`, `QueueAssumption` and `EntryAssumption`,
`InboxAssumption` and `JournalAssumption`, `McpAssumption`, the three of `Delegation`,
`KnowledgeAssumption` and `UploadAssumption`); jobs and holders form finite sets, a capacity, a limit of attempts and the
number of slots are positive.

| Module | Theorem | Statement |
|---|---|---|
| `SupervisorProofs` | `TypeCorrect` | `Spec => []TypeOK` |
| | `BudgetIsRespected` | `Spec => []BudgetRespected` |
| | `AwaitedIsRunning` | `Spec => []AwaitedJobIsRunning` |
| | `CheckpointIsHonoured` | `Spec => FinalizeHonoursCheckpoint` |
| | `TakeoversKeepWork` | `Patient` implies `Spec => TakeoverKeepsWork` |
| | `FinalizeIsUnique` | `Undisturbed` implies `Spec => []OneUnresolvedFinalize` |
| | `LiveStaysOpen` | `Undisturbed` implies `Spec => []LiveSessionIsOpen` |
| | `ClosedWithAllRecapped` | `Undisturbed` implies `Spec => []ClosedIsRecapped` |
| | `SettledRecapsAreKept` | `Undisturbed` implies `Spec => []RecapWorkKept` |
| `KnowledgeProofs` | `KnowledgeTypes` | `KSpec => []KTypeOK` |
| | `EditsAreKept` | `KSpec => EditsKept` |
| | `SuccessorsAreFirst` | `KSpec => SuccessorsFirst` |
| `UploadProofs` | `UploadTypes` | `Spec => []UTypeOK` |
| | `MirrorOnlyMovesForward` | `Spec => MirrorMovesForward` |
| | `DisputesAreKept` | `Spec => []DisputeKept` |
| | `LastWordIsQueued` | `Spec => [](MarksDecide => UnsyncedIsQueued)` |
| | `WithdrawnIsDelivered` | `Spec => []WithdrawnIsNotHeldBack` |
| `ArbitrationProofs` | `ArbitrationTypes` | `Spec => []ATypeOK` |
| | `DeliveryIsOwed` | `Spec => []HoldersAreTold` |
| | `SentIsDecided` | `Spec => []OnlyDecisionsAreSent` |
| | `RecordsAreBacked` | `Spec => []RecordIsBacked` |
| | `DecisionsAreFinal` | `Spec => DecisionsStand` |
| | `AdoptionsAreDone` | `Spec => []AdoptedIsDone` |
| | `AdoptionsReadThat` | `OneWorker /\ Spec => []AdoptsWhatItRead` |
| `AnalysisQueueProofs` | `QueueTypes` | `Spec => []QTypeOK` |
| | `AnalysesAreKept` | `Spec => []NeverForgotten` |
| | `TicketsAreSingle` | `Spec => []OneTicket` |
| `InboxProofs` | `InboxTypes` | `Spec => []ITypeOK` |
| | `EffectsAreOnce` | `Spec => []EffectsOnce` |
| | `DeliveryKeepsPromise` | `Spec => NothingIsLost` (`InboxAbstract` is implemented) |
| `McpProofs` | `McpTypes` | `Spec => []CTypeOK` |
| | `ClientsAreCurrent` | `Spec => []ClientIsCurrent` |
| | `TogglesWin` | `Spec => []LastToggleWins` |
| `DelegationProofs` | `DelegationTypes` | `Spec => []DTypeOK` |
| | `CommitsAreCompleted` | `Spec => []CommittedIsCompleted` |
| | `EverySubagentIsRun` | `Spec => []NoOrphans` |
| | `ClosedSessionsAreQuiet` | `Spec => []ClosedIsQuiet` |
| | `TerminalStatusesStand` | `Spec => TerminalIsFinal` |
| | `SlotsAreRespected` | `Spec => []SlotsRespected` |

**Supervisor.** The first two come from one inductive invariant,
`TypeInv == TypeOK /\ JobsInv`. `TypeOK` is not inductive: the attempt counter is in
`0..MaxAttempts` only because a job that is picked has an attempt left, and what is
picked may have been written from a copy, by the worker at the end of an attempt or by
the rollback of a conversion. `JobsInv` says that every copy (in the store, in the
gate, in the worker's hand) is a `GoodJob`, that a busy gate or worker is busy with a
session, and that `picked` and `recovering` have an attempt left. `AwaitedIsRunning`
needs `AwaitInv == AwaitedJobIsRunning /\ Registered`: a resume starts to wait on the
*registered* job, so the registration must name the job in the worker's hand.

The other six are built in layers, each on the ones before. `RangeInv` is about ranges
and holds with every fault of the model: whoever works on a session holds its
`finalize.lock` (`LocksHeld`), cursor, checkpoint and targets end within the messages and
a job file keeps its session whoever rewrites it (`Ranges`, `Targets`), a Finalize that
prepares has passed every checkpoint it found (`Segment`), nobody works on a Closed
session (`ClosedStays`). It gives `CheckpointIsHonoured`. `GateInv` and `PreemptInv` need
`Patient`: no TUI finalizes in the foreground and the worker does not write between two
reads of a handler. Then what a handler has read stays true until it writes
(`GateFresh`), between the two writes of a conversion the Recap is on disk (`GateOpen`),
and from the request to stop until the conversion the session stays as the takeover found
it (`Preempted`); this gives `TakeoversKeepWork`, crashes and failing writes included.

`CycleInv` needs `Undisturbed`: `Patient`, no crash of the Supervisor, no failing write of
a job file, no retry by hand while a TUI exits; a TUI may be killed at any step. `WorkerCopy` says that the worker's copy is
the file's until the job is done, except that a resume may settle the file of a Finalize
that has just closed its session; `SessionsOk` that an unresolved Finalize is alone, and
outside of Finalizing is only the one the worker has just carried out; `Closing` that the
last segment of a Finalize ends at the last message; `StoredRecaps` and `WorkerRecap` that
a Recap that is done or being given up leaves its range to somebody. None of the four
properties is inductive without the others: a second Finalize is impossible because the
worker's copy is the file's, the copy is because nobody converts a job in hand, nobody
does because its session is Finalizing, and it is because no Finalize outlives its cycle.
`OneUnresolvedFinalize` and `LiveSessionIsOpen` need every part of `Undisturbed`: TLC has a
counterexample for foreground finalizers, torn reads, failing writes, crashes and retries
during an exit each. `ClosedIsRecapped` and `RecapWorkKept` need the absence of the last
three; for the rest of the condition no counterexample is known.

**Claims.** `PlanInv` relates each record on disk to the claims and to the writer: `KEdit`
(an edit is journalled for the version it replaces), `KRecap` with `OnTrack` (what a plan
has still to write meets the analysed version, its other targets are there), `KDream`
with `GoodGroup` (a group says of each claim what it is before and after, and each is one
of the two while the commit writes) and `KPolicy`. `EditsKept` and `SuccessorsFirst` are
then facts about the four steps that write a claim. `KInv` adds the shape of the queue;
the functions of `UploadQueue` are each summarised by a lemma on the fields of the queue
they return (`MergeFacts`, `ConsolidationFacts`, `PruneFacts`, `ReconcileFacts`...).

**Upload.** Three layers. `UInv` has the order of versions (`Ordered`: mirror, snapshot,
queue and file are never ahead of the next, and two versions with one number are one
version; this rests on the single-flight delivery and gives `MirrorMovesForward`) and
the disputes (`DisputesHeld`). `SInv` is the last word: every version is `Covered`
(mirrored, queued, or given up by the rule) or in a record, and covered *before* the
record is dropped (`SSteps`); every attempted claim is still to be sent, in flight,
failed, mirrored or given up (`SDelivery`), so what the reconciliation removes is in the
mirror; with refusals, what may not be given up has its mark in the queue, in the
snapshot and among the failed (`SMarks`). The hypothesis `MarksDecide` (refusals only
with users and Recaps) is necessary: section 9 has the counterexample without it. `WInv`
is about withdrawals: a Dream group is planned from live claims, retires nothing before
its commit begins, and a withdrawal excludes a commit; so a group that was planned before
a withdrawal and is committed after it finds none of the policy's claims as it was.

**Arbitration.** The invariant `IInv` adds to the types and the three safety properties
what is on its way: `IOperation` (an operation may commit only what the decision allows,
and what it no longer has to write is there), `IReplacement` (a resolution that replaces
another exists only for the automatic decision it names, is unique, and is backed by a
pending delivery until it is the decision), `IRecord` (the resolution file runs ahead of
the decision only with a replacement), `IAnalysis` and `IEvent` (what an adopting analysis
and a delivery event hold) and `IMinted` (resolution numbers are fresh). `HoldersAreTold` alone is not inductive, because a
committed resolution may be neither pending nor told if the operation that consumes the
pending file were allowed to skip an earlier file: `IOperation` says it cannot.
`DecisionsStand` follows from `IInv` at the only two steps that write the dispute.
`AdoptedIsDone` needs in addition that an adoption in progress holds the resolution it
will show (`IAdopting`), that an operation which reaches its last write has told the
holders (`IComplete`), and that the number of an adopted resolution stays reachable from
the decision (`IAdopted`).

`AdoptsWhatItRead` is proved for one analysis consumer, which is what a maintainer process
has (one per `spawn_scheduler`, one process per store), with any number of people
adopting and rejecting beside it. The invariants are `IIds` (a worker's copy is of an
analysis that exists), `IVersions` (fingerprints are of inputs that existed) and `IIntent`
(the fingerprint a worker is about to save or compare is the one of its round). It is
false with three consumers on one store (1 analysis, 1 resolution, 2 changes of the inputs,
no fault): `save_prepared_context` compares the analysis and its state, not its round, so
that a context from an earlier round can be saved into a later one.

**Queue.** `QInv` adds to the types and `NeverForgotten`: `IBoot` (nothing is parked before
the first scan is over), `IOpen` (the channel is closed exactly when the consumer is
gone), `IKnown` (whatever the queue and its producers mention is on the disk) and `ISettle`
(a run that ends for good but finds its analysis reopened has a wake behind it). The capacity bound in
`QTypeOK` uses the library's theorems on finite cardinality. `OneTicket` counts entries in
three queues and a hand; `ITicket` says of each job, without counting, that it is in at
most one place of at most one of them (`Once`, `Apart`), and that an entry holds its place
exactly when its placeholder is one that counts (`Backed`). Without the last part a parked
job could be claimed that has no placeholder. `move_due_retries` appends all due entries
at once, in any order: that none comes twice is the pigeonhole principle.

**Inbox.** The refinement maps `kept` to the messages that have a copy anywhere
(`HasCopy`). `IHand` says that whatever a process has in hand has a copy, `IBatch` what may
be collected for one hand-over, `ISettled` that a message is acknowledged behind its outcome
and unlinked behind its done file, so that the last copy disappears only as `done`; `IJournal` and `IApplied` relate the
effect records to the plan in hand and to `took`: a record never changes its plan, and a
plan is applied only when each of its members has its reference. `EffectsOnce` follows, as two
effects of one message would be of the same plan.

**MCP.** `MInv` adds to the types and `ClientIsCurrent`: `MOrder` (operations start in order,
each with a generation of its own), `MKinds` (how far an operation of each kind comes),
`MLock` (the configuration lock is held from the read to the write), `MBusy` (the panel
waits for the last operation, and a disable leaves nothing to ask for) and `MToggle`
(before its write the last enable is current; an older one past its check finds a
disable waiting for the lock). The generation check of an enable and the lock order only
together give `LastToggleWins`.

**Delegation.** `BaseInv` joins the types, what the pump holds (`PumpAgrees`), a queue without
repetitions and, per subagent, how its registration, its place and its task agree with its
files (`RegistrationAgrees`, `WaitsOnce`, `TaskAgrees`). `SessionInv` adds the session:
`LockAgrees` (no tool call is between its check and its answer while a session closes),
`CleanAgrees` and `RemoteAgrees` (what an abandon has still to do is on its list, that of the
session's process and that of the Supervisor), `DiskAgrees` (in a closed session the files
are settled, or failed) and `SweptAgrees` (the runner that was emptied stays empty, since
every registration still under way has lost its turn and undoes itself). The two halves of
`ClosedIsQuiet` are thus separate: the files are settled by either process, the tasks by
their own. No switch is assumed; `LateSweeps` may be on. `SlotsRespected` needs `SlotsAgree`: while
the pump starts one there is still a slot for it. The proof showed that a cancelled registration is no exception in
`ClosedIsQuiet`; the property is now stated without it. The facts about queues that these
need (`retain` keeps the order and the members it should) rest on the least-number
principle, which the library gives for sets, `LeastNatural`.

The proofs are laid out by group of actions. Where several invariants look at the same
action it is first summarised as a *move*, and the invariants are proved from the moves.

Only model-checked:

- liveness, and what the recursive definitions compute, out of the prover's reach;
- `AdmittedAlone`: the quarantine may be lifted by the close of another client, and no
  invariant is known that explains, for any number of operations, why that is harmless
  under the premise of the property;
- `SourceKeptUntilCarried`: it looks one level down the consolidations, the code along
  them to the end; why one level is enough depends on which groups can be queued
  together, and the definition it comes from is a least fixed point;
- `ClosedIsRecapped` with foreground finalizers, which holds with 3 jobs, 2 messages and no
  faults (11.6 M states).

## 11. Not modelled

- Candidates for later modules: process manager and read state; the choice of Dream
  jobs.
- Turn journal (the prefix of one append-only file), session cleanup (deletes only
  under a lease that `Supervisor` models), turn loop and Responses websocket (one
  sequential caller, mostly provider I/O), OAuth.
- Left out for good: router and prompt assembly, storage primitives (used as atomic
  writes and exclusive locks), session search (a derived index), configuration,
  authentication and update: I/O and parsing. The shell classifier in
  `tool/concurrency.rs` is syntactic analysis of text.

The modules cover the state machines whose steps interleave, crash or are retried.
They are a small part of the repository's lines: most of it is prompts, providers,
rendering, parsing and tests, which a model checker has nothing to say about.

## 12. Plan

1. An abstract session life cycle that `Supervisor` implements when nothing is lost;
   `ProcessManager`.
2. `ClosedIsRecapped` with foreground finalizers, for all values of the constants.
3. `AdmittedAlone` and `SourceKeptUntilCarried` for all values of the constants.
