----------------------------- MODULE Supervisor -----------------------------
(***************************************************************************)
(* The background Supervisor of one agent: the persistent job queue, the   *)
(* worker that runs one Finalize or Recap job at a time, the IPC handlers  *)
(* that run under the lifecycle gate, the takeover that turns a Finalize   *)
(* back into an Open session, and the TUI clients that own the sessions.   *)
(*                                                                         *)
(* On disk (survive a crash): sess (session.yaml), ckpt                    *)
(* (finalize_checkpoint.yaml), jobs (supervisor/jobs/*.yaml).              *)
(* In memory (lost in a crash): gate, running, wk; lock is a file lock,    *)
(* which the kernel drops with its holder.                                 *)
(*                                                                         *)
(* What a checkpoint holds, and how its claims are applied one by one, is  *)
(* abstracted to its range and its status; Dream jobs only appear as the   *)
(* recovery that precedes every session job.                               *)
(***************************************************************************)
EXTENDS Naturals, FiniteSets

CONSTANTS
  Sessions,      \* the session ids of the agent
  None,          \* no session
  MaxJobs,       \* bound: job ids minted in a behaviour
  MaxMsgs,       \* bound: messages of one session
  MaxAttempts,   \* DEFAULT_SUPERVISOR_JOB_MAX_ATTEMPTS (5 in the code)
  MaxFaults,     \* bound: crashes of either process and failed writes of a job file
  Crashes,       \* may the supervisor be killed, and not only a TUI?
  WriteErrors,   \* may a write of a job file fail?
  Foreground,    \* may a TUI finalize a session itself (fallback)?
  TornReads,     \* may the worker or the TUI write between two reads of a gated handler?
  ExitRetries,   \* may an operator retry a session while its TUI is exiting?
  UserRecaps     \* do clients enqueue Recap jobs after a compaction?

ASSUME SupervisorAssumption ==
  /\ None \notin Sessions
  /\ MaxJobs \in Nat /\ MaxMsgs \in Nat /\ MaxFaults \in Nat
  /\ MaxAttempts \in Nat \ {0}
  /\ Crashes \in BOOLEAN /\ WriteErrors \in BOOLEAN /\ Foreground \in BOOLEAN
  /\ TornReads \in BOOLEAN /\ ExitRetries \in BOOLEAN /\ UserRecaps \in BOOLEAN

VARIABLES
  sess,     \* session.yaml of each session: status, message_count, recapped_until
  ckpt,     \* finalize_checkpoint.yaml of each session: range and status
  lock,     \* holder of each session's finalize.lock
  jobs,     \* the job files
  sup,      \* the supervisor process: down, up or stopping
  gate,     \* the handler that holds the lifecycle gate, and what it has read
  running,  \* the registration of the running job and its preemption control
  wk,       \* the worker: its step and its own copy of the job
  client,   \* the process that owns the runtime lease of each session
  faults,   \* crashes and failed job writes so far
  applied   \* history: how often the recap of each message was applied

vars == <<sess, ckpt, lock, jobs, sup, gate, running, wk, client, faults, applied>>

-----------------------------------------------------------------------------
(* Types *)

JobIds   == 1..MaxJobs
Indexes  == 0..MaxMsgs
SessionStatus == {"Open", "Finalizing", "Closed"}
JobStatus     == {"Queued", "Running", "Succeeded", "Failed"}

SessionMetadata == [status: SessionStatus, msgs: Indexes, recapped: Indexes]
FinalizeCheckpoint ==
  [start: Indexes, end: Indexes, status: {"None", "Prepared", "Applied"}]
SupervisorJob ==
  [kind: {"None", "Finalize", "Recap"}, sess: Sessions \cup {None},
   target: Indexes, status: JobStatus, att: 0..MaxAttempts]
PreemptionPhase ==
  {"Cancelable", "CancelRequested", "Prepared",
   "FinishedBeforePrepared", "FinishedAfterPrepared"}
\* sent: a result is in the channel of the resumes that wait for this job;
\* cancel: the cancellation token, which is never reset.
RunningJob == [job: 0..MaxJobs, phase: PreemptionPhase, cancel: BOOLEAN,
               sent: BOOLEAN, target: Indexes]

\* "open" and "wopen": a converted job is on disk and its session is about to
\* be opened, by a Resume handler or by the worker.
GateOps == {"free", "enqueue", "retry", "resume", "open", "wopen"}
Gate    == [op: GateOps, sess: Sessions \cup {None}, meta: SessionMetadata,
            job: 0..MaxJobs, orig: SupervisorJob]

WorkerPc ==
  {"idle", "picked", "recovering", "deferred", "enter", "lock", "locked",
   "recover", "recovered", "segment", "prepare", "apply", "upload",
   "completed", "failed", "preempted", "convert", "ok", "fail", "notify",
   "end", "error"}
Worker  == [pc: WorkerPc, job: 0..MaxJobs, rec: SupervisorJob, end: Indexes,
            pre: BOOLEAN]

\* What the process that holds a session's runtime lease is doing; "none":
\* the lease is free.
ClientPc ==
  {"none", "live", "exiting", "foreground", "fgLocked", "fgPrepared",
   "resuming", "reconciling", "settling", "awaiting", "polling", "opened",
   "reopening"}
Client  == [pc: ClientPc, job: 0..MaxJobs]

NewMeta    == [status |-> "Open", msgs |-> 0, recapped |-> 0]
NoCkpt     == [start |-> 0, end |-> 0, status |-> "None"]
NoJob      == [kind |-> "None", sess |-> None, target |-> 0,
               status |-> "Succeeded", att |-> 0]
FreeGate   == [op |-> "free", sess |-> None, meta |-> NewMeta, job |-> 0,
               orig |-> NoJob]
NoRunning  == [job |-> 0, phase |-> "Cancelable", cancel |-> FALSE,
               sent |-> FALSE, target |-> 0]
IdleWorker == [pc |-> "idle", job |-> 0, rec |-> NoJob, end |-> 0, pre |-> TRUE]
At(pc)     == [pc |-> pc, job |-> 0]
Polling(j) == [pc |-> "polling", job |-> j]

TypeOK ==
  /\ sess \in [Sessions -> SessionMetadata]
  /\ ckpt \in [Sessions -> FinalizeCheckpoint]
  /\ lock \in [Sessions -> {"free", "worker", "client", "gate"}]
  /\ jobs \in [JobIds -> SupervisorJob]
  /\ sup \in {"down", "up", "stopping"}
  /\ gate \in Gate
  /\ running \in RunningJob
  /\ wk \in Worker
  /\ client \in [Sessions -> Client]
  /\ faults \in 0..MaxFaults
  /\ applied \in [Sessions -> [Indexes -> {0, 1, 2}]]

-----------------------------------------------------------------------------
(* The job store *)

\* A checkpoint that starts at the recap cursor and ends inside the messages
\* is work of this generation; any other one is a leftover.
finalize_checkpoint_covers_pending_range(c, m) ==
  /\ c.status # "None"
  /\ c.start = m.recapped
  /\ c.start <= c.end
  /\ c.end <= m.msgs

unresolved_finalize_jobs(s) ==
  {j \in JobIds : /\ jobs[j].kind = "Finalize"
                  /\ jobs[j].sess = s
                  /\ jobs[j].status # "Succeeded"}

FinalizeJob(s) ==
  [kind |-> "Finalize", sess |-> s, target |-> 0, status |-> "Queued", att |-> 0]

\* Mutant: the conversion keeps the kind of the job it converts.
RecapJobKeepsKind(s, t) == FinalizeJob(s)

\* Also the job a Finalize is converted to: same id, fresh attempts.
RecapJob(s, t) ==
  [kind |-> "Recap", sess |-> s, target |-> t, status |-> "Queued", att |-> 0]

\* Ids are minted in creation order, so a smaller id is an earlier created_at.
\* When none is left, minting fails, as it does after its retries in the code.
FreshIds == {j \in JobIds : jobs[j].kind = "None"}
IsNewId(j) == j \in FreshIds /\ \A k \in FreshIds : j <= k

Queued == {j \in JobIds : jobs[j].kind # "None" /\ jobs[j].status = "Queued"}

\* Finalize before Recap, then by creation.
Before(i, j) ==
  \/ jobs[i].kind = "Finalize" /\ jobs[j].kind = "Recap"
  \/ jobs[i].kind = jobs[j].kind /\ i <= j
next_queued_job(j) == j \in Queued /\ \A k \in Queued : Before(j, k)

\* Mutant: an attempt beyond the budget.
RecoverIgnoresBudget(rec, status) ==
  [rec EXCEPT !.status =
     IF \/ rec.kind = "Finalize" /\ status \in {"Closed", "Open"}
        \/ rec.kind = "Recap" /\ status \in {"Finalizing", "Closed"}
     THEN "Succeeded" ELSE "Queued"]

\* A Running job that no worker runs: its session tells whether the work was
\* committed, or belongs to another cycle; else it is retried within budget.
recover_stale_running_job(rec, status) ==
  [rec EXCEPT !.status =
     IF \/ rec.kind = "Finalize" /\ status \in {"Closed", "Open"}
        \/ rec.kind = "Recap" /\ status \in {"Finalizing", "Closed"}
     THEN "Succeeded"
     ELSE IF rec.att >= MaxAttempts THEN "Failed" ELSE "Queued"]

\* Mutant: one attempt too many.
FailureOffByOne(rec) ==
  [rec EXCEPT !.status = IF rec.att <= MaxAttempts THEN "Queued" ELSE "Failed"]

apply_job_attempt_failure(rec) ==
  [rec EXCEPT !.status = IF rec.att < MaxAttempts THEN "Queued" ELSE "Failed"]

-----------------------------------------------------------------------------
(* The preemption control of a running job *)

request_before_prepared(r) ==
  IF r.phase = "Cancelable"
  THEN [r EXCEPT !.phase = "CancelRequested", !.cancel = TRUE] ELSE r

finish(r) ==
  [r EXCEPT !.phase = IF r.phase \in {"Prepared", "FinishedAfterPrepared"}
                      THEN "FinishedAfterPrepared"
                      ELSE "FinishedBeforePrepared"]

\* The attempt runs without a control after a failed conversion. A checkpoint
\* found under finalize.lock overrides a cancelled phase, not a cancelled token.
CancelRequested == wk.pre /\ running.phase = "CancelRequested"
cancelled == wk.pre /\ running.cancel
MarkPrepared(r) == IF wk.pre THEN [r EXCEPT !.phase = "Prepared"] ELSE r

\* Mutant: the waiting handler holds a sender itself, so its channel stays open.
DeliverNothing(j, c) == UNCHANGED client

\* What the handlers that wait for the worker's result of job j receive.
Deliver(j, c) ==
  client' = [s \in Sessions |->
               IF client[s].pc = "awaiting" /\ client[s].job = j THEN c
               ELSE client[s]]

Fault == faults < MaxFaults /\ faults' = faults + 1
WriteError == WriteErrors /\ Fault

-----------------------------------------------------------------------------
(* The TUI process that owns a session *)

\* A lost or refused enqueue falls back to finalizing in the foreground; where
\* that is excluded the TUI is taken to be killed instead.
Fallback == IF Foreground THEN At("foreground") ELSE At("none")

\* The steps of other processes that may run while a handler holds the gate.
\* The TUI waits for the answer to its own request, and for nobody else's.
Interleaved == gate.op = "free" \/ TornReads
Unserved(s) == gate.sess # s \/ (TornReads /\ gate.op \in {"retry", "wopen"})

SetStatus(s, st) == sess' = [sess EXCEPT ![s].status = st]
Goto(s, c) == client' = [client EXCEPT ![s] = c]

append_messages(s) ==
  /\ client[s].pc = "live" /\ sess[s].status = "Open" /\ sess[s].msgs < MaxMsgs
  /\ sess' = [sess EXCEPT ![s].msgs = @ + 1]
  /\ UNCHANGED <<ckpt, lock, jobs, sup, gate, running, wk, client, faults, applied>>

\* /exit: the session is marked Finalizing before a job exists for it. One
\* without messages is deleted when it closes and is left out.
mark_session_finalizing(s) ==
  /\ client[s].pc = "live" /\ sess[s].msgs > 0
  /\ \/ sess[s].status = "Open" /\ SetStatus(s, "Finalizing") /\ Goto(s, At("exiting"))
     \/ sess[s].status # "Open" /\ Goto(s, Fallback) /\ UNCHANGED sess
  /\ UNCHANGED <<ckpt, lock, jobs, sup, gate, running, wk, faults, applied>>

\* Nothing left to recap: no job is enqueued and the TUI closes the session.
finalize_without_job(s) ==
  /\ client[s].pc = "exiting"
  /\ sess[s].recapped = sess[s].msgs
  /\ \/ Foreground /\ Goto(s, At("foreground")) /\ UNCHANGED sess
     \/ /\ ~Foreground /\ lock[s] = "free" /\ sess[s].status = "Finalizing"
        /\ SetStatus(s, "Closed") /\ Goto(s, At("none"))
  /\ UNCHANGED <<ckpt, lock, jobs, sup, gate, running, wk, faults, applied>>

enqueue_unavailable(s) ==
  /\ Foreground /\ client[s].pc = "exiting"
  /\ Goto(s, Fallback)
  /\ UNCHANGED <<sess, ckpt, lock, jobs, sup, gate, running, wk, faults, applied>>

\* Foreground finalize_session: the same algorithm as the worker's, without a
\* preemption control. Its steps are coarser: it holds finalize.lock.
fg_lock(s) ==
  /\ client[s].pc = "foreground" /\ lock[s] = "free" /\ Interleaved
  /\ lock' = [lock EXCEPT ![s] = "client"]
  /\ Goto(s, At("fgLocked"))
  /\ UNCHANGED <<sess, ckpt, jobs, sup, gate, running, wk, faults, applied>>

FgLeave(s) == Goto(s, At("none")) /\ lock' = [lock EXCEPT ![s] = "free"]

Covered(s) == finalize_checkpoint_covers_pending_range(ckpt[s], sess[s])

CountApplied(s, c) ==
  applied' = [applied EXCEPT ![s] = [i \in Indexes |->
                IF c.start < i /\ i <= c.end /\ @[i] < 2 THEN @[i] + 1 ELSE @[i]]]

\* Apply the checkpoint of s: a Prepared one takes effect, an Applied one is
\* only uploaded.
ApplyCheckpoint(s) ==
  /\ ckpt' = [ckpt EXCEPT ![s].status = "Applied"]
  /\ IF ckpt[s].status = "Prepared" THEN CountApplied(s, ckpt[s]) ELSE UNCHANGED applied

fg_recover(s) ==
  /\ client[s].pc = "fgLocked" /\ Interleaved
  /\ sess[s].status # "Closed" /\ Covered(s)
  /\ ApplyCheckpoint(s)
  /\ sess' = [sess EXCEPT ![s].recapped = ckpt[s].end, ![s].status = "Finalizing"]
  /\ UNCHANGED <<lock, jobs, sup, gate, running, wk, client, faults>>

fg_prepare(s) ==
  /\ client[s].pc = "fgLocked" /\ Interleaved
  /\ sess[s].status # "Closed" /\ ~Covered(s) /\ sess[s].recapped < sess[s].msgs
  /\ ckpt' = [ckpt EXCEPT ![s] = [start |-> sess[s].recapped, end |-> sess[s].msgs,
                                  status |-> "Prepared"]]
  /\ SetStatus(s, "Finalizing") /\ Goto(s, At("fgPrepared"))
  /\ UNCHANGED <<lock, jobs, sup, gate, running, wk, faults, applied>>

fg_close(s) ==
  /\ Interleaved
  /\ \/ /\ client[s].pc = "fgLocked" /\ sess[s].status = "Closed"
        /\ UNCHANGED <<sess, ckpt, applied>>
     \/ /\ client[s].pc = "fgLocked" /\ sess[s].status # "Closed"
        /\ ~Covered(s) /\ sess[s].recapped = sess[s].msgs
        /\ SetStatus(s, "Closed") /\ UNCHANGED <<ckpt, applied>>
     \/ /\ client[s].pc = "fgPrepared"
        /\ ApplyCheckpoint(s)
        /\ sess' = [sess EXCEPT ![s].recapped = sess[s].msgs, ![s].status = "Closed"]
  /\ FgLeave(s)
  /\ UNCHANGED <<jobs, sup, gate, running, wk, faults>>

fg_fail(s) ==
  /\ client[s].pc \in {"fgLocked", "fgPrepared"} /\ Interleaved
  /\ FgLeave(s)
  /\ UNCHANGED <<sess, ckpt, jobs, sup, gate, running, wk, faults, applied>>

\* Take the runtime lease and choose the path from the status read under it.
reserve_runtime_session(s) ==
  /\ client[s].pc = "none"
  /\ Goto(s, CASE sess[s].status = "Open" -> At("live")
               [] sess[s].status = "Closed" -> At("reconciling")
               [] sess[s].status = "Finalizing" -> At("resuming"))
  /\ UNCHANGED <<sess, ckpt, lock, jobs, sup, gate, running, wk, faults, applied>>

\* A session found Closed is reopened without reconciliation when no supervisor
\* answers, one that was awaited until Closed is not; a supervisor that is
\* stopping refuses every takeover.
reconcile_skipped(s) ==
  /\ \/ sup = "down" /\ client[s].pc = "reconciling" /\ Goto(s, At("reopening"))
     \/ sup = "down" /\ client[s].pc = "settling" /\ Goto(s, At("none"))
     \/ /\ sup = "stopping" /\ client[s].pc \in {"reconciling", "settling", "resuming"}
        /\ Goto(s, At("none"))
  /\ UNCHANGED <<sess, ckpt, lock, jobs, sup, gate, running, wk, faults, applied>>

mark_open(s) ==
  /\ client[s].pc = "reopening"
  /\ IF sess[s].status = "Finalizing"
     THEN Goto(s, At("none")) /\ UNCHANGED <<sess, ckpt>>
     ELSE /\ SetStatus(s, "Open") /\ ckpt' = [ckpt EXCEPT ![s] = NoCkpt]
          /\ Goto(s, At("live"))
  /\ UNCHANGED <<lock, jobs, sup, gate, running, wk, faults, applied>>

complete_finalizing_resume(s) ==
  /\ client[s].pc = "opened"
  /\ Goto(s, IF sess[s].status = "Open" THEN At("live") ELSE At("none"))
  /\ UNCHANGED <<sess, ckpt, lock, jobs, sup, gate, running, wk, faults, applied>>

\* Poll the session, then the job, then whether the supervisor still answers.
\* Once Closed, the job is settled by another request.
wait_for_resume_finalize_job(s) ==
  /\ client[s].pc = "polling"
  /\ LET j == client[s].job IN
     \/ sess[s].status = "Closed" /\ Goto(s, At("settling"))
     \/ /\ sess[s].status # "Closed"
        /\ \/ jobs[j].status \in {"Succeeded", "Failed"}
           \/ sup = "down"
        /\ Goto(s, At("none"))
  /\ UNCHANGED <<sess, ckpt, lock, jobs, sup, gate, running, wk, faults, applied>>

\* The TUI is killed; its file locks go with it. A request it has sent is
\* served all the same: a preempted Finalize is converted for nobody.
client_crash(s) ==
  /\ Fault
  /\ client[s].pc # "none"
  /\ Goto(s, At("none"))
  /\ lock' = [lock EXCEPT ![s] = IF @ = "client" THEN "free" ELSE @]
  /\ UNCHANGED <<sess, ckpt, jobs, sup, gate, running, wk, applied>>

-----------------------------------------------------------------------------
(* The request handlers: each holds the lifecycle gate from its first read  *)
(* (the session metadata) to its last write.                                *)

Acquire(op, s) ==
  /\ sup = "up" /\ gate.op = "free"
  /\ gate' = [FreeGate EXCEPT !.op = op, !.sess = s, !.meta = sess[s]]
  /\ UNCHANGED <<sess, ckpt, lock, jobs, sup, running, wk, client, faults, applied>>

Release == gate' = FreeGate
WriteJob(j, rec) == jobs' = [jobs EXCEPT ![j] = rec]

request_enqueue(s) ==
  client[s].pc = "exiting" /\ sess[s].recapped < sess[s].msgs /\ Acquire("enqueue", s)
\* An operator's command: no lease and no TUI is asked.
request_retry(s) ==
  (ExitRetries \/ client[s].pc # "exiting") /\ Acquire("retry", s)
request_resume(s) ==
  client[s].pc \in {"resuming", "reconciling", "settling"} /\ Acquire("resume", s)

request_same_session_recap_preemption(s) ==
  IF running.job # 0 /\ wk.rec.kind = "Recap" /\ wk.rec.sess = s
  THEN request_before_prepared(running) ELSE running

\* Enqueue(Finalize) then cancels a Recap of the same session that has no
\* Prepared checkpoint yet. The reply may be lost after the job exists.
enqueue_finalize_job ==
  LET s == gate.sess
      U == unresolved_finalize_jobs(s)
  IN
  /\ gate.op = "enqueue" /\ Release
  /\ \/ /\ \/ U = {} /\ \E j \in JobIds : IsNewId(j) /\ WriteJob(j, FinalizeJob(s))
           \/ /\ \E j \in U : U = {j} /\ jobs[j].status \in {"Queued", "Running"}
              /\ UNCHANGED jobs
        /\ gate.meta.status = "Finalizing"
        /\ running' = request_same_session_recap_preemption(s)
        /\ \E c \in {At("none"), Fallback} : Goto(s, c)
     \/ /\ \/ gate.meta.status # "Finalizing"
           \/ Cardinality(U) > 1
           \/ \E j \in U : jobs[j].status = "Failed"
           \/ U = {} /\ FreshIds = {}
        /\ Goto(s, Fallback) /\ UNCHANGED <<jobs, running>>
  /\ UNCHANGED <<sess, ckpt, lock, sup, wk, faults, applied>>

\* Mutant: a Failed job is replaced by a new one instead of being reset.
RetryCreatesReplacement ==
  LET s == gate.sess IN
  /\ gate.op = "retry" /\ Release
  /\ \/ /\ gate.meta.status = "Finalizing" /\ lock[s] = "free"
        /\ \A j \in unresolved_finalize_jobs(s) : jobs[j].status = "Failed"
        /\ \E j \in JobIds : IsNewId(j) /\ WriteJob(j, FinalizeJob(s))
     \/ UNCHANGED jobs
  /\ UNCHANGED <<sess, ckpt, lock, sup, running, wk, client, faults, applied>>

\* acn supervisor retry: restart a Failed job with a fresh budget, or recover
\* a session that has no job and no running finalizer and is, under
\* finalize.lock, still Finalizing.
retry_finalize_job ==
  LET s == gate.sess
      U == unresolved_finalize_jobs(s)
  IN
  /\ gate.op = "retry" /\ Release
  /\ IF gate.meta.status # "Finalizing" \/ Cardinality(U) > 1
     THEN UNCHANGED jobs
     ELSE \/ \E j \in U : /\ jobs[j].status = "Failed"
                          /\ WriteJob(j, FinalizeJob(s))
          \/ \E j \in U : jobs[j].status # "Failed" /\ UNCHANGED jobs
          \/ /\ U = {} /\ lock[s] = "free" /\ sess[s].status = "Finalizing"
             /\ \E j \in JobIds : IsNewId(j) /\ WriteJob(j, FinalizeJob(s))
          \/ /\ U = {} /\ UNCHANGED jobs
             /\ lock[s] # "free" \/ sess[s].status # "Finalizing" \/ FreshIds = {}
  /\ UNCHANGED <<sess, ckpt, lock, sup, running, wk, client, faults, applied>>

\* The outcome of a takeover, as its client takes it: the reconciliation of a
\* Closed session accepts no other outcome than ReopenClosed.
Outcome(s, c) ==
  Goto(s, IF client[s].pc \in {"reconciling", "settling"} /\ c.pc # "reopening"
          THEN At("none") ELSE c)

ResumeStep(status) ==
  /\ gate.op = "resume" /\ gate.meta.status = status
  /\ UNCHANGED <<sess, ckpt, sup, wk, faults, applied>>

\* More than one unresolved job: every handler refuses.
resume_not_unique ==
  /\ \E st \in {"Closed", "Finalizing"} : ResumeStep(st)
  /\ Cardinality(unresolved_finalize_jobs(gate.sess)) > 1
  /\ Release /\ Outcome(gate.sess, At("none"))
  /\ UNCHANGED <<jobs, lock, running>>

\* Closed: the session was committed before its job; settle the job.
resume_closed ==
  LET U == unresolved_finalize_jobs(gate.sess) IN
  /\ ResumeStep("Closed") /\ Cardinality(U) <= 1
  /\ jobs' = [j \in JobIds |->
                IF j \in U THEN [jobs[j] EXCEPT !.status = "Succeeded"] ELSE jobs[j]]
  /\ Release /\ Outcome(gate.sess, At("reopening"))
  /\ UNCHANGED <<lock, running>>

resume_open ==
  /\ ResumeStep("Open")
  /\ Release /\ Outcome(gate.sess, At("opened"))
  /\ UNCHANGED <<jobs, lock, running>>

\* Mutant: only a checkpoint of the whole backlog counts.
HasFullCheckpoint ==
  /\ finalize_checkpoint_covers_pending_range(ckpt[gate.sess], gate.meta)
  /\ ckpt[gate.sess].end = gate.meta.msgs

HasCheckpoint == finalize_checkpoint_covers_pending_range(ckpt[gate.sess], gate.meta)

\* No job. A held finalize.lock is a foreground finalizer: refuse. Otherwise a
\* checkpoint is finished by a new Finalize, and a session without one is
\* opened once a Recap job holds its backlog.
resume_orphan ==
  LET s == gate.sess
      m == gate.meta
  IN
  /\ ResumeStep("Finalizing") /\ unresolved_finalize_jobs(s) = {}
  /\ \/ /\ lock[s] # "free" \/ (FreshIds = {} /\ (HasCheckpoint \/ m.recapped < m.msgs))
        /\ Release /\ Outcome(s, At("none")) /\ UNCHANGED <<jobs, lock>>
     \/ /\ lock[s] = "free" /\ HasCheckpoint
        /\ \E j \in JobIds : /\ IsNewId(j) /\ WriteJob(j, FinalizeJob(s))
                             /\ Outcome(s, Polling(j))
        /\ Release /\ UNCHANGED lock
     \/ /\ lock[s] = "free" /\ ~HasCheckpoint
        /\ lock' = [lock EXCEPT ![s] = "gate"]
        /\ \/ /\ m.recapped < m.msgs
              /\ \E j \in JobIds : /\ IsNewId(j) /\ WriteJob(j, RecapJob(s, m.msgs))
                                   /\ gate' = [gate EXCEPT !.op = "open", !.job = j,
                                                           !.orig = FinalizeJob(s)]
           \/ /\ m.recapped >= m.msgs
              /\ gate' = [gate EXCEPT !.op = "open"] /\ UNCHANGED jobs
        /\ UNCHANGED client
  /\ UNCHANGED running

\* The job as the takeover goes on with it: Running without a registration is
\* what a failed worker left behind.
TakenJob(j) ==
  IF jobs[j].status = "Running" /\ running.job # j
  THEN recover_stale_running_job(jobs[j], gate.meta.status) ELSE jobs[j]

\* A covering checkpoint is past the point of no return: the Finalize goes on.
resume_checkpointed(j) ==
  /\ ResumeStep("Finalizing") /\ unresolved_finalize_jobs(gate.sess) = {j}
  /\ HasCheckpoint
  /\ WriteJob(j, IF TakenJob(j).status = "Failed"
                 THEN FinalizeJob(gate.sess) ELSE TakenJob(j))
  /\ Release /\ Outcome(gate.sess, Polling(j))
  /\ UNCHANGED <<lock, running>>

\* Mutant: the worker is not told how far the Recap it converts to has to go.
ResumeRunningSetsNoTarget(j) ==
  LET s == gate.sess IN
  /\ ResumeStep("Finalizing") /\ unresolved_finalize_jobs(s) = {j}
  /\ ~HasCheckpoint /\ running.job = j
  /\ running' = request_before_prepared(running)
  /\ Outcome(s, IF running.phase \in {"Cancelable", "FinishedBeforePrepared"}
                THEN [pc |-> "awaiting", job |-> j] ELSE Polling(j))
  /\ Release /\ UNCHANGED <<jobs, lock>>

\* The worker owns the job: ask it to stop before Prepared and await its
\* answer; too late, wait for the Finalize.
resume_running(j) ==
  LET s == gate.sess
      r == [running EXCEPT !.target = gate.meta.msgs]
  IN
  /\ ResumeStep("Finalizing") /\ unresolved_finalize_jobs(s) = {j}
  /\ ~HasCheckpoint /\ running.job = j
  /\ running' = request_before_prepared(r)
  /\ Outcome(s, IF running.phase \in {"Cancelable", "FinishedBeforePrepared"}
                THEN [pc |-> "awaiting", job |-> j] ELSE Polling(j))
  /\ Release /\ UNCHANGED <<jobs, lock>>

\* Nobody runs the job: convert it in place, then open the session.
resume_convert(j) ==
  LET s == gate.sess IN
  /\ ResumeStep("Finalizing") /\ unresolved_finalize_jobs(s) = {j}
  /\ ~HasCheckpoint /\ running.job # j
  /\ WriteJob(j, RecapJob(s, gate.meta.msgs))
  /\ gate' = [gate EXCEPT !.op = "open", !.job = j, !.orig = TakenJob(j)]
  /\ UNCHANGED <<lock, running, client>>

Unlocked(s, holder) == lock' = [lock EXCEPT ![s] = IF @ = holder THEN "free" ELSE @]

\* Second half of a conversion by a handler; a failure restores the Finalize,
\* unless that write fails as well.
open_finalizing_session_for_resume ==
  LET s == gate.sess IN
  /\ gate.op = "open" /\ Release /\ Unlocked(s, "gate")
  /\ \/ /\ sess[s].status = "Finalizing"
        /\ SetStatus(s, "Open") /\ Outcome(s, At("opened")) /\ UNCHANGED <<jobs, faults>>
     \/ /\ \/ /\ jobs' = IF gate.job = 0 THEN jobs ELSE [jobs EXCEPT ![gate.job] = gate.orig]
              /\ UNCHANGED faults
           \/ gate.job # 0 /\ WriteError /\ UNCHANGED jobs
        /\ Outcome(s, At("none")) /\ UNCHANGED sess
  /\ UNCHANGED <<ckpt, sup, running, wk, applied>>

\* A compaction asks for a Recap up to the message count it saw.
create_recap_job(s) ==
  /\ UserRecaps /\ client[s].pc = "live" /\ sess[s].recapped < sess[s].msgs
  /\ sup = "up" /\ gate.op = "free"
  /\ \E j \in JobIds : IsNewId(j) /\ WriteJob(j, RecapJob(s, sess[s].msgs))
  /\ UNCHANGED <<sess, ckpt, lock, sup, gate, running, wk, client, faults, applied>>

-----------------------------------------------------------------------------
(* The worker: one job at a time. Only picking, converting, reporting an    *)
(* attempt as repeatable and ending take the gate.                          *)

WkAt(pc) == wk.pc = pc /\ Interleaved
WkGoto(pc) == wk' = [wk EXCEPT !.pc = pc]
S == wk.rec.sess
IsFinalize == wk.rec.kind = "Finalize"

pick_job ==
  /\ wk.pc = "idle" /\ sup = "up" /\ gate.op = "free"
  /\ \E j \in JobIds :
       /\ next_queued_job(j)
       /\ wk' = [IdleWorker EXCEPT !.pc = "picked", !.job = j, !.rec = jobs[j]]
       /\ running' = [NoRunning EXCEPT !.job = j]
  /\ UNCHANGED <<sess, ckpt, lock, jobs, sup, gate, client, faults, applied>>

\* The worker writes its own copy, whatever the file holds by now.
publish_running ==
  /\ WkAt("picked")
  /\ LET rec == [wk.rec EXCEPT !.status = "Running"] IN
     WriteJob(wk.job, rec) /\ wk' = [wk EXCEPT !.pc = "recovering", !.rec = rec]
  /\ UNCHANGED <<sess, ckpt, lock, sup, gate, running, client, faults, applied>>

\* A pending Dream commit cannot be recovered: requeue without charging.
defer_job ==
  /\ WkAt("recovering")
  /\ LET rec == [wk.rec EXCEPT !.status = "Queued"] IN
     WriteJob(wk.job, rec) /\ wk' = [wk EXCEPT !.pc = "deferred", !.rec = rec]
  /\ UNCHANGED <<sess, ckpt, lock, sup, gate, running, client, faults, applied>>

report_deferred ==
  /\ WkAt("deferred")
  /\ running' = [finish(running) EXCEPT !.sent = TRUE]
  /\ Deliver(wk.job, At("none"))
  /\ WkGoto("end")
  /\ UNCHANGED <<sess, ckpt, lock, jobs, sup, gate, faults, applied>>

charge_attempt ==
  /\ WkAt("recovering")
  /\ LET rec == [wk.rec EXCEPT !.att = @ + 1] IN
     WriteJob(wk.job, rec) /\ wk' = [wk EXCEPT !.pc = "enter", !.rec = rec]
  /\ UNCHANGED <<sess, ckpt, lock, sup, gate, running, client, faults, applied>>

\* The engine's own reading of the session, before finalize.lock.
enter_session ==
  /\ WkAt("enter")
  /\ \/ ~IsFinalize /\ WkGoto("lock") /\ UNCHANGED sess
     \/ IsFinalize /\ sess[S].status = "Closed" /\ WkGoto("completed") /\ UNCHANGED sess
     \/ IsFinalize /\ sess[S].status = "Open" /\ WkGoto("lock") /\ SetStatus(S, "Finalizing")
     \/ IsFinalize /\ sess[S].status = "Finalizing" /\ WkGoto("lock") /\ UNCHANGED sess
  /\ UNCHANGED <<ckpt, lock, jobs, sup, gate, running, client, faults, applied>>

lock_session ==
  /\ WkAt("lock")
  /\ \/ /\ ~cancelled /\ lock[S] = "free"
        /\ lock' = [lock EXCEPT ![S] = "worker"] /\ WkGoto("locked")
     \/ /\ cancelled /\ UNCHANGED lock
        /\ WkGoto(IF IsFinalize THEN "preempted" ELSE "completed")
  /\ UNCHANGED <<sess, ckpt, jobs, sup, gate, running, client, faults, applied>>

\* Leaving the engine drops finalize.lock.
Leave(pc) == WkGoto(pc) /\ Unlocked(S, "worker")

finalize_locked ==
  /\ WkAt("locked") /\ IsFinalize
  /\ \/ /\ sess[S].status = "Closed"
        /\ Leave("completed") /\ UNCHANGED <<sess, running>>
     \/ /\ sess[S].status # "Closed" /\ Covered(S)
        /\ running' = MarkPrepared(running)
        /\ SetStatus(S, "Finalizing")
        /\ wk' = [wk EXCEPT !.pc = "recover", !.end = ckpt[S].end] /\ UNCHANGED lock
     \/ /\ sess[S].status # "Closed" /\ ~Covered(S) /\ CancelRequested
        /\ Leave("preempted") /\ UNCHANGED <<sess, running>>
     \/ /\ sess[S].status # "Closed" /\ ~Covered(S) /\ ~CancelRequested
        /\ SetStatus(S, "Finalizing")
        /\ WkGoto("segment") /\ UNCHANGED <<lock, running>>
  /\ UNCHANGED <<ckpt, jobs, sup, gate, client, faults, applied>>

\* A Recap only runs on an Open session and only from the current cursor; a
\* checkpoint of exactly its range is resumed.
recap_locked ==
  /\ WkAt("locked") /\ ~IsFinalize
  /\ \/ /\ sess[S].status # "Open" \/ sess[S].recapped >= wk.rec.target
        /\ Leave("completed") /\ UNCHANGED running
     \/ /\ sess[S].status = "Open" /\ sess[S].recapped < wk.rec.target
        /\ IF /\ ckpt[S].status # "None"
              /\ ckpt[S].start = sess[S].recapped /\ ckpt[S].end = wk.rec.target
           THEN /\ running' = MarkPrepared(running)
                /\ wk' = [wk EXCEPT !.pc = "apply", !.end = wk.rec.target]
           ELSE /\ wk' = [wk EXCEPT !.pc = "prepare", !.end = wk.rec.target]
                /\ UNCHANGED running
        /\ UNCHANGED lock
  /\ UNCHANGED <<sess, ckpt, jobs, sup, gate, client, faults, applied>>

\* Mutant: the recovered prefix is taken for the whole backlog.
RecoveredPrefixCloses ==
  /\ WkAt("recover")
  /\ ApplyCheckpoint(S) /\ WkGoto("upload")
  /\ UNCHANGED <<sess, lock, jobs, sup, gate, running, client, faults>>

\* Finalize first honours the prefix a Recap or an earlier attempt prepared.
recover_current_recap_checkpoint_prefix ==
  /\ WkAt("recover")
  /\ ApplyCheckpoint(S) /\ WkGoto("recovered")
  /\ UNCHANGED <<sess, lock, jobs, sup, gate, running, client, faults>>

\* Mutant: the cursor stays before the recovered prefix.
RecoveredPrefixForgotten ==
  /\ WkAt("recovered") /\ WkGoto("segment")
  /\ UNCHANGED <<sess, ckpt, lock, jobs, sup, gate, running, client, faults, applied>>

advance_recovered_prefix ==
  /\ WkAt("recovered")
  /\ sess' = [sess EXCEPT ![S].recapped = IF @ < wk.end THEN wk.end ELSE @]
  /\ WkGoto("segment")
  /\ UNCHANGED <<ckpt, lock, jobs, sup, gate, running, client, faults, applied>>

\* Nothing left to recap: closing is itself the Prepared boundary.
finalize_segment ==
  /\ WkAt("segment")
  /\ \/ /\ sess[S].recapped = sess[S].msgs /\ CancelRequested
        /\ Leave("preempted") /\ UNCHANGED <<sess, running>>
     \/ /\ sess[S].recapped = sess[S].msgs /\ ~CancelRequested
        /\ SetStatus(S, "Closed") /\ running' = MarkPrepared(running)
        /\ Leave("completed")
     \/ /\ sess[S].recapped < sess[S].msgs
        /\ wk' = [wk EXCEPT !.pc = "prepare", !.end = sess[S].msgs]
        /\ UNCHANGED <<sess, lock, running>>
  /\ UNCHANGED <<ckpt, jobs, sup, gate, client, faults, applied>>

\* The model call, and the commit of its result under the phase lock.
commit_prepared ==
  /\ WkAt("prepare")
  /\ \/ /\ cancelled
        /\ Leave(IF IsFinalize THEN "preempted" ELSE "completed")
        /\ UNCHANGED <<ckpt, running>>
     \/ /\ ~cancelled
        /\ ckpt' = [ckpt EXCEPT ![S] = [start |-> sess[S].recapped, end |-> wk.end,
                                        status |-> "Prepared"]]
        /\ running' = MarkPrepared(running)
        /\ WkGoto("apply") /\ UNCHANGED lock
  /\ UNCHANGED <<sess, jobs, sup, gate, client, faults, applied>>

apply_finalize_checkpoint ==
  /\ WkAt("apply")
  /\ ApplyCheckpoint(S) /\ WkGoto("upload")
  /\ UNCHANGED <<sess, lock, jobs, sup, gate, running, client, faults>>

\* The cursor moves, and a Finalize closes the session in the same write.
commit_segment ==
  /\ WkAt("upload")
  /\ sess' = [sess EXCEPT ![S].recapped = IF @ < wk.end THEN wk.end ELSE @,
                          ![S].status = IF IsFinalize THEN "Closed" ELSE @]
  /\ Leave("completed")
  /\ UNCHANGED <<ckpt, jobs, sup, gate, running, client, faults, applied>>

\* A lock, model, knowledge, upload or file error ends the attempt.
attempt_fails ==
  /\ \E pc \in {"enter", "locked", "recover", "recovered", "segment", "prepare",
                "apply", "upload"} : WkAt(pc)
  /\ Leave("failed")
  /\ UNCHANGED <<sess, ckpt, jobs, sup, gate, running, client, faults, applied>>

\* Back in run_job: close the control, tell a waiting takeover, and decide.
finish_attempt ==
  /\ \E pc \in {"completed", "failed", "preempted"} : WkAt(pc)
  /\ IF wk.pre THEN running' = [finish(running) EXCEPT
                                  !.sent = @ \/ (IsFinalize /\ wk.pc = "completed")]
               ELSE UNCHANGED running
  /\ IF wk.pre /\ IsFinalize /\ wk.pc = "completed"
     THEN Deliver(wk.job, Polling(wk.job)) ELSE UNCHANGED client
  /\ WkGoto(CASE wk.pc = "preempted" -> "convert"
              [] wk.pc = "completed" -> "ok"
              [] wk.pc = "failed" -> IF ~IsFinalize /\ CancelRequested THEN "ok" ELSE "fail")
  /\ UNCHANGED <<sess, ckpt, lock, jobs, sup, gate, faults, applied>>

convert_finalize_job ==
  /\ wk.pc = "convert" /\ gate.op = "free"
  /\ WriteJob(wk.job, RecapJob(S, running.target))
  /\ gate' = [FreeGate EXCEPT !.op = "wopen", !.sess = S, !.job = wk.job]
  /\ UNCHANGED <<sess, ckpt, lock, sup, running, wk, client, faults, applied>>

\* Second half of the worker's conversion. On failure the Finalize is restored
\* and runs again in the same attempt, now without a control.
open_converted_session ==
  /\ gate.op = "wopen" /\ Release
  /\ running' = [running EXCEPT !.sent = TRUE]
  /\ \/ /\ sess[S].status = "Finalizing" /\ SetStatus(S, "Open")
        /\ Deliver(wk.job, At("opened")) /\ WkGoto("end") /\ UNCHANGED <<jobs, faults>>
     \/ /\ \/ WriteJob(wk.job, wk.rec) /\ UNCHANGED faults
           \/ WriteError /\ UNCHANGED jobs
        /\ Deliver(wk.job, At("none"))
        /\ wk' = [wk EXCEPT !.pc = "enter", !.pre = FALSE] /\ UNCHANGED sess
  /\ UNCHANGED <<ckpt, lock, sup, applied>>

write_succeeded ==
  /\ WkAt("ok")
  /\ WriteJob(wk.job, [wk.rec EXCEPT !.status = "Succeeded"]) /\ WkGoto("end")
  /\ UNCHANGED <<sess, ckpt, lock, sup, gate, running, client, faults, applied>>

write_failure ==
  /\ WkAt("fail")
  /\ WriteJob(wk.job, apply_job_attempt_failure(wk.rec))
  /\ WkGoto(IF IsFinalize /\ ~running.sent THEN "notify" ELSE "end")
  /\ UNCHANGED <<sess, ckpt, lock, sup, gate, running, client, faults, applied>>

\* Before Prepared the takeover may try again, once the job is unregistered.
report_failure ==
  /\ WkAt("notify") /\ WkGoto("end")
  /\ \/ /\ running.phase = "FinishedBeforePrepared" /\ gate.op = "free"
        /\ Deliver(wk.job, At("resuming")) /\ running' = NoRunning
     \/ /\ running.phase # "FinishedBeforePrepared"
        /\ Deliver(wk.job, At("none")) /\ running' = [running EXCEPT !.sent = TRUE]
  /\ UNCHANGED <<sess, ckpt, lock, jobs, sup, gate, faults, applied>>

\* Writing the job file fails: run_job returns an error.
job_write_fails ==
  /\ \E pc \in {"picked", "recovering", "ok", "fail"} : WkAt(pc)
  /\ WkGoto("error") /\ WriteError
  /\ UNCHANGED <<sess, ckpt, lock, jobs, sup, gate, running, client, applied>>

\* The file of a job whose run_job gave up; it stays as it is when it cannot be
\* read or written either.
reconcile_running_job_after_runner_error(j) ==
  \/ /\ jobs[j].status = "Running"
     /\ WriteJob(j, recover_stale_running_job(jobs[j], sess[jobs[j].sess].status))
  \/ UNCHANGED jobs

\* The end of the loop: the registration goes, and with it the last sender of
\* the result channel.
end_job ==
  /\ wk.pc \in {"end", "error"} /\ gate.op = "free"
  /\ IF wk.pc = "error" THEN reconcile_running_job_after_runner_error(wk.job)
                        ELSE UNCHANGED jobs
  /\ running' = NoRunning /\ wk' = IdleWorker
  /\ Deliver(wk.job, At("none"))
  /\ UNCHANGED <<sess, ckpt, lock, sup, gate, faults, applied>>

-----------------------------------------------------------------------------
(* The process *)

\* Before the queue is served, every Running job is stale.
start ==
  /\ sup = "down" /\ sup' = "up"
  /\ jobs' = [j \in JobIds |->
                IF jobs[j].kind # "None" /\ jobs[j].status = "Running"
                THEN recover_stale_running_job(jobs[j], sess[jobs[j].sess].status)
                ELSE jobs[j]]
  /\ UNCHANGED <<sess, ckpt, lock, gate, running, wk, client, faults, applied>>

begin_idle_shutdown_if_due ==
  /\ sup = "up" /\ gate.op = "free" /\ wk.pc = "idle" /\ Queued = {}
  /\ sup' = "stopping"
  /\ UNCHANGED <<sess, ckpt, lock, jobs, gate, running, wk, client, faults, applied>>

stop_requested ==
  /\ sup = "up" /\ gate.op = "free"
  /\ sup' = "stopping"
  /\ UNCHANGED <<sess, ckpt, lock, jobs, gate, running, wk, client, faults, applied>>

stopped ==
  /\ sup = "stopping" /\ gate.op = "free" /\ wk.pc = "idle"
  /\ sup' = "down"
  /\ UNCHANGED <<sess, ckpt, lock, jobs, gate, running, wk, client, faults, applied>>

\* Killed at any point: memory and locks are lost, files stay, and every
\* client that waits for a reply gets an error.
crash ==
  /\ Crashes /\ sup # "down" /\ sup' = "down" /\ Fault
  /\ gate' = FreeGate /\ running' = NoRunning /\ wk' = IdleWorker
  /\ lock' = [s \in Sessions |-> IF lock[s] = "client" THEN "client" ELSE "free"]
  /\ client' = [s \in Sessions |->
        IF client[s].pc = "awaiting" \/ (gate.op \in {"resume", "open"} /\ gate.sess = s)
        THEN At("none")
        ELSE IF gate.op = "enqueue" /\ gate.sess = s THEN Fallback
        ELSE client[s]]
  /\ UNCHANGED <<sess, ckpt, jobs, applied>>

-----------------------------------------------------------------------------
Init ==
  /\ sess = [s \in Sessions |-> NewMeta]
  /\ ckpt = [s \in Sessions |-> NoCkpt]
  /\ lock = [s \in Sessions |-> "free"]
  /\ jobs = [j \in JobIds |-> NoJob]
  /\ sup = "down"
  /\ gate = FreeGate /\ running = NoRunning /\ wk = IdleWorker
  /\ client = [s \in Sessions |-> At("live")]
  /\ faults = 0
  /\ applied = [s \in Sessions |-> [i \in Indexes |-> 0]]

ClientStep(s) ==
  /\ Unserved(s)
  /\ \/ append_messages(s) \/ mark_session_finalizing(s) \/ finalize_without_job(s)
     \/ enqueue_unavailable(s)
     \/ fg_lock(s) \/ fg_recover(s) \/ fg_prepare(s) \/ fg_close(s) \/ fg_fail(s)
     \/ reserve_runtime_session(s) \/ reconcile_skipped(s) \/ mark_open(s)
     \/ complete_finalizing_resume(s) \/ wait_for_resume_finalize_job(s)
     \/ client_crash(s)

RequestStep(s) ==
  \/ request_enqueue(s) \/ request_retry(s) \/ request_resume(s)
  \/ create_recap_job(s)

HandlerStep ==
  \/ enqueue_finalize_job \/ retry_finalize_job
  \/ resume_not_unique \/ resume_closed \/ resume_open \/ resume_orphan
  \/ \E j \in JobIds : resume_checkpointed(j) \/ resume_running(j) \/ resume_convert(j)
  \/ open_finalizing_session_for_resume

WorkerStep ==
  \/ publish_running \/ defer_job \/ report_deferred \/ charge_attempt
  \/ enter_session \/ lock_session \/ finalize_locked \/ recap_locked
  \/ recover_current_recap_checkpoint_prefix \/ advance_recovered_prefix
  \/ finalize_segment \/ commit_prepared \/ apply_finalize_checkpoint
  \/ commit_segment \/ attempt_fails \/ finish_attempt
  \/ convert_finalize_job \/ open_converted_session
  \/ write_succeeded \/ write_failure \/ report_failure \/ job_write_fails \/ end_job

ProcessStep == start \/ begin_idle_shutdown_if_due \/ stop_requested \/ stopped \/ crash

Next ==
  \/ \E s \in Sessions : ClientStep(s) \/ RequestStep(s)
  \/ HandlerStep \/ pick_job \/ WorkerStep \/ ProcessStep

Spec == Init /\ [][Next]_vars

\* What the process guarantees: a handler that holds the gate goes on, a
\* foreground finalizer that holds finalize.lock goes on, and the worker, which
\* the gate (a first-come first-served mutex) and finalize.lock may stop again
\* and again, gets through. Nobody has to make a request, exit or restart.
ForegroundStep(s) == fg_recover(s) \/ fg_prepare(s) \/ fg_close(s) \/ fg_fail(s)
FairSpec ==
  /\ Spec
  /\ WF_vars(HandlerStep)
  /\ SF_vars(WorkerStep)
  /\ \A s \in Sessions : WF_vars(ForegroundStep(s))

-----------------------------------------------------------------------------
(* Properties *)

\* A session has at most one Finalize job that has not succeeded: enqueue_finalize_job,
\* retry_finalize_job and the orphan branch of resume_finalizing_takeover create one only
\* when there is none, and neither the conversion nor its rollback, nor a new cycle of
\* the session, leaves a second one behind, while the supervisor is not killed and no
\* operator retries the session in the moment its TUI exits (ExitRetries: the orphan that
\* retry_finalize_job creates then outlives the closing by the TUI).
OneUnresolvedFinalize ==
  \A s \in Sessions : Cardinality(unresolved_finalize_jobs(s)) <= 1

\* The session a user works in stays Open: a Finalize job of an earlier cycle that
\* worker_loop picks, restarts or still runs (finalize_existing_session marks an Open
\* session Finalizing) never takes the new cycle away from its TUI, while the
\* supervisor is not killed and no operator retries the session as its TUI exits.
LiveSessionIsOpen ==
  \A s \in Sessions : client[s].pc = "live" => sess[s].status = "Open"

\* The Finalize job of a session that was Closed counts as done before the session is
\* reopened; where no supervisor answers the resume, the stale recovery of the next start
\* settles it (the comment on reconcile_closed_session_for_resume). So a supervisor that
\* serves requests holds no unresolved Finalize of a session that is Open. It does not
\* hold: `start` requeues the job when the session is Finalizing again by then.
ReopenedIsSettled ==
  \A s \in Sessions :
    sup = "up" /\ sess[s].status = "Open" => unresolved_finalize_jobs(s) = {}

\* The recap of a message takes effect at most once: a checkpoint that
\* finalize_message_segment_checkpointed prepared is applied and passed by the cursor
\* before any other job recaps the same range, however its attempts are cut short.
RecappedOnce == \A s \in Sessions : \A i \in Indexes : applied[s][i] <= 1

\* Whoever waits in resume_finalizing_takeover for the running Finalize waits for a job
\* worker_loop still has in hand: the watch channel of RunningFinalizeJob has a sender.
AwaitedJobIsRunning ==
  \A s \in Sessions : client[s].pc = "awaiting" => wk.pc # "idle" /\ wk.job = client[s].job

\* mark_open_after_finalize_takeover opens a Finalizing session only when no checkpoint
\* covers its pending range, and only with a Recap job on disk for all of its backlog
\* (convert_finalize_job_and_open, and the orphan branch of the takeover).
TakeoverKeepsWork ==
  [][\A s \in Sessions :
       sess[s].status = "Finalizing" /\ sess'[s].status = "Open" =>
         /\ ~Covered(s)
         /\ \/ sess[s].recapped = sess[s].msgs
            \/ \E j \in JobIds : /\ jobs'[j].kind = "Recap" /\ jobs'[j].sess = s
                                 /\ jobs'[j].status = "Queued"
                                 /\ jobs'[j].target = sess[s].msgs]_vars

\* A session is only ever Closed with every message recapped, by whichever of
\* recap_and_mark_finalized and mark_finalized closes it, and whatever prefix it has
\* recovered from a Recap's checkpoint, while the supervisor is not killed and no
\* operator retries the session as its TUI exits.
ClosedIsRecapped ==
  \A s \in Sessions : sess[s].status = "Closed" => sess[s].recapped = sess[s].msgs

\* A job that waits in the queue has an attempt left, through apply_job_attempt_failure,
\* deferral, recover_stale_running_job, takeover and the restored copy of a job.
BudgetRespected ==
  \A j \in JobIds : jobs[j].status = "Queued" => jobs[j].att < MaxAttempts

\* A Finalize never replaces a checkpoint that covers the pending range: what was
\* prepared is applied (recover_current_recap_checkpoint_prefix), not prepared again.
FinalizeHonoursCheckpoint ==
  [][\A s \in Sessions :
       Covered(s) /\ ckpt'[s] # ckpt[s] /\ ckpt'[s].status = "Prepared" =>
         wk.rec.kind = "Recap"]_vars

\* A Recap that run_job or recover_stale_running_job settled as subsumed (preempted by
\* Enqueue, or found its session finalizing) is never work lost: if its session is Open
\* again and its range is not recapped, another Recap job that has not succeeded, the
\* converted Finalize, holds the range.
RecapWorkKept ==
  \A j \in JobIds :
    jobs[j].kind = "Recap" /\ jobs[j].status = "Succeeded" =>
      LET s == jobs[j].sess IN
      \/ sess[s].status # "Open"
      \/ sess[s].recapped >= jobs[j].target
      \/ \E k \in JobIds : /\ jobs[k].kind = "Recap" /\ jobs[k].sess = s
                           /\ jobs[k].status # "Succeeded"
                           /\ jobs[k].target >= jobs[j].target

\* A resume that waits for the running Finalize gets an answer, whatever becomes of the
\* attempt: it completes, fails, is preempted and converted, is deferred for a Dream
\* recovery, errors out on a job file, or the supervisor dies.
AwaitEnds ==
  \A s \in Sessions : client[s].pc = "awaiting" ~> client[s].pc # "awaiting"

=============================================================================
