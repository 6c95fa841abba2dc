-------------------------- MODULE SupervisorProofs --------------------------
(***************************************************************************)
(* Proofs about Supervisor, for every set of sessions and every value of   *)
(* the bounds.                                                             *)
(***************************************************************************)
EXTENDS Supervisor, FiniteSetTheorems, TLAPS

\* What every copy of a job file satisfies, in the store or in memory: a
\* queued one has an attempt left, and a real one belongs to a session.
GoodJob(rec) ==
  /\ rec.status = "Queued" => rec.att < MaxAttempts
  /\ rec.kind # "None" => rec.sess \in Sessions

JobsGood == \A j \in JobIds : GoodJob(jobs[j])

\* The copies held by the gate and by the worker may be written back, so they
\* are good as well; a busy gate or worker is busy with a session; the worker
\* that waits for its conversion is at that step; and an attempt is only
\* charged to a job that has one left.
JobsInv ==
  /\ JobsGood
  /\ GoodJob(gate.orig)
  /\ GoodJob(wk.rec)
  /\ gate.op # "free" => gate.sess \in Sessions
  /\ gate.op = "wopen" => wk.pc = "convert"
  /\ wk.pc # "idle" => wk.job \in JobIds /\ wk.rec.sess \in Sessions
  /\ wk.pc \in {"picked", "recovering"} => wk.rec.att < MaxAttempts
  /\ wk.pc = "recovering" => wk.rec.status # "Queued"

TypeInv == TypeOK /\ JobsInv

-----------------------------------------------------------------------------
(* The operators that build records *)

\* The initial and empty records have their types.
LEMMA NewRecordsType ==
  /\ NewMeta \in SessionMetadata
  /\ NoCkpt \in FinalizeCheckpoint
  /\ NoJob \in SupervisorJob
  /\ FreeGate \in Gate
  /\ NoRunning \in RunningJob
  /\ IdleWorker \in Worker
BY SupervisorAssumption
   DEF NewMeta, NoCkpt, NoJob, FreeGate, NoRunning, IdleWorker, SessionMetadata,
       FinalizeCheckpoint, SupervisorJob, Gate, GateOps, RunningJob, Worker, WorkerPc,
       PreemptionPhase, Indexes, SessionStatus, JobStatus

\* A client that only moves on to another step is a client.
LEMMA AtType ==
  ASSUME NEW pc \in ClientPc
  PROVE  At(pc) \in Client
BY SupervisorAssumption DEF At, Client

\* So is one that polls a job (wait_for_resume_finalize_job).
LEMMA PollingType ==
  ASSUME NEW j \in 0..MaxJobs
  PROVE  Polling(j) \in Client
BY SupervisorAssumption DEF Polling, Client, ClientPc

\* A Finalize job as create_finalize_job_record makes it is good.
LEMMA FinalizeJobType ==
  ASSUME NEW s \in Sessions
  PROVE  FinalizeJob(s) \in SupervisorJob /\ GoodJob(FinalizeJob(s))
BY SupervisorAssumption DEF GoodJob, FinalizeJob, SupervisorJob, JobStatus, Indexes

\* So is a Recap job, new or converted from a Finalize.
LEMMA RecapJobType ==
  ASSUME NEW s \in Sessions, NEW t \in Indexes
  PROVE  RecapJob(s, t) \in SupervisorJob /\ GoodJob(RecapJob(s, t))
BY SupervisorAssumption DEF GoodJob, RecapJob, SupervisorJob, JobStatus, Indexes

\* Any status but Queued can be given to a good job.
LEMMA JobWithStatusType ==
  ASSUME NEW rec \in SupervisorJob, NEW st \in JobStatus
  PROVE  /\ [rec EXCEPT !.status = st] \in SupervisorJob
         /\ GoodJob(rec) /\ st # "Queued" => GoodJob([rec EXCEPT !.status = st])
BY DEF SupervisorJob, GoodJob

\* recover_stale_running_job requeues a job only within its budget.
LEMMA RecoveredJobType ==
  ASSUME NEW rec \in SupervisorJob, GoodJob(rec), NEW st
  PROVE  LET r == recover_stale_running_job(rec, st) IN
         /\ r \in SupervisorJob
         /\ GoodJob(r)
BY SupervisorAssumption DEF GoodJob, recover_stale_running_job, SupervisorJob, JobStatus

\* So does apply_job_attempt_failure.
LEMMA FailedAttemptType ==
  ASSUME NEW rec \in SupervisorJob, GoodJob(rec)
  PROVE  LET r == apply_job_attempt_failure(rec) IN
         /\ r \in SupervisorJob
         /\ GoodJob(r)
BY SupervisorAssumption DEF GoodJob, apply_job_attempt_failure, SupervisorJob, JobStatus

\* The operations of the preemption control stay in its type.
LEMMA ControlType ==
  ASSUME NEW r \in RunningJob
  PROVE  /\ request_before_prepared(r) \in RunningJob
         /\ finish(r) \in RunningJob
         /\ MarkPrepared(r) \in RunningJob
BY DEF request_before_prepared, finish, MarkPrepared, RunningJob, PreemptionPhase

-----------------------------------------------------------------------------
(* The assignments actions are made of *)

\* Writing the status of a session.
LEMMA SetStatusType ==
  ASSUME TypeOK, NEW s, NEW st \in SessionStatus, SetStatus(s, st)
  PROVE  sess' \in [Sessions -> SessionMetadata]
BY DEF TypeOK, SetStatus, SessionMetadata

\* Moving one client.
LEMMA GotoType ==
  ASSUME TypeOK, NEW s, NEW c \in Client, Goto(s, c)
  PROVE  client' \in [Sessions -> Client]
BY DEF TypeOK, Goto

\* Answering the waiting resumes.
LEMMA DeliverType ==
  ASSUME TypeOK, NEW j, NEW c \in Client, Deliver(j, c)
  PROVE  client' \in [Sessions -> Client]
BY DEF TypeOK, Deliver

\* The fallback of a refused enqueue.
LEMMA FallbackType == Fallback \in Client
BY AtType DEF Fallback, ClientPc

\* Writing a good record to a job file keeps all files good.
LEMMA WriteJobType ==
  ASSUME TypeOK, JobsGood, NEW j, NEW rec \in SupervisorJob,
         GoodJob(rec), WriteJob(j, rec)
  PROVE  jobs' \in [JobIds -> SupervisorJob] /\ JobsGood'
BY DEF TypeOK, WriteJob, JobsGood

\* Moving the worker.
LEMMA WkGotoType ==
  ASSUME TypeOK, NEW pc \in WorkerPc, WkGoto(pc)
  PROVE  wk' \in Worker /\ wk'.rec = wk.rec /\ wk'.job = wk.job /\ wk'.pc = pc
BY DEF TypeOK, WkGoto, Worker

\* Applying a checkpoint counts its messages and marks it Applied.
LEMMA ApplyCheckpointType ==
  ASSUME TypeOK, NEW s, ApplyCheckpoint(s)
  PROVE  /\ ckpt' \in [Sessions -> FinalizeCheckpoint]
         /\ applied' \in [Sessions -> [Indexes -> {0, 1, 2}]]
<1>1. ckpt' \in [Sessions -> FinalizeCheckpoint]
  BY DEF TypeOK, ApplyCheckpoint, FinalizeCheckpoint
<1>2. CASE ckpt[s].status = "Prepared"
  <2> DEFINE f(g) == [i \in Indexes |->
                 IF ckpt[s].start < i /\ i <= ckpt[s].end /\ g[i] < 2 THEN g[i] + 1 ELSE g[i]]
  <2>1. \A g \in [Indexes -> {0, 1, 2}] : f(g) \in [Indexes -> {0, 1, 2}]
    OBVIOUS
  <2>2. applied' = [applied EXCEPT ![s] = f(applied[s])]
    BY <1>2 DEF ApplyCheckpoint, CountApplied
  <2> HIDE DEF f
  <2> QED BY <1>1, <2>1, <2>2 DEF TypeOK
<1>3. CASE ckpt[s].status # "Prepared"
  BY <1>1, <1>3 DEF TypeOK, ApplyCheckpoint
<1> QED BY <1>2, <1>3

-----------------------------------------------------------------------------
(* Types and budget are invariant *)

\* An agent without jobs, and a supervisor that does not run.
LEMMA InitTypeInv == Init => TypeInv
<1> SUFFICES ASSUME Init PROVE TypeInv
  OBVIOUS
<1>1. TypeOK
  <2>1. [i \in Indexes |-> 0] \in [Indexes -> {0, 1, 2}]
    OBVIOUS
  <2>2. At("live") \in Client
    BY AtType DEF ClientPc
  <2> QED
    BY <2>1, <2>2, NewRecordsType, SupervisorAssumption DEF Init, TypeOK
<1>2. JobsInv
  BY SupervisorAssumption DEF Init, JobsInv, JobsGood, GoodJob, FreeGate, IdleWorker, NoJob
<1> QED BY <1>1, <1>2 DEF TypeInv

\* The steps of the process that owns a session write no job file.
LEMMA ClientStepTypeInv ==
  ASSUME TypeInv, NEW s \in Sessions, ClientStep(s)
  PROVE  TypeInv'
<1> USE SupervisorAssumption
<1> USE DEF TypeInv
<1>0. \A pc \in ClientPc : At(pc) \in Client
  BY AtType
<1>1. CASE append_messages(s)
  <2>1. sess' \in [Sessions -> SessionMetadata]
    <3>1. sess[s].msgs \in 0..MaxMsgs /\ sess[s].msgs < MaxMsgs
      BY <1>1 DEF append_messages, TypeOK, SessionMetadata, Indexes
    <3>2. sess[s].msgs + 1 \in Indexes
      BY <3>1 DEF Indexes
    <3> QED BY <1>1, <3>2 DEF append_messages, TypeOK, SessionMetadata
  <2> QED BY <1>1, <2>1 DEF append_messages, TypeOK, JobsInv, JobsGood
<1>2. CASE mark_session_finalizing(s)
  <2>1. sess' \in [Sessions -> SessionMetadata]
    BY <1>2, SetStatusType DEF mark_session_finalizing, TypeOK, SessionStatus
  <2>2. client' \in [Sessions -> Client]
    BY <1>0, <1>2, GotoType, FallbackType DEF mark_session_finalizing, ClientPc
  <2> QED BY <1>2, <2>1, <2>2 DEF mark_session_finalizing, TypeOK, JobsInv, JobsGood
<1>3. CASE finalize_without_job(s)
  <2>1. sess' \in [Sessions -> SessionMetadata]
    BY <1>3, SetStatusType DEF finalize_without_job, TypeOK, SessionStatus
  <2>2. client' \in [Sessions -> Client]
    BY <1>0, <1>3, GotoType DEF finalize_without_job, ClientPc
  <2> QED BY <1>3, <2>1, <2>2 DEF finalize_without_job, TypeOK, JobsInv, JobsGood
<1>4. CASE enqueue_unavailable(s)
  <2>1. client' \in [Sessions -> Client]
    BY <1>4, GotoType, FallbackType DEF enqueue_unavailable
  <2> QED BY <1>4, <2>1 DEF enqueue_unavailable, TypeOK, JobsInv, JobsGood
<1>5. CASE fg_lock(s)
  <2>1. client' \in [Sessions -> Client]
    BY <1>0, <1>5, GotoType DEF fg_lock, ClientPc
  <2> QED BY <1>5, <2>1 DEF fg_lock, TypeOK, JobsInv, JobsGood
<1>6. CASE fg_recover(s)
  <2>1. sess' \in [Sessions -> SessionMetadata]
    BY ZenonT(60), <1>6 DEF fg_recover, TypeOK, SessionMetadata, SessionStatus, FinalizeCheckpoint
  <2> QED BY <1>6, <2>1, ApplyCheckpointType DEF fg_recover, TypeOK, JobsInv, JobsGood
<1>7. CASE fg_prepare(s)
  <2>1. sess' \in [Sessions -> SessionMetadata]
    BY <1>7, SetStatusType DEF fg_prepare, TypeOK, SessionStatus
  <2>2. client' \in [Sessions -> Client]
    BY <1>0, <1>7, GotoType DEF fg_prepare, ClientPc
  <2>3. ckpt' \in [Sessions -> FinalizeCheckpoint]
    BY <1>7 DEF fg_prepare, TypeOK, SessionMetadata, FinalizeCheckpoint
  <2> QED BY <1>7, <2>1, <2>2, <2>3 DEF fg_prepare, TypeOK, JobsInv, JobsGood
<1>8. CASE fg_close(s)
  <2>1. sess' \in [Sessions -> SessionMetadata]
    <3>1. CASE SetStatus(s, "Closed") \/ UNCHANGED sess
      BY <3>1, SetStatusType DEF TypeOK, SessionStatus
    <3>2. CASE sess' = [sess EXCEPT ![s].recapped = sess[s].msgs, ![s].status = "Closed"]
      BY ZenonT(60), <3>2 DEF TypeOK, SessionMetadata, SessionStatus
    <3> QED BY <1>8, <3>1, <3>2 DEF fg_close
  <2>2. client' \in [Sessions -> Client] /\ lock' \in [Sessions -> {"free", "worker", "client", "gate"}]
    BY <1>0, <1>8, GotoType DEF fg_close, FgLeave, ClientPc, TypeOK
  <2>3. /\ ckpt' \in [Sessions -> FinalizeCheckpoint]
        /\ applied' \in [Sessions -> [Indexes -> {0, 1, 2}]]
    BY <1>8, ApplyCheckpointType DEF fg_close, TypeOK
  <2> QED BY <1>8, <2>1, <2>2, <2>3 DEF fg_close, TypeOK, JobsInv, JobsGood
<1>9. CASE fg_fail(s)
  <2>1. client' \in [Sessions -> Client] /\ lock' \in [Sessions -> {"free", "worker", "client", "gate"}]
    BY <1>0, <1>9, GotoType DEF fg_fail, FgLeave, ClientPc, TypeOK
  <2> QED BY <1>9, <2>1 DEF fg_fail, TypeOK, JobsInv, JobsGood
<1>10. CASE reserve_runtime_session(s)
  <2>1. client' \in [Sessions -> Client]
    <3>1. sess[s].status \in SessionStatus
      BY DEF TypeOK, SessionMetadata
    <3> QED BY <1>0, <1>10, <3>1, GotoType
            DEF reserve_runtime_session, ClientPc, SessionStatus
  <2> QED BY <1>10, <2>1 DEF reserve_runtime_session, TypeOK, JobsInv, JobsGood
<1>11. CASE reconcile_skipped(s)
  <2>1. client' \in [Sessions -> Client]
    BY <1>0, <1>11, GotoType DEF reconcile_skipped, ClientPc
  <2> QED BY <1>11, <2>1 DEF reconcile_skipped, TypeOK, JobsInv, JobsGood
<1>12. CASE mark_open(s)
  <2>1. sess' \in [Sessions -> SessionMetadata]
    BY <1>12, SetStatusType DEF mark_open, TypeOK, SessionStatus
  <2>2. client' \in [Sessions -> Client]
    BY <1>0, <1>12, GotoType DEF mark_open, ClientPc
  <2>3. ckpt' \in [Sessions -> FinalizeCheckpoint]
    BY <1>12, NewRecordsType DEF mark_open, TypeOK
  <2> QED BY <1>12, <2>1, <2>2, <2>3 DEF mark_open, TypeOK, JobsInv, JobsGood
<1>13. CASE complete_finalizing_resume(s)
  <2>1. client' \in [Sessions -> Client]
    BY <1>0, <1>13, GotoType DEF complete_finalizing_resume, ClientPc
  <2> QED BY <1>13, <2>1 DEF complete_finalizing_resume, TypeOK, JobsInv, JobsGood
<1>14. CASE wait_for_resume_finalize_job(s)
  <2>1. client' \in [Sessions -> Client]
    BY <1>0, <1>14, GotoType DEF wait_for_resume_finalize_job, ClientPc
  <2> QED BY <1>14, <2>1 DEF wait_for_resume_finalize_job, TypeOK, JobsInv, JobsGood
<1>15. CASE client_crash(s)
  <2>1. client' \in [Sessions -> Client]
    BY <1>0, <1>15, GotoType DEF client_crash, ClientPc
  <2>2. faults' \in 0..MaxFaults
    BY <1>15 DEF client_crash, Fault, TypeOK
  <2> QED BY <1>15, <2>1, <2>2 DEF client_crash, TypeOK, JobsInv, JobsGood
<1> QED
  BY <1>1, <1>2, <1>3, <1>4, <1>5, <1>6, <1>7, <1>8, <1>9, <1>10, <1>11, <1>12, <1>13,
     <1>14, <1>15 DEF ClientStep

\* A request takes the gate and reads the metadata; it keeps no job copy.
LEMMA RequestStepTypeInv ==
  ASSUME TypeInv, NEW s \in Sessions, RequestStep(s)
  PROVE  TypeInv'
<1> USE SupervisorAssumption
<1> USE DEF TypeInv
<1>1. ASSUME NEW op \in GateOps \ {"wopen"}, Acquire(op, s) PROVE TypeInv'
  <2>1. gate' \in Gate /\ gate'.orig = NoJob /\ gate'.op = op /\ gate'.sess = s
    BY <1>1, NewRecordsType DEF Acquire, TypeOK, Gate, FreeGate
  <2> QED BY <1>1, <2>1 DEF Acquire, TypeOK, JobsInv, JobsGood, GoodJob, NoJob
<1>2. CASE create_recap_job(s)
  <2>1. PICK j \in JobIds : WriteJob(j, RecapJob(s, sess[s].msgs))
    BY <1>2 DEF create_recap_job
  <2>2. sess[s].msgs \in Indexes
    BY DEF TypeOK, SessionMetadata
  <2>3. jobs' \in [JobIds -> SupervisorJob] /\ JobsGood'
    BY <2>1, <2>2, RecapJobType, WriteJobType DEF JobsInv
  <2> QED BY <1>2, <2>3 DEF create_recap_job, TypeOK, JobsInv
<1> QED
  BY <1>1, <1>2 DEF RequestStep, request_enqueue, request_retry, request_resume, GateOps

\* The reply to a takeover.
LEMMA OutcomeType ==
  ASSUME TypeOK, NEW s, NEW c \in Client, Outcome(s, c)
  PROVE  client' \in [Sessions -> Client]
BY GotoType, AtType DEF Outcome, ClientPc

\* The gate between the two writes of a conversion.
LEMMA GateOpenType ==
  ASSUME TypeOK, NEW j \in JobIds, NEW rec \in SupervisorJob,
         gate' = [gate EXCEPT !.op = "open", !.job = j, !.orig = rec]
  PROVE  gate' \in Gate /\ gate'.orig = rec /\ gate'.op = "open" /\ gate'.sess = gate.sess
<1>1. gate = [op |-> gate.op, sess |-> gate.sess, meta |-> gate.meta, job |-> gate.job,
              orig |-> gate.orig]
  BY DEF TypeOK, Gate
<1>2. gate' = [op |-> "open", sess |-> gate.sess, meta |-> gate.meta, job |-> j, orig |-> rec]
  BY <1>1
<1>3. gate.sess \in Sessions \cup {None} /\ gate.meta \in SessionMetadata
  BY DEF TypeOK, Gate
<1>4. j \in 0..MaxJobs
  BY SupervisorAssumption DEF JobIds
<1> QED BY <1>2, <1>3, <1>4 DEF Gate, GateOps

\* The handlers write new, reset, recovered, converted or restored jobs.
LEMMA HandlerStepTypeInv ==
  ASSUME TypeInv, HandlerStep
  PROVE  TypeInv'
<1> USE SupervisorAssumption
<1> USE DEF TypeInv
<1> DEFINE g == gate.sess
<1>0. \A pc \in ClientPc : At(pc) \in Client
  BY AtType
<1>a. /\ g \in Sessions
      /\ gate.meta.msgs \in Indexes /\ gate.meta \in SessionMetadata
      /\ gate.job \in 0..MaxJobs /\ gate.orig \in SupervisorJob
  BY DEF TypeOK, JobsInv, Gate, SessionMetadata, HandlerStep, enqueue_finalize_job,
         retry_finalize_job, resume_not_unique, resume_closed, resume_open, resume_orphan,
         resume_checkpointed, resume_running, resume_convert, ResumeStep,
         open_finalizing_session_for_resume
<1>b. Release => /\ gate' \in Gate /\ GoodJob(gate'.orig)
                 /\ gate'.op = "free"
  BY NewRecordsType DEF Release, FreeGate, NoJob, GoodJob
<1>1. CASE enqueue_finalize_job
  <2>1. jobs' \in [JobIds -> SupervisorJob] /\ JobsGood'
    <3>1. CASE \E j \in JobIds : IsNewId(j) /\ WriteJob(j, FinalizeJob(g))
      BY <1>a, <3>1, FinalizeJobType, WriteJobType DEF JobsInv
    <3>2. CASE UNCHANGED jobs
      BY <3>2 DEF TypeOK, JobsInv, JobsGood
    <3> QED BY <1>1, <3>1, <3>2 DEF enqueue_finalize_job
  <2>2. running' \in RunningJob
    BY <1>1, ControlType DEF enqueue_finalize_job, request_same_session_recap_preemption, TypeOK
  <2>3. client' \in [Sessions -> Client]
    BY <1>0, <1>1, FallbackType, GotoType DEF enqueue_finalize_job, ClientPc
  <2> QED BY <1>b, <1>1, <2>1, <2>2, <2>3 DEF enqueue_finalize_job, TypeOK, JobsInv
<1>2. CASE retry_finalize_job
  <2>1. jobs' \in [JobIds -> SupervisorJob] /\ JobsGood'
    <3>1. CASE \E j \in JobIds : WriteJob(j, FinalizeJob(g))
      BY <1>a, <3>1, FinalizeJobType, WriteJobType DEF JobsInv
    <3>2. CASE UNCHANGED jobs
      BY <3>2 DEF TypeOK, JobsInv, JobsGood
    <3> QED BY <1>2, <3>1, <3>2 DEF retry_finalize_job, unresolved_finalize_jobs
  <2> QED BY <1>b, <1>2, <2>1 DEF retry_finalize_job, TypeOK, JobsInv
<1>3. CASE resume_not_unique
  <2>1. client' \in [Sessions -> Client]
    BY <1>0, <1>3, OutcomeType DEF resume_not_unique, ClientPc
  <2> QED BY <1>b, <1>3, <2>1 DEF resume_not_unique, ResumeStep, TypeOK, JobsInv, JobsGood
<1>4. CASE resume_closed
  <2>1. client' \in [Sessions -> Client]
    BY <1>0, <1>4, OutcomeType DEF resume_closed, ClientPc
  <2>2. \A j \in JobIds : /\ [jobs[j] EXCEPT !.status = "Succeeded"] \in SupervisorJob
                          /\ GoodJob([jobs[j] EXCEPT !.status = "Succeeded"])
    BY JobWithStatusType DEF TypeOK, JobsInv, JobsGood, JobStatus
  <2>3. \A j \in JobIds : \/ jobs'[j] = jobs[j]
                          \/ jobs'[j] = [jobs[j] EXCEPT !.status = "Succeeded"]
    BY <1>4 DEF resume_closed
  <2>4. jobs' \in [JobIds -> SupervisorJob]
    BY <1>4, <2>2 DEF resume_closed, TypeOK
  <2>5. JobsGood'
    BY <2>2, <2>3 DEF JobsInv, JobsGood
  <2> QED BY <1>b, <1>4, <2>1, <2>4, <2>5 DEF resume_closed, ResumeStep, TypeOK, JobsInv
<1>5. CASE resume_open
  <2>1. client' \in [Sessions -> Client]
    BY <1>0, <1>5, OutcomeType DEF resume_open, ClientPc
  <2> QED BY <1>b, <1>5, <2>1 DEF resume_open, ResumeStep, TypeOK, JobsInv, JobsGood
<1>6. CASE resume_orphan
  <2> DEFINE m == gate.meta
  <2>1. CASE Release /\ UNCHANGED jobs /\ Outcome(g, At("none")) /\ UNCHANGED lock
    <3>1. client' \in [Sessions -> Client]
      BY <1>0, <2>1, OutcomeType DEF ClientPc
    <3> QED BY <1>b, <1>6, <2>1, <3>1 DEF resume_orphan, ResumeStep, TypeOK, JobsInv, JobsGood
  <2>2. ASSUME NEW j \in JobIds, WriteJob(j, FinalizeJob(g)), Outcome(g, Polling(j)),
               Release, UNCHANGED lock
        PROVE  TypeInv'
    <3>1. client' \in [Sessions -> Client]
      BY <2>2, OutcomeType, PollingType DEF JobIds
    <3>2. jobs' \in [JobIds -> SupervisorJob] /\ JobsGood'
      BY <1>a, <2>2, FinalizeJobType, WriteJobType DEF JobsInv
    <3> QED BY <1>b, <1>6, <2>2, <3>1, <3>2 DEF resume_orphan, ResumeStep, TypeOK, JobsInv
  <2>3. ASSUME lock' = [lock EXCEPT ![g] = "gate"], UNCHANGED client,
               \/ \E j \in JobIds : /\ WriteJob(j, RecapJob(g, m.msgs))
                                    /\ gate' = [gate EXCEPT !.op = "open", !.job = j,
                                                            !.orig = FinalizeJob(g)]
               \/ gate' = [gate EXCEPT !.op = "open"] /\ UNCHANGED jobs
        PROVE  TypeInv'
    <3>1. lock' \in [Sessions -> {"free", "worker", "client", "gate"}]
      BY <2>3 DEF TypeOK
    <3>2. jobs' \in [JobIds -> SupervisorJob] /\ JobsGood'
      <4>1. CASE \E j \in JobIds : WriteJob(j, RecapJob(g, m.msgs))
        BY <1>a, <4>1, RecapJobType, WriteJobType DEF JobsInv
      <4>2. CASE UNCHANGED jobs
        BY <4>2 DEF TypeOK, JobsInv, JobsGood
      <4> QED BY <2>3, <4>1, <4>2
    <3>3. gate' \in Gate /\ GoodJob(gate'.orig) /\ gate'.op = "open" /\ gate'.sess = gate.sess
      <4>1. ASSUME NEW j \in JobIds,
                   gate' = [gate EXCEPT !.op = "open", !.job = j, !.orig = FinalizeJob(g)]
            PROVE  /\ gate' \in Gate /\ GoodJob(gate'.orig)
                   /\ gate'.op = "open" /\ gate'.sess = gate.sess
        BY <1>a, <4>1, FinalizeJobType, GateOpenType
      <4>2. CASE gate' = [gate EXCEPT !.op = "open"]
        BY <4>2 DEF TypeOK, JobsInv, Gate, GateOps
      <4> QED BY <2>3, <4>1, <4>2
    <3> QED BY <1>a, <1>6, <2>3, <3>1, <3>2, <3>3 DEF resume_orphan, ResumeStep, TypeOK, JobsInv
  <2> QED BY <1>6, <2>1, <2>2, <2>3 DEF resume_orphan
<1>c. \A j \in JobIds : TakenJob(j) \in SupervisorJob /\ GoodJob(TakenJob(j))
  BY RecoveredJobType DEF TakenJob, TypeOK, JobsInv, JobsGood
<1>7. ASSUME NEW j \in JobIds, resume_checkpointed(j) PROVE TypeInv'
  <2>1. client' \in [Sessions -> Client]
    BY <1>7, OutcomeType, PollingType DEF resume_checkpointed, JobIds
  <2>2. jobs' \in [JobIds -> SupervisorJob] /\ JobsGood'
    BY <1>a, <1>c, <1>7, FinalizeJobType, WriteJobType DEF resume_checkpointed, JobsInv
  <2> QED BY <1>b, <1>7, <2>1, <2>2 DEF resume_checkpointed, ResumeStep, TypeOK, JobsInv
<1>8. ASSUME NEW j \in JobIds, resume_running(j) PROVE TypeInv'
  <2>1. [pc |-> "awaiting", job |-> j] \in Client /\ Polling(j) \in Client
    BY PollingType DEF Client, ClientPc, JobIds
  <2>2. client' \in [Sessions -> Client]
    BY <1>8, <2>1, OutcomeType DEF resume_running
  <2>3. [running EXCEPT !.target = gate.meta.msgs] \in RunningJob
    BY <1>a DEF TypeOK, RunningJob
  <2>4. running' \in RunningJob
    BY <1>8, <2>3, ControlType DEF resume_running
  <2> QED BY <1>b, <1>8, <2>2, <2>4 DEF resume_running, ResumeStep, TypeOK, JobsInv, JobsGood
<1>9. ASSUME NEW j \in JobIds, resume_convert(j) PROVE TypeInv'
  <2>1. jobs' \in [JobIds -> SupervisorJob] /\ JobsGood'
    BY <1>a, <1>9, RecapJobType, WriteJobType DEF resume_convert, JobsInv
  <2>2. gate' \in Gate /\ gate'.orig = TakenJob(j) /\ gate'.op = "open" /\ gate'.sess = gate.sess
    BY <1>c, <1>9, GateOpenType DEF resume_convert
  <2> QED BY <1>a, <1>c, <1>9, <2>1, <2>2 DEF resume_convert, ResumeStep, TypeOK, JobsInv
<1>10. CASE open_finalizing_session_for_resume
  <2>1. sess' \in [Sessions -> SessionMetadata]
    BY <1>10, SetStatusType DEF open_finalizing_session_for_resume, TypeOK, SessionStatus
  <2>2. client' \in [Sessions -> Client]
    BY <1>0, <1>10, OutcomeType DEF open_finalizing_session_for_resume, ClientPc
  <2>3. jobs' \in [JobIds -> SupervisorJob] /\ JobsGood'
    <3>1. CASE UNCHANGED jobs
      BY <3>1 DEF TypeOK, JobsInv, JobsGood
    <3>2. CASE WriteJob(gate.job, gate.orig)
      BY <1>a, <3>2, WriteJobType DEF JobsInv
    <3> QED BY <1>10, <3>1, <3>2 DEF open_finalizing_session_for_resume, WriteJob
  <2>4. lock' \in [Sessions -> {"free", "worker", "client", "gate"}]
    BY <1>10 DEF open_finalizing_session_for_resume, Unlocked, TypeOK
  <2>5. faults' \in 0..MaxFaults
    BY <1>10 DEF open_finalizing_session_for_resume, WriteError, Fault, TypeOK
  <2> QED BY <1>b, <1>10, <2>1, <2>2, <2>3, <2>4, <2>5
          DEF open_finalizing_session_for_resume, TypeOK, JobsInv
<1> QED
  BY <1>1, <1>2, <1>3, <1>4, <1>5, <1>6, <1>7, <1>8, <1>9, <1>10 DEF HandlerStep

\* The worker picks a job that has an attempt left.
LEMMA PickTypeInv ==
  ASSUME TypeInv, pick_job
  PROVE  TypeInv'
<1> USE SupervisorAssumption
<1> USE DEF TypeInv
<1>1. PICK j \in JobIds :
        /\ next_queued_job(j)
        /\ wk' = [IdleWorker EXCEPT !.pc = "picked", !.job = j, !.rec = jobs[j]]
        /\ running' = [NoRunning EXCEPT !.job = j]
  BY DEF pick_job
<1>2. /\ jobs[j].status = "Queued" /\ jobs[j].kind # "None"
      /\ jobs[j] \in SupervisorJob /\ GoodJob(jobs[j])
  BY <1>1 DEF next_queued_job, Queued, TypeOK, JobsInv, JobsGood
<1>3. j \in 0..MaxJobs
  BY DEF JobIds
<1>4. running' \in RunningJob
  BY <1>1, <1>3, NewRecordsType DEF RunningJob, NoRunning
<1>5. wk' = [pc |-> "picked", job |-> j, rec |-> jobs[j], end |-> 0, pre |-> TRUE]
  BY <1>1 DEF IdleWorker
<1>6. wk' \in Worker
  BY <1>2, <1>3, <1>5 DEF Worker, WorkerPc, Indexes
<1>7. JobsInv'
  BY <1>2, <1>5 DEF pick_job, JobsInv, JobsGood, GoodJob
<1> QED BY <1>4, <1>6, <1>7 DEF pick_job, TypeOK

\* A busy worker that moves on keeps its job; only charging and requeueing
\* change its copy of it.
LEMMA WorkerKeepsJob ==
  ASSUME TypeInv, wk.pc \notin {"idle", "convert"},
         wk' \in Worker, wk'.rec = wk.rec, wk'.job = wk.job,
         wk'.pc \notin {"picked", "recovering"},
         JobsGood', UNCHANGED gate
  PROVE  JobsInv'
BY DEF TypeInv, JobsInv

\* The sessions and the locks as the worker leaves them.
LEMMA LeaveType ==
  ASSUME TypeOK, NEW pc \in WorkerPc, Leave(pc)
  PROVE  /\ wk' \in Worker /\ wk'.rec = wk.rec /\ wk'.job = wk.job /\ wk'.pc = pc
         /\ lock' \in [Sessions -> {"free", "worker", "client", "gate"}]
<1>1. WkGoto(pc)
  BY DEF Leave
<1>2. lock' \in [Sessions -> {"free", "worker", "client", "gate"}]
  BY DEF Leave, Unlocked, TypeOK
<1> QED BY <1>1, <1>2, WkGotoType

\* Moving on with another end of the segment.
LEMMA WkSegmentType ==
  ASSUME TypeOK, NEW pc \in WorkerPc, NEW e \in Indexes,
         wk' = [wk EXCEPT !.pc = pc, !.end = e]
  PROVE  wk' \in Worker /\ wk'.rec = wk.rec /\ wk'.job = wk.job /\ wk'.pc = pc
BY DEF TypeOK, Worker

\* Moving on with another copy of the job.
LEMMA WkRecordType ==
  ASSUME TypeOK, NEW pc \in WorkerPc, NEW r \in SupervisorJob,
         wk' = [wk EXCEPT !.pc = pc, !.rec = r]
  PROVE  wk' \in Worker /\ wk'.rec = r /\ wk'.job = wk.job /\ wk'.pc = pc
BY DEF TypeOK, Worker

EngineStep ==
  \/ enter_session \/ lock_session \/ finalize_locked \/ recap_locked
  \/ recover_current_recap_checkpoint_prefix \/ advance_recovered_prefix
  \/ finalize_segment \/ commit_prepared \/ apply_finalize_checkpoint
  \/ commit_segment \/ attempt_fails

\* The steps inside the session engine touch no job file.
LEMMA EngineStepTypeInv ==
  ASSUME TypeInv, EngineStep
  PROVE  TypeInv'
<1> USE SupervisorAssumption
<1> USE DEF TypeInv
<1>a. wk.pc \notin {"idle", "convert"} /\ UNCHANGED <<jobs, gate>>
  BY DEF EngineStep, WkAt, enter_session, lock_session, finalize_locked, recap_locked,
         recover_current_recap_checkpoint_prefix, advance_recovered_prefix,
         finalize_segment, commit_prepared, apply_finalize_checkpoint, commit_segment,
         attempt_fails
<1>b. S \in Sessions
  BY <1>a DEF S, JobsInv
<1>c. /\ sess[S].recapped \in Indexes /\ sess[S].msgs \in Indexes
      /\ sess[S].status \in SessionStatus
      /\ ckpt[S].end \in Indexes /\ wk.rec.target \in Indexes /\ wk.end \in Indexes
  BY <1>b DEF TypeOK, SessionMetadata, FinalizeCheckpoint, Worker, SupervisorJob
<1>d. JobsGood'
  BY <1>a DEF JobsInv, JobsGood
<1>e. MarkPrepared(running) \in RunningJob
  BY ControlType DEF TypeOK
<1>f. {"lock", "locked", "completed", "preempted", "recover", "recovered", "segment",
       "prepare", "apply", "upload", "failed"}
        \subseteq WorkerPc \ {"picked", "recovering"}
  BY DEF WorkerPc
<1>g. "Finalizing" \in SessionStatus /\ "Closed" \in SessionStatus
  BY DEF SessionStatus
<1> DEFINE Kept == /\ wk' \in Worker /\ wk'.rec = wk.rec /\ wk'.job = wk.job
                   /\ wk'.pc \notin {"picked", "recovering"}
<1>h. Kept => JobsInv'
  BY <1>a, <1>d, WorkerKeepsJob
<1>1. CASE enter_session
  <2>1. Kept
    BY <1>f, <1>1, WkGotoType DEF enter_session
  <2>2. sess' \in [Sessions -> SessionMetadata]
    BY <1>g, <1>1, SetStatusType DEF enter_session, TypeOK
  <2> QED BY <1>h, <1>1, <2>1, <2>2 DEF enter_session, TypeOK
<1>2. CASE lock_session
  <2>1. Kept
    BY <1>f, <1>2, WkGotoType DEF lock_session
  <2>2. lock' \in [Sessions -> {"free", "worker", "client", "gate"}]
    BY <1>2 DEF lock_session, TypeOK
  <2> QED BY <1>h, <1>2, <2>1, <2>2 DEF lock_session, TypeOK
<1>3. CASE finalize_locked
  <2>1. Kept
    BY <1>c, <1>f, <1>3, LeaveType, WkGotoType, WkSegmentType DEF finalize_locked
  <2>2. sess' \in [Sessions -> SessionMetadata]
    BY <1>g, <1>3, SetStatusType DEF finalize_locked, TypeOK
  <2>3. lock' \in [Sessions -> {"free", "worker", "client", "gate"}]
    BY <1>f, <1>3, LeaveType DEF finalize_locked, TypeOK
  <2>4. running' \in RunningJob
    BY <1>e, <1>3 DEF finalize_locked, TypeOK
  <2> QED BY <1>h, <1>3, <2>1, <2>2, <2>3, <2>4 DEF finalize_locked, TypeOK
<1>4. CASE recap_locked
  <2>1. Kept
    BY <1>c, <1>f, <1>4, LeaveType, WkSegmentType DEF recap_locked
  <2>2. lock' \in [Sessions -> {"free", "worker", "client", "gate"}]
    BY <1>f, <1>4, LeaveType DEF recap_locked, TypeOK
  <2>3. running' \in RunningJob
    BY <1>e, <1>4 DEF recap_locked, TypeOK
  <2> QED BY <1>h, <1>4, <2>1, <2>2, <2>3 DEF recap_locked, TypeOK
<1>5. CASE recover_current_recap_checkpoint_prefix
  <2>1. Kept
    BY <1>f, <1>5, WkGotoType DEF recover_current_recap_checkpoint_prefix
  <2> QED BY <1>h, <1>5, <2>1, ApplyCheckpointType
          DEF recover_current_recap_checkpoint_prefix, TypeOK
<1>6. CASE advance_recovered_prefix
  <2>1. Kept
    BY <1>f, <1>6, WkGotoType DEF advance_recovered_prefix
  <2>2. sess' \in [Sessions -> SessionMetadata]
    <3>1. PICK e \in Indexes : sess' = [sess EXCEPT ![S].recapped = e]
      BY <1>c, <1>6 DEF advance_recovered_prefix
    <3> QED BY <3>1 DEF TypeOK, SessionMetadata
  <2> QED BY <1>h, <1>6, <2>1, <2>2 DEF advance_recovered_prefix, TypeOK
<1>7. CASE finalize_segment
  <2>1. Kept
    BY <1>c, <1>f, <1>7, LeaveType, WkSegmentType DEF finalize_segment
  <2>2. sess' \in [Sessions -> SessionMetadata]
    BY <1>g, <1>7, SetStatusType DEF finalize_segment, TypeOK
  <2>3. lock' \in [Sessions -> {"free", "worker", "client", "gate"}]
    BY <1>f, <1>7, LeaveType DEF finalize_segment, TypeOK
  <2>4. running' \in RunningJob
    BY <1>e, <1>7 DEF finalize_segment, TypeOK
  <2> QED BY <1>h, <1>7, <2>1, <2>2, <2>3, <2>4 DEF finalize_segment, TypeOK
<1>8. CASE commit_prepared
  <2>1. Kept
    BY <1>f, <1>8, LeaveType, WkGotoType DEF commit_prepared
  <2>2. ckpt' \in [Sessions -> FinalizeCheckpoint]
    <3>1. [start |-> sess[S].recapped, end |-> wk.end, status |-> "Prepared"] \in FinalizeCheckpoint
      BY <1>c, <1>8 DEF commit_prepared, TypeOK, FinalizeCheckpoint
    <3> QED BY <1>8, <3>1 DEF commit_prepared, TypeOK
  <2>3. lock' \in [Sessions -> {"free", "worker", "client", "gate"}]
    BY <1>f, <1>8, LeaveType DEF commit_prepared, TypeOK
  <2>4. running' \in RunningJob
    BY <1>e, <1>8 DEF commit_prepared, TypeOK
  <2> QED BY <1>h, <1>8, <2>1, <2>2, <2>3, <2>4 DEF commit_prepared, TypeOK
<1>9. CASE apply_finalize_checkpoint
  <2>1. Kept
    BY <1>f, <1>9, WkGotoType DEF apply_finalize_checkpoint
  <2> QED BY <1>h, <1>9, <2>1, ApplyCheckpointType DEF apply_finalize_checkpoint, TypeOK
<1>10. CASE commit_segment
  <2>1. Kept
    BY <1>f, <1>10, LeaveType DEF commit_segment
  <2>2. sess' \in [Sessions -> SessionMetadata]
    <3>1. PICK e \in Indexes, st \in SessionStatus :
            sess' = [sess EXCEPT ![S].recapped = e, ![S].status = st]
      <4>1. sess' = [sess EXCEPT ![S].recapped = IF sess[S].recapped < wk.end
                                                 THEN wk.end ELSE sess[S].recapped,
                                 ![S].status = IF IsFinalize THEN "Closed" ELSE sess[S].status]
        BY <1>b, <1>10 DEF commit_segment, TypeOK, SessionMetadata
      <4> QED BY <1>c, <1>g, <4>1
    <3> QED BY <3>1 DEF TypeOK, SessionMetadata
  <2>3. lock' \in [Sessions -> {"free", "worker", "client", "gate"}]
    BY <1>f, <1>10, LeaveType DEF commit_segment
  <2> QED BY <1>h, <1>10, <2>1, <2>2, <2>3 DEF commit_segment, TypeOK
<1>11. CASE attempt_fails
  <2>1. Kept /\ lock' \in [Sessions -> {"free", "worker", "client", "gate"}]
    BY <1>f, <1>11, LeaveType DEF attempt_fails
  <2> QED BY <1>h, <1>11, <2>1 DEF attempt_fails, TypeOK
<1> QED
  BY <1>1, <1>2, <1>3, <1>4, <1>5, <1>6, <1>7, <1>8, <1>9, <1>10, <1>11 DEF EngineStep

JobStep ==
  \/ publish_running \/ defer_job \/ report_deferred \/ charge_attempt \/ finish_attempt
  \/ convert_finalize_job \/ open_converted_session
  \/ write_succeeded \/ write_failure \/ report_failure \/ job_write_fails \/ end_job

\* The steps of run_job and worker_loop around the engine.
LEMMA JobStepTypeInv ==
  ASSUME TypeInv, JobStep
  PROVE  TypeInv'
<1> USE SupervisorAssumption
<1> USE DEF TypeInv
<1>0. \A pc \in ClientPc : At(pc) \in Client
  BY AtType
<1>a. wk.pc # "idle"
  BY DEF JobStep, WkAt, publish_running, defer_job, report_deferred, charge_attempt,
         finish_attempt, convert_finalize_job, open_converted_session, write_succeeded,
         write_failure, report_failure, job_write_fails, end_job, JobsInv
<1>b. /\ S \in Sessions /\ wk.rec.sess \in Sessions /\ wk.job \in JobIds /\ wk.job \in 0..MaxJobs
      /\ wk.rec \in SupervisorJob /\ GoodJob(wk.rec) /\ wk.rec.att \in 0..MaxAttempts
      /\ running \in RunningJob /\ running.target \in Indexes
  BY <1>a DEF S, JobsInv, TypeOK, Worker, RunningJob, SupervisorJob
<1>c. {"Running", "Queued", "Succeeded"} \subseteq JobStatus
  BY DEF JobStatus
<1>d. {"none", "opened", "resuming"} \subseteq ClientPc
  BY DEF ClientPc
<1>e. {"enter", "ok", "fail", "convert", "notify", "end", "error", "deferred", "recovering"}
        \subseteq WorkerPc
  BY DEF WorkerPc
<1>f. /\ [running EXCEPT !.sent = TRUE] \in RunningJob
      /\ [finish(running) EXCEPT !.sent = TRUE] \in RunningJob
  <2>1. finish(running) \in RunningJob
    BY <1>b, ControlType
  <2> QED BY <1>b, <2>1 DEF RunningJob
<1>1. CASE publish_running
  <2> DEFINE rec == [wk.rec EXCEPT !.status = "Running"]
  <2>1. /\ rec \in SupervisorJob /\ GoodJob(rec)
        /\ rec.att = wk.rec.att /\ rec.sess = wk.rec.sess /\ rec.status = "Running"
    BY <1>b, <1>c, JobWithStatusType DEF SupervisorJob
  <2>2. WriteJob(wk.job, rec) /\ wk' = [wk EXCEPT !.pc = "recovering", !.rec = rec]
    BY <1>1 DEF publish_running
  <2> HIDE DEF rec
  <2>3. wk' \in Worker /\ wk'.rec = rec /\ wk'.job = wk.job /\ wk'.pc = "recovering"
    BY <1>e, <2>1, <2>2, WkRecordType
  <2>4. jobs' \in [JobIds -> SupervisorJob] /\ JobsGood'
    BY <2>1, <2>2, WriteJobType DEF JobsInv
  <2>5. JobsInv'
    BY <1>b, <1>1, <2>1, <2>3, <2>4 DEF publish_running, WkAt, JobsInv
  <2> QED BY <1>1, <2>3, <2>4, <2>5 DEF publish_running, TypeOK
<1>2. CASE defer_job
  <2> DEFINE rec == [wk.rec EXCEPT !.status = "Queued"]
  <2>1. wk.rec.att < MaxAttempts
    BY <1>2 DEF defer_job, WkAt, JobsInv
  <2>2. rec \in SupervisorJob /\ GoodJob(rec) /\ rec.sess = wk.rec.sess
    BY <1>b, <1>c, <2>1 DEF SupervisorJob, GoodJob
  <2>3. WriteJob(wk.job, rec) /\ wk' = [wk EXCEPT !.pc = "deferred", !.rec = rec]
    BY <1>2 DEF defer_job
  <2> HIDE DEF rec
  <2>4. wk' \in Worker /\ wk'.rec = rec /\ wk'.job = wk.job /\ wk'.pc = "deferred"
    BY <1>e, <2>2, <2>3, WkRecordType
  <2>5. jobs' \in [JobIds -> SupervisorJob] /\ JobsGood'
    BY <2>2, <2>3, WriteJobType DEF JobsInv
  <2>6. JobsInv'
    BY <1>b, <1>2, <2>2, <2>4, <2>5 DEF defer_job, WkAt, JobsInv
  <2> QED BY <1>2, <2>4, <2>5, <2>6 DEF defer_job, TypeOK
<1>3. CASE charge_attempt
  <2> DEFINE rec == [wk.rec EXCEPT !.att = @ + 1]
  <2>1. wk.rec.att < MaxAttempts
    BY <1>3 DEF charge_attempt, WkAt, JobsInv
  <2>2. wk.rec.att + 1 \in 0..MaxAttempts
    BY <1>b, <2>1
  <2>3. rec \in SupervisorJob /\ rec.sess = wk.rec.sess /\ rec.kind = wk.rec.kind
    BY <1>b, <2>2 DEF SupervisorJob
  <2>4. wk.rec.status # "Queued"
    BY <1>3 DEF charge_attempt, WkAt, JobsInv
  <2>5. GoodJob(rec)
    BY <1>b, <2>3, <2>4 DEF SupervisorJob, GoodJob
  <2>6. WriteJob(wk.job, rec) /\ wk' = [wk EXCEPT !.pc = "enter", !.rec = rec]
    BY <1>3 DEF charge_attempt
  <2> HIDE DEF rec
  <2>7. wk' \in Worker /\ wk'.rec = rec /\ wk'.job = wk.job /\ wk'.pc = "enter"
    BY <1>e, <2>3, <2>6, WkRecordType
  <2>8. jobs' \in [JobIds -> SupervisorJob] /\ JobsGood'
    BY <2>3, <2>5, <2>6, WriteJobType DEF JobsInv
  <2>9. JobsInv'
    BY <1>b, <1>3, <2>3, <2>5, <2>7, <2>8 DEF charge_attempt, WkAt, JobsInv
  <2> QED BY <1>3, <2>7, <2>8, <2>9 DEF charge_attempt, TypeOK
<1>4. CASE report_deferred
  <2>1. client' \in [Sessions -> Client]
    BY <1>0, <1>d, <1>4, DeliverType DEF report_deferred
  <2>2. wk' \in Worker /\ wk'.rec = wk.rec /\ wk'.job = wk.job /\ wk'.pc = "end"
    BY <1>e, <1>4, WkGotoType DEF report_deferred
  <2>3. JobsInv'
    BY <1>4, <2>2, WorkerKeepsJob DEF report_deferred, WkAt, JobsInv, JobsGood
  <2> QED BY <1>f, <1>4, <2>1, <2>2, <2>3 DEF report_deferred, TypeOK
<1>5. CASE finish_attempt
  <2>1. wk.pc \in {"completed", "failed", "preempted"}
    BY <1>5 DEF finish_attempt, WkAt
  <2>2. running' \in RunningJob
    <3>1. finish(running) \in RunningJob /\ finish(running).sent \in BOOLEAN
      BY <1>b, ControlType DEF RunningJob
    <3>2. \A b \in BOOLEAN : [finish(running) EXCEPT !.sent = b] \in RunningJob
      BY <3>1 DEF RunningJob
    <3>3. CASE wk.pre
      <4>1. running' = [finish(running) EXCEPT
              !.sent = finish(running).sent \/ (IsFinalize /\ wk.pc = "completed")]
        BY <1>5, <3>3, Zenon DEF finish_attempt
      <4> QED BY <3>1, <3>2, <4>1, Zenon
    <3> QED BY <1>5, <1>b, <3>3 DEF finish_attempt
  <2>3. client' \in [Sessions -> Client]
    BY <1>b, <1>5, DeliverType, PollingType DEF finish_attempt, TypeOK
  <2>4. PICK pc \in {"convert", "ok", "fail"} : WkGoto(pc)
    BY <1>5, <2>1 DEF finish_attempt
  <2>5. wk' \in Worker /\ wk'.rec = wk.rec /\ wk'.job = wk.job /\ wk'.pc = pc
    BY <1>e, <2>4, WkGotoType
  <2>6. JobsInv'
    BY <1>5, <2>1, <2>5, WorkerKeepsJob DEF finish_attempt, JobsInv, JobsGood
  <2> QED BY <1>5, <2>2, <2>3, <2>5, <2>6 DEF finish_attempt, TypeOK
<1>6. CASE convert_finalize_job
  <2>1. jobs' \in [JobIds -> SupervisorJob] /\ JobsGood'
    BY <1>b, <1>6, RecapJobType, WriteJobType DEF convert_finalize_job, JobsInv
  <2>2. gate' = [op |-> "wopen", sess |-> S, meta |-> NewMeta, job |-> wk.job, orig |-> NoJob]
    BY <1>6 DEF convert_finalize_job, FreeGate
  <2>3. gate' \in Gate
    BY <1>b, <2>2, NewRecordsType DEF Gate, GateOps
  <2>4. JobsInv'
    <3>1. GoodJob(gate'.orig) /\ gate'.sess \in Sessions
      BY <1>b, <2>2 DEF GoodJob, NoJob
    <3> QED BY <1>b, <1>6, <2>1, <3>1 DEF convert_finalize_job, JobsInv
  <2> QED BY <1>6, <2>1, <2>3, <2>4 DEF convert_finalize_job, TypeOK
<1>7. CASE open_converted_session
  <2>1. client' \in [Sessions -> Client]
    BY <1>0, <1>d, <1>7, DeliverType DEF open_converted_session
  <2>2. sess' \in [Sessions -> SessionMetadata]
    BY <1>7, SetStatusType DEF open_converted_session, TypeOK, SessionStatus
  <2>3. jobs' \in [JobIds -> SupervisorJob] /\ JobsGood'
    <3>1. CASE UNCHANGED jobs
      BY <3>1 DEF TypeOK, JobsInv, JobsGood
    <3>2. CASE WriteJob(wk.job, wk.rec)
      BY <1>b, <3>2, WriteJobType DEF JobsInv
    <3> QED BY <1>7, <3>1, <3>2 DEF open_converted_session
  <2>4. faults' \in 0..MaxFaults
    BY <1>7 DEF open_converted_session, WriteError, Fault, TypeOK
  <2>5. wk' \in Worker /\ wk'.rec = wk.rec /\ wk'.job = wk.job /\ wk'.pc \in {"enter", "end"}
    <3>1. CASE WkGoto("end")
      BY <1>e, <3>1, WkGotoType
    <3>2. CASE wk' = [wk EXCEPT !.pc = "enter", !.pre = FALSE]
      BY <1>e, <3>2 DEF TypeOK, Worker
    <3> QED BY <1>7, <3>1, <3>2 DEF open_converted_session
  <2>6. gate' \in Gate /\ GoodJob(gate'.orig) /\ gate'.op = "free"
    BY <1>7, NewRecordsType DEF open_converted_session, Release, FreeGate, NoJob, GoodJob
  <2>7. JobsInv'
    BY <1>b, <2>3, <2>5, <2>6 DEF JobsInv
  <2> QED BY <1>f, <1>7, <2>1, <2>2, <2>3, <2>4, <2>5, <2>6, <2>7
          DEF open_converted_session, TypeOK
<1>8. CASE write_succeeded
  <2>1. jobs' \in [JobIds -> SupervisorJob] /\ JobsGood'
    BY <1>b, <1>c, <1>8, JobWithStatusType, WriteJobType DEF write_succeeded, JobsInv
  <2>2. wk' \in Worker /\ wk'.rec = wk.rec /\ wk'.job = wk.job /\ wk'.pc = "end"
    BY <1>e, <1>8, WkGotoType DEF write_succeeded
  <2>3. JobsInv'
    BY <1>8, <2>1, <2>2, WorkerKeepsJob DEF write_succeeded, WkAt
  <2> QED BY <1>8, <2>1, <2>2, <2>3 DEF write_succeeded, TypeOK
<1>9. CASE write_failure
  <2>1. jobs' \in [JobIds -> SupervisorJob] /\ JobsGood'
    BY <1>b, <1>9, FailedAttemptType, WriteJobType DEF write_failure, JobsInv
  <2>2. wk' \in Worker /\ wk'.rec = wk.rec /\ wk'.job = wk.job /\ wk'.pc \in {"notify", "end"}
    BY <1>e, <1>9, WkGotoType DEF write_failure
  <2>3. JobsInv'
    BY <1>9, <2>1, <2>2, WorkerKeepsJob DEF write_failure, WkAt
  <2> QED BY <1>9, <2>1, <2>2, <2>3 DEF write_failure, TypeOK
<1>10. CASE report_failure
  <2>1. client' \in [Sessions -> Client]
    BY <1>0, <1>d, <1>10, DeliverType DEF report_failure
  <2>2. wk' \in Worker /\ wk'.rec = wk.rec /\ wk'.job = wk.job /\ wk'.pc = "end"
    BY <1>e, <1>10, WkGotoType DEF report_failure
  <2>3. running' \in RunningJob
    BY <1>f, <1>10, NewRecordsType DEF report_failure
  <2>4. JobsInv'
    BY <1>10, <2>2, WorkerKeepsJob DEF report_failure, WkAt, JobsInv, JobsGood
  <2> QED BY <1>10, <2>1, <2>2, <2>3, <2>4 DEF report_failure, TypeOK
<1>11. CASE job_write_fails
  <2>1. wk.pc \in {"picked", "recovering", "ok", "fail"}
    BY <1>11 DEF job_write_fails, WkAt
  <2>2. wk' \in Worker /\ wk'.rec = wk.rec /\ wk'.job = wk.job /\ wk'.pc = "error"
    BY <1>e, <1>11, WkGotoType DEF job_write_fails
  <2>3. faults' \in 0..MaxFaults
    BY <1>11 DEF job_write_fails, WriteError, Fault, TypeOK
  <2>4. JobsInv'
    BY <1>11, <2>1, <2>2, WorkerKeepsJob DEF job_write_fails, JobsInv, JobsGood
  <2> QED BY <1>11, <2>2, <2>3, <2>4 DEF job_write_fails, TypeOK
<1>12. CASE end_job
  <2>1. client' \in [Sessions -> Client]
    BY <1>0, <1>d, <1>12, DeliverType DEF end_job
  <2>2. jobs[wk.job] \in SupervisorJob /\ GoodJob(jobs[wk.job])
    BY <1>b DEF TypeOK, JobsInv, JobsGood
  <2>3. jobs' \in [JobIds -> SupervisorJob] /\ JobsGood'
    <3>1. CASE UNCHANGED jobs
      BY <3>1 DEF TypeOK, JobsInv, JobsGood
    <3>2. CASE WriteJob(wk.job, recover_stale_running_job(jobs[wk.job],
                                  sess[jobs[wk.job].sess].status))
      BY <2>2, <3>2, RecoveredJobType, WriteJobType DEF JobsInv
    <3> QED BY <1>12, <3>1, <3>2 DEF end_job, reconcile_running_job_after_runner_error
  <2>4. JobsInv'
    BY <1>12, <2>3 DEF end_job, JobsInv, IdleWorker, NoJob, GoodJob
  <2> QED BY <1>12, <2>1, <2>3, <2>4, NewRecordsType DEF end_job, TypeOK
<1> QED
  BY <1>1, <1>2, <1>3, <1>4, <1>5, <1>6, <1>7, <1>8, <1>9, <1>10, <1>11, <1>12 DEF JobStep

\* Starting settles every Running job; a crash forgets all but the files.
LEMMA ProcessStepTypeInv ==
  ASSUME TypeInv, ProcessStep
  PROVE  TypeInv'
<1> USE SupervisorAssumption
<1> USE DEF TypeInv
<1>1. CASE start
  <2> DEFINE r(j) == recover_stale_running_job(jobs[j], sess[jobs[j].sess].status)
  <2>1. \A j \in JobIds : r(j) \in SupervisorJob /\ GoodJob(r(j))
    BY RecoveredJobType DEF TypeOK, JobsInv, JobsGood
  <2>2. jobs' = [j \in JobIds |-> IF jobs[j].kind # "None" /\ jobs[j].status = "Running"
                                 THEN r(j) ELSE jobs[j]]
    BY <1>1 DEF start
  <2> HIDE DEF r
  <2>3. jobs' \in [JobIds -> SupervisorJob] /\ JobsGood'
    BY <2>1, <2>2 DEF TypeOK, JobsInv, JobsGood
  <2> QED BY <1>1, <2>3 DEF start, TypeOK, JobsInv
<1>2. CASE begin_idle_shutdown_if_due \/ stop_requested \/ stopped
  BY <1>2 DEF begin_idle_shutdown_if_due, stop_requested, stopped, TypeOK, JobsInv, JobsGood
<1>3. CASE crash
  <2>1. \A pc \in ClientPc : At(pc) \in Client
    BY AtType
  <2>2. client' \in [Sessions -> Client]
    BY <1>3, <2>1, FallbackType DEF crash, TypeOK, ClientPc
  <2>3. lock' \in [Sessions -> {"free", "worker", "client", "gate"}] /\ faults' \in 0..MaxFaults
    BY <1>3 DEF crash, Fault, TypeOK
  <2>4. JobsInv'
    BY <1>3 DEF crash, JobsInv, JobsGood, GoodJob, FreeGate, IdleWorker, NoJob
  <2> QED BY <1>3, <2>2, <2>3, <2>4, NewRecordsType DEF crash, TypeOK
<1> QED BY <1>1, <1>2, <1>3 DEF ProcessStep

\* Every step keeps types and budget.
LEMMA NextTypeInv ==
  ASSUME TypeInv, [Next]_vars
  PROVE  TypeInv'
<1>1. CASE Next
  <2>1. WorkerStep => EngineStep \/ JobStep
    BY DEF WorkerStep, EngineStep, JobStep
  <2> QED BY <1>1, <2>1, ClientStepTypeInv, RequestStepTypeInv, HandlerStepTypeInv, PickTypeInv,
             EngineStepTypeInv, JobStepTypeInv, ProcessStepTypeInv DEF Next
<1>2. CASE UNCHANGED vars
  BY <1>2 DEF vars, TypeInv, TypeOK, JobsInv, JobsGood
<1> QED BY <1>1, <1>2

\* The inductive invariant holds in every reachable state.
LEMMA TypeInvariant == Spec => []TypeInv
BY InitTypeInv, NextTypeInv, PTL DEF Spec

\* Every variable keeps its type, whatever the sessions and the bounds: the
\* worker never charges an attempt beyond the budget, and no step of the
\* takeover, of recovery or of the engine leaves the index range.
THEOREM TypeCorrect == Spec => []TypeOK
<1>1. TypeInv => TypeOK
  BY DEF TypeInv
<1> QED BY <1>1, TypeInvariant, PTL

\* No job waits in the queue with its attempts used up: not after a failed
\* attempt, a deferral, a crash, a restart, a takeover or a restored job file.
THEOREM BudgetIsRespected == Spec => []BudgetRespected
<1>1. TypeInv => BudgetRespected
  BY DEF TypeInv, JobsInv, JobsGood, GoodJob, BudgetRespected
<1> QED BY <1>1, TypeInvariant, PTL

-----------------------------------------------------------------------------
(* Nobody waits for an answer that cannot come *)

\* A registration belongs to the worker, which is still busy with that job.
Registered == running.job # 0 => wk.pc # "idle" /\ wk.job = running.job

AwaitInv == AwaitedJobIsRunning /\ Registered

\* A step after which nobody waits who did not wait before.
NoNewAwait == \A s \in Sessions : client'[s].pc = "awaiting" => client'[s] = client[s]

\* The worker, if busy, stays busy with its job, and no job is registered.
WorkerStays ==
  /\ wk.pc # "idle" => wk'.pc # "idle" /\ wk'.job = wk.job
  /\ running'.job \in {0, running.job}

\* Then whoever waits still waits for the job in hand.
LEMMA AwaitKept ==
  ASSUME AwaitInv, NoNewAwait, WorkerStays
  PROVE  AwaitInv'
BY DEF AwaitInv, AwaitedJobIsRunning, Registered, NoNewAwait, WorkerStays

\* Moving a client to another step than waiting.
LEMMA GotoNoAwait ==
  ASSUME TypeOK, NEW s, NEW c, c.pc # "awaiting", Goto(s, c)
  PROVE  NoNewAwait
BY DEF TypeOK, Goto, NoNewAwait

\* Answering with anything but another wait.
LEMMA DeliverNoAwait ==
  ASSUME NEW j, NEW c, c.pc # "awaiting", Deliver(j, c)
  PROVE  NoNewAwait
BY DEF Deliver, NoNewAwait

\* Replying with anything but a wait.
LEMMA OutcomeNoAwait ==
  ASSUME TypeOK, NEW s, NEW c, c.pc # "awaiting", Outcome(s, c)
  PROVE  NoNewAwait
BY GotoNoAwait DEF Outcome, At

\* The process that owns a session never starts to wait on its own: only the
\* answer of a takeover makes it wait.
LEMMA ClientMovesOn ==
  ASSUME TypeInv, NEW s \in Sessions, ClientStep(s) \/ RequestStep(s)
  PROVE  UNCHANGED client \/ \E c : c.pc # "awaiting" /\ Goto(s, c)
<1> USE DEF TypeInv
<1>1. CASE append_messages(s) \/ fg_recover(s) \/ RequestStep(s)
  BY <1>1 DEF append_messages, fg_recover, RequestStep, request_enqueue, request_retry,
              request_resume, Acquire, create_recap_job
<1>2. CASE mark_session_finalizing(s) \/ finalize_without_job(s) \/ enqueue_unavailable(s)
  BY <1>2 DEF mark_session_finalizing, finalize_without_job, enqueue_unavailable,
              Fallback, At
<1>3. CASE fg_lock(s) \/ fg_prepare(s) \/ fg_close(s) \/ fg_fail(s)
  BY <1>3 DEF fg_lock, fg_prepare, fg_close, fg_fail, FgLeave, At
<1>4. CASE reserve_runtime_session(s)
  <2>1. sess[s].status \in SessionStatus
    BY DEF TypeOK, SessionMetadata
  <2> QED BY <1>4, <2>1 DEF reserve_runtime_session, SessionStatus, At
<1>5. CASE \/ reconcile_skipped(s) \/ mark_open(s) \/ complete_finalizing_resume(s)
           \/ wait_for_resume_finalize_job(s) \/ client_crash(s)
  BY <1>5 DEF reconcile_skipped, mark_open, complete_finalizing_resume,
              wait_for_resume_finalize_job, client_crash, At
<1> QED BY <1>1, <1>2, <1>3, <1>4, <1>5 DEF ClientStep

\* What a client does on its own, and what a request that only takes the gate
\* or queues a Recap does, leaves the worker alone.
LEMMA ClientAwait ==
  ASSUME TypeInv, AwaitInv, NEW s \in Sessions, ClientStep(s) \/ RequestStep(s)
  PROVE  AwaitInv'
<1> USE DEF TypeInv
<1>1. UNCHANGED <<running, wk>>
  BY DEF ClientStep, RequestStep, append_messages, mark_session_finalizing,
         finalize_without_job, enqueue_unavailable, fg_lock, fg_recover, fg_prepare, fg_close,
         fg_fail, reserve_runtime_session, reconcile_skipped, mark_open,
         complete_finalizing_resume, wait_for_resume_finalize_job, client_crash,
         request_enqueue, request_retry, request_resume, Acquire, create_recap_job
<1>2. UNCHANGED client \/ \E c : c.pc # "awaiting" /\ Goto(s, c)
  BY ClientMovesOn
<1>3. NoNewAwait
  BY <1>2, GotoNoAwait DEF NoNewAwait
<1> QED BY <1>1, <1>3, AwaitKept DEF WorkerStays

\* The control operations keep the registered job.
LEMMA ControlKeepsJob ==
  ASSUME NEW r \in RunningJob
  PROVE  /\ request_before_prepared(r).job = r.job
         /\ finish(r).job = r.job
         /\ MarkPrepared(r).job = r.job
BY DEF request_before_prepared, finish, MarkPrepared, RunningJob

\* Only a handler that finds the job registered lets its client wait for it.
LEMMA HandlerAwait ==
  ASSUME TypeInv, AwaitInv, HandlerStep
  PROVE  AwaitInv'
<1> USE DEF TypeInv
<1>a. UNCHANGED wk
  BY DEF HandlerStep, enqueue_finalize_job, retry_finalize_job, resume_not_unique,
         resume_closed, resume_open, resume_orphan, resume_checkpointed, resume_running,
         resume_convert, ResumeStep, open_finalizing_session_for_resume
<1>1. CASE enqueue_finalize_job
  <2>1. NoNewAwait
    <3>1. \E c : c.pc # "awaiting" /\ Goto(gate.sess, c)
      BY <1>1 DEF enqueue_finalize_job, Fallback, At
    <3> QED BY <3>1, GotoNoAwait
  <2>2. running'.job = running.job
    BY <1>1, ControlKeepsJob
       DEF enqueue_finalize_job, request_same_session_recap_preemption, TypeOK
  <2> QED BY <1>a, <2>1, <2>2, AwaitKept DEF WorkerStays
<1>2. ASSUME NEW j \in JobIds, resume_running(j) PROVE AwaitInv'
  <2>1. running.job = j /\ running'.job = j
    <3>1. /\ [running EXCEPT !.target = gate.meta.msgs] \in RunningJob
          /\ [running EXCEPT !.target = gate.meta.msgs].job = running.job
      BY DEF TypeOK, RunningJob, Gate, SessionMetadata
    <3> QED BY <1>2, <3>1, ControlKeepsJob DEF resume_running
  <2>2. wk.pc # "idle" /\ wk.job = j
    BY <2>1, SupervisorAssumption DEF AwaitInv, Registered, JobIds
  <2>3. \A s \in Sessions : client'[s].pc = "awaiting" =>
                               client'[s] = client[s] \/ client'[s].job = j
    BY <1>2 DEF resume_running, Outcome, Goto, At, Polling, TypeOK
  <2> QED BY <1>a, <2>1, <2>2, <2>3 DEF AwaitInv, AwaitedJobIsRunning, Registered
<1>3. CASE \/ retry_finalize_job \/ resume_not_unique \/ resume_closed \/ resume_open
           \/ resume_orphan \/ open_finalizing_session_for_resume
           \/ \E j \in JobIds : resume_checkpointed(j) \/ resume_convert(j)
  <2>1. \/ UNCHANGED client
        \/ \E c : c.pc # "awaiting" /\ Outcome(gate.sess, c)
    <3>1. \A pc : At(pc).pc = pc /\ Polling(pc).pc # "awaiting"
      BY DEF At, Polling
    <3> QED BY <1>3, <3>1 DEF retry_finalize_job, resume_not_unique, resume_closed, resume_open,
              resume_orphan, resume_checkpointed, resume_convert,
              open_finalizing_session_for_resume
  <2>2. NoNewAwait
    BY <2>1, OutcomeNoAwait DEF NoNewAwait
  <2>3. UNCHANGED running
    BY <1>3 DEF retry_finalize_job, resume_not_unique, resume_closed, resume_open,
              resume_orphan, resume_checkpointed, resume_convert,
              open_finalizing_session_for_resume
  <2> QED BY <1>a, <2>2, <2>3, AwaitKept DEF WorkerStays
<1> QED BY <1>1, <1>2, <1>3 DEF HandlerStep

\* The worker moves on with its job until it ends it.
LEMMA BusyWorkerAwait ==
  ASSUME TypeInv, AwaitInv, WorkerStep, ~end_job
  PROVE  AwaitInv'
<1> USE DEF TypeInv
<1>a. running \in RunningJob /\ wk \in Worker
  BY DEF TypeOK
<1>1. UNCHANGED client \/ \E j, c : c.pc # "awaiting" /\ Deliver(j, c)
  <2>1. CASE \/ report_deferred \/ finish_attempt \/ open_converted_session \/ report_failure
    BY <2>1 DEF report_deferred, finish_attempt, open_converted_session, report_failure,
                At, Polling
  <2> QED BY <2>1 DEF WorkerStep, publish_running, defer_job, charge_attempt, enter_session,
        lock_session, finalize_locked, recap_locked, recover_current_recap_checkpoint_prefix,
        advance_recovered_prefix, finalize_segment, commit_prepared,
        apply_finalize_checkpoint, commit_segment, attempt_fails, convert_finalize_job,
        write_succeeded, write_failure, job_write_fails
<1>2. NoNewAwait
  BY <1>1, DeliverNoAwait DEF NoNewAwait
<1>3. wk'.pc # "idle" /\ wk'.job = wk.job
  <2>1. CASE convert_finalize_job
    BY <2>1 DEF convert_finalize_job
  <2>2. CASE \/ publish_running \/ defer_job \/ charge_attempt \/ open_converted_session
             \/ finalize_locked \/ recap_locked \/ finalize_segment
    BY <1>a, <2>2 DEF publish_running, defer_job, charge_attempt, open_converted_session,
         finalize_locked, recap_locked, finalize_segment, Leave, WkGoto, Worker
  <2>3. CASE \/ report_deferred \/ enter_session \/ lock_session
             \/ recover_current_recap_checkpoint_prefix \/ advance_recovered_prefix
             \/ commit_prepared \/ apply_finalize_checkpoint \/ commit_segment \/ attempt_fails
    BY <1>a, <2>3 DEF report_deferred, enter_session, lock_session,
         recover_current_recap_checkpoint_prefix, advance_recovered_prefix,
         commit_prepared, apply_finalize_checkpoint, commit_segment, attempt_fails,
         Leave, WkGoto, Worker
  <2>4. CASE finish_attempt
    <3>1. PICK pc \in {"convert", "ok", "fail"} : WkGoto(pc)
      BY <2>4 DEF finish_attempt, WkAt
    <3> QED BY <1>a, <3>1 DEF WkGoto, Worker
  <2>5. CASE write_succeeded \/ write_failure \/ report_failure \/ job_write_fails
    BY <1>a, <2>5 DEF write_succeeded, write_failure, report_failure, job_write_fails,
         WkGoto, Worker
  <2> QED BY <2>1, <2>2, <2>3, <2>4, <2>5 DEF WorkerStep
<1>4. running'.job \in {0, running.job}
  <2>1. CASE report_failure
    BY <1>a, <2>1 DEF report_failure, NoRunning, RunningJob
  <2>2. CASE report_deferred \/ finish_attempt \/ open_converted_session
    <3>1. finish(running) \in RunningJob /\ finish(running).job = running.job
      BY <1>a, ControlType, ControlKeepsJob
    <3>2. UNCHANGED running \/ \E b : \/ running' = [finish(running) EXCEPT !.sent = b]
                                     \/ running' = [running EXCEPT !.sent = b]
      BY <2>2 DEF report_deferred, finish_attempt, open_converted_session
    <3> QED BY <1>a, <3>1, <3>2 DEF RunningJob
  <2>3. CASE finalize_locked \/ recap_locked \/ finalize_segment \/ commit_prepared
    BY <1>a, <2>3, ControlKeepsJob
       DEF finalize_locked, recap_locked, finalize_segment, commit_prepared
  <2> QED BY <2>1, <2>2, <2>3 DEF WorkerStep, publish_running, defer_job, charge_attempt,
        enter_session, lock_session, recover_current_recap_checkpoint_prefix,
        advance_recovered_prefix, apply_finalize_checkpoint, commit_segment, attempt_fails,
        convert_finalize_job, write_succeeded, write_failure, job_write_fails
<1> QED BY <1>2, <1>3, <1>4, AwaitKept DEF WorkerStays

\* Ending a job, a crash and an idle worker leave nobody waiting.
LEMMA NextAwait ==
  ASSUME TypeInv, AwaitInv, [Next]_vars
  PROVE  AwaitInv'
<1>1. CASE end_job
  <2>1. \A s \in Sessions : client'[s].pc # "awaiting"
    BY <1>1 DEF end_job, Deliver, At, AwaitInv, AwaitedJobIsRunning
  <2> QED BY <1>1, <2>1 DEF end_job, NoRunning, AwaitInv, AwaitedJobIsRunning, Registered
<1>2. CASE pick_job
  <2>1. \A s \in Sessions : client'[s].pc # "awaiting"
    BY <1>2 DEF pick_job, AwaitInv, AwaitedJobIsRunning
  <2>2. wk'.pc # "idle" /\ wk'.job = running'.job
    BY <1>2 DEF pick_job, IdleWorker, NoRunning
  <2> QED BY <2>1, <2>2 DEF AwaitInv, AwaitedJobIsRunning, Registered
<1>3. CASE crash
  BY <1>3 DEF crash, At, Fallback, NoRunning, AwaitInv, AwaitedJobIsRunning, Registered
<1>4. CASE start \/ begin_idle_shutdown_if_due \/ stop_requested \/ stopped
  BY <1>4 DEF start, begin_idle_shutdown_if_due, stop_requested, stopped, AwaitInv,
              AwaitedJobIsRunning, Registered
<1>5. CASE UNCHANGED vars
  BY <1>5 DEF vars, AwaitInv, AwaitedJobIsRunning, Registered
<1> QED BY <1>1, <1>2, <1>3, <1>4, <1>5, ClientAwait, HandlerAwait, BusyWorkerAwait
        DEF Next, ProcessStep

\* Nobody waits for a job that is not registered and in hand.
LEMMA AwaitInvariant == Spec => []AwaitInv
<1>1. Init => AwaitInv
  BY DEF Init, At, NoRunning, AwaitInv, AwaitedJobIsRunning, Registered
<1>2. TypeInv /\ AwaitInv /\ [Next]_vars => AwaitInv'
  BY NextAwait
<1> QED BY <1>1, <1>2, TypeInvariant, PTL DEF Spec

\* A Resume handler that waits for the result of the running Finalize always
\* waits for a job the worker has in hand and will answer for: the job is not
\* unregistered, ended or lost in a crash with a waiter left behind.
THEOREM AwaitedIsRunning == Spec => []AwaitedJobIsRunning
<1>1. AwaitInv => AwaitedJobIsRunning
  BY DEF AwaitInv
<1> QED BY <1>1, AwaitInvariant, PTL

-----------------------------------------------------------------------------
(* What each step does, point by point: the facts the invariants below are *)
(* proved from                                                             *)

Moved(s, c)     == \A x \in Sessions : client'[x] = IF x = s THEN c ELSE client[x]
Restated(s, st) ==
  \A x \in Sessions : /\ sess'[x].msgs = sess[x].msgs
                      /\ sess'[x].recapped = sess[x].recapped
                      /\ sess'[x].status = IF x = s THEN st ELSE sess[x].status
                      /\ x # s => sess'[x] = sess[x]
Relocked(s, h)  == \A x \in Sessions : lock'[x] = IF x = s THEN h ELSE lock[x]
Written(j, rec) == \A x \in JobIds : jobs'[x] = IF x = j THEN rec ELSE jobs[x]
WkKeeps         == wk'.job = wk.job /\ wk'.rec = wk.rec /\ wk'.pre = wk.pre
WkMoved(pc)     == wk'.pc = pc /\ wk'.end = wk.end /\ WkKeeps
WkSegment(pc, e) == wk'.pc = pc /\ wk'.end = e /\ WkKeeps
\* The checkpoint of s counts as applied from now on.
Applied(s) ==
  \A x \in Sessions : /\ ckpt'[x].start = ckpt[x].start /\ ckpt'[x].end = ckpt[x].end
                      /\ ckpt'[x].status = IF x = s THEN "Applied" ELSE ckpt[x].status
                      /\ x # s => ckpt'[x] = ckpt[x]

\* A client that goes to a step.
LEMMA GotoDoes ==
  ASSUME TypeInv, NEW s, NEW c, Goto(s, c)
  PROVE  Moved(s, c)
BY DEF TypeInv, TypeOK, Goto, Moved

\* The answer to a takeover.
LEMMA OutcomeDoes ==
  ASSUME TypeInv, NEW s, NEW c, Outcome(s, c)
  PROVE  Moved(s, IF client[s].pc \in {"reconciling", "settling"} /\ c.pc # "reopening"
                  THEN At("none") ELSE c)
BY GotoDoes DEF Outcome

\* The answer to whoever waits for the running job.
Answered(c) ==
  \A x \in Sessions : client'[x] = client[x] \/ (client[x].pc = "awaiting" /\ client'[x] = c)

\* Deliver answers exactly the handlers that wait.
LEMMA DeliverDoes ==
  ASSUME NEW j, NEW c, Deliver(j, c)
  PROVE  Answered(c)
BY DEF Deliver, Answered

\* A session that gets another status.
LEMMA SetStatusDoes ==
  ASSUME TypeInv, NEW s, NEW st, SetStatus(s, st)
  PROVE  Restated(s, st)
BY DEF TypeInv, TypeOK, SetStatus, Restated, SessionMetadata

\* A job file that is written.
LEMMA WriteJobDoes ==
  ASSUME TypeInv, NEW j, NEW rec, WriteJob(j, rec)
  PROVE  Written(j, rec)
BY DEF TypeInv, TypeOK, WriteJob, Written

\* A worker that moves on.
LEMMA WkGotoDoes ==
  ASSUME TypeInv, NEW pc, WkGoto(pc)
  PROVE  WkMoved(pc)
BY DEF TypeInv, TypeOK, WkGoto, WkMoved, WkKeeps, Worker

\* A worker that moves on with another segment.
LEMMA WkSegmentDoes ==
  ASSUME TypeInv, NEW pc, NEW e, wk' = [wk EXCEPT !.pc = pc, !.end = e]
  PROVE  WkSegment(pc, e)
BY DEF TypeInv, TypeOK, WkSegment, WkKeeps, Worker

\* A lock that its holder drops.
LEMMA UnlockedDoes ==
  ASSUME TypeInv, NEW s, NEW h, Unlocked(s, h)
  PROVE  Relocked(s, IF lock[s] = h THEN "free" ELSE lock[s])
BY DEF TypeInv, TypeOK, Unlocked, Relocked

\* A worker that leaves the engine.
LEMMA LeaveDoes ==
  ASSUME TypeInv, NEW pc, Leave(pc)
  PROVE  /\ WkMoved(pc)
         /\ Relocked(S, IF lock[S] = "worker" THEN "free" ELSE lock[S])
BY WkGotoDoes, UnlockedDoes DEF Leave

\* A checkpoint that is applied.
LEMMA ApplyDoes ==
  ASSUME TypeInv, NEW s, ApplyCheckpoint(s)
  PROVE  Applied(s)
BY DEF TypeInv, TypeOK, ApplyCheckpoint, Applied, FinalizeCheckpoint

\* The gate between the two writes of a conversion.
GateOpened(j, rec) ==
  /\ gate'.op = "open" /\ gate'.sess = gate.sess /\ gate'.meta = gate.meta
  /\ gate'.job = j /\ gate'.orig = rec

\* The fields of the gate between the two writes of a conversion.
LEMMA GateOpenDoes ==
  ASSUME TypeInv, NEW j, NEW rec,
         gate' = [gate EXCEPT !.op = "open", !.job = j, !.orig = rec]
  PROVE  GateOpened(j, rec)
<1>1. gate = [op |-> gate.op, sess |-> gate.sess, meta |-> gate.meta, job |-> gate.job,
              orig |-> gate.orig]
  BY DEF TypeInv, TypeOK, Gate
<1>2. gate' = [op |-> "open", sess |-> gate.sess, meta |-> gate.meta, job |-> j, orig |-> rec]
  BY <1>1
<1> QED BY <1>2 DEF GateOpened

\* The same for an orphan without a backlog, which has no job to convert.
LEMMA GateOpenBareDoes ==
  ASSUME TypeInv, gate' = [gate EXCEPT !.op = "open"]
  PROVE  GateOpened(gate.job, gate.orig)
<1>1. gate = [op |-> gate.op, sess |-> gate.sess, meta |-> gate.meta, job |-> gate.job,
              orig |-> gate.orig]
  BY DEF TypeInv, TypeOK, Gate
<1>2. gate' = [op |-> "open", sess |-> gate.sess, meta |-> gate.meta, job |-> gate.job,
               orig |-> gate.orig]
  BY <1>1
<1> QED BY <1>2 DEF GateOpened

\* The control operations, field by field.
LEMMA ControlDoes ==
  ASSUME NEW r \in RunningJob
  PROVE  /\ LET q == request_before_prepared(r) IN
            /\ q.job = r.job /\ q.target = r.target /\ q.sent = r.sent
            /\ r.phase = "Cancelable" => q.phase = "CancelRequested" /\ q.cancel = TRUE
            /\ r.phase # "Cancelable" => q.phase = r.phase /\ q.cancel = r.cancel
         /\ LET q == finish(r) IN
            /\ q.job = r.job /\ q.target = r.target /\ q.sent = r.sent /\ q.cancel = r.cancel
            /\ q.phase \in {"FinishedAfterPrepared", "FinishedBeforePrepared"}
         /\ LET q == MarkPrepared(r) IN
            /\ q.job = r.job /\ q.target = r.target /\ q.sent = r.sent /\ q.cancel = r.cancel
            /\ wk.pre => q.phase = "Prepared"
            /\ ~wk.pre => q = r
BY DEF request_before_prepared, finish, MarkPrepared, RunningJob, PreemptionPhase

-----------------------------------------------------------------------------
(* What was prepared is applied, not prepared again *)

\* The steps at which a process holds finalize.lock of its session.
LockPcs == {"locked", "recover", "recovered", "segment", "prepare", "apply", "upload"}
LocksHeld ==
  /\ \A s \in Sessions : client[s].pc \in {"fgLocked", "fgPrepared"} => lock[s] = "client"
  /\ wk.pc \in LockPcs => lock[S] = "worker"

\* The cursor and the checkpoint of a session end within its messages.
Ranges ==
  \A s \in Sessions :
    /\ sess[s].recapped <= sess[s].msgs
    /\ ckpt[s].status # "None" => ckpt[s].start < ckpt[s].end /\ ckpt[s].end <= sess[s].msgs

\* So does every copy of a job, in the store or in memory, and a job keeps the
\* session it was made for, whoever rewrites its file.
Within(rec) == rec.kind # "None" => rec.target <= sess[rec.sess].msgs
Targets ==
  /\ \A j \in JobIds : Within(jobs[j])
  /\ Within(gate.orig)
  /\ Within(wk.rec)
  /\ gate.op # "free" => gate.meta.msgs <= sess[gate.sess].msgs
  /\ gate.op = "resume" => gate.job = 0
  /\ gate.op = "open" /\ gate.job # 0 =>
       /\ jobs[gate.job].kind # "None" /\ jobs[gate.job].sess = gate.sess
       /\ gate.orig.kind # "None" /\ gate.orig.sess = gate.sess
  /\ wk.pc # "idle" =>
       /\ jobs[wk.job].kind # "None" /\ jobs[wk.job].sess = S
       /\ wk.rec.kind # "None"
       /\ running.target <= sess[S].msgs
  /\ \A s \in Sessions : client[s].pc = "awaiting" =>
       /\ client[s].job \in JobIds
       /\ jobs[client[s].job].kind # "None" /\ jobs[client[s].job].sess = s

\* The segment the worker has in hand, under finalize.lock: a Finalize that
\* prepares has passed every checkpoint it found.
Segment ==
  /\ wk.pc \in {"prepare", "apply", "upload", "recover", "recovered"} => wk.end <= sess[S].msgs
  /\ wk.pc = "prepare" => sess[S].recapped < wk.end
  /\ wk.pc \in {"recover", "recovered"} => ckpt[S].end <= wk.end
  /\ IsFinalize /\ wk.pc \in {"segment", "prepare"} => ~Covered(S)

\* A Closed session is left alone: only the process that holds its lease opens
\* it again, and no checkpoint in use is dropped with it.
ClosedStays ==
  /\ \A s \in Sessions :
       /\ client[s].pc \in {"reconciling", "settling", "reopening"} => sess[s].status = "Closed"
       /\ client[s].pc = "fgPrepared" => ckpt[s].status # "None"
  /\ gate.op \in {"resume", "open"} =>
       client[gate.sess].pc \in {"resuming", "reconciling", "settling"}
  /\ gate.op = "resume" /\ gate.meta.status = "Closed" => sess[gate.sess].status = "Closed"
  /\ wk.pc \in LockPcs \ {"locked"} => sess[S].status # "Closed"
  /\ wk.pc \in {"recover", "recovered", "apply", "upload"} => ckpt[S].status # "None"

\* The worker's job is registered until it ends.
Control ==
  /\ running.phase = "CancelRequested" => running.cancel = TRUE
  /\ wk.pc \notin {"idle", "end"} => running.job = wk.job

RangeInv == LocksHeld /\ Ranges /\ Targets /\ Segment /\ ClosedStays /\ Control

\* The numbers and the places of the state, as the type invariant gives them.
Numeric ==
  /\ \A s \in Sessions : /\ sess[s].msgs \in Nat /\ sess[s].recapped \in Nat
                         /\ ckpt[s].start \in Nat /\ ckpt[s].end \in Nat
  /\ \A j \in JobIds : jobs[j].target \in Nat
  /\ gate.orig.target \in Nat /\ gate.meta.msgs \in Nat /\ gate.meta.recapped \in Nat
  /\ wk.rec.target \in Nat /\ wk.end \in Nat /\ running.target \in Nat

\* Every cursor, count and target is a number.
LEMMA Numbers == TypeInv => Numeric
<1> SUFFICES ASSUME TypeOK PROVE Numeric
  BY DEF TypeInv
<1>0. Indexes \subseteq Nat
  BY SupervisorAssumption DEF Indexes
<1>1. \A s \in Sessions : /\ sess[s].msgs \in Nat /\ sess[s].recapped \in Nat
                          /\ ckpt[s].start \in Nat /\ ckpt[s].end \in Nat
  BY <1>0 DEF TypeOK, SessionMetadata, FinalizeCheckpoint
<1>2. \A j \in JobIds : jobs[j].target \in Nat
  BY <1>0 DEF TypeOK, SupervisorJob
<1>3. gate.orig.target \in Nat /\ gate.meta.msgs \in Nat /\ gate.meta.recapped \in Nat
  BY <1>0 DEF TypeOK, Gate, SupervisorJob, SessionMetadata
<1>4. wk.rec.target \in Nat /\ wk.end \in Nat /\ running.target \in Nat
  BY <1>0 DEF TypeOK, Worker, SupervisorJob, RunningJob
<1> QED BY <1>1, <1>2, <1>3, <1>4 DEF Numeric

\* The same after a step.
LEMMA NumbersNext == TypeInv' => Numeric'
BY Numbers, PTL

\* Every job, gate and worker in use belongs to a session.
LEMMA Places ==
  ASSUME TypeInv
  PROVE  /\ \A j \in JobIds : jobs[j].kind # "None" => jobs[j].sess \in Sessions
         /\ gate.orig.kind # "None" => gate.orig.sess \in Sessions
         /\ wk.rec.kind # "None" => wk.rec.sess \in Sessions
         /\ gate.op # "free" => gate.sess \in Sessions
         /\ wk.pc # "idle" => wk.job \in JobIds /\ S \in Sessions
BY DEF TypeInv, JobsInv, JobsGood, GoodJob, S

\* A step in which the sessions only grow and nothing else moves that the
\* targets depend on.
MsgsGrow == \A s \in Sessions : sess[s].msgs <= sess'[s].msgs
NobodyNewWaits ==
  \A s \in Sessions : client'[s].pc = "awaiting" => client'[s] = client[s]
\* A job file that changes is that of a real job of the same session.
JobsMove ==
  \A j \in JobIds : \/ jobs'[j] = jobs[j]
                    \/ /\ jobs'[j].kind # "None" /\ jobs'[j].sess \in Sessions
                       /\ jobs'[j].target <= sess'[jobs'[j].sess].msgs
                       /\ jobs[j].kind # "None" => jobs'[j].sess = jobs[j].sess
\* Whoever starts to wait waits for a job of its own session.
AwaitMove ==
  \A s \in Sessions : client'[s].pc = "awaiting" =>
    \/ client'[s] = client[s]
    \/ /\ client'[s].job \in JobIds
       /\ jobs'[client'[s].job].kind # "None" /\ jobs'[client'[s].job].sess = s
\* What a handler takes along.
GateMove ==
  \/ UNCHANGED gate \/ gate' = FreeGate
  \/ /\ gate'.meta.msgs <= sess'[gate'.sess].msgs
     /\ gate'.orig.kind # "None" => gate'.orig.target <= sess'[gate'.orig.sess].msgs
     /\ gate'.op = "resume" => gate'.job = 0
     /\ gate'.op = "open" /\ gate'.job # 0 =>
          /\ jobs'[gate'.job].kind # "None" /\ jobs'[gate'.job].sess = gate'.sess
          /\ gate'.orig.kind # "None" /\ gate'.orig.sess = gate'.sess
\* The worker goes on with its job, or gets rid of it.
WkMove ==
  \/ wk'.pc = "idle" /\ wk'.rec = NoJob
  \/ /\ wk'.pc # "idle" => wk.pc # "idle"
     /\ wk'.job = wk.job
     /\ wk'.rec.sess = wk.rec.sess /\ wk'.rec.kind = wk.rec.kind
     /\ wk'.rec.target = wk.rec.target
     /\ \/ running'.target \in {0, running.target}
        \/ running'.target <= sess[wk.rec.sess].msgs

\* Targets survives a step that moves sessions, jobs, waiters, gate and worker so.
LEMMA TargetsKept ==
  ASSUME TypeInv, TypeInv', Targets, MsgsGrow, JobsMove, AwaitMove, GateMove, WkMove
  PROVE  Targets'
<1>n. /\ \A s \in Sessions : sess[s].msgs \in Nat /\ sess'[s].msgs \in Nat
      /\ \A j \in JobIds : jobs[j].target \in Nat /\ jobs'[j].target \in Nat
      /\ gate.orig.target \in Nat /\ gate.meta.msgs \in Nat
      /\ wk.rec.target \in Nat /\ running.target \in Nat /\ running'.target \in Nat
  BY Numbers, NumbersNext DEF Numeric
<1>p. /\ \A j \in JobIds : jobs[j].kind # "None" => jobs[j].sess \in Sessions
      /\ gate.orig.kind # "None" => gate.orig.sess \in Sessions
      /\ wk.rec.kind # "None" => wk.rec.sess \in Sessions
      /\ gate.op # "free" => gate.sess \in Sessions
      /\ wk.pc # "idle" => wk.job \in JobIds /\ S \in Sessions
  BY Places
<1>1. \A j \in JobIds : Within(jobs[j])'
  BY <1>n, <1>p DEF Targets, Within, MsgsGrow, JobsMove
<1>2. /\ Within(gate.orig)'
      /\ gate'.op # "free" => gate'.meta.msgs <= sess'[gate'.sess].msgs
  <2>1. CASE UNCHANGED gate
    BY <1>n, <1>p, <2>1 DEF Targets, Within, MsgsGrow
  <2>2. CASE gate' = FreeGate
    BY <2>2 DEF Within, FreeGate, NoJob
  <2> QED BY <2>1, <2>2 DEF GateMove, Within
<1>3. /\ gate'.op = "resume" => gate'.job = 0
      /\ gate'.op = "open" /\ gate'.job # 0 =>
           /\ jobs'[gate'.job].kind # "None" /\ jobs'[gate'.job].sess = gate'.sess
           /\ gate'.orig.kind # "None" /\ gate'.orig.sess = gate'.sess
  <2>1. CASE UNCHANGED gate
    <3>1. gate.job \in 0..MaxJobs
      BY DEF TypeInv, TypeOK, Gate
    <3>2. gate.job # 0 => gate.job \in JobIds
      BY <3>1, SupervisorAssumption DEF JobIds
    <3> QED BY <1>p, <2>1, <3>2 DEF Targets, JobsMove
  <2>2. CASE gate' = FreeGate
    BY <2>2 DEF FreeGate
  <2> QED BY <2>1, <2>2 DEF GateMove
<1>4. /\ Within(wk.rec)'
      /\ wk'.pc # "idle" =>
         /\ jobs'[wk'.job].kind # "None" /\ jobs'[wk'.job].sess = wk'.rec.sess
         /\ wk'.rec.kind # "None"
         /\ running'.target <= sess'[wk'.rec.sess].msgs
  <2>1. CASE wk'.pc = "idle" /\ wk'.rec = NoJob
    BY <2>1 DEF Within, NoJob
  <2>2. CASE /\ wk'.pc # "idle" => wk.pc # "idle"
             /\ wk'.job = wk.job
             /\ wk'.rec.sess = wk.rec.sess /\ wk'.rec.kind = wk.rec.kind
             /\ wk'.rec.target = wk.rec.target
             /\ \/ running'.target \in {0, running.target}
                \/ running'.target <= sess[wk.rec.sess].msgs
    BY <1>n, <1>p, <2>2 DEF Targets, Within, MsgsGrow, JobsMove, S
  <2> QED BY <2>1, <2>2 DEF WkMove
<1>5. \A s \in Sessions : client'[s].pc = "awaiting" =>
       /\ client'[s].job \in JobIds
       /\ jobs'[client'[s].job].kind # "None" /\ jobs'[client'[s].job].sess = s
  BY <1>p DEF Targets, AwaitMove, JobsMove
<1> QED BY <1>1, <1>2, <1>3, <1>4, <1>5 DEF Targets, S

\* A step of the process that owns s: it may grow the messages, and touches
\* the cursor, the checkpoint or the lock only where no worker holds the lock.
OwnerStep(s) ==
  /\ UNCHANGED <<jobs, gate, running, wk>> /\ MsgsGrow /\ NobodyNewWaits
  /\ \A x \in Sessions \ {s} : /\ sess'[x] = sess[x] /\ ckpt'[x] = ckpt[x]
                               /\ lock'[x] = lock[x] /\ client'[x] = client[x]
  /\ client'[s].pc \in {"fgLocked", "fgPrepared"} => lock'[s] = "client"
  /\ client'[s].pc = "fgPrepared" => ckpt'[s].status # "None"
  /\ client'[s].pc \in {"reconciling", "settling", "reopening"} => sess'[s].status = "Closed"
  /\ gate.op \in {"resume", "open"} => gate.sess # s
  /\ sess'[s].recapped <= sess'[s].msgs
  /\ ckpt'[s].status # "None" =>
       ckpt'[s].start < ckpt'[s].end /\ ckpt'[s].end <= sess'[s].msgs
  /\ sess[s].status = "Closed" =>
       sess'[s].status = "Closed" \/ client[s].pc \in {"reopening", "live"}
  /\ lock[s] = "worker" =>
       /\ lock'[s] = "worker" /\ sess'[s].recapped = sess[s].recapped
       /\ sess'[s].status = "Closed" => sess[s].status = "Closed"
       /\ ckpt'[s] = ckpt[s] \/ sess[s].status = "Closed"

\* A step of the process that owns a session keeps the ranges.
LEMMA RangeOwnerStep ==
  ASSUME TypeInv, TypeInv', RangeInv, NEW s \in Sessions, OwnerStep(s)
  PROVE  RangeInv'
<1> USE DEF RangeInv
<1>n. \A x \in Sessions : /\ sess[x].msgs \in Nat /\ sess[x].recapped \in Nat
                          /\ ckpt[x].start \in Nat /\ ckpt[x].end \in Nat
                          /\ sess'[x].msgs \in Nat /\ wk.end \in Nat
  BY Numbers, NumbersNext DEF Numeric
<1>1. LocksHeld'
  BY Places DEF LocksHeld, S, LockPcs, OwnerStep
<1>2. Ranges'
  BY DEF Ranges, OwnerStep
<1>3. Targets'
  <2>1. JobsMove /\ AwaitMove /\ GateMove /\ WkMove
    BY DEF JobsMove, AwaitMove, GateMove, WkMove, OwnerStep, NobodyNewWaits
  <2> QED BY <2>1, TargetsKept DEF OwnerStep
<1>l. wk.pc \in LockPcs \ {"locked"} =>
        /\ S \in Sessions /\ sess'[S].recapped = sess[S].recapped
        /\ sess[S].msgs <= sess'[S].msgs /\ sess'[S].status # "Closed"
        /\ ckpt'[S] = ckpt[S]
  <2>1. wk.pc \in LockPcs \ {"locked"} =>
          S \in Sessions /\ lock[S] = "worker" /\ sess[S].status # "Closed"
    BY Places DEF LocksHeld, LockPcs, ClosedStays
  <2> QED BY <2>1, <1>n DEF OwnerStep, MsgsGrow
<1>4. Segment'
  <2>1. CASE wk.pc \in LockPcs \ {"locked"}
    <3>1. ~Covered(S) => ~Covered(S)'
      BY <1>l, <1>n, <2>1
         DEF Covered, finalize_checkpoint_covers_pending_range, Ranges, S, OwnerStep
    <3> QED BY <1>l, <1>n, <2>1, <3>1 DEF Segment, S, IsFinalize, OwnerStep
  <2>2. CASE wk.pc \notin LockPcs \ {"locked"}
    BY <2>2 DEF Segment, LockPcs, OwnerStep
  <2> QED BY <2>1, <2>2
<1>5. ClosedStays'
  <2>1. /\ wk.pc \in LockPcs \ {"locked"} => sess'[S].status # "Closed"
        /\ wk.pc \in {"recover", "recovered", "apply", "upload"} => ckpt'[S].status # "None"
    BY <1>l DEF ClosedStays, LockPcs
  <2>2. \A x \in Sessions :
       /\ client'[x].pc \in {"reconciling", "settling", "reopening"} => sess'[x].status = "Closed"
       /\ client'[x].pc = "fgPrepared" => ckpt'[x].status # "None"
    BY DEF ClosedStays, OwnerStep
  <2>3. gate.op \in {"resume", "open"} =>
          client'[gate.sess].pc \in {"resuming", "reconciling", "settling"}
    BY Places DEF ClosedStays, OwnerStep
  <2>4. gate.op = "resume" /\ gate.meta.status = "Closed" => sess'[gate.sess].status = "Closed"
    BY Places DEF ClosedStays, OwnerStep
  <2> QED BY <2>1, <2>2, <2>3, <2>4 DEF ClosedStays, OwnerStep, S
<1>6. Control'
  BY DEF Control, OwnerStep
<1> QED BY <1>1, <1>2, <1>3, <1>4, <1>5, <1>6

\* The steps of the process that owns a session.
LEMMA ClientStepOwner ==
  ASSUME TypeInv, TypeInv', RangeInv, NEW s \in Sessions, ClientStep(s)
  PROVE  OwnerStep(s)
<1> USE DEF RangeInv
<1>n. /\ sess[s].msgs \in Nat /\ sess[s].recapped \in Nat
      /\ ckpt[s].start \in Nat /\ ckpt[s].end \in Nat
      /\ \A x \in Sessions : sess[x].msgs \in Nat
  BY Numbers DEF Numeric
<1>r. /\ sess[s].recapped <= sess[s].msgs
      /\ ckpt[s].status # "None" =>
           ckpt[s].start < ckpt[s].end /\ ckpt[s].end <= sess[s].msgs
      /\ client[s].pc \in {"fgLocked", "fgPrepared"} => lock[s] = "client"
      /\ client[s].pc = "fgPrepared" => ckpt[s].status # "None"
      /\ client[s].pc \in {"reconciling", "settling", "reopening"} => sess[s].status = "Closed"
  BY DEF Ranges, LocksHeld, ClosedStays
<1>t. /\ \A c : Goto(s, c) => Moved(s, c)
      /\ \A st : SetStatus(s, st) => Restated(s, st)
  BY GotoDoes, SetStatusDoes
<1>u. UNCHANGED <<jobs, gate, running, wk>>
  BY DEF ClientStep, append_messages, mark_session_finalizing, finalize_without_job,
         enqueue_unavailable, fg_lock, fg_recover, fg_prepare, fg_close, fg_fail,
         reserve_runtime_session, reconcile_skipped, mark_open, complete_finalizing_resume,
         wait_for_resume_finalize_job, client_crash
<1>a. NobodyNewWaits
  <2>1. UNCHANGED client \/ \E c : c.pc # "awaiting" /\ Goto(s, c)
    BY ClientMovesOn
  <2> QED BY <2>1, <1>t DEF NobodyNewWaits, Moved
<1>g. gate.op \in {"resume", "open"} => gate.sess # s
  BY DEF ClientStep, Unserved
<1> USE <1>u, <1>a, <1>g DEF OwnerStep
<1>f. Fallback.pc \in {"none", "foreground"}
  BY DEF Fallback, At
<1>1. CASE append_messages(s)
  <2>1. /\ \A x \in Sessions \ {s} : sess'[x] = sess[x]
        /\ sess'[s].msgs = sess[s].msgs + 1 /\ sess'[s].recapped = sess[s].recapped
        /\ sess'[s].status = sess[s].status
        /\ UNCHANGED <<ckpt, lock, client>>
    BY <1>1 DEF append_messages, TypeInv, TypeOK, SessionMetadata
  <2> QED BY <1>n, <1>r, <2>1 DEF MsgsGrow
<1>2. CASE mark_session_finalizing(s) \/ finalize_without_job(s)
  <2>1. /\ \E c : c.pc \in {"none", "foreground", "exiting"} /\ Moved(s, c)
        /\ \/ UNCHANGED sess
           \/ sess[s].status = "Open" /\ Restated(s, "Finalizing")
           \/ sess[s].status = "Finalizing" /\ Restated(s, "Closed") /\ lock[s] = "free"
        /\ client[s].pc \in {"live", "exiting"} /\ UNCHANGED <<ckpt, lock>>
    BY <1>2, <1>f, <1>t DEF mark_session_finalizing, finalize_without_job, At
  <2> QED BY <1>n, <1>r, <2>1 DEF MsgsGrow, Moved, Restated
<1>3. CASE \/ enqueue_unavailable(s) \/ reserve_runtime_session(s) \/ reconcile_skipped(s)
           \/ complete_finalizing_resume(s) \/ wait_for_resume_finalize_job(s)
  <2>1. sess[s].status \in SessionStatus
    BY DEF TypeInv, TypeOK, SessionMetadata
  <2>2. /\ \E c : /\ Moved(s, c) /\ c.pc \notin {"fgLocked", "fgPrepared"}
                  /\ c.pc \in {"reconciling", "settling", "reopening"} =>
                       sess[s].status = "Closed"
        /\ UNCHANGED <<sess, ckpt, lock>>
    BY <1>3, <1>f, <1>r, <1>t, <2>1
       DEF enqueue_unavailable, reserve_runtime_session, reconcile_skipped,
           complete_finalizing_resume, wait_for_resume_finalize_job, At, SessionStatus
  <2> QED BY <1>n, <1>r, <2>2 DEF MsgsGrow, Moved
<1>4. CASE fg_lock(s) \/ fg_fail(s) \/ client_crash(s)
  <2>1. /\ \E c : /\ Moved(s, c) /\ c.pc \in {"none", "fgLocked"}
                  /\ c.pc = "fgLocked" => lock'[s] = "client"
        /\ \A x \in Sessions \ {s} : lock'[x] = lock[x]
        /\ lock[s] = "worker" => lock'[s] = "worker"
        /\ UNCHANGED <<sess, ckpt>>
    BY <1>4, <1>r, <1>t DEF fg_lock, fg_fail, FgLeave, client_crash, At, TypeInv, TypeOK
  <2> QED BY <1>n, <1>r, <2>1 DEF MsgsGrow, Moved
<1>5. CASE fg_recover(s)
  <2>1. /\ lock[s] = "client" /\ ckpt[s].status # "None" /\ Applied(s)
        /\ client[s].pc = "fgLocked" /\ sess[s].status # "Closed" /\ UNCHANGED <<lock, client>>
    BY <1>5, <1>r, ApplyDoes
       DEF fg_recover, Covered, finalize_checkpoint_covers_pending_range
  <2>2. /\ \A x \in Sessions \ {s} : sess'[x] = sess[x]
        /\ sess'[s].msgs = sess[s].msgs /\ sess'[s].recapped = ckpt[s].end
        /\ sess'[s].status = "Finalizing"
    BY <1>5 DEF fg_recover, TypeInv, TypeOK, SessionMetadata
  <2> QED BY <1>n, <1>r, <2>1, <2>2 DEF MsgsGrow, Applied
<1>6. CASE fg_prepare(s)
  <2>1. /\ client[s].pc = "fgLocked" /\ sess[s].status # "Closed"
        /\ lock[s] = "client" /\ sess[s].recapped < sess[s].msgs
        /\ Restated(s, "Finalizing") /\ Moved(s, At("fgPrepared")) /\ UNCHANGED lock
        /\ ckpt' = [ckpt EXCEPT ![s] = [start |-> sess[s].recapped, end |-> sess[s].msgs,
                                        status |-> "Prepared"]]
    BY <1>6, <1>r, <1>t DEF fg_prepare
  <2>2. /\ \A x \in Sessions \ {s} : ckpt'[x] = ckpt[x]
        /\ ckpt'[s].start = sess[s].recapped /\ ckpt'[s].end = sess[s].msgs
        /\ ckpt'[s].status = "Prepared"
    BY <2>1 DEF TypeInv, TypeOK
  <2> QED BY <1>n, <1>r, <2>1, <2>2 DEF MsgsGrow, Moved, Restated, At
<1>7. CASE fg_close(s)
  <2>1. /\ client[s].pc \in {"fgLocked", "fgPrepared"}
        /\ lock[s] = "client" /\ Moved(s, At("none"))
        /\ \A x \in Sessions \ {s} : lock'[x] = lock[x]
    BY <1>7, <1>r, <1>t DEF fg_close, FgLeave, TypeInv, TypeOK
  <2>2. \/ UNCHANGED <<sess, ckpt>>
        \/ Restated(s, "Closed") /\ UNCHANGED ckpt
        \/ /\ client[s].pc = "fgPrepared" /\ Applied(s)
           /\ sess' = [sess EXCEPT ![s].recapped = sess[s].msgs, ![s].status = "Closed"]
    BY <1>7, <1>t, ApplyDoes DEF fg_close
  <2>3. CASE UNCHANGED <<sess, ckpt>> \/ (Restated(s, "Closed") /\ UNCHANGED ckpt)
    BY <1>n, <1>r, <2>1, <2>3 DEF MsgsGrow, Moved, Restated, At
  <2>4. CASE /\ client[s].pc = "fgPrepared" /\ Applied(s)
             /\ sess' = [sess EXCEPT ![s].recapped = sess[s].msgs, ![s].status = "Closed"]
    <3>1. /\ \A x \in Sessions \ {s} : sess'[x] = sess[x]
          /\ sess'[s].msgs = sess[s].msgs /\ sess'[s].recapped = sess[s].msgs
          /\ sess'[s].status = "Closed"
      BY <2>4 DEF TypeInv, TypeOK, SessionMetadata
    <3>2. /\ client[s].pc = "fgPrepared" /\ Applied(s)
      BY <2>4
    <3>3. MsgsGrow
      BY <1>n, <3>1 DEF MsgsGrow
    <3>4. /\ client'[s].pc = "none"
          /\ \A x \in Sessions \ {s} : client'[x] = client[x] /\ ckpt'[x] = ckpt[x]
      BY <2>1, <3>2 DEF Moved, Applied, At
    <3>5. ckpt'[s].start < ckpt'[s].end /\ ckpt'[s].end <= sess'[s].msgs
      BY <1>r, <3>1, <3>2 DEF Applied
    <3> QED BY <1>n, <1>r, <2>1, <3>1, <3>2, <3>3, <3>4, <3>5
  <2> QED BY <2>2, <2>3, <2>4
<1>8. CASE mark_open(s)
  <2>1. /\ \E c : c.pc \in {"none", "live"} /\ Moved(s, c)
        /\ \/ UNCHANGED <<sess, ckpt>>
           \/ Restated(s, "Open") /\ ckpt' = [ckpt EXCEPT ![s] = NoCkpt]
        /\ client[s].pc = "reopening" /\ UNCHANGED lock
    BY <1>8, <1>t DEF mark_open, At
  <2>2. /\ \A x \in Sessions \ {s} : ckpt'[x] = ckpt[x]
        /\ ckpt'[s] = ckpt[s] \/ ckpt'[s].status = "None"
    BY <2>1 DEF TypeInv, TypeOK, NoCkpt
  <2> QED BY <1>n, <1>r, <2>1, <2>2 DEF MsgsGrow, Moved, Restated
<1> QED
  BY <1>1, <1>2, <1>3, <1>4, <1>5, <1>6, <1>7, <1>8 DEF ClientStep

\* A request takes the gate, or queues a Recap up to the last message.
LEMMA RequestStepRange ==
  ASSUME TypeInv, TypeInv', RangeInv, NEW s \in Sessions, RequestStep(s)
  PROVE  RangeInv'
<1> USE DEF RangeInv
<1>u. UNCHANGED <<sess, ckpt, lock, running, wk, client>>
  BY DEF RequestStep, request_enqueue, request_retry, request_resume, Acquire, create_recap_job
<1>m. MsgsGrow /\ AwaitMove /\ WkMove
  <2>1. \A x \in Sessions : sess[x].msgs \in Nat
    BY Numbers DEF Numeric
  <2> QED BY <1>u, <2>1 DEF MsgsGrow, AwaitMove, WkMove
<1>1. LocksHeld' /\ Ranges' /\ Segment' /\ Control'
  BY <1>u DEF LocksHeld, Ranges, Segment, Control, S, IsFinalize, Covered
<1>2. CASE request_enqueue(s) \/ request_retry(s) \/ request_resume(s)
  <2>1. PICK op \in {"enqueue", "retry", "resume"} :
          /\ Acquire(op, s)
          /\ op = "resume" => client[s].pc \in {"resuming", "reconciling", "settling"}
    BY <1>2 DEF request_enqueue, request_retry, request_resume
  <2>2. /\ gate'.op = op /\ gate'.sess = s /\ gate'.meta = sess[s] /\ gate'.orig = NoJob
        /\ gate'.job = 0 /\ UNCHANGED jobs
    BY <2>1 DEF Acquire, FreeGate
  <2>3. GateMove /\ JobsMove
    BY <1>m, <1>u, <2>2 DEF GateMove, JobsMove, MsgsGrow, NoJob
  <2>4. Targets'
    BY <1>m, <2>3, TargetsKept
  <2>5. ClosedStays'
    BY <1>u, <2>1, <2>2 DEF ClosedStays, S
  <2> QED BY <1>1, <2>4, <2>5
<1>3. CASE create_recap_job(s)
  <2>1. PICK j \in JobIds : IsNewId(j) /\ Written(j, RecapJob(s, sess[s].msgs))
    BY <1>3, WriteJobDoes DEF create_recap_job
  <2>2. jobs[j].kind = "None" /\ UNCHANGED gate
    BY <1>3, <2>1 DEF IsNewId, FreshIds, create_recap_job
  <2>3. JobsMove /\ GateMove
    BY <1>m, <1>u, <2>1, <2>2 DEF JobsMove, GateMove, Written, RecapJob, MsgsGrow
  <2>4. Targets'
    BY <1>m, <2>3, TargetsKept
  <2>5. ClosedStays'
    BY <1>u, <2>2 DEF ClosedStays, S
  <2> QED BY <1>1, <2>4, <2>5
<1> QED BY <1>2, <1>3 DEF RequestStep

\* What a handler may do: move its own client, write jobs, ask the running
\* job to stop, and open a session that is not Closed.
HandlerMove ==
  /\ UNCHANGED <<wk, ckpt>>
  /\ \A x \in Sessions :
       /\ sess'[x].msgs = sess[x].msgs /\ sess'[x].recapped = sess[x].recapped
       /\ \/ sess'[x].status = sess[x].status
          \/ sess[x].status = "Finalizing" /\ sess'[x].status = "Open"
       /\ lock[x] \in {"worker", "client"} => lock'[x] = lock[x]
       /\ \/ client'[x] = client[x]
          \/ /\ client'[x].pc \notin {"fgLocked", "fgPrepared", "reconciling", "settling"}
             /\ client'[x].pc = "reopening" => sess[x].status = "Closed"
  /\ running'.job = running.job
  /\ running'.phase = "CancelRequested" => running'.cancel = TRUE
  /\ gate' = FreeGate \/ (gate'.op = "open" /\ gate'.sess = gate.sess /\ UNCHANGED client
                           /\ gate.op = "resume")

\* A step of a handler that holds the gate keeps the ranges.
LEMMA RangeHandler ==
  ASSUME TypeInv, TypeInv', RangeInv, gate.op # "free", HandlerMove,
         JobsMove, AwaitMove, GateMove, WkMove
  PROVE  RangeInv'
<1> USE DEF RangeInv
<1>n. \A x \in Sessions : sess[x].msgs \in Nat
  BY Numbers DEF Numeric
<1>1. LocksHeld' /\ Ranges' /\ Control'
  BY Places DEF LocksHeld, Ranges, Control, S, HandlerMove, LockPcs
<1>2. Segment'
  <2>1. wk.pc # "idle" => S \in Sessions
    BY Places
  <2>2. wk.pc # "idle" => (~Covered(S) => ~Covered(S)')
    BY <2>1 DEF HandlerMove, Covered, finalize_checkpoint_covers_pending_range, S
  <2> QED BY <2>1, <2>2 DEF Segment, HandlerMove, S, IsFinalize
<1>3. Targets'
  BY <1>n, TargetsKept DEF HandlerMove, MsgsGrow
<1>4. ClosedStays'
  <2>1. \A s \in Sessions :
       /\ client'[s].pc \in {"reconciling", "settling", "reopening"} => sess'[s].status = "Closed"
       /\ client'[s].pc = "fgPrepared" => ckpt'[s].status # "None"
    BY DEF ClosedStays, HandlerMove
  <2>2. /\ wk'.pc \in LockPcs \ {"locked"} => sess'[wk'.rec.sess].status # "Closed"
        /\ wk'.pc \in {"recover", "recovered", "apply", "upload"} =>
             ckpt'[wk'.rec.sess].status # "None"
    BY Places DEF ClosedStays, HandlerMove, LockPcs, S
  <2>3. /\ gate'.op \in {"resume", "open"} =>
             client'[gate'.sess].pc \in {"resuming", "reconciling", "settling"}
        /\ gate'.op # "resume"
    BY DEF ClosedStays, HandlerMove, FreeGate
  <2> QED BY <2>1, <2>2, <2>3 DEF ClosedStays, S
<1> QED BY <1>1, <1>2, <1>3, <1>4

\* Every handler.
LEMMA HandlerStepRange ==
  ASSUME TypeInv, TypeInv', RangeInv, Registered, HandlerStep
  PROVE  RangeInv'
<1> USE DEF RangeInv
<1> DEFINE g == gate.sess
           U == unresolved_finalize_jobs(g)
<1>0. gate.op # "free"
  BY DEF HandlerStep, enqueue_finalize_job, retry_finalize_job, resume_not_unique,
         resume_closed, resume_open, resume_orphan, resume_checkpointed, resume_running,
         resume_convert, ResumeStep, open_finalizing_session_for_resume
<1>a. g \in Sessions /\ running \in RunningJob
  BY <1>0, Places DEF TypeInv, TypeOK
<1>n. /\ \A x \in Sessions : sess[x].msgs \in Nat
      /\ gate.meta.msgs \in Nat /\ gate.meta.msgs <= sess[g].msgs
  BY <1>0, Numbers DEF Numeric, Targets
<1>r. running.phase = "CancelRequested" => running.cancel = TRUE
  BY DEF Control
<1>k. /\ \A j \in U : /\ j \in JobIds /\ jobs[j].kind = "Finalize" /\ jobs[j].sess = g
                      /\ jobs[j].target <= sess[g].msgs
      /\ \A j \in JobIds : IsNewId(j) => jobs[j].kind = "None"
  BY DEF unresolved_finalize_jobs, IsNewId, FreshIds, Targets, Within
<1>f. /\ FinalizeJob(g).kind = "Finalize" /\ FinalizeJob(g).sess = g /\ FinalizeJob(g).target = 0
      /\ \A m : RecapJob(g, m).kind = "Recap" /\ RecapJob(g, m).sess = g /\ RecapJob(g, m).target = m
  BY DEF FinalizeJob, RecapJob
<1>t. \A c : Outcome(g, c) =>
         Moved(g, IF client[g].pc \in {"reconciling", "settling"} /\ c.pc # "reopening"
                  THEN At("none") ELSE c)
  BY OutcomeDoes
<1>w. \A j, rec : WriteJob(j, rec) => Written(j, rec)
  BY WriteJobDoes
<1>c. LET q == request_before_prepared(running) IN
        /\ q.job = running.job /\ q.target = running.target
        /\ running.phase = "Cancelable" => q.phase = "CancelRequested" /\ q.cancel = TRUE
        /\ running.phase # "Cancelable" => q.phase = running.phase /\ q.cancel = running.cancel
  BY <1>a, ControlDoes
<1> DEFINE Quiet == UNCHANGED running /\ UNCHANGED wk
<1>q. Quiet => /\ running'.job = running.job /\ WkMove
               /\ (running'.phase = "CancelRequested" => running'.cancel = TRUE)
  BY <1>r DEF WkMove
<1>1. CASE enqueue_finalize_job
  <2>1. /\ \/ UNCHANGED jobs
           \/ \E j \in JobIds : IsNewId(j) /\ Written(j, FinalizeJob(g))
        /\ \E c : c.pc \in {"none", "foreground"} /\ Moved(g, c)
        /\ running' \in {running, request_before_prepared(running)}
        /\ gate' = FreeGate /\ UNCHANGED <<sess, ckpt, lock, wk>>
    BY <1>1, <1>w, GotoDoes
       DEF enqueue_finalize_job, Release, Fallback, At, request_same_session_recap_preemption
  <2>2. /\ running'.job = running.job /\ running'.target = running.target
        /\ running'.phase = "CancelRequested" => running'.cancel = TRUE
    BY <1>c, <1>r, <2>1
  <2>3. JobsMove
    BY <1>a, <1>f, <1>k, <1>n, <2>1 DEF JobsMove, Written
  <2>4. AwaitMove /\ GateMove /\ WkMove
    BY <2>1, <2>2 DEF AwaitMove, GateMove, WkMove, Moved
  <2>5. HandlerMove
    BY <2>1, <2>2 DEF HandlerMove, Moved
  <2> QED BY <1>0, <2>3, <2>4, <2>5, RangeHandler
<1>2. CASE retry_finalize_job
  <2>1. /\ \/ UNCHANGED jobs
           \/ \E j \in JobIds : (IsNewId(j) \/ j \in U) /\ Written(j, FinalizeJob(g))
        /\ gate' = FreeGate /\ UNCHANGED <<sess, ckpt, lock, client>> /\ Quiet
    BY <1>2, <1>k, <1>w DEF retry_finalize_job, Release
  <2>2. JobsMove
    BY <1>a, <1>f, <1>k, <1>n, <2>1 DEF JobsMove, Written
  <2>3. AwaitMove /\ GateMove
    BY <2>1 DEF AwaitMove, GateMove
  <2>4. HandlerMove
    BY <1>q, <2>1 DEF HandlerMove
  <2> QED BY <1>0, <1>q, <2>1, <2>2, <2>3, <2>4, RangeHandler
<1>3. CASE resume_not_unique \/ resume_open
  <2>1. /\ \E c : c.pc \in {"none", "opened"} /\ Moved(g, c)
        /\ gate' = FreeGate /\ UNCHANGED <<sess, ckpt, lock, jobs>> /\ Quiet
    BY <1>3, <1>t DEF resume_not_unique, resume_open, ResumeStep, Release, At
  <2>2. JobsMove /\ AwaitMove /\ GateMove
    BY <2>1 DEF JobsMove, AwaitMove, GateMove, Moved
  <2>3. HandlerMove
    BY <1>q, <2>1 DEF HandlerMove, Moved
  <2> QED BY <1>0, <1>q, <2>1, <2>2, <2>3, RangeHandler
<1>4. CASE resume_closed
  <2>1. /\ Moved(g, At("reopening")) \/ Moved(g, At("none"))
        /\ gate' = FreeGate /\ UNCHANGED <<sess, ckpt, lock>> /\ Quiet
        /\ gate.op = "resume" /\ gate.meta.status = "Closed"
    BY <1>4, <1>t DEF resume_closed, ResumeStep, Release, At
  <2>2. \A j \in JobIds : \/ jobs'[j] = jobs[j]
                          \/ j \in U /\ jobs'[j] = [jobs[j] EXCEPT !.status = "Succeeded"]
    BY <1>4 DEF resume_closed
  <2>3. \A j \in U : LET r == [jobs[j] EXCEPT !.status = "Succeeded"] IN
                     /\ r.kind = jobs[j].kind /\ r.sess = jobs[j].sess
                     /\ r.target = jobs[j].target
    BY <1>k DEF TypeInv, TypeOK, SupervisorJob
  <2>8. \A j \in JobIds : jobs'[j] # jobs[j] =>
          /\ jobs'[j].kind = "Finalize" /\ jobs'[j].sess = g /\ jobs'[j].target <= sess[g].msgs
          /\ jobs[j].sess = g
    <3> SUFFICES ASSUME NEW j \in JobIds, jobs'[j] # jobs[j]
                 PROVE  /\ jobs'[j].kind = "Finalize" /\ jobs'[j].sess = g
                        /\ jobs'[j].target <= sess[g].msgs /\ jobs[j].sess = g
      OBVIOUS
    <3>1. j \in U /\ jobs'[j] = [jobs[j] EXCEPT !.status = "Succeeded"]
      BY <2>2
    <3>2. /\ jobs'[j].kind = jobs[j].kind /\ jobs'[j].sess = jobs[j].sess
          /\ jobs'[j].target = jobs[j].target
      BY <3>1, <2>3
    <3> QED BY <1>k, <3>1, <3>2
  <2>4. JobsMove
    BY <1>a, <2>1, <2>8 DEF JobsMove
  <2>5. AwaitMove /\ GateMove
    BY <2>1 DEF AwaitMove, GateMove, Moved, At
  <2>6. sess[g].status = "Closed"
    BY <2>1 DEF ClosedStays
  <2>7. HandlerMove
    BY <1>q, <2>1, <2>6 DEF HandlerMove, Moved, At
  <2> QED BY <1>0, <1>q, <2>1, <2>4, <2>5, <2>7, RangeHandler
<1>5. CASE resume_orphan
  <2>0. gate.op = "resume" /\ UNCHANGED <<sess, ckpt>> /\ Quiet
    BY <1>5 DEF resume_orphan, ResumeStep
  <2>1. CASE Release /\ UNCHANGED <<jobs, lock>> /\ Outcome(g, At("none"))
    <3>1. Moved(g, At("none")) /\ gate' = FreeGate
      BY <1>t, <2>1 DEF Release
    <3>2. JobsMove /\ AwaitMove /\ GateMove
      BY <2>1, <3>1 DEF JobsMove, AwaitMove, GateMove, Moved, At
    <3>3. HandlerMove
      BY <1>q, <2>0, <2>1, <3>1 DEF HandlerMove, Moved, At
    <3> QED BY <1>0, <1>q, <2>0, <3>2, <3>3, RangeHandler
  <2>2. ASSUME NEW j \in JobIds, IsNewId(j), WriteJob(j, FinalizeJob(g)), Outcome(g, Polling(j)),
               Release, UNCHANGED lock
        PROVE  RangeInv'
    <3>1. /\ \E c : c.pc \in {"none", "polling"} /\ Moved(g, c)
          /\ Written(j, FinalizeJob(g)) /\ gate' = FreeGate
      BY <1>t, <1>w, <2>2 DEF Release, At, Polling
    <3>2. JobsMove
      BY <1>a, <1>f, <1>k, <1>n, <2>0, <2>2, <3>1 DEF JobsMove, Written
    <3>3. AwaitMove /\ GateMove
      BY <3>1 DEF AwaitMove, GateMove, Moved
    <3>4. HandlerMove
      BY <1>q, <2>0, <2>2, <3>1 DEF HandlerMove, Moved
    <3> QED BY <1>0, <1>q, <2>0, <3>2, <3>3, <3>4, RangeHandler
  <2>3. ASSUME lock[g] = "free", lock' = [lock EXCEPT ![g] = "gate"], UNCHANGED client,
               \/ \E j \in JobIds : /\ IsNewId(j) /\ WriteJob(j, RecapJob(g, gate.meta.msgs))
                                    /\ gate' = [gate EXCEPT !.op = "open", !.job = j,
                                                            !.orig = FinalizeJob(g)]
               \/ gate' = [gate EXCEPT !.op = "open"] /\ UNCHANGED jobs
        PROVE  RangeInv'
    <3>1. \A x \in Sessions : lock'[x] = IF x = g THEN "gate" ELSE lock[x]
      BY <2>3 DEF TypeInv, TypeOK
    <3>2. \/ \E j \in JobIds : /\ IsNewId(j) /\ Written(j, RecapJob(g, gate.meta.msgs))
                               /\ GateOpened(j, FinalizeJob(g))
          \/ GateOpened(gate.job, gate.orig) /\ UNCHANGED jobs
      BY <1>w, <2>3, GateOpenDoes, GateOpenBareDoes
    <3>3. JobsMove
      BY <1>a, <1>f, <1>k, <1>n, <2>0, <3>2 DEF JobsMove, Written
    <3>4. GateMove
      BY <1>a, <1>f, <1>n, <2>0, <3>2 DEF GateMove, Written, Targets, Within, GateOpened
    <3>5. AwaitMove
      BY <2>3 DEF AwaitMove
    <3>6. HandlerMove
      BY <1>q, <2>0, <2>3, <3>1, <3>2 DEF HandlerMove, GateOpened
    <3> QED BY <1>0, <1>q, <2>0, <3>3, <3>4, <3>5, <3>6, RangeHandler
  <2> QED BY <1>5, <2>1, <2>2, <2>3 DEF resume_orphan
<1>j. \A j \in JobIds : /\ TakenJob(j).kind = jobs[j].kind /\ TakenJob(j).sess = jobs[j].sess
                        /\ TakenJob(j).target = jobs[j].target
  BY DEF TakenJob, recover_stale_running_job, TypeInv, TypeOK, SupervisorJob
<1>6. ASSUME NEW j \in JobIds, resume_checkpointed(j) PROVE RangeInv'
  <2>1. /\ \E c : c.pc \in {"none", "polling"} /\ Moved(g, c)
        /\ Written(j, FinalizeJob(g)) \/ Written(j, TakenJob(j))
        /\ j \in U /\ gate' = FreeGate /\ UNCHANGED <<sess, ckpt, lock>> /\ Quiet
    BY <1>6, <1>t, <1>w DEF resume_checkpointed, ResumeStep, Release, At, Polling
  <2>2. JobsMove
    BY <1>a, <1>f, <1>j, <1>k, <1>n, <2>1 DEF JobsMove, Written
  <2>3. AwaitMove /\ GateMove
    BY <2>1 DEF AwaitMove, GateMove, Moved
  <2>4. HandlerMove
    BY <1>q, <2>1 DEF HandlerMove, Moved
  <2> QED BY <1>0, <1>q, <2>1, <2>2, <2>3, <2>4, RangeHandler
<1>7. ASSUME NEW j \in JobIds, resume_running(j) PROVE RangeInv'
  <2> DEFINE r == [running EXCEPT !.target = gate.meta.msgs]
  <2>1. /\ j \in U /\ gate' = FreeGate /\ UNCHANGED <<sess, ckpt, lock, jobs, wk>>
        /\ running' = request_before_prepared(r) /\ running.job = j
    BY <1>7 DEF resume_running, ResumeStep, Release
  <2>2. \E c : /\ c.pc \in {"none", "polling", "awaiting"} /\ (c.pc = "awaiting" => c.job = j)
               /\ Moved(g, c)
    <3>1. Outcome(g, [pc |-> "awaiting", job |-> j]) \/ Outcome(g, Polling(j))
      BY <1>7 DEF resume_running
    <3> QED BY <1>t, <3>1 DEF At, Polling
  <2>3. /\ r \in RunningJob /\ r.job = running.job /\ r.phase = running.phase
        /\ r.cancel = running.cancel /\ r.target = gate.meta.msgs
    BY <1>a DEF TypeInv, TypeOK, RunningJob, Gate, SessionMetadata
  <2> HIDE DEF r
  <2>c. LET q == request_before_prepared(r) IN
        /\ q.job = r.job /\ q.target = r.target
        /\ r.phase = "Cancelable" => q.phase = "CancelRequested" /\ q.cancel = TRUE
        /\ r.phase # "Cancelable" => q.phase = r.phase /\ q.cancel = r.cancel
    BY <2>3, ControlDoes
  <2>4. /\ running'.job = running.job /\ running'.target = gate.meta.msgs
        /\ running'.phase = "CancelRequested" => running'.cancel = TRUE
    BY <1>r, <2>1, <2>3, <2>c
  <2>5. wk.pc # "idle" /\ wk.rec.sess = g
    <3>1. wk.pc # "idle" /\ wk.job = j
      BY <2>1, SupervisorAssumption DEF Registered, JobIds
    <3> QED BY <1>k, <2>1, <3>1 DEF Targets, S
  <2>6. JobsMove /\ GateMove
    BY <2>1 DEF JobsMove, GateMove
  <2>7. AwaitMove
    BY <1>k, <2>1, <2>2 DEF AwaitMove, Moved
  <2>8. WkMove
    BY <1>n, <2>1, <2>4, <2>5 DEF WkMove
  <2>9. HandlerMove
    BY <2>1, <2>2, <2>4 DEF HandlerMove, Moved
  <2> QED BY <1>0, <2>6, <2>7, <2>8, <2>9, RangeHandler
<1>8. ASSUME NEW j \in JobIds, resume_convert(j) PROVE RangeInv'
  <2>1. /\ Written(j, RecapJob(g, gate.meta.msgs)) /\ GateOpened(j, TakenJob(j)) /\ j \in U
        /\ gate.op = "resume" /\ UNCHANGED <<sess, ckpt, lock, client>> /\ Quiet
    BY <1>8, <1>w, GateOpenDoes DEF resume_convert, ResumeStep
  <2>2. JobsMove
    BY <1>a, <1>f, <1>k, <1>n, <2>1 DEF JobsMove, Written
  <2>3. GateMove
    BY <1>a, <1>f, <1>j, <1>k, <1>n, <2>1 DEF GateMove, GateOpened, Written
  <2>4. AwaitMove
    BY <2>1 DEF AwaitMove
  <2>5. HandlerMove
    BY <1>q, <2>1 DEF HandlerMove, GateOpened
  <2> QED BY <1>0, <1>q, <2>1, <2>2, <2>3, <2>4, <2>5, RangeHandler
<1>9. CASE open_finalizing_session_for_resume
  <2>1. /\ \E c : c.pc \in {"none", "opened"} /\ Moved(g, c)
        /\ \/ UNCHANGED sess
           \/ sess[g].status = "Finalizing" /\ Restated(g, "Open")
        /\ UNCHANGED jobs \/ (gate.job # 0 /\ Written(gate.job, gate.orig))
        /\ Relocked(g, IF lock[g] = "gate" THEN "free" ELSE lock[g])
        /\ gate.op = "open" /\ gate' = FreeGate /\ UNCHANGED ckpt /\ Quiet
    BY <1>9, <1>t, <1>w, SetStatusDoes, UnlockedDoes
       DEF open_finalizing_session_for_resume, Release, At, WriteJob
  <2>2. JobsMove
    BY <1>a, <1>n, <2>1 DEF JobsMove, Written, Restated, Targets, Within
  <2>3. AwaitMove /\ GateMove
    BY <2>1 DEF AwaitMove, GateMove, Moved
  <2>4. HandlerMove
    BY <1>q, <2>1 DEF HandlerMove, Moved, Restated, Relocked
  <2> QED BY <1>0, <1>q, <2>1, <2>2, <2>3, <2>4, RangeHandler
<1> QED
  BY <1>1, <1>2, <1>3, <1>4, <1>5, <1>6, <1>7, <1>8, <1>9 DEF HandlerStep

\* A step of the engine on the worker's session S.
EngineMove ==
  /\ UNCHANGED <<jobs, gate, client>> /\ WkKeeps
  /\ wk.pc \notin {"idle", "end"} /\ wk'.pc \notin {"idle", "end"}
  /\ running'.job = running.job /\ running'.target = running.target
  /\ running'.phase = "CancelRequested" => running'.cancel = TRUE
  /\ \A x \in Sessions \ {S} :
       sess'[x] = sess[x] /\ ckpt'[x] = ckpt[x] /\ lock'[x] = lock[x]
  /\ sess'[S].msgs = sess[S].msgs
  /\ sess[S].status = "Closed" => sess'[S].status = "Closed"
  /\ ckpt'[S].status # "None" \/ ckpt'[S] = ckpt[S]
  /\ lock[S] \in {"client", "gate"} => lock'[S] = lock[S]
\* What it leaves behind.
EngineGoal ==
  /\ sess'[S].recapped <= sess'[S].msgs
  /\ ckpt'[S].status # "None" => ckpt'[S].start < ckpt'[S].end /\ ckpt'[S].end <= sess'[S].msgs
  /\ wk'.pc \in LockPcs => lock'[S] = "worker"
  /\ wk'.pc \in {"prepare", "apply", "upload", "recover", "recovered"} => wk'.end <= sess'[S].msgs
  /\ wk'.pc = "prepare" => sess'[S].recapped < wk'.end
  /\ wk'.pc \in {"recover", "recovered"} => ckpt'[S].end <= wk'.end
  /\ IsFinalize /\ wk'.pc \in {"segment", "prepare"} =>
       ckpt'[S].status = "None" \/ ckpt'[S].start # sess'[S].recapped
  /\ wk'.pc \in LockPcs \ {"locked"} => sess'[S].status # "Closed"
  /\ wk'.pc \in {"recover", "recovered", "apply", "upload"} => ckpt'[S].status # "None"

\* A step of the worker inside the engine keeps the ranges.
LEMMA RangeEngine ==
  ASSUME TypeInv, TypeInv', RangeInv, EngineMove, EngineGoal
  PROVE  RangeInv'
<1> USE DEF RangeInv
<1>s. S \in Sessions /\ S' = S /\ (IsFinalize' <=> IsFinalize)
  BY Places DEF EngineMove, S, IsFinalize, WkKeeps
<1>n. \A x \in Sessions : sess[x].msgs \in Nat
  BY Numbers DEF Numeric
<1>1. LocksHeld'
  BY <1>s DEF LocksHeld, EngineMove, EngineGoal
<1>2. Ranges'
  BY <1>s DEF Ranges, EngineMove, EngineGoal
<1>3. Targets'
  <2>1. MsgsGrow /\ JobsMove /\ AwaitMove /\ GateMove /\ WkMove
    BY <1>n, <1>s DEF EngineMove, MsgsGrow, JobsMove, AwaitMove, GateMove, WkMove, WkKeeps
  <2> QED BY <2>1, TargetsKept
<1>4. Segment'
  <2>1. IsFinalize /\ wk'.pc \in {"segment", "prepare"} => ~Covered(S)'
    BY <1>s DEF EngineGoal, Covered, finalize_checkpoint_covers_pending_range
  <2> QED BY <1>s, <2>1 DEF Segment, EngineGoal
<1>5. ClosedStays'
  <2>1. \A x \in Sessions :
       /\ client'[x].pc \in {"reconciling", "settling", "reopening"} => sess'[x].status = "Closed"
       /\ client'[x].pc = "fgPrepared" => ckpt'[x].status # "None"
    BY <1>s DEF ClosedStays, EngineMove
  <2>2. /\ gate'.op \in {"resume", "open"} =>
             client'[gate'.sess].pc \in {"resuming", "reconciling", "settling"}
        /\ gate'.op = "resume" /\ gate'.meta.status = "Closed" =>
             sess'[gate'.sess].status = "Closed"
    BY <1>s, Places DEF ClosedStays, EngineMove
  <2> QED BY <1>s, <2>1, <2>2 DEF ClosedStays, EngineGoal
<1>6. Control'
  BY DEF Control, EngineMove, WkKeeps
<1> QED BY <1>1, <1>2, <1>3, <1>4, <1>5, <1>6

\* The write that commits a segment.
LEMMA CommitDoes ==
  ASSUME TypeInv, S \in Sessions, commit_segment
  PROVE  /\ \A x \in Sessions \ {S} : sess'[x] = sess[x]
         /\ sess'[S].msgs = sess[S].msgs
         /\ sess'[S].status = IF IsFinalize THEN "Closed" ELSE sess[S].status
         /\ sess'[S].recapped = IF sess[S].recapped < wk.end THEN wk.end ELSE sess[S].recapped
<1> DEFINE e == IF sess[S].recapped < wk.end THEN wk.end ELSE sess[S].recapped
           st == IF IsFinalize THEN "Closed" ELSE sess[S].status
<1>1. sess' = [sess EXCEPT ![S].recapped = e, ![S].status = st]
  BY DEF commit_segment, TypeInv, TypeOK, SessionMetadata
<1> HIDE DEF e, st
<1>2. /\ \A x \in Sessions \ {S} : sess'[x] = sess[x]
      /\ sess'[S].msgs = sess[S].msgs /\ sess'[S].status = st /\ sess'[S].recapped = e
  BY <1>1 DEF TypeInv, TypeOK, SessionMetadata
<1> QED BY <1>2 DEF e, st

\* Every step of the engine.
LEMMA EngineStepRange ==
  ASSUME TypeInv, TypeInv', RangeInv, EngineStep
  PROVE  RangeInv'
<1> USE DEF RangeInv
<1>a. wk.pc \in LockPcs \cup {"enter", "lock"} /\ UNCHANGED <<jobs, gate, client>>
  BY DEF EngineStep, WkAt, enter_session, lock_session, finalize_locked, recap_locked,
         recover_current_recap_checkpoint_prefix, advance_recovered_prefix,
         finalize_segment, commit_prepared, apply_finalize_checkpoint, commit_segment,
         attempt_fails, LockPcs
<1>b. S \in Sessions
  BY <1>a, Places DEF LockPcs
<1>n. /\ sess[S].msgs \in Nat /\ sess[S].recapped \in Nat /\ wk.end \in Nat
      /\ ckpt[S].start \in Nat /\ ckpt[S].end \in Nat /\ wk.rec.target \in Nat
  BY <1>b, Numbers DEF Numeric
<1>r. /\ sess[S].recapped <= sess[S].msgs
      /\ ckpt[S].status # "None" =>
           ckpt[S].start < ckpt[S].end /\ ckpt[S].end <= sess[S].msgs
      /\ wk.pc \in LockPcs => lock[S] = "worker"
      /\ wk.rec.target <= sess[S].msgs
  <2>1. wk.rec.kind # "None"
    BY <1>a DEF Targets, LockPcs
  <2> QED BY <1>b, <2>1 DEF Ranges, LocksHeld, Targets, Within, S
<1>c. running.phase = "CancelRequested" => running.cancel = TRUE
  BY DEF Control
<1>d. LET q == MarkPrepared(running) IN
        /\ q.job = running.job /\ q.target = running.target
        /\ q.phase = "CancelRequested" => q.cancel = TRUE
  <2>1. running \in RunningJob
    BY DEF TypeInv, TypeOK
  <2> QED BY <1>c, <2>1, ControlDoes
<1>t. /\ \A st : SetStatus(S, st) => Restated(S, st)
      /\ \A pc : WkGoto(pc) => WkMoved(pc)
      /\ \A pc, e : wk' = [wk EXCEPT !.pc = pc, !.end = e] => WkSegment(pc, e)
      /\ \A pc : Leave(pc) =>
                   WkMoved(pc) /\ Relocked(S, IF lock[S] = "worker" THEN "free" ELSE lock[S])
  BY SetStatusDoes, WkGotoDoes, WkSegmentDoes, LeaveDoes
<1> USE <1>a, <1>b, <1>n, <1>r, <1>c DEF LockPcs
<1>1. CASE enter_session
  <2>1. /\ \E pc \in {"lock", "completed"} : WkMoved(pc)
        /\ \/ UNCHANGED sess
           \/ sess[S].status = "Open" /\ Restated(S, "Finalizing")
        /\ wk.pc = "enter" /\ UNCHANGED <<ckpt, lock, running>>
    BY <1>1, <1>t DEF enter_session, WkAt
  <2>2. EngineMove
    BY <2>1 DEF EngineMove, WkMoved, Restated
  <2>3. EngineGoal
    BY <2>1 DEF EngineGoal, WkMoved, Restated
  <2> QED BY <2>2, <2>3, RangeEngine
<1>2. CASE lock_session
  <2>1. /\ \/ lock[S] = "free" /\ lock' = [lock EXCEPT ![S] = "worker"] /\ WkMoved("locked")
           \/ UNCHANGED lock /\ \E pc \in {"preempted", "completed"} : WkMoved(pc)
        /\ wk.pc = "lock" /\ UNCHANGED <<sess, ckpt, running>>
    BY <1>2, <1>t DEF lock_session, WkAt
  <2>2. /\ \A x \in Sessions \ {S} : lock'[x] = lock[x]
        /\ lock[S] \in {"client", "gate"} => lock'[S] = lock[S]
        /\ wk'.pc = "locked" => lock'[S] = "worker"
    BY <2>1 DEF WkMoved, TypeInv, TypeOK
  <2>3. EngineMove
    BY <2>1, <2>2 DEF EngineMove, WkMoved
  <2>4. EngineGoal
    BY <2>1, <2>2 DEF EngineGoal, WkMoved
  <2> QED BY <2>3, <2>4, RangeEngine
<1>3. CASE finalize_locked
  <2>1. /\ wk.pc = "locked" /\ lock[S] = "worker" /\ UNCHANGED ckpt
        /\ running' \in {running, MarkPrepared(running)}
        /\ \/ /\ \E pc \in {"completed", "preempted"} : WkMoved(pc)
              /\ Relocked(S, "free") /\ UNCHANGED sess
           \/ /\ sess[S].status # "Closed" /\ Covered(S) /\ Restated(S, "Finalizing")
              /\ WkSegment("recover", ckpt[S].end) /\ UNCHANGED lock
           \/ /\ sess[S].status # "Closed" /\ ~Covered(S) /\ Restated(S, "Finalizing")
              /\ WkMoved("segment") /\ UNCHANGED lock
    BY <1>3, <1>t DEF finalize_locked, WkAt
  <2>2. EngineMove
    BY <1>d, <2>1 DEF EngineMove, WkMoved, WkSegment, Restated, Relocked
  <2>3. EngineGoal
    BY <2>1 DEF EngineGoal, WkMoved, WkSegment, Restated, Relocked, Covered,
                finalize_checkpoint_covers_pending_range
  <2> QED BY <2>2, <2>3, RangeEngine
<1>4. CASE recap_locked
  <2>1. /\ wk.pc = "locked" /\ lock[S] = "worker" /\ ~IsFinalize /\ UNCHANGED <<sess, ckpt>>
        /\ running' \in {running, MarkPrepared(running)}
        /\ \/ WkMoved("completed") /\ Relocked(S, "free")
           \/ /\ sess[S].status = "Open" /\ sess[S].recapped < wk.rec.target
              /\ ckpt[S].status # "None"
              /\ WkSegment("apply", wk.rec.target) /\ UNCHANGED lock
           \/ /\ sess[S].status = "Open" /\ sess[S].recapped < wk.rec.target
              /\ WkSegment("prepare", wk.rec.target) /\ UNCHANGED lock
    BY <1>4, <1>t DEF recap_locked, WkAt
  <2>2. EngineMove
    BY <1>d, <2>1 DEF EngineMove, WkMoved, WkSegment, Relocked
  <2>3. EngineGoal
    BY <2>1 DEF EngineGoal, WkMoved, WkSegment, Relocked
  <2> QED BY <2>2, <2>3, RangeEngine
<1>5. CASE recover_current_recap_checkpoint_prefix
  <2>1. /\ wk.pc = "recover" /\ lock[S] = "worker" /\ Applied(S) /\ WkMoved("recovered")
        /\ UNCHANGED <<sess, lock, running>>
    BY <1>5, <1>t, ApplyDoes DEF recover_current_recap_checkpoint_prefix, WkAt
  <2>2. /\ ckpt[S].status # "None" /\ sess[S].status # "Closed"
        /\ ckpt[S].end <= wk.end /\ wk.end <= sess[S].msgs
    BY <2>1 DEF ClosedStays, Segment
  <2>3. EngineMove
    BY <2>1 DEF EngineMove, WkMoved, Applied
  <2>4. EngineGoal
    BY <2>1, <2>2 DEF EngineGoal, WkMoved, Applied
  <2> QED BY <2>3, <2>4, RangeEngine
<1>6. CASE advance_recovered_prefix
  <2>1. /\ wk.pc = "recovered" /\ lock[S] = "worker" /\ WkMoved("segment")
        /\ UNCHANGED <<ckpt, lock, running>>
    BY <1>6, <1>t DEF advance_recovered_prefix, WkAt
  <2>2. /\ \A x \in Sessions \ {S} : sess'[x] = sess[x]
        /\ sess'[S].msgs = sess[S].msgs /\ sess'[S].status = sess[S].status
        /\ sess'[S].recapped = IF sess[S].recapped < wk.end THEN wk.end ELSE sess[S].recapped
    BY <1>6 DEF advance_recovered_prefix, TypeInv, TypeOK, SessionMetadata
  <2>3. /\ ckpt[S].status # "None" /\ sess[S].status # "Closed"
        /\ ckpt[S].end <= wk.end /\ wk.end <= sess[S].msgs
    BY <2>1 DEF ClosedStays, Segment
  <2>4. EngineMove
    BY <2>1, <2>2 DEF EngineMove, WkMoved
  <2>5. EngineGoal
    BY <2>1, <2>2, <2>3 DEF EngineGoal, WkMoved
  <2> QED BY <2>4, <2>5, RangeEngine
<1>7. CASE finalize_segment
  <2>1. /\ wk.pc = "segment" /\ lock[S] = "worker" /\ UNCHANGED ckpt
        /\ running' \in {running, MarkPrepared(running)}
        /\ \/ WkMoved("preempted") /\ Relocked(S, "free") /\ UNCHANGED sess
           \/ WkMoved("completed") /\ Relocked(S, "free") /\ Restated(S, "Closed")
           \/ /\ sess[S].recapped < sess[S].msgs
              /\ WkSegment("prepare", sess[S].msgs) /\ UNCHANGED <<sess, lock>>
    BY <1>7, <1>t DEF finalize_segment, WkAt
  <2>2. /\ sess[S].status # "Closed"
        /\ IsFinalize => ~Covered(S)
    BY <2>1 DEF ClosedStays, Segment
  <2>3. EngineMove
    BY <1>d, <2>1 DEF EngineMove, WkMoved, WkSegment, Restated, Relocked
  <2>4. EngineGoal
    BY <2>1, <2>2 DEF EngineGoal, WkMoved, WkSegment, Restated, Relocked, Covered,
                finalize_checkpoint_covers_pending_range
  <2> QED BY <2>3, <2>4, RangeEngine
<1>8. CASE commit_prepared
  <2>1. /\ wk.pc = "prepare" /\ lock[S] = "worker" /\ UNCHANGED sess
        /\ running' \in {running, MarkPrepared(running)}
        /\ \/ /\ \E pc \in {"completed", "preempted"} : WkMoved(pc)
              /\ Relocked(S, "free") /\ UNCHANGED ckpt
           \/ /\ ckpt' = [ckpt EXCEPT ![S] = [start |-> sess[S].recapped, end |-> wk.end,
                                              status |-> "Prepared"]]
              /\ WkMoved("apply") /\ UNCHANGED lock
    BY <1>8, <1>t DEF commit_prepared, WkAt
  <2>2. /\ sess[S].status # "Closed" /\ sess[S].recapped < wk.end /\ wk.end <= sess[S].msgs
    BY <2>1 DEF ClosedStays, Segment
  <2>3. /\ \A x \in Sessions \ {S} : ckpt'[x] = ckpt[x]
        /\ ckpt'[S] = ckpt[S] \/ /\ ckpt'[S].start = sess[S].recapped /\ ckpt'[S].end = wk.end
                                 /\ ckpt'[S].status = "Prepared"
        /\ wk'.pc = "apply" => ckpt'[S].status = "Prepared"
    BY <2>1 DEF TypeInv, TypeOK, WkMoved
  <2>4. /\ \A x \in Sessions \ {S} : lock'[x] = lock[x]
        /\ wk'.pc = "apply" => lock'[S] = "worker"
        /\ wk'.pc \in {"apply", "completed", "preempted"} /\ wk'.end = wk.end /\ WkKeeps
    BY <2>1 DEF Relocked, WkMoved
  <2>5. EngineMove
    <3>1. running'.job = running.job /\ running'.target = running.target
      BY <1>d, <2>1
    <3>2. running'.phase = "CancelRequested" => running'.cancel = TRUE
      BY <1>d, <2>1
    <3> QED BY <2>1, <2>3, <2>4, <3>1, <3>2 DEF EngineMove
  <2>6. EngineGoal
    BY <2>1, <2>2, <2>3, <2>4 DEF EngineGoal
  <2> QED BY <2>5, <2>6, RangeEngine
<1>9. CASE apply_finalize_checkpoint
  <2>1. /\ wk.pc = "apply" /\ lock[S] = "worker" /\ Applied(S) /\ WkMoved("upload")
        /\ UNCHANGED <<sess, lock, running>>
    BY <1>9, <1>t, ApplyDoes DEF apply_finalize_checkpoint, WkAt
  <2>2. /\ ckpt[S].status # "None" /\ sess[S].status # "Closed" /\ wk.end <= sess[S].msgs
    BY <2>1 DEF ClosedStays, Segment
  <2>3. EngineMove
    BY <2>1 DEF EngineMove, WkMoved, Applied
  <2>4. EngineGoal
    BY <2>1, <2>2 DEF EngineGoal, WkMoved, Applied
  <2> QED BY <2>3, <2>4, RangeEngine
<1>10. CASE commit_segment
  <2>1. /\ wk.pc = "upload" /\ lock[S] = "worker" /\ WkMoved("completed") /\ Relocked(S, "free")
        /\ UNCHANGED <<ckpt, running>>
    BY <1>10, <1>t DEF commit_segment, WkAt
  <2>2. /\ \A x \in Sessions \ {S} : sess'[x] = sess[x]
        /\ sess'[S].msgs = sess[S].msgs
        /\ sess'[S].status = IF IsFinalize THEN "Closed" ELSE sess[S].status
        /\ sess'[S].recapped = IF sess[S].recapped < wk.end THEN wk.end ELSE sess[S].recapped
    BY <1>10, CommitDoes
  <2>3. wk.end <= sess[S].msgs
    BY <2>1 DEF Segment
  <2>4. EngineMove
    BY <2>1, <2>2 DEF EngineMove, WkMoved, Relocked
  <2>5. EngineGoal
    BY <2>1, <2>2, <2>3 DEF EngineGoal, WkMoved, Relocked
  <2> QED BY <2>4, <2>5, RangeEngine
<1>11. CASE attempt_fails
  <2>1. /\ WkMoved("failed") /\ Relocked(S, IF lock[S] = "worker" THEN "free" ELSE lock[S])
        /\ UNCHANGED <<sess, ckpt, running>>
    BY <1>11, <1>t DEF attempt_fails
  <2>2. EngineMove
    BY <2>1 DEF EngineMove, WkMoved, Relocked
  <2>3. EngineGoal
    BY <2>1 DEF EngineGoal, WkMoved
  <2> QED BY <2>2, <2>3, RangeEngine
<1> QED
  BY <1>1, <1>2, <1>3, <1>4, <1>5, <1>6, <1>7, <1>8, <1>9, <1>10, <1>11 DEF EngineStep

\* A step around the engine: the lock is not held, and only waiting clients
\* are answered.
JobMove ==
  /\ UNCHANGED <<ckpt, lock>> /\ wk'.pc \notin LockPcs
  /\ \A x \in Sessions :
       /\ sess'[x].msgs = sess[x].msgs /\ sess'[x].recapped = sess[x].recapped
       /\ \/ sess'[x].status = sess[x].status
          \/ sess[x].status = "Finalizing" /\ sess'[x].status = "Open"
       /\ \/ client'[x] = client[x]
          \/ /\ client[x].pc = "awaiting"
             /\ client'[x].pc \in {"none", "opened", "resuming", "polling"}
  /\ UNCHANGED gate \/ gate'.op \in {"free", "wopen"}
  /\ running'.phase = "CancelRequested" => running'.cancel = TRUE
  /\ wk'.pc \notin {"idle", "end"} => running'.job = wk'.job

\* A step of the worker on its job file keeps the ranges.
LEMMA RangeJob ==
  ASSUME TypeInv, TypeInv', RangeInv, JobMove, JobsMove, GateMove, WkMove
  PROVE  RangeInv'
<1> USE DEF RangeInv
<1>n. \A x \in Sessions : sess[x].msgs \in Nat
  BY Numbers DEF Numeric
<1>1. LocksHeld' /\ Ranges' /\ Control'
  BY DEF LocksHeld, Ranges, Control, JobMove
<1>2. Segment'
  BY DEF Segment, JobMove, LockPcs
<1>3. Targets'
  <2>1. MsgsGrow /\ AwaitMove
    BY <1>n DEF JobMove, MsgsGrow, AwaitMove
  <2> QED BY <2>1, TargetsKept
<1>4. ClosedStays'
  <2>1. \A x \in Sessions :
       /\ client'[x].pc \in {"reconciling", "settling", "reopening"} => sess'[x].status = "Closed"
       /\ client'[x].pc = "fgPrepared" => ckpt'[x].status # "None"
    BY DEF ClosedStays, JobMove
  <2>2. /\ gate'.op \in {"resume", "open"} =>
             client'[gate'.sess].pc \in {"resuming", "reconciling", "settling"}
        /\ gate'.op = "resume" /\ gate'.meta.status = "Closed" =>
             sess'[gate'.sess].status = "Closed"
    BY Places DEF ClosedStays, JobMove
  <2>3. wk'.pc \notin LockPcs /\ {"recover", "recovered", "apply", "upload"} \subseteq LockPcs
    BY DEF JobMove, LockPcs
  <2> QED BY <2>1, <2>2, <2>3 DEF ClosedStays
<1> QED BY <1>1, <1>2, <1>3, <1>4

\* Every step around the engine.
LEMMA JobStepRange ==
  ASSUME TypeInv, TypeInv', RangeInv, JobStep
  PROVE  RangeInv'
<1> USE DEF RangeInv
<1>a. wk.pc # "idle"
  BY DEF JobStep, WkAt, publish_running, defer_job, report_deferred, charge_attempt,
         finish_attempt, convert_finalize_job, open_converted_session, write_succeeded,
         write_failure, report_failure, job_write_fails, end_job, TypeInv, JobsInv
<1>b. /\ S \in Sessions /\ wk.job \in JobIds /\ wk.rec.sess \in Sessions
      /\ wk.rec.kind # "None" /\ wk.rec.target <= sess[wk.rec.sess].msgs
      /\ jobs[wk.job].kind # "None" /\ jobs[wk.job].sess = wk.rec.sess
      /\ running.target <= sess[wk.rec.sess].msgs
      /\ jobs[wk.job].target <= sess[wk.rec.sess].msgs
      /\ running \in RunningJob /\ wk.rec \in SupervisorJob /\ jobs[wk.job] \in SupervisorJob
  BY <1>a, Places DEF Targets, Within, S, TypeInv, TypeOK, Worker
<1>n. \A x \in Sessions : sess[x].msgs \in Nat
  BY Numbers DEF Numeric
<1>c. /\ running.phase = "CancelRequested" => running.cancel = TRUE
      /\ wk.pc # "end" => running.job = wk.job
  BY <1>a DEF Control
<1>f. /\ finish(running).job = running.job /\ finish(running).target = running.target
      /\ finish(running).phase # "CancelRequested" /\ finish(running) \in RunningJob
  BY <1>b, ControlDoes, ControlType
<1>t. /\ \A pc : WkGoto(pc) => WkMoved(pc)
      /\ \A j, c : Deliver(j, c) => Answered(c)
      /\ \A j, rec : WriteJob(j, rec) => Written(j, rec)
  BY WkGotoDoes, DeliverDoes, WriteJobDoes
<1>w. \A rec \in SupervisorJob :
        /\ Written(wk.job, rec) /\ UNCHANGED sess
        /\ rec.kind # "None" /\ rec.sess = wk.rec.sess /\ rec.target <= sess[wk.rec.sess].msgs
        => JobsMove
  BY <1>b DEF Written, JobsMove
<1>g. UNCHANGED gate => GateMove
  BY DEF GateMove
<1> USE <1>a, <1>b, <1>c DEF LockPcs
<1>1. CASE publish_running \/ defer_job \/ charge_attempt
  <2>1. PICK rec \in SupervisorJob, pc \in {"recovering", "deferred", "enter"} :
          /\ rec.kind = wk.rec.kind /\ rec.sess = wk.rec.sess /\ rec.target = wk.rec.target
          /\ WriteJob(wk.job, rec) /\ wk' = [wk EXCEPT !.pc = pc, !.rec = rec]
    <3>1. /\ \A st \in JobStatus : LET r == [wk.rec EXCEPT !.status = st] IN
                /\ r \in SupervisorJob
                /\ r.kind = wk.rec.kind /\ r.sess = wk.rec.sess /\ r.target = wk.rec.target
      BY DEF SupervisorJob
    <3>2. CASE publish_running \/ defer_job
      BY <3>1, <3>2 DEF publish_running, defer_job, JobStatus
    <3>3. CASE charge_attempt
      <4>1. wk.rec.att < MaxAttempts
        BY <3>3 DEF charge_attempt, WkAt, TypeInv, JobsInv
      <4>2. wk.rec.att + 1 \in 0..MaxAttempts
        BY <4>1, SupervisorAssumption DEF SupervisorJob
      <4>3. LET r == [wk.rec EXCEPT !.att = @ + 1] IN
              /\ r \in SupervisorJob
              /\ r.kind = wk.rec.kind /\ r.sess = wk.rec.sess /\ r.target = wk.rec.target
        BY <4>2 DEF SupervisorJob
      <4> QED BY <3>3, <4>3 DEF charge_attempt
    <3> QED BY <1>1, <3>2, <3>3
  <2>2. wk'.rec = rec /\ wk'.job = wk.job /\ wk'.pc = pc
    BY <2>1, WkRecordType DEF TypeInv, WorkerPc
  <2>3. wk.pc # "end" /\ UNCHANGED <<sess, ckpt, lock, gate, running, client>>
    BY <1>1 DEF publish_running, defer_job, charge_attempt, WkAt
  <2>4. JobsMove
    BY <1>t, <1>w, <2>1, <2>3
  <2>5. WkMove
    BY <2>1, <2>2, <2>3 DEF WkMove
  <2>6. JobMove
    BY <2>2, <2>3 DEF JobMove
  <2> QED BY <1>g, <2>3, <2>4, <2>5, <2>6, RangeJob
<1>2. CASE report_deferred \/ finish_attempt
  <2>1. /\ UNCHANGED <<sess, ckpt, lock, gate, jobs>>
        /\ \E pc \in {"end", "ok", "fail", "convert"} : WkMoved(pc)
    BY <1>2, <1>t DEF report_deferred, finish_attempt, WkAt
  <2>2. UNCHANGED client \/ \E c : c.pc \in {"none", "polling"} /\ Answered(c)
    BY <1>2, <1>t DEF report_deferred, finish_attempt, At, Polling
  <2>3. UNCHANGED running \/ \E b : running' = [finish(running) EXCEPT !.sent = b]
    BY <1>2 DEF report_deferred, finish_attempt
  <2>4. /\ running'.job = running.job /\ running'.target = running.target
        /\ running'.phase = "CancelRequested" => running'.cancel = TRUE
    BY <1>f, <2>3 DEF RunningJob
  <2>5. wk.pc # "end"
    BY <1>2 DEF report_deferred, finish_attempt, WkAt
  <2>6. JobsMove /\ WkMove
    BY <2>1, <2>4 DEF JobsMove, WkMove, WkMoved, WkKeeps
  <2>7. JobMove
    BY <2>1, <2>2, <2>4, <2>5 DEF JobMove, WkMoved, WkKeeps, Answered
  <2> QED BY <1>g, <2>1, <2>6, <2>7, RangeJob
<1>r. /\ \A q \in {running, NoRunning} : q.phase = "CancelRequested" => q.cancel = TRUE
      /\ NoRunning.target = 0
  BY DEF NoRunning
<1>3. CASE convert_finalize_job
  <2>1. /\ Written(wk.job, RecapJob(S, running.target)) /\ wk.pc = "convert"
        /\ gate' = [FreeGate EXCEPT !.op = "wopen", !.sess = S, !.job = wk.job]
        /\ UNCHANGED <<sess, ckpt, lock, running, wk, client>>
    BY <1>3, <1>t DEF convert_finalize_job
  <2>2. /\ gate'.op = "wopen" /\ gate'.meta.msgs = 0 /\ gate'.orig.kind = "None" /\ gate'.sess = S
    BY <2>1 DEF FreeGate, NoJob, NewMeta
  <2>3. JobsMove
    BY <2>1 DEF JobsMove, Written, RecapJob, S
  <2>4. GateMove /\ WkMove /\ JobMove
    BY <1>n, <2>1, <2>2 DEF GateMove, WkMove, JobMove
  <2> QED BY <2>3, <2>4, RangeJob
<1>4. CASE open_converted_session
  <2>1. running' = [running EXCEPT !.sent = TRUE] /\ gate' = FreeGate /\ UNCHANGED <<ckpt, lock>>
    BY <1>4 DEF open_converted_session, Release
  <2>2. /\ running'.job = running.job /\ running'.target = running.target
        /\ running'.phase = running.phase /\ running'.cancel = running.cancel
    BY <2>1 DEF RunningJob
  <2>3. \E c : c.pc \in {"none", "opened"} /\ Answered(c)
    BY <1>4, <1>t DEF open_converted_session, At
  <2>4. /\ wk'.job = wk.job /\ wk'.rec = wk.rec /\ wk'.pc \in {"end", "enter"}
        /\ wk.pc # "end"
    <3>1. wk.pc # "end"
      BY <1>4 DEF open_converted_session, TypeInv, JobsInv
    <3>2. wk \in Worker
      BY DEF TypeInv, TypeOK
    <3> QED BY <1>4, <3>1, <3>2 DEF open_converted_session, WkGoto, Worker
  <2>5. /\ \/ UNCHANGED sess
           \/ sess[S].status = "Finalizing" /\ Restated(S, "Open")
        /\ UNCHANGED jobs \/ (UNCHANGED sess /\ Written(wk.job, wk.rec))
    BY <1>4, <1>t, SetStatusDoes DEF open_converted_session
  <2>6. JobsMove
    BY <1>w, <2>5 DEF JobsMove
  <2>7. GateMove /\ WkMove
    BY <2>1, <2>2, <2>4 DEF GateMove, WkMove
  <2>8. JobMove
    <3>1. gate'.op = "free"
      BY <2>1 DEF FreeGate
    <3> QED BY <2>1, <2>2, <2>3, <2>4, <2>5, <3>1 DEF JobMove, Restated, Answered
  <2> QED BY <2>6, <2>7, <2>8, RangeJob
<1>5. CASE write_succeeded \/ write_failure
  <2>1. PICK rec \in SupervisorJob, pc \in {"end", "notify"} :
          /\ rec.kind = wk.rec.kind /\ rec.sess = wk.rec.sess /\ rec.target = wk.rec.target
          /\ WriteJob(wk.job, rec) /\ WkGoto(pc)
    <3>1. LET r == [wk.rec EXCEPT !.status = "Succeeded"] IN
            /\ r \in SupervisorJob
            /\ r.kind = wk.rec.kind /\ r.sess = wk.rec.sess /\ r.target = wk.rec.target
      BY DEF SupervisorJob, JobStatus
    <3>2. LET r == apply_job_attempt_failure(wk.rec) IN
            /\ r \in SupervisorJob
            /\ r.kind = wk.rec.kind /\ r.sess = wk.rec.sess /\ r.target = wk.rec.target
      BY DEF SupervisorJob, JobStatus, apply_job_attempt_failure
    <3>3. CASE write_succeeded
      BY <3>1, <3>3 DEF write_succeeded
    <3>4. CASE write_failure
      BY <3>2, <3>4 DEF write_failure
    <3> QED BY <1>5, <3>3, <3>4
  <2>2. wk.pc # "end" /\ UNCHANGED <<sess, ckpt, lock, gate, running, client>>
    BY <1>5 DEF write_succeeded, write_failure, WkAt
  <2>3. JobsMove
    BY <1>t, <1>w, <2>1, <2>2
  <2>4. WkMoved(pc)
    BY <1>t, <2>1
  <2>5. WkMove /\ JobMove
    BY <2>2, <2>4 DEF WkMove, JobMove, WkMoved, WkKeeps
  <2> QED BY <1>g, <2>2, <2>3, <2>5, RangeJob
<1>6. CASE report_failure \/ job_write_fails
  <2>1. /\ UNCHANGED <<sess, ckpt, lock, gate, jobs>>
        /\ \/ WkMoved("end")
           \/ WkMoved("error") /\ UNCHANGED running
    BY <1>6, <1>t DEF report_failure, job_write_fails
  <2>2. UNCHANGED client \/ \E c : c.pc \in {"none", "resuming"} /\ Answered(c)
    BY <1>6, <1>t DEF report_failure, job_write_fails, At
  <2>3. /\ running'.target \in {0, running.target}
        /\ running'.phase = "CancelRequested" => running'.cancel = TRUE
    <3>1. UNCHANGED running \/ running' = NoRunning \/ running' = [running EXCEPT !.sent = TRUE]
      BY <1>6 DEF report_failure, job_write_fails
    <3> QED BY <1>r, <3>1 DEF RunningJob
  <2>4. wk.pc # "end"
    BY <1>6 DEF report_failure, job_write_fails, WkAt
  <2>5. JobsMove /\ WkMove
    BY <2>1, <2>3 DEF JobsMove, WkMove, WkMoved, WkKeeps
  <2>6. JobMove
    BY <2>1, <2>2, <2>3, <2>4 DEF JobMove, WkMoved, WkKeeps, Answered
  <2> QED BY <1>g, <2>1, <2>5, <2>6, RangeJob
<1>7. CASE end_job
  <2>1. /\ UNCHANGED <<sess, ckpt, lock, gate>> /\ running' = NoRunning /\ wk' = IdleWorker
        /\ \E c : c.pc = "none" /\ Answered(c)
    BY <1>7, <1>t DEF end_job, At
  <2>2. JobsMove
    <3>1. LET r == recover_stale_running_job(jobs[wk.job], sess[jobs[wk.job].sess].status) IN
            /\ r.kind = jobs[wk.job].kind /\ r.sess = jobs[wk.job].sess
            /\ r.target = jobs[wk.job].target
      BY DEF recover_stale_running_job, SupervisorJob
    <3>2. CASE UNCHANGED jobs
      BY <3>2 DEF JobsMove
    <3>3. CASE WriteJob(wk.job, recover_stale_running_job(jobs[wk.job], sess[jobs[wk.job].sess].status))
      BY <1>t, <2>1, <3>1, <3>3 DEF JobsMove, Written
    <3> QED BY <1>7, <3>2, <3>3 DEF end_job, reconcile_running_job_after_runner_error
  <2>3. wk'.pc = "idle" /\ wk'.rec = NoJob
    BY <2>1 DEF IdleWorker
  <2>4. WkMove /\ JobMove
    BY <1>r, <2>1, <2>3 DEF WkMove, JobMove, Answered
  <2> QED BY <1>g, <2>1, <2>2, <2>4, RangeJob
<1> QED
  BY <1>1, <1>2, <1>3, <1>4, <1>5, <1>6, <1>7 DEF JobStep

\* A worker that takes a job takes it as it is stored.
LEMMA PickRange ==
  ASSUME TypeInv, TypeInv', RangeInv, pick_job
  PROVE  RangeInv'
<1> USE DEF RangeInv
<1>1. PICK j \in JobIds : /\ next_queued_job(j)
                          /\ wk' = [IdleWorker EXCEPT !.pc = "picked", !.job = j, !.rec = jobs[j]]
                          /\ running' = [NoRunning EXCEPT !.job = j]
  BY DEF pick_job
<1>2. /\ wk'.pc = "picked" /\ wk'.job = j /\ wk'.rec = jobs[j]
      /\ running'.job = j /\ running'.target = 0 /\ running'.phase = "Cancelable"
  BY <1>1 DEF IdleWorker, NoRunning
<1>3. jobs[j].kind # "None" /\ jobs[j].sess \in Sessions
  BY <1>1, Places DEF next_queued_job, Queued
<1>4. UNCHANGED <<sess, ckpt, lock, jobs, gate, client>>
  BY DEF pick_job
<1>5. sess[jobs[j].sess].msgs \in Nat
  BY <1>3, Numbers DEF Numeric
<1>6. LocksHeld' /\ Ranges' /\ Segment' /\ ClosedStays' /\ Control'
  BY <1>2, <1>4 DEF LocksHeld, LockPcs, Ranges, Segment, ClosedStays, Control
<1>7. Targets'
  BY <1>2, <1>3, <1>4, <1>5 DEF Targets, Within, S
<1> QED BY <1>6, <1>7

\* The process starts and stops with an idle worker, and a crash takes what
\* was in memory with it.
LEMMA ProcessStepRange ==
  ASSUME TypeInv, TypeInv', RangeInv, ProcessStep
  PROVE  RangeInv'
<1> USE DEF RangeInv
<1>n. \A x \in Sessions : sess[x].msgs \in Nat
  BY Numbers DEF Numeric
<1>1. CASE start
  <2>1. UNCHANGED <<sess, ckpt, lock, gate, running, wk, client>>
    BY <1>1 DEF start
  <2>2. JobsMove
    <3> SUFFICES ASSUME NEW j \in JobIds, jobs'[j] # jobs[j]
                 PROVE  /\ jobs'[j].kind # "None" /\ jobs'[j].sess \in Sessions
                        /\ jobs'[j].target <= sess'[jobs'[j].sess].msgs
                        /\ jobs[j].kind # "None" => jobs'[j].sess = jobs[j].sess
      BY DEF JobsMove
    <3>1. /\ jobs[j].kind # "None"
          /\ jobs'[j] = recover_stale_running_job(jobs[j], sess[jobs[j].sess].status)
      BY <1>1 DEF start
    <3>2. jobs[j] \in SupervisorJob
      BY DEF TypeInv, TypeOK
    <3>3. /\ jobs'[j].kind = jobs[j].kind /\ jobs'[j].sess = jobs[j].sess
          /\ jobs'[j].target = jobs[j].target
      BY <3>1, <3>2 DEF recover_stale_running_job, SupervisorJob
    <3> QED BY <2>1, <3>1, <3>3, Places DEF Targets, Within
  <2>3. MsgsGrow /\ AwaitMove /\ GateMove
    BY <1>n, <2>1 DEF MsgsGrow, AwaitMove, GateMove
  <2>4. WkMove
    BY <2>1 DEF WkMove
  <2>5. Targets'
    BY <2>2, <2>3, <2>4, TargetsKept
  <2> QED BY <2>1, <2>5 DEF LocksHeld, Ranges, Segment, ClosedStays, Control, S, IsFinalize,
                            Covered, finalize_checkpoint_covers_pending_range
<1>2. CASE begin_idle_shutdown_if_due \/ stop_requested \/ stopped
  <2>1. UNCHANGED <<sess, ckpt, lock, jobs, gate, running, wk, client>>
    BY <1>2 DEF begin_idle_shutdown_if_due, stop_requested, stopped
  <2> QED BY <2>1 DEF LocksHeld, Ranges, Targets, Within, Segment, ClosedStays, Control, S,
                      IsFinalize, Covered, finalize_checkpoint_covers_pending_range
<1>3. CASE crash
  <2>1. /\ UNCHANGED <<sess, ckpt, jobs>>
        /\ gate' = FreeGate /\ running' = NoRunning /\ wk' = IdleWorker
        /\ \A s \in Sessions : /\ lock[s] = "client" => lock'[s] = "client"
                               /\ \/ client'[s] = client[s]
                                  \/ client'[s].pc \in {"none", "foreground"}
    BY <1>3 DEF crash, At, Fallback
  <2>2. /\ gate'.op = "free" /\ gate'.orig.kind = "None" /\ wk'.pc = "idle"
        /\ wk'.rec = NoJob /\ running'.phase = "Cancelable"
    BY <2>1 DEF FreeGate, NoJob, NoRunning, IdleWorker
  <2>3. MsgsGrow /\ JobsMove /\ AwaitMove /\ GateMove /\ WkMove
    BY <1>n, <2>1, <2>2 DEF MsgsGrow, JobsMove, AwaitMove, GateMove, WkMove
  <2>4. Targets'
    BY <2>3, TargetsKept
  <2>5. LocksHeld' /\ Ranges' /\ Segment' /\ ClosedStays' /\ Control'
    BY <2>1, <2>2 DEF LocksHeld, LockPcs, Ranges, Segment, ClosedStays, Control
  <2> QED BY <2>4, <2>5
<1> QED BY <1>1, <1>2, <1>3 DEF ProcessStep

\* The initial state.
LEMMA InitRange == Init => RangeInv
<1> SUFFICES ASSUME Init PROVE RangeInv
  OBVIOUS
<1>1. /\ \A s \in Sessions : /\ sess[s] = NewMeta /\ ckpt[s] = NoCkpt
                             /\ client[s] = At("live")
      /\ \A j \in JobIds : jobs[j] = NoJob
      /\ gate = FreeGate /\ running = NoRunning /\ wk = IdleWorker
  BY DEF Init
<1> QED BY <1>1 DEF RangeInv, LocksHeld, Ranges, Targets, Within, Segment, ClosedStays, Control,
                    NewMeta, NoCkpt, NoJob, At, FreeGate, NoRunning, IdleWorker, LockPcs

\* Every step.
LEMMA NextRange ==
  ASSUME TypeInv, TypeInv', AwaitInv, RangeInv, [Next]_vars
  PROVE  RangeInv'
<1>1. CASE UNCHANGED vars
  BY <1>1 DEF vars, RangeInv, LocksHeld, Ranges, Targets, Within, Segment, ClosedStays, Control,
              S, IsFinalize, Covered, finalize_checkpoint_covers_pending_range
<1>2. CASE \E s \in Sessions : ClientStep(s) \/ RequestStep(s)
  BY <1>2, ClientStepOwner, RangeOwnerStep, RequestStepRange
<1>3. CASE HandlerStep
  BY <1>3, HandlerStepRange DEF AwaitInv
<1>4. CASE WorkerStep
  <2>1. EngineStep \/ JobStep
    BY <1>4 DEF WorkerStep, EngineStep, JobStep
  <2> QED BY <2>1, EngineStepRange, JobStepRange
<1> QED BY <1>1, <1>2, <1>3, <1>4, PickRange, ProcessStepRange DEF Next

\* Checkpoints, cursors, targets and segments stay within the messages.
LEMMA RangeInvariant == Spec => []RangeInv
<1>1. TypeInv /\ TypeInv' /\ AwaitInv /\ RangeInv /\ [Next]_vars => RangeInv'
  BY NextRange
<1> QED BY <1>1, InitRange, TypeInvariant, AwaitInvariant, PTL DEF Spec

\* A Finalize, in the worker or in the foreground, never prepares again a
\* range for which a checkpoint is at hand: what was prepared is applied.
THEOREM CheckpointIsHonoured == Spec => FinalizeHonoursCheckpoint
<1>1. ASSUME TypeInv, RangeInv, [Next]_vars, NEW s \in Sessions,
             Covered(s), ckpt'[s] # ckpt[s], ckpt'[s].status = "Prepared"
      PROVE  wk.rec.kind = "Recap"
  <2>1. CASE commit_prepared
    <3>1. wk.pc = "prepare" /\ S = s
      BY <1>1, <2>1 DEF commit_prepared, WkAt, TypeInv, TypeOK
    <3>2. ~IsFinalize /\ wk.rec.kind # "None" /\ wk.rec \in SupervisorJob
      BY <1>1, <3>1 DEF RangeInv, Segment, Targets, TypeInv, TypeOK, Worker
    <3> QED BY <3>2 DEF IsFinalize, SupervisorJob
  <2>2. ASSUME NEW x \in Sessions, fg_prepare(x) PROVE FALSE
    BY <1>1, <2>2 DEF fg_prepare, TypeInv, TypeOK
  <2>3. CASE UNCHANGED ckpt \/ \E x \in Sessions : ApplyCheckpoint(x) \/ ckpt' = [ckpt EXCEPT ![x] = NoCkpt]
    BY <1>1, <2>3 DEF ApplyCheckpoint, NoCkpt, TypeInv, TypeOK, FinalizeCheckpoint
  <2>4. \/ commit_prepared \/ \E x \in Sessions : fg_prepare(x)
        \/ UNCHANGED ckpt
        \/ \E x \in Sessions : ApplyCheckpoint(x) \/ ckpt' = [ckpt EXCEPT ![x] = NoCkpt]
    <3>1. CASE \E x \in Sessions : ClientStep(x) \/ RequestStep(x)
      BY <3>1 DEF ClientStep, RequestStep, append_messages, mark_session_finalizing,
         finalize_without_job, enqueue_unavailable, fg_lock, fg_recover, fg_close, fg_fail,
         reserve_runtime_session, reconcile_skipped, mark_open, complete_finalizing_resume,
         wait_for_resume_finalize_job, client_crash, request_enqueue, request_retry,
         request_resume, create_recap_job, Acquire
    <3>2. CASE HandlerStep \/ pick_job \/ ProcessStep
      BY <3>2 DEF HandlerStep, enqueue_finalize_job, retry_finalize_job, resume_not_unique,
         resume_closed, resume_open, resume_orphan, resume_checkpointed, resume_running,
         resume_convert, open_finalizing_session_for_resume, ResumeStep, pick_job, ProcessStep,
         start, begin_idle_shutdown_if_due, stop_requested, stopped, crash
    <3>3. CASE recover_current_recap_checkpoint_prefix \/ apply_finalize_checkpoint
      <4>1. S \in Sessions
        BY <1>1, <3>3, Places DEF recover_current_recap_checkpoint_prefix,
           apply_finalize_checkpoint, WkAt
      <4> QED BY <3>3, <4>1 DEF recover_current_recap_checkpoint_prefix,
                                apply_finalize_checkpoint
    <3>4. CASE WorkerStep
      BY <3>3, <3>4 DEF WorkerStep, publish_running, defer_job, report_deferred, charge_attempt,
         enter_session, lock_session, finalize_locked, recap_locked, advance_recovered_prefix,
         finalize_segment, commit_segment, attempt_fails, finish_attempt, convert_finalize_job,
         open_converted_session, write_succeeded, write_failure, report_failure,
         job_write_fails, end_job
    <3>5. CASE UNCHANGED vars
      BY <3>5 DEF vars
    <3> QED BY <1>1, <3>1, <3>2, <3>4, <3>5 DEF Next
  <2> QED BY <2>1, <2>2, <2>3, <2>4
<1>2. TypeInv /\ RangeInv /\ [Next]_vars =>
        [\A s \in Sessions : Covered(s) /\ ckpt'[s] # ckpt[s] /\ ckpt'[s].status = "Prepared" =>
             wk.rec.kind = "Recap"]_vars
  BY <1>1
<1> QED BY <1>2, TypeInvariant, RangeInvariant, PTL DEF Spec, FinalizeHonoursCheckpoint

-----------------------------------------------------------------------------
(* A takeover keeps the work: nobody finalizes in the foreground, and the   *)
(* worker does not write between two reads of a handler                     *)

\* No TUI finalizes in the foreground, and a handler's reads are of one moment.
Patient == ~TornReads /\ ~Foreground

\* A handler that holds the gate has a live process and a client that waits
\* for it, and what it has read of the session is still so.
GateUp == gate.op # "free" \/ wk.pc # "idle" => sup # "down"
GateClient ==
  /\ \A s \in Sessions : client[s].pc \notin {"foreground", "fgLocked", "fgPrepared"}
  /\ gate.op = "enqueue" => client[gate.sess].pc = "exiting"
  /\ gate.op = "retry" /\ ~ExitRetries => client[gate.sess].pc # "exiting"
GateFresh == gate.op \notin {"free", "wopen"} => gate.meta = sess[gate.sess]

\* Between the two writes of a conversion the Recap that takes the backlog
\* over is on disk, and no checkpoint covers the pending range.
GateOpen ==
  /\ gate.op = "open" =>
       /\ gate.meta.status = "Finalizing" /\ ~Covered(gate.sess)
       /\ gate.job = 0 => gate.meta.recapped >= gate.meta.msgs
       /\ gate.job # 0 => gate.job \in JobIds /\ jobs[gate.job] = RecapJob(gate.sess, gate.meta.msgs)
  /\ gate.op = "wopen" => /\ gate.sess = S /\ gate.job = wk.job
                          /\ jobs[wk.job] = RecapJob(S, running.target)
GateInv == GateUp /\ GateClient /\ GateFresh /\ GateOpen

\* A step in which the gate stays free, or becomes free.
LEMMA GateFreed ==
  ASSUME GateInv, gate'.op = "free",
         \A s \in Sessions : client'[s].pc \notin {"foreground", "fgLocked", "fgPrepared"},
         wk'.pc # "idle" => sup' # "down"
  PROVE  GateInv'
BY DEF GateInv, GateUp, GateClient, GateFresh, GateOpen

\* The process that owns a session touches no other session.
LEMMA ClientStepOther ==
  ASSUME TypeInv, GateInv, NEW s \in Sessions, ClientStep(s)
  PROVE  \A x \in Sessions \ {s} : sess'[x] = sess[x] /\ ckpt'[x] = ckpt[x] /\ client'[x] = client[x]
<1>b. client[s].pc \notin {"foreground", "fgLocked", "fgPrepared"}
  BY DEF GateInv, GateClient
<1>1. \A x \in Sessions \ {s} : client'[x] = client[x]
  <2>1. UNCHANGED client \/ \E c : c.pc # "awaiting" /\ Goto(s, c)
    BY ClientMovesOn
  <2> QED BY <2>1, GotoDoes DEF Moved
<1>2. \A x \in Sessions \ {s} : sess'[x] = sess[x] /\ ckpt'[x] = ckpt[x]
  <2>1. CASE append_messages(s) \/ mark_open(s)
    BY <2>1 DEF append_messages, mark_open, SetStatus, TypeInv, TypeOK
  <2>2. CASE ~(append_messages(s) \/ mark_open(s))
    <3>1. /\ UNCHANGED sess \/ SetStatus(s, "Finalizing") \/ SetStatus(s, "Closed")
          /\ UNCHANGED ckpt
      BY <1>b, <2>2 DEF ClientStep, mark_session_finalizing, finalize_without_job,
         enqueue_unavailable, fg_lock, fg_recover, fg_prepare, fg_close, fg_fail,
         reserve_runtime_session, reconcile_skipped, complete_finalizing_resume,
         wait_for_resume_finalize_job, client_crash
    <3> QED BY <3>1, SetStatusDoes DEF Restated
  <2> QED BY <2>1, <2>2
<1> QED BY <1>1, <1>2

\* The process that owns a session does nothing while a handler serves that
\* session: it waits for its own request, and another one is of one moment.
LEMMA ClientStepGate ==
  ASSUME Patient, TypeInv, RangeInv, GateInv, NEW s \in Sessions, ClientStep(s)
  PROVE  GateInv' /\ (gate.op \notin {"free", "wopen"} => s # gate.sess)
<1>a. UNCHANGED <<jobs, gate, running, wk, sup>>
  BY DEF ClientStep, append_messages, mark_session_finalizing, finalize_without_job,
         enqueue_unavailable, fg_lock, fg_recover, fg_prepare, fg_close, fg_fail,
         reserve_runtime_session, reconcile_skipped, mark_open, complete_finalizing_resume,
         wait_for_resume_finalize_job, client_crash
<1>b. client[s].pc \notin {"foreground", "fgLocked", "fgPrepared"}
  BY DEF GateInv, GateClient
<1>1. gate.op \notin {"free", "wopen"} => s # gate.sess
  BY DEF Patient, ClientStep, Unserved
<1>2. \A x \in Sessions \ {s} : sess'[x] = sess[x] /\ ckpt'[x] = ckpt[x] /\ client'[x] = client[x]
  BY ClientStepOther
<1>3. client'[s].pc \notin {"foreground", "fgLocked", "fgPrepared"}
  <2>0. sess[s].status \in SessionStatus
    BY DEF TypeInv, TypeOK, SessionMetadata
  <2>1. UNCHANGED client \/ \E c : c.pc \notin {"foreground", "fgLocked", "fgPrepared"} /\ Goto(s, c)
    BY <1>b, <2>0 DEF Patient, SessionStatus, ClientStep, append_messages, mark_session_finalizing,
         finalize_without_job, enqueue_unavailable, fg_lock, fg_recover, fg_prepare, fg_close,
         fg_fail, reserve_runtime_session, reconcile_skipped, mark_open, Fallback, At,
         complete_finalizing_resume, wait_for_resume_finalize_job, client_crash
  <2> QED BY <1>b, <2>1, GotoDoes DEF Moved
<1>4. GateInv'
  <2>1. GateUp' /\ GateClient' /\ GateFresh'
    BY <1>a, <1>1, <1>2, <1>3, Places DEF GateInv, GateUp, GateClient, GateFresh
  <2>2. GateOpen'
    BY <1>a, <1>1, <1>2, Places DEF GateInv, GateOpen, S, Covered
  <2> QED BY <2>1, <2>2 DEF GateInv
<1> QED BY <1>1, <1>4

\* A request takes the gate for a client that waits for it.
LEMMA RequestStepGate ==
  ASSUME Patient, TypeInv, RangeInv, GateInv, NEW s \in Sessions, RequestStep(s)
  PROVE  GateInv'
<1>1. CASE create_recap_job(s)
  <2>1. gate'.op = "free" /\ UNCHANGED <<client, wk, sup>>
    BY <1>1 DEF create_recap_job
  <2> QED BY <2>1, GateFreed DEF GateInv, GateUp, GateClient
<1>2. CASE request_enqueue(s) \/ request_retry(s) \/ request_resume(s)
  <2>1. PICK op \in {"enqueue", "retry", "resume"} :
          /\ Acquire(op, s)
          /\ op = "enqueue" => client[s].pc = "exiting"
          /\ op = "retry" /\ ~ExitRetries => client[s].pc # "exiting"
    BY <1>2 DEF request_enqueue, request_retry, request_resume
  <2>2. /\ gate'.op = op /\ gate'.sess = s /\ gate'.meta = sess[s]
        /\ sup = "up" /\ UNCHANGED <<sess, sup, client>>
    BY <2>1 DEF Acquire, FreeGate
  <2> QED BY <2>1, <2>2 DEF GateInv, GateUp, GateClient, GateFresh, GateOpen
<1> QED BY <1>1, <1>2 DEF RequestStep

\* A handler leaves the gate, or holds it with the converted job on disk.
LEMMA HandlerStepGate ==
  ASSUME Patient, TypeInv, RangeInv, GateInv, HandlerStep
  PROVE  GateInv'
<1> DEFINE g == gate.sess
<1>0. gate.op \notin {"free", "wopen"} /\ UNCHANGED <<sup, wk, ckpt>>
  BY DEF HandlerStep, enqueue_finalize_job, retry_finalize_job, resume_not_unique,
         resume_closed, resume_open, resume_orphan, resume_checkpointed, resume_running,
         resume_convert, ResumeStep, open_finalizing_session_for_resume
<1>a. g \in Sessions /\ gate.meta = sess[g]
  BY <1>0, Places DEF GateInv, GateFresh
<1>b. \A x \in Sessions : client[x].pc \notin {"foreground", "fgLocked", "fgPrepared"}
  BY DEF GateInv, GateClient
<1>c. wk'.pc # "idle" => sup' # "down"
  BY <1>0 DEF GateInv, GateUp
<1>1. CASE gate' = FreeGate
  <2>1. UNCHANGED client \/ \E c : c.pc \notin {"foreground", "fgLocked", "fgPrepared"} /\ Goto(g, c)
    <3>1. \A c : c.pc \notin {"foreground", "fgLocked", "fgPrepared"} /\ Outcome(g, c) =>
             \E d : d.pc \notin {"foreground", "fgLocked", "fgPrepared"} /\ Goto(g, d)
      BY DEF Outcome, At
    <3>2. \A p, j : /\ Polling(p).pc = "polling" /\ At(p).pc = p
                    /\ (IF p \in {"Cancelable", "FinishedBeforePrepared"}
                        THEN [pc |-> "awaiting", job |-> j] ELSE Polling(j)).pc \in {"awaiting", "polling"}
                    /\ Fallback.pc = "none"
      BY DEF Polling, At, Fallback, Patient
    <3>3. CASE enqueue_finalize_job \/ retry_finalize_job
      BY <3>2, <3>3 DEF enqueue_finalize_job, retry_finalize_job
    <3>4. CASE \/ resume_not_unique \/ resume_closed \/ resume_open
               \/ open_finalizing_session_for_resume
               \/ \E j \in JobIds : resume_checkpointed(j) \/ resume_running(j) \/ resume_convert(j)
      <4>1. UNCHANGED client \/ \E c : c.pc \notin {"foreground", "fgLocked", "fgPrepared"} /\ Outcome(g, c)
        BY <3>2, <3>4 DEF resume_not_unique, resume_closed, resume_open,
           resume_checkpointed, resume_running, resume_convert, open_finalizing_session_for_resume
      <4> QED BY <3>1, <4>1
    <3>5. CASE resume_orphan
      <4>1. UNCHANGED client \/ \E c : c.pc \notin {"foreground", "fgLocked", "fgPrepared"} /\ Outcome(g, c)
        BY <3>2, <3>5 DEF resume_orphan
      <4> QED BY <3>1, <4>1
    <3> QED BY <3>3, <3>4, <3>5 DEF HandlerStep
  <2>2. gate'.op = "free"
    BY <1>1 DEF FreeGate
  <2>3. \A x \in Sessions : client'[x].pc \notin {"foreground", "fgLocked", "fgPrepared"}
    BY <1>b, <2>1, GotoDoes DEF Moved
  <2> QED BY <1>c, <2>2, <2>3, GateFreed
<1>2. CASE gate' # FreeGate
  <2>1. resume_orphan \/ \E j \in JobIds : resume_convert(j)
    BY <1>2 DEF HandlerStep, enqueue_finalize_job, retry_finalize_job, resume_not_unique,
       resume_closed, resume_open, resume_checkpointed, resume_running,
       open_finalizing_session_for_resume, Release
  <2>2. /\ gate.meta.status = "Finalizing" /\ UNCHANGED <<sess, client>> /\ ~Covered(g)
        /\ \/ \E j \in JobIds : \E rec : Written(j, RecapJob(g, gate.meta.msgs)) /\ GateOpened(j, rec)
           \/ GateOpened(gate.job, gate.orig) /\ gate.meta.recapped >= gate.meta.msgs
        /\ gate.op = "resume"
    <3>1. ~HasCheckpoint => ~Covered(g)
      BY <1>a DEF HasCheckpoint, Covered
    <3>2. CASE resume_orphan
      BY <1>2, <3>1, <3>2, WriteJobDoes, GateOpenDoes, GateOpenBareDoes
         DEF resume_orphan, ResumeStep, Release
    <3>3. CASE \E j \in JobIds : resume_convert(j)
      BY <3>1, <3>3, WriteJobDoes, GateOpenDoes DEF resume_convert, ResumeStep
    <3> QED BY <2>1, <3>2, <3>3
  <2>3. /\ gate'.op = "open" /\ gate'.sess = g /\ gate'.meta = gate.meta
        /\ gate'.job = 0 => gate.meta.recapped >= gate.meta.msgs
        /\ gate'.job # 0 => gate'.job \in JobIds /\ jobs'[gate'.job] = RecapJob(g, gate.meta.msgs)
    <3>1. gate.job = 0
      BY <2>2 DEF RangeInv, Targets
    <3>2. 0 \notin JobIds
      BY SupervisorAssumption DEF JobIds
    <3> QED BY <2>2, <3>1, <3>2 DEF GateOpened, Written
  <2>4. GateUp' /\ GateClient' /\ GateFresh'
    BY <1>0, <1>a, <1>b, <2>2, <2>3 DEF GateInv, GateUp, GateClient, GateFresh
  <2>6. GateOpen'
    <3>1. ~Covered(gate.sess)'
      BY <1>0, <2>2, <2>3 DEF Covered
    <3> QED BY <2>2, <2>3, <3>1 DEF GateOpen
  <2> QED BY <2>4, <2>6 DEF GateInv
<1> QED BY <1>1, <1>2

\* The worker only moves while nobody holds the gate, but for the two halves
\* of its own conversion.
LEMMA WorkerStepGate ==
  ASSUME Patient, TypeInv, RangeInv, GateInv, WorkerStep
  PROVE  GateInv'
<1>0. UNCHANGED sup
  BY DEF WorkerStep, publish_running, defer_job, report_deferred, charge_attempt,
         enter_session, lock_session, finalize_locked, recap_locked, advance_recovered_prefix,
         recover_current_recap_checkpoint_prefix, apply_finalize_checkpoint, commit_prepared,
         finalize_segment, commit_segment, attempt_fails, finish_attempt, convert_finalize_job,
         open_converted_session, write_succeeded, write_failure, report_failure,
         job_write_fails, end_job
<1>b. \A x \in Sessions : client'[x].pc \notin {"foreground", "fgLocked", "fgPrepared"}
  <2>1. UNCHANGED client \/ \E c : c.pc \notin {"foreground", "fgLocked", "fgPrepared"} /\ Answered(c)
    <3>1. \A j, c : Deliver(j, c) => Answered(c)
      BY DeliverDoes
    <3>2. CASE report_deferred \/ finish_attempt \/ open_converted_session \/ report_failure \/ end_job
      BY <3>1, <3>2 DEF report_deferred, finish_attempt, open_converted_session, report_failure,
         end_job, At, Polling
    <3> QED BY <3>2 DEF WorkerStep, publish_running, defer_job, charge_attempt,
         enter_session, lock_session, finalize_locked, recap_locked, advance_recovered_prefix,
         recover_current_recap_checkpoint_prefix, apply_finalize_checkpoint, commit_prepared,
         finalize_segment, commit_segment, attempt_fails, convert_finalize_job,
         write_succeeded, write_failure, job_write_fails
  <2> QED BY <2>1 DEF GateInv, GateClient, Answered
<1>c. wk.pc # "idle"
  BY DEF WorkerStep, WkAt, publish_running, defer_job, report_deferred, charge_attempt,
         enter_session, lock_session, finalize_locked, recap_locked, advance_recovered_prefix,
         recover_current_recap_checkpoint_prefix, apply_finalize_checkpoint, commit_prepared,
         finalize_segment, commit_segment, attempt_fails, finish_attempt, convert_finalize_job,
         open_converted_session, write_succeeded, write_failure, report_failure,
         job_write_fails, end_job, TypeInv, JobsInv
<1>1. CASE convert_finalize_job
  <2>1. /\ gate'.op = "wopen" /\ gate'.sess = S /\ gate'.job = wk.job
        /\ UNCHANGED <<wk, running>>
    BY <1>1 DEF convert_finalize_job, FreeGate
  <2>2. jobs'[wk.job] = RecapJob(S, running.target)
    BY <1>1, <1>c, Places, WriteJobDoes DEF convert_finalize_job, Written
  <2> QED BY <1>0, <1>b, <1>c, <2>1, <2>2 DEF GateInv, GateUp, GateClient, GateFresh, GateOpen, S
<1>2. CASE ~convert_finalize_job
  <2>1. gate'.op = "free"
    BY <1>2 DEF WorkerStep, WkAt, Interleaved, Patient, FreeGate, Release, publish_running, defer_job,
         report_deferred, charge_attempt,
         enter_session, lock_session, finalize_locked, recap_locked, advance_recovered_prefix,
         recover_current_recap_checkpoint_prefix, apply_finalize_checkpoint, commit_prepared,
         finalize_segment, commit_segment, attempt_fails, finish_attempt,
         open_converted_session, write_succeeded, write_failure, report_failure,
         job_write_fails, end_job
  <2> QED BY <1>0, <1>b, <1>c, <2>1, GateFreed DEF GateInv, GateUp
<1> QED BY <1>1, <1>2

\* Every step.
LEMMA NextGate ==
  ASSUME Patient, TypeInv, RangeInv, GateInv, [Next]_vars
  PROVE  GateInv'
<1>1. CASE UNCHANGED vars
  BY <1>1 DEF vars, GateInv, GateUp, GateClient, GateFresh, GateOpen, S, Covered
<1>2. CASE pick_job
  <2>1. gate.op = "free" /\ sup = "up" /\ UNCHANGED <<gate, sup, client>>
    BY <1>2 DEF pick_job
  <2> QED BY <2>1, GateFreed DEF GateInv, GateClient
<1>3. CASE start
  <2>1. gate.op = "free" /\ sup' = "up" /\ UNCHANGED <<gate, client>>
    BY <1>3 DEF start, GateInv, GateUp
  <2> QED BY <2>1, GateFreed DEF GateInv, GateClient
<1>4. CASE begin_idle_shutdown_if_due \/ stop_requested \/ stopped
  <2>1. /\ gate.op = "free" /\ UNCHANGED <<gate, client, wk>>
        /\ sup' = "down" => wk.pc = "idle"
    BY <1>4 DEF begin_idle_shutdown_if_due, stop_requested, stopped
  <2> QED BY <2>1, GateFreed DEF GateInv, GateClient
<1>5. CASE crash
  <2>1. /\ gate'.op = "free" /\ wk'.pc = "idle"
        /\ \A x \in Sessions : client'[x] = client[x] \/ client'[x].pc = "none"
    BY <1>5 DEF crash, FreeGate, IdleWorker, At, Fallback, Patient
  <2> QED BY <2>1, GateFreed DEF GateInv, GateClient
<1> QED BY <1>1, <1>2, <1>3, <1>4, <1>5, ClientStepGate, RequestStepGate, HandlerStepGate,
           WorkerStepGate DEF Next, ProcessStep

\* The initial state.
LEMMA InitGate == Init => GateInv
BY DEF Init, GateInv, GateUp, GateClient, GateFresh, GateOpen, FreeGate, IdleWorker, At

\* Only a Finalize gets to these steps, and the worker's copy is unresolved.
WorkerKind ==
  /\ wk.pc \in {"recover", "recovered", "segment"} => IsFinalize
  /\ wk.pc # "idle" => wk.rec.status # "Succeeded"

\* From the request to stop on until the conversion, the session stays as the
\* takeover found it: Finalizing, with no checkpoint, no new message, its job
\* unresolved and its client waiting.
CancelPcs == {"picked", "recovering", "enter", "lock", "locked", "segment", "prepare",
              "preempted", "convert"}
Cancelling == /\ IsFinalize /\ wk.pre = TRUE /\ running.cancel = TRUE
              /\ wk.pc \in CancelPcs
Held ==
  /\ sess[S].status = "Finalizing" /\ ~Covered(S) /\ running.target = sess[S].msgs
  /\ client[S].pc \in {"none", "resuming", "awaiting", "polling"}
  /\ gate.op # "wopen" => wk.job \in unresolved_finalize_jobs(S)
  /\ ~(gate.op = "open" /\ gate.sess = S)
Preempted ==
  /\ wk.pc \in {"preempted", "convert"} => IsFinalize /\ wk.pre = TRUE /\ running.cancel = TRUE
  /\ wk.pre = TRUE /\ IsFinalize /\ wk.pc \in {"recover", "recovered"} =>
       running.phase = "Prepared" /\ running.cancel = FALSE
  /\ Cancelling => Held
PreemptInv == WorkerKind /\ Preempted

\* A step that neither moves the worker nor its control.
LEMMA PreemptKept ==
  ASSUME PreemptInv, UNCHANGED <<wk, running>>, Cancelling => Held'
  PROVE  PreemptInv'
BY DEF PreemptInv, WorkerKind, Preempted, Cancelling, IsFinalize

\* The client of a session that is being taken over only moves to wait.
LEMMA ClientStepPreempt ==
  ASSUME Patient, TypeInv, RangeInv, GateInv, PreemptInv, NEW s \in Sessions, ClientStep(s)
  PROVE  PreemptInv'
<1>a. UNCHANGED <<jobs, gate, running, wk>>
  BY DEF ClientStep, append_messages, mark_session_finalizing, finalize_without_job,
         enqueue_unavailable, fg_lock, fg_recover, fg_prepare, fg_close, fg_fail,
         reserve_runtime_session, reconcile_skipped, mark_open, complete_finalizing_resume,
         wait_for_resume_finalize_job, client_crash
<1>1. ASSUME Cancelling PROVE Held'
  <2>1. S \in Sessions /\ Held
    BY <1>1, Places DEF Cancelling, CancelPcs, PreemptInv, Preempted
  <2>2. CASE s # S
    <3>1. sess'[S] = sess[S] /\ ckpt'[S] = ckpt[S] /\ client'[S] = client[S]
      BY <2>1, <2>2, ClientStepOther
    <3> QED BY <1>a, <2>1, <3>1 DEF Held, S, Covered, unresolved_finalize_jobs
  <2>3. CASE s = S
    <3>1. /\ sess[s].status = "Finalizing"
          /\ client[s].pc \in {"none", "resuming", "awaiting", "polling"}
      BY <2>1, <2>3 DEF Held
    <3>2. /\ UNCHANGED <<sess, ckpt>>
          /\ \E c : c.pc \in {"none", "resuming"} /\ Goto(s, c)
      BY <3>1 DEF ClientStep, append_messages, mark_session_finalizing, finalize_without_job,
           enqueue_unavailable, fg_lock, fg_recover, fg_prepare, fg_close, fg_fail,
           reserve_runtime_session, reconcile_skipped, mark_open, complete_finalizing_resume,
           wait_for_resume_finalize_job, client_crash, At
    <3>3. client'[S].pc \in {"none", "resuming"}
      BY <2>1, <2>3, <3>2, GotoDoes DEF Moved
    <3> QED BY <1>a, <2>1, <3>2, <3>3 DEF Held, S, Covered, unresolved_finalize_jobs
  <2> QED BY <2>2, <2>3
<1> QED BY <1>a, <1>1, PreemptKept

\* A request leaves everything but the gate alone, or queues a new job.
LEMMA RequestStepPreempt ==
  ASSUME Patient, TypeInv, RangeInv, GateInv, PreemptInv, NEW s \in Sessions, RequestStep(s)
  PROVE  PreemptInv'
<1>a. UNCHANGED <<sess, ckpt, client, running, wk>> /\ gate.op = "free"
  BY DEF RequestStep, request_enqueue, request_retry, request_resume, Acquire, create_recap_job
<1>b. gate'.op # "open"
  BY DEF RequestStep, request_enqueue, request_retry, request_resume, Acquire,
         create_recap_job, FreeGate
<1>1. ASSUME Cancelling PROVE Held'
  <2>1. S \in Sessions /\ Held
    BY <1>1, Places DEF Cancelling, CancelPcs, PreemptInv, Preempted
  <2>2. wk.job \in unresolved_finalize_jobs(S)
    BY <1>a, <2>1 DEF Held
  <2>3. jobs'[wk.job] = jobs[wk.job]
    <3>1. CASE create_recap_job(s)
      BY <2>2, <3>1, WriteJobDoes DEF create_recap_job, IsNewId, FreshIds, Written,
         unresolved_finalize_jobs
    <3>2. CASE request_enqueue(s) \/ request_retry(s) \/ request_resume(s)
      BY <3>2 DEF request_enqueue, request_retry, request_resume, Acquire
    <3> QED BY <3>1, <3>2 DEF RequestStep
  <2> QED BY <1>a, <1>b, <2>1, <2>2, <2>3 DEF Held, S, Covered, unresolved_finalize_jobs
<1> QED BY <1>a, <1>1, PreemptKept

\* A handler works on the session it holds the gate for, and on nothing else.
HandlerFrame(g) ==
  /\ g \in Sessions /\ gate.op \in {"enqueue", "retry", "resume", "open"} /\ gate.meta = sess[g]
  /\ UNCHANGED <<ckpt, sup, wk>>
  /\ \A x \in Sessions \ {g} : /\ sess'[x] = sess[x] /\ client'[x] = client[x]
                               /\ lock'[x] = lock[x]
  /\ \A j \in JobIds : jobs'[j] # jobs[j] =>
       /\ jobs[j].kind = "None" \/ jobs[j].sess = g
       /\ jobs'[j].sess = g /\ jobs'[j].kind # "None"
  /\ gate' = FreeGate \/ (gate'.op = "open" /\ gate'.sess = g)

\* Every handler keeps to its session.
LEMMA HandlerKeeps ==
  ASSUME Patient, TypeInv, RangeInv, GateInv, HandlerStep
  PROVE  HandlerFrame(gate.sess)
<1> DEFINE g == gate.sess
           U == unresolved_finalize_jobs(g)
<1>0. /\ gate.op \in {"enqueue", "retry", "resume", "open"} /\ UNCHANGED <<sup, wk, ckpt>>
      /\ gate.op # "open" => UNCHANGED sess
  BY DEF HandlerStep, enqueue_finalize_job, retry_finalize_job, resume_not_unique,
         resume_closed, resume_open, resume_orphan, resume_checkpointed, resume_running,
         resume_convert, ResumeStep, open_finalizing_session_for_resume
<1>a. g \in Sessions /\ gate.meta = sess[g]
  BY <1>0, Places DEF GateInv, GateFresh
<1>1. \A x \in Sessions \ {g} : client'[x] = client[x]
  <2>1. UNCHANGED client \/ \E c : Goto(g, c)
    <3>1. CASE enqueue_finalize_job \/ retry_finalize_job
      BY <3>1 DEF enqueue_finalize_job, retry_finalize_job
    <3>2. CASE resume_orphan
      BY <3>2 DEF resume_orphan, Outcome
    <3>3. CASE \/ resume_not_unique \/ resume_closed \/ resume_open
               \/ open_finalizing_session_for_resume
               \/ \E j \in JobIds : resume_checkpointed(j) \/ resume_running(j) \/ resume_convert(j)
      BY <3>3 DEF resume_not_unique, resume_closed, resume_open, Outcome,
         resume_checkpointed, resume_running, resume_convert, open_finalizing_session_for_resume
    <3> QED BY <3>1, <3>2, <3>3 DEF HandlerStep
  <2> QED BY <2>1, GotoDoes DEF Moved
<1>2. \A x \in Sessions \ {g} : sess'[x] = sess[x]
  <2>1. UNCHANGED sess \/ SetStatus(g, "Open")
    BY <1>0 DEF HandlerStep, enqueue_finalize_job, retry_finalize_job, resume_not_unique,
         resume_closed, resume_open, resume_orphan, resume_checkpointed, resume_running,
         resume_convert, ResumeStep, open_finalizing_session_for_resume
  <2> QED BY <2>1, SetStatusDoes DEF Restated
<1>3. \A x \in Sessions \ {g} : lock'[x] = lock[x]
  <2>1. UNCHANGED lock \/ \E h : lock' = [lock EXCEPT ![g] = h]
    BY DEF HandlerStep, enqueue_finalize_job, retry_finalize_job, resume_not_unique,
         resume_closed, resume_open, resume_orphan, resume_checkpointed, resume_running,
         resume_convert, ResumeStep, open_finalizing_session_for_resume, Unlocked
  <2> QED BY <2>1 DEF TypeInv, TypeOK
<1>4. gate' = FreeGate \/ (gate'.op = "open" /\ gate'.sess = g)
  BY GateOpenDoes, GateOpenBareDoes DEF HandlerStep, enqueue_finalize_job, retry_finalize_job,
     resume_not_unique, resume_closed, resume_open, resume_orphan, resume_checkpointed,
     resume_running, resume_convert, open_finalizing_session_for_resume, Release, GateOpened
<1>5. ASSUME NEW j \in JobIds, jobs'[j] # jobs[j]
      PROVE  /\ jobs[j].kind = "None" \/ jobs[j].sess = g
             /\ jobs'[j].sess = g /\ jobs'[j].kind # "None"
  <2>k. /\ \A k \in U : k \in JobIds /\ jobs[k].kind = "Finalize" /\ jobs[k].sess = g
        /\ \A k \in JobIds : IsNewId(k) => jobs[k].kind = "None"
    BY DEF unresolved_finalize_jobs, IsNewId, FreshIds
  <2>f. /\ FinalizeJob(g).kind = "Finalize" /\ FinalizeJob(g).sess = g
        /\ \A m : RecapJob(g, m).kind = "Recap" /\ RecapJob(g, m).sess = g
    BY DEF FinalizeJob, RecapJob
  <2>w. \A k, rec : WriteJob(k, rec) => Written(k, rec)
    BY WriteJobDoes
  <2>1. CASE enqueue_finalize_job \/ retry_finalize_job
    <3>1. \E k \in JobIds : (IsNewId(k) \/ k \in U) /\ Written(k, FinalizeJob(g))
      BY <1>5, <2>1, <2>k, <2>w DEF enqueue_finalize_job, retry_finalize_job
    <3> QED BY <1>5, <2>f, <2>k, <3>1 DEF Written
  <2>2. CASE resume_closed
    <3>1. j \in U /\ jobs'[j] = [jobs[j] EXCEPT !.status = "Succeeded"]
      BY <1>5, <2>2 DEF resume_closed
    <3>2. jobs[j] \in SupervisorJob
      BY DEF TypeInv, TypeOK
    <3> QED BY <2>k, <3>1, <3>2 DEF SupervisorJob
  <2>3. CASE resume_orphan
    <3>1. \E k \in JobIds : \E rec : /\ IsNewId(k) /\ Written(k, rec)
                                     /\ rec \in {FinalizeJob(g), RecapJob(g, gate.meta.msgs)}
      BY <1>5, <2>3, <2>w DEF resume_orphan
    <3> QED BY <1>5, <2>f, <2>k, <3>1 DEF Written
  <2>4. ASSUME NEW k \in JobIds, resume_checkpointed(k) \/ resume_convert(k)
        PROVE  /\ jobs[j].kind = "None" \/ jobs[j].sess = g
               /\ jobs'[j].sess = g /\ jobs'[j].kind # "None"
    <3>1. /\ TakenJob(k).kind = jobs[k].kind /\ TakenJob(k).sess = jobs[k].sess
      BY DEF TakenJob, recover_stale_running_job, TypeInv, TypeOK, SupervisorJob
    <3>2. k \in U /\ \E rec : /\ Written(k, rec)
                              /\ rec \in {FinalizeJob(g), TakenJob(k), RecapJob(g, gate.meta.msgs)}
      BY <2>4, <2>w DEF resume_checkpointed, resume_convert
    <3> QED BY <1>5, <2>f, <2>k, <3>1, <3>2 DEF Written
  <2>5. CASE open_finalizing_session_for_resume
    <3>1. gate.job # 0 /\ jobs' = [jobs EXCEPT ![gate.job] = gate.orig] /\ gate.op = "open"
      BY <1>5, <2>5 DEF open_finalizing_session_for_resume
    <3>2. j = gate.job /\ jobs'[j] = gate.orig
      BY <1>5, <3>1 DEF TypeInv, TypeOK
    <3> QED BY <3>1, <3>2 DEF RangeInv, Targets
  <2>6. CASE resume_not_unique \/ resume_open \/ \E k \in JobIds : resume_running(k)
    BY <1>5, <2>6 DEF resume_not_unique, resume_open, resume_running
  <2> QED BY <2>1, <2>2, <2>3, <2>4, <2>5, <2>6 DEF HandlerStep
<1> QED BY <1>0, <1>a, <1>1, <1>2, <1>3, <1>4, <1>5 DEF HandlerFrame

\* The request to stop finds the worker's own job, and the session as read.
LEMMA StopRequested ==
  ASSUME Patient, TypeInv, RangeInv, GateInv, Registered, NEW j \in JobIds, resume_running(j)
  PROVE  /\ wk.pc # "idle" /\ wk.job = j /\ S = gate.sess /\ S \in Sessions
         /\ unresolved_finalize_jobs(S) = {j} /\ UNCHANGED <<sess, ckpt, jobs, wk>>
         /\ gate' = FreeGate /\ sess[S].status = "Finalizing" /\ ~Covered(S)
         /\ client[S].pc = "resuming" /\ client'[S].pc \in {"awaiting", "polling"}
         /\ running'.target = sess[S].msgs /\ running'.job = running.job
         /\ running.phase = "Cancelable" =>
              running'.phase = "CancelRequested" /\ running'.cancel = TRUE
         /\ running.phase # "Cancelable" =>
              running'.phase = running.phase /\ running'.cancel = running.cancel
<1>1. /\ gate.op = "resume" /\ gate.meta.status = "Finalizing" /\ running.job = j
      /\ unresolved_finalize_jobs(gate.sess) = {j} /\ ~HasCheckpoint
      /\ gate' = FreeGate /\ UNCHANGED <<sess, ckpt, jobs, wk>>
  BY DEF resume_running, ResumeStep, Release
<1>2. wk.pc # "idle" /\ wk.job = j /\ gate.sess \in Sessions
  BY <1>1, Places, SupervisorAssumption DEF Registered, JobIds
<1>3. gate.meta = sess[gate.sess] /\ jobs[j].sess = gate.sess
  BY <1>1 DEF GateInv, GateFresh, unresolved_finalize_jobs
<1>4. S = gate.sess
  BY <1>2, <1>3 DEF RangeInv, Targets
<1>5. ~Covered(S)
  BY <1>1, <1>3, <1>4 DEF HasCheckpoint, Covered
<1>6. client[S].pc = "resuming"
  BY <1>1, <1>2, <1>3, <1>4 DEF RangeInv, ClosedStays
<1>7. client'[S].pc \in {"awaiting", "polling"}
  <2>1. \E c : c.pc \in {"awaiting", "polling"} /\ Outcome(S, c)
    BY <1>4 DEF resume_running, Polling
  <2> QED BY <1>2, <1>4, <1>6, <2>1, OutcomeDoes DEF Moved
<1>8. /\ running'.target = sess[S].msgs /\ running'.job = running.job
      /\ running.phase = "Cancelable" =>
           running'.phase = "CancelRequested" /\ running'.cancel = TRUE
      /\ running.phase # "Cancelable" =>
           running'.phase = running.phase /\ running'.cancel = running.cancel
  <2> DEFINE r == [running EXCEPT !.target = gate.meta.msgs]
  <2>1. /\ r \in RunningJob /\ r.job = running.job /\ r.phase = running.phase
        /\ r.cancel = running.cancel /\ r.target = gate.meta.msgs
    BY DEF TypeInv, TypeOK, RunningJob, Gate, SessionMetadata
  <2>2. running' = request_before_prepared(r)
    BY DEF resume_running
  <2>3. LET q == request_before_prepared(r) IN
            /\ q.job = r.job /\ q.target = r.target
            /\ r.phase = "Cancelable" => q.phase = "CancelRequested" /\ q.cancel = TRUE
            /\ r.phase # "Cancelable" => q.phase = r.phase /\ q.cancel = r.cancel
    BY <2>1, ControlDoes
  <2> QED BY <1>3, <1>4, <2>1, <2>2, <2>3
<1> QED BY <1>1, <1>2, <1>3, <1>4, <1>5, <1>6, <1>7, <1>8

\* A handler finds a session that is being taken over held, and leaves it so.
LEMMA HandlerStepPreempt ==
  ASSUME Patient, TypeInv, RangeInv, GateInv, Registered, PreemptInv, HandlerStep
  PROVE  PreemptInv'
<1> DEFINE g == gate.sess
<1>a. HandlerFrame(g)
  BY HandlerKeeps
<1>1. ASSUME NEW j \in JobIds, resume_running(j) PROVE PreemptInv'
  <2>1. /\ wk.job = j /\ S \in Sessions
        /\ unresolved_finalize_jobs(S) = {j} /\ UNCHANGED <<sess, ckpt, jobs, wk>>
        /\ gate' = FreeGate /\ sess[S].status = "Finalizing" /\ ~Covered(S)
        /\ client'[S].pc \in {"awaiting", "polling"}
        /\ running'.target = sess[S].msgs
        /\ running.phase = "Cancelable" =>
              running'.phase = "CancelRequested" /\ running'.cancel = TRUE
        /\ running.phase # "Cancelable" =>
              running'.phase = running.phase /\ running'.cancel = running.cancel
    BY <1>1, StopRequested
  <2>2. Held'
    <3>1. gate'.op = "free"
      BY <2>1 DEF FreeGate
    <3> QED BY <2>1, <3>1 DEF Held, S, Covered, unresolved_finalize_jobs
  <2>3. running.cancel = TRUE => running'.cancel = TRUE
    BY <2>1
  <2> QED BY <2>1, <2>2, <2>3 DEF PreemptInv, WorkerKind, Preempted, IsFinalize
<1>2. CASE enqueue_finalize_job /\ running' # running
  <2>1. ~IsFinalize /\ UNCHANGED wk
    BY <1>2 DEF enqueue_finalize_job, request_same_session_recap_preemption, IsFinalize
  <2> QED BY <2>1 DEF PreemptInv, WorkerKind, Preempted, Cancelling, IsFinalize
<1>3. CASE UNCHANGED running /\ ~\E j \in JobIds : resume_running(j)
  <2>1. ASSUME Cancelling PROVE Held'
    <3>1. S \in Sessions /\ Held /\ wk.pc # "idle" /\ wk.pc # "end"
      BY <2>1, Places DEF Cancelling, CancelPcs, PreemptInv, Preempted
    <3>2. /\ wk.job \in JobIds /\ wk.job \in unresolved_finalize_jobs(S) /\ jobs[wk.job].sess = S
          /\ jobs[wk.job].kind = "Finalize" /\ running.job = wk.job
      BY <1>a, <3>1 DEF Held, HandlerFrame, unresolved_finalize_jobs, RangeInv, Control
    <3>3. CASE g # S
      <4>1. /\ sess'[S] = sess[S] /\ client'[S] = client[S] /\ jobs'[wk.job] = jobs[wk.job]
            /\ UNCHANGED <<ckpt, wk>>
        BY <1>a, <3>1, <3>2, <3>3 DEF HandlerFrame
      <4>2. ~(gate'.op = "open" /\ gate'.sess = S)
        BY <1>a, <3>3 DEF HandlerFrame, FreeGate
      <4> QED BY <1>3, <3>1, <3>2, <4>1, <4>2 DEF Held, S, Covered, unresolved_finalize_jobs
    <3>4. CASE g = S
      <4>1. /\ gate.meta.status = "Finalizing" /\ ~HasCheckpoint /\ gate.op \in {"retry", "resume"}
            /\ client[g].pc \in {"none", "resuming", "awaiting", "polling"}
        BY <1>a, <3>1, <3>4 DEF Held, HandlerFrame, HasCheckpoint, Covered, GateInv, GateClient,
                                RangeInv, ClosedStays
      <4>2. retry_finalize_job \/ resume_not_unique
        <5>1. ~enqueue_finalize_job /\ ~open_finalizing_session_for_resume
          BY <4>1 DEF enqueue_finalize_job, open_finalizing_session_for_resume
        <5>2. ~resume_closed /\ ~resume_open /\ ~resume_orphan
          BY <3>2, <3>4, <4>1 DEF resume_closed, resume_open, resume_orphan, ResumeStep
        <5>3. \A j \in JobIds : ~resume_checkpointed(j) /\ ~resume_convert(j)
          BY <3>2, <3>4, <4>1 DEF resume_checkpointed, resume_convert
        <5> QED BY <1>3, <5>1, <5>2, <5>3 DEF HandlerStep
      <4>3. /\ jobs'[wk.job] = jobs[wk.job] \/ jobs'[wk.job] = FinalizeJob(S)
            /\ client'[S] = client[S] \/ client'[S].pc = "none"
            /\ UNCHANGED <<sess, ckpt, wk>> /\ gate' = FreeGate
        <5>1. CASE retry_finalize_job
          <6>1. \/ UNCHANGED jobs
                \/ \E k : Written(k, FinalizeJob(g))
            BY <5>1, WriteJobDoes DEF retry_finalize_job
          <6> QED BY <3>2, <3>4, <5>1, <6>1 DEF retry_finalize_job, Written, Release
        <5>2. CASE resume_not_unique
          <6>1. UNCHANGED <<jobs, sess, ckpt, wk>> /\ gate' = FreeGate /\ Outcome(g, At("none"))
            BY <5>2 DEF resume_not_unique, ResumeStep, Release
          <6> QED BY <3>1, <3>4, <6>1, OutcomeDoes DEF Moved, At
        <5> QED BY <4>2, <5>1, <5>2
      <4>4. gate'.op = "free" /\ wk.job \in unresolved_finalize_jobs(S)'
        BY <3>2, <4>3 DEF FreeGate, unresolved_finalize_jobs, FinalizeJob, S
      <4> QED BY <1>3, <3>1, <4>3, <4>4 DEF Held, S, Covered
    <3> QED BY <3>3, <3>4
  <2> QED BY <1>3, <1>a, <2>1, PreemptKept DEF HandlerFrame
<1>4. UNCHANGED running \/ enqueue_finalize_job \/ \E j \in JobIds : resume_running(j)
  BY DEF HandlerStep, retry_finalize_job, resume_not_unique,
     resume_closed, resume_open, resume_orphan, resume_checkpointed,
     resume_convert, open_finalizing_session_for_resume
<1> QED BY <1>1, <1>2, <1>3, <1>4

\* The worker moves on in the engine: a Finalize that is asked to stop goes
\* only where it can still be converted, and the session stays held.
EngineTurn ==
  /\ gate.op = "free" /\ UNCHANGED <<gate, jobs, client>> /\ WkKeeps
  /\ S \in Sessions /\ wk.pc # "idle" /\ wk'.pc \notin {"idle", "convert"}
  /\ running'.cancel = running.cancel /\ running'.target = running.target
EngineStops ==
  /\ wk'.pc \in {"recover", "recovered", "segment"} => IsFinalize
  /\ wk'.pc = "preempted" => IsFinalize /\ wk.pre = TRUE /\ running.cancel = TRUE
  /\ wk.pre = TRUE /\ IsFinalize /\ wk'.pc \in {"recover", "recovered"} =>
       running'.phase = "Prepared" /\ running.cancel = FALSE
  /\ IsFinalize /\ wk.pre = TRUE /\ running.cancel = TRUE /\ wk'.pc \in CancelPcs =>
       /\ wk.pc \in CancelPcs /\ ckpt'[S] = ckpt[S]
       /\ sess'[S].msgs = sess[S].msgs /\ sess'[S].recapped = sess[S].recapped
       /\ sess[S].status = "Finalizing" => sess'[S].status = "Finalizing"

\* Such a step keeps the invariant.
LEMMA EngineKeepsPreempt ==
  ASSUME PreemptInv, EngineTurn, EngineStops
  PROVE  PreemptInv'
<1>1. WorkerKind'
  BY DEF PreemptInv, WorkerKind, EngineTurn, EngineStops, WkKeeps, IsFinalize
<1>2. ASSUME Cancelling' PROVE Held'
  <2>1. /\ IsFinalize /\ wk.pre = TRUE /\ running.cancel = TRUE /\ wk'.pc \in CancelPcs
    BY <1>2 DEF Cancelling, EngineTurn, WkKeeps, IsFinalize
  <2>2. Held /\ /\ ckpt'[S] = ckpt[S] /\ sess'[S].status = "Finalizing"
                /\ sess'[S].msgs = sess[S].msgs /\ sess'[S].recapped = sess[S].recapped
    BY <2>1 DEF EngineStops, PreemptInv, Preempted, Cancelling, Held
  <2>3. S' = S
    BY DEF EngineTurn, WkKeeps, S
  <2>4. ~Covered(S)'
    BY <2>2, <2>3 DEF Held, Covered, finalize_checkpoint_covers_pending_range
  <2> QED BY <2>2, <2>3, <2>4 DEF Held, EngineTurn, WkKeeps, unresolved_finalize_jobs
<1>3. Preempted'
  BY <1>2 DEF Preempted, EngineTurn, EngineStops, WkKeeps, IsFinalize
<1> QED BY <1>1, <1>3 DEF PreemptInv

\* Every step of the engine.
LEMMA EngineStepPreempt ==
  ASSUME Patient, TypeInv, RangeInv, GateInv, PreemptInv, EngineStep
  PROVE  PreemptInv'
<1>a. /\ wk.pc \in {"enter", "lock"} \cup LockPcs
      /\ gate.op = "free" /\ UNCHANGED <<gate, jobs, client>>
  BY DEF Patient, Interleaved, EngineStep, WkAt, enter_session, lock_session, finalize_locked,
         recap_locked, recover_current_recap_checkpoint_prefix, advance_recovered_prefix,
         finalize_segment, commit_prepared, apply_finalize_checkpoint, commit_segment,
         attempt_fails, LockPcs
<1>b. S \in Sessions
  BY <1>a, Places DEF LockPcs
<1>c. /\ wk.pre \in BOOLEAN /\ running.cancel \in BOOLEAN
      /\ running.phase = "CancelRequested" => running.cancel = TRUE
  BY DEF TypeInv, TypeOK, Worker, RunningJob, RangeInv, Control
<1>d. LET q == MarkPrepared(running) IN
        /\ q.target = running.target /\ q.cancel = running.cancel
        /\ wk.pre => q.phase = "Prepared"
  <2>1. running \in RunningJob
    BY DEF TypeInv, TypeOK
  <2> QED BY <2>1, ControlDoes
<1>t. /\ \A st : SetStatus(S, st) => Restated(S, st)
      /\ \A pc : WkGoto(pc) => WkMoved(pc)
      /\ \A pc, e : wk' = [wk EXCEPT !.pc = pc, !.end = e] => WkSegment(pc, e)
      /\ \A pc : Leave(pc) => WkMoved(pc)
  BY SetStatusDoes, WkGotoDoes, WkSegmentDoes, LeaveDoes
<1>p. /\ wk.pc \in {"recover", "recovered", "segment"} => IsFinalize
      /\ wk.pre = TRUE /\ IsFinalize /\ wk.pc \in {"recover", "recovered"} =>
           running.phase = "Prepared" /\ running.cancel = FALSE
      /\ Cancelling => ~Covered(S)
  BY DEF PreemptInv, WorkerKind, Preempted, Held
<1> USE <1>a, <1>b, <1>c, <1>p DEF LockPcs, CancelPcs
<1>1. CASE enter_session
  <2>1. /\ \E pc \in {"lock", "completed"} : WkMoved(pc)
        /\ UNCHANGED sess \/ Restated(S, "Finalizing")
        /\ wk.pc = "enter" /\ UNCHANGED <<ckpt, running>>
    BY <1>1, <1>t DEF enter_session, WkAt
  <2>2. EngineTurn /\ EngineStops
    BY <2>1 DEF EngineTurn, EngineStops, WkMoved, Restated
  <2> QED BY <2>2, EngineKeepsPreempt
<1>2. CASE lock_session
  <2>1. /\ \/ WkMoved("locked") \/ WkMoved("completed")
           \/ WkMoved("preempted") /\ IsFinalize /\ wk.pre = TRUE /\ running.cancel = TRUE
        /\ wk.pc = "lock" /\ UNCHANGED <<sess, ckpt, running>>
    BY <1>2, <1>t DEF lock_session, WkAt, cancelled
  <2>2. EngineTurn /\ EngineStops
    BY <2>1 DEF EngineTurn, EngineStops, WkMoved
  <2> QED BY <2>2, EngineKeepsPreempt
<1>3. CASE finalize_locked
  <2>1. /\ wk.pc = "locked" /\ IsFinalize /\ UNCHANGED ckpt
        /\ \/ WkMoved("completed") /\ UNCHANGED running
           \/ /\ Covered(S) /\ WkSegment("recover", ckpt[S].end)
              /\ running' = MarkPrepared(running)
           \/ /\ WkMoved("preempted") /\ UNCHANGED <<sess, running>>
              /\ wk.pre = TRUE /\ running.cancel = TRUE
           \/ WkMoved("segment") /\ Restated(S, "Finalizing") /\ UNCHANGED running
    BY <1>3, <1>t DEF finalize_locked, WkAt, CancelRequested
  <2>2. EngineTurn
    BY <1>d, <2>1 DEF EngineTurn, WkMoved, WkSegment
  <2>3. EngineStops
    BY <1>d, <2>1 DEF EngineStops, WkMoved, WkSegment, Restated, Cancelling
  <2> QED BY <2>2, <2>3, EngineKeepsPreempt
<1>4. CASE recap_locked
  <2>1. /\ ~IsFinalize /\ running' \in {running, MarkPrepared(running)}
        /\ \/ WkMoved("completed")
           \/ \E pc \in {"apply", "prepare"} : WkSegment(pc, wk.rec.target)
    BY <1>4, <1>t DEF recap_locked
  <2>2. EngineTurn /\ EngineStops
    BY <1>d, <2>1 DEF EngineTurn, EngineStops, WkMoved, WkSegment
  <2> QED BY <2>2, EngineKeepsPreempt
<1>5. CASE recover_current_recap_checkpoint_prefix \/ advance_recovered_prefix
  <2>1. /\ UNCHANGED running
        /\ \/ wk.pc = "recover" /\ WkMoved("recovered")
           \/ wk.pc = "recovered" /\ WkMoved("segment")
    BY <1>5, <1>t DEF recover_current_recap_checkpoint_prefix, advance_recovered_prefix, WkAt
  <2>2. EngineTurn /\ EngineStops
    BY <2>1 DEF EngineTurn, EngineStops, WkMoved
  <2> QED BY <2>2, EngineKeepsPreempt
<1>6. CASE finalize_segment
  <2>1. /\ wk.pc = "segment" /\ UNCHANGED ckpt
        /\ \/ /\ WkMoved("preempted") /\ UNCHANGED <<sess, running>>
              /\ wk.pre = TRUE /\ running.cancel = TRUE
           \/ WkMoved("completed") /\ running' = MarkPrepared(running)
           \/ WkSegment("prepare", sess[S].msgs) /\ UNCHANGED <<sess, running>>
    BY <1>6, <1>t DEF finalize_segment, WkAt, CancelRequested
  <2>2. EngineTurn /\ EngineStops
    BY <1>d, <2>1 DEF EngineTurn, EngineStops, WkMoved, WkSegment
  <2> QED BY <2>2, EngineKeepsPreempt
<1>7. CASE commit_prepared
  <2>1. /\ wk.pc = "prepare" /\ UNCHANGED sess
        /\ \/ /\ wk.pre = TRUE /\ running.cancel = TRUE /\ UNCHANGED <<ckpt, running>>
              /\ WkMoved("completed") \/ (IsFinalize /\ WkMoved("preempted"))
           \/ WkMoved("apply") /\ running' = MarkPrepared(running)
    BY <1>7, <1>t DEF commit_prepared, WkAt, cancelled
  <2>2. EngineTurn /\ EngineStops
    BY <1>d, <2>1 DEF EngineTurn, EngineStops, WkMoved
  <2> QED BY <2>2, EngineKeepsPreempt
<1>8. CASE apply_finalize_checkpoint \/ commit_segment \/ attempt_fails
  <2>1. UNCHANGED running /\ \E pc \in {"upload", "completed", "failed"} : WkMoved(pc)
    BY <1>8, <1>t DEF apply_finalize_checkpoint, commit_segment, attempt_fails
  <2>2. EngineTurn /\ EngineStops
    BY <2>1 DEF EngineTurn, EngineStops, WkMoved
  <2> QED BY <2>2, EngineKeepsPreempt
<1> QED BY <1>1, <1>2, <1>3, <1>4, <1>5, <1>6, <1>7, <1>8 DEF EngineStep

\* The steps around the engine.
LEMMA JobStepPreempt ==
  ASSUME Patient, TypeInv, RangeInv, GateInv, PreemptInv, JobStep
  PROVE  PreemptInv'
<1>a. wk.pc # "idle"
  BY DEF JobStep, WkAt, publish_running, defer_job, report_deferred, charge_attempt,
         finish_attempt, convert_finalize_job, open_converted_session, write_succeeded,
         write_failure, report_failure, job_write_fails, end_job, TypeInv, JobsInv
<1>b. /\ S \in Sessions /\ wk.job \in JobIds /\ wk.rec.status # "Succeeded"
      /\ wk \in Worker /\ wk.rec \in SupervisorJob /\ running \in RunningJob
  BY <1>a, Places DEF PreemptInv, WorkerKind, TypeInv, TypeOK, Worker
<1>t. \A pc : WkGoto(pc) => WkMoved(pc)
  BY WkGotoDoes
<1> USE <1>a, <1>b DEF CancelPcs
<1>1. CASE publish_running \/ charge_attempt
  <2>1. PICK rec, pc :
          /\ rec.kind = wk.rec.kind /\ rec.sess = wk.rec.sess /\ rec.status # "Succeeded"
          /\ Written(wk.job, rec) /\ wk' = [wk EXCEPT !.pc = pc, !.rec = rec]
          /\ pc \in {"recovering", "enter"}
    <3>1. /\ LET r == [wk.rec EXCEPT !.status = "Running"] IN
               r.kind = wk.rec.kind /\ r.sess = wk.rec.sess /\ r.status = "Running"
          /\ LET r == [wk.rec EXCEPT !.att = @ + 1] IN
               r.kind = wk.rec.kind /\ r.sess = wk.rec.sess /\ r.status = wk.rec.status
      BY DEF SupervisorJob
    <3>2. CASE publish_running
      BY <3>1, <3>2, WriteJobDoes DEF publish_running
    <3>3. CASE charge_attempt
      BY <3>1, <3>3, WriteJobDoes DEF charge_attempt
    <3> QED BY <1>1, <3>2, <3>3
  <2>2. /\ wk'.rec = rec /\ wk'.job = wk.job /\ wk'.pc = pc /\ wk'.pre = wk.pre
        /\ UNCHANGED <<sess, ckpt, running, client, gate>>
        /\ wk.pc \in {"picked", "recovering"}
    BY <1>1, <2>1 DEF Worker, publish_running, charge_attempt, WkAt
  <2>3. WorkerKind'
    BY <2>1, <2>2 DEF WorkerKind
  <2>4. ASSUME Cancelling' PROVE Held'
    <3>1. IsFinalize /\ S' = S
      BY <2>1, <2>2, <2>4 DEF Cancelling, IsFinalize, S
    <3>2. Held
      BY <2>2, <2>4, <3>1 DEF Cancelling, PreemptInv, Preempted
    <3>3. wk'.job \in unresolved_finalize_jobs(S)'
      BY <2>1, <2>2, <3>1 DEF unresolved_finalize_jobs, Written, IsFinalize, S
    <3> QED BY <2>2, <3>1, <3>2, <3>3 DEF Held, Covered
  <2>5. Preempted'
    <3>1. wk'.pc \in {"recovering", "enter"}
      BY <2>1, <2>2
    <3> QED BY <2>4, <3>1 DEF Preempted
  <2> QED BY <2>3, <2>5 DEF PreemptInv
<1>2. CASE finish_attempt
  <2>1. /\ wk.pc \in {"completed", "failed", "preempted"}
        /\ UNCHANGED <<sess, ckpt, gate, jobs>>
        /\ \/ wk.pc = "preempted" /\ WkMoved("convert") /\ UNCHANGED client
           \/ \E pc \in {"ok", "fail"} : WkMoved(pc)
    BY <1>2, <1>t DEF finish_attempt, WkAt
  <2>2. running'.cancel = running.cancel /\ running'.target = running.target
    <3>1. UNCHANGED running \/ \E b : running' = [finish(running) EXCEPT !.sent = b]
      BY <1>2 DEF finish_attempt
    <3>2. /\ finish(running).target = running.target /\ finish(running).cancel = running.cancel
          /\ finish(running) \in RunningJob
      BY ControlDoes, ControlType
    <3> QED BY <3>1, <3>2 DEF RunningJob
  <2>3. WorkerKind'
    BY <2>1 DEF WorkerKind, WkMoved, WkKeeps
  <2>4. Preempted'
    <3>1. CASE wk.pc = "preempted" /\ WkMoved("convert") /\ UNCHANGED client
      <4>1. Held /\ IsFinalize /\ wk.pre = TRUE /\ running.cancel = TRUE
        BY <3>1 DEF PreemptInv, Preempted, Cancelling
      <4>2. Held'
        BY <2>1, <2>2, <3>1, <4>1 DEF Held, S, Covered, unresolved_finalize_jobs, WkMoved, WkKeeps
      <4> QED BY <2>2, <3>1, <4>1, <4>2 DEF Preempted, WkMoved, WkKeeps, IsFinalize
    <3>2. CASE \E pc \in {"ok", "fail"} : WkMoved(pc)
      BY <3>2 DEF Preempted, WkMoved, Cancelling
    <3> QED BY <2>1, <3>1, <3>2
  <2> QED BY <2>3, <2>4 DEF PreemptInv
<1>3. CASE convert_finalize_job
  <2>1. /\ gate'.op = "wopen" /\ UNCHANGED <<sess, ckpt, running, wk, client>>
    BY <1>3 DEF convert_finalize_job, FreeGate
  <2>2. ASSUME Cancelling PROVE Held'
    BY <2>1, <2>2 DEF PreemptInv, Preempted, Held, S, Covered
  <2> QED BY <2>1, <2>2, PreemptKept
<1>4. CASE open_converted_session
  <2>1. /\ wk'.rec = wk.rec /\ wk'.pc \in {"end", "enter"}
        /\ wk'.pc = "enter" => wk'.pre = FALSE
    BY <1>4 DEF open_converted_session, WkGoto, Worker
  <2> QED BY <2>1 DEF PreemptInv, WorkerKind, Preempted, Cancelling
<1>5. CASE \/ defer_job \/ report_deferred \/ write_succeeded \/ write_failure \/ report_failure
           \/ job_write_fails \/ end_job
  <2>1. /\ wk'.pc \in {"deferred", "end", "notify", "error", "idle"}
        /\ wk'.pc # "idle" => wk'.rec.status # "Succeeded"
    <3>1. CASE defer_job
      BY <3>1 DEF defer_job, Worker, SupervisorJob
    <3>2. CASE end_job
      BY <3>2 DEF end_job, IdleWorker
    <3>3. CASE \/ report_deferred \/ write_succeeded \/ write_failure \/ report_failure
               \/ job_write_fails
      BY <1>t, <3>3 DEF report_deferred, write_succeeded, write_failure, report_failure,
         job_write_fails, WkMoved, WkKeeps
    <3> QED BY <1>5, <3>1, <3>2, <3>3
  <2> QED BY <2>1 DEF PreemptInv, WorkerKind, Preempted, Cancelling
<1> QED BY <1>1, <1>2, <1>3, <1>4, <1>5 DEF JobStep

\* Every step.
LEMMA NextPreempt ==
  ASSUME Patient, TypeInv, AwaitInv, RangeInv, GateInv, PreemptInv, [Next]_vars
  PROVE  PreemptInv'
<1>1. CASE UNCHANGED vars
  BY <1>1 DEF vars, PreemptInv, WorkerKind, Preempted, Cancelling, Held, S, IsFinalize, Covered,
              unresolved_finalize_jobs
<1>2. CASE pick_job
  <2>1. PICK j \in JobIds : /\ next_queued_job(j)
                            /\ wk' = [IdleWorker EXCEPT !.pc = "picked", !.job = j, !.rec = jobs[j]]
                            /\ running' = [NoRunning EXCEPT !.job = j]
    BY <1>2 DEF pick_job
  <2>2. wk'.pc = "picked" /\ wk'.rec.status = "Queued" /\ running'.cancel = FALSE
    BY <2>1 DEF IdleWorker, NoRunning, next_queued_job, Queued
  <2> QED BY <2>2 DEF PreemptInv, WorkerKind, Preempted, Cancelling
<1>3. CASE start \/ crash
  <2>1. wk'.pc = "idle"
    BY <1>3 DEF start, crash, IdleWorker, GateInv, GateUp
  <2> QED BY <2>1 DEF PreemptInv, WorkerKind, Preempted, Cancelling, CancelPcs
<1>4. CASE begin_idle_shutdown_if_due \/ stop_requested \/ stopped
  <2>1. UNCHANGED <<sess, ckpt, jobs, gate, running, wk, client>>
    BY <1>4 DEF begin_idle_shutdown_if_due, stop_requested, stopped
  <2>2. ASSUME Cancelling PROVE Held'
    BY <2>1, <2>2 DEF PreemptInv, Preempted, Held, S, Covered, unresolved_finalize_jobs
  <2> QED BY <2>1, <2>2, PreemptKept
<1>5. CASE HandlerStep
  BY <1>5, HandlerStepPreempt DEF AwaitInv
<1>6. CASE WorkerStep
  <2>1. EngineStep \/ JobStep
    BY <1>6 DEF WorkerStep, EngineStep, JobStep
  <2> QED BY <2>1, EngineStepPreempt, JobStepPreempt
<1> QED BY <1>1, <1>2, <1>3, <1>4, <1>5, <1>6, ClientStepPreempt, RequestStepPreempt
        DEF Next, ProcessStep

\* A takeover and the worker it stops find the session as they left it.
LEMMA PreemptInvariant ==
  ASSUME Patient
  PROVE  Spec => [](GateInv /\ PreemptInv)
<1>1. Init => PreemptInv
  BY DEF Init, IdleWorker, PreemptInv, WorkerKind, Preempted, Cancelling, CancelPcs
<1>2. TypeInv /\ AwaitInv /\ RangeInv /\ GateInv /\ PreemptInv /\ [Next]_vars =>
        GateInv' /\ PreemptInv'
  BY NextGate, NextPreempt
<1> QED BY <1>1, <1>2, InitGate, TypeInvariant, AwaitInvariant, RangeInvariant, PTL DEF Spec

\* A session that was being finalized is only opened again with all of its
\* backlog held by a queued Recap job and with no prepared checkpoint at hand,
\* by whichever of the Resume handler and the preempted worker opens it; after
\* any crash, and with any write of a job file failing.
THEOREM TakeoversKeepWork ==
  ASSUME Patient
  PROVE  Spec => TakeoverKeepsWork
<1> DEFINE Kept(s) ==
      sess[s].status = "Finalizing" /\ sess'[s].status = "Open" =>
         /\ ~Covered(s)
         /\ \/ sess[s].recapped = sess[s].msgs
            \/ \E j \in JobIds : /\ jobs'[j].kind = "Recap" /\ jobs'[j].sess = s
                                 /\ jobs'[j].status = "Queued"
                                 /\ jobs'[j].target = sess[s].msgs
<1>1. ASSUME TypeInv, RangeInv, GateInv, PreemptInv, [Next]_vars, NEW s \in Sessions
      PROVE  Kept(s)
  <2> SUFFICES ASSUME sess[s].status = "Finalizing", sess'[s].status = "Open" PROVE Kept(s)
    OBVIOUS
  <2>r. \A t, m : RecapJob(t, m).kind = "Recap" /\ RecapJob(t, m).sess = t
                  /\ RecapJob(t, m).status = "Queued" /\ RecapJob(t, m).target = m
    BY DEF RecapJob
  <2>1. CASE open_finalizing_session_for_resume
    <3>1. /\ gate.op = "open" /\ s = gate.sess /\ UNCHANGED jobs
      <4>1. /\ gate.op = "open" /\ (UNCHANGED sess \/ (SetStatus(gate.sess, "Open") /\ UNCHANGED jobs))
        BY <2>1 DEF open_finalizing_session_for_resume
      <4> QED BY <1>1, <4>1, SetStatusDoes DEF Restated
    <3>2. /\ ~Covered(s) /\ gate.meta = sess[s]
          /\ gate.job = 0 => gate.meta.recapped >= gate.meta.msgs
          /\ gate.job # 0 => gate.job \in JobIds /\ jobs[gate.job] = RecapJob(s, gate.meta.msgs)
      BY <1>1, <3>1 DEF GateInv, GateFresh, GateOpen
    <3>3. /\ sess[s].recapped <= sess[s].msgs
          /\ sess[s].recapped \in Nat /\ sess[s].msgs \in Nat
      BY <1>1, Numbers DEF RangeInv, Ranges, Numeric
    <3> QED BY <2>r, <3>1, <3>2, <3>3
  <2>2. CASE open_converted_session
    <3>1. gate.op = "wopen" /\ wk.pc = "convert"
      BY <1>1, <2>2 DEF open_converted_session, TypeInv, JobsInv
    <3>2. wk.job \in JobIds /\ s = S /\ UNCHANGED jobs
      <4>1. UNCHANGED sess \/ (SetStatus(S, "Open") /\ UNCHANGED jobs)
        BY <2>2 DEF open_converted_session
      <4> QED BY <1>1, <3>1, <4>1, SetStatusDoes, Places DEF Restated
    <3>3. ~Covered(s) /\ running.target = sess[s].msgs
      BY <1>1, <3>1, <3>2 DEF PreemptInv, Preempted, Cancelling, CancelPcs, Held
    <3>4. jobs[wk.job] = RecapJob(s, sess[s].msgs)
      BY <1>1, <3>1, <3>2, <3>3 DEF GateInv, GateOpen
    <3> QED BY <2>r, <3>2, <3>3, <3>4
  <2>3. ASSUME NEW x \in Sessions, ClientStep(x) PROVE FALSE
    <3>1. x = s
      BY <1>1, <2>3, ClientStepOther
    <3>2. client[s].pc = "reopening" => sess[s].status = "Closed"
      BY <1>1 DEF RangeInv, ClosedStays
    <3>3. ~mark_open(s) /\ ~append_messages(s)
      BY <3>2 DEF mark_open, append_messages
    <3>4. client[s].pc \notin {"foreground", "fgLocked", "fgPrepared"}
      BY <1>1 DEF GateInv, GateClient
    <3>5. UNCHANGED sess \/ SetStatus(s, "Finalizing") \/ SetStatus(s, "Closed")
      BY <2>3, <3>1, <3>3, <3>4 DEF ClientStep, mark_session_finalizing, finalize_without_job,
           enqueue_unavailable, fg_lock, fg_recover, fg_prepare, fg_close, fg_fail,
           reserve_runtime_session, reconcile_skipped, complete_finalizing_resume,
           wait_for_resume_finalize_job, client_crash
    <3> QED BY <1>1, <3>5, SetStatusDoes DEF Restated
  <2>4. CASE EngineStep
    <3>1. UNCHANGED sess \/ (\E st \in {"Finalizing", "Closed"} : SetStatus(S, st))
          \/ advance_recovered_prefix \/ commit_segment
      BY <2>4 DEF EngineStep, enter_session, lock_session, finalize_locked, recap_locked,
         recover_current_recap_checkpoint_prefix, finalize_segment, commit_prepared,
         apply_finalize_checkpoint, attempt_fails
    <3>2. CASE UNCHANGED sess
      BY <3>2
    <3>3. CASE \E st \in {"Finalizing", "Closed"} : SetStatus(S, st)
      BY <1>1, <3>3, SetStatusDoes DEF Restated
    <3>4. CASE advance_recovered_prefix
      BY <1>1, <3>4 DEF advance_recovered_prefix, TypeInv, TypeOK, SessionMetadata
    <3>5. CASE commit_segment
      <4>1. S \in Sessions
        BY <1>1, <3>5, Places DEF commit_segment, WkAt
      <4>2. /\ \A x \in Sessions \ {S} : sess'[x] = sess[x]
            /\ sess'[S].status = IF IsFinalize THEN "Closed" ELSE sess[S].status
        BY <1>1, <3>5, <4>1, CommitDoes
      <4> QED BY <4>2
    <3> QED BY <3>1, <3>2, <3>3, <3>4, <3>5
  <2>5. CASE UNCHANGED sess
    BY <2>5
  <2>6. \/ UNCHANGED sess \/ EngineStep \/ (\E x \in Sessions : ClientStep(x))
        \/ open_finalizing_session_for_resume \/ open_converted_session
    <3>1. CASE \E x \in Sessions : RequestStep(x)
      BY <3>1 DEF RequestStep, request_enqueue, request_retry, request_resume, Acquire,
                  create_recap_job
    <3>2. CASE HandlerStep
      BY <3>2 DEF HandlerStep, enqueue_finalize_job, retry_finalize_job, resume_not_unique,
         resume_closed, resume_open, resume_orphan, resume_checkpointed, resume_running,
         resume_convert, ResumeStep
    <3>3. CASE WorkerStep
      BY <3>3 DEF WorkerStep, EngineStep, publish_running, defer_job, report_deferred,
         charge_attempt, finish_attempt, convert_finalize_job, write_succeeded, write_failure,
         report_failure, job_write_fails, end_job
    <3>4. CASE pick_job \/ ProcessStep \/ UNCHANGED vars
      BY <3>4 DEF pick_job, ProcessStep, start, begin_idle_shutdown_if_due, stop_requested,
         stopped, crash, vars
    <3> QED BY <1>1, <3>1, <3>2, <3>3, <3>4 DEF Next
  <2> QED BY <2>1, <2>2, <2>3, <2>4, <2>5, <2>6
<1>2. TypeInv /\ RangeInv /\ GateInv /\ PreemptInv /\ [Next]_vars =>
        [\A s \in Sessions :
           sess[s].status = "Finalizing" /\ sess'[s].status = "Open" =>
             /\ ~Covered(s)
             /\ \/ sess[s].recapped = sess[s].msgs
                \/ \E j \in JobIds : /\ jobs'[j].kind = "Recap" /\ jobs'[j].sess = s
                                     /\ jobs'[j].status = "Queued"
                                     /\ jobs'[j].target = sess[s].msgs]_vars
  BY <1>1
<1> QED BY <1>2, TypeInvariant, RangeInvariant, PreemptInvariant, PTL DEF Spec, TakeoverKeepsWork

-----------------------------------------------------------------------------
(* One Finalize at a time, and no work lost: the supervisor is not killed   *)
(* and its job files can be written, while a TUI may be killed at any point *)

\* Nor is the supervisor killed, its job files can be written, and no operator
\* retries a session in the moment its TUI exits.
Undisturbed == Patient /\ ~Crashes /\ ~WriteErrors /\ ~ExitRetries

\* The worker has a job in hand that is not done; it is done and not yet recorded.
ActivePcs == {"picked", "recovering", "enter", "lock", "failed", "preempted", "convert", "fail"}
             \cup LockPcs
DonePcs   == {"completed", "ok"}

\* Job j is an unresolved Finalize of session s; s has none.
Unresolved(j, s) ==
  jobs[j].kind = "Finalize" /\ jobs[j].sess = s /\ jobs[j].status # "Succeeded"
Settled(s) == \A j \in JobIds : ~Unresolved(j, s)

\* The worker's copy of a job is the file's until the job is done; the session
\* of a Finalize in hand waits for it; and a takeover converts no job that the
\* worker has in hand.
WorkerCopy ==
  /\ wk.pc # "error"
  /\ IsFinalize /\ wk.pc \in ActivePcs =>
       /\ sess[S].status = "Finalizing" /\ wk.rec.status \in {"Queued", "Running"}
       /\ gate.op # "wopen" => jobs[wk.job] = wk.rec
  /\ ~IsFinalize /\ wk.pc \in ActivePcs \cup DonePcs => jobs[wk.job] = wk.rec
  /\ IsFinalize /\ wk.pc \in DonePcs =>
       /\ jobs[wk.job].kind = "Finalize"
       /\ jobs[wk.job].status # "Succeeded" => sess[S].status = "Closed"
  /\ gate.op = "open" /\ gate.job = wk.job => wk.pc \in {"idle", "end"}

\* A session has at most one unresolved Finalize, and none outside of the
\* Finalizing state but the one that the worker has just carried out.
SessionOk(s) ==
  /\ \A i, j \in JobIds : Unresolved(i, s) /\ Unresolved(j, s) => i = j
  /\ sess[s].status = "Open" => Settled(s)
  /\ sess[s].status = "Closed" => \A j \in JobIds : Unresolved(j, s) =>
       j = wk.job /\ IsFinalize /\ wk.pc \in DonePcs
  /\ gate.op \in {"open", "wopen"} /\ gate.sess = s => Settled(s)
  /\ client[s].pc \in {"live", "opened"} => sess[s].status = "Open"
  /\ client[s].pc = "exiting" => sess[s].status = "Finalizing" /\ Settled(s)
  /\ client[s].pc = "reopening" => Settled(s)
SessionsOk == \A s \in Sessions : SessionOk(s)

\* A Finalize closes with all of the messages in its last segment.
Closing ==
  /\ ClosedIsRecapped
  /\ IsFinalize /\ wk.pc \in {"prepare", "apply", "upload"} => wk.end = sess[S].msgs

\* The range of a Recap that is done, or is being given up for a Finalize, is
\* recapped, or held by another Recap, or left to the Finalize.
RecapHeld(s, t, x) ==
  \/ sess[s].status # "Open"
  \/ sess[s].recapped >= t
  \/ \E k \in JobIds \ {x} : /\ jobs[k].kind = "Recap" /\ jobs[k].sess = s
                             /\ jobs[k].status # "Succeeded" /\ jobs[k].target >= t
StoredRecaps ==
  \A j \in JobIds : jobs[j].kind = "Recap" /\ jobs[j].status = "Succeeded" =>
    RecapHeld(jobs[j].sess, jobs[j].target, j)
WorkerRecap ==
  wk.rec.kind = "Recap" =>
    /\ wk.pc \in DonePcs => RecapHeld(S, wk.rec.target, wk.job)
    /\ wk.pc \in ActivePcs \ {"fail"} /\ running.cancel = TRUE =>
         RecapHeld(S, wk.rec.target, wk.job)
    /\ wk.pc \in {"prepare", "apply", "upload"} => wk.end = wk.rec.target

CycleInv == WorkerCopy /\ SessionsOk /\ Closing /\ StoredRecaps /\ WorkerRecap

\* What the earlier invariants add.
BaseInv == TypeInv /\ AwaitInv /\ RangeInv /\ GateInv /\ PreemptInv

\* The unresolved jobs as a set.
LEMMA SettledIsEmpty ==
  ASSUME NEW s
  PROVE  /\ unresolved_finalize_jobs(s) = {} <=> Settled(s)
         /\ \A j : j \in unresolved_finalize_jobs(s) <=> j \in JobIds /\ Unresolved(j, s)
BY DEF unresolved_finalize_jobs, Settled, Unresolved

\* A Recap of s that waits or runs is still there, none of s became done, and
\* the cursor did not go back; or s is not Open.
RecapSteady(s) ==
  \/ sess'[s].status # "Open"
  \/ /\ sess[s].status = "Open" /\ sess[s].recapped <= sess'[s].recapped
     /\ \A k \in JobIds :
          /\ jobs[k].kind = "Recap" /\ jobs[k].sess = s /\ jobs[k].status # "Succeeded" =>
               /\ jobs'[k].kind = "Recap" /\ jobs'[k].sess = s /\ jobs'[k].status # "Succeeded"
               /\ jobs'[k].target = jobs[k].target
          /\ jobs'[k].kind = "Recap" /\ jobs'[k].sess = s /\ jobs'[k].status = "Succeeded" =>
               /\ jobs[k].kind = "Recap" /\ jobs[k].sess = s /\ jobs[k].status = "Succeeded"
               /\ jobs'[k].target = jobs[k].target

\* A range that is held stays held.
LEMMA RecapStaysHeld ==
  ASSUME TypeInv, TypeInv', NEW s \in Sessions, NEW t \in Nat, NEW x,
         RecapHeld(s, t, x), RecapSteady(s)
  PROVE  RecapHeld(s, t, x)'
<1>1. sess[s].recapped \in Nat /\ sess'[s].recapped \in Nat
  BY Numbers, NumbersNext DEF Numeric
<1> QED BY <1>1 DEF RecapHeld, RecapSteady

\* So the settled Recaps of the store stay covered.
LEMMA StoredStay ==
  ASSUME TypeInv, TypeInv', StoredRecaps, \A s \in Sessions : RecapSteady(s)
  PROVE  StoredRecaps'
<1> SUFFICES ASSUME NEW j \in JobIds, jobs'[j].kind = "Recap", jobs'[j].status = "Succeeded"
             PROVE  RecapHeld(jobs[j].sess, jobs[j].target, j)'
  BY DEF StoredRecaps
<1> DEFINE s == jobs'[j].sess
<1>1. s \in Sessions /\ jobs'[j].target \in Nat
  <2>1. jobs'[j].kind # "None" => jobs'[j].sess \in Sessions
    BY DEF TypeInv, JobsInv, JobsGood, GoodJob
  <2> QED BY <2>1, NumbersNext DEF Numeric
<1>2. CASE sess'[s].status # "Open"
  BY <1>2 DEF RecapHeld
<1>3. CASE sess'[s].status = "Open"
  <2>1. /\ jobs[j].kind = "Recap" /\ jobs[j].sess = s /\ jobs[j].status = "Succeeded"
        /\ jobs'[j].target = jobs[j].target
    BY <1>1, <1>3 DEF RecapSteady
  <2>2. RecapHeld(s, jobs[j].target, j)
    BY <2>1 DEF StoredRecaps
  <2> HIDE DEF s
  <2>3. ASSUME NEW t \in Nat, NEW z \in Sessions, RecapHeld(z, t, j) PROVE RecapHeld(z, t, j)'
    BY <2>3, RecapStaysHeld
  <2>4. \A t \in Nat, z \in Sessions : RecapHeld(z, t, j) =>
          \/ sess'[z].status # "Open" \/ sess'[z].recapped >= t
          \/ \E k \in JobIds \ {j} : /\ jobs'[k].kind = "Recap" /\ jobs'[k].sess = z
                                     /\ jobs'[k].status # "Succeeded" /\ jobs'[k].target >= t
    BY <2>3 DEF RecapHeld
  <2> USE DEF s
  <2> QED BY <1>1, <2>1, <2>2, <2>4 DEF RecapHeld
<1> QED BY <1>2, <1>3

\* A worker that does not move, and is not asked to stop, keeps its range.
LEMMA WorkerRecapStays ==
  ASSUME TypeInv, TypeInv', WorkerRecap, UNCHANGED wk,
         running'.cancel = running.cancel \/ sess'[S].status # "Open",
         wk.rec.kind = "Recap" => RecapSteady(S)
  PROVE  WorkerRecap'
<1> SUFFICES ASSUME wk.rec.kind = "Recap" PROVE WorkerRecap'
  BY DEF WorkerRecap
<1>1. S \in Sessions /\ wk.rec.target \in Nat /\ S' = S
  BY Places, Numbers DEF Numeric, S
<1>2. CASE sess'[S].status # "Open"
  <2>1. RecapHeld(S, wk.rec.target, wk.job)'
    BY <1>1, <1>2 DEF RecapHeld
  <2> QED BY <2>1 DEF WorkerRecap
<1>3. CASE sess'[S].status = "Open"
  <2>1. RecapHeld(S, wk.rec.target, wk.job) => RecapHeld(S, wk.rec.target, wk.job)'
    <3>1. ASSUME NEW t \in Nat, NEW z \in Sessions, NEW x, RecapHeld(z, t, x), RecapSteady(z)
          PROVE  \/ sess'[z].status # "Open" \/ sess'[z].recapped >= t
                 \/ \E k \in JobIds \ {x} : /\ jobs'[k].kind = "Recap" /\ jobs'[k].sess = z
                                            /\ jobs'[k].status # "Succeeded" /\ jobs'[k].target >= t
      BY <3>1, RecapStaysHeld DEF RecapHeld
    <3>2. SUFFICES ASSUME RecapHeld(S, wk.rec.target, wk.job)
                   PROVE  RecapHeld(S, wk.rec.target, wk.job)'
      OBVIOUS
    <3>3. \/ sess'[S].status # "Open" \/ sess'[S].recapped >= wk.rec.target
          \/ \E k \in JobIds \ {wk.job} :
                /\ jobs'[k].kind = "Recap" /\ jobs'[k].sess = S
                /\ jobs'[k].status # "Succeeded" /\ jobs'[k].target >= wk.rec.target
      BY <1>1, <3>1, <3>2
    <3> QED BY <1>1, <3>3 DEF RecapHeld
  <2> QED BY <1>3, <2>1 DEF WorkerRecap
<1> QED BY <1>2, <1>3

\* The process that owns s.
LEMMA ClientStepCycle ==
  ASSUME Undisturbed, BaseInv, TypeInv', RangeInv', CycleInv, NEW s \in Sessions, ClientStep(s)
  PROVE  CycleInv'
<1> USE DEF BaseInv
<1>p. Patient
  BY DEF Undisturbed
<1>a. UNCHANGED <<jobs, gate, running, wk>>
  BY DEF ClientStep, append_messages, mark_session_finalizing, finalize_without_job,
         enqueue_unavailable, fg_lock, fg_recover, fg_prepare, fg_close, fg_fail,
         reserve_runtime_session, reconcile_skipped, mark_open, complete_finalizing_resume,
         wait_for_resume_finalize_job, client_crash
<1>b. \A x \in Sessions \ {s} : sess'[x] = sess[x] /\ ckpt'[x] = ckpt[x] /\ client'[x] = client[x]
  BY ClientStepOther
<1>n. \A x \in Sessions : /\ sess[x].msgs \in Nat /\ sess[x].recapped \in Nat
                          /\ sess[x].recapped <= sess[x].msgs
                          /\ sess[x].status \in SessionStatus
  BY Numbers DEF Numeric, RangeInv, Ranges, TypeInv, TypeOK, SessionMetadata
<1>o. SessionOk(s)
  BY DEF CycleInv, SessionsOk
<1>c. /\ client[s].pc \notin {"foreground", "fgLocked", "fgPrepared"}
      /\ client[s].pc \in {"reconciling", "settling", "reopening"} => sess[s].status = "Closed"
  BY DEF GateInv, GateClient, RangeInv, ClosedStays
<1>t. /\ \A c : Goto(s, c) => Moved(s, c)
      /\ \A st : SetStatus(s, st) => Restated(s, st)
  BY GotoDoes, SetStatusDoes
\* What the step does to its own session.
<1>1. \/ /\ sess'[s].status = sess[s].status /\ sess'[s].recapped = sess[s].recapped
         /\ sess'[s].msgs = sess[s].msgs \/ sess[s].status = "Open"
         /\ client'[s].pc \in {"live", "opened"} => sess[s].status = "Open"
         /\ client'[s].pc # "exiting" \/ client[s].pc = "exiting"
         /\ client'[s].pc = "reopening" => client[s].pc = "reopening" \/ (wk.pc = "idle" /\ sess[s].status = "Closed")
      \/ /\ sess[s].status = "Open" /\ sess'[s].status = "Finalizing"
         /\ sess'[s].msgs = sess[s].msgs /\ sess'[s].recapped = sess[s].recapped
         /\ client'[s].pc = "exiting"
      \/ /\ client[s].pc = "exiting" /\ sess'[s].status = "Closed" /\ gate.sess # s
         /\ sess'[s].msgs = sess[s].msgs /\ sess'[s].recapped = sess[s].recapped
         /\ sess[s].recapped = sess[s].msgs /\ client'[s].pc = "none"
      \/ /\ client[s].pc = "reopening" /\ sess'[s].status = "Open"
         /\ sess'[s].msgs = sess[s].msgs /\ sess'[s].recapped = sess[s].recapped
         /\ client'[s].pc = "live"
  <2>1. CASE append_messages(s)
    <3>1. /\ sess'[s].status = sess[s].status /\ sess'[s].recapped = sess[s].recapped
          /\ sess[s].status = "Open" /\ client'[s].pc = "live"
      BY <2>1 DEF append_messages, TypeInv, TypeOK, SessionMetadata
    <3> QED BY <3>1
  <2>2. CASE mark_session_finalizing(s)
    <3>1. /\ sess[s].status = "Open" /\ Restated(s, "Finalizing") /\ Moved(s, At("exiting"))
      BY <1>o, <1>t, <2>2 DEF mark_session_finalizing, SessionOk
    <3> QED BY <3>1 DEF Restated, Moved, At
  <2>3. CASE finalize_without_job(s)
    <3>1. /\ client[s].pc = "exiting" /\ Restated(s, "Closed") /\ Moved(s, At("none"))
          /\ gate.sess # s /\ sess[s].recapped = sess[s].msgs
      BY <1>p, <1>t, <2>3 DEF finalize_without_job, ClientStep, Unserved, Patient
    <3> QED BY <3>1 DEF Restated, Moved, At
  <2>4. CASE mark_open(s)
    <3>1. /\ client[s].pc = "reopening" /\ Restated(s, "Open") /\ Moved(s, At("live"))
      BY <1>c, <1>t, <2>4 DEF mark_open
    <3> QED BY <3>1 DEF Restated, Moved, At
  <2>5. CASE \/ reserve_runtime_session(s) \/ reconcile_skipped(s)
             \/ complete_finalizing_resume(s) \/ wait_for_resume_finalize_job(s) \/ client_crash(s)
    <3>1. sup = "down" => wk.pc = "idle"
      BY DEF GateInv, GateUp
    <3>2. sess[s].status \in {"Open", "Finalizing", "Closed"}
      BY <1>n DEF SessionStatus
    <3>3. \E pc \in {"live", "reconciling", "resuming", "reopening", "none", "settling"} :
            /\ Moved(s, At(pc))
            /\ pc = "live" => sess[s].status = "Open"
            /\ pc = "reopening" => wk.pc = "idle" /\ sess[s].status = "Closed"
      BY <1>c, <1>t, <2>5, <3>1, <3>2 DEF reserve_runtime_session, reconcile_skipped,
         complete_finalizing_resume, wait_for_resume_finalize_job, client_crash
    <3>4. UNCHANGED sess
      BY <2>5 DEF reserve_runtime_session, reconcile_skipped, complete_finalizing_resume,
         wait_for_resume_finalize_job, client_crash
    <3> QED BY <3>3, <3>4 DEF Moved, At
  <2> QED BY <1>c, <1>p, <2>1, <2>2, <2>3, <2>4, <2>5 DEF ClientStep, Patient,
             enqueue_unavailable, fg_lock, fg_recover, fg_prepare, fg_close, fg_fail
<1>s. /\ S' = S /\ IsFinalize' = IsFinalize
      /\ \A j, x : Unresolved(j, x)' <=> Unresolved(j, x)
      /\ \A x : Settled(x)' <=> Settled(x)
  BY <1>a DEF S, IsFinalize, Unresolved, Settled
<1>w. IsFinalize /\ wk.pc \in ActivePcs => S \in Sessions /\ wk.job \in JobIds
  BY Places DEF ActivePcs, LockPcs
\* An active Finalize of s keeps s Finalizing.
<1>2. IsFinalize /\ wk.pc \in ActivePcs /\ S = s =>
        sess'[s].status = "Finalizing" /\ sess'[s].msgs = sess[s].msgs
  <2>1. SUFFICES ASSUME IsFinalize, wk.pc \in ActivePcs, S = s
                 PROVE  sess'[s].status = "Finalizing" /\ sess'[s].msgs = sess[s].msgs
    OBVIOUS
  <2>2. sess[s].status = "Finalizing" /\ (gate.op # "wopen" => Unresolved(wk.job, s))
    BY <2>1 DEF CycleInv, WorkerCopy, Unresolved, S, IsFinalize
  <2>3. client[s].pc # "exiting" \/ gate.op = "wopen"
    BY <1>o, <1>w, <2>1, <2>2 DEF SessionOk, Settled
  <2>4. gate.op = "wopen" => gate.sess = s
    BY <2>1 DEF GateInv, GateOpen
  <2> QED BY <1>1, <1>c, <2>2, <2>3, <2>4
<1>3. WorkerCopy'
  <2>1. IsFinalize /\ wk.pc \in ActivePcs => sess'[S].status = "Finalizing"
    BY <1>2, <1>b, <1>w DEF CycleInv, WorkerCopy
  <2>2. IsFinalize /\ wk.pc \in DonePcs /\ jobs[wk.job].status # "Succeeded" =>
          sess'[S].status = "Closed"
    <3>1. SUFFICES ASSUME IsFinalize, wk.pc \in DonePcs, jobs[wk.job].status # "Succeeded"
                   PROVE  sess'[S].status = "Closed"
      OBVIOUS
    <3>2. /\ sess[S].status = "Closed" /\ jobs[wk.job].kind = "Finalize" /\ S \in Sessions
          /\ jobs[wk.job].sess = S /\ wk.job \in JobIds
      BY <3>1, Places DEF CycleInv, WorkerCopy, DonePcs, RangeInv, Targets
    <3>3. S = s => ~Settled(s)
      BY <3>1, <3>2 DEF Settled, Unresolved
    <3>4. S = s => client[s].pc \notin {"exiting", "reopening"} 
      BY <1>o, <3>3 DEF SessionOk
    <3> QED BY <1>1, <1>b, <3>2, <3>4
  <2> QED BY <1>a, <1>s, <2>1, <2>2 DEF CycleInv, WorkerCopy
<1>4. SessionsOk'
  <2> SUFFICES ASSUME NEW x \in Sessions PROVE SessionOk(x)'
    BY DEF SessionsOk
  <2>1. CASE x # s
    <3>1. SessionOk(x)
      BY DEF CycleInv, SessionsOk
    <3> QED BY <1>a, <1>b, <1>s, <2>1, <3>1 DEF SessionOk
  <2>2. CASE x = s
    <3>1. wk.pc = "idle" /\ sess[s].status = "Closed" => Settled(s)
      BY <1>o DEF SessionOk, Settled, DonePcs
    <3>2. /\ sess'[s].status = "Open" => Settled(s)
          /\ sess'[s].status = "Closed" => \A j \in JobIds : Unresolved(j, s) =>
               j = wk.job /\ IsFinalize /\ wk.pc \in DonePcs
          /\ client'[s].pc \in {"live", "opened"} => sess'[s].status = "Open"
          /\ client'[s].pc = "exiting" => sess'[s].status = "Finalizing" /\ Settled(s)
          /\ client'[s].pc = "reopening" => Settled(s)
      BY <1>1, <1>o, <3>1 DEF SessionOk, Settled
    <3> QED BY <1>a, <1>o, <1>s, <2>2, <3>2 DEF SessionOk
  <2> QED BY <2>1, <2>2
<1>5. Closing'
  <2>1. ClosedIsRecapped'
    <3>1. sess'[s].status = "Closed" => sess'[s].recapped = sess'[s].msgs
      BY <1>1, <1>c DEF CycleInv, Closing, ClosedIsRecapped
    <3> QED BY <1>b, <3>1 DEF CycleInv, Closing, ClosedIsRecapped
  <2>2. IsFinalize /\ wk.pc \in {"prepare", "apply", "upload"} => wk.end = sess'[S].msgs
    <3>1. {"prepare", "apply", "upload"} \subseteq ActivePcs
      BY DEF ActivePcs, LockPcs
    <3> QED BY <1>2, <1>b, <1>w, <3>1 DEF CycleInv, Closing
  <2> QED BY <1>a, <1>s, <2>1, <2>2 DEF Closing
<1>6. \A x \in Sessions : RecapSteady(x) \/ (x = s /\ client[s].pc = "reopening" /\ sess'[s].recapped = sess'[s].msgs
                                                 /\ sess'[s].msgs = sess[s].msgs)
  <2>1. \A x \in Sessions \ {s} : RecapSteady(x)
    BY <1>a, <1>b, <1>n DEF RecapSteady
  <2>2. CASE client[s].pc = "reopening" /\ sess'[s].status = "Open" /\ sess[s].status # "Open"
    BY <1>1, <1>c, <2>1, <2>2 DEF CycleInv, Closing, ClosedIsRecapped
  <2>3. CASE sess'[s].status # "Open" \/ sess[s].status = "Open"
    BY <1>1, <1>a, <1>n, <2>1, <2>3 DEF RecapSteady
  <2> QED BY <1>1, <2>1, <2>2, <2>3
<1>7. StoredRecaps' /\ WorkerRecap'
  <2>1. CASE RecapSteady(s)
    <3>1. \A x \in Sessions : RecapSteady(x)
      BY <1>6, <2>1
    <3>2. wk.rec.kind = "Recap" => S \in Sessions
      BY Places DEF S
    <3> QED BY <1>a, <3>1, <3>2, StoredStay, WorkerRecapStays DEF CycleInv
  <2>2. CASE ~RecapSteady(s)
    <3>1. sess'[s].recapped = sess'[s].msgs /\ sess'[s].msgs \in Nat
      BY <1>6, <1>n, <2>2
    <3>3. ASSUME NEW j \in JobIds, jobs[j].kind = "Recap", jobs[j].status = "Succeeded"
          PROVE  RecapHeld(jobs[j].sess, jobs[j].target, j)'
      <4>1. jobs[j].sess \in Sessions /\ jobs[j].target \in Nat /\ jobs'[j] = jobs[j]
            /\ jobs[j].target <= sess'[jobs[j].sess].msgs
        BY <1>a, <3>3, Places, Numbers DEF Numeric, RangeInv, Targets, Within
      <4>2. CASE jobs[j].sess = s
        BY <3>1, <4>1, <4>2 DEF RecapHeld
      <4>3. CASE jobs[j].sess # s
        <5>1. RecapHeld(jobs[j].sess, jobs[j].target, j)
          BY <3>3 DEF CycleInv, StoredRecaps
        <5> QED BY <1>a, <1>b, <4>1, <4>3, <5>1 DEF RecapHeld
      <4> QED BY <4>2, <4>3
    <3>4. StoredRecaps'
      BY <1>a, <3>3 DEF StoredRecaps
    <3>5. WorkerRecap'
      <4>1. SUFFICES ASSUME wk.rec.kind = "Recap" PROVE WorkerRecap'
        BY <1>a DEF WorkerRecap
      <4>2. /\ S \in Sessions /\ wk.rec.target \in Nat /\ wk.rec.target <= sess'[S].msgs
        BY <1>a, <4>1, Places, Numbers DEF Numeric, RangeInv, Targets, Within, S
      <4>3. CASE S = s
        <5>1. RecapHeld(S, wk.rec.target, wk.job)'
          BY <1>s, <1>a, <3>1, <4>2, <4>3 DEF RecapHeld
        <5> QED BY <1>a, <5>1 DEF WorkerRecap, CycleInv
      <4>4. CASE S # s
        <5>1. RecapHeld(S, wk.rec.target, wk.job) => RecapHeld(S, wk.rec.target, wk.job)'
          BY <1>s, <1>a, <1>b, <4>2, <4>4 DEF RecapHeld
        <5> QED BY <1>a, <5>1 DEF WorkerRecap, CycleInv
      <4> QED BY <4>3, <4>4
    <3> QED BY <3>4, <3>5
  <2> QED BY <2>1, <2>2
<1> QED BY <1>3, <1>4, <1>5, <1>7 DEF CycleInv

\* A request takes the gate and nothing else; a Recap that a compaction asks
\* for is a new job.
LEMMA RequestStepCycle ==
  ASSUME Undisturbed, BaseInv, TypeInv', CycleInv, NEW s \in Sessions, RequestStep(s)
  PROVE  CycleInv'
<1> USE DEF BaseInv
<1>a. UNCHANGED <<sess, running, wk, client>> /\ gate.op = "free"
  BY DEF RequestStep, request_enqueue, request_retry, request_resume, Acquire, create_recap_job
<1>b. gate'.op \notin {"open", "wopen"}
  BY DEF RequestStep, request_enqueue, request_retry, request_resume, Acquire,
         create_recap_job, FreeGate
<1>1. UNCHANGED jobs \/ \E j \in JobIds : /\ jobs[j].kind = "None" /\ jobs'[j].kind = "Recap"
                                          /\ jobs'[j].status = "Queued"
                                          /\ \A k \in JobIds \ {j} : jobs'[k] = jobs[k]
  <2>1. CASE create_recap_job(s)
    <3>1. PICK j \in JobIds : IsNewId(j) /\ WriteJob(j, RecapJob(s, sess[s].msgs))
      BY <2>1 DEF create_recap_job
    <3>2. jobs[j].kind = "None" /\ Written(j, RecapJob(s, sess[s].msgs))
      BY <3>1, WriteJobDoes DEF IsNewId, FreshIds
    <3> QED BY <3>2 DEF Written, RecapJob
  <2> QED BY <2>1 DEF RequestStep, request_enqueue, request_retry, request_resume, Acquire
<1>2. \A j \in JobIds : jobs'[j] = jobs[j] \/ (/\ jobs[j].kind = "None" /\ jobs'[j].kind = "Recap"
                                              /\ jobs'[j].status = "Queued")
  BY <1>1
<1>3. /\ \A j \in JobIds : \A x : Unresolved(j, x)' <=> Unresolved(j, x)
      /\ \A x : Settled(x)' <=> Settled(x)
  <2>1. \A j \in JobIds : \A x : Unresolved(j, x)' <=> Unresolved(j, x)
    BY <1>2 DEF Unresolved
  <2> QED BY <2>1 DEF Settled
<1>4. wk.pc # "idle" => jobs'[wk.job] = jobs[wk.job] /\ wk.job \in JobIds
  BY <1>2, Places DEF RangeInv, Targets
<1>5. WorkerCopy'
  <2>1. wk.pc \in ActivePcs \cup DonePcs => wk.pc # "idle"
    BY DEF ActivePcs, DonePcs, LockPcs
  <2> QED BY <1>a, <1>b, <1>4, <2>1 DEF CycleInv, WorkerCopy, S, IsFinalize
<1>6. SessionsOk'
  BY <1>a, <1>b, <1>3 DEF CycleInv, SessionsOk, SessionOk, IsFinalize
<1>7. Closing'
  BY <1>a DEF CycleInv, Closing, ClosedIsRecapped, S, IsFinalize
<1>8. \A x \in Sessions : RecapSteady(x)
  BY <1>a, <1>2, Numbers DEF RecapSteady, Numeric
<1>9. wk.rec.kind = "Recap" => S \in Sessions
  BY Places DEF S
<1>10. StoredRecaps' /\ WorkerRecap'
  BY <1>a, <1>8, <1>9, StoredStay, WorkerRecapStays DEF CycleInv
<1> QED BY <1>5, <1>6, <1>7, <1>10 DEF CycleInv

\* A handler leaves the other sessions as they are.
LEMMA HandlerElsewhere ==
  ASSUME TypeInv, CycleInv, NEW g, HandlerFrame(g), NEW x \in Sessions, x # g
  PROVE  SessionOk(x)' /\ RecapSteady(x)
<1>1. /\ \A j \in JobIds : Unresolved(j, x)' <=> Unresolved(j, x)
      /\ Settled(x)' <=> Settled(x)
  <2>1. \A j \in JobIds : Unresolved(j, x)' <=> Unresolved(j, x)
    BY DEF Unresolved, HandlerFrame
  <2> QED BY <2>1 DEF Settled
<1>2. /\ sess'[x] = sess[x] /\ client'[x] = client[x] /\ UNCHANGED wk
      /\ ~(gate'.op \in {"open", "wopen"} /\ gate'.sess = x)
  BY DEF HandlerFrame, FreeGate
<1>3. SessionOk(x)
  BY DEF CycleInv, SessionsOk
<1>4. SessionOk(x)'
  BY <1>1, <1>2, <1>3 DEF SessionOk, IsFinalize
<1>5. sess[x].recapped <= sess[x].recapped
  BY Numbers DEF Numeric
<1>6. \A k \in JobIds : /\ jobs[k].kind = "Recap" /\ jobs[k].sess = x => jobs'[k] = jobs[k]
                        /\ jobs'[k].kind = "Recap" /\ jobs'[k].sess = x => jobs'[k] = jobs[k]
  BY DEF HandlerFrame
<1> QED BY <1>2, <1>4, <1>5, <1>6 DEF RecapSteady

\* What a handler does to its own session g: nothing; a Finalize is made or
\* goes on; the Finalize of a Closed session is settled; the job is converted,
\* and then the session opens, or the job is restored.
HandlerIdle(g) ==
  /\ UNCHANGED <<jobs, sess>> /\ gate' = FreeGate
  /\ \/ client'[g] = client[g]
     \/ /\ client'[g].pc \notin {"live", "exiting", "reopening"}
        /\ client'[g].pc = "opened" => sess[g].status = "Open"
HandlerMakes(g) ==
  /\ UNCHANGED sess /\ gate' = FreeGate /\ sess[g].status = "Finalizing"
  /\ client'[g].pc \notin {"live", "opened", "exiting", "reopening"}
  /\ \E j \in JobIds : \E rec :
       /\ Written(j, rec) /\ rec.kind = "Finalize" /\ rec.sess = g /\ rec.status # "Succeeded"
       /\ Unresolved(j, g) \/ (jobs[j].kind = "None" /\ Settled(g))
       /\ j = wk.job /\ wk.pc \in ActivePcs \cup DonePcs => rec = jobs[j]
HandlerSettles(g) ==
  /\ UNCHANGED sess /\ gate' = FreeGate /\ sess[g].status = "Closed"
  /\ client'[g].pc = "reopening"
  /\ \A j \in JobIds : jobs'[j] = IF Unresolved(j, g) THEN [jobs[j] EXCEPT !.status = "Succeeded"]
                                  ELSE jobs[j]
HandlerConverts(g) ==
  /\ UNCHANGED sess /\ sess[g].status = "Finalizing"
  /\ gate'.op = "open" /\ gate'.sess = g
  /\ client'[g].pc \in {"resuming", "reconciling", "settling"}
  /\ Settled(g)'
  /\ gate'.job = wk.job => wk.pc \in {"idle", "end"}
  /\ \A j \in JobIds : jobs'[j] # jobs[j] => j # wk.job \/ wk.pc \in {"idle", "end"}
HandlerOpens(g) ==
  /\ gate.op = "open" /\ gate' = FreeGate /\ UNCHANGED jobs
  /\ Restated(g, "Open") /\ client'[g].pc \in {"opened", "none"}
HandlerRestores(g) ==
  /\ gate.op = "open" /\ gate' = FreeGate /\ UNCHANGED sess
  /\ client'[g].pc = "none"
  /\ \A j \in JobIds \ {gate.job} : jobs'[j] = jobs[j]
HandlerDoes(g) ==
  \/ HandlerIdle(g) \/ HandlerMakes(g) \/ HandlerSettles(g) \/ HandlerConverts(g)
  \/ HandlerOpens(g) \/ HandlerRestores(g)

\* Every handler does one of these to the session it was asked about.
LEMMA HandlerStepDoes ==
  ASSUME Undisturbed, BaseInv, CycleInv, HandlerStep, NEW g, g = gate.sess
  PROVE  HandlerDoes(g)
<1> USE DEF BaseInv
<1> DEFINE U == unresolved_finalize_jobs(g)
<1>p. Patient
  BY DEF Undisturbed
<1>f. HandlerFrame(g)
  BY <1>p, HandlerKeeps
<1>a. g \in Sessions /\ gate.meta = sess[g] /\ UNCHANGED wk
  BY <1>f DEF HandlerFrame
<1>o. SessionOk(g)
  BY <1>a DEF CycleInv, SessionsOk
<1>k. Fallback = At("none")
  BY <1>p DEF Patient, Fallback
<1>g. \A c : Goto(g, c) => client'[g] = c
  BY <1>a, GotoDoes DEF Moved
<1>c. \A c : Outcome(g, c) => client'[g].pc = "none" \/ client'[g] = c
  BY <1>a, OutcomeDoes DEF Moved, At
<1>u. /\ \A j : j \in U <=> j \in JobIds /\ Unresolved(j, g)
      /\ U = {} <=> Settled(g)
  BY SettledIsEmpty
<1>w. \A k, rec : WriteJob(k, rec) => Written(k, rec)
  BY WriteJobDoes
<1>i. \A j \in JobIds : IsNewId(j) => jobs[j].kind = "None"
  BY DEF IsNewId, FreshIds
<1>j. wk.pc # "idle" => wk.job \in JobIds /\ jobs[wk.job].kind # "None" /\ jobs[wk.job].sess = S
  BY Places DEF RangeInv, Targets
<1>n. "idle" \notin ActivePcs \cup DonePcs /\ "end" \notin ActivePcs \cup DonePcs
  BY DEF ActivePcs, DonePcs, LockPcs
<1>m. /\ FinalizeJob(g).kind = "Finalize" /\ FinalizeJob(g).sess = g
      /\ FinalizeJob(g).status = "Queued"
  BY DEF FinalizeJob
\* An unresolved Finalize of a Finalizing session that the worker has in hand
\* waits or runs, and is registered.
<1>h. ASSUME NEW j \in JobIds, Unresolved(j, g), j = wk.job, wk.pc \in ActivePcs \cup DonePcs,
             sess[g].status = "Finalizing", gate.op # "wopen"
      PROVE  jobs[j].status \in {"Queued", "Running"} /\ running.job = j
  <2>1. S = g /\ wk.pc \notin {"idle", "end"}
    BY <1>h, <1>j, <1>n DEF Unresolved
  <2>2. running.job = j
    BY <1>h, <2>1 DEF RangeInv, Control
  <2>3. CASE IsFinalize
    BY <1>h, <2>1, <2>2, <2>3 DEF CycleInv, WorkerCopy, Unresolved
  <2>4. CASE ~IsFinalize
    BY <1>h, <2>4 DEF CycleInv, WorkerCopy, Unresolved, IsFinalize
  <2> QED BY <2>3, <2>4
<1>1. CASE enqueue_finalize_job
  <2>1. client'[g].pc = "none" /\ gate' = FreeGate /\ UNCHANGED sess
    BY <1>1, <1>g, <1>k DEF enqueue_finalize_job, Release, At
  <2>2. CASE UNCHANGED jobs
    BY <2>1, <2>2 DEF HandlerDoes, HandlerIdle
  <2>3. CASE ~UNCHANGED jobs
    <3>1. /\ U = {} /\ sess[g].status = "Finalizing"
          /\ \E j \in JobIds : IsNewId(j) /\ Written(j, FinalizeJob(g))
      BY <1>1, <1>a, <1>w, <2>3 DEF enqueue_finalize_job
    <3>2. PICK j \in JobIds : IsNewId(j) /\ Written(j, FinalizeJob(g))
      BY <3>1
    <3>3. j = wk.job => wk.pc \notin ActivePcs \cup DonePcs
      BY <1>i, <1>j, <1>n, <3>2
    <3>4. HandlerMakes(g)
      BY <1>i, <1>m, <1>u, <2>1, <3>1, <3>2, <3>3 DEF HandlerMakes
    <3> QED BY <3>4 DEF HandlerDoes
  <2> QED BY <2>2, <2>3
<1>2. CASE retry_finalize_job
  <2>1. /\ client'[g] = client[g] /\ gate' = FreeGate /\ UNCHANGED sess /\ gate.op = "retry"
        /\ client[g].pc # "exiting"
    BY <1>2 DEF retry_finalize_job, Release, GateInv, GateClient, Undisturbed
  <2>2. CASE UNCHANGED jobs
    BY <2>1, <2>2 DEF HandlerDoes, HandlerIdle
  <2>3. CASE ~UNCHANGED jobs
    <3>1. PICK j \in JobIds : /\ Written(j, FinalizeJob(g)) /\ sess[g].status = "Finalizing"
                              /\ \/ j \in U /\ jobs[j].status = "Failed"
                                 \/ U = {} /\ IsNewId(j)
      <4>1. gate.meta.status = "Finalizing"
        BY <1>2, <2>3 DEF retry_finalize_job
      <4>2. \E j \in JobIds : /\ WriteJob(j, FinalizeJob(g))
                              /\ \/ j \in U /\ jobs[j].status = "Failed"
                                 \/ U = {} /\ IsNewId(j)
        BY <1>2, <1>u, <2>3 DEF retry_finalize_job
      <4> QED BY <1>a, <1>w, <4>1, <4>2
    <3>2. client[g].pc \notin {"live", "opened", "exiting", "reopening"}
      BY <1>a, <1>o, <2>1, <3>1 DEF SessionOk, RangeInv, ClosedStays
    <3>3. j = wk.job => wk.pc \notin ActivePcs \cup DonePcs
      BY <1>h, <1>i, <1>j, <1>n, <1>u, <2>1, <3>1
    <3>4. HandlerMakes(g)
      BY <1>i, <1>m, <1>u, <2>1, <3>1, <3>2, <3>3 DEF HandlerMakes
    <3> QED BY <3>4 DEF HandlerDoes
  <2> QED BY <2>2, <2>3
<1>3. CASE resume_not_unique \/ resume_open
  <2>1. /\ UNCHANGED <<jobs, sess>> /\ gate' = FreeGate
        /\ client'[g].pc = "none" \/ (client'[g].pc = "opened" /\ sess[g].status = "Open")
    BY <1>3, <1>a, <1>c DEF resume_not_unique, resume_open, ResumeStep, Release, At
  <2> QED BY <2>1 DEF HandlerDoes, HandlerIdle
<1>4. CASE resume_closed
  <2>1. /\ UNCHANGED sess /\ gate' = FreeGate /\ sess[g].status = "Closed"
        /\ Outcome(g, At("reopening"))
        /\ \A j \in JobIds : jobs'[j] = IF j \in U THEN [jobs[j] EXCEPT !.status = "Succeeded"]
                                        ELSE jobs[j]
    BY <1>4, <1>a DEF resume_closed, ResumeStep, Release
  <2>2. client'[g] = At("reopening")
    BY <1>a, <2>1, OutcomeDoes DEF Moved, At
  <2> QED BY <1>u, <2>1, <2>2 DEF HandlerDoes, HandlerSettles, At
<1>5. CASE resume_orphan
  <2>1. /\ UNCHANGED sess /\ sess[g].status = "Finalizing" /\ Settled(g) /\ gate.op = "resume"
        /\ gate.job = 0 /\ client[g].pc \in {"resuming", "reconciling", "settling"}
    BY <1>5, <1>a, <1>u DEF resume_orphan, ResumeStep, RangeInv, Targets, ClosedStays
  <2>2. CASE UNCHANGED jobs /\ gate' = FreeGate /\ Outcome(g, At("none"))
    BY <1>c, <2>2, <2>1 DEF HandlerDoes, HandlerIdle, At
  <2>3. CASE \E j \in JobIds : /\ IsNewId(j) /\ WriteJob(j, FinalizeJob(g))
                               /\ Outcome(g, Polling(j)) /\ gate' = FreeGate
    <3>1. PICK j \in JobIds : /\ IsNewId(j) /\ Written(j, FinalizeJob(g))
                              /\ Outcome(g, Polling(j)) /\ gate' = FreeGate
      BY <1>w, <2>3
    <3>2. client'[g].pc \in {"none", "polling"}
      BY <1>c, <3>1 DEF Polling
    <3>3. j = wk.job => wk.pc \notin ActivePcs \cup DonePcs
      BY <1>i, <1>j, <1>n, <3>1
    <3>4. HandlerMakes(g)
      BY <1>i, <1>m, <2>1, <3>1, <3>2, <3>3 DEF HandlerMakes
    <3> QED BY <3>4 DEF HandlerDoes
  <2>4. CASE /\ \E j \in JobIds : /\ IsNewId(j) /\ WriteJob(j, RecapJob(g, gate.meta.msgs))
                                  /\ gate' = [gate EXCEPT !.op = "open", !.job = j,
                                                          !.orig = FinalizeJob(g)]
             /\ UNCHANGED client
    <3>1. PICK j \in JobIds : /\ IsNewId(j) /\ Written(j, RecapJob(g, gate.meta.msgs))
                              /\ GateOpened(j, FinalizeJob(g))
      BY <1>w, <2>4, GateOpenDoes
    <3>2. j = wk.job => wk.pc = "idle"
      BY <1>i, <1>j, <3>1
    <3>3. Settled(g)'
      BY <2>1, <3>1 DEF Settled, Unresolved, Written, RecapJob
    <3>4. HandlerConverts(g)
      BY <2>1, <2>4, <3>1, <3>2, <3>3 DEF HandlerConverts, GateOpened, Written
    <3> QED BY <3>4 DEF HandlerDoes
  <2>5. CASE gate' = [gate EXCEPT !.op = "open"] /\ UNCHANGED <<jobs, client>>
    <3>1. GateOpened(0, gate.orig)
      BY <2>1, <2>5, GateOpenBareDoes
    <3>2. wk.job = 0 => wk.pc = "idle"
      BY <1>j, SupervisorAssumption DEF JobIds
    <3>3. Settled(g)'
      BY <2>1, <2>5 DEF Settled, Unresolved
    <3>4. HandlerConverts(g)
      BY <2>1, <2>5, <3>1, <3>2, <3>3 DEF HandlerConverts, GateOpened
    <3> QED BY <3>4 DEF HandlerDoes
  <2> QED BY <1>5, <2>2, <2>3, <2>4, <2>5 DEF resume_orphan, Release
<1>6. ASSUME NEW j \in JobIds, resume_checkpointed(j)
      PROVE  HandlerDoes(g)
  <2>1. /\ UNCHANGED sess /\ sess[g].status = "Finalizing" /\ j \in U /\ gate.op = "resume"
        /\ gate' = FreeGate /\ Outcome(g, Polling(j))
    BY <1>6, <1>a DEF resume_checkpointed, ResumeStep, Release
  <2>2. client'[g].pc \in {"none", "polling"}
    BY <1>c, <2>1 DEF Polling
  <2>3. /\ TakenJob(j).kind = "Finalize" /\ TakenJob(j).sess = g /\ TakenJob(j).status # "Succeeded"
        /\ running.job = j => TakenJob(j) = jobs[j]
    <3>1. /\ jobs[j] \in SupervisorJob /\ jobs[j].kind = "Finalize" /\ jobs[j].sess = g
          /\ jobs[j].status # "Succeeded" /\ gate.meta.status = "Finalizing"
      BY <1>a, <1>u, <2>1 DEF TypeInv, TypeOK, Unresolved
    <3> QED BY <3>1 DEF TakenJob, recover_stale_running_job, SupervisorJob
  <2>4. PICK rec : /\ Written(j, rec)
                   /\ rec = IF TakenJob(j).status = "Failed" THEN FinalizeJob(g) ELSE TakenJob(j)
    BY <1>6, <1>w DEF resume_checkpointed
  <2>5. j = wk.job /\ wk.pc \in ActivePcs \cup DonePcs => rec = jobs[j]
    BY <1>h, <1>u, <2>1, <2>3, <2>4
  <2>6. HandlerMakes(g)
    BY <1>m, <1>u, <2>1, <2>2, <2>3, <2>4, <2>5 DEF HandlerMakes
  <2> QED BY <2>6 DEF HandlerDoes
<1>7. ASSUME NEW j \in JobIds, resume_running(j)
      PROVE  HandlerDoes(g)
  <2>1. UNCHANGED <<sess, jobs>> /\ gate' = FreeGate /\ \E c : Outcome(g, c) /\ c.pc \in {"awaiting", "polling"}
    BY <1>7 DEF resume_running, ResumeStep, Release, Polling
  <2>2. client'[g].pc \in {"none", "awaiting", "polling"}
    BY <1>c, <2>1
  <2> QED BY <2>1, <2>2 DEF HandlerDoes, HandlerIdle
<1>8. ASSUME NEW j \in JobIds, resume_convert(j)
      PROVE  HandlerDoes(g)
  <2>1. /\ UNCHANGED <<sess, client>> /\ sess[g].status = "Finalizing" /\ U = {j} /\ gate.op = "resume"
        /\ running.job # j
        /\ client[g].pc \in {"resuming", "reconciling", "settling"}
    BY <1>8, <1>a DEF resume_convert, ResumeStep, RangeInv, ClosedStays
  <2>2. Written(j, RecapJob(g, gate.meta.msgs)) /\ GateOpened(j, TakenJob(j))
    BY <1>8, <1>w, GateOpenDoes DEF resume_convert
  <2>3. j = wk.job => wk.pc \in {"idle", "end"}
    BY <2>1 DEF RangeInv, Control
  <2>4. Settled(g)'
    <3>1. \A k \in JobIds : Unresolved(k, g) => k = j
      BY <1>u, <2>1
    <3> QED BY <2>2, <3>1 DEF Settled, Unresolved, Written, RecapJob
  <2>5. HandlerConverts(g)
    BY <2>1, <2>2, <2>3, <2>4 DEF HandlerConverts, GateOpened, Written
  <2> QED BY <2>5 DEF HandlerDoes
<1>9. CASE open_finalizing_session_for_resume
  <2>1. CASE sess[g].status = "Finalizing" /\ SetStatus(g, "Open") /\ Outcome(g, At("opened")) /\ UNCHANGED jobs
    <3>1. /\ Restated(g, "Open") /\ client'[g].pc \in {"opened", "none"}
          /\ gate.op = "open" /\ gate' = FreeGate
      BY <1>9, <1>c, <2>1, SetStatusDoes DEF open_finalizing_session_for_resume, Release, At
    <3> QED BY <2>1, <3>1 DEF HandlerDoes, HandlerOpens
  <2>2. CASE Outcome(g, At("none")) /\ UNCHANGED sess
    <3>1. client'[g].pc = "none" /\ gate.op = "open" /\ gate' = FreeGate
      BY <1>9, <1>c, <2>2 DEF open_finalizing_session_for_resume, Release, At
    <3>2. \A k \in JobIds \ {gate.job} : jobs'[k] = jobs[k]
      <4>1. \/ UNCHANGED jobs \/ jobs' = [jobs EXCEPT ![gate.job] = gate.orig]
            \/ (sess[g].status = "Finalizing" /\ SetStatus(g, "Open"))
        BY <1>9 DEF open_finalizing_session_for_resume
      <4>2. sess[g].status = "Finalizing" /\ SetStatus(g, "Open") => FALSE
        BY <1>a, <2>2, SetStatusDoes DEF Restated
      <4> QED BY <4>1, <4>2 DEF TypeInv, TypeOK
    <3> QED BY <2>2, <3>1, <3>2 DEF HandlerDoes, HandlerRestores
  <2> QED BY <1>9, <2>1, <2>2 DEF open_finalizing_session_for_resume
<1> QED BY <1>1, <1>2, <1>3, <1>4, <1>5, <1>6, <1>7, <1>8, <1>9 DEF HandlerStep

\* The handlers keep the invariant.
LEMMA HandlerStepCycle ==
  ASSUME Undisturbed, BaseInv, TypeInv', CycleInv, HandlerStep
  PROVE  CycleInv'
<1> USE DEF BaseInv
<1>p. Patient
  BY DEF Undisturbed
<1>g. PICK g \in Sessions : g = gate.sess /\ HandlerFrame(g) /\ HandlerDoes(g)
  <2>1. gate.sess \in Sessions /\ HandlerFrame(gate.sess)
    BY <1>p, HandlerKeeps DEF HandlerFrame
  <2>2. \E g \in Sessions : g = gate.sess
    BY <2>1
  <2>3. PICK g \in Sessions : g = gate.sess
    BY <2>2
  <2> QED BY <2>1, <2>3, HandlerStepDoes
<1>a. UNCHANGED wk /\ gate.op \in {"enqueue", "retry", "resume", "open"}
  BY <1>g DEF HandlerFrame
<1>b. \A x \in Sessions : x # g => SessionOk(x)' /\ RecapSteady(x)
  BY <1>g, HandlerElsewhere
<1>o. SessionOk(g)
  BY <1>g DEF CycleInv, SessionsOk
<1>n. /\ \A x \in Sessions : /\ sess[x].msgs \in Nat /\ sess[x].recapped \in Nat
                             /\ sess[x].recapped <= sess[x].msgs
      /\ \A j \in JobIds : jobs[j].target \in Nat
      /\ wk.rec.target \in Nat
  BY Numbers DEF Numeric, RangeInv, Ranges
<1>s. /\ \A x \in Sessions : sess'[x].msgs = sess[x].msgs /\ sess'[x].recapped = sess[x].recapped
      /\ \A x \in Sessions : sess'[x].status = sess[x].status \/ (x = g /\ HandlerOpens(g) /\ sess'[x].status = "Open")
  BY <1>g DEF HandlerDoes, HandlerIdle, HandlerMakes, HandlerSettles, HandlerConverts,
              HandlerOpens, HandlerRestores, Restated
<1>f. FreeGate.op = "free" /\ FreeGate.job = 0
  BY DEF FreeGate
<1>e. "idle" \notin ActivePcs \cup DonePcs /\ "end" \notin ActivePcs \cup DonePcs
      /\ ActivePcs \cap DonePcs = {}
  BY DEF ActivePcs, DonePcs, LockPcs
<1>j. wk.pc # "idle" => /\ wk.job \in JobIds /\ jobs[wk.job].kind # "None" /\ jobs[wk.job].sess = S
                        /\ S \in Sessions
  BY Places DEF RangeInv, Targets
<1>i. S' = S /\ IsFinalize' = IsFinalize
  BY <1>a DEF S, IsFinalize
\* The file of the job in hand changes only where a Finalize that is done is settled.
<1>w. wk.pc \in ActivePcs \cup DonePcs =>
        \/ jobs'[wk.job] = jobs[wk.job]
        \/ /\ IsFinalize /\ wk.pc \in DonePcs
           /\ jobs'[wk.job].kind = "Finalize" /\ jobs'[wk.job].status = "Succeeded"
  <2> SUFFICES ASSUME wk.pc \in ActivePcs \cup DonePcs, jobs'[wk.job] # jobs[wk.job]
               PROVE  /\ IsFinalize /\ wk.pc \in DonePcs
                      /\ jobs'[wk.job].kind = "Finalize" /\ jobs'[wk.job].status = "Succeeded"
    OBVIOUS
  <2>1. wk.job \in JobIds /\ wk.pc \notin {"idle", "end"}
    BY <1>e, <1>j
  <2>2. gate.op = "open" => gate.job # wk.job
    BY <2>1 DEF CycleInv, WorkerCopy
  <2>3. HandlerSettles(g)
    BY <1>g, <2>1, <2>2 DEF HandlerDoes, HandlerIdle, HandlerMakes, HandlerConverts, HandlerOpens,
       HandlerRestores, Written
  <2>4. Unresolved(wk.job, g) /\ jobs'[wk.job] = [jobs[wk.job] EXCEPT !.status = "Succeeded"]
    BY <2>1, <2>3 DEF HandlerSettles
  <2>5. jobs'[wk.job].kind = "Finalize" /\ jobs'[wk.job].status = "Succeeded"
    BY <2>1, <2>4 DEF Unresolved, TypeInv, TypeOK, SupervisorJob
  <2>6. IsFinalize /\ wk.pc \in DonePcs
    BY <1>o, <2>1, <2>3, <2>4 DEF HandlerSettles, SessionOk
  <2> QED BY <2>5, <2>6
\* A session opens only where the worker has no Finalize of it in hand.
<1>h. HandlerOpens(g) /\ IsFinalize /\ wk.pc \in ActivePcs => S # g
  <2> SUFFICES ASSUME HandlerOpens(g), IsFinalize, wk.pc \in ActivePcs, S = g
               PROVE  FALSE
    OBVIOUS
  <2>1. gate.op = "open" /\ Settled(g)
    BY <1>g, <1>o DEF HandlerOpens, SessionOk
  <2>2. jobs[wk.job] = wk.rec /\ wk.rec.status \in {"Queued", "Running"} /\ wk.job \in JobIds
    BY <1>e, <1>j, <2>1 DEF CycleInv, WorkerCopy
  <2> QED BY <2>1, <2>2 DEF Settled, Unresolved, IsFinalize, S
<1>1. WorkerCopy'
  <2>1. gate'.op = "open" /\ gate'.job = wk.job => wk.pc \in {"idle", "end"}
    BY <1>f, <1>g DEF HandlerDoes, HandlerIdle, HandlerMakes, HandlerSettles, HandlerConverts,
                      HandlerOpens, HandlerRestores
  <2>2. IsFinalize /\ wk.pc \in ActivePcs => sess'[S].status = sess[S].status
    BY <1>e, <1>h, <1>j, <1>s
  <2>3. IsFinalize /\ wk.pc \in DonePcs /\ sess[S].status = "Closed" => sess'[S].status = "Closed"
    <3>1. HandlerOpens(g) => sess[g].status = "Finalizing"
      BY <1>g DEF HandlerOpens, GateInv, GateOpen, GateFresh
    <3> QED BY <1>e, <1>j, <1>s, <3>1
  <2> QED BY <1>a, <1>e, <1>i, <1>w, <2>1, <2>2, <2>3 DEF CycleInv, WorkerCopy
<1>2. SessionOk(g)'
  <2>1. CASE HandlerIdle(g)
    BY <1>a, <1>f, <1>i, <1>o, <2>1 DEF HandlerIdle, SessionOk, Unresolved, Settled
  <2>2. CASE HandlerMakes(g)
    <3>1. PICK j \in JobIds : \E rec :
            /\ Written(j, rec) /\ rec.kind = "Finalize" /\ rec.sess = g /\ rec.status # "Succeeded"
            /\ Unresolved(j, g) \/ Settled(g)
      BY <2>2 DEF HandlerMakes
    <3>2. \A k \in JobIds : Unresolved(k, g)' => k = j
      BY <1>o, <3>1 DEF SessionOk, Settled, Unresolved, Written
    <3> QED BY <1>f, <2>2, <3>2 DEF HandlerMakes, SessionOk
  <2>3. CASE HandlerSettles(g)
    <3>1. Settled(g)'
      <4> SUFFICES ASSUME NEW j \in JobIds PROVE ~Unresolved(j, g)'
        BY DEF Settled
      <4>1. CASE Unresolved(j, g)
        <5>1. jobs'[j] = [jobs[j] EXCEPT !.status = "Succeeded"]
          BY <2>3, <4>1 DEF HandlerSettles
        <5>2. jobs[j] \in SupervisorJob
          BY DEF TypeInv, TypeOK
        <5>3. jobs'[j].status = "Succeeded"
          BY <5>1, <5>2 DEF SupervisorJob
        <5> QED BY <5>3 DEF Unresolved
      <4>2. CASE ~Unresolved(j, g)
        <5>1. jobs'[j] = jobs[j]
          BY <2>3, <4>2 DEF HandlerSettles
        <5> QED BY <4>2, <5>1 DEF Unresolved
      <4> QED BY <4>1, <4>2
    <3> QED BY <1>f, <2>3, <3>1 DEF HandlerSettles, SessionOk, Settled
  <2>4. CASE HandlerConverts(g)
    BY <2>4 DEF HandlerConverts, SessionOk, Settled
  <2>5. CASE HandlerOpens(g)
    <3>1. Settled(g)'
      BY <1>g, <1>o, <2>5 DEF HandlerOpens, SessionOk, Settled, Unresolved
    <3> QED BY <1>f, <2>5, <3>1 DEF HandlerOpens, SessionOk, Settled, Restated
  <2>6. CASE HandlerRestores(g)
    <3>1. Settled(g) /\ sess[g].status = "Finalizing"
      BY <1>g, <1>o, <2>6 DEF HandlerRestores, SessionOk, GateInv, GateOpen, GateFresh
    <3>2. \A k \in JobIds : Unresolved(k, g)' => k = gate.job
      BY <2>6, <3>1 DEF HandlerRestores, Settled, Unresolved
    <3> QED BY <1>f, <2>6, <3>1, <3>2 DEF HandlerRestores, SessionOk
  <2> QED BY <1>g, <2>1, <2>2, <2>3, <2>4, <2>5, <2>6 DEF HandlerDoes
<1>3. SessionsOk'
  BY <1>b, <1>2 DEF SessionsOk
<1>4. Closing'
  <2>1. ClosedIsRecapped'
    BY <1>s DEF CycleInv, Closing, ClosedIsRecapped
  <2>2. {"prepare", "apply", "upload"} \subseteq ActivePcs
    BY DEF ActivePcs, LockPcs
  <2> QED BY <1>a, <1>e, <1>i, <1>j, <1>s, <2>1, <2>2 DEF CycleInv, Closing
<1>c. running'.cancel = running.cancel \/ (S = g /\ sess'[g].status = "Finalizing") \/ wk.pc = "idle"
  <2>1. CASE UNCHANGED running
    BY <2>1
  <2>2. CASE enqueue_finalize_job
    BY <1>a, <1>g, <2>2 DEF enqueue_finalize_job, request_same_session_recap_preemption, S, GateInv, GateFresh
  <2>3. ASSUME NEW j \in JobIds, resume_running(j)
        PROVE  S = g /\ sess'[g].status = "Finalizing"
    BY <1>g, <1>p, <2>3, StopRequested DEF AwaitInv
  <2> QED BY <2>1, <2>2, <2>3 DEF HandlerStep, retry_finalize_job, resume_not_unique,
             resume_closed, resume_open, resume_orphan, resume_checkpointed, resume_convert,
             open_finalizing_session_for_resume
<1>5. CASE ~HandlerOpens(g)
  <2>1. sess'[g].status = "Open" => UNCHANGED jobs
    BY <1>g, <1>o, <1>s, <1>5 DEF HandlerDoes, HandlerIdle, HandlerMakes, HandlerSettles,
       HandlerConverts, HandlerRestores, GateInv, GateOpen, GateFresh
  <2>2. RecapSteady(g)
    BY <1>g, <1>n, <1>s, <1>5, <2>1 DEF RecapSteady
  <2>3. \A x \in Sessions : RecapSteady(x)
    BY <1>b, <2>2
  <2>4. wk.rec.kind = "Recap" => S \in Sessions
    BY Places DEF S
  <2>5. running'.cancel = running.cancel \/ sess'[S].status # "Open" \/ wk.pc = "idle"
    BY <1>c
  <2>6. CASE wk.pc = "idle"
    BY <1>1, <1>3, <1>4, <1>a, <1>e, <2>3, <2>6, StoredStay DEF CycleInv, WorkerRecap
  <2> QED BY <1>1, <1>3, <1>4, <1>a, <2>3, <2>4, <2>5, <2>6, StoredStay, WorkerRecapStays DEF CycleInv
<1>6. CASE HandlerOpens(g)
  <2>1. /\ UNCHANGED jobs /\ gate.op = "open" /\ sess[g].status = "Finalizing"
        /\ gate.job = 0 => sess[g].recapped >= sess[g].msgs
        /\ gate.job # 0 => /\ gate.job \in JobIds
                           /\ jobs[gate.job] = RecapJob(g, sess[g].msgs)
    BY <1>6, <1>g DEF HandlerOpens, GateInv, GateOpen, GateFresh
  <2>2. ASSUME NEW t \in Nat, t <= sess[g].msgs, NEW y, y # gate.job
        PROVE  RecapHeld(g, t, y)'
    <3>1. CASE gate.job = 0
      BY <1>g, <1>n, <1>s, <2>1, <2>2, <3>1 DEF RecapHeld
    <3>2. CASE gate.job # 0
      <4>1. /\ jobs'[gate.job].kind = "Recap" /\ jobs'[gate.job].sess = g
            /\ jobs'[gate.job].status # "Succeeded" /\ jobs'[gate.job].target >= t
            /\ gate.job \in JobIds \ {y}
        BY <1>n, <2>1, <2>2, <3>2 DEF RecapJob
      <4> QED BY <4>1 DEF RecapHeld
    <3> QED BY <3>1, <3>2
  <2>3. ASSUME NEW t \in Nat, NEW y, NEW x \in Sessions, x # g, RecapHeld(x, t, y)
        PROVE  RecapHeld(x, t, y)'
    BY <1>b, <2>3, RecapStaysHeld
  <2>4. ASSUME NEW t \in Nat, NEW y, NEW x \in Sessions, t <= sess[x].msgs, RecapHeld(x, t, y),
               y # gate.job
        PROVE  RecapHeld(x, t, y)'
    BY <2>2, <2>3, <2>4
  <2>5. StoredRecaps'
    <3> SUFFICES ASSUME NEW j \in JobIds, jobs[j].kind = "Recap", jobs[j].status = "Succeeded"
                 PROVE  RecapHeld(jobs[j].sess, jobs[j].target, j)'
      BY <2>1 DEF StoredRecaps
    <3>1. PICK x \in Sessions, t \in Nat : x = jobs[j].sess /\ t = jobs[j].target
      BY <1>n, Places
    <3>2. t <= sess[x].msgs /\ RecapHeld(x, t, j)
      BY <3>1 DEF RangeInv, Targets, Within, CycleInv, StoredRecaps
    <3>3. j # gate.job
      BY <2>1, SupervisorAssumption DEF RecapJob, JobIds
    <3>4. RecapHeld(x, t, j)'
      BY <2>4, <3>2, <3>3
    <3> QED BY <2>1, <3>1, <3>4 DEF RecapHeld
  <2>6. WorkerRecap'
    <3> SUFFICES ASSUME wk.rec.kind = "Recap", wk.pc \in ActivePcs \cup DonePcs
                 PROVE  WorkerRecap'
      <4>1. {"prepare", "apply", "upload"} \subseteq ActivePcs
        BY DEF ActivePcs, LockPcs
      <4> QED BY <1>a, <4>1 DEF WorkerRecap
    <3>1. PICK x \in Sessions, t \in Nat : x = S /\ t = wk.rec.target
      BY <1>n, Places DEF S
    <3>2. t <= sess[x].msgs
      BY <3>1 DEF RangeInv, Targets, Within, S
    <3>3. wk.job # gate.job
      BY <1>e, <2>1 DEF CycleInv, WorkerCopy
    <3>4. PICK y : y = wk.job
      OBVIOUS
    <3>5. RecapHeld(x, t, y) => RecapHeld(x, t, y)'
      BY <2>4, <3>2, <3>3, <3>4
    <3>6. RecapHeld(S, wk.rec.target, wk.job) => RecapHeld(S, wk.rec.target, wk.job)'
      BY <1>a, <1>i, <3>1, <3>4, <3>5 DEF RecapHeld
    <3>7. UNCHANGED running \/ running'.cancel = running.cancel
      BY <1>6, <1>c, <1>e, <1>g DEF HandlerOpens, Restated
    <3> QED BY <1>a, <3>6, <3>7 DEF CycleInv, WorkerRecap
  <2> QED BY <1>1, <1>3, <1>4, <2>5, <2>6 DEF CycleInv
<1> QED BY <1>5, <1>6

\* What a step of the engine does: a Finalize keeps its session Finalizing, or
\* closes it with all of its messages recapped; a Recap moves the cursor and
\* is done with its range, or with its session, or is asked to stop.
EngineWork ==
  /\ gate.op = "free" /\ UNCHANGED <<gate, jobs, client>> /\ WkKeeps
  /\ S \in Sessions /\ wk.pc \in ActivePcs \ {"fail"} /\ running'.cancel = running.cancel
  /\ \A x \in Sessions \ {S} : sess'[x] = sess[x]
  /\ sess'[S].msgs = sess[S].msgs /\ sess[S].recapped <= sess'[S].recapped
  /\ wk'.pc \in (ActivePcs \ {"fail"}) \cup {"completed"}
  /\ IsFinalize /\ wk'.pc # "completed" => sess'[S].status = "Finalizing"
  /\ IsFinalize /\ wk'.pc = "completed" =>
       sess'[S].status = "Closed" /\ sess'[S].recapped = sess[S].msgs
  /\ IsFinalize /\ wk'.pc \in {"prepare", "apply", "upload"} => wk'.end = sess[S].msgs
  /\ ~IsFinalize => sess'[S].status = sess[S].status
  /\ ~IsFinalize /\ wk'.pc \in {"prepare", "apply", "upload"} => wk'.end = wk.rec.target
  /\ ~IsFinalize /\ wk'.pc = "completed" =>
       \/ sess[S].status # "Open" \/ sess'[S].recapped >= wk.rec.target
       \/ running.cancel = TRUE

\* Such a step keeps the invariant.
LEMMA EngineWorkCycle ==
  ASSUME BaseInv, TypeInv', RangeInv', CycleInv, EngineWork
  PROVE  CycleInv'
<1> USE DEF BaseInv
<1>e. /\ DonePcs = {"completed", "ok"} /\ ActivePcs \cap DonePcs = {} /\ "error" \notin ActivePcs
      /\ "idle" \notin ActivePcs /\ "end" \notin ActivePcs
      /\ {"prepare", "apply", "upload"} \subseteq ActivePcs \ {"fail"}
  BY DEF ActivePcs, DonePcs, LockPcs
<1>i. S' = S /\ IsFinalize' = IsFinalize /\ wk'.job = wk.job /\ wk'.rec = wk.rec
  BY DEF S, IsFinalize, EngineWork, WkKeeps
<1>j. wk.job \in JobIds /\ wk.rec.kind # "None" /\ jobs[wk.job] = wk.rec
  <2>1. wk.pc # "idle" /\ wk.pc \in ActivePcs /\ gate.op = "free"
    BY <1>e DEF EngineWork
  <2> QED BY <2>1, Places DEF RangeInv, Targets, CycleInv, WorkerCopy
<1>f. IsFinalize => /\ sess[S].status = "Finalizing" /\ Unresolved(wk.job, S)
  BY <1>j DEF CycleInv, WorkerCopy, EngineWork, Unresolved, IsFinalize, S
<1>n. /\ \A x \in Sessions : /\ sess[x].msgs \in Nat /\ sess[x].recapped \in Nat
                             /\ sess'[x].recapped \in Nat
      /\ wk.rec.target \in Nat
  BY Numbers, NumbersNext DEF Numeric
<1>s. /\ \A j : \A x : Unresolved(j, x)' <=> Unresolved(j, x)
      /\ \A x : Settled(x)' <=> Settled(x)
  BY DEF EngineWork, Unresolved, Settled
<1>1. WorkerCopy'
  BY <1>e, <1>i, <1>f, <1>j DEF CycleInv, WorkerCopy, EngineWork, Unresolved
<1>2. SessionsOk'
  <2> SUFFICES ASSUME NEW x \in Sessions PROVE SessionOk(x)'
    BY DEF SessionsOk
  <2>1. SessionOk(x)
    BY DEF CycleInv, SessionsOk
  <2>2. sess[x].status = "Closed" => Settled(x)
    BY <1>e, <2>1 DEF SessionOk, EngineWork, Settled
  <2>3. CASE x # S \/ ~IsFinalize
    <3>1. sess'[x].status = sess[x].status /\ client'[x] = client[x] /\ gate'.op = "free"
      BY <2>3 DEF EngineWork
    <3> QED BY <1>s, <2>1, <2>2, <3>1 DEF SessionOk, Settled
  <2>4. CASE x = S /\ IsFinalize
    <3>1. /\ \A j \in JobIds : Unresolved(j, x) => j = wk.job
          /\ client[x].pc \notin {"live", "opened", "exiting", "reopening"}
      BY <1>f, <1>j, <2>1, <2>4 DEF SessionOk, Settled
    <3>2. /\ sess'[x].status # "Open" /\ client'[x] = client[x] /\ gate'.op = "free"
          /\ sess'[x].status = "Closed" => wk'.pc = "completed"
      BY <2>4 DEF EngineWork
    <3> QED BY <1>e, <1>i, <1>s, <2>1, <2>4, <3>1, <3>2 DEF SessionOk
  <2> QED BY <2>3, <2>4
<1>3. Closing'
  <2>1. ClosedIsRecapped'
    <3>1. \A x \in Sessions : sess'[x].recapped <= sess'[x].msgs
      BY DEF RangeInv, Ranges
    <3> QED BY <1>n, <3>1 DEF CycleInv, Closing, ClosedIsRecapped, EngineWork
  <2> QED BY <1>i, <2>1 DEF Closing, EngineWork
<1>4. \A x \in Sessions : RecapSteady(x)
  BY <1>n DEF RecapSteady, EngineWork
<1>5. WorkerRecap'
  <2> SUFFICES ASSUME wk.rec.kind = "Recap" PROVE WorkerRecap'
    BY <1>i DEF WorkerRecap
  <2>1. ~IsFinalize
    BY DEF IsFinalize
  <2>2. PICK x \in Sessions, t \in Nat, y \in JobIds : x = S /\ t = wk.rec.target /\ y = wk.job
    BY <1>j, <1>n DEF EngineWork
  <2>3. RecapHeld(x, t, y) => RecapHeld(x, t, y)'
    BY <1>4, RecapStaysHeld
  <2>4. running.cancel = TRUE => RecapHeld(x, t, y)
    BY <1>e, <2>2 DEF EngineWork, CycleInv, WorkerRecap
  <2>5. wk'.pc = "completed" => RecapHeld(x, t, y)'
    <3>1. CASE running.cancel = TRUE
      BY <2>3, <2>4, <3>1
    <3>2. CASE wk'.pc = "completed" /\ (sess[S].status # "Open" \/ sess'[S].recapped >= wk.rec.target)
      BY <2>1, <2>2, <3>2 DEF EngineWork, RecapHeld
    <3> QED BY <2>1, <3>1, <3>2 DEF EngineWork
  <2>6. RecapHeld(x, t, y)' => RecapHeld(S, wk.rec.target, wk.job)'
    BY <1>i, <2>2 DEF RecapHeld
  <2>7. running'.cancel = TRUE => RecapHeld(x, t, y)'
    BY <2>3, <2>4 DEF EngineWork
  <2> QED BY <1>e, <1>i, <2>1, <2>5, <2>6, <2>7 DEF WorkerRecap, EngineWork
<1>6. StoredRecaps'
  BY <1>4, StoredStay DEF CycleInv
<1> QED BY <1>1, <1>2, <1>3, <1>5, <1>6 DEF CycleInv

\* Every step of the engine is of that form.
LEMMA EngineStepCycle ==
  ASSUME Undisturbed, BaseInv, TypeInv', RangeInv', CycleInv, EngineStep
  PROVE  CycleInv'
<1> USE DEF BaseInv
<1>a. /\ wk.pc \in {"enter", "lock"} \cup LockPcs
      /\ gate.op = "free" /\ UNCHANGED <<gate, jobs, client>>
  BY DEF Undisturbed, Patient, Interleaved, EngineStep, WkAt, enter_session, lock_session, finalize_locked,
         recap_locked, recover_current_recap_checkpoint_prefix, advance_recovered_prefix,
         finalize_segment, commit_prepared, apply_finalize_checkpoint, commit_segment,
         attempt_fails, LockPcs
<1>b. S \in Sessions /\ wk.pc \in ActivePcs \ {"fail"}
  BY <1>a, Places DEF LockPcs, ActivePcs
<1>c. /\ wk.pre \in BOOLEAN /\ running.cancel \in BOOLEAN
      /\ running.phase = "CancelRequested" => running.cancel = TRUE
  BY DEF TypeInv, TypeOK, Worker, RunningJob, RangeInv, Control
<1>d. MarkPrepared(running).cancel = running.cancel
  <2>1. running \in RunningJob
    BY DEF TypeInv, TypeOK
  <2> QED BY <2>1, ControlDoes
<1>t. /\ \A st : SetStatus(S, st) => Restated(S, st)
      /\ \A pc : WkGoto(pc) => WkMoved(pc)
      /\ \A pc, e : wk' = [wk EXCEPT !.pc = pc, !.end = e] => WkSegment(pc, e)
      /\ \A pc : Leave(pc) => WkMoved(pc)
  BY SetStatusDoes, WkGotoDoes, WkSegmentDoes, LeaveDoes
<1>n. /\ \A x \in Sessions : sess[x].msgs \in Nat /\ sess[x].recapped \in Nat
                             /\ sess[x].recapped <= sess[x].msgs
      /\ wk.end \in Nat /\ wk.rec.target \in Nat
  BY Numbers DEF Numeric, RangeInv, Ranges
<1>f. /\ IsFinalize => sess[S].status = "Finalizing"
      /\ IsFinalize /\ wk.pc \in {"prepare", "apply", "upload"} => wk.end = sess[S].msgs
      /\ ~IsFinalize /\ wk.pc \in {"prepare", "apply", "upload"} => wk.end = wk.rec.target
  <2>1. wk.rec.kind # "None" /\ wk.rec \in SupervisorJob
    BY <1>a DEF RangeInv, Targets, LockPcs, TypeInv, TypeOK, Worker
  <2>2. IsFinalize \/ wk.rec.kind = "Recap"
    BY <2>1 DEF SupervisorJob, IsFinalize
  <2> QED BY <1>b, <2>2 DEF CycleInv, WorkerCopy, Closing, WorkerRecap
<1>k. wk.pc \in {"recover", "recovered", "segment"} => IsFinalize
  BY DEF PreemptInv, WorkerKind
<1>q. {"enter", "lock", "failed", "preempted"} \cup LockPcs \subseteq ActivePcs \ {"fail"}
  BY DEF LockPcs, ActivePcs
<1>m. {"locked", "recover", "recovered", "segment", "prepare", "apply", "upload"} = LockPcs
  BY DEF LockPcs
<1> USE <1>a, <1>b, <1>q
<1> SUFFICES EngineWork
  BY EngineWorkCycle
<1>1. CASE enter_session
  <2>1. /\ WkMoved("lock") /\ wk.pc = "enter" /\ UNCHANGED <<sess, running>>
    BY <1>1, <1>f, <1>t DEF enter_session, WkAt
  <2> QED BY <1>f, <1>n, <2>1 DEF EngineWork, WkMoved
<1>2. CASE lock_session
  <2>1. /\ \/ WkMoved("locked") \/ (WkMoved("completed") /\ ~IsFinalize /\ running.cancel = TRUE)
           \/ (WkMoved("preempted") /\ IsFinalize)
        /\ wk.pc = "lock" /\ UNCHANGED <<sess, running>>
    BY <1>2, <1>c, <1>t DEF lock_session, WkAt, cancelled
  <2> QED BY <1>f, <1>m, <1>n, <2>1 DEF EngineWork, WkMoved
<1>3. CASE finalize_locked
  <2>1. /\ wk.pc = "locked" /\ IsFinalize
        /\ \/ /\ WkSegment("recover", ckpt[S].end)
              /\ running' = MarkPrepared(running) /\ Restated(S, "Finalizing")
           \/ WkMoved("preempted") /\ UNCHANGED <<sess, running>>
           \/ WkMoved("segment") /\ Restated(S, "Finalizing") /\ UNCHANGED running
    BY <1>3, <1>f, <1>t DEF finalize_locked, WkAt
  <2> QED BY <1>d, <1>f, <1>m, <1>n, <2>1 DEF EngineWork, WkMoved, WkSegment, Restated
<1>4. CASE recap_locked
  <2>1. /\ ~IsFinalize /\ running' \in {running, MarkPrepared(running)} /\ UNCHANGED sess
        /\ \/ WkMoved("completed") /\ (sess[S].status # "Open" \/ sess[S].recapped >= wk.rec.target)
           \/ \E pc \in {"apply", "prepare"} : WkSegment(pc, wk.rec.target)
    BY <1>4, <1>t DEF recap_locked
  <2> QED BY <1>d, <1>m, <1>n, <2>1 DEF EngineWork, WkMoved, WkSegment
<1>5. CASE recover_current_recap_checkpoint_prefix \/ attempt_fails
  <2>1. /\ UNCHANGED <<running, sess>>
        /\ WkMoved("recovered") \/ WkMoved("failed")
    BY <1>5, <1>t DEF recover_current_recap_checkpoint_prefix, attempt_fails
  <2> QED BY <1>f, <1>m, <1>n, <2>1 DEF EngineWork, WkMoved
<1>6. CASE advance_recovered_prefix
  <2>1. /\ UNCHANGED running /\ WkMoved("segment") /\ wk.pc = "recovered"
        /\ sess' = [sess EXCEPT ![S].recapped = IF @ < wk.end THEN wk.end ELSE @]
    BY <1>6, <1>t DEF advance_recovered_prefix, WkAt
  <2>2. /\ \A x \in Sessions \ {S} : sess'[x] = sess[x]
        /\ sess'[S].msgs = sess[S].msgs /\ sess'[S].status = sess[S].status
        /\ sess'[S].recapped = IF sess[S].recapped < wk.end THEN wk.end ELSE sess[S].recapped
    BY <2>1 DEF TypeInv, TypeOK, SessionMetadata
  <2>3. sess[S].recapped <= sess'[S].recapped
    BY <1>n, <2>2
  <2> QED BY <1>f, <1>m, <2>1, <2>2, <2>3 DEF EngineWork, WkMoved
<1>7. CASE finalize_segment
  <2>1. /\ wk.pc = "segment" /\ IsFinalize
        /\ \/ WkMoved("preempted") /\ UNCHANGED <<sess, running>>
           \/ /\ WkMoved("completed") /\ running' = MarkPrepared(running)
              /\ Restated(S, "Closed") /\ sess[S].recapped = sess[S].msgs
           \/ WkSegment("prepare", sess[S].msgs) /\ UNCHANGED <<sess, running>>
    BY <1>7, <1>k, <1>t DEF finalize_segment, WkAt
  <2> QED BY <1>d, <1>f, <1>m, <1>n, <2>1 DEF EngineWork, WkMoved, WkSegment, Restated
<1>8. CASE commit_prepared
  <2>1. /\ wk.pc = "prepare" /\ UNCHANGED sess
        /\ \/ /\ running.cancel = TRUE /\ UNCHANGED running
              /\ (WkMoved("completed") /\ ~IsFinalize) \/ (IsFinalize /\ WkMoved("preempted"))
           \/ WkMoved("apply") /\ running' = MarkPrepared(running)
    BY <1>8, <1>c, <1>t DEF commit_prepared, WkAt, cancelled
  <2> QED BY <1>d, <1>f, <1>m, <1>n, <2>1 DEF EngineWork, WkMoved
<1>9. CASE apply_finalize_checkpoint
  <2>1. wk.pc = "apply" /\ UNCHANGED <<running, sess>> /\ WkMoved("upload")
    BY <1>9, <1>t DEF apply_finalize_checkpoint, WkAt
  <2> QED BY <1>f, <1>m, <1>n, <2>1 DEF EngineWork, WkMoved
<1>10. CASE commit_segment
  <2>1. wk.pc = "upload" /\ UNCHANGED running /\ WkMoved("completed")
    BY <1>10, <1>t DEF commit_segment, WkAt
  <2>2. /\ \A x \in Sessions \ {S} : sess'[x] = sess[x]
        /\ sess'[S].msgs = sess[S].msgs
        /\ sess'[S].status = IF IsFinalize THEN "Closed" ELSE sess[S].status
        /\ sess'[S].recapped = IF sess[S].recapped < wk.end THEN wk.end ELSE sess[S].recapped
    BY <1>10, CommitDoes
  <2>3. /\ sess[S].recapped <= sess'[S].recapped /\ sess'[S].recapped >= wk.end
        /\ IsFinalize => sess'[S].recapped = sess[S].msgs
    BY <1>f, <1>n, <2>1, <2>2
  <2> QED BY <1>f, <1>m, <1>n, <2>1, <2>2, <2>3 DEF EngineWork, WkMoved
<1> QED BY <1>1, <1>2, <1>3, <1>4, <1>5, <1>6, <1>7, <1>8, <1>9, <1>10 DEF EngineStep

\* A worker that takes its job one step further around the engine.
LEMMA WorkerRecapMoves ==
  ASSUME TypeInv, TypeInv', WorkerRecap, wk'.job = wk.job,
         wk'.rec.kind = wk.rec.kind, wk'.rec.sess = wk.rec.sess, wk'.rec.target = wk.rec.target,
         running'.cancel = running.cancel, wk.rec.kind = "Recap" => RecapSteady(S),
         wk'.pc \in DonePcs =>
           wk.pc \in DonePcs \/ (wk.pc \in ActivePcs \ {"fail"} /\ running.cancel = TRUE),
         wk'.pc \in ActivePcs \ {"fail"} => wk.pc \in ActivePcs \ {"fail"},
         wk'.pc \notin {"prepare", "apply", "upload"}
  PROVE  WorkerRecap'
<1> SUFFICES ASSUME wk.rec.kind = "Recap" PROVE WorkerRecap'
  BY DEF WorkerRecap
<1>1. PICK x \in Sessions, t \in Nat : x = S /\ t = wk.rec.target
  BY Places, Numbers DEF S, Numeric
<1>2. PICK y : y = wk.job
  OBVIOUS
<1>3. RecapHeld(x, t, y) => RecapHeld(x, t, y)'
  BY <1>1, RecapStaysHeld
<1>4. /\ RecapHeld(x, t, y)' => RecapHeld(S, wk.rec.target, wk.job)'
      /\ RecapHeld(S, wk.rec.target, wk.job) => RecapHeld(x, t, y)
  BY <1>1, <1>2 DEF RecapHeld, S
<1> QED BY <1>3, <1>4 DEF WorkerRecap

\* What the steps around the engine have in common: one file is rewritten, the
\* one of the job in hand, and clients only stop waiting.
JobWork ==
  /\ UNCHANGED sess /\ gate'.op = "free" /\ wk.pc # "idle"
  /\ \A x \in Sessions : client'[x] = client[x] \/ client'[x].pc \in {"none", "resuming", "polling"}
  /\ wk'.pc \in {"recovering", "deferred", "enter", "ok", "fail", "convert", "end", "notify", "idle"}
  /\ \A j \in JobIds \ {wk.job} : jobs'[j] = jobs[j]
  /\ jobs'[wk.job].kind = jobs[wk.job].kind /\ jobs'[wk.job].sess = jobs[wk.job].sess
  /\ jobs'[wk.job].target = jobs[wk.job].target
  /\ jobs[wk.job].status = "Succeeded" => jobs'[wk.job].status = "Succeeded"
  /\ IsFinalize /\ wk.pc \in DonePcs =>
       \/ jobs'[wk.job].status = "Succeeded"
       \/ wk'.pc \in DonePcs /\ wk'.job = wk.job /\ IsFinalize'

\* Work on the worker's own job file leaves every session as it was.
LEMMA JobWorkCycle ==
  ASSUME BaseInv, CycleInv, JobWork
  PROVE  SessionsOk' /\ Closing'
<1> USE DEF BaseInv
<1>1. wk.job \in JobIds
  BY Places DEF JobWork
<1>2. \A j \in JobIds : \A x : Unresolved(j, x)' => Unresolved(j, x)
  BY <1>1 DEF Unresolved, JobWork
<1>3. ASSUME NEW x \in Sessions PROVE SessionOk(x)'
  <2>1. SessionOk(x)
    BY DEF CycleInv, SessionsOk
  <2>2. Settled(x) => Settled(x)'
    BY <1>2 DEF Settled
  <2>3. sess'[x].status = "Closed" =>
          \A j \in JobIds : Unresolved(j, x)' => j = wk'.job /\ IsFinalize' /\ wk'.pc \in DonePcs
    <3> SUFFICES ASSUME sess[x].status = "Closed", NEW j \in JobIds, Unresolved(j, x)'
                 PROVE  j = wk'.job /\ IsFinalize' /\ wk'.pc \in DonePcs
      BY DEF JobWork
    <3>1. j = wk.job /\ IsFinalize /\ wk.pc \in DonePcs
      BY <1>2, <2>1 DEF SessionOk
    <3> QED BY <3>1 DEF JobWork, Unresolved
  <2> QED BY <1>2, <2>1, <2>2, <2>3 DEF SessionOk, JobWork
<1>4. Closing'
  BY DEF CycleInv, Closing, ClosedIsRecapped, JobWork
<1> QED BY <1>3, <1>4 DEF SessionsOk

\* And settles no Recap.
LEMMA JobWorkSteady ==
  ASSUME BaseInv, TypeInv', CycleInv, JobWork,
         jobs'[wk.job].kind = "Recap" /\ jobs'[wk.job].status = "Succeeded" =>
           jobs[wk.job].status = "Succeeded"
  PROVE  /\ \A x \in Sessions : RecapSteady(x)
         /\ StoredRecaps'
<1> USE DEF BaseInv
<1>1. \A x \in Sessions : RecapSteady(x)
  BY Numbers DEF RecapSteady, JobWork, Numeric
<1> QED BY <1>1, StoredStay DEF CycleInv

\* The worker goes on with its own copy of the record, which it has written.
LEMMA WritesOwnCopy ==
  ASSUME Undisturbed, BaseInv, TypeInv', CycleInv,
         publish_running \/ charge_attempt \/ defer_job \/ write_failure
  PROVE  CycleInv'
<1> USE DEF BaseInv
<1>a. /\ wk.pc \in {"picked", "recovering", "fail"} /\ gate.op = "free" /\ UNCHANGED <<sess, gate, running, client>>
  BY DEF Undisturbed, Patient, publish_running, charge_attempt, defer_job, write_failure, WkAt, Interleaved
<1>b. /\ S \in Sessions /\ wk.job \in JobIds /\ wk.rec.status # "Succeeded" /\ wk.rec.kind # "None"
      /\ wk \in Worker /\ wk.rec \in SupervisorJob /\ jobs \in [JobIds -> SupervisorJob]
  BY <1>a, Places DEF PreemptInv, WorkerKind, TypeInv, TypeOK, Worker, RangeInv, Targets
<1>c. wk.pc \in ActivePcs /\ jobs[wk.job] = wk.rec
  BY <1>a DEF CycleInv, WorkerCopy, ActivePcs
<1>d. IsFinalize => wk.rec.status \in {"Queued", "Running"} /\ sess[S].status = "Finalizing"
  BY <1>c DEF CycleInv, WorkerCopy
<1>1. PICK rec : /\ rec.kind = wk.rec.kind /\ rec.sess = wk.rec.sess /\ rec.target = wk.rec.target
                 /\ rec.status # "Succeeded" /\ Written(wk.job, rec) /\ wk'.job = wk.job
                 /\ \/ /\ wk'.pc \in {"recovering", "enter", "deferred"} /\ wk'.rec = rec
                       /\ wk'.pc # "deferred" => rec.status \in {"Running", wk.rec.status}
                       /\ wk.pc # "fail"
                    \/ wk'.pc \in {"end", "notify"} /\ wk'.rec = wk.rec
  <2>1. /\ \A st : LET r == [wk.rec EXCEPT !.status = st] IN
             /\ r.kind = wk.rec.kind /\ r.sess = wk.rec.sess /\ r.target = wk.rec.target /\ r.status = st
        /\ LET r == [wk.rec EXCEPT !.att = @ + 1] IN
             /\ r.kind = wk.rec.kind /\ r.sess = wk.rec.sess /\ r.target = wk.rec.target
             /\ r.status = wk.rec.status
        /\ LET r == apply_job_attempt_failure(wk.rec) IN
             /\ r.kind = wk.rec.kind /\ r.sess = wk.rec.sess /\ r.target = wk.rec.target
             /\ r.status \in {"Queued", "Failed"}
    BY <1>b DEF SupervisorJob, apply_job_attempt_failure
  <2>2. \A pc, r : LET w == [wk EXCEPT !.pc = pc, !.rec = r] IN
          w.pc = pc /\ w.rec = r /\ w.job = wk.job
    BY <1>b DEF Worker
  <2>3. CASE publish_running
    <3> DEFINE r == [wk.rec EXCEPT !.status = "Running"]
    <3>1. /\ r.kind = wk.rec.kind /\ r.sess = wk.rec.sess /\ r.target = wk.rec.target
          /\ r.status \in {"Running"}
      BY <2>1
    <3>2. WriteJob(wk.job, r) /\ wk' = [wk EXCEPT !.pc = "recovering", !.rec = r] /\ wk.pc # "fail"
      BY <2>3 DEF publish_running, WkAt
    <3> HIDE DEF r
    <3>3. Written(wk.job, r) /\ wk'.pc = "recovering" /\ wk'.rec = r /\ wk'.job = wk.job
      BY <2>2, <3>2, WriteJobDoes
    <3> QED BY <1>b, <3>1, <3>2, <3>3
  <2>4. CASE charge_attempt
    <3> DEFINE r == [wk.rec EXCEPT !.att = @ + 1]
    <3>1. /\ r.kind = wk.rec.kind /\ r.sess = wk.rec.sess /\ r.target = wk.rec.target
          /\ r.status \in {wk.rec.status}
      BY <2>1
    <3>2. WriteJob(wk.job, r) /\ wk' = [wk EXCEPT !.pc = "enter", !.rec = r] /\ wk.pc # "fail"
      BY <2>4 DEF charge_attempt, WkAt
    <3> HIDE DEF r
    <3>3. Written(wk.job, r) /\ wk'.pc = "enter" /\ wk'.rec = r /\ wk'.job = wk.job
      BY <2>2, <3>2, WriteJobDoes
    <3> QED BY <1>b, <3>1, <3>2, <3>3
  <2>5. CASE defer_job
    <3> DEFINE r == [wk.rec EXCEPT !.status = "Queued"]
    <3>1. /\ r.kind = wk.rec.kind /\ r.sess = wk.rec.sess /\ r.target = wk.rec.target
          /\ r.status \in {"Queued"}
      BY <2>1
    <3>2. WriteJob(wk.job, r) /\ wk' = [wk EXCEPT !.pc = "deferred", !.rec = r] /\ wk.pc # "fail"
      BY <2>5 DEF defer_job, WkAt
    <3> HIDE DEF r
    <3>3. Written(wk.job, r) /\ wk'.pc = "deferred" /\ wk'.rec = r /\ wk'.job = wk.job
      BY <2>2, <3>2, WriteJobDoes
    <3> QED BY <1>b, <3>1, <3>2, <3>3
  <2>6. CASE write_failure
    BY <1>a, <1>b, <2>1, <2>6, WriteJobDoes, WkGotoDoes DEF write_failure, WkAt, WkMoved, WkKeeps
  <2> QED BY <2>3, <2>4, <2>5, <2>6
<1>2. /\ jobs'[wk.job] = rec /\ \A j \in JobIds \ {wk.job} : jobs'[j] = jobs[j]
  BY <1>b, <1>1 DEF Written
<1>3. JobWork
  BY <1>a, <1>b, <1>c, <1>1, <1>2 DEF JobWork, DonePcs
<1>4. (\A x \in Sessions : RecapSteady(x)) /\ StoredRecaps'
  BY <1>1, <1>2, <1>3, JobWorkSteady
<1>5. SessionsOk' /\ Closing'
  BY <1>3, JobWorkCycle
<1>6. S' = S /\ IsFinalize' = IsFinalize
  BY <1>1 DEF S, IsFinalize
<1>7. WorkerCopy'
  BY <1>a, <1>b, <1>d, <1>1, <1>2, <1>6 DEF WorkerCopy, ActivePcs, DonePcs, LockPcs
<1>8. WorkerRecap'
  <2>1. /\ wk'.pc \notin DonePcs /\ wk'.pc \notin {"prepare", "apply", "upload"}
        /\ wk'.pc \in ActivePcs \ {"fail"} => wk.pc \in ActivePcs \ {"fail"}
        /\ wk'.rec.kind = wk.rec.kind /\ wk'.rec.sess = wk.rec.sess
        /\ wk'.rec.target = wk.rec.target
    BY <1>a, <1>1 DEF ActivePcs, DonePcs, LockPcs
  <2> QED BY <1>a, <1>b, <1>1, <1>4, <2>1, WorkerRecapMoves DEF CycleInv
<1> QED BY <1>4, <1>5, <1>7, <1>8 DEF CycleInv

\* The worker reports, or lets go of its job.
LEMMA WorkerReports ==
  ASSUME Undisturbed, BaseInv, TypeInv', CycleInv,
         report_deferred \/ finish_attempt \/ report_failure \/ end_job
  PROVE  CycleInv'
<1> USE DEF BaseInv
<1>a. UNCHANGED <<sess, gate, jobs>> /\ gate.op = "free"
  <2>1. CASE report_deferred \/ finish_attempt \/ report_failure
    BY <2>1 DEF Undisturbed, Patient, report_deferred, finish_attempt, report_failure, WkAt, Interleaved
  <2>2. CASE end_job
    BY <2>2 DEF end_job, CycleInv, WorkerCopy
  <2> QED BY <2>1, <2>2
<1>b. running \in RunningJob /\ (running.phase = "CancelRequested" => running.cancel = TRUE)
  BY DEF TypeInv, TypeOK, RangeInv, Control
<1>t. \A pc : WkGoto(pc) => WkMoved(pc)
  BY WkGotoDoes
<1>1. \/ /\ wk.pc \in {"deferred", "notify", "end"} /\ wk'.pc \in {"end", "idle"}
      \/ /\ wk.pc \in {"completed", "failed", "preempted"} /\ WkKeeps
         /\ wk.pc = "preempted" => wk'.pc = "convert"
         /\ wk.pc = "completed" => wk'.pc = "ok"
         /\ wk.pc = "failed" => \/ wk'.pc = "fail"
                                \/ wk'.pc = "ok" /\ ~IsFinalize /\ running.cancel = TRUE
         /\ running'.cancel = running.cancel
  <2>1. CASE report_deferred \/ report_failure
    BY <1>t, <2>1 DEF report_deferred, report_failure, WkAt, WkMoved
  <2>2. CASE end_job
    BY <2>2 DEF end_job, CycleInv, WorkerCopy, IdleWorker
  <2>3. CASE finish_attempt
    <3>1. /\ wk.pc \in {"completed", "failed", "preempted"}
          /\ wk.pc = "preempted" => WkMoved("convert")
          /\ wk.pc = "completed" => WkMoved("ok")
          /\ wk.pc = "failed" => WkMoved("fail") \/ (WkMoved("ok") /\ ~IsFinalize /\ running.cancel = TRUE)
      BY <1>b, <1>t, <2>3 DEF finish_attempt, WkAt, CancelRequested
    <3>2. running'.cancel = running.cancel
      <4>1. UNCHANGED running \/ \E b : running' = [finish(running) EXCEPT !.sent = b]
        BY <2>3 DEF finish_attempt
      <4>2. finish(running).cancel = running.cancel /\ finish(running) \in RunningJob
        BY <1>b, ControlDoes, ControlType
      <4> QED BY <4>1, <4>2 DEF RunningJob
    <3> QED BY <3>1, <3>2 DEF WkMoved
  <2> QED BY <2>1, <2>2, <2>3
<1>2. \A x \in Sessions : client'[x] = client[x] \/ client'[x].pc \in {"none", "resuming", "polling"}
  <2>1. UNCHANGED client \/ \E c : Answered(c) /\ c.pc \in {"none", "resuming", "polling"}
    <3>1. CASE report_deferred \/ report_failure \/ end_job
      BY <3>1, DeliverDoes DEF report_deferred, report_failure, end_job, At
    <3>2. CASE finish_attempt
      BY <3>2, DeliverDoes DEF finish_attempt, Polling
    <3> QED BY <3>1, <3>2
  <2> QED BY <2>1 DEF Answered
<1>k. WkKeeps => S' = S /\ IsFinalize' = IsFinalize /\ wk'.job = wk.job /\ wk'.rec = wk.rec
  BY DEF WkKeeps, S, IsFinalize
<1>3. JobWork
  BY <1>a, <1>k, <1>1, <1>2 DEF JobWork, DonePcs
<1>4. SessionsOk' /\ Closing'
  BY <1>3, JobWorkCycle
<1>5. (\A x \in Sessions : RecapSteady(x)) /\ StoredRecaps'
  BY <1>a, <1>3, JobWorkSteady
<1>6. WorkerCopy' /\ WorkerRecap'
  <2>1. CASE wk'.pc \in {"end", "idle"}
    BY <1>a, <2>1 DEF WorkerCopy, WorkerRecap, ActivePcs, DonePcs, LockPcs
  <2>2. CASE /\ wk.pc \in {"completed", "failed", "preempted"} /\ WkKeeps
             /\ wk.pc = "preempted" => wk'.pc = "convert"
             /\ wk.pc = "completed" => wk'.pc = "ok"
             /\ wk.pc = "failed" => \/ wk'.pc = "fail"
                                    \/ wk'.pc = "ok" /\ ~IsFinalize /\ running.cancel = TRUE
             /\ running'.cancel = running.cancel
    <3>1. WorkerCopy'
      BY <1>a, <1>k, <2>2 DEF CycleInv, WorkerCopy, ActivePcs, DonePcs, LockPcs
    <3>2. wk.rec.kind = "Recap" => S \in Sessions
      BY Places DEF S
    <3>3. CASE ~(wk.pc = "failed" /\ IsFinalize)
      <4>1. /\ wk'.pc \in DonePcs => wk.pc \in DonePcs \/ (wk.pc \in ActivePcs \ {"fail"} /\ running.cancel = TRUE)
            /\ wk'.pc \in ActivePcs \ {"fail"} => wk.pc \in ActivePcs \ {"fail"}
            /\ wk'.pc \notin {"prepare", "apply", "upload"}
        BY <2>2 DEF ActivePcs, DonePcs, LockPcs
      <4>2. WorkerRecap'
        BY <1>k, <1>5, <2>2, <3>2, <4>1, WorkerRecapMoves DEF CycleInv
      <4> QED BY <3>1, <4>2
    <3>4. CASE IsFinalize
      BY <1>k, <2>2, <3>1, <3>4 DEF WorkerRecap, IsFinalize
    <3> QED BY <3>3, <3>4
  <2> QED BY <1>1, <2>1, <2>2
<1> QED BY <1>4, <1>5, <1>6 DEF CycleInv

\* The job is done, and its range is held without it.
LEMMA WriteSucceededCycle ==
  ASSUME Undisturbed, BaseInv, TypeInv', CycleInv, write_succeeded
  PROVE  CycleInv'
<1> USE DEF BaseInv
<1>a. wk.pc = "ok" /\ gate.op = "free" /\ UNCHANGED <<sess, gate, running, client>>
  BY DEF Undisturbed, Patient, write_succeeded, WkAt, Interleaved
<1>b. /\ S \in Sessions /\ wk.job \in JobIds /\ wk.rec.kind # "None"
      /\ wk.rec \in SupervisorJob /\ jobs \in [JobIds -> SupervisorJob]
      /\ jobs[wk.job].sess = S
  BY <1>a, Places DEF TypeInv, TypeOK, Worker, RangeInv, Targets
<1>c. /\ IsFinalize => jobs[wk.job].kind = "Finalize"
      /\ ~IsFinalize => jobs[wk.job] = wk.rec /\ wk.rec.kind = "Recap"
  BY <1>a, <1>b DEF CycleInv, WorkerCopy, DonePcs, SupervisorJob, IsFinalize
<1>1. PICK rec : /\ rec.kind = wk.rec.kind /\ rec.sess = wk.rec.sess /\ rec.target = wk.rec.target
                 /\ rec.status = "Succeeded" /\ Written(wk.job, rec) /\ WkMoved("end")
  <2> DEFINE r == [wk.rec EXCEPT !.status = "Succeeded"]
  <2>1. /\ r.kind = wk.rec.kind /\ r.sess = wk.rec.sess /\ r.target = wk.rec.target
        /\ r.status = "Succeeded"
    BY <1>b DEF SupervisorJob
  <2>2. WriteJob(wk.job, r) /\ WkGoto("end")
    BY DEF write_succeeded
  <2> HIDE DEF r
  <2> QED BY <2>1, <2>2, WriteJobDoes, WkGotoDoes
<1>2. /\ jobs'[wk.job] = rec /\ \A j \in JobIds \ {wk.job} : jobs'[j] = jobs[j]
  BY <1>b, <1>1 DEF Written
<1>3. WorkerCopy' /\ WorkerRecap' /\ wk'.pc = "end"
  BY <1>a, <1>1 DEF WorkerCopy, WorkerRecap, WkMoved, ActivePcs, DonePcs, LockPcs
<1>n. /\ \A x \in Sessions : sess[x].recapped \in Nat
      /\ \A j \in JobIds : jobs[j].target \in Nat
  BY Numbers DEF Numeric
<1>4. CASE ~IsFinalize
  <2>1. JobWork
    <3>1. wk.pc # "idle" /\ gate'.op = "free"
      BY <1>a
    <3>2. /\ jobs'[wk.job].kind = jobs[wk.job].kind /\ jobs'[wk.job].sess = jobs[wk.job].sess
          /\ jobs'[wk.job].target = jobs[wk.job].target /\ jobs'[wk.job].status = "Succeeded"
      BY <1>c, <1>1, <1>2, <1>4
    <3> QED BY <1>a, <1>2, <1>3, <1>4, <3>1, <3>2 DEF JobWork
  <2>2. RecapHeld(S, wk.rec.target, wk.job)
    BY <1>a, <1>c, <1>4 DEF CycleInv, WorkerRecap, DonePcs
  <2>3. StoredRecaps'
    <3> SUFFICES ASSUME NEW j \in JobIds, jobs'[j].kind = "Recap", jobs'[j].status = "Succeeded"
                 PROVE  RecapHeld(jobs[j].sess, jobs[j].target, j)'
      BY DEF StoredRecaps
    <3>1. CASE j = wk.job
      BY <1>a, <1>1, <1>2, <2>2, <3>1 DEF RecapHeld, S
    <3>2. CASE j # wk.job
      <4>1. jobs'[j] = jobs[j] /\ RecapHeld(jobs[j].sess, jobs[j].target, j)
        BY <1>2, <3>2 DEF CycleInv, StoredRecaps
      <4>2. PICK x \in Sessions, t \in Nat, u \in Nat : x = jobs[j].sess /\ t = jobs[j].target /\ u = wk.rec.target
        BY <1>b, <1>c, <1>4, <1>n, <4>1, Places
      <4>3. CASE sess[x].status # "Open" \/ sess[x].recapped >= t
        BY <1>a, <4>1, <4>2, <4>3 DEF RecapHeld
      <4>4. CASE sess[x].status = "Open" /\ ~(sess[x].recapped >= t)
        <5>1. PICK k \in JobIds \ {j} : /\ jobs[k].kind = "Recap" /\ jobs[k].sess = x
                                        /\ jobs[k].status # "Succeeded" /\ jobs[k].target >= t
          BY <4>1, <4>2, <4>4 DEF RecapHeld
        <5>2. CASE k # wk.job
          BY <1>2, <4>1, <4>2, <5>1, <5>2 DEF RecapHeld
        <5>3. CASE k = wk.job
          <6>1. u >= t /\ S = x
            BY <1>b, <1>c, <1>4, <4>2, <5>1, <5>3
          <6>2. x \in Sessions /\ ~(sess[x].recapped >= u)
            BY <1>b, <1>n, <4>2, <4>4, <6>1
          <6>3. PICK m \in JobIds \ {wk.job} : /\ jobs[m].kind = "Recap" /\ jobs[m].sess = x
                                            /\ jobs[m].status # "Succeeded" /\ jobs[m].target >= u
            BY <2>2, <4>2, <4>4, <6>1, <6>2 DEF RecapHeld
          <6>4. m # j /\ jobs'[m] = jobs[m] /\ jobs[m].target >= t
            BY <1>2, <1>n, <4>1, <4>2, <6>1, <6>3
          <6> QED BY <4>1, <4>2, <6>3, <6>4 DEF RecapHeld
        <5> QED BY <5>2, <5>3
      <4> QED BY <4>3, <4>4
    <3> QED BY <3>1, <3>2
  <2> QED BY <1>3, <2>1, <2>3, JobWorkCycle DEF CycleInv
<1>5. CASE IsFinalize
  <2>1. \A j \in JobIds : \A x : Unresolved(j, x)' => Unresolved(j, x) /\ j # wk.job
    BY <1>2, <1>1 DEF Unresolved
  <2>2. ASSUME NEW x \in Sessions PROVE SessionOk(x)'
    <3>1. SessionOk(x)
      BY DEF CycleInv, SessionsOk
    <3>2. Settled(x) => Settled(x)'
      BY <2>1 DEF Settled
    <3> QED BY <1>a, <2>1, <3>1, <3>2 DEF SessionOk
  <2>3. Closing'
    BY <1>a, <1>3 DEF CycleInv, Closing, ClosedIsRecapped
  <2>4. \A x \in Sessions : RecapSteady(x)
    BY <1>a, <1>c, <1>n, <1>1, <1>2, <1>5 DEF RecapSteady, IsFinalize
  <2> QED BY <1>3, <2>2, <2>3, <2>4, StoredStay DEF CycleInv, SessionsOk
<1> QED BY <1>4, <1>5

\* The preempted worker converts its job, and then opens the session or takes
\* the Finalize back.
LEMMA ConversionCycle ==
  ASSUME Undisturbed, BaseInv, TypeInv', CycleInv,
         convert_finalize_job \/ open_converted_session
  PROVE  CycleInv'
<1> USE DEF BaseInv
<1>a. wk.pc = "convert"
  BY DEF convert_finalize_job, open_converted_session, TypeInv, JobsInv
<1>b. /\ S \in Sessions /\ wk.job \in JobIds /\ wk \in Worker
      /\ jobs[wk.job].sess = S /\ wk.job # 0
  BY <1>a, Places, SupervisorAssumption DEF TypeInv, TypeOK, RangeInv, Targets, JobIds
<1>c. IsFinalize /\ Held
  BY <1>a DEF PreemptInv, Preempted, Cancelling, CancelPcs
<1>d. /\ sess[S].status = "Finalizing" /\ wk.rec.status \in {"Queued", "Running"}
      /\ wk.rec.kind = "Finalize" /\ wk.rec.sess = S
      /\ running.target = sess[S].msgs
      /\ client[S].pc \in {"none", "resuming", "awaiting", "polling"}
      /\ SessionOk(S)
  BY <1>a, <1>b, <1>c DEF CycleInv, WorkerCopy, ActivePcs, IsFinalize, S, Held, SessionsOk
<1>e. DonePcs = {"completed", "ok"} /\ "convert" \in ActivePcs /\ "enter" \in ActivePcs
      /\ {"convert", "enter"} \cap DonePcs = {} /\ "end" \notin ActivePcs \cup DonePcs
  BY DEF ActivePcs, DonePcs, LockPcs
<1>n. /\ \A x \in Sessions : sess[x].recapped \in Nat /\ sess[x].msgs \in Nat
      /\ \A j \in JobIds : jobs[j].target \in Nat
  BY Numbers DEF Numeric
<1>o. \A x \in Sessions : sess[x].status = "Closed" => Settled(x)
  BY <1>a, <1>e DEF CycleInv, SessionsOk, SessionOk, Settled
\* The other sessions, where only the file of this job changes.
<1>x. ASSUME NEW x \in Sessions, x # S, sess'[x] = sess[x], client'[x] = client[x],
             \A j \in JobIds \ {wk.job} : jobs'[j] = jobs[j], jobs'[wk.job].sess = S,
             gate'.op \in {"open", "wopen"} => gate'.sess = S
      PROVE  SessionOk(x)' /\ RecapSteady(x)
  <2>1. SessionOk(x)
    BY DEF CycleInv, SessionsOk
  <2>2. /\ \A j \in JobIds : Unresolved(j, x)' <=> Unresolved(j, x)
        /\ Settled(x)' <=> Settled(x)
    <3>1. \A j \in JobIds : Unresolved(j, x)' <=> Unresolved(j, x)
      BY <1>b, <1>x DEF Unresolved
    <3> QED BY <3>1 DEF Settled
  <2>3. SessionOk(x)'
    BY <1>o, <1>x, <2>1, <2>2 DEF SessionOk, Settled
  <2> QED BY <1>b, <1>n, <1>x, <2>3 DEF RecapSteady
<1>1. CASE convert_finalize_job
  <2>1. /\ UNCHANGED <<sess, running, wk, client>> /\ gate.op = "free"
        /\ gate'.op = "wopen" /\ gate'.sess = S
        /\ Written(wk.job, RecapJob(S, running.target))
    BY <1>1, WriteJobDoes DEF convert_finalize_job, FreeGate
  <2>2. /\ jobs'[wk.job].kind = "Recap" /\ jobs'[wk.job].sess = S
        /\ \A j \in JobIds \ {wk.job} : jobs'[j] = jobs[j]
    BY <1>b, <2>1 DEF Written, RecapJob
  <2>3. S' = S /\ IsFinalize' = IsFinalize
    BY <2>1 DEF S, IsFinalize
  <2>4. \A j \in JobIds : ~(jobs'[j].kind = "Finalize" /\ jobs'[j].sess = S /\ jobs'[j].status # "Succeeded")
    <3>1. Unresolved(wk.job, S)
      BY <2>1, <1>c DEF Held, unresolved_finalize_jobs, Unresolved
    <3>2. \A j \in JobIds : Unresolved(j, S) => j = wk.job
      BY <1>b, <1>d, <3>1 DEF SessionOk
    <3> QED BY <2>2, <3>2 DEF Unresolved
  <2>5. SessionsOk'
    <3> SUFFICES ASSUME NEW x \in Sessions PROVE SessionOk(x)'
      BY DEF SessionsOk
    <3>1. CASE x # S
      BY <1>x, <2>1, <2>2, <3>1
    <3>2. CASE x = S
      <4>1. Settled(x)'
        BY <2>4, <3>2 DEF Settled, Unresolved
      <4>2. sess'[x].status = "Finalizing" /\ client'[x].pc \notin {"live", "opened"}
            /\ client'[x].pc # "exiting"
        BY <1>d, <2>1, <3>2
      <4> QED BY <4>1, <4>2 DEF SessionOk, Settled
    <3> QED BY <3>1, <3>2
  <2>6. WorkerCopy'
    BY <1>a, <1>c, <1>d, <1>e, <2>1, <2>3 DEF WorkerCopy
  <2>7. Closing'
    BY <1>a, <2>1 DEF CycleInv, Closing, ClosedIsRecapped
  <2>8. StoredRecaps'
    <3>1. \A x \in Sessions : RecapSteady(x)
      BY <1>d, <1>x, <2>1, <2>2 DEF RecapSteady
    <3> QED BY <3>1, StoredStay DEF CycleInv
  <2>9. WorkerRecap'
    BY <1>c, <2>1 DEF WorkerRecap, IsFinalize
  <2> QED BY <2>5, <2>6, <2>7, <2>8, <2>9 DEF CycleInv
<1>2. CASE open_converted_session
  <2>1. /\ gate.op = "wopen" /\ gate' = FreeGate /\ gate'.op = "free"
        /\ gate.sess = S /\ jobs[wk.job] = RecapJob(S, running.target)
    BY <1>2 DEF open_converted_session, Release, FreeGate, GateInv, GateOpen
  <2>2. Settled(S)
    BY <1>d, <2>1 DEF SessionOk
  <2>3. CASE SetStatus(S, "Open") /\ Deliver(wk.job, At("opened")) /\ WkGoto("end") /\ UNCHANGED jobs
    <3>1. Restated(S, "Open") /\ WkMoved("end")
      BY <2>3, SetStatusDoes, WkGotoDoes
    <3>2. /\ \A x \in Sessions \ {S} : client'[x] = client[x]
          /\ client'[S].pc \in {"none", "resuming", "polling", "opened"}
      <4>1. ASSUME NEW x \in Sessions, client[x].pc = "awaiting", client[x].job = wk.job
            PROVE  x = S
        BY <1>b, <4>1 DEF RangeInv, Targets
      <4>2. \A x \in Sessions : client'[x] = IF client[x].pc = "awaiting" /\ client[x].job = wk.job
                                            THEN At("opened") ELSE client[x]
        BY <2>3 DEF Deliver
      <4>3. client[S].pc = "awaiting" => client[S].job = wk.job
        BY <1>b DEF AwaitInv, AwaitedJobIsRunning
      <4> QED BY <1>b, <1>d, <4>1, <4>2, <4>3 DEF At
    <3>3. SessionsOk'
      <4> SUFFICES ASSUME NEW x \in Sessions PROVE SessionOk(x)'
        BY DEF SessionsOk
      <4>1. CASE x # S
        BY <1>b, <1>x, <2>1, <2>3, <3>1, <3>2, <4>1 DEF Restated
      <4>2. CASE x = S
        <5>1. Settled(x)' /\ sess'[x].status = "Open"
          BY <1>b, <2>2, <2>3, <3>1, <4>2 DEF Settled, Unresolved, Restated
        <5> QED BY <2>1, <3>2, <4>2, <5>1 DEF SessionOk, Settled
      <4> QED BY <4>1, <4>2
    <3>4. WorkerCopy' /\ WorkerRecap'
      BY <1>e, <2>1, <3>1 DEF WorkerCopy, WorkerRecap, WkMoved, ActivePcs, DonePcs, LockPcs
    <3>5. Closing'
      <4>1. ClosedIsRecapped'
        BY <1>b, <3>1 DEF CycleInv, Closing, ClosedIsRecapped, Restated
      <4> QED BY <3>1, <4>1 DEF Closing, WkMoved
    <3>6. StoredRecaps'
      <4> SUFFICES ASSUME NEW j \in JobIds, jobs[j].kind = "Recap", jobs[j].status = "Succeeded"
                   PROVE  RecapHeld(jobs[j].sess, jobs[j].target, j)'
        BY <2>3 DEF StoredRecaps
      <4>1. PICK x \in Sessions, t \in Nat : x = jobs[j].sess /\ t = jobs[j].target
        BY <1>n, Places
      <4>2. t <= sess[x].msgs /\ RecapHeld(x, t, j)
        BY <4>1 DEF RangeInv, Targets, Within, CycleInv, StoredRecaps
      <4>3. RecapHeld(x, t, j)'
        <5>1. CASE x # S
          <6>1. RecapSteady(x)
            BY <1>b, <1>x, <2>1, <2>3, <3>1, <3>2, <5>1 DEF Restated
          <6> QED BY <4>2, <6>1, RecapStaysHeld
        <5>2. CASE x = S
          <6>1. /\ jobs'[wk.job].kind = "Recap" /\ jobs'[wk.job].sess = S
                /\ jobs'[wk.job].status = "Queued" /\ jobs'[wk.job].target = sess[S].msgs
            BY <1>d, <2>1, <2>3 DEF RecapJob
          <6>2. wk.job # j /\ jobs'[wk.job].target >= t
            BY <2>3, <4>2, <5>2, <6>1, <1>n
          <6> QED BY <1>b, <5>2, <6>1, <6>2 DEF RecapHeld
        <5> QED BY <5>1, <5>2
      <4> QED BY <2>3, <4>1, <4>3 DEF RecapHeld
    <3> QED BY <3>3, <3>4, <3>5, <3>6 DEF CycleInv
  <2>4. CASE /\ WriteJob(wk.job, wk.rec) /\ Deliver(wk.job, At("none"))
             /\ wk' = [wk EXCEPT !.pc = "enter", !.pre = FALSE] /\ UNCHANGED sess
    <3>1. /\ Written(wk.job, wk.rec) /\ Answered(At("none"))
          /\ wk'.pc = "enter" /\ wk'.rec = wk.rec /\ wk'.job = wk.job
      BY <1>b, <2>4, WriteJobDoes, DeliverDoes DEF Worker
    <3>2. S' = S /\ IsFinalize' = IsFinalize
      BY <3>1 DEF S, IsFinalize
    <3>3. /\ \A x \in Sessions : client'[x] = client[x] \/ client'[x].pc = "none"
          /\ client'[S].pc \in {"none", "resuming", "awaiting", "polling"}
      BY <1>b, <1>d, <3>1 DEF Answered, At
    <3>4. jobs'[wk.job] = wk.rec /\ \A j \in JobIds \ {wk.job} : jobs'[j] = jobs[j]
      BY <1>b, <3>1 DEF Written
    <3>5. SessionsOk'
      <4> SUFFICES ASSUME NEW x \in Sessions PROVE SessionOk(x)'
        BY DEF SessionsOk
      <4>1. CASE x # S
        <5>1. SessionOk(x)
          BY DEF CycleInv, SessionsOk
        <5>2. /\ \A j \in JobIds : Unresolved(j, x)' <=> Unresolved(j, x)
              /\ Settled(x)' <=> Settled(x)
          <6>1. \A j \in JobIds : Unresolved(j, x)' <=> Unresolved(j, x)
            BY <1>b, <1>d, <3>4, <4>1 DEF Unresolved
          <6> QED BY <6>1 DEF Settled
        <5> QED BY <1>o, <2>1, <2>4, <3>3, <5>1, <5>2 DEF SessionOk, Settled
      <4>2. CASE x = S
        <5>1. \A j \in JobIds : Unresolved(j, x)' => j = wk.job
          BY <2>2, <3>4, <4>2 DEF Settled, Unresolved
        <5> QED BY <1>d, <2>1, <2>4, <3>3, <4>2, <5>1 DEF SessionOk
      <4> QED BY <4>1, <4>2
    <3>6. WorkerCopy' /\ WorkerRecap'
      BY <1>c, <1>d, <1>e, <2>1, <2>4, <3>1, <3>2, <3>4 DEF WorkerCopy, WorkerRecap, IsFinalize
    <3>7. Closing'
      BY <2>4, <3>1 DEF CycleInv, Closing, ClosedIsRecapped
    <3>8. StoredRecaps'
      <4>1. \A x \in Sessions : RecapSteady(x)
        BY <1>b, <1>d, <1>n, <2>4, <3>4 DEF RecapSteady
      <4> QED BY <4>1, StoredStay DEF CycleInv
    <3> QED BY <3>5, <3>6, <3>7, <3>8 DEF CycleInv
  <2> QED BY <1>2, <2>3, <2>4 DEF open_converted_session, WriteError, Undisturbed
<1> QED BY <1>1, <1>2

\* The steps around the engine.
LEMMA JobStepCycle ==
  ASSUME Undisturbed, BaseInv, TypeInv', CycleInv, JobStep
  PROVE  CycleInv'
<1>1. ~job_write_fails
  BY DEF job_write_fails, WriteError, Undisturbed
<1> QED BY <1>1, WritesOwnCopy, WorkerReports, WriteSucceededCycle, ConversionCycle DEF JobStep

\* A worker that was idle takes a job; its session is Finalizing if it is a Finalize.
LEMMA PickCycle ==
  ASSUME BaseInv, TypeInv', CycleInv, pick_job
  PROVE  CycleInv'
<1> USE DEF BaseInv
<1>1. PICK j \in JobIds : /\ next_queued_job(j)
                          /\ wk' = [IdleWorker EXCEPT !.pc = "picked", !.job = j, !.rec = jobs[j]]
                          /\ running' = [NoRunning EXCEPT !.job = j]
  BY DEF pick_job
<1>2. /\ wk'.pc = "picked" /\ wk'.job = j /\ wk'.rec = jobs[j] /\ running'.cancel = FALSE
  BY <1>1 DEF IdleWorker, NoRunning
<1>3. jobs[j].kind # "None" /\ jobs[j].sess \in Sessions /\ jobs[j].status = "Queued"
  BY <1>1, Places DEF next_queued_job, Queued
<1>4. UNCHANGED <<sess, jobs, gate, client>> /\ gate.op = "free" /\ wk.pc = "idle"
  BY DEF pick_job
<1>5. \A x \in Sessions : sess[x].status \in {"Open", "Closed"} => Settled(x)
  BY <1>4 DEF CycleInv, SessionsOk, SessionOk, Settled, DonePcs
<1>6. /\ \A k : \A x : Unresolved(k, x)' <=> Unresolved(k, x)
      /\ \A x : Settled(x)' <=> Settled(x)
  BY <1>4 DEF Unresolved, Settled
<1>7. WorkerCopy'
  <2>1. jobs[j].kind = "Finalize" => sess[jobs[j].sess].status = "Finalizing"
    <3>1. sess[jobs[j].sess].status \in SessionStatus
      BY <1>3 DEF TypeInv, TypeOK, SessionMetadata
    <3>2. jobs[j].kind = "Finalize" => ~Settled(jobs[j].sess)
      BY <1>3 DEF Settled, Unresolved
    <3> QED BY <1>3, <1>5, <3>1, <3>2 DEF SessionStatus
  <2> QED BY <1>2, <1>3, <1>4, <2>1 DEF WorkerCopy, S, IsFinalize, DonePcs
<1>8. SessionsOk'
  BY <1>4, <1>5, <1>6 DEF CycleInv, SessionsOk, SessionOk, Settled
<1>9. Closing' /\ StoredRecaps' /\ WorkerRecap'
  <2>1. Closing' /\ WorkerRecap'
    BY <1>2, <1>4 DEF CycleInv, Closing, ClosedIsRecapped, WorkerRecap, DonePcs
  <2>2. \A x \in Sessions : RecapSteady(x)
    BY <1>4, Numbers DEF RecapSteady, Numeric
  <2> QED BY <2>1, <2>2, StoredStay DEF CycleInv
<1> QED BY <1>7, <1>8, <1>9 DEF CycleInv

\* A supervisor that starts requeues or settles what an earlier one left Running.
LEMMA ProcessStepCycle ==
  ASSUME Undisturbed, BaseInv, TypeInv', CycleInv, ProcessStep
  PROVE  CycleInv'
<1> USE DEF BaseInv
<1>1. CASE start
  <2>1. UNCHANGED <<sess, gate, running, wk, client>> /\ wk.pc = "idle" /\ gate.op = "free"
    BY <1>1 DEF start, GateInv, GateUp
  <2>2. \A j \in JobIds : /\ jobs'[j].kind = jobs[j].kind /\ jobs'[j].sess = jobs[j].sess
                          /\ jobs'[j].target = jobs[j].target
                          /\ jobs[j].status = "Succeeded" => jobs'[j].status = "Succeeded"
                          /\ jobs[j].kind = "Recap" /\ jobs[j].status # "Succeeded"
                             /\ jobs'[j].status = "Succeeded" =>
                               sess[jobs[j].sess].status # "Open"
    <3> SUFFICES ASSUME NEW j \in JobIds
                 PROVE  /\ jobs'[j].kind = jobs[j].kind /\ jobs'[j].sess = jobs[j].sess
                        /\ jobs'[j].target = jobs[j].target
                        /\ jobs[j].status = "Succeeded" => jobs'[j].status = "Succeeded"
                        /\ jobs[j].kind = "Recap" /\ jobs[j].status # "Succeeded"
                           /\ jobs'[j].status = "Succeeded" =>
                             sess[jobs[j].sess].status # "Open"
      OBVIOUS
    <3>1. jobs[j] \in SupervisorJob
      BY DEF TypeInv, TypeOK
    <3>2. \/ jobs'[j] = jobs[j]
          \/ /\ jobs[j].status = "Running"
             /\ jobs'[j] = recover_stale_running_job(jobs[j], sess[jobs[j].sess].status)
      BY <1>1 DEF start
    <3> QED BY <3>1, <3>2 DEF recover_stale_running_job, SupervisorJob
  <2>3. /\ \A j \in JobIds : \A x : Unresolved(j, x)' => Unresolved(j, x)
        /\ \A x : Settled(x) => Settled(x)'
    <3>1. \A j \in JobIds : \A x : Unresolved(j, x)' => Unresolved(j, x)
      BY <2>2 DEF Unresolved
    <3> QED BY <3>1 DEF Settled
  <2>4. WorkerCopy' /\ WorkerRecap'
    BY <2>1 DEF WorkerCopy, WorkerRecap, ActivePcs, DonePcs, LockPcs
  <2>5. SessionsOk'
    BY <2>1, <2>3 DEF CycleInv, SessionsOk, SessionOk, DonePcs
  <2>6. Closing'
    BY <2>1 DEF CycleInv, Closing, ClosedIsRecapped
  <2>7. \A x \in Sessions : RecapSteady(x)
    BY <2>1, <2>2, Numbers DEF RecapSteady, Numeric
  <2> QED BY <2>4, <2>5, <2>6, <2>7, StoredStay DEF CycleInv
<1>2. CASE begin_idle_shutdown_if_due \/ stop_requested \/ stopped
  <2>1. UNCHANGED <<sess, jobs, gate, running, wk, client>>
    BY <1>2 DEF begin_idle_shutdown_if_due, stop_requested, stopped
  <2> QED BY <2>1 DEF CycleInv, WorkerCopy, SessionsOk, SessionOk, Settled, Unresolved, Closing,
             ClosedIsRecapped, StoredRecaps, WorkerRecap, RecapHeld, S, IsFinalize
<1> QED BY <1>1, <1>2 DEF ProcessStep, crash, Undisturbed

\* The invariant holds initially.
LEMMA InitCycle == Init => CycleInv
<1> SUFFICES ASSUME Init PROVE CycleInv
  OBVIOUS
<1>1. /\ wk.pc = "idle" /\ gate.op = "free" /\ \A j \in JobIds : jobs[j].kind = "None"
      /\ \A s \in Sessions : sess[s].status = "Open" /\ client[s].pc = "live"
  BY DEF Init, IdleWorker, FreeGate, NoJob, NewMeta, At
<1>2. WorkerCopy /\ WorkerRecap
  BY <1>1 DEF WorkerCopy, WorkerRecap, ActivePcs, DonePcs, LockPcs
<1>3. SessionsOk
  BY <1>1 DEF SessionsOk, SessionOk, Settled, Unresolved
<1>4. Closing /\ StoredRecaps
  BY <1>1 DEF Closing, ClosedIsRecapped, StoredRecaps
<1> QED BY <1>2, <1>3, <1>4 DEF CycleInv

\* Every step.
LEMMA NextCycle ==
  ASSUME Undisturbed, BaseInv, TypeInv', RangeInv', CycleInv, [Next]_vars
  PROVE  CycleInv'
<1>1. CASE UNCHANGED vars
  BY <1>1 DEF vars, CycleInv, WorkerCopy, SessionsOk, SessionOk, Settled, Unresolved, Closing,
              ClosedIsRecapped, StoredRecaps, WorkerRecap, RecapHeld, S, IsFinalize
<1>2. CASE WorkerStep
  <2>1. EngineStep \/ JobStep
    BY <1>2 DEF WorkerStep, EngineStep, JobStep
  <2> QED BY <2>1, EngineStepCycle, JobStepCycle
<1> QED BY <1>1, <1>2, ClientStepCycle, RequestStepCycle, HandlerStepCycle, PickCycle,
           ProcessStepCycle DEF Next

\* The inductive invariant of the cycles of a session.
LEMMA CycleInvariant ==
  ASSUME Undisturbed
  PROVE  Spec => []CycleInv
<1>1. Patient
  BY DEF Undisturbed
<1>2. TypeInv /\ AwaitInv /\ RangeInv /\ GateInv /\ PreemptInv /\ TypeInv' /\ RangeInv'
        /\ CycleInv /\ [Next]_vars => CycleInv'
  BY NextCycle DEF BaseInv
<1>3. Spec => [](GateInv /\ PreemptInv)
  BY <1>1, PreemptInvariant
<1> QED BY <1>2, <1>3, InitCycle, TypeInvariant, AwaitInvariant, RangeInvariant, PTL DEF Spec

\* A session never has two Finalize jobs that have not succeeded, whatever the handlers,
\* the worker's conversion and its rollback do to them, as long as the supervisor is not
\* killed, its job files can be written and no TUI finalizes on its own.
THEOREM FinalizeIsUnique ==
  ASSUME Undisturbed
  PROVE  Spec => []OneUnresolvedFinalize
<1>1. CycleInv => OneUnresolvedFinalize
  <2> SUFFICES ASSUME CycleInv, NEW s \in Sessions
               PROVE  Cardinality(unresolved_finalize_jobs(s)) <= 1
    BY DEF OneUnresolvedFinalize
  <2> DEFINE U == unresolved_finalize_jobs(s)
  <2>1. \A i, j \in U : i = j
    BY SettledIsEmpty DEF CycleInv, SessionsOk, SessionOk
  <2> HIDE DEF U
  <2>2. U = {} \/ \E x : U = {x}
    BY <2>1
  <2>3. Cardinality(U) \in {0, 1}
    BY <2>2, FS_EmptySet, FS_Singleton
  <2> QED BY <2>3 DEF U
<1> QED BY <1>1, CycleInvariant, PTL

\* The session a TUI works in is Open: no Finalize of an earlier cycle, queued,
\* requeued or in the worker's hands, takes it away.
THEOREM LiveStaysOpen ==
  ASSUME Undisturbed
  PROVE  Spec => []LiveSessionIsOpen
<1>1. CycleInv => LiveSessionIsOpen
  BY DEF CycleInv, SessionsOk, SessionOk, LiveSessionIsOpen
<1> QED BY <1>1, CycleInvariant, PTL

\* A Closed session has every message recapped, whoever closed it, as long as
\* the supervisor is not killed: after a crash, a Finalize that the worker has
\* in hand may be settled and the session reopened under it.
THEOREM ClosedWithAllRecapped ==
  ASSUME Undisturbed
  PROVE  Spec => []ClosedIsRecapped
<1>1. CycleInv => ClosedIsRecapped
  BY DEF CycleInv, Closing
<1> QED BY <1>1, CycleInvariant, PTL

\* A Recap is only settled when its range is recapped, or another Recap holds
\* it, or its session has not been opened again.
THEOREM SettledRecapsAreKept ==
  ASSUME Undisturbed
  PROVE  Spec => []RecapWorkKept
<1>1. CycleInv => RecapWorkKept
  BY DEF CycleInv, StoredRecaps, RecapHeld, RecapWorkKept
<1> QED BY <1>1, CycleInvariant, PTL

=============================================================================
