----------------------------- MODULE Delegation -----------------------------
(***************************************************************************)
(* The subagents of one session: src/src/delegation/runner.rs (the queue,  *)
(* the pump, the tasks), the status each one keeps on disk (store.rs), the *)
(* tools that create and await them (tool/delegation.rs) and the session   *)
(* that closes, crashes and is resumed around them.                        *)
(*                                                                         *)
(* Metadata files are shared and durable; queue, tasks, registrations and  *)
(* the waiter live in the memory of the process that holds the session's   *)
(* runtime lease, and its end takes them.  The supervisor may finalize the *)
(* session from a process of its own: it reaches the files and nothing     *)
(* else, since its runner is an empty one.  Reading and writing one        *)
(* delegation's files is one step where the file lock of that delegation   *)
(* is held to the end, except for `complete`, whose metadata is visible    *)
(* before its events are appended, and `create`, which takes no lock.      *)
(***************************************************************************)
EXTENDS Naturals, Sequences, FiniteSets, SequencesExt

CONSTANTS
  MaxDelegations,  \* bound on the subagents created, over all resumptions
  None,
  MaxConcurrent,   \* DelegationRunnerConfig::max_concurrent
  MaxResumes,      \* bound on how often the session is opened again
  LateSweeps,      \* a resume overtakes the abandon that ends a supervisor's finalize
  MaxFaults        \* bound on crashes and failed writes

ASSUME ConcurrencyAssumption == MaxConcurrent \in Nat \ {0}
ASSUME BoundAssumption ==
  MaxDelegations \in Nat /\ MaxResumes \in Nat /\ MaxFaults \in Nat
ASSUME NoneAssumption == None \notin Nat
ASSUME SwitchAssumption == LateSweeps \in BOOLEAN

\* Ids are drawn until a fresh one is found: the n-th creation has id n.
Delegations == 1 .. MaxDelegations

VARIABLES
  status,      \* what delegation.yaml says; "dir" is a directory without it
  sess,        \* the status of the parent session
  lock,        \* the create_subagent call that holds session.lock, or None
  cancelled,   \* the registrations whose turn was cancelled
  reg,         \* where the registration task of a delegation stands
  queue,       \* RunnerState::queued
  running,     \* the keys of RunnerState::running
  pump,        \* the pump_queue call that holds pump_lock, and its candidate
  wanting,     \* the number of pump_queue calls that wait for pump_lock
  task,        \* where the task of a delegation stands
  result,      \* what that task is going to say of its execution
  checkpoint,  \* the file-read checkpoint of that task, none after a rollback
  aborted,     \* the tasks whose handle was aborted and that have not ended
  cleaner,     \* the abandon_unfinished_for_session call in progress
  remote,      \* the finalize the supervisor runs, in its own process
  waiter,      \* the wait_subagents call in progress
  news,        \* the activity revision moved since the waiter last looked
  up,          \* the process that runs the session is alive
  resumes, faults,
  broken,      \* history: delegations a store operation failed on
  outside,     \* history: delegations the supervisor abandoned in the open session
  swept        \* history: the runner was emptied since the session is not open

disk == <<status, sess>>
creation == <<lock, cancelled, reg>>
runner == <<queue, running, pump, wanting>>
tasks == <<task, result, checkpoint, aborted>>
watch == <<waiter, news>>
supervision == <<remote, outside, swept>>
world == <<up, resumes, faults, broken, supervision>>
vars == <<disk, creation, runner, tasks, cleaner, watch, world>>

Unfinished == {"queued", "running"}
Terminal == {"completed", "failed", "abandoned"}
is_terminal(d) == status[d] \in Terminal

\* A task that has not ended, whether or not its handle was aborted.
Working == {"begin", "execute", "complete", "record", "finish", "panic", "release"}

Idle == [pc |-> "idle", id |-> None]
NoCleaner ==
  [pc |-> "idle", kind |-> "soft", todo |-> {}, failed |-> FALSE, updated |-> FALSE]
NoRemote == [pc |-> "idle", todo |-> {}]
NoWaiter == [pc |-> "idle", ids |-> {}, until |-> "any"]
PumpLockFree == pump.pc = "idle" /\ cleaner.pc # "each"

Init ==
  /\ status = [d \in Delegations |-> "none"]
  /\ sess = "open"
  /\ lock = None
  /\ cancelled = {}
  /\ reg = [d \in Delegations |-> "none"]
  /\ queue = <<>>
  /\ running = {}
  /\ pump = Idle
  /\ wanting = 0
  /\ task = [d \in Delegations |-> "none"]
  /\ result = [d \in Delegations |-> "none"]
  /\ checkpoint = [d \in Delegations |-> "none"]
  /\ aborted = {}
  /\ cleaner = NoCleaner
  /\ remote = NoRemote
  /\ waiter = NoWaiter
  /\ news = FALSE
  /\ up = TRUE
  /\ resumes = 0
  /\ faults = 0
  /\ broken = {}
  /\ outside = {}
  /\ swept = FALSE

-----------------------------------------------------------------------------
(* Parts of steps. *)

\* Reading or writing the files of S fails, leaving them as the caller says.
Faulty(S) ==
  /\ faults < MaxFaults
  /\ faults' = faults + 1
  /\ broken' = broken \cup S

Fails(d) == Faulty({d}) /\ UNCHANGED <<up, resumes, supervision>>

\* What a listing of the session's delegations shows, and what it stumbles over: a
\* directory without metadata counts as a failure for the strict forms.
Active == {d \in Delegations : status[d] \in Unfinished}
HalfMade == \E d \in Delegations : status[d] = "dir"

\* DelegationStore::abandon: a terminal status is left alone and reported as
\* success.
Abandoned(d) ==
  [status EXCEPT ![d] = IF @ \in Unfinished THEN "abandoned" ELSE @]

\* DelegationStore::complete accepts a result only for an unfinished delegation,
\* and a success only for one that runs.
LegalComplete(d, to) ==
  \/ status[d] = "running"
  \/ status[d] = "queued" /\ to # "completed"

\* DelegationActivityHub::publish: a watcher only learns that something changed.
publish == news' = (waiter.pc # "idle")

-----------------------------------------------------------------------------
(* create_subagent and the registration task it spawns. *)

\* The tool takes session.lock, refuses a session that is not open, and hands
\* the registration to a task of its own.
create_subagent(d) ==
  /\ up /\ sess = "open" /\ lock = None
  /\ cleaner.pc = "idle"
  /\ reg[d] = "none" /\ \A e \in Delegations : e < d => reg[e] # "none"
  /\ lock' = d
  /\ reg' = [reg EXCEPT ![d] = "start"]
  /\ UNCHANGED <<disk, cancelled, runner, tasks, cleaner, watch, world>>

\* The turn is cancelled: the tool future returns and its lock is released,
\* the registration task goes on.
CancelTurn ==
  /\ up /\ lock # None
  /\ cancelled' = cancelled \cup {lock}
  /\ lock' = None
  /\ UNCHANGED <<disk, reg, runner, tasks, cleaner, watch, world>>

\* What the end of a registration does for the tool future that awaits it.
Answered(d) == lock' = IF lock = d THEN None ELSE lock

\* create_until_registered: the first check, then the new directory.
RegisterDir(d) ==
  /\ reg[d] = "start"
  /\ \/ /\ d \in cancelled
        /\ reg' = [reg EXCEPT ![d] = "done"]
        /\ Answered(d)
        /\ UNCHANGED status
     \/ /\ d \notin cancelled
        /\ status' = [status EXCEPT ![d] = "dir"]
        /\ reg' = [reg EXCEPT ![d] = "dir"]
        /\ UNCHANGED lock
  /\ UNCHANGED <<sess, cancelled, runner, tasks, cleaner, watch, world>>

\* initialize_created_delegation writes delegation.yaml ...
RegisterMetadata(d) ==
  /\ reg[d] = "dir"
  /\ status' = [status EXCEPT ![d] = "queued"]
  /\ reg' = [reg EXCEPT ![d] = "meta"]
  /\ UNCHANGED <<sess, lock, cancelled, runner, tasks, cleaner, watch, world>>

\* ... and then the first events.
RegisterEvents(d) ==
  /\ reg[d] = "meta"
  /\ reg' = [reg EXCEPT ![d] = "made"]
  /\ publish
  /\ UNCHANGED <<disk, lock, cancelled, runner, tasks, cleaner, waiter, world>>

\* Either write fails: the directory is removed again, or is left behind when
\* that fails too.
RegisterFails(d) ==
  /\ reg[d] \in {"dir", "meta"}
  /\ Fails(d)
  /\ \E left \in {"none", status[d]} : status' = [status EXCEPT ![d] = left]
  /\ reg' = [reg EXCEPT ![d] = "done"]
  /\ Answered(d)
  /\ UNCHANGED <<sess, cancelled, runner, tasks, cleaner, watch>>

\* Mutant of RegisterPush: a cancelled registration just ends.
PushOrForget(d) ==
  /\ reg[d] = "made"
  /\ reg' = [reg EXCEPT ![d] = "done"]
  /\ IF d \in cancelled THEN UNCHANGED <<queue, wanting>>
     ELSE queue' = Append(queue, d) /\ wanting' = wanting + 1
  /\ Answered(d)
  /\ UNCHANGED <<disk, cancelled, running, pump, tasks, cleaner, watch, world>>

\* The cancellation check and the push are one critical section of the runner;
\* past it the subagent is registered whatever becomes of the turn.
RegisterPush(d) ==
  /\ reg[d] = "made"
  /\ \/ /\ d \in cancelled
        /\ reg' = [reg EXCEPT ![d] = "undo"]
        /\ UNCHANGED <<queue, wanting, lock>>
     \/ /\ d \notin cancelled
        /\ queue' = Append(queue, d)
        /\ wanting' = wanting + 1
        /\ reg' = [reg EXCEPT ![d] = "done"]
        /\ Answered(d)
  /\ UNCHANGED <<disk, cancelled, running, pump, tasks, cleaner, watch, world>>

\* abandon_unregistered_creation, whose failure is only logged.
RegisterUndo(d) ==
  /\ reg[d] = "undo"
  /\ reg' = [reg EXCEPT ![d] = "done"]
  /\ \/ status' = Abandoned(d) /\ publish /\ UNCHANGED world
     \/ UNCHANGED <<status, news>> /\ Fails(d)
  /\ UNCHANGED <<sess, lock, cancelled, runner, tasks, cleaner, waiter>>

-----------------------------------------------------------------------------
(* pump_queue, under pump_lock. *)

pump_queue ==
  /\ wanting > 0 /\ PumpLockFree
  /\ wanting' = wanting - 1
  /\ pump' = [pc |-> "loop", id |-> None]
  /\ UNCHANGED <<disk, creation, queue, running, tasks, cleaner, watch, world>>

\* The head of the loop drops finished handles, then takes the next candidate
\* if a slot is free.
PumpNext ==
  /\ pump.pc = "loop"
  /\ LET live == {d \in running : task[d] \in Working}
     IN  /\ running' = live
         /\ IF Cardinality(live) >= MaxConcurrent \/ queue = <<>>
            THEN pump' = Idle /\ UNCHANGED queue
            ELSE /\ pump' = [pc |-> "start", id |-> Head(queue)]
                 /\ queue' = Tail(queue)
  /\ UNCHANGED <<disk, creation, wanting, tasks, cleaner, watch, world>>

\* store.start succeeds and the handle is entered before the runner state is
\* unlocked; a candidate that is terminal by now is skipped.
PumpStart ==
  /\ pump.pc = "start"
  /\ pump' = [pc |-> "loop", id |-> None]
  /\ LET d == pump.id
     IN  \/ /\ is_terminal(d)
            /\ UNCHANGED <<status, running, task, news>>
         \/ /\ ~is_terminal(d)
            /\ status' = [status EXCEPT ![d] = "running"]
            /\ running' = running \cup {d}
            /\ task' = [task EXCEPT ![d] = "begin"]
            /\ publish
  /\ UNCHANGED <<sess, creation, queue, wanting, result, checkpoint, aborted,
                 cleaner, waiter, world>>

\* store.start fails, before or after its metadata was written.
PumpStartFails ==
  /\ pump.pc = "start" /\ ~is_terminal(pump.id)
  /\ \E left \in {status[pump.id], "running"} :
       status' = [status EXCEPT ![pump.id] = left]
  /\ pump' = [pump EXCEPT !.pc = "mark"]
  /\ Fails(pump.id)
  /\ UNCHANGED <<sess, creation, queue, running, wanting, tasks, cleaner, watch>>

\* The delegation that could not start is marked failed; when that fails as
\* well, or comes too late, the pump only logs it.
PumpMark ==
  /\ pump.pc = "mark"
  /\ pump' = [pc |-> "loop", id |-> None]
  /\ \/ /\ LegalComplete(pump.id, "failed")
        /\ status' = [status EXCEPT ![pump.id] = "failed"]
        /\ publish
        /\ UNCHANGED world
     \/ /\ UNCHANGED <<status, news>>
        /\ IF LegalComplete(pump.id, "failed") THEN Fails(pump.id) ELSE UNCHANGED world
  /\ UNCHANGED <<sess, creation, queue, running, wanting, tasks, cleaner, waiter>>

-----------------------------------------------------------------------------
(* run_one, inside the task spawn_one starts. *)

TaskAt(d, pc) == task[d] = pc
TaskTo(d, pc) == task' = [task EXCEPT ![d] = pc]

\* begin_task opens the checkpoint, or its error is the result.
BeginTask(d) ==
  /\ TaskAt(d, "begin")
  /\ \/ /\ TaskTo(d, "execute")
        /\ checkpoint' = [checkpoint EXCEPT ![d] = "open"]
        /\ UNCHANGED result
     \/ /\ TaskTo(d, "complete")
        /\ result' = [result EXCEPT ![d] = "failed"]
        /\ UNCHANGED checkpoint
  /\ UNCHANGED <<disk, creation, runner, aborted, cleaner, watch, world>>

\* execute returns, fails or is stopped by the wall clock; a panic unwinds past
\* the checkpoint guard, whose drop rolls the checkpoint back.
Execute(d) ==
  /\ TaskAt(d, "execute")
  /\ \/ \E r \in {"completed", "failed"} :
          /\ result' = [result EXCEPT ![d] = r]
          /\ TaskTo(d, "complete")
          /\ UNCHANGED checkpoint
     \/ /\ result' = [result EXCEPT ![d] = "failed"]
        /\ checkpoint' = [checkpoint EXCEPT ![d] = "none"]
        /\ TaskTo(d, "panic")
  /\ UNCHANGED <<disk, creation, runner, aborted, cleaner, watch, world>>

\* store.complete up to its metadata: refused when the status is final already,
\* or the write fails, which leaves the result unsaved.
Complete(d) ==
  /\ \E pc \in {"complete", "panic"} :
       /\ TaskAt(d, pc)
       /\ \/ /\ LegalComplete(d, result[d])
             /\ status' = [status EXCEPT ![d] = result[d]]
             /\ TaskTo(d, "record")
             /\ UNCHANGED <<result, world>>
          \/ /\ TaskTo(d, IF pc = "panic" THEN "release" ELSE "finish")
             /\ result' = [result EXCEPT ![d] = "unsaved"]
             /\ UNCHANGED status
             /\ IF LegalComplete(d, result[d]) THEN Fails(d) ELSE UNCHANGED world
  /\ UNCHANGED <<sess, creation, runner, checkpoint, aborted, cleaner, watch>>

\* Mutant of Record: nobody is told.
RecordQuietly(d) ==
  /\ TaskAt(d, "record")
  /\ TaskTo(d, "finish")
  /\ UNCHANGED <<disk, creation, runner, result, checkpoint, aborted, cleaner, watch,
                 world>>

\* ... and its events: with them the terminal result counts as persisted and the
\* watchers are told; without them neither happens.
Record(d) ==
  /\ TaskAt(d, "record")
  /\ TaskTo(d, "finish")
  /\ \/ publish /\ UNCHANGED <<result, world>>
     \/ /\ result' = [result EXCEPT ![d] = "unsaved"]
        /\ UNCHANGED news
        /\ Fails(d)
  /\ UNCHANGED <<disk, creation, runner, checkpoint, aborted, cleaner, waiter>>

\* Mutant of Verdict: a success that could not be saved counts.
CommitUnsaved(d) == IF result[d] # "failed" THEN "committed" ELSE "none"

\* finish_task: what the subagent read is kept only if it succeeded and that is
\* persisted.
Verdict(d) == IF result[d] = "completed" THEN "committed" ELSE "none"

FinishTask(d) ==
  /\ TaskAt(d, "finish")
  /\ TaskTo(d, "release")
  /\ checkpoint' = [checkpoint EXCEPT
       ![d] = IF @ = "open" THEN Verdict(d) ELSE @]
  /\ UNCHANGED <<disk, creation, runner, result, aborted, cleaner, watch, world>>

\* Mutant of ReleaseSlot: the freed slot is offered to nobody.
ReleaseQuietly(d) ==
  /\ TaskAt(d, "release")
  /\ TaskTo(d, "ended")
  /\ running' = running \ {d}
  /\ result' = [result EXCEPT ![d] = "none"]
  /\ UNCHANGED <<disk, creation, queue, pump, wanting, checkpoint, aborted, cleaner,
                 watch, world>>

\* The end of spawn_one: the slot is freed first, then the queue is pumped.
ReleaseSlot(d) ==
  /\ TaskAt(d, "release")
  /\ TaskTo(d, "ended")
  /\ running' = running \ {d}
  /\ wanting' = wanting + 1
  /\ result' = [result EXCEPT ![d] = "none"]
  /\ aborted' = aborted \ {d}
  /\ UNCHANGED <<disk, creation, queue, pump, checkpoint, cleaner, watch, world>>

\* An abort lands at the task's next suspension: the checkpoint guard is
\* dropped armed and rolls back.
AbortLands(d) ==
  /\ d \in aborted /\ task[d] \in Working
  /\ TaskTo(d, "ended")
  /\ result' = [result EXCEPT ![d] = "none"]
  /\ checkpoint' = [checkpoint EXCEPT ![d] = IF @ = "open" THEN "none" ELSE @]
  /\ aborted' = aborted \ {d}
  /\ UNCHANGED <<disk, creation, runner, cleaner, watch, world>>

-----------------------------------------------------------------------------
(* Closing and reopening the session. *)

Clean(kind) == [NoCleaner EXCEPT !.pc = "wait", !.kind = kind]

\* Mutant of mark_session_finalizing: the status changes without session.lock.
MarkUnlocked ==
  /\ up /\ sess = "open" /\ cleaner.pc = "idle"
  /\ sess' = "finalizing"
  /\ cleaner' = Clean("mark")
  /\ waiter' = NoWaiter /\ news' = FALSE
  /\ UNCHANGED <<status, creation, runner, tasks, world>>

\* mark_session_finalizing: the status changes under session.lock, so no tool
\* call is between its check and its answer; only then are the subagents
\* abandoned, and not at all when the completion of a background process cannot
\* be written to the journal.
mark_session_finalizing ==
  /\ up /\ sess = "open" /\ lock = None /\ cleaner.pc = "idle"
  /\ sess' = "finalizing"
  /\ \/ cleaner' = Clean("mark") /\ UNCHANGED <<faults, broken>>
     \/ UNCHANGED cleaner /\ Faulty({})
  /\ waiter' = NoWaiter /\ news' = FALSE
  /\ UNCHANGED <<status, creation, runner, tasks, up, resumes, supervision>>

\* finalize.lock is held from before the abandon of a finalize to the end of the
\* one that follows it, but not by mark_session_finalizing.
FinalizeLockFree == remote.pc = "idle" /\ (cleaner.pc = "idle" \/ cleaner.kind = "mark")

\* The finalizing session is finalized by its own process, at once or again after
\* a failure.
RetryFinalize ==
  /\ up /\ sess = "finalizing" /\ cleaner.pc = "idle" /\ FinalizeLockFree
  /\ cleaner' = Clean("hard")
  /\ UNCHANGED <<disk, creation, runner, tasks, watch, world>>

\* Under pump_lock the directory is listed.  When that fails nothing is abandoned.
AbandonList ==
  /\ cleaner.pc = "wait" /\ pump.pc = "idle"
  /\ \/ /\ cleaner' = [cleaner EXCEPT !.pc = "each", !.todo = Active, !.failed = HalfMade]
        /\ UNCHANGED world
     \/ /\ cleaner' = [cleaner EXCEPT !.pc = "each", !.todo = {}, !.failed = TRUE]
        /\ Faulty(Active)
        /\ UNCHANGED <<up, resumes, supervision>>
  /\ UNCHANGED <<disk, creation, runner, tasks, watch>>

AbandonOne(d) ==
  /\ cleaner.pc = "each" /\ d \in cleaner.todo
  /\ \/ /\ status' = Abandoned(d)
        /\ cleaner' = [cleaner EXCEPT !.todo = @ \ {d},
                                      !.updated = @ \/ status'[d] = "abandoned"]
        /\ UNCHANGED world
     \/ /\ status[d] \in Unfinished
        /\ cleaner' = [cleaner EXCEPT !.todo = @ \ {d}, !.failed = TRUE]
        /\ UNCHANGED status
        /\ Fails(d)
  /\ UNCHANGED <<sess, creation, runner, tasks, watch>>

\* abort_all_in_memory
AbortAll ==
  /\ aborted' = aborted \cup running
  /\ running' = {}
  /\ queue' = <<>>

\* VecDeque::retain: the members of q that are in S, in their order.
Retained(q, S) ==
  LET kept == {i \in DOMAIN q : q[i] \in S}
  IN  [k \in 1 .. Cardinality(kept) |->
         q[CHOOSE i \in kept : Cardinality({j \in kept : j <= i}) = k]]

\* prune_terminal_in_memory: what a failed hard abandon does instead.
PruneTerminal ==
  /\ aborted' = aborted \cup {d \in running : is_terminal(d)}
  /\ running' = {d \in running : ~is_terminal(d)}
  /\ queue' = Retained(queue, {d \in Delegations : ~is_terminal(d)})

HardFailed == cleaner.kind # "soft" /\ cleaner.failed

AbandonEnd ==
  /\ cleaner.pc = "each" /\ cleaner.todo = {}
  /\ IF HardFailed THEN PruneTerminal ELSE AbortAll
  /\ IF cleaner.updated /\ ~HardFailed THEN publish ELSE UNCHANGED news
  /\ cleaner' = IF cleaner.kind = "hard" /\ ~cleaner.failed
                THEN [NoCleaner EXCEPT !.pc = "close", !.kind = "hard"] ELSE NoCleaner
  /\ swept' = (sess # "open" /\ (swept \/ ~HardFailed))
  /\ UNCHANGED <<disk, creation, pump, wanting, task, result, checkpoint, waiter, up,
                 resumes, faults, broken, remote, outside>>

\* The rest of the finalize closes the session, which is followed by another,
\* best-effort abandon, or fails and leaves it finalizing.
CloseSession ==
  /\ cleaner.pc = "close"
  /\ \/ sess' = "closed" /\ cleaner' = Clean("soft")
     \/ cleaner' = NoCleaner /\ UNCHANGED sess
  /\ UNCHANGED <<status, creation, runner, tasks, watch, world>>

\* A closed session is resumed, whatever the supervisor that closed it still does; a
\* finalizing one taken over once the supervisor has stopped; an open one whose process
\* died picked up.  The file-read state is cleared, and what is unfinished is abandoned
\* before a turn starts.
ResumeSession ==
  /\ resumes < MaxResumes
  /\ sess = "open" => ~up
  /\ sess = "finalizing" \/ ~LateSweeps => remote.pc = "idle"
  /\ cleaner.pc = "idle" /\ lock = None
  /\ sess' = "open"
  /\ up' = TRUE
  /\ resumes' = resumes + 1
  /\ cleaner' = Clean("soft")
  /\ checkpoint' = [d \in Delegations |-> "none"]
  /\ swept' = FALSE
  /\ UNCHANGED <<status, creation, runner, task, result, aborted, watch, faults,
                 broken, remote, outside>>

\* The process ends, by itself once the session is no longer open, or crashes:
\* everything but the files is gone.
ProcessEnds ==
  /\ up
  /\ up' = FALSE
  /\ \/ sess # "open" /\ UNCHANGED <<faults, broken>>
     \/ Faulty({})
  /\ lock' = None /\ cancelled' = {}
  /\ reg' = [d \in Delegations |-> IF reg[d] = "none" THEN "none" ELSE "done"]
  /\ queue' = <<>> /\ running' = {} /\ pump' = Idle /\ wanting' = 0
  /\ task' = [d \in Delegations |-> IF task[d] \in Working THEN "ended" ELSE task[d]]
  /\ result' = [d \in Delegations |-> "none"]
  /\ checkpoint' = [d \in Delegations |-> "none"]
  /\ aborted' = {}
  /\ cleaner' = NoCleaner
  /\ swept' = (sess # "open")
  /\ waiter' = NoWaiter /\ news' = FALSE
  /\ UNCHANGED <<disk, resumes, remote, outside>>

-----------------------------------------------------------------------------
(* The finalize of the supervisor: a job the session's process left behind, or   *)
(* `acn supervisor retry`, which looks at the status of the session and at       *)
(* finalize.lock but not at the runtime lease.  The tasks, the queue and the     *)
(* watchers of the session's process are out of its reach.                       *)

\* Its strict abandon lists the session first; one that meets a half created delegation
\* abandons what it can and fails.
SupervisorFinalize ==
  /\ sess = "finalizing" /\ FinalizeLockFree
  /\ remote' = IF HalfMade THEN [NoRemote EXCEPT !.pc = "soft"]
               ELSE [pc |-> "strict", todo |-> Active]
  /\ UNCHANGED <<disk, creation, runner, tasks, cleaner, watch, up, resumes, faults, broken,
                 outside, swept>>

\* One abandon; the best-effort form is not held to its list.
SupervisorAbandon(d) ==
  /\ d \in remote.todo \/ (remote.pc = "soft" /\ d \in Active)
  /\ status' = Abandoned(d)
  /\ remote' = [remote EXCEPT !.todo = @ \ {d}]
  /\ outside' = IF sess = "open" THEN outside \cup ({d} \cap Active) ELSE outside
  /\ UNCHANGED <<sess, creation, runner, tasks, cleaner, watch, up, resumes, faults, broken,
                 swept>>

\* The rest of the finalize closes the session, which is followed by another,
\* best-effort abandon, for which a resume does not wait.
SupervisorClose ==
  /\ remote.pc = "strict" /\ remote.todo = {}
  /\ sess' = "closed"
  /\ remote' = [NoRemote EXCEPT !.pc = "soft"]
  /\ UNCHANGED <<status, creation, runner, tasks, cleaner, watch, up, resumes, faults,
                 broken, outside, swept>>

\* The supervisor is done, or gives up: a listing, an abandon or the recap failed, it was
\* preempted, or its process died.
SupervisorStops ==
  /\ remote.pc # "idle"
  /\ remote' = NoRemote
  /\ UNCHANGED <<disk, creation, runner, tasks, cleaner, watch, up, resumes, faults, broken,
                 outside, swept>>

-----------------------------------------------------------------------------
(* wait_subagents, until one or all of the chosen subagents are terminal. *)

\* The subscription comes before the first look at the store.
wait_subagents ==
  /\ up /\ sess = "open" /\ cleaner.pc = "idle" /\ waiter = NoWaiter
  /\ waiter' = [NoWaiter EXCEPT !.pc = "choose"]
  /\ news' = FALSE
  /\ UNCHANGED <<disk, creation, runner, tasks, cleaner, world>>

\* WaitSubagentsUntil::is_satisfied
Satisfied ==
  IF waiter.until = "any" THEN \E d \in waiter.ids : is_terminal(d)
  ELSE \A d \in waiter.ids : is_terminal(d)

\* The ids the caller names, which must exist, or whatever is active; nothing active
\* ends the call at once.
Unloadable(d) == status[d] \in {"none", "dir"}
WaitChoose ==
  /\ waiter.pc = "choose"
  /\ \/ Active = {} /\ waiter' = NoWaiter /\ news' = FALSE
     \/ /\ \E ids \in (SUBSET {d \in Delegations : ~Unloadable(d)}) \ {{}},
              until \in {"any", "all"} :
             waiter' = [pc |-> "look", ids |-> ids, until |-> until]
        /\ UNCHANGED news
  /\ UNCHANGED <<disk, creation, runner, tasks, cleaner, world>>

\* What a look at the store leads to: the call returns when its condition is met, or
\* with an error when a subagent is gone, and sleeps until the revision moves otherwise.
WaitLook ==
  /\ waiter.pc = "look"
  /\ IF Satisfied \/ \E d \in waiter.ids : Unloadable(d)
     THEN waiter' = NoWaiter /\ news' = FALSE
     ELSE waiter' = [waiter EXCEPT !.pc = "sleep"] /\ UNCHANGED news
  /\ UNCHANGED <<disk, creation, runner, tasks, cleaner, world>>

WaitWake ==
  /\ waiter.pc = "sleep" /\ news
  /\ news' = FALSE
  /\ waiter' = [waiter EXCEPT !.pc = "look"]
  /\ UNCHANGED <<disk, creation, runner, tasks, cleaner, world>>

\* The deadline passes, or the turn is cancelled.
WaitGiveUp ==
  /\ waiter.pc = "sleep"
  /\ waiter' = NoWaiter /\ news' = FALSE
  /\ UNCHANGED <<disk, creation, runner, tasks, cleaner, world>>

-----------------------------------------------------------------------------
Register(d) ==
  \/ RegisterDir(d) \/ RegisterMetadata(d) \/ RegisterEvents(d)
  \/ RegisterFails(d) \/ RegisterPush(d) \/ RegisterUndo(d)

PumpStep == PumpNext \/ PumpStart \/ PumpStartFails \/ PumpMark

TaskStep(d) ==
  \/ BeginTask(d) \/ Execute(d) \/ Complete(d) \/ Record(d)
  \/ FinishTask(d) \/ ReleaseSlot(d)

CleanStep ==
  \/ AbandonList \/ AbandonEnd \/ CloseSession
  \/ \E d \in Delegations : AbandonOne(d)

SupervisorStep ==
  \/ SupervisorFinalize \/ SupervisorClose \/ SupervisorStops
  \/ \E d \in Delegations : SupervisorAbandon(d)

WaitStep == WaitChoose \/ WaitLook \/ WaitWake

Work ==
  \/ \E d \in Delegations : Register(d) \/ TaskStep(d) \/ AbortLands(d)
  \/ pump_queue \/ PumpStep \/ CleanStep

Next ==
  \/ Work \/ WaitStep
  \/ \E d \in Delegations : create_subagent(d)
  \/ wait_subagents \/ WaitGiveUp \/ CancelTurn
  \/ mark_session_finalizing \/ RetryFinalize \/ ResumeSession \/ ProcessEnds
  \/ SupervisorStep

Spec == Init /\ [][Next]_vars

\* The tasks of the runtime are scheduled, a subagent returns before its wall
\* time is over, and pump_lock is handed to those who wait for it.  Requiring it
\* of the work as a whole is enough, since what is under way is always finite; a
\* waiter may come back for ever and has its own condition.  No wait is promised
\* to time out, no turn to be cancelled, no session to close, and nothing of the
\* supervisor.
Fairness == WF_vars(Work) /\ WF_vars(WaitStep)

FairSpec == Spec /\ Fairness

-----------------------------------------------------------------------------
(* Properties. *)

DTypeOK ==
  /\ status \in [Delegations -> {"none", "dir"} \cup Unfinished \cup Terminal]
  /\ sess \in {"open", "finalizing", "closed"}
  /\ lock \in Delegations \cup {None}
  /\ cancelled \subseteq Delegations
  /\ reg \in [Delegations -> {"none", "start", "dir", "meta", "made", "undo", "done"}]
  /\ queue \in Seq(Delegations)
  /\ running \subseteq Delegations
  /\ pump \in [pc : {"idle", "loop", "start", "mark"}, id : Delegations \cup {None}]
  /\ wanting \in Nat
  /\ task \in [Delegations -> {"none", "ended"} \cup Working]
  /\ result \in [Delegations -> {"none", "completed", "failed", "unsaved"}]
  /\ checkpoint \in [Delegations -> {"none", "open", "committed"}]
  /\ aborted \subseteq Delegations
  /\ cleaner \in [pc : {"idle", "wait", "each", "close"}, kind : {"mark", "hard", "soft"},
                  todo : SUBSET Delegations, failed : BOOLEAN, updated : BOOLEAN]
  /\ remote \in [pc : {"idle", "strict", "soft"}, todo : SUBSET Delegations]
  /\ waiter \in [pc : {"idle", "choose", "look", "sleep"}, ids : SUBSET Delegations,
                 until : {"any", "all"}]
  /\ news \in BOOLEAN /\ up \in BOOLEAN
  /\ resumes \in 0 .. MaxResumes /\ faults \in 0 .. MaxFaults
  /\ broken \subseteq Delegations /\ outside \subseteq Delegations /\ swept \in BOOLEAN

Registering(d) == reg[d] \in {"start", "dir", "meta", "made", "undo"}
Acting(d) == task[d] \in Working /\ d \notin aborted

\* Nobody waits for a subagent nobody runs: while the process is up and no
\* abandon is under way, a delegation whose file says queued or running is being
\* registered, stands in the queue, is the pump's candidate or has a task, unless
\* a store operation on it failed (runner.rs create_until_registered, pump_queue,
\* abandon_unfinished_for_session; session_engine.rs complete_closed_resume).
NoOrphans ==
  up /\ cleaner.pc = "idle" =>
    \A d \in Delegations :
      status[d] \in Unfinished =>
        \/ Registering(d) \/ d \in ToSet(queue) \/ pump.id = d \/ Acting(d)
        \/ d \in broken

\* At most MaxConcurrent subagents act at any time: the slot count of pump_queue
\* is true to the tasks, those about to start included.
SlotsRespected ==
  Cardinality({d \in Delegations : Acting(d)}) <= MaxConcurrent

\* No subagent outlives its session.  Whoever closes it, a delegation is left unfinished
\* only because a store operation on it failed; and once the session's own process has
\* emptied its runner, nothing is queued or acts in it any more, though a registration
\* whose turn was cancelled may still be under way (finalize.rs mark_session_finalizing
\* before abandon_session_delegations, whose strict form refuses a half created one;
\* runner.rs abort_all_in_memory).  Before that the supervisor can close the session over
\* subagents that still act, since it reaches their files only.
ClosedIsQuiet ==
  sess = "closed" =>
    /\ \A d \in Delegations : status[d] \in Unfinished => d \in broken
    /\ swept => queue = <<>> /\ \A d \in Delegations : ~Acting(d)

\* The strict abandon of a finalize fails only on a delegation that is damaged:
\* marking the session finalizing under session.lock keeps it from meeting one
\* that is only half created (docs/PRDs/PRD_subagents.md, AS2).
AbandonFailsForCause == HardFailed => faults > 0

\* What a subagent read counts as read only if it is on record as completed
\* (runner.rs: committed only when the executor succeeded and the authoritative
\* terminal result is on disk).
CommittedIsCompleted ==
  \A d \in Delegations : checkpoint[d] = "committed" => status[d] = "completed"

\* A terminal status is final: a late result, a start, or an abandon never
\* replaces it; only a creation that failed takes its whole directory back.
TerminalIsFinal ==
  [][\A d \in Delegations : is_terminal(d) => status'[d] \in {status[d], "none"}]_vars

\* What exempts a delegation from progress: its files failed, its session is not open
\* here, or the supervisor abandoned it, which tells nobody in this process.
Elsewhere(d) == d \in broken \/ d \in outside \/ ~up \/ sess # "open"

\* Registered subagents end: as long as their session stays open and their files can be
\* written, the time comes when every one that was registered is terminal (runner.rs
\* pump_queue, spawn_one, which frees its slot before it pumps).
Owed(d) == reg[d] = "done" /\ status[d] \in Unfinished /\ ~Elsewhere(d)
RegisteredEnds ==
  (\E d \in Delegations : Owed(d)) ~> (\A d \in Delegations : ~Owed(d))

\* No wake-up is lost: a wait whose condition is met, one or all of its subagents having
\* ended, returns without the help of its deadline (delegation.rs wait_subagents
\* subscribes before it reads; runner.rs publishes after the store).
AnswerDue == waiter.pc = "sleep" /\ Satisfied
WaitIsAnswered ==
  AnswerDue ~> (waiter.pc # "sleep" \/ \E d \in waiter.ids : Elsewhere(d))
=============================================================================
