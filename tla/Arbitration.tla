---------------------------- MODULE Arbitration ----------------------------
(***************************************************************************)
(* The arbitration of one dispute by the maintainer: the analysis that a   *)
(* worker carries through context, proposal and verification, its adoption *)
(* (automatic or by a person), the resolution a person writes, and the     *)
(* delivery of the resolution to the agents that hold the disputed claims. *)
(*                                                                         *)
(* Every operation decides under the per-dispute file lock and then writes *)
(* several files one after the other.  The files it has still to write are *)
(* op.todo; a write error, a dropped HTTP request or a crash cuts the      *)
(* operation after any of them, and the next operation finds what is on    *)
(* the disk.                                                               *)
(***************************************************************************)
EXTENDS Naturals, FiniteSets

CONSTANTS
  Holders,       \* the agents that hold the disputed claims
  Workers,       \* the analysis workers of the servers on this team store
  Mode,          \* ArbitrationConfig.mode: "auto", "shadow" or "manual"
  None,
  MaxAttempts,   \* context_prepare_max_attempts
  MaxAnalyses,   \* bound: analyses created
  MaxRes,        \* bound: resolutions minted
  MaxWorld,      \* bound: changes of the claims an analysis reads
  MaxFaults      \* bound: operations cut short, and crashes

Human == "human"
Automatic == "automatic"
Actors == Workers \cup {Human}

ASSUME ArbitrationAssumption ==
  /\ Mode \in {"auto", "shadow", "manual"}
  /\ None \notin Workers /\ Human \notin Workers /\ None # Human
  /\ IsFiniteSet(Holders)
  /\ MaxAttempts \in Nat /\ MaxAnalyses \in Nat /\ MaxRes \in Nat
  /\ MaxWorld \in Nat \ {0} /\ MaxFaults \in Nat

\* ArbitrationResolutionRecord: its id, who decided, the analysis it comes from
\* (0: none), the resolution it rejects (0: none, else rejection_reason is set) and
\* whether it carries a delivery intent.
Resolutions == [n : 1..MaxRes, by : {Human, Automatic}, src : 0..MaxAnalyses,
                over : 0..MaxRes, notify : BOOLEAN]

Recoverable == {"Pending", "WaitingContext", "WaitingReanalysis", "Proposing",
                "Verifying", "Adopting"}
Terminal == {"Approved", "Unresolved", "Failed", "Adopted"}

\* ArbitrationAnalysis.  lease is the worker that holds the fencing token: a token is
\* drawn anew at every acquisition and lives in one run of one worker.  fp is the
\* version of the inputs the frozen context was built from; seen is the version at
\* the moment of the verdict (history, no field of the code).
Analyses == [id : 1..MaxAnalyses, state : Recoverable \cup Terminal,
             changes : 0..3, attempts : 0..MaxAttempts, fp : 0..MaxWorld,
             lease : Workers \cup {None}, res : Resolutions \cup {None},
             blocked : BOOLEAN, seen : 0..MaxWorld]

\* The files an operation writes, in the order it writes them.
Steps == {"intent", "persist", "record", "dispute", "preempt", "repersist",
          "outbox", "observe", "unpend", "adopted"}
Rank == [s \in Steps |->
           CASE s = "intent" -> 1 [] s = "persist" -> 2 [] s = "record" -> 3
             [] s = "dispute" -> 4 [] s = "preempt" -> 5 [] s = "repersist" -> 6
             [] s = "outbox" -> 7 [] s = "observe" -> 8 [] s = "unpend" -> 9
             [] OTHER -> 10]

\* The operation that holds the lock, a run of a worker or adopter, the event in hand.
Operations == [name : {"adopt", "recover", "resolve", "deliver"}, r : Resolutions,
               todo : SUBSET Steps]
Runs == [Actors -> [pc : {"idle", "build", "propose", "verify", "adopt"},
                    id : 0..MaxAnalyses, fp : 0..MaxWorld]]
\* "ended": the event scheduler has returned an error; only a restart brings it back.
Events == [pc : {"idle", "deliver", "complete", "retry", "rewrite", "ended"},
           r : Resolutions \cup {None}]

\* None is neither a resolution, nor an analysis, nor an operation.
ASSUME NoneAssumption ==
  None \notin Resolutions /\ None \notin Analyses /\ None \notin Operations

VARIABLES
  reported,   \* the dispute file exists
  decided,    \* the resolution in the dispute file, None while it is open
  analysis,   \* the current analysis file
  record,     \* the current resolution file
  pending,    \* the pending delivery files
  outbox,     \* <<resolution, holder>> of the targeted outbox entries
  noted,      \* the resolutions with event targets, observation marker and history
  world,      \* version of everything the semantic fingerprint covers
  op,         \* the operation that holds the dispute lock, None when it is free
  run,        \* per actor: where its analysis or adoption stands
  ev,         \* the delivery event being processed
  minted, created, faults

disk == <<reported, decided, analysis, record, pending, outbox, noted>>
vars == <<reported, decided, analysis, record, pending, outbox, noted, world, op,
          run, ev, minted, created, faults>>

Idle == [pc |-> "idle", id |-> 0, fp |-> 0]
NoEvent == [pc |-> "idle", r |-> None]
Ended == [pc |-> "ended", r |-> None]

Open == reported /\ decided = None
Unlocked == op = None

NewAnalysis ==
  [id |-> created + 1, state |-> "Pending", changes |-> 0, attempts |-> 0, fp |-> 0,
   lease |-> None, res |-> None, blocked |-> FALSE, seen |-> 0]

\* Mutant: the outbox entries are forgotten.
ForgetfulDelivery(r) == {"observe", "unpend"}

\* What delivering resolution r writes: ensure_delivery.
Delivery(r) == (IF r.notify THEN {"outbox"} ELSE {}) \cup {"observe", "unpend"}

Init ==
  /\ reported = FALSE /\ decided = None /\ analysis = None /\ record = None
  /\ pending = {} /\ outbox = {} /\ noted = {}
  /\ world = 1 /\ op = None /\ ev = NoEvent
  /\ run = [a \in Actors |-> Idle]
  /\ minted = 0 /\ created = 0 /\ faults = 0

----------------------------------------------------------------------------
\* Reporting and asking for an analysis

\* The analysis is written before the dispute; a report cut in between leaves an
\* orphan that the repeated report takes over.
report_dispute ==
  /\ Unlocked /\ ~reported
  /\ IF Mode = "manual" \/ analysis # None
       THEN UNCHANGED <<analysis, created>>
       ELSE created < MaxAnalyses /\ analysis' = NewAnalysis /\ created' = created + 1
  /\ \/ reported' = TRUE /\ UNCHANGED faults
     \/ /\ Mode # "manual" /\ analysis = None
        /\ faults < MaxFaults /\ faults' = faults + 1 /\ UNCHANGED reported
  /\ UNCHANGED <<decided, record, pending, outbox, noted, world, op, run, ev, minted>>

\* An explicit Analyze replaces the current analysis, except one being adopted.
create_analysis ==
  /\ Unlocked /\ Open /\ created < MaxAnalyses
  /\ analysis = None \/ analysis.state # "Adopting"
  /\ analysis' = NewAnalysis /\ created' = created + 1
  /\ UNCHANGED <<reported, decided, record, pending, outbox, noted, world, op, run,
                 ev, minted, faults>>

\* Claims, policies and mirrors change at any time; no arbitration lock covers them.
inputs_change ==
  /\ world < MaxWorld /\ world' = world + 1
  /\ UNCHANGED <<reported, decided, analysis, record, pending, outbox, noted, op, run,
                 ev, minted, created, faults>>

----------------------------------------------------------------------------
\* The analysis worker: process_analysis, one pass of its loop per action

Write(a) == analysis' = a
Goto(w, pc) == run' = [run EXCEPT ![w].pc = pc]
Done(w) == run' = [run EXCEPT ![w] = Idle]
restUnchanged == UNCHANGED <<reported, decided, record, pending, outbox, noted, world,
                             op, ev, minted, created, faults>>

Failed(a) == [a EXCEPT !.state = "Failed", !.lease = None]
Current(w) == analysis # None /\ analysis.id = run[w].id
HoldsLease(w) == analysis.lease = w

\* mark_analysis_preempted and preempt_current_analysis_locked: a decided dispute
\* ends the analysis, unless its own adoption is under way.
Preempted(a) == IF a # None /\ a.state \in Recoverable \ {"Adopting"} THEN Failed(a) ELSE a

mark_analysis_preempted(w) ==
  /\ Unlocked /\ run[w].pc \in {"idle", "build", "propose", "verify"}
  /\ decided # None /\ analysis # None
  /\ run[w].pc = "idle" \/ Current(w)
  /\ Write(Preempted(analysis)) /\ Done(w) /\ restUnchanged
  /\ analysis' # analysis

Exhausted(a) == a.attempts >= MaxAttempts

\* The context is built outside every lock; a mirror that is not complete is counted
\* and, after MaxAttempts, fails the analysis.
prepare_context(w) ==
  /\ run[w].pc = "idle" /\ Open /\ analysis # None
  /\ analysis.state \in {"Pending", "WaitingContext"}
  /\ \/ /\ ~Exhausted(analysis)
        /\ run' = [run EXCEPT ![w] = [pc |-> "build", id |-> analysis.id, fp |-> world]]
        /\ UNCHANGED analysis
     \/ /\ Unlocked /\ ~Exhausted(analysis)
        /\ Write([analysis EXCEPT !.state = "WaitingContext", !.attempts = @ + 1])
        /\ UNCHANGED run
     \/ /\ Unlocked
        /\ Write(Failed(analysis)) /\ UNCHANGED run
  /\ restUnchanged

save_prepared_context(w) ==
  /\ Unlocked /\ run[w].pc = "build"
  /\ \/ /\ Current(w) => /\ decided = None
                         /\ analysis.state \notin {"Pending", "WaitingContext"}
        /\ Done(w) /\ UNCHANGED analysis
     \/ /\ Current(w) /\ decided # None
        /\ Write([analysis EXCEPT !.state = "Failed"]) /\ Done(w)
     \/ /\ Current(w) /\ decided = None
        /\ analysis.state \in {"Pending", "WaitingContext"}
        /\ Write([analysis EXCEPT !.state = "Proposing", !.lease = w, !.fp = run[w].fp])
        /\ Goto(w, "propose")
  /\ restUnchanged

\* A phase without a lease, or with one that has run out, is taken over.
acquire_phase(w) ==
  /\ Unlocked /\ run[w].pc = "idle" /\ Open /\ analysis # None
  /\ analysis.state \in {"Proposing", "Verifying"}
  /\ Write([analysis EXCEPT !.lease = w])
  /\ run' = [run EXCEPT ![w] = [pc |-> IF analysis.state = "Proposing" THEN "propose"
                                                                      ELSE "verify",
                                id |-> analysis.id, fp |-> 0]]
  /\ restUnchanged

\* ensure_lease: the token decides, not the clock.  A worker that was overtaken, or
\* whose analysis was replaced, gets an error and leaves.
Fenced(w) == Current(w) /\ HoldsLease(w)

save_proposal(w) ==
  /\ Unlocked /\ run[w].pc = "propose"
  /\ \/ ~(Fenced(w) /\ analysis.state = "Proposing") /\ Done(w) /\ UNCHANGED analysis
     \/ /\ Fenced(w) /\ analysis.state = "Proposing" /\ decided # None
        /\ Write(Failed(analysis)) /\ Done(w)
     \/ /\ Fenced(w) /\ analysis.state = "Proposing" /\ decided = None
        /\ Write([analysis EXCEPT !.state = "Verifying"]) /\ Goto(w, "verify")
  /\ restUnchanged

\* The verdict is saved whatever became of the dispute meanwhile.
save_verification(w) ==
  /\ Unlocked /\ run[w].pc = "verify" /\ Done(w)
  /\ \/ ~(Fenced(w) /\ analysis.state = "Verifying") /\ UNCHANGED analysis
     \/ /\ Fenced(w) /\ analysis.state = "Verifying"
        /\ \E verdict \in {"Approved", "Unresolved"} :
             Write([analysis EXCEPT !.state = verdict, !.lease = None, !.seen = world])
  /\ restUnchanged

\* The evaluator fails, or answers what validation rejects.
finish_failed(w) ==
  /\ Unlocked /\ run[w].pc \in {"propose", "verify"} /\ Fenced(w)
  /\ Write(Failed(analysis)) /\ Done(w) /\ restUnchanged

\* Shutdown, or another analysis has taken the file: the run is dropped, its lease stays.
abandon(w) ==
  /\ run[w].pc \in {"build", "propose", "verify", "adopt"}
  /\ Done(w) /\ UNCHANGED analysis /\ restUnchanged

start_reanalysis_round(w) ==
  /\ Unlocked /\ run[w].pc = "idle" /\ Open /\ analysis # None
  /\ analysis.state = "WaitingReanalysis"
  /\ Write([analysis EXCEPT !.state = "Pending", !.attempts = 0, !.fp = 0, !.lease = None])
  /\ UNCHANGED run /\ restUnchanged

----------------------------------------------------------------------------
\* Adoption of an approved analysis, by a worker or by a person

By(a) == IF a = Human THEN Human ELSE Automatic

Operation(name, r, todo) == [name |-> name, r |-> r, todo |-> todo]

\* Mutant: the analysis is closed without waiting for the delivery.
HastyFinish(r) ==
  {"persist", "record", "adopted"} \cup (IF decided = None THEN {"dispute"} ELSE {})

\* finish_analysis_adoption_locked: the dispute is written only while it is open.
FinishAdoption(r) ==
  {"persist", "record", "adopted"} \cup Delivery(r)
    \cup (IF decided = None THEN {"dispute"} ELSE {})

\* Mutant: nobody looks whether the dispute was decided meanwhile.
NeverOvertaken(r) == FALSE

Overtaken(r) == decided # None /\ decided # r
Superseded(a) == [a EXCEPT !.state = "Approved", !.blocked = TRUE, !.res = None]

\* resume_matching_analysis_adoption_locked: an adoption already begun by the same
\* kind of actor is finished and never minted again.
resume_matching_analysis_adoption(a) ==
  /\ analysis.state = "Adopting" /\ Done(a)
  /\ \/ analysis.res.by # By(a) /\ UNCHANGED <<analysis, op>>
     \/ /\ analysis.res.by = By(a) /\ Overtaken(analysis.res)
        /\ Write(Superseded(analysis)) /\ UNCHANGED op
     \/ /\ analysis.res.by = By(a) /\ ~Overtaken(analysis.res)
        /\ op' = Operation("adopt", analysis.res, FinishAdoption(analysis.res))
        /\ UNCHANGED analysis

adoptionUnchanged == UNCHANGED <<reported, decided, record, pending, outbox, noted,
                                 world, ev, created, faults>>

\* ensure_adoption_preconditions
Adoptable == analysis.state = "Approved" /\ ~analysis.blocked /\ decided = None

\* The first locked section of adopt_approved, and the context built after it,
\* outside the lock.
adopt_approved(a) ==
  /\ Unlocked /\ run[a].pc = "idle" /\ reported /\ analysis # None
  /\ a # Human => Mode = "auto"
  /\ \/ resume_matching_analysis_adoption(a)
     \/ /\ Adoptable /\ UNCHANGED <<analysis, op>>
        /\ run' = [run EXCEPT ![a] = [pc |-> "adopt", id |-> analysis.id, fp |-> world]]
  /\ adoptionUnchanged /\ UNCHANGED minted

\* schedule_reanalysis: two changed contexts are analysed again, the third stops it.
Reanalysis(a) ==
  IF a.changes < 2
    THEN [a EXCEPT !.changes = @ + 1, !.state = "WaitingReanalysis", !.lease = None,
                   !.res = None, !.blocked = FALSE]
    ELSE [a EXCEPT !.changes = 3, !.state = "Approved", !.lease = None,
                   !.res = None, !.blocked = TRUE]

\* A human resolution that is fixed but not committed is brought to its end before an
\* adoption may begin: recover_human_resolution_locked.
HumanIntents == {r \in pending : r.by = Human}
StoredHuman == IF HumanIntents # {} THEN HumanIntents
               ELSE IF record # None /\ record.by = Human THEN {record} ELSE {}
\* Mutant: a stored human resolution replaces any automatic one.
RecoversAlways(r) == decided # None => decided.by = Automatic

RecoversDecision(r) == \/ decided = None
                       \/ r.over # 0 /\ decided.by = Automatic /\ decided.n # r.n

Minted(by, src, over, notify) ==
  [n |-> minted + 1, by |-> by, src |-> src, over |-> over, notify |-> notify]

\* Mutant: the fingerprint is not compared.
NoComparison(a) == TRUE

InputsUnchanged(a) == analysis.fp = run[a].fp

\* begin_analysis_adoption_locked
begin_analysis_adoption(a) ==
  /\ IF Cardinality(HumanIntents) > 1 THEN UNCHANGED <<op, minted>>
     ELSE IF StoredHuman # {}
       THEN \E r \in StoredHuman :
              /\ op' = Operation("recover", r, {"record", "dispute"} \cup Delivery(r))
              /\ UNCHANGED minted
       ELSE /\ minted < MaxRes /\ minted' = minted + 1
            /\ LET r == Minted(By(a), analysis.id, 0, TRUE)
               IN op' = Operation("adopt", r, {"intent"} \cup FinishAdoption(r))
  /\ UNCHANGED analysis

\* The second locked section: everything is read again, and an intent is fixed only
\* if the inputs are still the ones the analysis was made from.
adopt_recheck(a) ==
  /\ Unlocked /\ run[a].pc = "adopt"
  /\ \/ ~Current(a) /\ Done(a) /\ UNCHANGED <<analysis, op, minted>>
     \/ Current(a) /\ resume_matching_analysis_adoption(a) /\ UNCHANGED minted
     \/ /\ Current(a) /\ analysis.state # "Adopting" /\ ~Adoptable
        /\ Done(a) /\ UNCHANGED <<analysis, op, minted>>
     \/ /\ Current(a) /\ Adoptable /\ InputsUnchanged(a)
        /\ begin_analysis_adoption(a) /\ Done(a)
     \/ /\ Current(a) /\ Adoptable /\ ~InputsUnchanged(a)
        /\ Write(IF Mode = "auto" THEN Reanalysis(analysis)
                                  ELSE [analysis EXCEPT !.blocked = TRUE])
        /\ Done(a) /\ UNCHANGED <<op, minted>>
     \/ /\ Current(a) /\ Adoptable             \* the mirror is not complete now
        /\ Write([analysis EXCEPT !.blocked = TRUE])
        /\ Done(a) /\ UNCHANGED <<op, minted>>
  /\ adoptionUnchanged

\* Mutant: an adoption that lost against another resolution is left as it is.
RecoverOnlyCurrent(w) ==
  /\ Unlocked /\ run[w].pc = "idle" /\ reported /\ analysis # None
  /\ analysis.state = "Adopting" /\ ~Overtaken(analysis.res) /\ UNCHANGED analysis
  /\ op' = Operation("adopt", analysis.res, FinishAdoption(analysis.res))
  /\ adoptionUnchanged /\ UNCHANGED <<run, minted>>

\* An adoption that was cut is taken up by the worker that finds it.
recover_analysis_adoption(w) ==
  /\ Unlocked /\ run[w].pc = "idle" /\ reported /\ analysis # None
  /\ analysis.state = "Adopting"
  /\ \/ /\ Overtaken(analysis.res) /\ Write(Superseded(analysis)) /\ UNCHANGED op
     \/ /\ ~Overtaken(analysis.res) /\ UNCHANGED analysis
        /\ op' = Operation("adopt", analysis.res, FinishAdoption(analysis.res))
  /\ adoptionUnchanged /\ UNCHANGED <<run, minted>>

----------------------------------------------------------------------------
\* The resolutions a person writes

Recovery(r) == {"record", "dispute", "preempt", "repersist"} \cup Delivery(r)
Commit(r) == {"persist", "record", "dispute", "preempt"} \cup Delivery(r)

\* Begin the operation on a stored human resolution, or on a new one.
resolve_human ==
  /\ Unlocked /\ Open /\ Cardinality(HumanIntents) <= 1
  /\ IF StoredHuman # {}
       THEN /\ \E r \in StoredHuman : op' = Operation("resolve", r, Recovery(r))
            /\ UNCHANGED minted
       ELSE /\ minted < MaxRes /\ minted' = minted + 1
            /\ \E notify \in BOOLEAN :
                 LET r == Minted(Human, 0, 0, notify)
                 IN op' = Operation("resolve", r, Commit(r))
  /\ UNCHANGED <<disk, world, run, ev, created, faults>>

\* A person rejects the automatic resolution they were shown and replaces it.
reject_and_replace ==
  /\ Unlocked /\ reported /\ Cardinality(HumanIntents) <= 1
  /\ IF \E r \in StoredHuman : RecoversDecision(r)
       THEN /\ \E r \in StoredHuman :
                 RecoversDecision(r) /\ op' = Operation("resolve", r, Recovery(r))
            /\ UNCHANGED minted
       ELSE /\ decided # None /\ decided.by = Automatic /\ record = decided
            /\ minted < MaxRes /\ minted' = minted + 1
            /\ LET r == Minted(Human, 0, decided.n, TRUE)
               IN op' = Operation("resolve", r, Commit(r))
  /\ UNCHANGED <<disk, world, run, ev, created, faults>>

----------------------------------------------------------------------------
\* The writes of the operation that holds the lock, one file per action

First(s) == op # None /\ s \in op.todo /\ \A t \in op.todo : Rank[s] <= Rank[t]

Wrote(s) ==
  /\ op' = IF op.todo = {s} THEN None ELSE [op EXCEPT !.todo = @ \ {s}]
  /\ ev' = IF op.todo = {s} /\ op.name = "deliver" THEN [ev EXCEPT !.pc = "complete"]
                                                  ELSE ev
  /\ UNCHANGED <<reported, world, run, minted, created>>

\* The analysis is written as Adopting, with the resolution it will become.
write_intent ==
  /\ First("intent") /\ Wrote("intent")
  /\ Write([analysis EXCEPT !.state = "Adopting", !.res = op.r, !.lease = None])
  /\ UNCHANGED <<decided, record, pending, outbox, noted, faults>>

\* The pending delivery is the ground every recovery starts from.
persist_pending_delivery ==
  /\ \E s \in {"persist", "repersist"} : First(s) /\ Wrote(s)
  /\ pending' = pending \cup {op.r}
  /\ UNCHANGED <<decided, analysis, record, outbox, noted, faults>>

write_resolution_record ==
  /\ First("record") /\ Wrote("record") /\ record' = op.r
  /\ UNCHANGED <<decided, analysis, pending, outbox, noted, faults>>

write_dispute ==
  /\ First("dispute") /\ Wrote("dispute") /\ decided' = op.r
  /\ UNCHANGED <<analysis, record, pending, outbox, noted, faults>>

\* A failure to write the ended analysis is only logged.
preempt_current_analysis ==
  /\ First("preempt") /\ Wrote("preempt")
  /\ \/ Write(Preempted(analysis)) /\ UNCHANGED faults
     \/ faults < MaxFaults /\ faults' = faults + 1 /\ UNCHANGED analysis
  /\ UNCHANGED <<decided, record, pending, outbox, noted>>

\* The targets are written one by one; an entry that is there already is kept.
ensure_outbox_entry ==
  /\ First("outbox")
  /\ IF \A h \in Holders : <<op.r.n, h>> \in outbox
       THEN Wrote("outbox") /\ UNCHANGED outbox
       ELSE /\ \E h \in Holders : /\ <<op.r.n, h>> \notin outbox
                                  /\ outbox' = outbox \cup {<<op.r.n, h>>}
            /\ UNCHANGED <<op, ev, reported, world, run, minted, created>>
  /\ UNCHANGED <<decided, analysis, record, pending, noted, faults>>

register_observation ==
  /\ First("observe") /\ Wrote("observe") /\ noted' = noted \cup {op.r.n}
  /\ UNCHANGED <<decided, analysis, record, pending, outbox, faults>>

remove_pending_delivery ==
  /\ First("unpend") /\ Wrote("unpend") /\ pending' = pending \ {op.r}
  /\ UNCHANGED <<decided, analysis, record, outbox, noted, faults>>

write_adopted ==
  /\ First("adopted") /\ Wrote("adopted")
  /\ Write([analysis EXCEPT !.state = "Adopted"])
  /\ UNCHANGED <<decided, record, pending, outbox, noted, faults>>

WriteStep ==
  \/ write_intent \/ persist_pending_delivery \/ write_resolution_record
  \/ write_dispute \/ preempt_current_analysis \/ ensure_outbox_entry
  \/ register_observation \/ remove_pending_delivery \/ write_adopted

----------------------------------------------------------------------------
\* The delivery event: process_event and its retry

\* A pending delivery is taken up.  An event whose file was consumed meanwhile finds
\* the current record delivered, or another one, and writes nothing new.
recover_pending_delivery ==
  /\ Unlocked /\ ev.pc = "idle"
  /\ \E r \in pending :
       LET committed == decided = r
           mayCommit == \/ decided = None
                        \/ r.by = Human /\ r.over # 0 /\ decided.by = Automatic
       IN \/ /\ committed \/ mayCommit
             /\ ev' = [pc |-> "deliver", r |-> r]
             /\ op' = Operation("deliver", r,
                        Delivery(r) \cup (IF committed THEN {} ELSE {"record", "dispute"})
                                    \cup (IF record = r THEN {} ELSE {"record"}))
             /\ UNCHANGED pending
          \/ /\ ~committed /\ ~mayCommit
             /\ ev' = [pc |-> "complete", r |-> r]
             /\ pending' = pending \ {r} /\ UNCHANGED op
  /\ UNCHANGED <<reported, decided, analysis, record, outbox, noted, world, run, minted,
                 created, faults>>

\* Under a lock of its own the analysis the delivered record came from is closed.
complete_analysis_adoption_after_delivery ==
  /\ Unlocked /\ ev.pc = "complete"
  /\ \/ /\ IF /\ record = ev.r /\ analysis # None /\ ev.r.src = analysis.id
              /\ analysis.state = "Adopting" /\ analysis.res = ev.r
             THEN Write([analysis EXCEPT !.state = "Adopted"]) ELSE UNCHANGED analysis
        /\ ev' = NoEvent /\ UNCHANGED faults
     \/ /\ faults < MaxFaults /\ faults' = faults + 1
        /\ ev' = [ev EXCEPT !.pc = "retry"] /\ UNCHANGED analysis
  /\ UNCHANGED <<reported, decided, record, pending, outbox, noted, world, op, run,
                 minted, created>>

\* persist_retry reads the pending file and writes it back with a later deadline,
\* without the dispute lock; a consumed one is built again from the current record.
persist_retry ==
  /\ \/ /\ ev.pc = "retry"
        /\ ev' = IF ev.r \in pending \/ (record = ev.r /\ ev.r.notify)
                   THEN [ev EXCEPT !.pc = "rewrite"] ELSE NoEvent
        /\ UNCHANGED pending
     \/ /\ ev.pc = "rewrite"
        /\ pending' = pending \cup {ev.r} /\ ev' = NoEvent
  /\ UNCHANGED <<reported, decided, analysis, record, outbox, noted, world, op, run,
                 minted, created, faults>>

\* The scan for pending deliveries fails, or the retry of an event can neither be read
\* nor written: the scheduler returns the error, and the server goes on without it.
scheduler_ends ==
  /\ ev.pc \in {"idle", "retry", "rewrite"} /\ ev' = Ended
  /\ faults < MaxFaults /\ faults' = faults + 1
  /\ UNCHANGED <<disk, world, op, run, minted, created>>

----------------------------------------------------------------------------
\* Faults

\* A write fails or the request that runs the operation is dropped: the rest of the
\* operation is not done, and the error of a delivery event leads to its retry.
cut ==
  /\ op # None /\ faults < MaxFaults /\ faults' = faults + 1
  /\ op' = None
  /\ ev' = IF op.name = "deliver" THEN [ev EXCEPT !.pc = "retry"] ELSE ev
  /\ UNCHANGED <<disk, world, run, minted, created>>

\* The server dies and is started again; a scheduler that had ended runs again.
crash ==
  /\ faults < MaxFaults /\ faults' = faults + 1
  /\ op' = None /\ ev' = NoEvent /\ run' = [a \in Actors |-> Idle]
  /\ UNCHANGED <<disk, world, minted, created>>

WorkerStep(w) ==
  \/ mark_analysis_preempted(w) \/ prepare_context(w) \/ save_prepared_context(w)
  \/ acquire_phase(w) \/ save_proposal(w) \/ save_verification(w) \/ finish_failed(w)
  \/ start_reanalysis_round(w) \/ recover_analysis_adoption(w)

EventStep ==
  recover_pending_delivery \/ complete_analysis_adoption_after_delivery \/ persist_retry

Next ==
  \/ report_dispute \/ create_analysis \/ inputs_change
  \/ resolve_human \/ reject_and_replace
  \/ \E w \in Workers : WorkerStep(w)
  \/ \E a \in Actors : adopt_approved(a) \/ adopt_recheck(a) \/ abandon(a)
  \/ WriteStep \/ EventStep
  \/ cut \/ crash \/ scheduler_ends

Spec == Init /\ [][Next]_vars

\* A process that holds the lock goes on writing, the event scheduler takes up what is
\* pending until it ends, and a worker takes up what it finds: neither loop waits while
\* it has work. Nothing is assumed of the people, the inputs and the faults, nor that
\* anybody restarts the server.
FairSpec ==
  /\ Spec /\ WF_vars(WriteStep) /\ WF_vars(EventStep)
  /\ \A w \in Workers : WF_vars(WorkerStep(w) \/ adopt_recheck(w))

----------------------------------------------------------------------------
ATypeOK ==
  /\ reported \in BOOLEAN
  /\ decided \in Resolutions \cup {None}
  /\ analysis \in Analyses \cup {None}
  /\ record \in Resolutions \cup {None}
  /\ pending \in SUBSET Resolutions
  /\ outbox \in SUBSET ((1..MaxRes) \X Holders)
  /\ noted \in SUBSET (1..MaxRes)
  /\ world \in 0..MaxWorld
  /\ op \in Operations \cup {None}
  /\ run \in Runs
  /\ ev \in Events
  /\ minted \in 0..MaxRes /\ created \in 0..MaxAnalyses /\ faults \in 0..MaxFaults

Told(r) == r.n \in noted /\ (r.notify => \A h \in Holders : <<r.n, h>> \in outbox)

\* However often operations are cut, a committed resolution has either reached every
\* holder and been registered for observation, or a pending delivery still says so
\* (resolution.rs: the pending delivery is consumed last).
HoldersAreTold == decided # None => decided \in pending \/ Told(decided)

\* No holder is sent a resolution the dispute never had: an outbox entry belongs to
\* the committed resolution or to the automatic one it replaced.
OnlyDecisionsAreSent ==
  \A e \in outbox : decided # None /\ e[1] \in {decided.n, decided.over}

\* A dispute is decided once; the only change after that replaces the automatic
\* resolution a person rejected by that person's own.
DecisionsStand ==
  [][ decided # None =>
        \/ decided' = decided
        \/ /\ decided.by = Automatic /\ decided' # None
           /\ decided'.by = Human /\ decided'.over = decided.n ]_decided

\* An analysis shown as adopted has decided the dispute, possibly until a person
\* replaced it, and its resolution is not waiting to be delivered for the first time.
AdoptedIsDone ==
  (analysis # None /\ analysis.state = "Adopted") =>
    /\ decided # None
    /\ analysis.res.n \in {decided.n, decided.over}
    /\ Told(analysis.res)

\* An automatic adoption is fixed only if nothing the analysis read had changed from
\* the freezing of its context up to its verdict, whatever rounds and requests came
\* between the two locked sections of adopt_approved.
AdoptsWhatItRead ==
  (analysis # None /\ analysis.state \in {"Adopting", "Adopted"}
    /\ analysis.res.by = Automatic) => analysis.fp = analysis.seen

\* The resolution file differs from the dispute only while the pending delivery of
\* the same resolution is there to bring them together or to take it back.
RecordIsBacked == (record # None /\ record # decided) => record \in pending

\* A human resolution that is fixed on the disk wins over an adoption that has not
\* committed yet (PRD_maintainer_dispute_auto_arbitration.md:186).
HumanFirst ==
  [][ (decided = None /\ decided' # None /\ HumanIntents # {}) => decided'.by = Human ]_decided

\* A committed resolution is eventually delivered to every holder, however often its
\* delivery is cut and repeated, unless the event scheduler ends (run of
\* resolution_events.rs returns the error of a failing refill_pending or persist_retry and
\* the server does not start it again); then a restart delivers it.
DecidedIsDelivered ==
  (decided # None) ~> (decided # None /\ (Told(decided) \/ ev.pc = "ended"))

\* An adoption that has begun is eventually finished or given up.
AdoptionEnds ==
  (analysis # None /\ analysis.state = "Adopting") ~>
    (analysis # None /\ analysis.state # "Adopting")
=============================================================================
