--------------------------- MODULE AnalysisQueue ---------------------------
(***************************************************************************)
(* The scheduler of arbitration analyses in one maintainer process: the    *)
(* requests that write an analysis to disk and then enqueue it, the        *)
(* bounded channel with its placeholders, the single consumer with its     *)
(* ready and delayed queues, and the scan of the disk that takes over what *)
(* no request could enqueue but leaves out what it cannot read; and, as far *)
(* as it finishes adoptions, the worker of resolution events.              *)
(*                                                                         *)
(* What an analysis goes through is the subject of Arbitration; here a     *)
(* record only says whether the consumer still owes it a run.              *)
(***************************************************************************)
EXTENDS Naturals, Sequences, FiniteSets

CONSTANTS
  Jobs,        \* (dispute, analysis) pairs
  Requests,    \* HTTP requests in flight
  None,
  Capacity,    \* the capacity of spawn_scheduler, 64 in the server
  MaxStalls,   \* bound: runs that end with the analysis still to be done
  MaxAsks,     \* bound: requests for an analysis that exists already
  MaxFaults    \* bound: scans that fail or leave something out, ends of the worker
               \* of resolution events, and restarts

ASSUME QueueAssumption ==
  /\ None \notin Jobs
  /\ IsFiniteSet(Jobs)
  /\ Capacity \in Nat \ {0}
  /\ MaxStalls \in Nat /\ MaxAsks \in Nat /\ MaxFaults \in Nat

\* The analysis on disk.  pending: Pending to Verifying.  verified: Approved, to be
\* adopted automatically.  approved: Approved, left to a person.  waiting:
\* WaitingReanalysis.  adopting: the intent is fixed, no pending delivery is on disk.
\* delivering: Adopting with its pending delivery on disk.  over: adopted, failed,
\* unresolved or superseded.
Records == {"none", "pending", "verified", "approved", "waiting", "adopting",
            "delivering", "over"}
Adopting == {"adopting", "delivering"}
Recoverable == {"pending", "verified", "waiting"} \cup Adopting

\* PendingJob, without the attempt counter that only sets the delay; due once its
\* deadline has passed.
Entries == [job : Jobs, holds : BOOLEAN, due : BOOLEAN]
ASSUME EntryAssumption == None \notin Entries
Held(j) == [job |-> j, holds |-> TRUE, due |-> FALSE]
Unheld(j) == [job |-> j, holds |-> FALSE, due |-> FALSE]

VARIABLES
  rec,         \* the analyses on disk
  request,     \* per request: the job it has written and where its handler is
  scheduled,   \* placeholders that count against the capacity
  waiting,     \* placeholders of parked jobs
  chan,        \* the mpsc channel
  open,        \* the receiver of the channel exists
  wake,        \* the permit of recovery_wake (Notify)
  worker,      \* the consumer: pc, recovery_requested, job in hand, its verdict, scan
  ready,       \* the consumer's queue
  delayed,     \* the entries that wait for a deadline
  skipped,     \* history: jobs nobody holds that the last scan could not read
  deliverer,   \* the worker of resolution events runs
  stalls, asks, faults

placeholders == <<scheduled, waiting>>
bounds == <<stalls, asks, faults>>
around == <<skipped, deliverer>>
vars == <<rec, request, scheduled, waiting, chan, open, wake, worker, ready,
          delayed, skipped, deliverer, stalls, asks, faults>>

Idle == [pc |-> "idle", job |-> None]
Booting == [pc |-> "boot", requested |-> FALSE, cur |-> None, out |-> "none",
            scan |-> {}]

Workers == [pc : {"boot", "fill", "loop", "insert", "pop", "run", "settle",
                  "select", "dead"},
            requested : BOOLEAN,
            cur : Entries \cup {None},
            out : {"none", "retry", "park"},
            scan : SUBSET Jobs]

\* Every variable has its type; the placeholders never exceed the capacity and a job
\* is not parked and scheduled at once; the consumer has a job in hand exactly while
\* it runs and settles it.
QTypeOK ==
  /\ rec \in [Jobs -> Records]
  /\ request \in [Requests -> [pc : {"idle", "saved", "reserved"},
                               job : Jobs \cup {None}]]
  /\ \A r \in Requests : request[r].pc # "idle" => request[r].job \in Jobs
  /\ scheduled \in SUBSET Jobs /\ waiting \in SUBSET Jobs
  /\ scheduled \cap waiting = {}
  /\ Cardinality(scheduled) <= Capacity
  /\ chan \in Seq(Jobs) /\ open \in BOOLEAN /\ wake \in BOOLEAN
  /\ worker \in Workers
  /\ worker.cur # None <=> worker.pc \in {"run", "settle"}
  /\ ready \in Seq(Entries) /\ delayed \in SUBSET Entries
  /\ skipped \in SUBSET Jobs /\ deliverer \in BOOLEAN
  /\ stalls \in 0..MaxStalls /\ asks \in 0..MaxAsks /\ faults \in 0..MaxFaults

Init ==
  /\ rec = [j \in Jobs |-> "none"]
  /\ request = [r \in Requests |-> Idle]
  /\ scheduled = {} /\ waiting = {}
  /\ chan = <<>> /\ open = TRUE /\ wake = FALSE
  /\ worker = Booting
  /\ ready = <<>> /\ delayed = {}
  /\ skipped = {} /\ deliverer = TRUE
  /\ stalls = 0 /\ asks = 0 /\ faults = 0

-----------------------------------------------------------------------------
(* The requests.  A handler writes the analysis, then calls enqueue; its   *)
(* guard (AnalysisRecoveryWakeGuard, AdoptionRecoveryWakeGuard) and the    *)
(* one inside enqueue wake the scan of the disk when the client leaves.    *)

Full == Cardinality(scheduled) >= Capacity
Placed(j) == j \in scheduled \cup waiting
Reserved == {r \in Requests : request[r].pc = "reserved"}

Begin(r, j) == request' = [request EXCEPT ![r] = [pc |-> "saved", job |-> j]]
Ended(r) == request' = [request EXCEPT ![r] = Idle]

\* report_dispute of a new dispute and create_analysis: the record is on disk, the
\* queue has not heard of it.  A new analysis of a dispute supersedes the one before.
save_analysis(r, j) ==
  /\ request[r].pc = "idle" /\ rec[j] = "none"
  /\ \E K \in {{}} \cup {{k} : k \in {k \in Jobs :
                          rec[k] \in {"pending", "verified", "approved", "waiting"}}} :
       rec' = [i \in Jobs |-> IF i = j THEN "pending"
                              ELSE IF i \in K THEN "over" ELSE rec[i]]
  /\ Begin(r, j)
  /\ UNCHANGED <<scheduled, waiting, chan, open, wake, worker, ready, delayed, bounds, around>>

\* report_dispute of a dispute that exists: enqueued again when it is recoverable.
report_again(r, j) ==
  /\ request[r].pc = "idle" /\ rec[j] \in Recoverable \ {"verified"}
  /\ asks < MaxAsks /\ asks' = asks + 1
  /\ Begin(r, j)
  /\ UNCHANGED <<rec, scheduled, waiting, chan, open, wake, worker, ready, delayed,
                 stalls, faults, around>>

\* adopt_analysis by a person, of an analysis that may be in adoption already.  All of it
\* is done; or the delivery failed and is pending, and resume_adopting_analysis enqueues
\* the job unless it cannot read it; or an error or the client's leaving cuts it, before
\* or after the pending delivery is on disk, and the armed guard wakes the scan.
adopt_analysis(r, j) ==
  /\ request[r].pc = "idle" /\ rec[j] \in {"verified", "approved"} \cup Adopting
  /\ asks < MaxAsks /\ asks' = asks + 1
  /\ \/ rec' = [rec EXCEPT ![j] = "over"] /\ UNCHANGED <<request, wake>>
     \/ /\ rec' = [rec EXCEPT ![j] = "delivering"] /\ UNCHANGED wake
        /\ Begin(r, j) \/ UNCHANGED request
     \/ /\ \E s \in Adopting \cup {rec[j]} : rec' = [rec EXCEPT ![j] = s]
        /\ wake' = TRUE /\ UNCHANGED request
  /\ UNCHANGED <<scheduled, waiting, chan, open, worker, ready, delayed, stalls, faults,
                 around>>

\* adopt_analysis by a person when the inputs of an automatic analysis have changed:
\* schedule_reanalysis, then a conflict whose early return drops the armed guard.
reopen_analysis(j) ==
  /\ rec[j] = "verified" /\ asks < MaxAsks /\ asks' = asks + 1
  /\ rec' = [rec EXCEPT ![j] = "waiting"]
  /\ wake' = TRUE
  /\ UNCHANGED <<request, scheduled, waiting, chan, open, worker, ready, delayed,
                 stalls, faults, around>>

\* A resolution by a person ends the analysis (preempt_analysis_for_resolution).
preempt_analysis(j) ==
  /\ rec[j] \in {"pending", "verified", "waiting", "approved"}
  /\ rec' = [rec EXCEPT ![j] = "over"]
  /\ UNCHANGED <<request, scheduled, waiting, chan, open, wake, worker, ready,
                 delayed, bounds, around>>

\* enqueue, first look under the locks and try_reserve.
enqueue_check(r) ==
  LET j == request[r].job IN
  /\ request[r].pc = "saved"
  /\ \/ Placed(j) /\ Ended(r) /\ UNCHANGED wake
     \/ /\ ~Placed(j)
        /\ Full \/ (open /\ Len(chan) + Cardinality(Reserved) >= Capacity)
        /\ Ended(r) /\ wake' = TRUE
     \/ ~Placed(j) /\ ~Full /\ ~open /\ Ended(r) /\ UNCHANGED wake
     \/ /\ ~Placed(j) /\ ~Full /\ open /\ Len(chan) + Cardinality(Reserved) < Capacity
        /\ request' = [request EXCEPT ![r].pc = "reserved"] /\ UNCHANGED wake
  /\ UNCHANGED <<rec, scheduled, waiting, chan, open, worker, ready, delayed, bounds, around>>

\* Mutant: the second look is left out.
SendUnchecked(r) ==
  LET j == request[r].job IN
  /\ request[r].pc = "reserved" /\ Ended(r)
  /\ scheduled' = scheduled \cup {j}
  /\ chan' = IF open THEN Append(chan, j) ELSE chan
  /\ skipped' = skipped \ {j}
  /\ UNCHANGED <<rec, waiting, open, wake, worker, ready, delayed, bounds, deliverer>>

\* enqueue, second look under the locks: the placeholder and the message together.
enqueue_send(r) ==
  LET j == request[r].job IN
  /\ request[r].pc = "reserved" /\ Ended(r)
  /\ \/ Placed(j) /\ UNCHANGED <<scheduled, chan, wake, skipped>>
     \/ ~Placed(j) /\ Full /\ wake' = TRUE /\ UNCHANGED <<scheduled, chan, skipped>>
     \/ /\ ~Placed(j) /\ ~Full
        /\ scheduled' = scheduled \cup {j} /\ skipped' = skipped \ {j}
        /\ chan' = IF open THEN Append(chan, j) ELSE chan
        /\ UNCHANGED wake
  /\ UNCHANGED <<rec, waiting, open, worker, ready, delayed, bounds, deliverer>>

\* Mutant: no guard wakes the scan when the client goes away.
CancelSilently(r) ==
  /\ request[r].pc # "idle" /\ Ended(r)
  /\ UNCHANGED <<rec, scheduled, waiting, chan, open, wake, worker, ready, delayed,
                 bounds, around>>

\* The client goes away while the handler waits; the guards drop armed.
cancel_request(r) ==
  /\ request[r].pc # "idle"
  /\ Ended(r) /\ wake' = TRUE
  /\ UNCHANGED <<rec, scheduled, waiting, chan, open, worker, ready, delayed, bounds, around>>

-----------------------------------------------------------------------------
(* The consumer.                                                           *)

Goto(pc) == worker' = [worker EXCEPT !.pc = pc]
OnDisk == {j \in Jobs : rec[j] \in Recoverable}

\* recoverable_jobs returns S: a dispute or an analysis that cannot be read or decoded is
\* logged and left out, and so is all that follows an error of the listing.
recoverable_jobs(S) ==
  /\ \/ S = OnDisk /\ UNCHANGED faults
     \/ S # OnDisk /\ faults < MaxFaults /\ faults' = faults + 1
  /\ skipped' = {j \in OnDisk \ S : ~Placed(j)}

\* The first scan of run_scheduler; an error shuts the queue down.
boot_scan ==
  /\ worker.pc = "boot"
  /\ \/ \E S \in SUBSET OnDisk :
          /\ recoverable_jobs(S)
          /\ worker' = [worker EXCEPT !.pc = "fill", !.scan = S]
          /\ UNCHANGED <<scheduled, waiting, chan, open>>
     \/ /\ faults < MaxFaults /\ faults' = faults + 1
        /\ Goto("dead")
        /\ open' = FALSE /\ chan' = <<>> /\ scheduled' = {} /\ waiting' = {}
        /\ UNCHANGED skipped
  /\ UNCHANGED <<rec, request, wake, ready, delayed, stalls, asks, deliverer>>

\* One job of the first scan: a request may have enqueued it meanwhile.
boot_fill ==
  /\ worker.pc = "fill"
  /\ \/ /\ worker.scan = {} /\ Goto("loop")
        /\ UNCHANGED <<scheduled, ready>>
     \/ \E j \in worker.scan :
          /\ worker' = [worker EXCEPT !.scan = @ \ {j}, !.requested = @ \/ Full]
          /\ IF Full \/ j \in scheduled
             THEN UNCHANGED <<scheduled, ready>>
             ELSE /\ scheduled' = scheduled \cup {j}
                  /\ ready' = Append(ready, Held(j))
  /\ UNCHANGED <<rec, request, waiting, chan, open, wake, delayed, bounds, around>>

Due == {e \in delayed : e.due}

\* The head of the loop: move_due_retries, in the order of the deadlines, then a scan
\* when one was asked for and there is room.
loop_head ==
  /\ worker.pc = "loop"
  /\ \E q \in [1..Cardinality(Due) -> Due] :
       /\ \A e \in Due : \E i \in DOMAIN q : q[i] = e
       /\ ready' = ready \o q
  /\ delayed' = delayed \ Due
  /\ \/ ~(worker.requested /\ ~Full) /\ Goto("pop") /\ UNCHANGED <<faults, skipped>>
     \/ /\ worker.requested /\ ~Full
        /\ \E S \in SUBSET OnDisk :
             /\ recoverable_jobs(S)
             /\ worker' = [worker EXCEPT !.pc = "insert", !.scan = S, !.requested = FALSE]
  /\ UNCHANGED <<rec, request, scheduled, waiting, chan, open, wake, stalls, asks, deliverer>>

\* The scan fails: run_scheduler returns the error without a call of shutdown, so the
\* placeholders stay behind.
scan_fails ==
  /\ worker.pc = "loop" /\ worker.requested /\ ~Full
  /\ faults < MaxFaults /\ faults' = faults + 1
  /\ Goto("dead")
  /\ open' = FALSE /\ chan' = <<>> /\ ready' = <<>> /\ delayed' = {}
  /\ UNCHANGED <<rec, request, scheduled, waiting, wake, stalls, asks, around>>

\* Mutant: jobs that found no room are not remembered.
RefillForgets ==
  /\ worker.pc = "insert"
  /\ \/ /\ worker.scan = {} /\ Goto("pop")
        /\ UNCHANGED <<scheduled, ready>>
     \/ \E j \in worker.scan :
          /\ worker' = [worker EXCEPT !.scan = @ \ {j}]
          /\ IF Placed(j) \/ Full
             THEN UNCHANGED <<scheduled, ready>>
             ELSE /\ scheduled' = scheduled \cup {j}
                  /\ ready' = Append(ready, Held(j))
  /\ UNCHANGED <<rec, request, waiting, chan, open, wake, delayed, bounds, around>>

\* One job of refill_from_durable.
refill_from_durable ==
  /\ worker.pc = "insert"
  /\ \/ /\ worker.scan = {} /\ Goto("pop")
        /\ UNCHANGED <<scheduled, ready>>
     \/ \E j \in worker.scan :
          /\ worker' = [worker EXCEPT !.scan = @ \ {j},
                                      !.requested = @ \/ (~Placed(j) /\ Full)]
          /\ IF Placed(j) \/ Full
             THEN UNCHANGED <<scheduled, ready>>
             ELSE /\ scheduled' = scheduled \cup {j}
                  /\ ready' = Append(ready, Held(j))
  /\ UNCHANGED <<rec, request, waiting, chan, open, wake, delayed, bounds, around>>

\* Mutant: a parked job takes its place back without a look at the capacity.
ClaimAnyway(j) == j \in waiting

\* claim_waiting_capacity can take the place of a parked job.
CanClaim(j) == ~Full /\ j \in waiting

\* The front of ready: a parked job needs a place first, and waits again without one.
pop_ready ==
  /\ worker.pc = "pop"
  /\ \/ /\ ready = <<>> /\ Goto("select")
        /\ UNCHANGED <<scheduled, waiting, ready, delayed>>
     \/ /\ ready # <<>> /\ ~Head(ready).holds /\ ~CanClaim(Head(ready).job)
        /\ ready' = Tail(ready) /\ delayed' = delayed \cup {Unheld(Head(ready).job)}
        /\ worker' = [worker EXCEPT !.pc = "loop", !.requested = TRUE]
        /\ UNCHANGED <<scheduled, waiting>>
     \/ /\ ready # <<>> /\ (Head(ready).holds \/ CanClaim(Head(ready).job))
        /\ ready' = Tail(ready)
        /\ worker' = [worker EXCEPT !.pc = "run",
                                    !.cur = Held(Head(ready).job)]
        /\ IF Head(ready).holds
           THEN UNCHANGED placeholders
           ELSE /\ waiting' = waiting \ {Head(ready).job}
                /\ scheduled' = scheduled \cup {Head(ready).job}
        /\ UNCHANGED delayed
  /\ UNCHANGED <<rec, request, chan, open, wake, bounds, around>>

Judge(s, out) ==
  /\ rec' = [rec EXCEPT ![worker.cur.job] = s]
  /\ worker' = [worker EXCEPT !.pc = "settle", !.out = out]

\* run_one: process_analysis, and what its result says about another run.  A run may
\* finish the analysis, leave it to a person, or stop short: on a lease, a context that
\* is not ready or an error (retry), or on inputs that changed (park).
run_one ==
  LET s == rec[worker.cur.job] IN
  /\ worker.pc = "run"
  /\ \/ s \in {"approved", "over"} /\ Judge(s, "none") /\ UNCHANGED stalls
     \/ s \in Recoverable /\ Judge("over", "none") /\ UNCHANGED stalls
     \/ s \in {"pending", "waiting"} /\ Judge("approved", "none") /\ UNCHANGED stalls
     \/ /\ stalls < MaxStalls /\ stalls' = stalls + 1
        /\ \/ s \in Recoverable /\ Judge(s, "retry")
           \/ s \in {"pending", "waiting"} /\ Judge("pending", "retry")
           \/ s \in {"pending", "waiting"} /\ Judge("verified", "retry")
           \/ s \in Recoverable /\ \E a \in Adopting : Judge(a, "retry")
           \/ s \in {"pending", "waiting", "verified"} /\ Judge("waiting", "park")
  /\ UNCHANGED <<request, scheduled, waiting, chan, open, wake, ready, delayed, asks,
                 faults, around>>

\* After run_one: the placeholder of a finished job goes; a job that is to be tried
\* again keeps it; a job that waits for its next round gives its place away, and may
\* find the time of that round passed.
settle ==
  LET j == worker.cur.job IN
  /\ worker.pc = "settle"
  /\ worker' = [worker EXCEPT !.pc = "loop", !.cur = None,
                              !.requested = @ \/ worker.out = "park"]
  /\ scheduled' = IF worker.out = "retry" THEN scheduled ELSE scheduled \ {j}
  /\ waiting' = IF worker.out = "park" THEN waiting \cup {j} ELSE waiting
  /\ \/ worker.out = "none" /\ UNCHANGED delayed
     \/ worker.out = "retry" /\ delayed' = delayed \cup {Held(j)}
     \/ /\ worker.out = "park"
        /\ \E passed \in BOOLEAN :
             delayed' = delayed \cup {[Unheld(j) EXCEPT !.due = passed]}
  /\ UNCHANGED <<rec, request, chan, open, wake, ready, bounds, around>>

\* The biased select at the bottom of the loop: a message, else the wake, else a
\* deadline.
receive ==
  /\ worker.pc = "select" /\ chan # <<>>
  /\ ready' = Append(ready, Held(Head(chan)))
  /\ chan' = Tail(chan) /\ Goto("loop")
  /\ UNCHANGED <<rec, request, scheduled, waiting, open, wake, delayed, bounds, around>>

notified ==
  /\ worker.pc = "select" /\ chan = <<>> /\ wake
  /\ wake' = FALSE /\ worker' = [worker EXCEPT !.pc = "loop", !.requested = TRUE]
  /\ UNCHANGED <<rec, request, scheduled, waiting, chan, open, ready, delayed, bounds, around>>

deadline ==
  /\ worker.pc = "select" /\ chan = <<>> /\ ~wake
  /\ Due # {}
  /\ Goto("loop")
  /\ UNCHANGED <<rec, request, scheduled, waiting, chan, open, wake, ready, delayed,
                 bounds, around>>

-----------------------------------------------------------------------------

\* The worker of resolution events finishes an adoption whose delivery is pending on
\* disk, whether or not this queue knows of it (recover_pending_delivery, then
\* complete_analysis_adoption_after_delivery).  The server starts it without the recovery
\* of adoptions when analyses are enabled, so it never sees one that is only adopting.
deliver_pending(j) ==
  /\ deliverer /\ rec[j] = "delivering"
  /\ rec' = [rec EXCEPT ![j] = "over"]
  /\ UNCHANGED <<request, scheduled, waiting, chan, open, wake, worker, ready,
                 delayed, bounds, around>>

\* Deliveries cut where the pending file is gone and the analysis still adopting.
Cut(K) ==
  /\ \A j \in K : rec[j] = "delivering"
  /\ rec' = [j \in Jobs |-> IF j \in K THEN "adopting" ELSE rec[j]]

\* The worker of resolution events ends on a scan or a retry it cannot store, between
\* events or within one; the server goes on without it.
scheduler_ends ==
  /\ deliverer /\ deliverer' = FALSE
  /\ faults < MaxFaults /\ faults' = faults + 1
  /\ \E K \in {{}} \cup {{j} : j \in Jobs} : Cut(K)
  /\ UNCHANGED <<request, scheduled, waiting, chan, open, wake, worker, ready, delayed,
                 skipped, stalls, asks>>

\* A deadline passes.  The shortest delay is a second: it passes while the consumer
\* waits or runs an analysis, not between two of its other steps.
expire(j) ==
  /\ worker.pc \in {"select", "run"}
  /\ \E e \in delayed : /\ e.job = j /\ ~e.due
                       /\ delayed' = (delayed \ {e}) \cup {[e EXCEPT !.due = TRUE]}
  /\ UNCHANGED <<rec, request, scheduled, waiting, chan, open, wake, worker, ready,
                 bounds, around>>

\* The server stops or crashes, and starts again with nothing but its disk.
restart ==
  /\ faults < MaxFaults /\ faults' = faults + 1
  /\ request' = [r \in Requests |-> Idle]
  /\ scheduled' = {} /\ waiting' = {}
  /\ chan' = <<>> /\ open' = TRUE /\ wake' = FALSE
  /\ worker' = Booting /\ ready' = <<>> /\ delayed' = {}
  /\ skipped' = {} /\ deliverer' = TRUE
  /\ \E K \in SUBSET Jobs : Cut(K)
  /\ UNCHANGED <<stalls, asks>>

Serve ==
  \E r \in Requests :
    \/ \E j \in Jobs : save_analysis(r, j) \/ report_again(r, j) \/ adopt_analysis(r, j)
    \/ enqueue_check(r) \/ enqueue_send(r) \/ cancel_request(r)

Consume ==
  \/ boot_scan \/ boot_fill \/ loop_head \/ refill_from_durable \/ pop_ready
  \/ scan_fails \/ run_one \/ settle \/ receive \/ notified \/ deadline

Others ==
  \/ \E j \in Jobs : \/ reopen_analysis(j) \/ preempt_analysis(j)
                     \/ deliver_pending(j) \/ expire(j)
  \/ scheduler_ends \/ restart

Next == Serve \/ Consume \/ Others

Spec == Init /\ [][Next]_vars

\* The consumer runs, and so does the worker of resolution events until it ends; a
\* deadline passes, and a handler that is not cancelled goes on.
Fairness ==
  /\ WF_vars(Consume)
  /\ \A j \in Jobs : SF_vars(expire(j)) /\ WF_vars(deliver_pending(j))
  /\ \A r \in Requests : WF_vars(enqueue_check(r)) /\ WF_vars(enqueue_send(r))

FairSpec == Spec /\ Fairness

-----------------------------------------------------------------------------
Tickets(j) == Cardinality({i \in DOMAIN chan : chan[i] = j})
              + Cardinality({i \in DOMAIN ready : ready[i].job = j})
              + Cardinality({e \in delayed : e.job = j})
              + IF worker.cur # None /\ worker.cur.job = j THEN 1 ELSE 0

\* While the consumer lives a job has a placeholder exactly when it has one entry in
\* the channel or in the consumer's queues, and never two: an analysis is neither run
\* twice for one request nor kept out of the queue by a placeholder nobody holds.
OneTicket ==
  worker.pc # "dead" => \A j \in Jobs : Tickets(j) = IF Placed(j) THEN 1 ELSE 0

InFlight(j) == \E r \in Requests : request[r].pc # "idle" /\ request[r].job = j

\* An analysis that is still to be done has a placeholder, or a request that has not
\* finished with it, or a scan of the disk is under way or certain to come, unless the
\* last scan could not read it.  An adoption may have none of these when its delivery is
\* pending: enqueue trusts the placeholder of a run that is just ending, and the worker of
\* resolution events is left to finish it; when that worker has ended, nobody is.
NeverForgotten ==
  worker.pc # "dead" =>
    \A j \in Jobs : rec[j] \in Recoverable =>
      \/ Placed(j) \/ InFlight(j) \/ wake \/ worker.requested
      \/ worker.pc = "boot" \/ j \in worker.scan \/ j \in skipped
      \/ rec[j] = "delivering" \/ (rec[j] = "adopting" /\ ~deliverer)

\* An analysis on disk that can go on is brought to an end without a restart, unless a
\* failed scan has ended the consumer, the last scan could not read it, or it is being
\* adopted and the worker of resolution events has ended.
AnalysisEnds ==
  \A j \in Jobs :
    rec[j] \in Recoverable ~>
      \/ rec[j] \notin Recoverable \/ worker.pc = "dead" \/ j \in skipped
      \/ rec[j] \in Adopting /\ ~deliverer
=============================================================================
