------------------------- MODULE AnalysisQueueProofs -------------------------
(***************************************************************************)
(* The queue of analyses never exceeds its capacity, forgets no analysis   *)
(* and queues none twice, for any jobs, requests, capacity and faults.     *)
(***************************************************************************)
EXTENDS AnalysisQueue, FiniteSetTheorems, SequenceTheorems, TLAPS

\* The parts of the type invariant.
TRecords ==
  /\ rec \in [Jobs -> Records]
  /\ request \in [Requests -> [pc : {"idle", "saved", "reserved"},
                               job : Jobs \cup {None}]]
  /\ \A r \in Requests : request[r].pc # "idle" => request[r].job \in Jobs
TPlaces ==
  /\ scheduled \in SUBSET Jobs /\ waiting \in SUBSET Jobs
  /\ scheduled \cap waiting = {}
  /\ Cardinality(scheduled) <= Capacity
TQueues ==
  /\ chan \in Seq(Jobs) /\ open \in BOOLEAN /\ wake \in BOOLEAN
  /\ ready \in Seq(Entries) /\ delayed \in SUBSET Entries
TWorker ==
  /\ worker \in Workers
  /\ worker.cur # None <=> worker.pc \in {"run", "settle"}
TBounds == stalls \in 0..MaxStalls /\ asks \in 0..MaxAsks /\ faults \in 0..MaxFaults

TAround == skipped \in SUBSET Jobs /\ deliverer \in BOOLEAN

\* What this queue owes a run: an adoption whose delivery is pending is the other worker's,
\* and one that worker has left behind is nobody's.
Ours(j) == \/ rec[j] \in {"pending", "verified", "waiting"}
           \/ rec[j] = "adopting" /\ deliverer

\* Nothing is parked before the first scan is over.
IBoot == worker.pc \in {"boot", "fill"} => waiting = {}

\* The channel is closed exactly when the consumer is gone.
IOpen == open <=> worker.pc # "dead"

\* Whatever the queue and its producers mention is on the disk.
IKnown ==
  /\ \A r \in Requests : request[r].pc # "idle" => rec[request[r].job] # "none"
  /\ \A i \in DOMAIN chan : rec[chan[i]] # "none"
  /\ \A i \in DOMAIN ready : rec[ready[i].job] # "none"
  /\ \A e \in delayed : rec[e.job] # "none"
  /\ worker.cur # None => rec[worker.cur.job] # "none"
  /\ \A j \in worker.scan : rec[j] # "none"

\* A run that ends for good but finds its analysis reopened has a wake behind it.
ISettle ==
  worker.pc = "settle" /\ worker.out = "none" /\ Ours(worker.cur.job) => wake

\* The type invariant is its parts.
LEMMA TypeParts ==
  QTypeOK <=> TRecords /\ TPlaces /\ TQueues /\ TWorker /\ TAround /\ TBounds
  BY DEF QTypeOK, TRecords, TPlaces, TQueues, TWorker, TAround, TBounds

----------------------------------------------------------------------------
\* Types

\* One more placeholder fits when the queue is not full.
LEMMA PlaceFits ==
  ASSUME TPlaces, ~Full, NEW j \in Jobs
  PROVE  Cardinality(scheduled \cup {j}) <= Capacity
<1>1. IsFiniteSet(scheduled)
  BY FS_Subset, QueueAssumption DEF TPlaces
<1>2. Cardinality(scheduled) \in Nat
  BY <1>1, FS_CardinalityType
<1>3. Cardinality(scheduled \cup {j}) <= Cardinality(scheduled) + 1
  BY <1>1, <1>2, FS_AddElement
<1>4. Cardinality(scheduled \cup {j}) \in Nat
  BY <1>1, FS_AddElement, FS_CardinalityType
<1>5. QED BY <1>2, <1>3, <1>4, QueueAssumption DEF Full, TPlaces

\* And one less always does.
LEMMA PlaceFreed ==
  ASSUME TPlaces, NEW j \in Jobs
  PROVE  Cardinality(scheduled \ {j}) <= Capacity
<1>1. IsFiniteSet(scheduled)
  BY FS_Subset, QueueAssumption DEF TPlaces
<1>2. /\ IsFiniteSet(scheduled \ {j})
      /\ Cardinality(scheduled \ {j}) <= Cardinality(scheduled)
  BY <1>1, FS_Subset
<1>3. Cardinality(scheduled) \in Nat /\ Cardinality(scheduled \ {j}) \in Nat
  BY <1>1, <1>2, FS_CardinalityType
<1>4. QED BY <1>2, <1>3, QueueAssumption DEF TPlaces

\* A request keeps its type when it begins, moves on or ends.
LEMMA RequestType ==
  ASSUME TRecords, NEW r \in Requests
  PROVE  /\ Ended(r) \/ (\E j \in Jobs : Begin(r, j))
              \/ (request[r].pc # "idle" /\ request' = [request EXCEPT ![r].pc = "reserved"])
            => /\ request' \in [Requests -> [pc : {"idle", "saved", "reserved"},
                                             job : Jobs \cup {None}]]
               /\ \A q \in Requests : request'[q].pc # "idle" => request'[q].job \in Jobs
  BY DEF TRecords, Ended, Begin, Idle

\* The records and the requests.
LEMMA RecordsNext ==
  ASSUME QTypeOK, [Next]_vars
  PROVE  TRecords'
<1> USE TypeParts DEF TRecords, Records, Recoverable, Adopting
<1>1. ASSUME NEW r \in Requests, NEW j \in Jobs,
             save_analysis(r, j) \/ report_again(r, j) \/ adopt_analysis(r, j)
      PROVE  TRecords'
  <2>1. rec' \in [Jobs -> Records]
    BY <1>1 DEF save_analysis, report_again, adopt_analysis
  <2>2. Begin(r, j) \/ UNCHANGED request
    BY <1>1, Zenon DEF save_analysis, report_again, adopt_analysis
  <2>3. QED BY <2>1, <2>2, RequestType
<1>2. ASSUME NEW r \in Requests, enqueue_check(r) \/ enqueue_send(r) \/ cancel_request(r)
      PROVE  TRecords'
  <2>1. UNCHANGED rec
    BY <1>2 DEF enqueue_check, enqueue_send, cancel_request
  <2>2. Ended(r) \/ (request[r].pc # "idle"
                     /\ request' = [request EXCEPT ![r].pc = "reserved"])
    BY <1>2 DEF enqueue_check, enqueue_send, cancel_request
  <2>3. QED BY <2>1, <2>2, RequestType
<1>3. CASE run_one
  <2>1. worker.cur \in Entries
    BY <1>3, EntryAssumption DEF run_one, TWorker, Workers
  <2>2. worker.cur.job \in Jobs
    BY <2>1 DEF Entries
  <2>3. QED BY <1>3, <2>2 DEF run_one, Judge
<1>4. ASSUME NEW j \in Jobs, reopen_analysis(j) \/ preempt_analysis(j)
                             \/ deliver_pending(j) \/ expire(j)
      PROVE  TRecords'
  BY <1>4 DEF reopen_analysis, preempt_analysis, deliver_pending, expire
<1>5. CASE restart \/ scheduler_ends
  <2>1. rec' \in [Jobs -> Records]
    BY <1>5 DEF restart, scheduler_ends, Cut
  <2>2. QED BY <1>5, <2>1 DEF restart, scheduler_ends, Idle
<1>6. CASE \/ boot_scan \/ boot_fill \/ loop_head \/ refill_from_durable \/ pop_ready
           \/ scan_fails \/ settle \/ receive \/ notified \/ deadline
  BY <1>6 DEF boot_scan, boot_fill, loop_head, refill_from_durable, pop_ready, scan_fails,
     settle, receive, notified, deadline
<1>7. CASE UNCHANGED vars
  BY <1>7 DEF vars
<1>8. QED BY <1>1, <1>2, <1>3, <1>4, <1>5, <1>6, <1>7 DEF Next, Serve, Consume, Others

\* The entry in hand and the entry at the front name jobs.
LEMMA EntryJobs ==
  ASSUME QTypeOK
  PROVE  /\ worker.pc \in {"run", "settle"} => worker.cur \in Entries /\ worker.cur.job \in Jobs
         /\ ready # <<>> => Head(ready) \in Entries /\ Head(ready).job \in Jobs
                            /\ Tail(ready) \in Seq(Entries)
         /\ chan # <<>> => Head(chan) \in Jobs /\ Tail(chan) \in Seq(Jobs)
         /\ worker.scan \in SUBSET Jobs
         /\ \A j \in Jobs : Held(j) \in Entries /\ Unheld(j) \in Entries
<1>1. worker.pc \in {"run", "settle"} => worker.cur \in Entries
  BY TypeParts, EntryAssumption DEF TWorker, Workers
<1>2. ready # <<>> => Head(ready) \in Entries /\ Tail(ready) \in Seq(Entries)
  BY TypeParts DEF TQueues
<1>3. chan # <<>> => Head(chan) \in Jobs /\ Tail(chan) \in Seq(Jobs)
  BY TypeParts DEF TQueues
<1>4. \A e \in Entries : e.job \in Jobs
  BY DEF Entries
<1>5. worker.scan \in SUBSET Jobs
  BY TypeParts DEF TWorker, Workers
<1>6. \A j \in Jobs : Held(j) \in Entries /\ Unheld(j) \in Entries
  BY Zenon DEF Held, Unheld, Entries
<1>7. QED BY <1>1, <1>2, <1>3, <1>4, <1>5, <1>6

\* The placeholders stay within the capacity.
LEMMA PlacesNext ==
  ASSUME QTypeOK, IBoot, [Next]_vars
  PROVE  TPlaces'
<1>0. TPlaces /\ TRecords
  BY TypeParts
<1>1. ASSUME NEW r \in Requests, enqueue_send(r)
      PROVE  TPlaces'
  <2>1. request[r].job \in Jobs
    BY <1>0, <1>1 DEF enqueue_send, TRecords
  <2>2. CASE UNCHANGED scheduled
    BY <1>0, <1>1, <2>2 DEF enqueue_send, TPlaces
  <2>3. CASE scheduled' = scheduled \cup {request[r].job} /\ ~Placed(request[r].job) /\ ~Full
    BY <1>0, <1>1, <2>1, <2>3, PlaceFits DEF enqueue_send, TPlaces, Placed
  <2>4. QED BY <1>1, <2>2, <2>3 DEF enqueue_send
<1>2. CASE boot_scan
  <2>1. CASE UNCHANGED <<scheduled, waiting>>
    BY <1>0, <2>1 DEF TPlaces
  <2>2. CASE scheduled' = {} /\ waiting' = {}
    BY <2>2, FS_EmptySet, QueueAssumption DEF TPlaces
  <2>3. QED BY <1>2, <2>1, <2>2 DEF boot_scan
<1>3. CASE boot_fill
  <2>1. CASE UNCHANGED scheduled
    BY <1>0, <1>3, <2>1 DEF boot_fill, TPlaces
  <2>2. ASSUME NEW j \in worker.scan, scheduled' = scheduled \cup {j}, ~Full
        PROVE  TPlaces'
    BY <1>0, <1>3, <2>2, EntryJobs, PlaceFits DEF boot_fill, TPlaces, IBoot
  <2>3. QED BY <1>3, <2>1, <2>2 DEF boot_fill
<1>4. CASE refill_from_durable
  <2>1. CASE UNCHANGED scheduled
    BY <1>0, <1>4, <2>1 DEF refill_from_durable, TPlaces
  <2>2. ASSUME NEW j \in worker.scan, scheduled' = scheduled \cup {j}, ~Full, ~Placed(j)
        PROVE  TPlaces'
    BY <1>0, <1>4, <2>2, EntryJobs, PlaceFits DEF refill_from_durable, TPlaces, Placed
  <2>3. QED BY <1>4, <2>1, <2>2 DEF refill_from_durable
<1>5. CASE pop_ready
  <2>1. CASE UNCHANGED <<scheduled, waiting>>
    BY <1>0, <2>1 DEF TPlaces
  <2>2. CASE /\ ready # <<>> /\ CanClaim(Head(ready).job)
             /\ waiting' = waiting \ {Head(ready).job}
             /\ scheduled' = scheduled \cup {Head(ready).job}
    BY <1>0, <2>2, EntryJobs, PlaceFits DEF CanClaim, TPlaces
  <2>3. QED BY <1>5, <2>1, <2>2 DEF pop_ready, placeholders
<1>6. CASE settle
  <2>1. worker.cur.job \in Jobs
    BY <1>6, EntryJobs DEF settle
  <2>2. CASE worker.out = "retry"
    BY <1>0, <1>6, <2>2 DEF settle, TPlaces
  <2>3. CASE worker.out # "retry"
    BY <1>0, <1>6, <2>1, <2>3, PlaceFreed DEF settle, TPlaces
  <2>4. QED BY <2>2, <2>3
<1>7. CASE restart
  BY <1>7, FS_EmptySet, QueueAssumption DEF restart, TPlaces
<1>8. ASSUME UNCHANGED <<scheduled, waiting>>
      PROVE  TPlaces'
  BY <1>0, <1>8 DEF TPlaces
<1>9. ASSUME NEW r \in Requests,
             \/ \E j \in Jobs : save_analysis(r, j) \/ report_again(r, j) \/ adopt_analysis(r, j)
             \/ enqueue_check(r) \/ cancel_request(r)
      PROVE  TPlaces'
  BY <1>8, <1>9 DEF save_analysis, report_again, adopt_analysis, enqueue_check, cancel_request
<1>10. CASE loop_head \/ scan_fails \/ run_one \/ receive \/ notified \/ deadline
            \/ scheduler_ends
  BY <1>8, <1>10 DEF loop_head, scan_fails, run_one, receive, notified, deadline, scheduler_ends
<1>11. ASSUME NEW j \in Jobs, \/ reopen_analysis(j) \/ preempt_analysis(j)
                              \/ deliver_pending(j) \/ expire(j)
       PROVE  TPlaces'
  BY <1>8, <1>11 DEF reopen_analysis, preempt_analysis, deliver_pending, expire
<1>12. CASE UNCHANGED vars
  BY <1>8, <1>12 DEF vars
<1>13. QED BY <1>1, <1>2, <1>3, <1>4, <1>5, <1>6, <1>7, <1>9, <1>10, <1>11, <1>12
           DEF Next, Serve, Consume, Others

\* There are finitely many entries.
LEMMA EntriesFinite == IsFiniteSet(Entries)
<1> DEFINE P == Jobs \X (BOOLEAN \X BOOLEAN)
           f == [x \in P |-> [job |-> x[1], holds |-> x[2][1], due |-> x[2][2]]]
<1>1. IsFiniteSet({TRUE}) /\ IsFiniteSet({TRUE} \cup {FALSE})
  BY FS_Singleton, FS_AddElement
<1>2. BOOLEAN = {TRUE} \cup {FALSE}
  OBVIOUS
<1>3. IsFiniteSet(BOOLEAN)
  BY <1>1, <1>2, Zenon
<1>4. IsFiniteSet(P)
  BY <1>3, FS_Product, QueueAssumption
<1>5. f \in [P -> Entries]
  BY DEF Entries
<1>6. \A e \in Entries : \E x \in P : f[x] = e
  <2>1. TAKE e \in Entries
  <2>2. <<e.job, <<e.holds, e.due>>>> \in P
    BY DEF Entries
  <2>3. f[<<e.job, <<e.holds, e.due>>>>] = e
    BY <2>2 DEF Entries
  <2>4. QED BY <2>2, <2>3
<1>7. f \in Surjection(P, Entries)
  BY <1>5, <1>6 DEF Surjection, Range
<1>8. QED BY <1>4, <1>7, FS_Surjection

\* The channel, the consumer's queues and the wake.
LEMMA QueuesNext ==
  ASSUME QTypeOK, [Next]_vars
  PROVE  TQueues'
<1>0. TQueues /\ TRecords
  BY TypeParts
<1>a. chan \in Seq(Jobs) /\ ready \in Seq(Entries) /\ delayed \in SUBSET Entries
  BY <1>0 DEF TQueues
<1>1. ASSUME NEW r \in Requests, enqueue_send(r)
      PROVE  TQueues'
  <2>1. request[r].job \in Jobs
    BY <1>0, <1>1 DEF enqueue_send, TRecords
  <2>2. chan' \in Seq(Jobs)
    BY <1>0, <1>1, <2>1 DEF enqueue_send, TQueues
  <2>3. wake' \in BOOLEAN
    BY <1>0, <1>1, Zenon DEF enqueue_send, TQueues
  <2>4. QED BY <1>0, <1>1, <2>2, <2>3, Zenon DEF enqueue_send, TQueues
<1>2. ASSUME NEW r \in Requests,
             \/ \E j \in Jobs : save_analysis(r, j) \/ report_again(r, j) \/ adopt_analysis(r, j)
             \/ enqueue_check(r) \/ cancel_request(r)
      PROVE  TQueues'
  <2>1. wake' \in BOOLEAN
    BY <1>0, <1>2, Zenon DEF TQueues, save_analysis, report_again, adopt_analysis,
       enqueue_check, cancel_request
  <2>2. UNCHANGED <<chan, open, ready, delayed>>
    BY <1>2 DEF save_analysis, report_again, adopt_analysis, enqueue_check, cancel_request
  <2>3. QED BY <1>0, <2>1, <2>2, Zenon DEF TQueues
<1>3. CASE boot_fill \/ refill_from_durable
  <2>1. \/ UNCHANGED ready
        \/ \E j \in worker.scan : ready' = Append(ready, Held(j))
    BY <1>3 DEF boot_fill, refill_from_durable
  <2>a. ready' \in Seq(Entries)
    BY <1>a, <2>1, EntryJobs
  <2>2. QED BY <1>0, <1>3, <2>a, Zenon DEF TQueues, boot_fill, refill_from_durable
<1>4. CASE loop_head
  <2>1. PICK q \in [1..Cardinality(Due) -> Due] : ready' = ready \o q
    BY <1>4 DEF loop_head
  <2>2. IsFiniteSet(Due)
    BY <1>0, EntriesFinite, FS_Subset DEF Due, TQueues
  <2>3. Cardinality(Due) \in Nat
    BY <2>2, FS_CardinalityType
  <2>a. Due \in SUBSET Entries
    BY <1>a DEF Due
  <2>4. q \in Seq(Entries)
    BY <2>1, <2>3, <2>a
  <2>5. ready' \in Seq(Entries)
    BY <1>a, <2>1, <2>4
  <2>6. QED BY <1>0, <1>4, <2>5, Zenon DEF TQueues, loop_head
<1>5. CASE pop_ready
  <2>1. ready' \in Seq(Entries) /\ delayed' \in SUBSET Entries
    BY <1>a, <1>5, EntryJobs DEF pop_ready
  <2>2. QED BY <1>0, <1>5, <2>1, Zenon DEF TQueues, pop_ready
<1>6. CASE settle
  <2>1. \A b \in BOOLEAN : [Unheld(worker.cur.job) EXCEPT !.due = b] \in Entries
    BY <1>6, EntryJobs DEF settle, Entries, Unheld
  <2>a. \E e \in Entries : delayed' = delayed \/ delayed' = delayed \cup {e}
    BY <1>6, <2>1, EntryJobs, Zenon DEF settle
  <2>2. delayed' \in SUBSET Entries
    BY <1>a, <2>a
  <2>3. QED BY <1>0, <1>6, <2>2, Zenon DEF TQueues, settle
<1>7. CASE receive
  <2>1. ready' \in Seq(Entries) /\ chan' \in Seq(Jobs)
    BY <1>a, <1>7, EntryJobs DEF receive
  <2>2. QED BY <1>0, <1>7, <2>1, Zenon DEF TQueues, receive
<1>8. CASE boot_scan \/ scan_fails \/ restart
  <2>1. /\ ready' = ready \/ ready' = <<>>
        /\ chan' = chan \/ chan' = <<>>
        /\ delayed' = delayed \/ delayed' = {}
        /\ open' = open \/ open' = TRUE \/ open' = FALSE
        /\ wake' = wake \/ wake' = FALSE
    BY <1>8, Zenon DEF boot_scan, scan_fails, restart
  <2>2. ready' \in Seq(Entries) /\ chan' \in Seq(Jobs) /\ delayed' \in SUBSET Entries
    <3>1. <<>> \in Seq(Entries) /\ <<>> \in Seq(Jobs)
      OBVIOUS
    <3>2. QED BY <1>a, <2>1, <3>1, Zenon
  <2>3. open' \in BOOLEAN /\ wake' \in BOOLEAN
    BY <1>0, <2>1, Zenon DEF TQueues
  <2>4. QED BY <2>2, <2>3 DEF TQueues
<1>9. CASE run_one \/ notified \/ deadline \/ scheduler_ends
  BY <1>0, <1>9, Zenon DEF TQueues, run_one, notified, deadline, scheduler_ends
<1>10. ASSUME NEW j \in Jobs, \/ reopen_analysis(j) \/ preempt_analysis(j)
                              \/ deliver_pending(j)
       PROVE  TQueues'
  BY <1>0, <1>10, Zenon DEF TQueues, reopen_analysis, preempt_analysis, deliver_pending
<1>11. ASSUME NEW j \in Jobs, expire(j)
       PROVE  TQueues'
  <2>1. delayed' \in SUBSET Entries
    BY <1>a, <1>11 DEF expire, Entries
  <2>2. QED BY <1>0, <1>11, <2>1, Zenon DEF TQueues, expire
<1>12. CASE UNCHANGED vars
  BY <1>0, <1>12, Zenon DEF TQueues, vars
<1>13. QED BY <1>1, <1>2, <1>3, <1>4, <1>5, <1>6, <1>7, <1>8, <1>9, <1>10, <1>11, <1>12
           DEF Next, Serve, Consume, Others

\* The consumer.
LEMMA WorkerNext ==
  ASSUME QTypeOK, [Next]_vars
  PROVE  TWorker'
<1>0. TWorker
  BY TypeParts
<1>1. OnDisk \in SUBSET Jobs
  BY DEF OnDisk
<1>2. CASE boot_scan \/ boot_fill \/ loop_head \/ refill_from_durable
  <2>1. CASE boot_scan
    <3>1. \/ \E S \in SUBSET Jobs : worker' = [worker EXCEPT !.pc = "fill", !.scan = S]
          \/ worker' = [worker EXCEPT !.pc = "dead"]
      BY <1>1, <2>1 DEF boot_scan, Goto
    <3>2. QED BY <1>0, <2>1, <3>1 DEF TWorker, Workers, boot_scan
  <2>2. CASE boot_fill
    <3>1. CASE Goto("loop") /\ worker.pc = "fill"
      BY <1>0, <3>1 DEF TWorker, Workers, Goto
    <3>2. ASSUME NEW j \in worker.scan, NEW b \in BOOLEAN,
                 worker' = [worker EXCEPT !.scan = @ \ {j}, !.requested = b]
          PROVE  TWorker'
      BY <1>0, <3>2 DEF TWorker, Workers
    <3>3. QED BY <2>2, <3>1, <3>2, Zenon DEF boot_fill
  <2>3. CASE loop_head
    <3>1. \/ \E S \in SUBSET Jobs :
               worker' = [worker EXCEPT !.pc = "insert", !.scan = S, !.requested = FALSE]
          \/ worker' = [worker EXCEPT !.pc = "pop"]
      BY <1>1, <2>3 DEF loop_head, Goto
    <3>2. worker.pc = "loop"
      BY <2>3 DEF loop_head
    <3>3. QED BY ONLY <1>0, <3>1, <3>2 DEF TWorker, Workers
  <2>4. CASE refill_from_durable
    <3>1. CASE Goto("pop") /\ worker.pc = "insert"
      BY <1>0, <3>1 DEF TWorker, Workers, Goto
    <3>2. ASSUME NEW j \in worker.scan, NEW b \in BOOLEAN,
                 worker' = [worker EXCEPT !.scan = @ \ {j}, !.requested = b]
          PROVE  TWorker'
      BY <1>0, <3>2 DEF TWorker, Workers
    <3>3. QED BY <2>4, <3>1, <3>2, Zenon DEF refill_from_durable
  <2>5. QED BY <1>2, <2>1, <2>2, <2>3, <2>4
<1>3. CASE pop_ready
  <2>1. CASE Goto("select") /\ worker.pc = "pop"
    BY <1>0, <2>1 DEF TWorker, Workers, Goto
  <2>2. CASE worker.pc = "pop" /\ worker' = [worker EXCEPT !.pc = "loop", !.requested = TRUE]
    BY <1>0, <2>2 DEF TWorker, Workers
  <2>3. CASE ready # <<>> /\ worker' = [worker EXCEPT !.pc = "run", !.cur = Held(Head(ready).job)]
    <3>1. Held(Head(ready).job) \in Entries
      BY <2>3, EntryJobs
    <3>2. QED BY <1>0, <2>3, <3>1, EntryAssumption DEF TWorker, Workers
  <2>4. QED BY <1>3, <2>1, <2>2, <2>3, Zenon DEF pop_ready
<1>4. CASE scan_fails \/ run_one \/ settle
  BY <1>0, <1>4 DEF TWorker, Workers, scan_fails, run_one, Judge, settle, Goto
<1>5. CASE receive \/ notified \/ deadline
  BY <1>0, <1>5 DEF TWorker, Workers, receive, notified, deadline, Goto
<1>6. CASE restart
  BY <1>6 DEF TWorker, Workers, restart, Booting
<1>7. CASE UNCHANGED worker
  BY <1>0, <1>7 DEF TWorker
<1>8. CASE Serve
  <2>1. UNCHANGED worker
    BY <1>8 DEF Serve, save_analysis, report_again, adopt_analysis, enqueue_check,
       enqueue_send, cancel_request
  <2>2. QED BY <1>7, <2>1
<1>9. ASSUME NEW j \in Jobs, \/ reopen_analysis(j) \/ preempt_analysis(j)
                             \/ deliver_pending(j) \/ expire(j)
      PROVE  TWorker'
  BY <1>7, <1>9 DEF reopen_analysis, preempt_analysis, deliver_pending, expire
<1>11. CASE scheduler_ends
  BY <1>7, <1>11 DEF scheduler_ends
<1>10. QED BY <1>2, <1>3, <1>4, <1>5, <1>6, <1>7, <1>8, <1>9, <1>11
           DEF Next, Consume, Others, vars

\* The counters stay within their bounds.
LEMMA BoundsNext ==
  ASSUME QTypeOK, [Next]_vars
  PROVE  TBounds'
<1> USE QueueAssumption DEF TBounds, bounds
<1>0. TBounds
  BY TypeParts
<1>1. CASE Serve
  BY <1>0, <1>1 DEF Serve, save_analysis, report_again, adopt_analysis, enqueue_check,
     enqueue_send, cancel_request
<1>2. CASE boot_scan \/ loop_head \/ scan_fails
  <2>1. /\ UNCHANGED <<stalls, asks>>
        /\ UNCHANGED faults \/ (faults < MaxFaults /\ faults' = faults + 1)
    BY <1>2, Zenon DEF boot_scan, loop_head, scan_fails, recoverable_jobs
  <2>2. QED BY <1>0, <2>1
<1>7. CASE \/ boot_fill \/ refill_from_durable \/ pop_ready
           \/ settle \/ receive \/ notified \/ deadline
  <2>1. UNCHANGED bounds
    BY <1>7, Zenon DEF boot_fill, refill_from_durable, pop_ready, settle, receive,
       notified, deadline
  <2>2. QED BY <1>0, <2>1
<1>3. CASE run_one
  BY <1>0, <1>3 DEF run_one
<1>4. CASE Others
  BY <1>0, <1>4 DEF Others, reopen_analysis, preempt_analysis, deliver_pending, expire,
     scheduler_ends, restart
<1>5. CASE UNCHANGED vars
  BY <1>0, <1>5 DEF vars
<1>6. QED BY <1>1, <1>2, <1>3, <1>4, <1>5, <1>7 DEF Next, Consume

\* What a scan leaves out, and the worker of resolution events.
LEMMA AroundNext ==
  ASSUME QTypeOK, [Next]_vars
  PROVE  TAround'
<1>0. TAround /\ TRecords
  BY TypeParts
<1>1. ASSUME NEW r \in Requests, enqueue_send(r)
      PROVE  TAround'
  <2>1. UNCHANGED deliverer /\ skipped' \subseteq skipped
    BY <1>1 DEF enqueue_send
  <2>2. QED BY <1>0, <2>1 DEF TAround
<1>2. CASE boot_scan \/ loop_head
  <2>1. UNCHANGED deliverer /\ (UNCHANGED skipped \/ \E S : recoverable_jobs(S))
    BY <1>2, Zenon DEF boot_scan, loop_head
  <2>2. \A S : recoverable_jobs(S) => skipped' \subseteq Jobs
    BY DEF recoverable_jobs, OnDisk
  <2>3. QED BY <1>0, <2>1, <2>2 DEF TAround
<1>3. CASE scheduler_ends \/ restart
  BY <1>0, <1>3 DEF scheduler_ends, restart, TAround
<1>4. CASE UNCHANGED around
  BY <1>0, <1>4 DEF around, TAround
<1>5. ASSUME NEW r \in Requests,
             \/ \E j \in Jobs : save_analysis(r, j) \/ report_again(r, j) \/ adopt_analysis(r, j)
             \/ enqueue_check(r) \/ cancel_request(r)
      PROVE  UNCHANGED around
  BY <1>5, Zenon DEF save_analysis, report_again, adopt_analysis, enqueue_check, cancel_request
<1>6. CASE \/ boot_fill \/ refill_from_durable \/ pop_ready \/ scan_fails \/ run_one
           \/ settle \/ receive \/ notified \/ deadline
  <2>1. UNCHANGED around
    BY <1>6, Zenon DEF boot_fill, refill_from_durable, pop_ready, scan_fails, run_one,
       settle, receive, notified, deadline
  <2>2. QED BY <1>4, <2>1
<1>7. ASSUME NEW j \in Jobs, \/ reopen_analysis(j) \/ preempt_analysis(j)
                             \/ deliver_pending(j) \/ expire(j)
      PROVE  UNCHANGED around
  BY <1>7, Zenon DEF reopen_analysis, preempt_analysis, deliver_pending, expire
<1>8. CASE UNCHANGED vars
  BY <1>4, <1>8 DEF vars, around
<1>9. QED BY <1>1, <1>2, <1>3, <1>4, <1>5, <1>6, <1>7, <1>8 DEF Next, Serve, Consume, Others

\* Every step keeps the types.
LEMMA TypeNext == QTypeOK /\ IBoot /\ [Next]_vars => QTypeOK'
  BY RecordsNext, PlacesNext, QueuesNext, WorkerNext, AroundNext, BoundsNext
     DEF QTypeOK, TRecords, TPlaces, TQueues, TWorker, TAround, TBounds

----------------------------------------------------------------------------
\* The consumer's life

\* Nothing is parked before the first scan is over, and the channel closes with the
\* consumer.
LEMMA LifeNext == QTypeOK /\ IBoot /\ IOpen /\ [Next]_vars => IBoot' /\ IOpen'
<1> SUFFICES ASSUME QTypeOK, IBoot, IOpen, [Next]_vars
             PROVE  IBoot' /\ IOpen'
  OBVIOUS
<1> USE DEF IBoot, IOpen
<1>0. worker \in Workers /\ (worker.cur # None <=> worker.pc \in {"run", "settle"})
  BY DEF QTypeOK
<1>1. CASE UNCHANGED <<worker, open, waiting>>
  BY <1>1
<1>2. CASE Serve
  <2>1. UNCHANGED <<worker, open, waiting>>
    BY <1>2 DEF Serve, save_analysis, report_again, adopt_analysis, enqueue_check,
       enqueue_send, cancel_request
  <2>2. QED BY <1>1, <2>1
<1>3. CASE boot_scan
  <2>1. \/ worker'.pc = "fill" /\ UNCHANGED <<waiting, open>>
        \/ worker'.pc = "dead" /\ open' = FALSE
    BY <1>0, <1>3 DEF boot_scan, Goto, Workers
  <2>2. QED BY <1>3, <2>1 DEF boot_scan
<1>12. CASE boot_fill
  BY <1>0, <1>12 DEF boot_fill, Goto, Workers
<1>4. CASE loop_head \/ scan_fails
  <2>1. \/ worker'.pc \in {"insert", "pop"} /\ UNCHANGED open
        \/ worker'.pc = "dead" /\ open' = FALSE
    BY <1>0, <1>4 DEF loop_head, scan_fails, Goto, Workers
  <2>2. QED BY <1>4, <2>1 DEF loop_head, scan_fails
<1>13. CASE scheduler_ends
  BY <1>1, <1>13 DEF scheduler_ends
<1>5. CASE refill_from_durable
  BY <1>0, <1>5 DEF refill_from_durable, Goto, Workers
<1>6. CASE pop_ready
  <2>1. worker.pc = "pop" /\ worker'.pc \in {"select", "loop", "run"} /\ UNCHANGED open
    BY <1>0, <1>6 DEF pop_ready, Goto, Workers
  <2>2. QED BY <2>1
<1>7. CASE run_one \/ settle
  BY <1>0, <1>7 DEF run_one, Judge, settle, Workers
<1>8. CASE receive \/ notified \/ deadline
  BY <1>0, <1>8 DEF receive, notified, deadline, Goto, Workers
<1>9. CASE restart
  BY <1>9 DEF restart, Booting
<1>10. ASSUME NEW j \in Jobs, \/ reopen_analysis(j) \/ preempt_analysis(j)
                              \/ deliver_pending(j) \/ expire(j)
       PROVE  IBoot' /\ IOpen'
  BY <1>1, <1>10 DEF reopen_analysis, preempt_analysis, deliver_pending, expire
<1>11. QED BY <1>1, <1>2, <1>3, <1>4, <1>5, <1>6, <1>7, <1>8, <1>9, <1>10, <1>12, <1>13
           DEF Next, Consume, Others, vars

----------------------------------------------------------------------------
\* Whatever is queued is on the disk

\* An analysis is never taken off the disk.
LEMMA RecordsStay ==
  ASSUME QTypeOK, [Next]_vars
  PROVE  \A j \in Jobs : rec[j] # "none" => rec'[j] # "none"
<1>0. rec \in [Jobs -> Records]
  BY DEF QTypeOK
<1>1. CASE UNCHANGED rec
  BY <1>1
<1>2. ASSUME NEW r \in Requests, NEW k \in Jobs, save_analysis(r, k)
      PROVE  \A j \in Jobs : rec[j] # "none" => rec'[j] # "none"
  BY <1>0, <1>2 DEF save_analysis
<1>3. ASSUME NEW r \in Requests, NEW k \in Jobs, adopt_analysis(r, k)
      PROVE  \A j \in Jobs : rec[j] # "none" => rec'[j] # "none"
  BY <1>0, <1>3 DEF adopt_analysis, Adopting
<1>4. ASSUME NEW k \in Jobs, reopen_analysis(k) \/ preempt_analysis(k) \/ deliver_pending(k)
      PROVE  \A j \in Jobs : rec[j] # "none" => rec'[j] # "none"
  BY <1>0, <1>4 DEF reopen_analysis, preempt_analysis, deliver_pending
<1>5. CASE run_one
  <2>1. worker.cur.job \in Jobs
    BY <1>5, EntryJobs DEF run_one
  <2>2. QED BY <1>0, <1>5, <2>1 DEF run_one, Judge, Recoverable, Adopting
<1>6. ASSUME NEW r \in Requests,
             \/ \E j \in Jobs : report_again(r, j)
             \/ enqueue_check(r) \/ enqueue_send(r) \/ cancel_request(r)
      PROVE  UNCHANGED rec
  BY <1>6 DEF report_again, enqueue_check, enqueue_send, cancel_request
<1>7. CASE \/ boot_scan \/ boot_fill \/ loop_head \/ refill_from_durable \/ pop_ready
           \/ scan_fails \/ settle \/ receive \/ notified \/ deadline
           \/ \E j \in Jobs : expire(j)
  <2>1. UNCHANGED rec
    BY <1>7, Zenon DEF boot_scan, boot_fill, loop_head, refill_from_durable, pop_ready,
       scan_fails, settle, receive, notified, deadline, expire
  <2>2. QED BY <2>1
<1>9. CASE restart \/ scheduler_ends
  BY <1>9 DEF restart, scheduler_ends, Cut
<1>8. QED BY <1>1, <1>2, <1>3, <1>4, <1>5, <1>6, <1>7, <1>9 DEF Next, Serve, Consume, Others, vars

\* The parts of IKnown.
KRequests == \A r \in Requests : request[r].pc # "idle" => rec[request[r].job] # "none"
KChan == \A i \in DOMAIN chan : rec[chan[i]] # "none"
KReady == \A i \in DOMAIN ready : rec[ready[i].job] # "none"
KDelayed == \A e \in delayed : rec[e.job] # "none"
KWorker == /\ worker.cur # None => rec[worker.cur.job] # "none"
           /\ \A j \in worker.scan : rec[j] # "none"

\* A job a handler works on has been written.
LEMMA KRequestsNext ==
  ASSUME QTypeOK, IKnown, [Next]_vars
  PROVE  KRequests'
<1>0. TRecords
  BY TypeParts
<1>1. \A j \in Jobs : rec[j] # "none" => rec'[j] # "none"
  BY RecordsStay
<1>2. \A r \in Requests : request[r].pc # "idle" =>
         request[r].job \in Jobs /\ rec'[request[r].job] # "none"
  BY <1>0, <1>1 DEF IKnown, TRecords
<1>3. CASE UNCHANGED request
  BY <1>2, <1>3 DEF KRequests
<1>4. ASSUME NEW r \in Requests, NEW j \in Jobs, Begin(r, j), rec'[j] # "none"
      PROVE  KRequests'
  BY <1>0, <1>2, <1>4 DEF KRequests, Begin, TRecords
<1>5. ASSUME NEW r \in Requests, NEW j \in Jobs,
             save_analysis(r, j) \/ report_again(r, j) \/ adopt_analysis(r, j)
      PROVE  KRequests'
  <2>1. Begin(r, j) => rec'[j] # "none"
    BY <1>0, <1>5 DEF save_analysis, report_again, adopt_analysis, TRecords, Recoverable,
       Adopting
  <2>2. Begin(r, j) \/ UNCHANGED request
    BY <1>5, Zenon DEF save_analysis, report_again, adopt_analysis
  <2>3. QED BY <1>3, <1>4, <2>1, <2>2
<1>6. ASSUME NEW r \in Requests, enqueue_check(r) \/ enqueue_send(r) \/ cancel_request(r)
      PROVE  KRequests'
  <2>1. Ended(r) \/ (request[r].pc # "idle"
                     /\ request' = [request EXCEPT ![r].pc = "reserved"])
    BY <1>6 DEF enqueue_check, enqueue_send, cancel_request
  <2>2. QED BY <1>0, <1>2, <2>1 DEF KRequests, Ended, Idle, TRecords
<1>7. CASE restart
  BY <1>7 DEF restart, Idle, KRequests
<1>8. CASE \/ boot_scan \/ boot_fill \/ loop_head \/ refill_from_durable \/ pop_ready
           \/ scan_fails \/ run_one \/ settle \/ receive \/ notified \/ deadline
  <2>1. UNCHANGED request
    BY <1>8, Zenon DEF boot_scan, boot_fill, loop_head, refill_from_durable, pop_ready,
       scan_fails, run_one, settle, receive, notified, deadline
  <2>2. QED BY <1>3, <2>1
<1>9. ASSUME NEW j \in Jobs, \/ reopen_analysis(j) \/ preempt_analysis(j)
                             \/ deliver_pending(j) \/ expire(j)
      PROVE  KRequests'
  BY <1>3, <1>9 DEF reopen_analysis, preempt_analysis, deliver_pending, expire
<1>11. CASE scheduler_ends
  BY <1>3, <1>11 DEF scheduler_ends
<1>10. QED BY <1>3, <1>5, <1>6, <1>7, <1>8, <1>9, <1>11 DEF Next, Serve, Consume, Others, vars

\* So has a job in the channel.
LEMMA KChanNext ==
  ASSUME QTypeOK, IKnown, [Next]_vars
  PROVE  KChan'
<1>0. TRecords /\ chan \in Seq(Jobs)
  BY TypeParts DEF TQueues
<1>1. \A j \in Jobs : rec[j] # "none" => rec'[j] # "none"
  BY RecordsStay
<1>2. \A i \in DOMAIN chan : rec'[chan[i]] # "none"
  BY <1>0, <1>1 DEF IKnown
<1>3. CASE UNCHANGED chan
  BY <1>2, <1>3 DEF KChan
<1>4. CASE chan' = <<>>
  BY <1>4 DEF KChan
<1>5. ASSUME NEW r \in Requests, enqueue_send(r)
      PROVE  KChan'
  <2>1. request[r].job \in Jobs /\ rec'[request[r].job] # "none"
    BY <1>0, <1>1, <1>5 DEF enqueue_send, TRecords, IKnown
  <2>2. CASE chan' = Append(chan, request[r].job)
    BY <1>0, <1>2, <2>1, <2>2 DEF KChan
  <2>3. QED BY <1>3, <1>5, <2>2 DEF enqueue_send
<1>6. CASE receive
  BY <1>0, <1>2, <1>6 DEF receive, KChan
<1>7. CASE boot_scan \/ scan_fails \/ restart
  BY <1>3, <1>4, <1>7 DEF boot_scan, scan_fails, restart
<1>8. ASSUME NEW r \in Requests,
             \/ \E j \in Jobs : save_analysis(r, j) \/ report_again(r, j) \/ adopt_analysis(r, j)
             \/ enqueue_check(r) \/ cancel_request(r)
      PROVE  KChan'
  BY <1>3, <1>8 DEF save_analysis, report_again, adopt_analysis, enqueue_check, cancel_request
<1>9. CASE \/ boot_fill \/ loop_head \/ refill_from_durable \/ pop_ready
           \/ run_one \/ settle \/ notified \/ deadline
  <2>1. UNCHANGED chan
    BY <1>9, Zenon DEF boot_fill, loop_head, refill_from_durable, pop_ready, run_one,
       settle, notified, deadline
  <2>2. QED BY <1>3, <2>1
<1>10. ASSUME NEW j \in Jobs, \/ reopen_analysis(j) \/ preempt_analysis(j)
                              \/ deliver_pending(j) \/ expire(j)
       PROVE  KChan'
  BY <1>3, <1>10 DEF reopen_analysis, preempt_analysis, deliver_pending, expire
<1>12. CASE scheduler_ends
  BY <1>3, <1>12 DEF scheduler_ends
<1>11. QED BY <1>3, <1>5, <1>6, <1>7, <1>8, <1>9, <1>10, <1>12 DEF Next, Serve, Consume, Others, vars

\* The steps of the requests and of the other actors leave the consumer's state alone.
LEMMA OthersAside ==
  ASSUME [Next]_vars, ~Consume, ~restart
  PROVE  /\ UNCHANGED <<worker, ready>>
         /\ UNCHANGED delayed \/ \E j \in Jobs : expire(j)
<1>1. CASE Serve
  BY <1>1 DEF Serve, save_analysis, report_again, adopt_analysis, enqueue_check,
     enqueue_send, cancel_request
<1>2. ASSUME NEW j \in Jobs, \/ reopen_analysis(j) \/ preempt_analysis(j)
                             \/ deliver_pending(j) \/ expire(j)
      PROVE  /\ UNCHANGED <<worker, ready>>
             /\ UNCHANGED delayed \/ \E k \in Jobs : expire(k)
  BY <1>2 DEF reopen_analysis, preempt_analysis, deliver_pending, expire
<1>4. CASE scheduler_ends
  BY <1>4 DEF scheduler_ends
<1>3. QED BY <1>1, <1>2, <1>4 DEF Next, Others, vars

\* So has a job in the consumer's queues or hands.
LEMMA KConsumerNext ==
  ASSUME QTypeOK, IKnown, [Next]_vars
  PROVE  KReady' /\ KDelayed' /\ KWorker'
<1>0. /\ TRecords /\ chan \in Seq(Jobs) /\ ready \in Seq(Entries)
      /\ delayed \in SUBSET Entries /\ worker \in Workers
      /\ worker.cur # None <=> worker.pc \in {"run", "settle"}
  BY TypeParts DEF TQueues, TWorker
<1>1. \A j \in Jobs : rec[j] # "none" => rec'[j] # "none"
  BY RecordsStay
<1>j. \A e \in Entries : e.job \in Jobs
  BY DEF Entries
<1>2. \A i \in DOMAIN ready : rec'[ready[i].job] # "none"
  BY <1>0, <1>1, <1>j DEF IKnown
<1>3. \A e \in delayed : rec'[e.job] # "none"
  BY <1>0, <1>1, <1>j DEF IKnown
<1>4. worker.cur # None => rec'[worker.cur.job] # "none"
  BY <1>0, <1>1, EntryJobs DEF IKnown
<1>5. \A j \in worker.scan : rec'[j] # "none"
  BY <1>1, EntryJobs DEF IKnown
<1>6. UNCHANGED ready => KReady'
  BY <1>2 DEF KReady
<1>7. UNCHANGED delayed => KDelayed'
  BY <1>3 DEF KDelayed
<1>8. worker'.cur = worker.cur /\ worker'.scan \subseteq worker.scan => KWorker'
  BY <1>4, <1>5 DEF KWorker
<1>9. ASSUME NEW j \in Jobs, rec'[j] # "none", ready' = Append(ready, Held(j))
      PROVE  KReady'
  <2>1. Held(j).job = j /\ Held(j) \in Entries
    BY Zenon, EntryJobs DEF Held
  <2>2. QED BY <1>0, <1>2, <1>9, <2>1 DEF KReady
<1>10. CASE boot_scan
  <2>1. UNCHANGED <<ready, delayed>>
    BY <1>10 DEF boot_scan
  <2>2. OnDisk \subseteq {j \in Jobs : rec[j] # "none"}
    BY DEF OnDisk, Recoverable, Adopting
  <2>3. worker'.cur = worker.cur /\ worker'.scan \subseteq worker.scan \cup OnDisk
    BY <1>0, <1>10 DEF boot_scan, Goto, Workers
  <2>4. KWorker'
    BY <1>1, <1>4, <1>5, <2>2, <2>3 DEF KWorker
  <2>5. QED BY <1>6, <1>7, <2>1, <2>4
<1>11. CASE boot_fill \/ refill_from_durable
  <2>1. UNCHANGED delayed
    BY <1>11 DEF boot_fill, refill_from_durable
  <2>2. UNCHANGED ready \/ \E j \in worker.scan : ready' = Append(ready, Held(j))
    BY <1>11, Zenon DEF boot_fill, refill_from_durable
  <2>3. KReady'
    BY <1>5, <1>6, <1>9, <2>2, EntryJobs
  <2>4. \/ \E p \in {"loop", "pop"} : worker' = [worker EXCEPT !.pc = p]
        \/ \E j \in worker.scan : \E b :
             worker' = [worker EXCEPT !.scan = @ \ {j}, !.requested = b]
    <3>1. CASE boot_fill
      BY ONLY <3>1, Zenon DEF boot_fill, Goto
    <3>2. CASE refill_from_durable
      BY ONLY <3>2, Zenon DEF refill_from_durable, Goto
    <3>3. QED BY <1>11, <3>1, <3>2
  <2>5. worker'.cur = worker.cur /\ worker'.scan \subseteq worker.scan
    BY ONLY <1>0, <2>4 DEF Workers
  <2>6. QED BY <1>7, <1>8, <2>1, <2>3, <2>5
<1>12. CASE loop_head
  <2>1. PICK q \in [1..Cardinality(Due) -> Due] : ready' = ready \o q
    BY <1>12 DEF loop_head
  <2>2. Due \subseteq delayed /\ IsFiniteSet(Due) /\ Cardinality(Due) \in Nat
    BY <1>0, EntriesFinite, FS_Subset, FS_CardinalityType DEF Due
  <2>3. q \in Seq(Entries)
    BY <1>0, <2>1, <2>2
  <2>4. \A i \in DOMAIN q : rec'[q[i].job] # "none"
    BY <1>3, <2>1, <2>2
  <2>5. KReady'
    <3>1. ASSUME NEW i \in DOMAIN ready'
          PROVE  rec'[ready'[i].job] # "none"
      <4>1. /\ Len(ready) \in Nat /\ Len(q) \in Nat
            /\ DOMAIN ready = 1..Len(ready) /\ DOMAIN q = 1..Len(q)
            /\ DOMAIN ready' = 1..(Len(ready) + Len(q))
        BY <1>0, <2>1, <2>3
      <4>2. CASE i <= Len(ready)
        <5>1. i \in DOMAIN ready /\ ready'[i] = ready[i]
          BY <1>0, <2>1, <2>3, <3>1, <4>1, <4>2
        <5>2. QED BY <1>2, <5>1
      <4>3. CASE i > Len(ready)
        <5>1. i - Len(ready) \in DOMAIN q /\ ready'[i] = q[i - Len(ready)]
          BY <1>0, <2>1, <2>3, <3>1, <4>1, <4>3
        <5>2. QED BY <2>4, <5>1
      <4>4. QED BY <3>1, <4>1, <4>2, <4>3
    <3>2. QED BY <3>1 DEF KReady
  <2>6. delayed' \subseteq delayed
    BY <1>12 DEF loop_head
  <2>7. KDelayed'
    BY <1>3, <2>6 DEF KDelayed
  <2>8. OnDisk \subseteq {j \in Jobs : rec[j] # "none"}
    BY DEF OnDisk, Recoverable, Adopting
  <2>9. worker'.cur = worker.cur /\ worker'.scan \subseteq worker.scan \cup OnDisk
    BY <1>0, <1>12 DEF loop_head, Goto, Workers
  <2>10. KWorker'
    BY <1>1, <1>4, <1>5, <2>8, <2>9 DEF KWorker
  <2>11. QED BY <2>5, <2>7, <2>10
<1>13. CASE pop_ready
  <2>1. CASE ready = <<>>
    <3>1. UNCHANGED <<ready, delayed>> /\ Goto("select")
      BY <1>13, <2>1 DEF pop_ready
    <3>2. worker'.cur = worker.cur /\ worker'.scan \subseteq worker.scan
      BY <1>0, <3>1 DEF Goto, Workers
    <3>3. QED BY <1>6, <1>7, <1>8, <3>1, <3>2
  <2>2. CASE ready # <<>>
    <3>1. Head(ready).job \in Jobs /\ rec'[Head(ready).job] # "none"
      BY <1>0, <1>2, <2>2, EntryJobs
    <3>2. ready' = Tail(ready)
      BY <1>13, <2>2, Zenon DEF pop_ready
    <3>3. KReady'
      BY <1>0, <1>2, <2>2, <3>2 DEF KReady
    <3>4. UNCHANGED delayed \/ delayed' = delayed \cup {Unheld(Head(ready).job)}
      BY <1>13, <2>2, Zenon DEF pop_ready
    <3>5. KDelayed'
      BY <1>3, <3>1, <3>4 DEF KDelayed, Unheld
    <3>6. \/ worker' = [worker EXCEPT !.pc = "loop", !.requested = TRUE]
          \/ worker' = [worker EXCEPT !.pc = "run", !.cur = Held(Head(ready).job)]
      BY <1>13, <2>2, Zenon DEF pop_ready
    <3>7. worker'.scan = worker.scan
          /\ (worker'.cur = worker.cur \/ worker'.cur = Held(Head(ready).job))
      BY <1>0, <3>6 DEF Workers
    <3>8. Held(Head(ready).job).job = Head(ready).job
      BY Zenon DEF Held
    <3>9. KWorker'
      BY <1>4, <1>5, <3>1, <3>7, <3>8 DEF KWorker
    <3>10. QED BY <3>3, <3>5, <3>9
  <2>3. QED BY <2>1, <2>2
<1>14. CASE settle
  <2>1. worker.cur.job \in Jobs /\ rec'[worker.cur.job] # "none"
    BY <1>0, <1>4, <1>14, EntryJobs DEF settle
  <2>2. \A e \in delayed' : e \in delayed \/ e.job = worker.cur.job
    BY <1>14 DEF settle, Held, Unheld
  <2>3. KDelayed'
    BY <1>3, <2>1, <2>2 DEF KDelayed
  <2>4. UNCHANGED ready /\ worker'.cur = None /\ worker'.scan = worker.scan
    BY <1>0, <1>14 DEF settle, Workers
  <2>5. QED BY <1>5, <1>6, <2>3, <2>4 DEF KWorker
<1>15. CASE receive
  <2>1. Head(chan) \in Jobs /\ rec'[Head(chan)] # "none"
    BY <1>0, <1>1, <1>15, EntryJobs DEF receive, IKnown
  <2>2. KReady'
    BY <1>9, <1>15, <2>1 DEF receive
  <2>3. UNCHANGED delayed /\ worker'.cur = worker.cur /\ worker'.scan = worker.scan
    BY <1>0, <1>15 DEF receive, Goto, Workers
  <2>4. QED BY <1>7, <1>8, <2>2, <2>3
<1>16. CASE scan_fails \/ restart
  <2>1. ready' = <<>> /\ delayed' = {}
    BY <1>16 DEF scan_fails, restart
  <2>2. KReady' /\ KDelayed'
    BY <2>1 DEF KReady, KDelayed
  <2>3. \/ worker'.cur = worker.cur /\ worker'.scan = worker.scan
        \/ worker'.cur = None /\ worker'.scan = {}
    BY <1>0, <1>16 DEF scan_fails, restart, Goto, Booting, Workers
  <2>4. QED BY <1>8, <2>2, <2>3 DEF KWorker
<1>17. CASE run_one \/ notified \/ deadline
  <2>1. UNCHANGED <<ready, delayed>>
    BY <1>17 DEF run_one, notified, deadline
  <2>2. worker'.cur = worker.cur /\ worker'.scan = worker.scan
    BY <1>0, <1>17 DEF run_one, Judge, notified, deadline, Goto, Workers
  <2>3. QED BY <1>6, <1>7, <1>8, <2>1, <2>2
<1>18. ASSUME NEW j \in Jobs, expire(j)
       PROVE  KDelayed'
  <2>1. \A e \in delayed' : \E d \in delayed : e.job = d.job
    BY <1>0, <1>18 DEF expire, Entries
  <2>2. QED BY <1>3, <2>1 DEF KDelayed
<1>19. CASE ~Consume /\ ~restart
  <2>1. UNCHANGED <<worker, ready>> /\ KDelayed'
    BY <1>7, <1>18, <1>19, OthersAside
  <2>2. QED BY <1>6, <1>8, <2>1
<1>20. QED BY <1>10, <1>11, <1>12, <1>13, <1>14, <1>15, <1>16, <1>17, <1>19 DEF Consume

\* Whatever is queued stays on the disk.
LEMMA KnownNext == QTypeOK /\ IKnown /\ [Next]_vars => IKnown'
  BY KRequestsNext, KChanNext, KConsumerNext
     DEF IKnown, KRequests, KChan, KReady, KDelayed, KWorker

----------------------------------------------------------------------------
\* One ticket

\* Where a job may be: in the channel, in ready or delayed with or without its place, or
\* in the consumer's hand.
InChan(j) == \E i \in DOMAIN chan : chan[i] = j
InReady(j, h) == \E i \in DOMAIN ready : ready[i].job = j /\ ready[i].holds = h
InDelayed(j, h) == \E e \in delayed : e.job = j /\ e.holds = h
InHand(j) == worker.cur # None /\ worker.cur.job = j

ChanOnce(j) == \A i, k \in DOMAIN chan : chan[i] = j /\ chan[k] = j => i = k
ReadyOnce(j) == \A i, k \in DOMAIN ready : ready[i].job = j /\ ready[k].job = j => i = k
DelayedOnce(j) == \A e, f \in delayed : e.job = j /\ f.job = j => e = f
Once(j) == ChanOnce(j) /\ ReadyOnce(j) /\ DelayedOnce(j)

\* It is in one of them only.
Apart(j) ==
  /\ ~(InChan(j) /\ InReady(j, TRUE)) /\ ~(InChan(j) /\ InDelayed(j, TRUE))
  /\ ~(InChan(j) /\ InHand(j)) /\ ~(InReady(j, TRUE) /\ InDelayed(j, TRUE))
  /\ ~(InReady(j, TRUE) /\ InHand(j)) /\ ~(InDelayed(j, TRUE) /\ InHand(j))
  /\ ~(InReady(j, FALSE) /\ InDelayed(j, FALSE))

\* A placeholder that counts stands for an entry that holds its place, and a
\* placeholder of a parked job for one that does not.
Backed(j) ==
  /\ j \in scheduled <=> InChan(j) \/ InReady(j, TRUE) \/ InDelayed(j, TRUE) \/ InHand(j)
  /\ j \in waiting <=> InReady(j, FALSE) \/ InDelayed(j, FALSE)

Ticket(j) == Apart(j) /\ Backed(j) /\ Once(j)
ITicket == worker.pc # "dead" => \A j \in Jobs : Ticket(j)

\* The channel at its two ends.
LEMMA ChanAppend ==
  ASSUME chan \in Seq(Jobs), NEW k \in Jobs, chan' = Append(chan, k), NEW j
  PROVE  /\ InChan(j)' <=> InChan(j) \/ j = k
         /\ ChanOnce(j) /\ ~(j = k /\ InChan(j)) => ChanOnce(j)'
<1>1. Len(chan) \in Nat /\ DOMAIN chan = 1 .. Len(chan) /\ DOMAIN chan' = 1 .. Len(chan) + 1
      /\ chan'[Len(chan) + 1] = k /\ \A i \in 1 .. Len(chan) : chan'[i] = chan[i]
  OBVIOUS
<1>2. InChan(j)' <=> InChan(j) \/ j = k
  BY <1>1 DEF InChan
<1>3. ASSUME ChanOnce(j), ~(j = k /\ InChan(j)) PROVE ChanOnce(j)'
  BY <1>1, <1>3 DEF ChanOnce, InChan
<1>4. QED BY <1>2, <1>3

LEMMA ChanTail ==
  ASSUME chan \in Seq(Jobs), chan # <<>>, chan' = Tail(chan), NEW j, ChanOnce(j)
  PROVE  /\ InChan(j)' <=> InChan(j) /\ j # Head(chan)
         /\ ChanOnce(j)' /\ (j = Head(chan) => InChan(j))
<1>1. Len(chan) \in Nat \ {0} /\ DOMAIN chan = 1 .. Len(chan)
      /\ DOMAIN chan' = 1 .. Len(chan) - 1 /\ Head(chan) = chan[1]
      /\ \A i \in 1 .. Len(chan) - 1 : chan'[i] = chan[i + 1]
  OBVIOUS
<1>2. ASSUME NEW i \in DOMAIN chan, i # 1 PROVE i - 1 \in DOMAIN chan' /\ chan'[i - 1] = chan[i]
  BY <1>1, <1>2
<1>3. ASSUME NEW i \in DOMAIN chan' PROVE i + 1 \in DOMAIN chan /\ i + 1 # 1 /\ chan[i + 1] = chan'[i]
  BY <1>1
<1>4. 1 \in DOMAIN chan
  BY <1>1
<1>5. InChan(j) /\ j # Head(chan) => InChan(j)'
  BY <1>1, <1>2 DEF InChan
<1>6. InChan(j)' => InChan(j) /\ j # Head(chan)
  BY <1>1, <1>3, <1>4 DEF InChan, ChanOnce
<1>7. ChanOnce(j)'
  <2>1. SUFFICES ASSUME NEW i \in DOMAIN chan', NEW k \in DOMAIN chan', chan'[i] = j, chan'[k] = j
                 PROVE  i = k
    BY DEF ChanOnce
  <2>2. i + 1 = k + 1
    BY <1>3, <2>1 DEF ChanOnce
  <2>3. QED BY <1>1, <2>2
<1>8. j = Head(chan) => InChan(j)
  BY <1>1, <1>4 DEF InChan
<1>9. QED BY <1>5, <1>6, <1>7, <1>8

\* What an entry holds is a truth value.
LEMMA EntryHolds == \A x \in Entries : x.holds \in BOOLEAN
  BY Zenon DEF Entries

\* The ready queue at its two ends.
LEMMA ReadyAppend ==
  ASSUME ready \in Seq(Entries), NEW x \in Entries, ready' = Append(ready, x), NEW j
  PROVE  /\ \A h : InReady(j, h)' <=> InReady(j, h) \/ (j = x.job /\ h = x.holds)
         /\ ReadyOnce(j) /\ ~(j = x.job /\ \E h \in BOOLEAN : InReady(j, h)) => ReadyOnce(j)'
<1>1. Len(ready) \in Nat /\ DOMAIN ready = 1 .. Len(ready)
      /\ DOMAIN ready' = 1 .. Len(ready) + 1
      /\ ready'[Len(ready) + 1] = x /\ \A i \in 1 .. Len(ready) : ready'[i] = ready[i]
  OBVIOUS
<1>2. ASSUME NEW h PROVE InReady(j, h)' <=> InReady(j, h) \/ (j = x.job /\ h = x.holds)
  BY <1>1 DEF InReady
<1>3. ASSUME ReadyOnce(j), ~(j = x.job /\ \E h \in BOOLEAN : InReady(j, h)) PROVE ReadyOnce(j)'
  <2>0. \A i \in DOMAIN ready : ready[i] \in Entries
    OBVIOUS
  <2>1. \A i \in DOMAIN ready : ready[i].holds \in BOOLEAN
    BY <2>0, EntryHolds, Zenon
  <2>2. \A i \in DOMAIN ready : ready[i].job = j => j # x.job
    BY <1>3, <2>1 DEF InReady
  <2>3. QED BY <1>1, <1>3, <2>2 DEF ReadyOnce
<1>4. QED BY <1>2, <1>3

LEMMA ReadyTail ==
  ASSUME ready \in Seq(Entries), ready # <<>>, ready' = Tail(ready), NEW j, ReadyOnce(j)
  PROVE  /\ \A h : InReady(j, h)' <=> InReady(j, h) /\ j # Head(ready).job
         /\ ReadyOnce(j)'
         /\ j = Head(ready).job =>
              InReady(j, Head(ready).holds) /\ ~InReady(j, ~Head(ready).holds)
<1>1. Len(ready) \in Nat \ {0} /\ DOMAIN ready = 1 .. Len(ready)
      /\ DOMAIN ready' = 1 .. Len(ready) - 1 /\ Head(ready) = ready[1]
      /\ \A i \in 1 .. Len(ready) - 1 : ready'[i] = ready[i + 1]
  OBVIOUS
<1>2. ASSUME NEW i \in DOMAIN ready, i # 1
      PROVE  i - 1 \in DOMAIN ready' /\ ready'[i - 1] = ready[i]
  BY <1>1, <1>2
<1>3. ASSUME NEW i \in DOMAIN ready'
      PROVE  i + 1 \in DOMAIN ready /\ i + 1 # 1 /\ ready[i + 1] = ready'[i]
  BY <1>1
<1>4. 1 \in DOMAIN ready /\ ready[1].holds \in BOOLEAN
  <2>1. 1 \in DOMAIN ready /\ ready[1] \in Entries
    BY <1>1
  <2>2. QED BY <2>1, EntryHolds, Zenon
<1>5. ASSUME NEW h PROVE InReady(j, h)' <=> InReady(j, h) /\ j # Head(ready).job
  <2>1. InReady(j, h) /\ j # Head(ready).job => InReady(j, h)'
    BY <1>1, <1>2 DEF InReady
  <2>2. InReady(j, h)' => InReady(j, h) /\ j # Head(ready).job
    BY <1>1, <1>3, <1>4 DEF InReady, ReadyOnce
  <2>3. QED BY <2>1, <2>2
<1>7. ReadyOnce(j)'
  <2>1. SUFFICES ASSUME NEW i \in DOMAIN ready', NEW k \in DOMAIN ready',
                        ready'[i].job = j, ready'[k].job = j
                 PROVE  i = k
    BY DEF ReadyOnce
  <2>2. i + 1 = k + 1
    BY <1>3, <2>1 DEF ReadyOnce
  <2>3. QED BY <1>1, <2>2
<1>8. ASSUME j = Head(ready).job
      PROVE  InReady(j, Head(ready).holds) /\ ~InReady(j, ~Head(ready).holds)
  <2>1. InReady(j, Head(ready).holds)
    BY <1>1, <1>4, <1>8 DEF InReady
  <2>2. \A i \in DOMAIN ready : ready[i].job = j => ready[i] = Head(ready)
    BY <1>1, <1>4, <1>8 DEF ReadyOnce
  <2>3. QED BY <1>1, <1>4, <2>1, <2>2 DEF InReady
<1>9. QED BY <1>5, <1>7, <1>8

\* The delayed entries, when one is added and when one falls due.
LEMMA DelayedAdd ==
  ASSUME delayed \in SUBSET Entries, NEW x \in Entries, delayed' = delayed \cup {x}, NEW j
  PROVE  /\ \A h : InDelayed(j, h)' <=> InDelayed(j, h) \/ (j = x.job /\ h = x.holds)
         /\ DelayedOnce(j) /\ ~(j = x.job /\ \E h \in BOOLEAN : InDelayed(j, h)) => DelayedOnce(j)'
<1>1. ASSUME NEW h PROVE InDelayed(j, h)' <=> InDelayed(j, h) \/ (j = x.job /\ h = x.holds)
  BY DEF InDelayed
<1>2. ASSUME DelayedOnce(j), ~(j = x.job /\ \E h \in BOOLEAN : InDelayed(j, h))
      PROVE  DelayedOnce(j)'
  <2>1. \A e \in delayed : e.holds \in BOOLEAN
    BY EntryHolds, Zenon
  <2>2. \A e \in delayed : e.job = j => j # x.job
    BY <1>2, <2>1, Zenon DEF InDelayed
  <2>3. QED BY <1>2, <2>2, Zenon DEF DelayedOnce
<1>3. QED BY <1>1, <1>2

LEMMA DelayedExpires ==
  ASSUME delayed \in SUBSET Entries, NEW k \in Jobs, expire(k), NEW j
  PROVE  /\ \A h : InDelayed(j, h)' <=> InDelayed(j, h)
         /\ DelayedOnce(j) => DelayedOnce(j)'
<1>1. PICK e \in delayed : /\ e.job = k /\ ~e.due
                           /\ delayed' = (delayed \ {e}) \cup {[e EXCEPT !.due = TRUE]}
  BY Zenon DEF expire
<1> DEFINE f == [e EXCEPT !.due = TRUE]
<1>2. f.job = e.job /\ f.holds = e.holds
  BY DEF Entries
<1>3. delayed' = (delayed \ {e}) \cup {f}
  BY <1>1
<1> HIDE DEF f
<1>4. ASSUME NEW h PROVE InDelayed(j, h)' <=> InDelayed(j, h)
  BY <1>2, <1>3, Zenon DEF InDelayed
<1>5. DelayedOnce(j) => DelayedOnce(j)'
  BY <1>2, <1>3, Zenon DEF DelayedOnce
<1>6. QED BY <1>4, <1>5

\* move_due_retries: every entry that is due comes to the end of ready, once.
DueFor(j, h) == \E e \in Due : e.job = j /\ e.holds = h

LEMMA DueMoves ==
  ASSUME QTypeOK, loop_head, NEW j, DelayedOnce(j), ReadyOnce(j)
  PROVE  /\ \A h : InReady(j, h)' <=> InReady(j, h) \/ DueFor(j, h)
         /\ \A h : InDelayed(j, h)' <=> InDelayed(j, h) /\ ~DueFor(j, h)
         /\ \A h : DueFor(j, h) => InDelayed(j, h)
         /\ DelayedOnce(j)'
         /\ ~(\E h \in BOOLEAN : InReady(j, h) /\ InDelayed(j, h))
              /\ ~(InReady(j, TRUE) /\ InDelayed(j, FALSE))
              /\ ~(InReady(j, FALSE) /\ InDelayed(j, TRUE)) => ReadyOnce(j)'
<1> DEFINE n == Cardinality(Due)
<1>1. PICK q \in [1 .. n -> Due] :
        (\A e \in Due : \E i \in DOMAIN q : q[i] = e) /\ ready' = ready \o q
  BY DEF loop_head
<1>2. delayed' = delayed \ Due
  BY DEF loop_head
<1>3. ready \in Seq(Entries) /\ delayed \in SUBSET Entries
  BY DEF QTypeOK
<1>4. IsFiniteSet(Due) /\ n \in Nat
  <2>1. Due \subseteq Entries
    BY <1>3 DEF Due
  <2>2. QED BY <2>1, EntriesFinite, FS_Subset, FS_CardinalityType
<1>5. IsFiniteSet(1 .. n) /\ Cardinality(1 .. n) = n
  BY <1>4, FS_Interval
<1>6. q \in Surjection(1 .. n, Due)
  BY <1>1 DEF Surjection
<1>7. q \in Injection(1 .. n, Due)
  BY <1>5, <1>6, FS_SurjSameCardinalityImpliesInj
<1>8. \A i, k \in 1 .. n : q[i] = q[k] => i = k
  BY <1>7 DEF Injection, IsInjective
<1> DEFINE m == Len(ready)
<1>9. m \in Nat /\ DOMAIN ready = 1 .. m
  BY <1>3
<1> HIDE DEF n
<1>10. q \in Seq(Entries) /\ Len(q) = n
  <2>1. Due \subseteq Entries
    BY <1>3 DEF Due
  <2>2. q \in [1 .. n -> Entries]
    BY <1>1, <2>1
  <2>3. QED BY <1>4, <2>2
<1>11. DOMAIN ready' = 1 .. m + n
       /\ (\A i \in 1 .. m : ready'[i] = ready[i])
       /\ \A i \in 1 .. n : ready'[m + i] = q[i]
  <2>1. /\ ready' \in Seq(Entries) /\ Len(ready') = m + n
        /\ \A i \in 1 .. m + n : ready'[i] = IF i <= m THEN ready[i] ELSE q[i - m]
    BY <1>1, <1>3, <1>10, ConcatProperties
  <2>2. DOMAIN ready' = 1 .. m + n
    BY <2>1
  <2> HIDE DEF m
  <2>3. \A i \in 1 .. m : ready'[i] = ready[i]
    BY <1>4, <1>9, <2>1
  <2>4. ASSUME NEW i \in 1 .. n PROVE ready'[m + i] = q[i]
    <3>1. m + i \in 1 .. m + n /\ ~(m + i <= m) /\ (m + i) - m = i
      BY <1>4, <1>9
    <3>2. QED BY <2>1, <3>1
  <2>5. QED BY <2>2, <2>3, <2>4
<1> HIDE DEF m
<1>12. ASSUME NEW i \in DOMAIN ready'
       PROVE  \/ i \in DOMAIN ready /\ ready'[i] = ready[i]
              \/ \E k \in 1 .. n : i = m + k /\ ready'[i] = q[k] /\ q[k] \in Due
  <2>1. CASE i \in 1 .. m
    BY <1>9, <1>11, <2>1
  <2>2. CASE i \notin 1 .. m
    <3>1. i - m \in 1 .. n /\ i = m + (i - m)
      BY <1>4, <1>9, <1>11, <2>2
    <3>2. QED BY <1>1, <1>11, <3>1
  <2>3. QED BY <2>1, <2>2
<1>13. ASSUME NEW h PROVE InReady(j, h)' <=> InReady(j, h) \/ DueFor(j, h)
  <2>1. InReady(j, h)' => InReady(j, h) \/ DueFor(j, h)
    BY <1>12 DEF InReady, DueFor
  <2>2. InReady(j, h) => InReady(j, h)'
    BY <1>4, <1>9, <1>11 DEF InReady
  <2>3. ASSUME NEW e \in Due, e.job = j, e.holds = h PROVE InReady(j, h)'
    <3>1. PICK k \in 1 .. n : q[k] = e
      BY <1>1
    <3>2. m + k \in DOMAIN ready' /\ ready'[m + k] = e
      BY <1>4, <1>9, <1>11, <3>1
    <3>3. QED BY <2>3, <3>2 DEF InReady
  <2>4. QED BY <2>1, <2>2, <2>3 DEF DueFor
<1>14. ASSUME NEW h PROVE /\ InDelayed(j, h)' <=> InDelayed(j, h) /\ ~DueFor(j, h)
                          /\ DueFor(j, h) => InDelayed(j, h)
  BY <1>2, Zenon DEF InDelayed, DueFor, Due, DelayedOnce
<1>15. DelayedOnce(j)'
  BY <1>2, Zenon DEF DelayedOnce
<1>16. ASSUME ~(\E h \in BOOLEAN : InReady(j, h) /\ InDelayed(j, h)),
              ~(InReady(j, TRUE) /\ InDelayed(j, FALSE)),
              ~(InReady(j, FALSE) /\ InDelayed(j, TRUE))
       PROVE  ReadyOnce(j)'
  <2>1. \A i \in DOMAIN ready : ready[i] \in Entries
    BY <1>3
  <2>2. \A e \in delayed : e.holds \in BOOLEAN
    BY <1>3, EntryHolds, Zenon
  <2>3. \A i \in DOMAIN ready : ready[i].holds \in BOOLEAN
    BY <2>1, EntryHolds, Zenon
  <2>4. ASSUME NEW i \in DOMAIN ready, NEW e \in Due, ready[i].job = j, e.job = j
        PROVE  FALSE
    <3>1. InReady(j, ready[i].holds) /\ InDelayed(j, e.holds)
      BY <2>4, Zenon DEF InReady, InDelayed, Due
    <3>2. ready[i].holds \in BOOLEAN /\ e.holds \in BOOLEAN
      BY <2>2, <2>3, <2>4, Zenon DEF Due
    <3>3. QED BY <1>16, <3>1, <3>2, Zenon
  <2>5. SUFFICES ASSUME NEW i \in DOMAIN ready', NEW k \in DOMAIN ready',
                        ready'[i].job = j, ready'[k].job = j
                 PROVE  i = k
    BY DEF ReadyOnce
  <2>6. CASE i \in DOMAIN ready /\ ready'[i] = ready[i] /\ k \in DOMAIN ready /\ ready'[k] = ready[k]
    BY <2>5, <2>6 DEF ReadyOnce
  <2>7. CASE i \in DOMAIN ready /\ ready'[i] = ready[i]
             /\ \E c \in 1 .. n : k = m + c /\ ready'[k] = q[c] /\ q[c] \in Due
    BY <2>4, <2>5, <2>7
  <2>8. CASE k \in DOMAIN ready /\ ready'[k] = ready[k]
             /\ \E c \in 1 .. n : i = m + c /\ ready'[i] = q[c] /\ q[c] \in Due
    BY <2>4, <2>5, <2>8
  <2>9. ASSUME NEW b \in 1 .. n, i = m + b, ready'[i] = q[b], q[b] \in Due,
               NEW c \in 1 .. n, k = m + c, ready'[k] = q[c], q[c] \in Due
        PROVE  i = k
    <3>1. q[b] = q[c]
      BY <2>5, <2>9, Zenon DEF DelayedOnce, Due
    <3>2. QED BY <1>8, <2>9, <3>1
  <2>10. QED BY <1>12, <2>6, <2>7, <2>8, <2>9
<1>17. QED BY <1>13, <1>14, <1>15, <1>16

\* Nothing moves.
LEMMA TicketStays ==
  ASSUME UNCHANGED <<chan, ready, delayed, scheduled, waiting>>, worker'.cur = worker.cur,
         NEW j, Ticket(j)
  PROVE  Ticket(j)'
<1>1. (InChan(j)' <=> InChan(j)) /\ (InHand(j)' <=> InHand(j))
  BY DEF InChan, InHand
<1>2. \A h : (InReady(j, h)' <=> InReady(j, h)) /\ (InDelayed(j, h)' <=> InDelayed(j, h))
  BY DEF InReady, InDelayed
<1>3. Once(j)'
  BY DEF Ticket, Once, ChanOnce, ReadyOnce, DelayedOnce
<1>4. QED BY <1>1, <1>2, <1>3, Zenon DEF Ticket, Apart, Backed

\* What a placeholder says of the entries, and its absence.
LEMMA TicketPlaces ==
  ASSUME QTypeOK, NEW j, Ticket(j)
  PROVE  /\ ~Placed(j) => ~InChan(j) /\ ~InHand(j)
                          /\ \A h \in BOOLEAN : ~InReady(j, h) /\ ~InDelayed(j, h)
         /\ ~(j \in scheduled /\ j \in waiting)
<1>1. ~(j \in scheduled /\ j \in waiting)
  BY DEF QTypeOK
<1>2. Placed(j) <=> j \in scheduled \/ j \in waiting
  BY DEF Placed
<1>3. ASSUME ~Placed(j)
      PROVE  /\ ~InChan(j) /\ ~InHand(j)
             /\ ~InReady(j, TRUE) /\ ~InReady(j, FALSE)
             /\ ~InDelayed(j, TRUE) /\ ~InDelayed(j, FALSE)
  BY <1>2, <1>3, Zenon DEF Ticket, Backed
<1>4. QED BY <1>1, <1>3, Zenon

\* The placeholder and the message of enqueue come together.
LEMMA TicketSent ==
  ASSUME QTypeOK, IOpen, worker.pc # "dead", NEW r \in Requests, enqueue_send(r),
         \A j \in Jobs : Ticket(j), NEW j \in Jobs
  PROVE  Ticket(j)'
<1>1. UNCHANGED <<waiting, worker, ready, delayed>>
  BY DEF enqueue_send
<1>2. CASE UNCHANGED <<scheduled, chan>>
  BY <1>1, <1>2, TicketStays
<1>3. CASE ~UNCHANGED <<scheduled, chan>>
  <2> DEFINE k == request[r].job
  <2>1. /\ ~Placed(k) /\ scheduled' = scheduled \cup {k}
        /\ chan' = IF open THEN Append(chan, k) ELSE chan
    BY <1>3, Zenon DEF enqueue_send
  <2>2. k \in Jobs /\ chan \in Seq(Jobs)
    BY DEF enqueue_send, QTypeOK
  <2>3. chan' = Append(chan, k)
    BY <2>1 DEF IOpen
  <2> HIDE DEF k
  <2>4. /\ InChan(j)' <=> InChan(j) \/ j = k
        /\ ChanOnce(j) /\ ~(j = k /\ InChan(j)) => ChanOnce(j)'
    BY <2>2, <2>3, ChanAppend
  <2>5. j = k => /\ ~InChan(j) /\ ~InHand(j)
                 /\ ~InReady(j, TRUE) /\ ~InReady(j, FALSE)
                 /\ ~InDelayed(j, TRUE) /\ ~InDelayed(j, FALSE)
    BY <2>1, TicketPlaces
  <2>6. (InHand(j)' <=> InHand(j))
        /\ \A h : (InReady(j, h)' <=> InReady(j, h)) /\ (InDelayed(j, h)' <=> InDelayed(j, h))
    BY <1>1 DEF InHand, InReady, InDelayed
  <2>7. (ReadyOnce(j) => ReadyOnce(j)') /\ (DelayedOnce(j) => DelayedOnce(j)')
    BY <1>1 DEF ReadyOnce, DelayedOnce
  <2>8. Ticket(j) /\ (j \in scheduled' <=> j \in scheduled \/ j = k)
        /\ (j \in waiting' <=> j \in waiting)
    BY <1>1, <2>1
  <2>9. QED BY <2>4, <2>5, <2>6, <2>7, <2>8, Zenon DEF Ticket, Apart, Backed, Once
<1>4. QED BY <1>2, <1>3

\* One job of a scan takes a place and enters ready.
LEMMA TicketInserted ==
  ASSUME QTypeOK, NEW k \in Jobs, ~Placed(k),
         scheduled' = scheduled \cup {k}, ready' = Append(ready, Held(k)),
         UNCHANGED <<waiting, chan, delayed>>, worker'.cur = worker.cur,
         NEW j \in Jobs, Ticket(j)
  PROVE  Ticket(j)'
<1>1. ready \in Seq(Entries)
  BY DEF QTypeOK
<1>2. Held(k) \in Entries /\ Held(k).job = k
  BY DEF Held, Entries
<1>3. Held(k).holds = TRUE
  BY Zenon DEF Held
<1>4. /\ InReady(j, TRUE)' <=> InReady(j, TRUE) \/ j = k
      /\ InReady(j, FALSE)' <=> InReady(j, FALSE)
      /\ ReadyOnce(j) /\ ~(j = k /\ \E h \in BOOLEAN : InReady(j, h)) => ReadyOnce(j)'
  <2>1. /\ \A h : InReady(j, h)' <=> InReady(j, h) \/ (j = Held(k).job /\ h = Held(k).holds)
        /\ ReadyOnce(j) /\ ~(j = Held(k).job /\ \E h \in BOOLEAN : InReady(j, h)) => ReadyOnce(j)'
    BY <1>1, <1>2, ReadyAppend
  <2>2. QED BY <1>2, <1>3, <2>1, Zenon
<1>5. j = k => /\ ~InChan(j) /\ ~InHand(j)
               /\ \A h \in BOOLEAN : ~InReady(j, h) /\ ~InDelayed(j, h)
  BY TicketPlaces
<1>6. (InHand(j)' <=> InHand(j)) /\ (InChan(j)' <=> InChan(j))
      /\ \A h : (InDelayed(j, h)' <=> InDelayed(j, h))
  BY DEF InHand, InChan, InDelayed
<1>7. (ChanOnce(j) => ChanOnce(j)') /\ (DelayedOnce(j) => DelayedOnce(j)')
  BY DEF ChanOnce, DelayedOnce
<1>8. (j \in scheduled' <=> j \in scheduled \/ j = k) /\ (j \in waiting' <=> j \in waiting)
  OBVIOUS
<1>9. QED BY <1>4, <1>5, <1>6, <1>7, <1>8, Zenon DEF Ticket, Apart, Backed, Once

\* The head of the loop.
LEMMA TicketDue ==
  ASSUME QTypeOK, loop_head, NEW j \in Jobs, Ticket(j)
  PROVE  Ticket(j)'
<1>1. UNCHANGED <<scheduled, waiting, chan>> /\ worker'.cur = worker.cur
  BY DEF loop_head, Goto, QTypeOK, Workers
<1>2. DelayedOnce(j) /\ ReadyOnce(j) /\ ~(j \in scheduled /\ j \in waiting)
  BY TicketPlaces, Zenon DEF Ticket, Once
<1>3. /\ \A h : InReady(j, h)' <=> InReady(j, h) \/ DueFor(j, h)
      /\ \A h : InDelayed(j, h)' <=> InDelayed(j, h) /\ ~DueFor(j, h)
      /\ \A h : DueFor(j, h) => InDelayed(j, h)
      /\ DelayedOnce(j)'
      /\ ~(\E h \in BOOLEAN : InReady(j, h) /\ InDelayed(j, h))
              /\ ~(InReady(j, TRUE) /\ InDelayed(j, FALSE))
              /\ ~(InReady(j, FALSE) /\ InDelayed(j, TRUE)) => ReadyOnce(j)'
  BY <1>2, DueMoves
<1>4. (InHand(j)' <=> InHand(j)) /\ (InChan(j)' <=> InChan(j))
      /\ (ChanOnce(j) => ChanOnce(j)')
  BY <1>1 DEF InHand, InChan, ChanOnce
<1>5. ReadyOnce(j)'
  <2>1. ~(InReady(j, TRUE) /\ InDelayed(j, TRUE)) /\ ~(InReady(j, FALSE) /\ InDelayed(j, FALSE))
        /\ ~(InReady(j, TRUE) /\ InDelayed(j, FALSE)) /\ ~(InReady(j, FALSE) /\ InDelayed(j, TRUE))
    BY <1>2, Zenon DEF Ticket, Apart, Backed
  <2>2. ~(\E h \in BOOLEAN : InReady(j, h) /\ InDelayed(j, h))
    BY <2>1, Zenon
  <2>3. QED BY <1>3, <2>1, <2>2, Zenon
<1>6. (j \in scheduled' <=> j \in scheduled) /\ (j \in waiting' <=> j \in waiting)
  BY <1>1
<1>7. QED BY <1>3, <1>4, <1>5, <1>6, Zenon DEF Ticket, Apart, Backed, Once

\* The front of ready: to the end of delayed, or into the consumer's hand.
LEMMA TicketPopped ==
  ASSUME QTypeOK, pop_ready, \A i \in Jobs : Ticket(i), NEW j \in Jobs
  PROVE  Ticket(j)'
<1>0. /\ worker \in Workers /\ ready \in Seq(Entries) /\ delayed \in SUBSET Entries
      /\ worker.pc = "pop" /\ worker.cur = None /\ Ticket(j)
  BY DEF QTypeOK, pop_ready
<1>1. UNCHANGED chan /\ (InChan(j)' <=> InChan(j)) /\ (ChanOnce(j) => ChanOnce(j)')
  BY DEF pop_ready, InChan, ChanOnce
<1>2. ~InHand(j)
  BY <1>0 DEF InHand
<1>3. CASE ready = <<>> /\ Goto("select") /\ UNCHANGED <<scheduled, waiting, ready, delayed>>
  <2>1. worker'.cur = worker.cur
    BY <1>0, <1>3 DEF Goto, Workers
  <2>2. QED BY <1>0, <1>1, <1>3, <2>1, TicketStays
<1> DEFINE x == Head(ready)
           k == x.job
<1>4. ASSUME ready # <<>>, ready' = Tail(ready)
      PROVE  /\ x \in Entries /\ k \in Jobs /\ x.holds \in BOOLEAN /\ ReadyOnce(j)'
             /\ \A h : InReady(j, h)' <=> InReady(j, h) /\ j # k
             /\ j = k => InReady(j, x.holds) /\ ~InReady(j, ~x.holds)
  <2>1. x \in Entries /\ k \in Jobs
    BY <1>4, EntryJobs
  <2>2. x.holds \in BOOLEAN
    BY <2>1, EntryHolds, Zenon
  <2>3. ReadyOnce(j)
    BY <1>0 DEF Ticket, Once
  <2>4. QED BY <1>0, <1>4, <2>1, <2>2, <2>3, ReadyTail
<1>5. CASE /\ ready # <<>> /\ ~x.holds /\ ~CanClaim(k)
           /\ ready' = Tail(ready) /\ delayed' = delayed \cup {Unheld(k)}
           /\ worker' = [worker EXCEPT !.pc = "loop", !.requested = TRUE]
           /\ UNCHANGED <<scheduled, waiting>>
  <2> HIDE DEF x
  <2>1. /\ k \in Jobs /\ x.holds = FALSE /\ ReadyOnce(j)'
        /\ \A h : InReady(j, h)' <=> InReady(j, h) /\ j # k
        /\ j = k => InReady(j, FALSE) /\ ~InReady(j, TRUE)
    BY <1>4, <1>5, Zenon
  <2> HIDE DEF k
  <2>2. Unheld(k) \in Entries /\ Unheld(k).job = k
    BY <2>1 DEF Unheld, Entries
  <2>3. Unheld(k).holds = FALSE
    BY Zenon DEF Unheld
  <2>4. /\ \A h : InDelayed(j, h)' <=> InDelayed(j, h) \/ (j = k /\ h = FALSE)
        /\ DelayedOnce(j) /\ ~(j = k /\ \E h \in BOOLEAN : InDelayed(j, h)) => DelayedOnce(j)'
    <3>1. /\ \A h : InDelayed(j, h)' <=>
                      InDelayed(j, h) \/ (j = Unheld(k).job /\ h = Unheld(k).holds)
          /\ DelayedOnce(j) /\ ~(j = Unheld(k).job /\ \E h \in BOOLEAN : InDelayed(j, h))
               => DelayedOnce(j)'
      BY <1>0, <1>5, <2>2, DelayedAdd
    <3>2. QED BY <2>2, <2>3, <3>1, Zenon
  <2>5. ~InHand(j)'
    BY <1>0, <1>5 DEF InHand, Workers
  <2>6. (j \in scheduled' <=> j \in scheduled) /\ (j \in waiting' <=> j \in waiting)
        /\ ~(j \in scheduled /\ j \in waiting)
    BY <1>0, <1>5, TicketPlaces
  <2>7. j = k => ~InDelayed(j, TRUE) /\ ~InDelayed(j, FALSE) /\ ~InChan(j)
    BY <1>0, <2>1, <2>6, Zenon DEF Ticket, Apart, Backed
  <2>8. j = k => ~\E h \in BOOLEAN : InDelayed(j, h)
    BY <2>7, Zenon
  <2>9. Once(j)'
    BY <1>0, <1>1, <2>1, <2>4, <2>8, Zenon DEF Ticket, Once
  <2>10. /\ InReady(j, TRUE)' <=> InReady(j, TRUE) /\ j # k
         /\ InReady(j, FALSE)' <=> InReady(j, FALSE) /\ j # k
         /\ InDelayed(j, TRUE)' <=> InDelayed(j, TRUE)
         /\ InDelayed(j, FALSE)' <=> InDelayed(j, FALSE) \/ j = k
    BY <2>1, <2>4, Zenon
  <2>11. QED BY <1>0, <1>1, <1>2, <2>1, <2>5, <2>6, <2>7, <2>9, <2>10, Zenon
            DEF Ticket, Apart, Backed
<1>6. CASE /\ ready # <<>> /\ (x.holds \/ CanClaim(k))
           /\ ready' = Tail(ready)
           /\ worker' = [worker EXCEPT !.pc = "run", !.cur = Held(k)]
           /\ IF x.holds THEN UNCHANGED placeholders
              ELSE waiting' = waiting \ {k} /\ scheduled' = scheduled \cup {k}
           /\ UNCHANGED delayed
  <2>1. /\ k \in Jobs /\ x.holds \in BOOLEAN /\ ReadyOnce(j)'
        /\ \A h : InReady(j, h)' <=> InReady(j, h) /\ j # k
        /\ j = k => InReady(j, x.holds) /\ ~InReady(j, ~x.holds)
    BY <1>4, <1>6, Zenon
  <2>2. (\A h : InDelayed(j, h)' <=> InDelayed(j, h)) /\ (DelayedOnce(j) => DelayedOnce(j)')
    BY <1>6, Zenon DEF InDelayed, DelayedOnce
  <2>3. Once(j)'
    BY <1>0, <1>1, <2>1, <2>2, Zenon DEF Ticket, Once
  <2>4. InHand(j)' <=> j = k
    <3>1. Held(k) \in Entries /\ Held(k).job = k
      BY <2>1 DEF Held, Entries
    <3>2. worker'.cur = Held(k)
      BY <1>0, <1>6 DEF Workers
    <3>3. QED BY <3>1, <3>2, EntryAssumption DEF InHand
  <2>5. ~(j \in scheduled /\ j \in waiting)
    BY <1>0, TicketPlaces
  <2>6. CASE x.holds
    <3>1. (j \in scheduled' <=> j \in scheduled) /\ (j \in waiting' <=> j \in waiting)
      BY <1>6, <2>6 DEF placeholders
    <3>2. x.holds = TRUE
      BY <2>1, <2>6, Zenon
    <3> HIDE DEF x, k
    <3>3. j = k => InReady(j, TRUE) /\ ~InReady(j, FALSE)
      BY <2>1, <3>2, Zenon
    <3>4. QED BY <1>0, <1>1, <1>2, <2>1, <2>2, <2>3, <2>4, <2>5, <3>1, <3>3, Zenon
             DEF Ticket, Apart, Backed
  <2>7. CASE ~x.holds
    <3>1. /\ j \in scheduled' <=> j \in scheduled \/ j = k
          /\ j \in waiting' <=> j \in waiting /\ j # k
      BY <1>6, <2>7
    <3>2. x.holds = FALSE
      BY <2>1, <2>7, Zenon
    <3> HIDE DEF x, k
    <3>3. j = k => InReady(j, FALSE) /\ ~InReady(j, TRUE)
      BY <2>1, <3>2, Zenon
    <3>4. QED BY <1>0, <1>1, <1>2, <2>1, <2>2, <2>3, <2>4, <2>5, <3>1, <3>3, Zenon
             DEF Ticket, Apart, Backed
  <2>8. QED BY <2>6, <2>7
<1>7. QED BY <1>3, <1>5, <1>6, Zenon DEF pop_ready

\* The job in hand is done, delayed with its place, or parked without it.
LEMMA TicketSettled ==
  ASSUME QTypeOK, settle, \A i \in Jobs : Ticket(i), NEW j \in Jobs
  PROVE  Ticket(j)'
<1> DEFINE k == worker.cur.job
<1>0. /\ worker \in Workers /\ delayed \in SUBSET Entries /\ worker.pc = "settle"
      /\ worker.cur \in Entries /\ k \in Jobs /\ Ticket(j)
  BY EntryJobs DEF QTypeOK, settle
<1>1. worker'.cur = None /\ UNCHANGED <<chan, ready>>
  BY <1>0 DEF settle, Workers
<1>2. InHand(j) <=> j = k
  BY <1>0, EntryAssumption DEF InHand
<1> HIDE DEF k
<1>3. /\ ~InHand(j)' /\ (InChan(j)' <=> InChan(j)) /\ (ChanOnce(j) => ChanOnce(j)')
      /\ (\A h : InReady(j, h)' <=> InReady(j, h)) /\ (ReadyOnce(j) => ReadyOnce(j)')
  BY <1>1 DEF InHand, InChan, ChanOnce, InReady, ReadyOnce
<1>4. ~(j \in scheduled /\ j \in waiting)
  BY <1>0, TicketPlaces
<1>5. j = k => /\ ~InChan(j) /\ ~InReady(j, TRUE) /\ ~InReady(j, FALSE)
               /\ ~InDelayed(j, TRUE) /\ ~InDelayed(j, FALSE)
               /\ j \in scheduled /\ j \notin waiting
  BY <1>0, <1>2, <1>4, Zenon DEF Ticket, Apart, Backed
<1>6. CASE worker.out = "none"
  <2>1. /\ j \in scheduled' <=> j \in scheduled /\ j # k
        /\ j \in waiting' <=> j \in waiting
        /\ UNCHANGED delayed
    BY <1>6 DEF settle, k
  <2>2. (\A h : InDelayed(j, h)' <=> InDelayed(j, h)) /\ (DelayedOnce(j) => DelayedOnce(j)')
    BY <2>1, Zenon DEF InDelayed, DelayedOnce
  <2>3. QED BY <1>0, <1>2, <1>3, <1>5, <2>1, <2>2, Zenon DEF Ticket, Apart, Backed, Once
<1>7. ASSUME NEW y \in Entries, y.job = k, delayed' = delayed \cup {y}
      PROVE  /\ \A h : InDelayed(j, h)' <=> InDelayed(j, h) \/ (j = k /\ h = y.holds)
             /\ DelayedOnce(j) => DelayedOnce(j)'
  <2>1. /\ \A h : InDelayed(j, h)' <=> InDelayed(j, h) \/ (j = y.job /\ h = y.holds)
        /\ DelayedOnce(j) /\ ~(j = y.job /\ \E h \in BOOLEAN : InDelayed(j, h)) => DelayedOnce(j)'
    BY <1>0, <1>7, DelayedAdd
  <2>2. j = k => ~\E h \in BOOLEAN : InDelayed(j, h)
    BY <1>5, Zenon
  <2>3. QED BY <1>7, <2>1, <2>2, Zenon
<1>8. CASE worker.out = "retry"
  <2>1. /\ j \in scheduled' <=> j \in scheduled
        /\ j \in waiting' <=> j \in waiting
        /\ delayed' = delayed \cup {Held(k)}
    BY <1>8 DEF settle, k
  <2>2. Held(k) \in Entries /\ Held(k).job = k
    BY <1>0 DEF Held, Entries
  <2>3. Held(k).holds = TRUE
    BY Zenon DEF Held
  <2>4. /\ InDelayed(j, TRUE)' <=> InDelayed(j, TRUE) \/ j = k
        /\ InDelayed(j, FALSE)' <=> InDelayed(j, FALSE)
        /\ DelayedOnce(j) => DelayedOnce(j)'
    BY <1>7, <2>1, <2>2, <2>3, Zenon
  <2>5. QED BY <1>0, <1>2, <1>3, <1>5, <2>1, <2>4, Zenon DEF Ticket, Apart, Backed, Once
<1>9. CASE worker.out = "park"
  <2>1. /\ j \in scheduled' <=> j \in scheduled /\ j # k
        /\ j \in waiting' <=> j \in waiting \/ j = k
    BY <1>9 DEF settle, k
  <2>2. PICK passed \in BOOLEAN : delayed' = delayed \cup {[Unheld(k) EXCEPT !.due = passed]}
    BY <1>9 DEF settle, k
  <2> DEFINE y == [Unheld(k) EXCEPT !.due = passed]
  <2>3. y \in Entries /\ y.job = k
    BY <1>0 DEF Unheld, Entries
  <2>4. y.holds = FALSE
    BY Zenon DEF Unheld
  <2>5. delayed' = delayed \cup {y}
    BY <2>2
  <2> HIDE DEF y
  <2>6. /\ InDelayed(j, FALSE)' <=> InDelayed(j, FALSE) \/ j = k
        /\ InDelayed(j, TRUE)' <=> InDelayed(j, TRUE)
        /\ DelayedOnce(j) => DelayedOnce(j)'
    BY <1>7, <2>3, <2>4, <2>5, Zenon
  <2>7. QED BY <1>0, <1>2, <1>3, <1>5, <2>1, <2>6, Zenon DEF Ticket, Apart, Backed, Once
<1>10. worker.out \in {"none", "retry", "park"}
  BY <1>0 DEF Workers
<1>11. QED BY <1>6, <1>8, <1>9, <1>10

\* A message comes from the channel into ready.
LEMMA TicketReceived ==
  ASSUME QTypeOK, receive, NEW j \in Jobs, Ticket(j)
  PROVE  Ticket(j)'
<1> DEFINE k == Head(chan)
<1>1. /\ chan \in Seq(Jobs) /\ chan # <<>> /\ chan' = Tail(chan) /\ k \in Jobs
      /\ ready \in Seq(Entries) /\ ready' = Append(ready, Held(k))
  BY DEF receive, QTypeOK
<1>2. UNCHANGED <<scheduled, waiting, delayed>> /\ worker'.cur = worker.cur
  BY DEF receive, Goto, QTypeOK, Workers
<1>3. ChanOnce(j) /\ ReadyOnce(j) /\ ~(j \in scheduled /\ j \in waiting)
  BY TicketPlaces, Zenon DEF Ticket, Once
<1>4. /\ InChan(j)' <=> InChan(j) /\ j # k
      /\ ChanOnce(j)' /\ (j = k => InChan(j))
  BY <1>1, <1>3, ChanTail
<1> HIDE DEF k
<1>5. Held(k) \in Entries /\ Held(k).job = k
  BY <1>1 DEF Held, Entries
<1>6. Held(k).holds = TRUE
  BY Zenon DEF Held
<1>7. /\ InReady(j, TRUE)' <=> InReady(j, TRUE) \/ j = k
      /\ InReady(j, FALSE)' <=> InReady(j, FALSE)
      /\ ReadyOnce(j) /\ ~(j = k /\ \E h \in BOOLEAN : InReady(j, h)) => ReadyOnce(j)'
  <2>1. /\ \A h : InReady(j, h)' <=> InReady(j, h) \/ (j = Held(k).job /\ h = Held(k).holds)
        /\ ReadyOnce(j) /\ ~(j = Held(k).job /\ \E h \in BOOLEAN : InReady(j, h)) => ReadyOnce(j)'
    BY <1>1, <1>5, ReadyAppend
  <2>2. QED BY <1>5, <1>6, <2>1, Zenon
<1>8. j = k => /\ ~InReady(j, TRUE) /\ ~InReady(j, FALSE) /\ ~InHand(j)
               /\ ~InDelayed(j, TRUE) /\ ~InDelayed(j, FALSE)
  BY <1>3, <1>4, Zenon DEF Ticket, Apart, Backed
<1>9. (InHand(j)' <=> InHand(j)) /\ (\A h : InDelayed(j, h)' <=> InDelayed(j, h))
      /\ (DelayedOnce(j) => DelayedOnce(j)')
  BY <1>2 DEF InHand, InDelayed, DelayedOnce
<1>10. (j \in scheduled' <=> j \in scheduled) /\ (j \in waiting' <=> j \in waiting)
  BY <1>2
<1>11. Once(j)'
  <2>1. j = k => ~\E h \in BOOLEAN : InReady(j, h)
    BY <1>8, Zenon
  <2>2. QED BY <1>3, <1>4, <1>7, <1>9, <2>1, Zenon DEF Ticket, Once
<1>12. QED BY <1>4, <1>7, <1>8, <1>9, <1>10, <1>11, Zenon DEF Ticket, Apart, Backed

\* With nothing anywhere there is nothing to stand for.
LEMMA TicketEmpty ==
  ASSUME scheduled = {}, waiting = {}, chan = <<>>, ready = <<>>, delayed = {},
         worker.cur = None, NEW j
  PROVE  Ticket(j)
<1>1. ~InChan(j) /\ ~InHand(j) /\ \A h : ~InReady(j, h) /\ ~InDelayed(j, h)
  BY DEF InChan, InHand, InReady, InDelayed
<1>2. Once(j)
  BY DEF Once, ChanOnce, ReadyOnce, DelayedOnce
<1>3. j \notin scheduled /\ j \notin waiting
  OBVIOUS
<1>4. QED BY <1>1, <1>2, <1>3, Zenon DEF Ticket, Apart, Backed

\* Every step keeps the tickets.
LEMMA TicketNext == QTypeOK /\ IBoot /\ IOpen /\ ITicket /\ [Next]_vars => ITicket'
<1> SUFFICES ASSUME QTypeOK, IBoot, IOpen, ITicket, [Next]_vars,
                    worker'.pc # "dead", NEW j \in Jobs
             PROVE  Ticket(j)'
  BY DEF ITicket
<1>0. worker \in Workers
  BY DEF QTypeOK
<1>1. CASE restart
  <2>1. /\ scheduled' = {} /\ waiting' = {} /\ chan' = <<>> /\ ready' = <<>> /\ delayed' = {}
        /\ worker'.cur = None
    BY <1>1 DEF restart, Booting
  <2>2. ~InChan(j)' /\ ~InHand(j)' /\ \A h : ~InReady(j, h)' /\ ~InDelayed(j, h)'
    BY <2>1 DEF InChan, InHand, InReady, InDelayed
  <2>3. Once(j)'
    BY <2>1 DEF Once, ChanOnce, ReadyOnce, DelayedOnce
  <2>4. j \notin scheduled' /\ j \notin waiting'
    BY <2>1
  <2>5. QED BY <2>2, <2>3, <2>4, Zenon DEF Ticket, Apart, Backed
<1>2. ASSUME ~restart PROVE worker.pc # "dead" /\ \A i \in Jobs : Ticket(i)
  <2>1. CASE Consume
    <3>1. worker.pc # "dead"
      BY <2>1 DEF Consume, boot_scan, boot_fill, loop_head, refill_from_durable, pop_ready,
         scan_fails, run_one, settle, receive, notified, deadline
    <3>2. QED BY <3>1 DEF ITicket
  <2>2. CASE ~Consume
    <3>1. UNCHANGED worker
      BY <1>2, <2>2 DEF Next, Serve, Others, save_analysis, report_again, adopt_analysis,
         enqueue_check, enqueue_send, cancel_request, reopen_analysis, preempt_analysis,
         deliver_pending, expire, scheduler_ends, vars
    <3>2. QED BY <3>1 DEF ITicket
  <2>3. QED BY <2>1, <2>2
<1> SUFFICES ASSUME ~restart PROVE Ticket(j)'
  BY <1>1
<1>3. worker.pc # "dead" /\ (\A i \in Jobs : Ticket(i)) /\ Ticket(j)
  BY <1>2
<1>4. ASSUME NEW r \in Requests, enqueue_send(r) PROVE Ticket(j)'
  BY <1>3, <1>4, TicketSent
<1>5. ASSUME NEW r \in Requests,
             \/ \E i \in Jobs : save_analysis(r, i) \/ report_again(r, i) \/ adopt_analysis(r, i)
             \/ enqueue_check(r) \/ cancel_request(r)
      PROVE  Ticket(j)'
  <2>1. UNCHANGED <<chan, ready, delayed, scheduled, waiting, worker>>
    BY <1>5 DEF save_analysis, report_again, adopt_analysis, enqueue_check, cancel_request
  <2>2. QED BY <1>3, <2>1, TicketStays
<1>6. ASSUME NEW i \in Jobs, reopen_analysis(i) \/ preempt_analysis(i) \/ deliver_pending(i)
      PROVE  Ticket(j)'
  <2>1. UNCHANGED <<chan, ready, delayed, scheduled, waiting, worker>>
    BY <1>6 DEF reopen_analysis, preempt_analysis, deliver_pending
  <2>2. QED BY <1>3, <2>1, TicketStays
<1>7. ASSUME NEW i \in Jobs, expire(i) PROVE Ticket(j)'
  <2>1. UNCHANGED <<chan, ready, scheduled, waiting, worker>>
    BY <1>7 DEF expire
  <2>2. delayed \in SUBSET Entries
    BY DEF QTypeOK
  <2>3. (\A h : InDelayed(j, h)' <=> InDelayed(j, h)) /\ (DelayedOnce(j) => DelayedOnce(j)')
    BY <1>7, <2>2, DelayedExpires
  <2>4. /\ (InChan(j)' <=> InChan(j)) /\ (ChanOnce(j) => ChanOnce(j)')
        /\ (\A h : InReady(j, h)' <=> InReady(j, h)) /\ (ReadyOnce(j) => ReadyOnce(j)')
        /\ (InHand(j)' <=> InHand(j))
        /\ (j \in scheduled' <=> j \in scheduled) /\ (j \in waiting' <=> j \in waiting)
    BY <2>1 DEF InChan, ChanOnce, InReady, ReadyOnce, InHand
  <2>5. QED BY <1>3, <2>3, <2>4, Zenon DEF Ticket, Apart, Backed, Once
<1>8. CASE boot_scan \/ run_one \/ notified \/ deadline \/ scan_fails
  <2>1. CASE boot_scan
    <3>1. (\E S : worker' = [worker EXCEPT !.pc = "fill", !.scan = S])
          /\ UNCHANGED <<chan, ready, delayed, scheduled, waiting>>
      BY <1>0, <2>1 DEF boot_scan, Goto, Workers
    <3>2. worker'.cur = worker.cur
      BY <1>0, <3>1 DEF Workers
    <3>3. QED BY <1>3, <3>1, <3>2, TicketStays
  <2>2. CASE run_one \/ notified \/ deadline
    <3>1. UNCHANGED <<chan, ready, delayed, scheduled, waiting>> /\ worker'.cur = worker.cur
      BY <1>0, <2>2 DEF run_one, Judge, notified, deadline, Goto, Workers
    <3>2. QED BY <1>3, <3>1, TicketStays
  <2>3. CASE scan_fails
    BY <1>0, <2>3 DEF scan_fails, Goto, Workers
  <2>4. QED BY <1>8, <2>1, <2>2, <2>3
<1>9. CASE boot_fill
  <2>1. UNCHANGED <<waiting, chan, delayed>> /\ worker.pc = "fill"
    BY <1>9 DEF boot_fill
  <2>2. worker'.cur = worker.cur
    BY <1>0, <1>9 DEF boot_fill, Goto, Workers
  <2>3. CASE UNCHANGED <<scheduled, ready>>
    BY <1>3, <2>1, <2>2, <2>3, TicketStays
  <2>4. CASE ~UNCHANGED <<scheduled, ready>>
    <3>1. PICK k \in worker.scan : /\ k \notin scheduled /\ scheduled' = scheduled \cup {k}
                                   /\ ready' = Append(ready, Held(k))
      BY <1>9, <2>4, Zenon DEF boot_fill
    <3>2. k \in Jobs /\ ~Placed(k)
      BY <1>0, <2>1, <3>1 DEF Workers, Placed, IBoot
    <3>3. QED BY <1>3, <2>1, <2>2, <3>1, <3>2, TicketInserted
  <2>5. QED BY <2>3, <2>4
<1>10. CASE refill_from_durable
  <2>1. UNCHANGED <<waiting, chan, delayed>>
    BY <1>10 DEF refill_from_durable
  <2>2. worker'.cur = worker.cur
    BY <1>0, <1>10 DEF refill_from_durable, Goto, Workers
  <2>3. CASE UNCHANGED <<scheduled, ready>>
    BY <1>3, <2>1, <2>2, <2>3, TicketStays
  <2>4. CASE ~UNCHANGED <<scheduled, ready>>
    <3>1. PICK k \in worker.scan : /\ ~Placed(k) /\ scheduled' = scheduled \cup {k}
                                   /\ ready' = Append(ready, Held(k))
      BY <1>10, <2>4, Zenon DEF refill_from_durable
    <3>2. k \in Jobs
      BY <1>0, <3>1 DEF Workers
    <3>3. QED BY <1>3, <2>1, <2>2, <3>1, <3>2, TicketInserted
  <2>5. QED BY <2>3, <2>4
<1>11. CASE loop_head
  BY <1>3, <1>11, TicketDue
<1>12. CASE pop_ready
  BY <1>3, <1>12, TicketPopped
<1>13. CASE settle
  BY <1>3, <1>13, TicketSettled
<1>14. CASE receive
  BY <1>3, <1>14, TicketReceived
<1>15. CASE UNCHANGED vars \/ scheduler_ends
  <2>1. UNCHANGED <<chan, ready, delayed, scheduled, waiting, worker>>
    BY <1>15 DEF vars, scheduler_ends
  <2>2. QED BY <1>3, <2>1, TicketStays
<1>16. CASE Consume
  BY <1>8, <1>9, <1>10, <1>11, <1>12, <1>13, <1>14, <1>16 DEF Consume
<1>17. CASE Serve
  BY <1>4, <1>5, <1>17 DEF Serve
<1>18. CASE Others
  BY <1>6, <1>7, <1>15, <1>18 DEF Others
<1>19. QED BY <1>15, <1>16, <1>17, <1>18 DEF Next

\* Counted: where there is at most one of them, the positions of a job are one or none.
LEMMA OneOrNone ==
  ASSUME NEW T, \A x, y \in T : x = y
  PROVE  Cardinality(T) = IF T = {} THEN 0 ELSE 1
<1>1. CASE T = {}
  BY <1>1, FS_EmptySet
<1>2. CASE T # {}
  <2>1. PICK x \in T : TRUE
    BY <1>2
  <2>2. T = {x}
    BY <2>1
  <2>3. QED BY <1>2, <2>2, FS_Singleton
<1>3. QED BY <1>1, <1>2

LEMMA TicketsCounted == QTypeOK /\ ITicket => OneTicket
<1> SUFFICES ASSUME QTypeOK, ITicket, worker.pc # "dead", NEW j \in Jobs
             PROVE  Tickets(j) = IF Placed(j) THEN 1 ELSE 0
  BY DEF OneTicket
<1>0. Ticket(j)
  BY DEF ITicket
<1> DEFINE A == {i \in DOMAIN chan : chan[i] = j}
           B == {i \in DOMAIN ready : ready[i].job = j}
           D == {e \in delayed : e.job = j}
           h == IF InHand(j) THEN 1 ELSE 0
<1>1. Tickets(j) = Cardinality(A) + Cardinality(B) + Cardinality(D) + h
  BY DEF Tickets, InHand
<1>2. Cardinality(A) = IF A = {} THEN 0 ELSE 1
  <2>1. \A x, y \in A : x = y
    BY <1>0, Zenon DEF Ticket, Once, ChanOnce
  <2>2. QED BY <2>1, OneOrNone
<1>3. Cardinality(B) = IF B = {} THEN 0 ELSE 1
  <2>1. \A x, y \in B : x = y
    BY <1>0, Zenon DEF Ticket, Once, ReadyOnce
  <2>2. QED BY <2>1, OneOrNone
<1>4. Cardinality(D) = IF D = {} THEN 0 ELSE 1
  <2>1. \A x, y \in D : x = y
    BY <1>0, Zenon DEF Ticket, Once, DelayedOnce
  <2>2. QED BY <2>1, OneOrNone
<1>5. A = {} <=> ~InChan(j)
  BY DEF InChan
<1>6. B = {} <=> ~InReady(j, TRUE) /\ ~InReady(j, FALSE)
  <2>1. \A i \in DOMAIN ready : ready[i] \in Entries
    BY DEF QTypeOK
  <2>2. \A i \in DOMAIN ready : ready[i].holds \in BOOLEAN
    BY <2>1, EntryHolds, Zenon
  <2>3. QED BY <2>2, Zenon DEF InReady
<1>7. D = {} <=> ~InDelayed(j, TRUE) /\ ~InDelayed(j, FALSE)
  <2>1. \A e \in delayed : e \in Entries
    BY DEF QTypeOK
  <2>2. \A e \in delayed : e.holds \in BOOLEAN
    BY <2>1, EntryHolds, Zenon
  <2>3. QED BY <2>2, Zenon DEF InDelayed
<1> HIDE DEF A, B, D
<1>8. ~(j \in scheduled /\ j \in waiting) /\ (Placed(j) <=> j \in scheduled \/ j \in waiting)
  BY <1>0, TicketPlaces DEF Placed
<1>9. /\ ~(A # {} /\ B # {}) /\ ~(A # {} /\ D # {}) /\ ~(B # {} /\ D # {})
      /\ ~(InHand(j) /\ (A # {} \/ B # {} \/ D # {}))
  BY <1>0, <1>5, <1>6, <1>7, <1>8, Zenon DEF Ticket, Apart, Backed
<1>10. Placed(j) <=> A # {} \/ B # {} \/ D # {} \/ InHand(j)
  BY <1>0, <1>5, <1>6, <1>7, <1>8, Zenon DEF Ticket, Backed
<1>11. QED BY <1>1, <1>2, <1>3, <1>4, <1>9, <1>10

----------------------------------------------------------------------------
\* Nothing is forgotten

\* The inductive invariant.
QInv == QTypeOK /\ IBoot /\ IOpen /\ IKnown /\ ITicket /\ ISettle /\ NeverForgotten

\* The worker is not at the select while it settles a job, so a wake stays; what turns
\* the record back into work leaves one.
LEMMA SettleNext == QTypeOK /\ IKnown /\ ISettle /\ [Next]_vars => ISettle'
<1> SUFFICES ASSUME QTypeOK, IKnown, ISettle, [Next]_vars,
                    worker'.pc = "settle", worker'.out = "none",
                    Ours(worker.cur.job)'
             PROVE  wake' = TRUE
  BY Zenon DEF ISettle
<1>0. TRecords /\ worker \in Workers
  BY TypeParts DEF TWorker
<1>1. CASE run_one
  <2>1. worker.cur.job \in Jobs
    BY <1>1, EntryJobs DEF run_one
  <2>2. worker'.cur = worker.cur /\ rec'[worker.cur.job] \in {"approved", "over"}
    <3>1. PICK s, out : Judge(s, out) /\ (out = "none" => s \in {"approved", "over"})
      BY <1>1 DEF run_one
    <3>2. worker'.cur = worker.cur /\ worker'.out = out /\ rec'[worker.cur.job] = s
      BY <1>0, <2>1, <3>1 DEF Judge, TRecords, Workers
    <3>3. QED BY <3>1, <3>2
  <2>3. QED BY <2>2 DEF Ours
<1>2. CASE boot_scan \/ boot_fill \/ loop_head \/ refill_from_durable
  BY <1>0, <1>2 DEF boot_scan, boot_fill, loop_head, refill_from_durable, Goto, Workers
<1>3. CASE pop_ready
  BY <1>0, <1>3 DEF pop_ready, Goto, Workers
<1>4. CASE scan_fails \/ settle \/ receive \/ notified \/ deadline
  BY <1>0, <1>4 DEF scan_fails, settle, receive, notified, deadline, Goto, Workers
<1>5. CASE restart
  BY <1>5 DEF restart, Booting
<1>6. CASE ~Consume /\ ~restart
  <2>1. UNCHANGED worker
    BY <1>6, OthersAside
  <2>2. worker.cur.job \in Jobs /\ rec[worker.cur.job] # "none"
    <3>1. worker.pc = "settle" /\ worker.cur # None
      BY <2>1, TypeParts DEF TWorker
    <3>2. QED BY <3>1, EntryJobs DEF IKnown
  <2>3. wake => wake' = TRUE
    <3>1. CASE Serve
      BY <3>1, Zenon DEF Serve, save_analysis, report_again, adopt_analysis, enqueue_check,
         enqueue_send, cancel_request
    <3>2. ASSUME NEW j \in Jobs, \/ reopen_analysis(j) \/ preempt_analysis(j)
                                 \/ deliver_pending(j) \/ expire(j), wake
          PROVE  wake' = TRUE
      BY <3>2, Zenon DEF reopen_analysis, preempt_analysis, deliver_pending, expire
    <3>3. CASE UNCHANGED vars \/ scheduler_ends
      BY <3>3, Zenon DEF vars, scheduler_ends
    <3>4. QED BY <1>6, <3>1, <3>2, <3>3, Zenon DEF Next, Others
  <2>c. PICK c \in Jobs : c = worker.cur.job
    BY <2>2
  <2>o. Ours(c)' /\ rec[c] # "none"
    BY <2>1, <2>2, <2>c DEF Ours
  <2>4. CASE Ours(c)
    BY <2>1, <2>3, <2>4, <2>c DEF ISettle
  <2>5. CASE ~Ours(c)
    <3>1. rec'[c] # rec[c] \/ deliverer' # deliverer
      BY <2>o, <2>5 DEF Ours
    <3>2. ASSUME NEW r \in Requests, NEW j \in Jobs, save_analysis(r, j)
          PROVE  FALSE
      <4>1. rec'[c] \in {rec[c], "over"} /\ UNCHANGED deliverer
        BY <1>0, <2>o, <3>2 DEF save_analysis, TRecords, around
      <4>2. QED BY <2>o, <2>5, <4>1 DEF Ours
    <3>9. ASSUME NEW r \in Requests, NEW j \in Jobs, adopt_analysis(r, j)
          PROVE  wake' = TRUE
      <4>1. wake' = TRUE \/ (rec'[c] \in {rec[c], "over", "delivering"} /\ UNCHANGED deliverer)
        <5>1. CASE UNCHANGED wake
          BY <1>0, <3>9, <5>1 DEF adopt_analysis, TRecords, around
        <5>2. QED BY <3>9, <5>1, Zenon DEF adopt_analysis
      <4>2. QED BY <2>o, <2>5, <4>1 DEF Ours
    <3>10. CASE scheduler_ends
      <4>1. rec'[c] \in {rec[c], "adopting"} /\ deliverer' = FALSE
        BY <3>10 DEF scheduler_ends, Cut
      <4>2. QED BY <2>o, <2>5, <4>1 DEF Ours
    <3>3. ASSUME NEW j \in Jobs, preempt_analysis(j) \/ deliver_pending(j)
          PROVE  FALSE
      <4>1. rec'[c] \in {rec[c], "over"} /\ UNCHANGED deliverer
        BY <1>0, <3>3 DEF preempt_analysis, deliver_pending, TRecords, around
      <4>2. QED BY <2>o, <2>5, <4>1 DEF Ours
    <3>4. ASSUME NEW j \in Jobs, reopen_analysis(j)
          PROVE  wake' = TRUE
      BY <3>4 DEF reopen_analysis
    <3>5. ASSUME NEW r \in Requests,
                 \/ \E j \in Jobs : report_again(r, j)
                 \/ enqueue_check(r) \/ enqueue_send(r) \/ cancel_request(r)
          PROVE  FALSE
      BY <3>1, <3>5 DEF report_again, enqueue_check, enqueue_send, cancel_request, around
    <3>6. ASSUME NEW j \in Jobs, expire(j)
          PROVE  FALSE
      BY <3>1, <3>6 DEF expire, around
    <3>7. CASE UNCHANGED vars
      BY <3>1, <3>7 DEF vars
    <3>8. QED BY <1>6, <3>2, <3>3, <3>4, <3>5, <3>6, <3>7, <3>9, <3>10 DEF Next, Serve, Others
  <2>6. QED BY <2>4, <2>5
<1>7. QED BY <1>1, <1>2, <1>3, <1>4, <1>5, <1>6 DEF Consume

\* A request that ends takes nobody's mention but its own.
LEMMA MentionsStay ==
  ASSUME TRecords, NEW r \in Requests, NEW j \in Jobs, InFlight(j),
         \/ Ended(r) /\ request[r].job # j
         \/ request[r].pc # "idle" /\ request' = [request EXCEPT ![r].pc = "reserved"]
         \/ request[r].pc = "idle" /\ \E k \in Jobs : Begin(r, k)
         \/ UNCHANGED request
  PROVE  InFlight(j)'
<1>1. PICK q \in Requests : request[q].pc # "idle" /\ request[q].job = j
  BY DEF InFlight
<1>2. request'[q].pc # "idle" /\ request'[q].job = j
  BY <1>1 DEF Ended, Begin, TRecords
<1>3. QED BY <1>2 DEF InFlight

\* What stands for a job until it is done: NeverForgotten, for one job.
Owed(j) == \/ Placed(j) \/ InFlight(j) \/ wake \/ worker.requested
           \/ worker.pc = "boot" \/ j \in worker.scan \/ j \in skipped

\* The steps of the requests.
LEMMA ServeOwes ==
  ASSUME QTypeOK, IOpen, worker.pc # "dead", Serve, NEW j \in Jobs,
         Ours(j) => Owed(j), Ours(j)'
  PROVE  Owed(j)'
<1>0. TRecords
  BY TypeParts
<1>1. UNCHANGED worker /\ (wake => wake') /\ UNCHANGED waiting /\ scheduled \subseteq scheduled'
  <2>1. wake => wake'
    BY Zenon DEF Serve, save_analysis, report_again, adopt_analysis, enqueue_check,
       enqueue_send, cancel_request
  <2>2. UNCHANGED worker /\ UNCHANGED waiting /\ scheduled \subseteq scheduled'
    BY DEF Serve, save_analysis, report_again, adopt_analysis, enqueue_check,
       enqueue_send, cancel_request
  <2>3. QED BY <2>1, <2>2
<1>2. Owed(j) /\ ~InFlight(j) => Owed(j)'
  <2>1. Placed(j) => Placed(j)'
    BY <1>1 DEF Placed
  <2>2. j \in skipped => j \in skipped' \/ Placed(j)'
    BY DEF Serve, save_analysis, report_again, adopt_analysis, enqueue_check,
       enqueue_send, cancel_request, around, Placed
  <2>3. QED BY <1>1, <2>1, <2>2, Zenon DEF Owed
<1>3. InFlight(j)' => Owed(j)'
  BY Zenon DEF Owed
<1>4. wake' => Owed(j)'
  BY Zenon DEF Owed
<1>5. Placed(j)' => Owed(j)'
  BY Zenon DEF Owed
<1>6. ASSUME NEW r \in Requests, NEW k \in Jobs, save_analysis(r, k)
      PROVE  Owed(j)'
  <2>1. request[r].pc = "idle" /\ Begin(r, k)
    BY <1>6 DEF save_analysis
  <2>2. CASE j = k
    <3>1. request'[r].pc # "idle" /\ request'[r].job = j
      BY <1>0, <2>1, <2>2 DEF Begin, TRecords
    <3>2. InFlight(j)'
      BY <3>1 DEF InFlight
    <3>3. QED BY <1>3, <3>2
  <2>3. CASE j # k
    <3>1. Ours(j)
      <4>1. rec'[j] \in {rec[j], "over"} /\ UNCHANGED deliverer
        BY <1>0, <1>6, <2>3 DEF save_analysis, TRecords, around
      <4>2. QED BY <4>1 DEF Ours
    <3>2. QED BY <1>0, <1>2, <1>3, <2>1, <3>1, MentionsStay
  <2>4. QED BY <2>2, <2>3
<1>7. ASSUME NEW r \in Requests, NEW k \in Jobs, report_again(r, k) \/ adopt_analysis(r, k)
      PROVE  Owed(j)'
  <2>1. request[r].pc = "idle" /\ (Begin(r, k) \/ UNCHANGED request)
    BY <1>7, Zenon DEF report_again, adopt_analysis
  <2>2. wake' = TRUE \/ Ours(j)
    <3>1. wake' = TRUE \/ (rec'[j] \in {rec[j], "over", "delivering"} /\ UNCHANGED deliverer)
      BY <1>0, <1>7 DEF report_again, adopt_analysis, TRecords, around
    <3>2. QED BY <3>1 DEF Ours
  <2>3. QED BY <1>0, <1>2, <1>3, <1>4, <2>1, <2>2, MentionsStay
<1>8. ASSUME NEW r \in Requests, enqueue_check(r) \/ enqueue_send(r) \/ cancel_request(r)
      PROVE  Owed(j)'
  <2>1. Ours(j)
    BY <1>8 DEF enqueue_check, enqueue_send, cancel_request, around, Ours
  <2>2. open
    BY DEF IOpen
  <2>3. \/ Ended(r)
        \/ request[r].pc # "idle" /\ request' = [request EXCEPT ![r].pc = "reserved"]
    BY <1>8 DEF enqueue_check, enqueue_send, cancel_request
  <2>4. CASE ~(Ended(r) /\ request[r].job = j)
    BY <1>0, <1>2, <1>3, <2>1, <2>3, <2>4, MentionsStay
  <2>5. CASE Ended(r) /\ request[r].job = j /\ Placed(j)
    BY <1>1, <1>5, <2>5 DEF Placed
  <2>6. CASE Ended(r) /\ request[r].job = j /\ ~Placed(j)
    <3>1. CASE cancel_request(r)
      BY <1>4, <3>1 DEF cancel_request
    <3>2. CASE enqueue_check(r)
      <4>1. wake' \/ request' = [request EXCEPT ![r].pc = "reserved"]
        BY <2>2, <2>6, <3>2, Zenon DEF enqueue_check
      <4>2. request' # [request EXCEPT ![r].pc = "reserved"]
        BY <1>0, <2>6 DEF Ended, Idle, TRecords
      <4>3. QED BY <1>4, <4>1, <4>2
    <3>3. CASE enqueue_send(r)
      <4>1. wake' \/ scheduled' = scheduled \cup {j}
        BY <2>6, <3>3, Zenon DEF enqueue_send
      <4>2. scheduled' = scheduled \cup {j} => Placed(j)'
        BY DEF Placed
      <4>3. QED BY <1>4, <1>5, <4>1, <4>2
    <3>4. QED BY <1>8, <3>1, <3>2, <3>3
  <2>7. QED BY <2>4, <2>5, <2>6
<1>9. QED BY <1>6, <1>7, <1>8 DEF Serve

\* The steps of the consumer.
LEMMA ConsumeOwes ==
  ASSUME QTypeOK, ITicket, ISettle, Consume, worker.pc # "dead", worker'.pc # "dead",
         NEW j \in Jobs,
         Ours(j) => Owed(j), Ours(j)'
  PROVE  Owed(j)'
<1>0. TRecords /\ worker \in Workers
  BY TypeParts DEF TWorker
<1>1. UNCHANGED request => (InFlight(j) <=> InFlight(j)')
  BY DEF InFlight
<1>2. UNCHANGED <<scheduled, waiting>> => (Placed(j) <=> Placed(j)')
  BY DEF Placed
<1>k. UNCHANGED <<rec, deliverer>> => Ours(j)
  BY DEF Ours
<1>d. UNCHANGED <<rec, deliverer>> => j \in OnDisk
  BY <1>k DEF Ours, OnDisk, Recoverable, Adopting
<1>s. ASSUME NEW S, recoverable_jobs(S), j \in OnDisk, worker'.scan = S,
             UNCHANGED <<scheduled, waiting>>
      PROVE  Owed(j)'
  <2>1. j \in S \/ Placed(j) \/ j \in skipped'
    BY <1>s DEF recoverable_jobs
  <2>2. QED BY <1>2, <1>s, <2>1, Zenon DEF Owed
<1>3. CASE boot_scan
  <2>1. j \in OnDisk
    BY <1>3, <1>d DEF boot_scan
  <2>2. PICK S : /\ recoverable_jobs(S) /\ UNCHANGED <<scheduled, waiting>>
                 /\ worker' = [worker EXCEPT !.pc = "fill", !.scan = S]
    BY <1>0, <1>3 DEF boot_scan, Goto, Workers
  <2>3. worker'.scan = S
    BY <1>0, <2>2 DEF Workers
  <2>4. QED BY <1>s, <2>1, <2>2, <2>3
<1>4. CASE loop_head
  <2>1. Ours(j) /\ j \in OnDisk
    BY <1>4, <1>d, <1>k DEF loop_head
  <2>2. ASSUME NEW S, recoverable_jobs(S),
               worker' = [worker EXCEPT !.pc = "insert", !.scan = S, !.requested = FALSE]
        PROVE  Owed(j)'
    <3>1. worker'.scan = S
      BY <1>0, <2>2 DEF Workers
    <3>2. QED BY <1>4, <1>s, <2>1, <2>2, <3>1 DEF loop_head
  <2>3. CASE Goto("pop") /\ UNCHANGED skipped
    <3>1. worker'.scan = worker.scan /\ worker'.requested = worker.requested
          /\ worker.pc # "boot"
      BY <1>0, <1>4, <2>3 DEF Goto, Workers, loop_head
    <3>2. UNCHANGED <<request, scheduled, waiting, wake>>
      BY <1>4 DEF loop_head
    <3>3. QED BY <1>1, <1>2, <2>1, <2>3, <3>1, <3>2, Zenon DEF Owed
  <2>4. QED BY <1>4, <2>2, <2>3, Zenon DEF loop_head
<1>5. CASE boot_fill \/ refill_from_durable
  <2>1. Ours(j) /\ worker.pc # "boot"
    BY <1>5, <1>k DEF boot_fill, refill_from_durable, around
  <2>2. UNCHANGED <<request, waiting, wake, skipped>>
    BY <1>5 DEF boot_fill, refill_from_durable, around
  <2>3. CASE worker.scan = {} /\ UNCHANGED scheduled /\ (Goto("loop") \/ Goto("pop"))
    <3>1. worker'.scan = worker.scan /\ worker'.requested = worker.requested
      BY <1>0, <2>3 DEF Goto, Workers
    <3>2. QED BY <1>1, <1>2, <2>1, <2>2, <2>3, <3>1, Zenon DEF Owed
  <2>4. ASSUME NEW k \in worker.scan, NEW b \in BOOLEAN,
               worker' = [worker EXCEPT !.scan = @ \ {k}, !.requested = b],
               worker.requested => b,
               \/ UNCHANGED scheduled /\ (b \/ Placed(k))
               \/ scheduled' = scheduled \cup {k}
        PROVE  Owed(j)'
    <3>1. worker'.scan = worker.scan \ {k} /\ worker'.requested = b
      BY <1>0, <2>4 DEF Workers
    <3>2. Placed(j) => Placed(j)'
      BY <2>2, <2>4 DEF Placed
    <3>3. scheduled' = scheduled \cup {k} => Placed(k)'
      BY DEF Placed
    <3>4. CASE j = k
      BY <2>4, <3>1, <3>2, <3>3, <3>4, Zenon DEF Owed
    <3>5. CASE j # k
      <4>1. j \in worker.scan => j \in worker'.scan
        BY <3>1, <3>5
      <4>2. QED BY <1>1, <2>1, <2>2, <2>4, <3>1, <3>2, <4>1, Zenon DEF Owed
    <3>6. QED BY <3>4, <3>5
  <2>5. CASE boot_fill
    <3>1. ASSUME NEW k \in worker.scan,
                 worker' = [worker EXCEPT !.scan = @ \ {k}, !.requested = @ \/ Full],
                 \/ UNCHANGED scheduled /\ (Full \/ k \in scheduled)
                 \/ scheduled' = scheduled \cup {k}
          PROVE  Owed(j)'
      <4>1. k \in scheduled => Placed(k)
        BY DEF Placed
      <4>2. worker' = [worker EXCEPT !.scan = @ \ {k}, !.requested = (worker.requested \/ Full)]
        BY <3>1
      <4>3. QED BY <2>4, <3>1, <4>1, <4>2, Zenon
    <3>2. QED BY <2>3, <2>5, <3>1, Zenon DEF boot_fill
  <2>6. CASE refill_from_durable
    <3>1. ASSUME NEW k \in worker.scan,
                 worker' = [worker EXCEPT !.scan = @ \ {k},
                                          !.requested = @ \/ (~Placed(k) /\ Full)],
                 \/ UNCHANGED scheduled /\ (Placed(k) \/ Full)
                 \/ scheduled' = scheduled \cup {k}
          PROVE  Owed(j)'
      <4>2. worker' = [worker EXCEPT !.scan = @ \ {k},
                                     !.requested = (worker.requested \/ (~Placed(k) /\ Full))]
        BY <3>1
      <4>3. QED BY <2>4, <3>1, <4>2, Zenon
    <3>2. QED BY <2>3, <2>6, <3>1, Zenon DEF refill_from_durable
  <2>7. QED BY <1>5, <2>5, <2>6
<1>6. CASE pop_ready
  <2>1. Ours(j) /\ worker.pc # "boot" /\ UNCHANGED <<request, wake, skipped>>
    BY <1>6, <1>k DEF pop_ready, around
  <2>2. Placed(j) => Placed(j)'
    BY <1>6 DEF pop_ready, Placed, placeholders
  <2>3. worker'.scan = worker.scan /\ (worker.requested => worker'.requested)
    <3>1. \/ Goto("select")
          \/ worker' = [worker EXCEPT !.pc = "loop", !.requested = TRUE]
          \/ worker' = [worker EXCEPT !.pc = "run", !.cur = Held(Head(ready).job)]
      BY <1>6, Zenon DEF pop_ready
    <3>2. QED BY <1>0, <3>1 DEF Workers, Goto
  <2>4. QED BY <1>1, <2>1, <2>2, <2>3, Zenon DEF Owed
<1>7. CASE run_one
  <2>1. worker.cur.job \in Jobs
    BY <1>7, EntryJobs DEF run_one
  <2>2. j = worker.cur.job => Placed(j)
    <3>1. worker.cur # None /\ Backed(worker.cur.job)
      BY <1>7, <2>1, TypeParts DEF run_one, TWorker, ITicket, Ticket
    <3>2. QED BY <3>1, Zenon DEF Backed, InHand, Placed
  <2>3. UNCHANGED <<request, wake, scheduled, waiting, skipped, deliverer>> /\ worker.pc # "boot"
    BY <1>7 DEF run_one, around
  <2>6. j # worker.cur.job => rec'[j] = rec[j]
    BY <1>0, <1>7, <2>1 DEF run_one, Judge, TRecords
  <2>7. j # worker.cur.job => Ours(j)
    BY <2>3, <2>6 DEF Ours
  <2>4. worker'.scan = worker.scan /\ worker'.requested = worker.requested
    BY <1>0, <1>7 DEF run_one, Judge, Workers
  <2>5. QED BY <1>1, <1>2, <2>2, <2>3, <2>4, <2>7, Zenon DEF Owed
<1>8. CASE settle
  <2>1. Ours(j) /\ worker.pc = "settle" /\ UNCHANGED <<request, wake, skipped>>
    BY <1>8, <1>k DEF settle, around
  <2>2. worker'.scan = worker.scan /\ (worker.requested => worker'.requested)
    BY <1>0, <1>8 DEF settle, Workers
  <2>3. CASE j = worker.cur.job /\ worker.out = "none"
    BY <2>1, <2>3, Zenon DEF ISettle, Owed
  <2>4. CASE ~(j = worker.cur.job /\ worker.out = "none")
    <3>1. worker.out \in {"none", "retry", "park"}
      BY <1>0 DEF Workers
    <3>2. Placed(j) => Placed(j)'
      BY <1>8, <2>4, <3>1 DEF settle, Placed
    <3>3. QED BY <1>1, <2>1, <2>2, <3>2, Zenon DEF Owed
  <2>5. QED BY <2>3, <2>4
<1>9. CASE receive \/ deadline
  <2>1. /\ Ours(j) /\ worker.pc # "boot"
        /\ UNCHANGED <<request, wake, scheduled, waiting, skipped>>
    BY <1>9, <1>k DEF receive, deadline, around
  <2>2. worker'.scan = worker.scan /\ worker'.requested = worker.requested
    BY <1>0, <1>9 DEF receive, deadline, Goto, Workers
  <2>3. QED BY <1>1, <1>2, <2>1, <2>2, Zenon DEF Owed
<1>10. CASE notified
  <2>1. worker'.requested = TRUE
    BY <1>0, <1>10 DEF notified, Workers
  <2>2. QED BY <2>1, Zenon DEF Owed
<1>11. CASE scan_fails
  BY <1>0, <1>11 DEF scan_fails, Goto, Workers
<1>12. QED BY <1>3, <1>4, <1>5, <1>6, <1>7, <1>8, <1>9, <1>10, <1>11 DEF Consume

\* NeverForgotten says it of every job this queue owes a run.
LEMMA OwedIsKept ==
  /\ NeverForgotten <=> (worker.pc # "dead" => \A j \in Jobs : Ours(j) => Owed(j))
  /\ NeverForgotten' <=> (worker'.pc # "dead" => \A j \in Jobs : Ours(j)' => Owed(j)')
  BY Zenon DEF NeverForgotten, Ours, Owed, Recoverable, Adopting

\* Every step keeps what stands for the jobs.
LEMMA ForgottenNext ==
  QTypeOK /\ IOpen /\ IKnown /\ ITicket /\ ISettle /\ NeverForgotten /\ [Next]_vars
    => NeverForgotten'
<1> SUFFICES ASSUME QTypeOK, IOpen, IKnown, ITicket, ISettle, NeverForgotten, [Next]_vars,
                    worker'.pc # "dead", NEW j \in Jobs, Ours(j)'
             PROVE  Owed(j)'
  BY OwedIsKept
<1>0. TRecords /\ worker \in Workers
  BY TypeParts DEF TWorker
<1>1. worker.pc # "dead" /\ Ours(j) => Owed(j)
  BY OwedIsKept
<1>2. CASE restart
  <2>1. worker'.pc = "boot"
    BY <1>2 DEF restart, Booting
  <2>2. QED BY <2>1, Zenon DEF Owed
<1>3. CASE Consume
  <2>1. worker.pc # "dead"
    BY <1>3 DEF Consume, boot_scan, boot_fill, loop_head, refill_from_durable, pop_ready,
       scan_fails, run_one, settle, receive, notified, deadline
  <2>2. QED BY <1>1, <1>3, <2>1, ConsumeOwes
<1>4. CASE Serve
  <2>1. UNCHANGED worker
    BY <1>4 DEF Serve, save_analysis, report_again, adopt_analysis, enqueue_check,
       enqueue_send, cancel_request
  <2>2. QED BY <1>1, <1>4, <2>1, ServeOwes
<1>5. ASSUME NEW k \in Jobs, reopen_analysis(k)
      PROVE  Owed(j)'
  BY <1>5, Zenon DEF reopen_analysis, Owed
<1>6. ASSUME Ours(j),
             UNCHANGED <<worker, request, scheduled, waiting, wake, skipped>>
      PROVE  Owed(j)'
  <2>1. (InFlight(j) <=> InFlight(j)') /\ (Placed(j) <=> Placed(j)')
    BY <1>6 DEF InFlight, Placed
  <2>2. QED BY <1>1, <1>6, <2>1, Zenon DEF Owed
<1>7. ASSUME NEW k \in Jobs, preempt_analysis(k) \/ deliver_pending(k) \/ expire(k)
      PROVE  Owed(j)'
  <2>1. UNCHANGED <<worker, request, scheduled, waiting, wake, skipped, deliverer>>
    BY <1>7 DEF preempt_analysis, deliver_pending, expire, around
  <2>2. rec'[j] \in {rec[j], "over"}
    BY <1>0, <1>7 DEF preempt_analysis, deliver_pending, expire, TRecords
  <2>3. Ours(j)
    BY <2>1, <2>2 DEF Ours
  <2>4. QED BY <1>6, <2>1, <2>3
<1>8. CASE UNCHANGED vars
  BY <1>6, <1>8 DEF vars, Ours
<1>10. CASE scheduler_ends
  <2>1. rec'[j] \in {rec[j], "adopting"} /\ deliverer' = FALSE
    BY <1>10 DEF scheduler_ends, Cut
  <2>2. Ours(j)
    BY <2>1 DEF Ours
  <2>3. QED BY <1>6, <1>10, <2>2 DEF scheduler_ends
<1>9. QED BY <1>2, <1>3, <1>4, <1>5, <1>7, <1>8, <1>10 DEF Next, Others

\* The starting state.
LEMMA QueueInit == Init => QInv
<1> SUFFICES ASSUME Init PROVE QInv
  OBVIOUS
<1>1. TRecords /\ TBounds
  BY QueueAssumption DEF Init, TRecords, TBounds, Records, Idle
<1>10. TAround
  BY Zenon DEF Init, TAround
<1>11. ITicket
  <2> SUFFICES ASSUME NEW j \in Jobs PROVE Ticket(j)
    BY DEF ITicket
  <2>1. worker.cur = None
    BY DEF Init, Booting
  <2>2. QED BY <2>1, TicketEmpty DEF Init
<1>2. TPlaces
  BY FS_EmptySet, QueueAssumption DEF Init, TPlaces
<1>3. TWorker
  BY DEF Init, TWorker, Booting, Workers
<1>4. TQueues
  <2>1. chan \in Seq(Jobs) /\ ready \in Seq(Entries) /\ delayed \in SUBSET Entries
    BY DEF Init
  <2>2. open \in BOOLEAN /\ wake \in BOOLEAN
    BY Zenon DEF Init
  <2>3. QED BY <2>1, <2>2 DEF TQueues
<1>5. worker.pc = "boot" /\ worker.cur = None /\ worker.scan = {}
  BY DEF Init, Booting
<1>6. IKnown
  BY <1>5 DEF Init, IKnown, Idle
<1>7. IBoot /\ IOpen
  BY <1>5 DEF Init, IBoot, IOpen
<1>8. ISettle /\ NeverForgotten
  BY <1>5 DEF ISettle, NeverForgotten
<1>9. QED BY <1>1, <1>2, <1>3, <1>4, <1>6, <1>7, <1>8, <1>10, <1>11, TypeParts DEF QInv

\* The invariant is inductive.
LEMMA QueueInductive == Spec => []QInv
<1>1. Init => QInv
  BY QueueInit
<1>2. QInv /\ [Next]_vars => QInv'
  BY TypeNext, LifeNext, KnownNext, TicketNext, SettleNext, ForgottenNext DEF QInv
<1>3. QED BY <1>1, <1>2, PTL DEF Spec

\* The queue keeps its types: in particular the placeholders never exceed the capacity
\* of spawn_scheduler and no job is scheduled and parked at once.
THEOREM QueueTypes == Spec => []QTypeOK
<1>1. QInv => QTypeOK
  BY DEF QInv
<1>2. QED BY <1>1, QueueInductive, PTL

\* As long as the consumer lives, no analysis that is still to be done is forgotten,
\* whatever requests are cancelled, find the queue full or meet a run that is ending; but
\* for what the last scan could not read and what an ended event worker has left behind.
THEOREM AnalysesAreKept == Spec => []NeverForgotten
<1>1. QInv => NeverForgotten
  BY DEF QInv
<1>2. QED BY <1>1, QueueInductive, PTL

\* As long as the consumer lives, a placeholder stands for exactly one entry of the
\* channel and the consumer's queues: enqueue, the scans, the retries and the parking
\* neither double an analysis nor leave a place taken by nobody.
THEOREM TicketsAreSingle == Spec => []OneTicket
<1>1. QInv => OneTicket
  BY TicketsCounted DEF QInv
<1>2. QED BY <1>1, QueueInductive, PTL
=============================================================================
