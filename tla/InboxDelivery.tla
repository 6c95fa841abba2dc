---------------------------- MODULE InboxDelivery ----------------------------
(***************************************************************************)
(* The delivery of inbox messages from the maintainer's outbox to one      *)
(* agent, and their processing by the agent's processes.                   *)
(*                                                                         *)
(* The outbox keeps marks per agent, so one agent tells everything.  Its   *)
(* processes share one directory of message files, one lock on the local   *)
(* knowledge, and one journal of the effects of ClaimAttributeUpdates.     *)
(* A message is identified by the place of its event time: processing      *)
(* goes by event time, creation need not.                                  *)
(***************************************************************************)
EXTENDS Naturals, FiniteSets

CONSTANTS
  Procs,        \* the processes that run the inbox of this agent
  Policies,
  None, Orphan, \* Orphan: a processing file no running process knows
  Delayed,      \* a ClaimAttributeUpdate may be sent after one with a later event
  MaxMsgs,      \* bound: messages in the outbox
  MaxClaims,    \* bound: claims written for policy updates
  MaxFaults     \* bound: failures and crashes

ASSUME InboxAssumption ==
  /\ None \notin Procs /\ Orphan \notin Procs /\ Delayed \in BOOLEAN
  /\ MaxMsgs \in Nat /\ MaxClaims \in Nat /\ MaxFaults \in Nat

Msgs == 1..MaxMsgs
Kinds == {"none", "update", "deprecate", "cau"}
Holders == Procs \cup {Orphan}

\* A file is missing, or there since less or more than processing_stale_after.  The
\* age is that of the last write; a rename keeps it.
Ages == {"none", "new", "old"}

Pcs == {"idle", "accept", "write", "receipt", "scan", "claim", "work", "update",
        "stage", "cau", "refs", "apply", "mark", "ack", "unlink",
        "release"}

VARIABLES
  policy,     \* Policy.status in maintainer/policies
  scope,      \* per policy: broadcast, or targeted at this agent
  kind, pol,  \* the outbox: per message its kind and its policy
  offered,    \* offered_to holds this agent
  delivered,  \* delivered_to holds this agent
  active,     \* per message the age of <id>.yaml
  lease,      \* per message and process the age of <id>.processing.<lease>.yaml
  done,       \* the messages with <id>.done.yaml
  effect,     \* per message the record of the effect journal
  took,       \* <<plan, message>> whose effect has been applied
  claims,     \* local claims made from policy updates
  settled,    \* messages whose outcome is written and staged (history)
  klock,      \* holder of knowledge_apply.lock
  run,        \* per process: its round
  seen,       \* per process: LocalFsInboxReader.seen
  faults

outbox == <<policy, scope, kind, pol, offered, delivered>>
files == <<active, lease, done>>
local == <<effect, took, claims, settled>>
vars == <<policy, scope, kind, pol, offered, delivered, active, lease, done, effect,
          took, claims, settled, klock, run, seen, faults>>

\* The round of a process: list is what a loop has still to go through, got what was
\* persisted of this pull, mine the claimed messages, batch the messages handed over
\* together, rest those of them without an applied plan, cur the plan in hand.
Idle == [pc |-> "idle", list |-> {}, got |-> {}, mine |-> {}, batch |-> {}, rest |-> {},
         cur |-> 0]

\* A journal record is the plan of a batch, at its first message, or a reference to it.
Effects == [plan : Msgs, members : SUBSET Msgs, applied : BOOLEAN]

\* A missing record is not a record.
ASSUME JournalAssumption == None \notin Effects

Claims == [src : Msgs, n : 1..MaxClaims, active : BOOLEAN]

Created == {m \in Msgs : kind[m] # "none"}

HasCopy(m) == m \in done \/ active[m] # "none" \/ \E h \in Holders : lease[m][h] # "none"

Init ==
  /\ policy = [p \in Policies |-> "none"] /\ scope = [p \in Policies |-> "broadcast"]
  /\ kind = [m \in Msgs |-> "none"] /\ pol = [m \in Msgs |-> None]
  /\ offered = {} /\ delivered = {}
  /\ active = [m \in Msgs |-> "none"] /\ done = {}
  /\ lease = [m \in Msgs |-> [h \in Holders |-> "none"]]
  /\ effect = [m \in Msgs |-> None] /\ took = {} /\ claims = {} /\ settled = {}
  /\ klock = None /\ run = [p \in Procs |-> Idle] /\ seen = [p \in Procs |-> {}]
  /\ faults = 0

Fault == faults < MaxFaults /\ faults' = faults + 1
NoFault == UNCHANGED faults

----------------------------------------------------------------------------
\* The maintainer, under the outbox locks

\* create_outbox_entries: the entry follows the policy file; a crash between them
\* leaves the policy without its message.
create_outbox_entry(m, k, p) ==
  \/ /\ kind' = [kind EXCEPT ![m] = k] /\ pol' = [pol EXCEPT ![m] = p] /\ NoFault
  \/ UNCHANGED <<kind, pol>> /\ Fault

Latest(m) == \A n \in Created : n < m

publish_new_policy(p) ==
  /\ policy[p] = "none" /\ policy' = [policy EXCEPT ![p] = "active"]
  /\ \E s \in {"broadcast", "targeted"} : scope' = [scope EXCEPT ![p] = s]
  /\ \E m \in Msgs : Latest(m) /\ create_outbox_entry(m, "update", p)
  /\ UNCHANGED <<offered, delivered, files, local, klock, run, seen>>

deprecate_policy(p) ==
  /\ policy[p] # "none" /\ policy' = [policy EXCEPT ![p] = "deprecated"]
  /\ \E m \in Msgs : Latest(m) /\ create_outbox_entry(m, "deprecate", p)
  /\ UNCHANGED <<scope, offered, delivered, files, local, klock, run, seen>>

\* claim_update_suggestion, a sweep, or the delivery of a resolution, which may be
\* retried long after the time of its event.
claim_update_suggestion ==
  /\ \E m \in Msgs : /\ kind[m] = "none" /\ (Delayed \/ Latest(m))
                     /\ create_outbox_entry(m, "cau", None)
  /\ UNCHANGED <<policy, scope, offered, delivered, files, local, klock, run, seen>>

\* A broadcast deprecation goes to an agent that was offered the policy.
SeenPolicy(m) == \E n \in offered \cup delivered : pol[n] = pol[m]

\* What is left of the choice of pull_inbox.  A claim update counts as addressed to this
\* agent; the withdrawal of the policy of a broadcast one is left out.
Offerable(m) ==
  \/ kind[m] = "cau"
  \/ kind[m] \in {"update", "deprecate"} /\ scope[pol[m]] = "targeted"
  \/ kind[m] = "deprecate" /\ SeenPolicy(m)
  \/ kind[m] = "update" /\ (policy[pol[m]] = "active" \/ m \in offered)

\* Mutant: what was offered once is not offered again.
OfferedOnce == {m \in Created \ (delivered \cup offered) : Offerable(m)}

Chosen == {m \in Created \ delivered : Offerable(m)}

----------------------------------------------------------------------------
\* Receiving: sync_inbox_to_local

\* Loops go through the messages in event order, one of Least(S) at a time.
Least(S) == {m \in S : \A n \in S : m <= n}
Prefixes(S) == {{m \in S : m <= n} : n \in S} \cup {{}}
Goto(p, pc) == run' = [run EXCEPT ![p].pc = pc]
ForgetList(p, pc) == run' = [run EXCEPT ![p].pc = pc, ![p].list = {}]

\* A pull that fails, or whose answer is lost, may have recorded some of its offers.
pull_inbox(p) ==
  /\ run[p].pc = "idle"
  /\ \/ /\ offered' = offered \cup Chosen /\ NoFault
        /\ run' = [run EXCEPT ![p].pc = "accept", ![p].list = Chosen]
     \/ /\ \E S \in Prefixes(Chosen) : offered' = offered \cup S
        /\ Fault /\ Goto(p, "scan")
  /\ UNCHANGED <<policy, scope, kind, pol, delivered, files, local, klock, seen>>

Received(p, m) ==
  run' = [run EXCEPT ![p].pc = "accept", ![p].list = @ \ {m}, ![p].got = @ \cup {m}]

\* accept_pulled looks for a copy in any form and then writes, without a lock.
accept_pulled(p) ==
  /\ run[p].pc = "accept"
  /\ \E m \in Least(run[p].list) :
       IF HasCopy(m) THEN Received(p, m) ELSE Goto(p, "write")
  /\ NoFault /\ UNCHANGED <<outbox, files, local, klock, seen>>

write_pulled(p) ==
  /\ run[p].pc = "write"
  /\ \/ \E m \in Least(run[p].list) :
          active' = [active EXCEPT ![m] = "new"] /\ Received(p, m) /\ NoFault
     \/ UNCHANGED active /\ Fault /\ ForgetList(p, "accept")
  /\ UNCHANGED <<outbox, lease, done, local, klock, seen>>

\* Only what this pull has put on the disk, or found there.
Acknowledged(p) == run[p].got

\* ack_persisted_inbox: the maintainer checks the batch and marks it one by one; the
\* request may be lost, cut, or answered to nobody.
ack_inbox(p) ==
  /\ run[p].pc = "accept" /\ run[p].list = {}
  /\ \/ delivered' = delivered \cup Acknowledged(p) /\ NoFault
     \/ \E S \in Prefixes(Acknowledged(p)) : delivered' = delivered \cup S /\ Fault
  /\ run' = [run EXCEPT ![p].pc = "scan", ![p].got = {}]
  /\ UNCHANGED <<policy, scope, kind, pol, offered, files, local, klock, seen>>

----------------------------------------------------------------------------
\* Claiming: LocalFsInboxReader.claim_pending

Stale(m) == {h \in Holders : lease[m][h] = "old"}

\* Mutant: a stale processing file is removed and not put back.
RecoverDrops(m) == active[m]

\* recover_stale_processing puts the file back, unless the message is done or there.
Recovered(m) == IF Stale(m) # {} /\ m \notin done /\ active[m] = "none"
                  THEN "old" ELSE active[m]

claim_pending(p) ==
  /\ run[p].pc = "scan"
  /\ lease' = [m \in Msgs |-> [h \in Holders |-> IF h \in Stale(m) THEN "none"
                                                                  ELSE lease[m][h]]]
  /\ active' = [m \in Msgs |-> IF m \in done THEN "none" ELSE Recovered(m)]
  /\ run' = [run EXCEPT ![p].pc = "claim",
                        ![p].list = {m \in Msgs \ (done \cup seen[p]) : active'[m] # "none"}]
  /\ NoFault /\ UNCHANGED <<outbox, done, local, klock, seen>>

Abandon(S, p) ==
  [m \in Msgs |-> IF m \in S /\ lease[m][p] # "none"
                    THEN [lease[m] EXCEPT ![Orphan] = IF @ = "old" THEN @ ELSE lease[m][p],
                                          ![p] = "none"]
                    ELSE lease[m]]

\* The listed files are renamed one by one; one that is gone is another process's.  An
\* error ends the round and forgets the leases taken so far.
claim_message(p) ==
  /\ run[p].pc = "claim"
  /\ \E m \in Least(run[p].list) :
        \/ /\ active[m] # "none"
           /\ active' = [active EXCEPT ![m] = "none"]
           /\ lease' = [lease EXCEPT ![m][p] = active[m]]
           /\ run' = [run EXCEPT ![p].list = @ \ {m}, ![p].mine = @ \cup {m}] /\ NoFault
        \/ /\ active[m] = "none"
           /\ run' = [run EXCEPT ![p].list = @ \ {m}]
           /\ NoFault /\ UNCHANGED <<active, lease>>
        \/ /\ lease' = Abandon(run[p].mine, p) /\ run' = [run EXCEPT ![p] = Idle]
           /\ Fault /\ UNCHANGED active
  /\ UNCHANGED <<outbox, done, local, klock, seen>>

start_work(p) ==
  /\ run[p].pc = "claim" /\ run[p].list = {}
  /\ run' = [run EXCEPT ![p].pc = "work", ![p].list = run[p].mine]
  /\ NoFault /\ UNCHANGED <<outbox, files, local, klock, seen>>

----------------------------------------------------------------------------
\* Processing in event order: process_claimed_inbox

\* Messages of one kind that follow each other are handed over together; a message of
\* another kind waits until the batch is through.
Mergeable(p) == {m \in Least(run[p].list) : /\ kind[m] # "deprecate"
                                            /\ \A b \in run[p].batch : kind[b] = kind[m]}

push_internalize_message(p) ==
  /\ run[p].pc = "work"
  /\ \E m \in Mergeable(p) :
       run' = [run EXCEPT ![p].list = @ \ {m}, ![p].batch = @ \cup {m}]
  /\ NoFault /\ UNCHANGED <<outbox, files, local, klock, seen>>

\* knowledge_apply.lock is taken for the whole of a batch, the model's answer included.
Lock(p) == klock = None /\ klock' = p

Unlock == klock' = None

flush_internalize_updates(p) ==
  /\ run[p].pc = "work" /\ Mergeable(p) = {} /\ Lock(p)
  /\ \E m \in Least(run[p].batch) :
       run' = [run EXCEPT ![p].pc = kind[m], ![p].rest = run[p].batch]
  /\ NoFault /\ UNCHANGED <<outbox, files, local, seen>>

finish_round(p) ==
  /\ run[p].pc = "work" /\ run[p].batch = {} /\ run[p].list = {}
  /\ run' = [run EXCEPT ![p] = Idle]
  /\ NoFault /\ UNCHANGED <<outbox, files, local, klock, seen>>

\* Any error of the processing ends it and leads to the release of all leases.
Fail(p) == Fault /\ Goto(p, "release") /\ klock' = IF klock = p THEN None ELSE klock

\* internalize_inbox_updates: the model may make a claim of each update; the claims
\* are written, and only then staged for upload.  No journal tells a later attempt.
internalize_inbox_updates(p) ==
  /\ run[p].pc = "update"
  /\ \/ /\ \E S \in SUBSET run[p].batch :
             LET n == Cardinality(claims)
             IN /\ n + Cardinality(S) <= MaxClaims
                /\ claims' = claims \cup {[src |-> m, n |-> n + Cardinality({i \in S : i <= m}),
                                           active |-> TRUE] : m \in S}
        /\ NoFault /\ Goto(p, "stage") /\ UNCHANGED klock
     \/ Fail(p) /\ UNCHANGED claims
  /\ UNCHANGED <<outbox, files, effect, took, settled, seen>>

\* What was written is put into the upload queue.
stage_maintainer_batch(p) ==
  /\ run[p].pc = "stage"
  /\ \/ /\ settled' = settled \cup run[p].batch
        /\ Unlock /\ Goto(p, "ack") /\ NoFault
     \/ Fail(p) /\ UNCHANGED settled
  /\ UNCHANGED <<outbox, files, effect, took, claims, seen>>

FromPolicy(c, m) == pol[c.src] = pol[m]
Retire(S) == claims' = (claims \ S) \cup {[c EXCEPT !.active = FALSE] : c \in S}

\* Every claim with this policy as a source is written back, one by one.
apply_policy_deprecation(p) ==
  /\ run[p].pc = "work" /\ run[p].batch = {} /\ klock = None
  /\ \E m \in Least(run[p].list) :
       LET targets == {c \in claims : FromPolicy(c, m)}
       IN /\ kind[m] = "deprecate"
          /\ \/ /\ Retire(targets) /\ Lock(p) /\ NoFault
                /\ run' = [run EXCEPT ![p].pc = "stage", ![p].list = @ \ {m}, ![p].batch = {m}]
             \/ /\ \E S \in SUBSET targets : Retire(S)
                /\ Fail(p)
  /\ UNCHANGED <<outbox, files, effect, took, settled, seen>>

----------------------------------------------------------------------------
\* ClaimAttributeUpdates and their journal: internalize_claim_attribute_update_messages

Plan(m, S) == [plan |-> m, members |-> S, applied |-> FALSE]
Ref(m) == [plan |-> m, members |-> {}, applied |-> FALSE]

\* A message with a record is handled by the plan the record names.
load_effect_batch(p) ==
  /\ run[p].pc = "cau"
  /\ \E m \in Least(run[p].rest) :
       effect[m] # None /\ run' = [run EXCEPT ![p].pc = "refs", ![p].cur = effect[m].plan]
  /\ NoFault /\ UNCHANGED <<outbox, files, local, klock, seen>>

\* The messages up to the next record get one plan, written before anything is done.
prepare_effect(p) ==
  /\ run[p].pc = "cau"
  /\ LET group == {i \in run[p].rest : \A j \in run[p].rest : j <= i => effect[j] = None}
     IN \E m \in Least(run[p].rest) :
          /\ effect[m] = None
          /\ \/ /\ effect' = [effect EXCEPT ![m] = Plan(m, group)]
                /\ run' = [run EXCEPT ![p].pc = "refs", ![p].cur = m]
                /\ NoFault /\ UNCHANGED klock
             \/ Fail(p) /\ UNCHANGED effect
  /\ UNCHANGED <<outbox, files, took, claims, settled, seen>>

\* Mutant: the members of a plan get no reference.
NoneUnlike(c) == {}

\* The members whose record is missing or is not a reference to plan c.
Unlike(c) == {m \in effect[c].members \ {c} : effect[m] # Ref(c)}

\* repair_claim_attribute_update_refs: a record of another plan is an error.
repair_effect_refs(p) ==
  /\ run[p].pc = "refs"
  /\ LET c == run[p].cur
     IN \/ \E m \in Least(Unlike(c)) :
             \/ /\ effect[m] = None /\ effect' = [effect EXCEPT ![m] = Ref(c)]
                /\ UNCHANGED <<run, klock>>
             \/ effect[m] # None /\ Goto(p, "release") /\ Unlock /\ UNCHANGED effect
        \/ /\ Unlike(c) = {}
           /\ Goto(p, IF effect[c].applied THEN "mark" ELSE "apply")
           /\ UNCHANGED <<effect, klock>>
  /\ NoFault /\ UNCHANGED <<outbox, files, took, claims, settled, seen>>

\* A plan whose claims have changed since is given up, and counts as applied.
apply_effect(p) ==
  /\ run[p].pc = "apply"
  /\ \/ /\ \/ took' = took \cup {<<run[p].cur, m>> : m \in effect[run[p].cur].members}
           \/ UNCHANGED took
        /\ NoFault /\ Goto(p, "mark") /\ UNCHANGED klock
     \/ Fail(p) /\ UNCHANGED took
  /\ UNCHANGED <<outbox, files, effect, claims, settled, seen>>

mark_effect_applied(p) ==
  /\ run[p].pc = "mark"
  /\ LET members == effect[run[p].cur].members
         left == run[p].rest \ members
     IN /\ effect' = [effect EXCEPT ![run[p].cur].applied = TRUE]
        /\ settled' = settled \cup members
        /\ run' = [run EXCEPT ![p].pc = IF left = {} THEN "ack" ELSE "cau",
                              ![p].rest = left, ![p].cur = 0]
        /\ klock' = IF left = {} THEN None ELSE klock
  /\ NoFault /\ UNCHANGED <<outbox, files, took, claims, seen>>

----------------------------------------------------------------------------
\* Finishing: ack_claimed and release_claimed

Handled(p, m) ==
  /\ run' = [run EXCEPT ![p].pc = "ack", ![p].batch = @ \ {m}]
  /\ seen' = [seen EXCEPT ![p] = @ \cup {m}]

\* The done file is written first.  A lease that was taken over has left the message
\* with another process, or back among the pending ones, where it is finished.
ack_claimed(p) ==
  /\ run[p].pc = "ack"
  /\ \E m \in Least(run[p].batch) :
        \/ /\ lease[m][p] # "none"
           /\ done' = done \cup {m} /\ Goto(p, "unlink") /\ NoFault
           /\ UNCHANGED <<active, klock, seen>>
        \/ /\ lease[m][p] = "none" /\ Handled(p, m) /\ NoFault
           /\ IF m \notin done /\ active[m] # "none"
                THEN done' = done \cup {m} /\ active' = [active EXCEPT ![m] = "none"]
                ELSE UNCHANGED <<done, active>>
           /\ UNCHANGED klock
        \/ Fail(p) /\ UNCHANGED <<done, active, seen>>
  /\ UNCHANGED <<outbox, lease, local>>

remove_processing(p) ==
  /\ run[p].pc = "unlink"
  /\ \E m \in Least(run[p].batch) :
        \/ /\ lease[m][p] # "none" /\ lease' = [lease EXCEPT ![m][p] = "none"]
           /\ Handled(p, m)
        \/ /\ lease[m][p] = "none" /\ Goto(p, "release") /\ UNCHANGED <<lease, seen>>
  /\ NoFault /\ UNCHANGED <<outbox, active, done, local, klock>>

next_batch(p) ==
  /\ run[p].pc = "ack" /\ run[p].batch = {} /\ Goto(p, "work")
  /\ NoFault /\ UNCHANGED <<outbox, files, local, klock, seen>>

\* Mutant: a released message is not put back.
ReleaseDrops(p) == {}

\* The leases that go back to the pending files.
Returned(p) == {m \in run[p].mine : /\ lease[m][p] # "none" /\ active[m] = "none"
                                    /\ m \notin done}

\* A lease whose message is pending already is left to stale recovery.
release_claimed(p) ==
  /\ run[p].pc = "release"
  /\ LET kept == {m \in run[p].mine : active[m] # "none" /\ m \notin done}
     IN /\ active' = [m \in Msgs |-> IF m \in Returned(p) THEN lease[m][p] ELSE active[m]]
        /\ lease' = [m \in Msgs |-> IF m \in run[p].mine \ kept
                                      THEN [lease[m] EXCEPT ![p] = "none"]
                                      ELSE Abandon(kept, p)[m]]
  /\ run' = [run EXCEPT ![p] = Idle]
  /\ NoFault /\ UNCHANGED <<outbox, done, local, klock, seen>>

----------------------------------------------------------------------------
\* Faults and time

crash(p) ==
  /\ run[p].pc # "idle" /\ Fault
  /\ lease' = Abandon(Msgs, p) /\ klock' = IF klock = p THEN None ELSE klock
  /\ run' = [run EXCEPT ![p] = Idle] /\ seen' = [seen EXCEPT ![p] = {}]
  /\ UNCHANGED <<outbox, active, done, local>>

\* processing_stale_after passes.
time_passes ==
  /\ \E m \in Msgs : active[m] = "new" \/ \E h \in Holders : lease[m][h] = "new"
  /\ active' = [m \in Msgs |-> IF active[m] = "new" THEN "old" ELSE active[m]]
  /\ lease' = [m \in Msgs |-> [h \in Holders |-> IF lease[m][h] = "new" THEN "old"
                                                                     ELSE lease[m][h]]]
  /\ NoFault /\ UNCHANGED <<outbox, done, local, klock, run, seen>>

Round(p) ==
  \/ pull_inbox(p) \/ accept_pulled(p) \/ write_pulled(p) \/ ack_inbox(p)
  \/ claim_pending(p) \/ claim_message(p) \/ start_work(p)
  \/ push_internalize_message(p) \/ flush_internalize_updates(p) \/ finish_round(p)
  \/ internalize_inbox_updates(p) \/ stage_maintainer_batch(p)
  \/ apply_policy_deprecation(p)
  \/ load_effect_batch(p) \/ prepare_effect(p) \/ repair_effect_refs(p)
  \/ apply_effect(p) \/ mark_effect_applied(p)
  \/ ack_claimed(p) \/ remove_processing(p) \/ next_batch(p) \/ release_claimed(p)

Next ==
  \/ \E p \in Policies : publish_new_policy(p) \/ deprecate_policy(p)
  \/ claim_update_suggestion
  \/ \E p \in Procs : Round(p) \/ crash(p)
  \/ time_passes

Spec == Init /\ [][Next]_vars

\* A process ends the round it has begun, and sessions keep being started: each start
\* runs a round.  Nothing is assumed of the maintainer's people and of the faults.
FairSpec ==
  /\ Spec /\ WF_vars(time_passes)
  /\ \A p \in Procs : WF_vars(Round(p) /\ UNCHANGED faults)

----------------------------------------------------------------------------
Locked == {"update", "stage", "cau", "refs", "apply", "mark"}

\* The shape of every variable; knowledge_apply.lock is held exactly while claims or
\* the journal are being changed, and not while files are acknowledged or released.
ITypeOK ==
  /\ policy \in [Policies -> {"none", "active", "deprecated"}]
  /\ scope \in [Policies -> {"broadcast", "targeted"}]
  /\ kind \in [Msgs -> Kinds] /\ pol \in [Msgs -> Policies \cup {None}]
  /\ offered \subseteq Msgs /\ delivered \subseteq Msgs /\ done \subseteq Msgs
  /\ active \in [Msgs -> Ages] /\ lease \in [Msgs -> [Holders -> Ages]]
  /\ effect \in [Msgs -> Effects \cup {None}] /\ took \subseteq Msgs \X Msgs
  /\ claims \subseteq Claims /\ settled \subseteq Msgs
  /\ klock \in Procs \cup {None}
  /\ \A p \in Procs : klock = p <=> run[p].pc \in Locked
  /\ seen \in [Procs -> SUBSET Msgs]
  /\ run \in [Procs -> [pc : Pcs, list : SUBSET Msgs, got : SUBSET Msgs, mine : SUBSET Msgs,
                        batch : SUBSET Msgs, rest : SUBSET Msgs, cur : 0..MaxMsgs]]
  /\ faults \in 0..MaxFaults

\* The delivery to one agent implements what InboxAbstract promises.
Promise == INSTANCE InboxAbstract
  WITH Messages <- Msgs, sent <- Created, kept <- {m \in Msgs : HasCopy(m)},
       receipts <- delivered, settled <- settled, done <- done

\* Processes, crashes and lost answers may repeat work, but a message that is on the
\* disk never disappears, is acknowledged only then, and is done only when settled.
NothingIsLost == Promise!Spec

\* A ClaimAttributeUpdate takes effect through one plan at most, however often its
\* batch is cut and in whatever company it is found again.
EffectsOnce == \A m \in Msgs : Cardinality({t \in took : t[2] = m}) <= 1

\* A plan's members have no record of another plan, so that its missing references
\* can be written when it is found again.
JournalAgrees ==
  \A c \in Msgs : effect[c] # None => \A m \in effect[c].members \ {c} : effect[m] \in {None, Ref(c)}

\* Where the deprecation of a policy is done, no claim made from the policy is active.
RetiredIsInactive ==
  \A m \in done : kind[m] = "deprecate" => \A c \in claims : FromPolicy(c, m) => ~c.active

\* A message that the agent has is eventually done.
ReceivedIsDone == \A m \in Msgs : HasCopy(m) ~> m \in done

\* A message for this agent is eventually acknowledged, unless the policy it announces
\* is withdrawn before the agent was offered it.
SentIsReceived ==
  \A m \in Msgs : (kind[m] # "none" /\ Offerable(m)) ~> (m \in delivered \/ ~Offerable(m))
=============================================================================
