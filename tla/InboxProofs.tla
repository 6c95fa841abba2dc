---------------------------- MODULE InboxProofs ----------------------------
(***************************************************************************)
(* The delivery to one agent implements InboxAbstract, and an update takes *)
(* effect once: for any processes, policies, numbers of messages, claims   *)
(* and faults, with and without Delayed.                                   *)
(***************************************************************************)
EXTENDS InboxDelivery, FiniteSetTheorems, TLAPS

Kept == {m \in Msgs : HasCopy(m)}

\* The steps before a round has claimed anything, and those around one plan.
Receiving == {"idle", "accept", "write", "receipt", "scan", "claim"}
OnPlan == {"refs", "apply", "mark"}

\* What a process has in hand is on the disk; what it was offered has been sent.
IHand ==
  /\ Kept \subseteq Created
  /\ \A p \in Procs :
       /\ run[p].got \subseteq Kept /\ run[p].mine \subseteq Kept
       /\ run[p].batch \subseteq Kept /\ run[p].rest \subseteq Kept
       /\ run[p].list \subseteq IF run[p].pc \in {"accept", "write"} THEN Created ELSE Kept

\* What a process is collecting for one hand-over is of a kind that has one.
IBatch ==
  \A p \in Procs :
    /\ run[p].pc \in Receiving => run[p].batch = {}
    /\ run[p].pc = "work" => \A m \in run[p].batch : kind[m] \in {"update", "cau"}

\* A message is acknowledged behind its outcome, and unlinked behind its done file.
ISettled ==
  \A p \in Procs :
    /\ run[p].pc \in {"cau"} \cup OnPlan => run[p].batch \subseteq settled \cup run[p].rest
    /\ run[p].pc \in {"ack", "unlink"} => run[p].batch \subseteq settled
    /\ run[p].pc = "unlink" => Least(run[p].batch) \subseteq done

\* Every record leads to a plan, a plan's members are on the disk, and the plan in
\* hand is one.
IJournal ==
  /\ \A m \in Msgs : effect[m] # None =>
       /\ effect[m].members \subseteq Kept
       /\ effect[effect[m].plan] # None
       /\ effect[effect[m].plan].plan = effect[m].plan
  /\ \A p \in Procs : run[p].pc \in OnPlan =>
       /\ run[p].cur \in Msgs /\ effect[run[p].cur] # None
       /\ effect[run[p].cur].plan = run[p].cur

\* A plan is applied when every member has its reference, and what was applied is what
\* the record says.
IApplied ==
  /\ \A p \in Procs : run[p].pc = "apply" =>
       \A m \in effect[run[p].cur].members : effect[m] # None /\ effect[m].plan = run[p].cur
  /\ \A t \in took : effect[t[2]] # None /\ effect[t[2]].plan = t[1]

\* The inductive invariant.
IInv == ITypeOK /\ IHand /\ IBatch /\ ISettled /\ IJournal /\ IApplied

\* The parts of the type invariant.
TOutbox ==
  /\ policy \in [Policies -> {"none", "active", "deprecated"}]
  /\ scope \in [Policies -> {"broadcast", "targeted"}]
  /\ kind \in [Msgs -> Kinds] /\ pol \in [Msgs -> Policies \cup {None}]
  /\ offered \subseteq Msgs /\ delivered \subseteq Msgs
TFiles ==
  done \subseteq Msgs /\ active \in [Msgs -> Ages] /\ lease \in [Msgs -> [Holders -> Ages]]
TLocal ==
  /\ effect \in [Msgs -> Effects \cup {None}] /\ took \subseteq Msgs \X Msgs
  /\ settled \subseteq Msgs
TClaims == claims \subseteq Claims
RunRecords ==
  [pc : Pcs, list : SUBSET Msgs, got : SUBSET Msgs, mine : SUBSET Msgs,
   batch : SUBSET Msgs, rest : SUBSET Msgs, cur : 0..MaxMsgs]
TRun == run \in [Procs -> RunRecords] /\ seen \in [Procs -> SUBSET Msgs]
TLock == klock \in Procs \cup {None} /\ \A p \in Procs : klock = p <=> run[p].pc \in Locked

LEMMA TypeParts ==
  ITypeOK <=> TOutbox /\ TFiles /\ TLocal /\ TClaims /\ TRun /\ TLock /\ faults \in 0..MaxFaults
  BY DEF ITypeOK, TOutbox, TFiles, TLocal, TClaims, TRun, TLock, RunRecords

----------------------------------------------------------------------------
\* Types

\* Whoever may fail counts the failure.
LEMMA FaultsNext ==
  ASSUME ITypeOK, [Next]_vars
  PROVE  faults' \in 0..MaxFaults
<1> USE InboxAssumption
<1>1. faults \in 0..MaxFaults
  BY TypeParts
<1>2. ASSUME NEW p \in Procs, Round(p) \/ crash(p)
      PROVE  NoFault \/ Fault
  <2>1. CASE \/ pull_inbox(p) \/ accept_pulled(p) \/ write_pulled(p) \/ ack_inbox(p)
             \/ claim_pending(p) \/ claim_message(p) \/ start_work(p)
             \/ push_internalize_message(p) \/ flush_internalize_updates(p) \/ finish_round(p)
    BY <2>1 DEF pull_inbox, accept_pulled, write_pulled, ack_inbox, claim_pending,
       claim_message, start_work, push_internalize_message, flush_internalize_updates,
       finish_round
  <2>2. CASE \/ internalize_inbox_updates(p) \/ stage_maintainer_batch(p)
             \/ apply_policy_deprecation(p) \/ load_effect_batch(p) \/ prepare_effect(p)
             \/ repair_effect_refs(p) \/ apply_effect(p) \/ mark_effect_applied(p)
    BY <2>2 DEF internalize_inbox_updates, stage_maintainer_batch, apply_policy_deprecation,
       load_effect_batch, prepare_effect, repair_effect_refs, apply_effect,
       mark_effect_applied, Fail
  <2>3. CASE \/ ack_claimed(p) \/ remove_processing(p) \/ next_batch(p)
             \/ release_claimed(p) \/ crash(p)
    BY <2>3 DEF ack_claimed, remove_processing, next_batch, release_claimed, crash, Fail
  <2>4. QED BY <1>2, <2>1, <2>2, <2>3 DEF Round
<1>3. ASSUME \/ \E p \in Policies : publish_new_policy(p) \/ deprecate_policy(p)
             \/ claim_update_suggestion \/ time_passes \/ UNCHANGED vars
      PROVE  NoFault \/ Fault
  BY <1>3 DEF publish_new_policy, deprecate_policy, claim_update_suggestion,
     create_outbox_entry, time_passes, vars, NoFault
<1>4. NoFault \/ Fault
  BY <1>2, <1>3 DEF Next
<1>5. QED BY <1>1, <1>4 DEF NoFault, Fault

\* What is offered and received are messages of the outbox.
LEMMA ChosenType == Chosen \subseteq Created /\ Created \subseteq Msgs
  BY DEF Chosen, Created

LEMMA PrefixType ==
  ASSUME NEW S, NEW T \in Prefixes(S)
  PROVE  T \subseteq S
  BY DEF Prefixes

LEMMA LeastType ==
  ASSUME NEW S
  PROVE  Least(S) \subseteq S
  BY DEF Least

\* The outbox.
LEMMA OutboxNext ==
  ASSUME ITypeOK, [Next]_vars
  PROVE  TOutbox'
<1>0. TOutbox /\ TRun
  BY TypeParts
<1>1. ASSUME NEW q \in Policies, publish_new_policy(q) \/ deprecate_policy(q)
      PROVE  TOutbox'
  <2>1. policy' \in [Policies -> {"none", "active", "deprecated"}]
    BY <1>0, <1>1 DEF TOutbox, publish_new_policy, deprecate_policy
  <2>2. scope' \in [Policies -> {"broadcast", "targeted"}]
    BY <1>0, <1>1 DEF TOutbox, publish_new_policy, deprecate_policy
  <2>3. kind' \in [Msgs -> Kinds] /\ pol' \in [Msgs -> Policies \cup {None}]
    BY <1>0, <1>1 DEF TOutbox, publish_new_policy, deprecate_policy, create_outbox_entry, Kinds
  <2>4. QED BY <1>0, <1>1, <2>1, <2>2, <2>3 DEF TOutbox, publish_new_policy, deprecate_policy
<1>2. CASE claim_update_suggestion
  BY <1>0, <1>2 DEF TOutbox, claim_update_suggestion, create_outbox_entry, Kinds
<1>3. ASSUME NEW p \in Procs, pull_inbox(p)
      PROVE  TOutbox'
  BY <1>0, <1>3, ChosenType, PrefixType DEF TOutbox, pull_inbox
<1>4. ASSUME NEW p \in Procs, ack_inbox(p)
      PROVE  TOutbox'
  <2>1. Acknowledged(p) \subseteq Msgs
    BY <1>0 DEF Acknowledged, TRun, RunRecords
  <2>2. QED BY <1>0, <1>4, <2>1, PrefixType DEF TOutbox, ack_inbox
<1>5. ASSUME UNCHANGED outbox
      PROVE  TOutbox'
  BY <1>0, <1>5 DEF TOutbox, outbox
<1>6. ASSUME NEW p \in Procs,
             \/ accept_pulled(p) \/ write_pulled(p) \/ claim_pending(p) \/ claim_message(p)
             \/ start_work(p) \/ push_internalize_message(p) \/ flush_internalize_updates(p)
             \/ finish_round(p) \/ internalize_inbox_updates(p) \/ stage_maintainer_batch(p)
             \/ apply_policy_deprecation(p)
      PROVE  TOutbox'
  BY <1>5, <1>6 DEF accept_pulled, write_pulled, claim_pending, claim_message, start_work,
     push_internalize_message, flush_internalize_updates, finish_round,
     internalize_inbox_updates, stage_maintainer_batch, apply_policy_deprecation
<1>7. ASSUME NEW p \in Procs,
             \/ load_effect_batch(p) \/ prepare_effect(p) \/ repair_effect_refs(p)
             \/ apply_effect(p) \/ mark_effect_applied(p) \/ ack_claimed(p)
             \/ remove_processing(p) \/ next_batch(p) \/ release_claimed(p) \/ crash(p)
      PROVE  TOutbox'
  BY <1>5, <1>7 DEF load_effect_batch, prepare_effect, repair_effect_refs, apply_effect,
     mark_effect_applied, ack_claimed, remove_processing, next_batch, release_claimed, crash
<1>8. CASE time_passes \/ UNCHANGED vars
  BY <1>5, <1>8 DEF time_passes, vars, outbox
<1>9. QED BY <1>1, <1>2, <1>3, <1>4, <1>6, <1>7, <1>8 DEF Next, Round

\* Forgetting leases keeps their type.
LEMMA AbandonType ==
  ASSUME TFiles, NEW S, NEW p \in Procs
  PROVE  Abandon(S, p) \in [Msgs -> [Holders -> Ages]]
<1>1. p \in Holders /\ Orphan \in Holders
  BY DEF Holders
<1>2. ASSUME NEW m \in Msgs
      PROVE  [lease[m] EXCEPT ![Orphan] = IF @ = "old" THEN @ ELSE lease[m][p],
                              ![p] = "none"] \in [Holders -> Ages]
  BY <1>1 DEF TFiles, Ages
<1>3. QED BY <1>2 DEF TFiles, Abandon

\* The message files.
LEMMA FilesNext ==
  ASSUME ITypeOK, [Next]_vars
  PROVE  TFiles'
<1>0. TFiles /\ TRun
  BY TypeParts
<1>1. ASSUME UNCHANGED files
      PROVE  TFiles'
  BY <1>0, <1>1 DEF TFiles, files
<1>2. ASSUME NEW q \in Policies, publish_new_policy(q) \/ deprecate_policy(q)
      PROVE  TFiles'
  BY <1>1, <1>2 DEF publish_new_policy, deprecate_policy
<1>3. ASSUME NEW p \in Procs, write_pulled(p)
      PROVE  TFiles'
  BY <1>0, <1>3 DEF TFiles, write_pulled, Ages
<1>4. ASSUME NEW p \in Procs, claim_pending(p)
      PROVE  TFiles'
  BY <1>0, <1>4 DEF TFiles, claim_pending, Recovered, Ages
<1>5. ASSUME NEW p \in Procs, claim_message(p)
      PROVE  TFiles'
  <2>1. p \in Holders
    BY DEF Holders
  <2>2. active' \in [Msgs -> Ages]
    BY <1>0, <1>5 DEF TFiles, claim_message, Ages
  <2>3. CASE lease' = Abandon(run[p].mine, p)
    BY <1>0, <1>5, <2>2, <2>3, AbandonType DEF TFiles, claim_message
  <2>4. ASSUME NEW m \in Least(run[p].list),
               lease' = [lease EXCEPT ![m][p] = active[m]] \/ lease' = lease
        PROVE  TFiles'
    <3>1. m \in Msgs
      BY <1>0, LeastType DEF TRun, RunRecords
    <3>2. lease' \in [Msgs -> [Holders -> Ages]]
      BY <1>0, <2>1, <2>4, <3>1 DEF TFiles
    <3>3. QED BY <1>0, <1>5, <2>2, <3>2 DEF TFiles, claim_message
  <2>5. QED BY <1>5, <2>3, <2>4 DEF claim_message
<1>6. ASSUME NEW p \in Procs, ack_claimed(p)
      PROVE  TFiles'
  <2>1. Least(run[p].batch) \subseteq Msgs
    BY <1>0, LeastType DEF TRun, RunRecords
  <2>2. QED BY <1>0, <1>6, <2>1 DEF TFiles, ack_claimed, Ages
<1>7. ASSUME NEW p \in Procs, remove_processing(p)
      PROVE  TFiles'
  BY <1>0, <1>7 DEF TFiles, remove_processing, Ages
<1>8. ASSUME NEW p \in Procs, release_claimed(p)
      PROVE  TFiles'
  <2> DEFINE kept == {m \in run[p].mine : active[m] # "none" /\ m \notin done}
  <2>1. p \in Holders
    BY DEF Holders
  <2>2. active' \in [Msgs -> Ages]
    BY <1>0, <1>8, <2>1 DEF TFiles, release_claimed
  <2>3. Abandon(kept, p) \in [Msgs -> [Holders -> Ages]]
    BY <1>0, AbandonType
  <2>4. lease' = [m \in Msgs |-> IF m \in run[p].mine \ kept
                                    THEN [lease[m] EXCEPT ![p] = "none"]
                                    ELSE Abandon(kept, p)[m]]
    BY <1>8 DEF release_claimed
  <2> HIDE DEF kept
  <2>5. lease' \in [Msgs -> [Holders -> Ages]]
    BY <1>0, <2>1, <2>3, <2>4 DEF TFiles, Ages
  <2>6. QED BY <1>0, <1>8, <2>2, <2>5 DEF TFiles, release_claimed
<1>9. ASSUME NEW p \in Procs, crash(p)
      PROVE  TFiles'
  BY <1>0, <1>9, AbandonType DEF TFiles, crash
<1>10. CASE time_passes
  BY <1>0, <1>10 DEF TFiles, time_passes, Ages
<1>11. ASSUME NEW p \in Procs,
              \/ pull_inbox(p) \/ accept_pulled(p) \/ ack_inbox(p) \/ start_work(p)
              \/ push_internalize_message(p) \/ flush_internalize_updates(p)
              \/ finish_round(p) \/ internalize_inbox_updates(p)
              \/ stage_maintainer_batch(p) \/ apply_policy_deprecation(p)
       PROVE  TFiles'
  BY <1>1, <1>11 DEF pull_inbox, accept_pulled, ack_inbox, start_work,
     push_internalize_message, flush_internalize_updates, finish_round,
     internalize_inbox_updates, stage_maintainer_batch, apply_policy_deprecation
<1>12. ASSUME NEW p \in Procs,
              \/ load_effect_batch(p) \/ prepare_effect(p) \/ repair_effect_refs(p)
              \/ apply_effect(p) \/ mark_effect_applied(p) \/ next_batch(p)
       PROVE  TFiles'
  BY <1>1, <1>12 DEF load_effect_batch, prepare_effect, repair_effect_refs, apply_effect,
     mark_effect_applied, next_batch
<1>13. CASE claim_update_suggestion \/ UNCHANGED vars
  BY <1>1, <1>13 DEF claim_update_suggestion, vars, files
<1>14. QED BY <1>2, <1>3, <1>4, <1>5, <1>6, <1>7, <1>8, <1>9, <1>10, <1>11, <1>12, <1>13
           DEF Next, Round

\* A step of one process leaves the others alone.
LEMMA OthersStay ==
  ASSUME TRun, NEW p \in Procs, Round(p) \/ crash(p)
  PROVE  \A q \in Procs : q # p => run'[q] = run[q]
<1> USE DEF TRun
<1>1. CASE \/ pull_inbox(p) \/ accept_pulled(p) \/ write_pulled(p) \/ ack_inbox(p)
           \/ claim_pending(p) \/ claim_message(p) \/ start_work(p)
           \/ push_internalize_message(p) \/ flush_internalize_updates(p) \/ finish_round(p)
  BY <1>1 DEF pull_inbox, accept_pulled, write_pulled, ack_inbox, claim_pending,
     claim_message, start_work, push_internalize_message, flush_internalize_updates,
     finish_round, Goto, Received, ForgetList
<1>2. CASE \/ internalize_inbox_updates(p) \/ stage_maintainer_batch(p)
           \/ apply_policy_deprecation(p) \/ load_effect_batch(p) \/ prepare_effect(p)
           \/ repair_effect_refs(p) \/ apply_effect(p) \/ mark_effect_applied(p)
  BY <1>2 DEF internalize_inbox_updates, stage_maintainer_batch, apply_policy_deprecation,
     load_effect_batch, prepare_effect, repair_effect_refs, apply_effect,
     mark_effect_applied, Fail, Goto
<1>3. CASE \/ ack_claimed(p) \/ remove_processing(p) \/ next_batch(p)
           \/ release_claimed(p) \/ crash(p)
  BY <1>3 DEF ack_claimed, remove_processing, next_batch, release_claimed, crash, Fail,
     Goto, Handled
<1>4. QED BY <1>1, <1>2, <1>3 DEF Round

\* Nor does a step of the maintainer or of time.
LEMMA RoundsStay ==
  ASSUME \/ \E q \in Policies : publish_new_policy(q) \/ deprecate_policy(q)
         \/ claim_update_suggestion \/ time_passes \/ UNCHANGED vars
  PROVE  UNCHANGED <<run, seen, klock, local>>
  BY DEF publish_new_policy, deprecate_policy, claim_update_suggestion, time_passes, vars,
     local

\* The rounds.
LEMMA RunNext ==
  ASSUME ITypeOK, IBatch, [Next]_vars
  PROVE  TRun'
<1>0. TRun /\ TLocal
  BY TypeParts
<1>a. 0 \in 0..MaxMsgs /\ Msgs \subseteq 0..MaxMsgs
  BY InboxAssumption DEF Msgs
<1>b. Idle \in RunRecords
  BY <1>a DEF Idle, RunRecords, Pcs
<1>d. {"accept", "scan", "refs", "ack", "cau"} \subseteq Pcs
  BY DEF Pcs
<1>c. \A p \in Procs : /\ Least(run[p].list) \subseteq Msgs /\ Least(run[p].rest) \subseteq Msgs
                       /\ Least(run[p].batch) \subseteq Msgs
  BY <1>0, LeastType DEF TRun, RunRecords
<1>1. ASSUME NEW p \in Procs,
             \/ pull_inbox(p) \/ accept_pulled(p) \/ write_pulled(p) \/ ack_inbox(p)
      PROVE  TRun'
  <2>1. run' \in [Procs -> RunRecords]
    <3>1. CASE pull_inbox(p)
      BY <3>1, <1>0, <1>c, ChosenType DEF TRun, RunRecords, Pcs, pull_inbox, Goto, Received,
         ForgetList
    <3>2. CASE accept_pulled(p)
      BY <3>2, <1>0, <1>c, ChosenType DEF TRun, RunRecords, Pcs, accept_pulled, Goto, Received,
         ForgetList
    <3>3. CASE write_pulled(p)
      <4>1. ASSUME NEW m \in Msgs, Received(p, m)
            PROVE  run' \in [Procs -> RunRecords]
        BY ZenonT(60), <1>0, <1>d, <4>1 DEF Received, TRun, RunRecords
      <4>2. ASSUME ForgetList(p, "accept")
            PROVE  run' \in [Procs -> RunRecords]
        BY ZenonT(60), <1>0, <1>d, <4>2 DEF ForgetList, TRun, RunRecords
      <4>3. QED BY <3>3, <1>c, <4>1, <4>2 DEF write_pulled
    <3>4. CASE ack_inbox(p)
      <4>1. run' = [run EXCEPT ![p].pc = "scan", ![p].got = {}]
        BY <3>4 DEF ack_inbox
      <4>2. QED BY ZenonT(60), <1>0, <1>d, <4>1 DEF TRun, RunRecords
    <3>5. QED BY <1>1, <3>1, <3>2, <3>3, <3>4
  <2>2. QED BY <1>0, <1>1, <2>1 DEF TRun, pull_inbox, accept_pulled, write_pulled, ack_inbox
<1>2. ASSUME NEW p \in Procs,
             \/ claim_pending(p) \/ claim_message(p) \/ start_work(p)
             \/ push_internalize_message(p) \/ finish_round(p) \/ next_batch(p)
      PROVE  TRun'
  <2>1. Mergeable(p) \subseteq Msgs
    BY <1>c DEF Mergeable
  <2>2. run' \in [Procs -> RunRecords]
    <3>1. CASE claim_pending(p)
      BY ZenonT(60), <3>1, <1>0, <1>b, <1>c, <2>1 DEF TRun, RunRecords, Pcs, claim_pending, Goto
    <3>2. CASE claim_message(p)
      BY <3>2, <1>0, <1>b, <1>c, <2>1 DEF TRun, RunRecords, Pcs, claim_message, Goto
    <3>3. CASE start_work(p)
      BY ZenonT(60), <3>3, <1>0, <1>b, <1>c, <2>1 DEF TRun, RunRecords, Pcs, start_work, Goto
    <3>4. CASE push_internalize_message(p)
      <4>1. PICK m \in Msgs :
              run' = [run EXCEPT ![p].list = @ \ {m}, ![p].batch = @ \cup {m}]
        BY <3>4, <2>1 DEF push_internalize_message
      <4>2. QED BY ZenonT(60), <1>0, <4>1 DEF TRun, RunRecords
    <3>5. CASE finish_round(p)
      BY <3>5, <1>0, <1>b, <1>c, <2>1 DEF TRun, RunRecords, Pcs, finish_round, Goto
    <3>6. CASE next_batch(p)
      BY <3>6, <1>0, <1>b, <1>c, <2>1 DEF TRun, RunRecords, Pcs, next_batch, Goto
    <3>7. QED BY <1>2, <3>1, <3>2, <3>3, <3>4, <3>5, <3>6
  <2>3. QED BY <1>0, <1>2, <2>2 DEF TRun, claim_pending, claim_message, start_work,
            push_internalize_message, finish_round, next_batch
<1>3. ASSUME NEW p \in Procs, flush_internalize_updates(p)
      PROVE  TRun'
  <2>1. PICK m \in Least(run[p].batch) :
          run' = [run EXCEPT ![p].pc = kind[m], ![p].rest = run[p].batch]
    BY <1>3 DEF flush_internalize_updates
  <2>2. kind[m] \in Pcs
    BY <1>3, LeastType DEF IBatch, flush_internalize_updates, Pcs
  <2>3. run' \in [Procs -> RunRecords]
    BY ZenonT(60), <1>0, <2>1, <2>2 DEF TRun, RunRecords
  <2>4. QED BY <1>0, <1>3, <2>3 DEF TRun, flush_internalize_updates
<1>4. ASSUME NEW p \in Procs,
             \/ internalize_inbox_updates(p) \/ stage_maintainer_batch(p)
             \/ apply_policy_deprecation(p) \/ repair_effect_refs(p) \/ apply_effect(p)
      PROVE  TRun'
  <2>1. run' \in [Procs -> RunRecords]
    <3>1. CASE internalize_inbox_updates(p)
      BY <3>1, <1>0, <1>c DEF TRun, RunRecords, Pcs, internalize_inbox_updates, Goto, Fail
    <3>2. CASE stage_maintainer_batch(p)
      BY <3>2, <1>0, <1>c DEF TRun, RunRecords, Pcs, stage_maintainer_batch, Goto, Fail
    <3>3. CASE apply_policy_deprecation(p)
      BY <3>3, <1>0, <1>c DEF TRun, RunRecords, Pcs, apply_policy_deprecation, Goto, Fail
    <3>4. CASE repair_effect_refs(p)
      BY <3>4, <1>0, <1>c DEF TRun, RunRecords, Pcs, repair_effect_refs, Goto, Fail
    <3>5. CASE apply_effect(p)
      BY <3>5, <1>0, <1>c DEF TRun, RunRecords, Pcs, apply_effect, Goto, Fail
    <3>6. QED BY <1>4, <3>1, <3>2, <3>3, <3>4, <3>5
  <2>2. QED BY <1>0, <1>4, <2>1 DEF TRun, internalize_inbox_updates, stage_maintainer_batch,
            apply_policy_deprecation, repair_effect_refs, apply_effect
<1>5. ASSUME NEW p \in Procs,
             load_effect_batch(p) \/ prepare_effect(p) \/ mark_effect_applied(p)
      PROVE  TRun'
  <2>1. \A m \in Msgs : effect[m] # None => effect[m].plan \in 0..MaxMsgs
    BY <1>0, <1>a DEF TLocal, Effects
  <2>2. run' \in [Procs -> RunRecords]
    <3>1. CASE load_effect_batch(p)
      <4>1. PICK n \in 0..MaxMsgs : run' = [run EXCEPT ![p].pc = "refs", ![p].cur = n]
        BY <3>1, <1>c, <2>1 DEF load_effect_batch
      <4>2. QED BY ZenonT(60), <1>0, <1>d, <4>1 DEF TRun, RunRecords
    <3>2. CASE prepare_effect(p)
      BY <3>2, <1>0, <1>a, <1>c, <2>1 DEF TRun, RunRecords, Pcs, prepare_effect, Goto, Fail
    <3>3. CASE mark_effect_applied(p)
      <4>1. PICK S \in SUBSET Msgs, c \in {"ack", "cau"} :
              run' = [run EXCEPT ![p].pc = c, ![p].rest = S, ![p].cur = 0]
        <5> DEFINE left == run[p].rest \ effect[run[p].cur].members
        <5>1. left \in SUBSET Msgs
          BY <1>0 DEF TRun, RunRecords
        <5>2. run' = [run EXCEPT ![p].pc = IF left = {} THEN "ack" ELSE "cau",
                                 ![p].rest = left, ![p].cur = 0]
          BY <3>3, Zenon DEF mark_effect_applied
        <5> HIDE DEF left
        <5>3. CASE left = {}
          BY <5>1, <5>2, <5>3, Zenon
        <5>4. CASE left # {}
          BY <5>1, <5>2, <5>4, Zenon
        <5>5. QED BY <5>3, <5>4
      <4>2. QED BY ZenonT(60), <1>0, <1>a, <1>d, <4>1 DEF TRun, RunRecords
    <3>4. QED BY <1>5, <3>1, <3>2, <3>3
  <2>3. QED BY <1>0, <1>5, <2>2 DEF TRun, load_effect_batch, prepare_effect,
            mark_effect_applied
<1>6. ASSUME NEW p \in Procs, ack_claimed(p) \/ remove_processing(p)
      PROVE  TRun'
  <2>1. run' \in [Procs -> RunRecords]
    BY <1>0, <1>6 DEF TRun, RunRecords, Pcs, ack_claimed, remove_processing, Goto, Fail,
       Handled
  <2>2. seen' \in [Procs -> SUBSET Msgs]
    BY <1>0, <1>6, <1>c DEF TRun, ack_claimed, remove_processing, Handled
  <2>3. QED BY <2>1, <2>2 DEF TRun
<1>7. ASSUME NEW p \in Procs, release_claimed(p) \/ crash(p)
      PROVE  TRun'
  BY <1>0, <1>7, <1>b DEF TRun, release_claimed, crash
<1>8. CASE \/ \E q \in Policies : publish_new_policy(q) \/ deprecate_policy(q)
           \/ claim_update_suggestion \/ time_passes \/ UNCHANGED vars
  BY <1>0, <1>8, RoundsStay DEF TRun
<1>9. QED BY <1>1, <1>2, <1>3, <1>4, <1>5, <1>6, <1>7, <1>8 DEF Next, Round

\* knowledge_apply.lock is held exactly while claims or the journal are changed.
LEMMA LockNext ==
  ASSUME ITypeOK, IBatch, [Next]_vars
  PROVE  TLock'
<1>0. TRun /\ TLock
  BY TypeParts
<1>1. ASSUME NEW p \in Procs,
             /\ klock = p => klock' \in {p, None}
             /\ klock # p => klock' = klock \/ (klock = None /\ klock' = p)
             /\ klock' = p <=> run'[p].pc \in Locked,
             Round(p) \/ crash(p)
      PROVE  TLock'
  <2>1. \A q \in Procs : q # p => run'[q] = run[q]
    BY <1>0, <1>1, OthersStay
  <2>2. None \notin Procs
    BY InboxAssumption
  <2>3. QED BY <1>0, <1>1, <2>1, <2>2 DEF TLock
<1> USE InboxAssumption
<1>2. ASSUME NEW p \in Procs,
             \/ pull_inbox(p) \/ accept_pulled(p) \/ write_pulled(p) \/ ack_inbox(p)
             \/ claim_pending(p) \/ claim_message(p) \/ start_work(p)
             \/ push_internalize_message(p) \/ finish_round(p)
      PROVE  TLock'
  <2>1. UNCHANGED klock
    BY <1>2 DEF pull_inbox, accept_pulled, write_pulled, ack_inbox, claim_pending,
       claim_message, start_work, push_internalize_message, finish_round
  <2>2. run[p].pc \notin Locked
    BY <1>2 DEF Locked, pull_inbox, accept_pulled, write_pulled, ack_inbox, claim_pending,
       claim_message, start_work, push_internalize_message, finish_round
  <2>3. run'[p].pc \notin Locked
    <3>1. CASE pull_inbox(p)
      BY <3>1, <1>0 DEF TRun, RunRecords, Locked, pull_inbox, Goto, Received, ForgetList, Idle
    <3>2. CASE accept_pulled(p)
      BY <3>2, <1>0 DEF TRun, RunRecords, Locked, accept_pulled, Goto, Received, ForgetList,
         Idle
    <3>3. CASE write_pulled(p)
      <4>1. ASSUME NEW m, Received(p, m)
            PROVE  run'[p].pc = "accept"
        BY <1>0, <4>1 DEF Received, TRun, RunRecords
      <4>2. ASSUME ForgetList(p, "accept")
            PROVE  run'[p].pc = "accept"
        BY <1>0, <4>2 DEF ForgetList, TRun, RunRecords
      <4>3. QED BY <3>3, <4>1, <4>2 DEF write_pulled, Locked
    <3>4. CASE ack_inbox(p)
      BY <3>4, <1>0 DEF TRun, RunRecords, Locked, ack_inbox, Goto, Received, ForgetList, Idle
    <3>5. CASE claim_pending(p)
      BY <3>5, <1>0 DEF TRun, RunRecords, Locked, claim_pending, Goto, Received, ForgetList,
         Idle
    <3>6. CASE claim_message(p)
      BY <3>6, <1>0 DEF TRun, RunRecords, Locked, claim_message, Goto, Received, ForgetList,
         Idle
    <3>7. CASE start_work(p)
      BY <3>7, <1>0 DEF TRun, RunRecords, Locked, start_work, Goto, Received, ForgetList, Idle
    <3>8. CASE push_internalize_message(p)
      BY <3>8, <1>0 DEF TRun, RunRecords, Locked, push_internalize_message, Goto, Received,
         ForgetList, Idle
    <3>9. CASE finish_round(p)
      BY <3>9, <1>0 DEF TRun, RunRecords, Locked, finish_round, Goto, Received, ForgetList, Idle
    <3>10. QED BY <1>2, <3>1, <3>2, <3>3, <3>4, <3>5, <3>6, <3>7, <3>8, <3>9
  <2>4. QED BY <1>0, <1>1, <1>2, <2>1, <2>2, <2>3 DEF Round, TLock
<1>3. ASSUME NEW p \in Procs, flush_internalize_updates(p)
      PROVE  TLock'
  <2>1. PICK m \in Least(run[p].batch) :
          run' = [run EXCEPT ![p].pc = kind[m], ![p].rest = run[p].batch]
    BY <1>3 DEF flush_internalize_updates
  <2>2. kind[m] \in Locked
    BY <1>3, LeastType DEF IBatch, flush_internalize_updates, Locked
  <2>3. run'[p].pc \in Locked
    BY <1>0, <2>1, <2>2 DEF TRun, RunRecords
  <2>4. QED BY <1>0, <1>1, <1>3, <2>3 DEF flush_internalize_updates, Lock, Round
<1>4. ASSUME NEW p \in Procs,
             \/ internalize_inbox_updates(p) \/ stage_maintainer_batch(p)
             \/ prepare_effect(p) \/ repair_effect_refs(p) \/ apply_effect(p)
             \/ load_effect_batch(p) \/ mark_effect_applied(p)
      PROVE  TLock'
  <2>1. klock = p
    BY <1>0, <1>4 DEF TLock, Locked, internalize_inbox_updates, stage_maintainer_batch,
       prepare_effect, repair_effect_refs, apply_effect, load_effect_batch,
       mark_effect_applied
  <2>2. \/ klock' = p /\ run'[p].pc \in Locked
        \/ klock' = None /\ run'[p].pc \notin Locked
    <3>1. CASE internalize_inbox_updates(p)
      BY <3>1, <1>0, <2>1 DEF TRun, RunRecords, Locked, internalize_inbox_updates, Goto, Fail,
         Unlock
    <3>2. CASE stage_maintainer_batch(p)
      BY <3>2, <1>0, <2>1 DEF TRun, RunRecords, Locked, stage_maintainer_batch, Goto, Fail,
         Unlock
    <3>3. CASE prepare_effect(p)
      BY <3>3, <1>0, <2>1 DEF TRun, RunRecords, Locked, prepare_effect, Goto, Fail, Unlock
    <3>4. CASE repair_effect_refs(p)
      BY <3>4, <1>0, <2>1 DEF TRun, RunRecords, Locked, repair_effect_refs, Goto, Fail, Unlock
    <3>5. CASE apply_effect(p)
      BY <3>5, <1>0, <2>1 DEF TRun, RunRecords, Locked, apply_effect, Goto, Fail, Unlock
    <3>6. CASE load_effect_batch(p)
      BY <3>6, <1>0, <2>1 DEF TRun, RunRecords, Locked, load_effect_batch, Goto, Fail, Unlock
    <3>7. CASE mark_effect_applied(p)
      BY <3>7, <1>0, <2>1 DEF TRun, RunRecords, Locked, mark_effect_applied, Goto, Fail, Unlock
    <3>8. QED BY <1>4, <3>1, <3>2, <3>3, <3>4, <3>5, <3>6, <3>7
  <2>3. QED BY <1>1, <1>4, <2>1, <2>2 DEF Round
<1>5. ASSUME NEW p \in Procs, apply_policy_deprecation(p)
      PROVE  TLock'
  <2>1. klock = None
    BY <1>5 DEF apply_policy_deprecation
  <2>2. \/ klock' = p /\ run'[p].pc \in Locked
        \/ klock' = None /\ run'[p].pc \notin Locked
    BY <1>0, <1>5, <2>1 DEF TRun, RunRecords, Locked, apply_policy_deprecation, Goto, Fail,
       Lock
  <2>3. QED BY <1>1, <1>5, <2>1, <2>2 DEF Round
<1>6. ASSUME NEW p \in Procs,
             \/ ack_claimed(p) \/ remove_processing(p) \/ next_batch(p) \/ release_claimed(p)
      PROVE  TLock'
  <2>1. klock # p
    BY <1>0, <1>6 DEF TLock, Locked, ack_claimed, remove_processing, next_batch,
       release_claimed
  <2>2. klock' = klock
    BY <1>6, <2>1 DEF ack_claimed, remove_processing, next_batch, release_claimed, Fail
  <2>3. run'[p].pc \notin Locked
    BY <1>0, <1>6 DEF TRun, RunRecords, Locked, ack_claimed, remove_processing, next_batch,
       release_claimed, Goto, Fail, Handled, Idle
  <2>4. QED BY <1>1, <1>6, <2>1, <2>2, <2>3 DEF Round
<1>7. ASSUME NEW p \in Procs, crash(p)
      PROVE  TLock'
  <2>1. run'[p].pc \notin Locked
    BY <1>0, <1>7 DEF TRun, Locked, crash, Idle
  <2>2. QED BY <1>0, <1>1, <1>7, <2>1 DEF crash, TLock
<1>8. CASE \/ \E q \in Policies : publish_new_policy(q) \/ deprecate_policy(q)
           \/ claim_update_suggestion \/ time_passes \/ UNCHANGED vars
  BY <1>0, <1>8, RoundsStay DEF TLock
<1>9. QED BY <1>2, <1>3, <1>4, <1>5, <1>6, <1>7, <1>8 DEF Next, Round

\* The plan in hand.
LEMMA PlanInHand ==
  ASSUME ITypeOK, IJournal, NEW p \in Procs, run[p].pc \in OnPlan
  PROVE  /\ run[p].cur \in Msgs /\ effect[run[p].cur] \in Effects
         /\ effect[run[p].cur].members \subseteq Kept
         /\ effect[run[p].cur].members \subseteq Msgs
         /\ effect[run[p].cur].plan = run[p].cur
  BY TypeParts DEF TLocal, IJournal, Effects, OnPlan

\* The journal and what has been settled.
LEMMA LocalNext ==
  ASSUME ITypeOK, IJournal, [Next]_vars
  PROVE  TLocal'
<1>0. TLocal /\ TRun
  BY TypeParts
<1>a. \A p \in Procs : run[p].batch \subseteq Msgs /\ run[p].rest \subseteq Msgs
                       /\ Least(run[p].rest) \subseteq Msgs
  BY <1>0, LeastType DEF TRun, RunRecords
<1>1. ASSUME NEW p \in Procs, stage_maintainer_batch(p)
      PROVE  TLocal'
  BY <1>0, <1>1, <1>a DEF TLocal, stage_maintainer_batch
<1>2. ASSUME NEW p \in Procs, prepare_effect(p)
      PROVE  TLocal'
  <2>1. ASSUME NEW m \in Msgs, NEW S \in SUBSET Msgs, effect' = [effect EXCEPT ![m] = Plan(m, S)]
        PROVE  effect' \in [Msgs -> Effects \cup {None}]
    BY <1>0, <2>1 DEF TLocal, Plan, Effects
  <2>2. effect' \in [Msgs -> Effects \cup {None}]
    <3> DEFINE group == {i \in run[p].rest : \A j \in run[p].rest : j <= i => effect[j] = None}
    <3>1. group \in SUBSET Msgs
      BY <1>a
    <3>2. QED BY <1>0, <1>2, <1>a, <2>1, <3>1 DEF TLocal, prepare_effect
  <2>3. QED BY <1>0, <1>2, <2>2 DEF TLocal, prepare_effect
<1>3. ASSUME NEW p \in Procs, repair_effect_refs(p)
      PROVE  TLocal'
  <2>1. run[p].cur \in Msgs
    BY <1>3, PlanInHand DEF repair_effect_refs, OnPlan
  <2>2. Ref(run[p].cur) \in Effects
    BY <2>1 DEF Ref, Effects
  <2>3. effect' \in [Msgs -> Effects \cup {None}]
    BY <1>0, <1>3, <2>2 DEF TLocal, repair_effect_refs
  <2>4. QED BY <1>0, <1>3, <2>3 DEF TLocal, repair_effect_refs
<1>4. ASSUME NEW p \in Procs, apply_effect(p)
      PROVE  TLocal'
  <2>1. run[p].cur \in Msgs /\ effect[run[p].cur].members \subseteq Msgs
    BY <1>4, PlanInHand DEF apply_effect, OnPlan
  <2>2. took' \subseteq Msgs \X Msgs
    BY <1>0, <1>4, <2>1 DEF TLocal, apply_effect
  <2>3. QED BY <1>0, <1>4, <2>2 DEF TLocal, apply_effect
<1>5. ASSUME NEW p \in Procs, mark_effect_applied(p)
      PROVE  TLocal'
  <2>1. /\ run[p].cur \in Msgs /\ effect[run[p].cur].members \subseteq Msgs
        /\ effect[run[p].cur] \in Effects
    BY <1>5, PlanInHand DEF mark_effect_applied, OnPlan
  <2>2. effect' = [effect EXCEPT ![run[p].cur].applied = TRUE]
    BY <1>5 DEF mark_effect_applied
  <2>3. effect' \in [Msgs -> Effects \cup {None}]
    BY <1>0, <2>1, <2>2 DEF TLocal, Effects
  <2>4. QED BY <1>0, <1>5, <2>1, <2>3 DEF TLocal, mark_effect_applied
<1>6. ASSUME UNCHANGED <<effect, took, settled>>
      PROVE  TLocal'
  BY <1>0, <1>6 DEF TLocal
<1>7. ASSUME NEW p \in Procs,
             \/ pull_inbox(p) \/ accept_pulled(p) \/ write_pulled(p) \/ ack_inbox(p)
             \/ claim_pending(p) \/ claim_message(p) \/ start_work(p)
             \/ push_internalize_message(p) \/ flush_internalize_updates(p) \/ finish_round(p)
      PROVE  TLocal'
  BY <1>6, <1>7 DEF local, pull_inbox, accept_pulled, write_pulled, ack_inbox, claim_pending,
     claim_message, start_work, push_internalize_message, flush_internalize_updates,
     finish_round
<1>8. ASSUME NEW p \in Procs,
             \/ internalize_inbox_updates(p) \/ apply_policy_deprecation(p)
             \/ load_effect_batch(p) \/ ack_claimed(p) \/ remove_processing(p)
             \/ next_batch(p) \/ release_claimed(p) \/ crash(p)
      PROVE  TLocal'
  BY <1>6, <1>8 DEF local, internalize_inbox_updates, apply_policy_deprecation,
     load_effect_batch, ack_claimed, remove_processing, next_batch, release_claimed, crash
<1>9. CASE \/ \E q \in Policies : publish_new_policy(q) \/ deprecate_policy(q)
           \/ claim_update_suggestion \/ time_passes \/ UNCHANGED vars
  BY <1>6, <1>9, RoundsStay DEF local
<1>10. QED BY <1>1, <1>2, <1>3, <1>4, <1>5, <1>7, <1>8, <1>9 DEF Next, Round

\* There are finitely many claims.
LEMMA ClaimsFinite == IsFiniteSet(Claims)
<1> DEFINE P == Msgs \X ((1..MaxClaims) \X BOOLEAN)
           f == [x \in P |-> [src |-> x[1], n |-> x[2][1], active |-> x[2][2]]]
<1>1. IsFiniteSet(Msgs) /\ IsFiniteSet(1..MaxClaims)
  BY InboxAssumption, FS_Interval DEF Msgs
<1>2. IsFiniteSet({TRUE}) /\ IsFiniteSet({TRUE} \cup {FALSE})
  BY FS_Singleton, FS_AddElement
<1>3. BOOLEAN = {TRUE} \cup {FALSE}
  OBVIOUS
<1>4. IsFiniteSet(BOOLEAN)
  BY <1>2, <1>3, Zenon
<1>5. IsFiniteSet(P)
  BY <1>1, <1>4, FS_Product
<1>6. f \in [P -> Claims]
  BY DEF Claims
<1>7. \A c \in Claims : \E x \in P : f[x] = c
  <2>1. TAKE c \in Claims
  <2>2. <<c.src, <<c.n, c.active>>>> \in P
    BY DEF Claims
  <2>3. f[<<c.src, <<c.n, c.active>>>>] = c
    BY <2>2 DEF Claims
  <2>4. QED BY <2>2, <2>3
<1>8. f \in Surjection(P, Claims)
  BY <1>6, <1>7 DEF Surjection, Range
<1>9. QED BY <1>5, <1>8, FS_Surjection

\* The claims a batch of updates is made into have fresh numbers within the bound.
LEMMA NewClaims ==
  ASSUME TClaims, NEW S \in SUBSET Msgs,
         Cardinality(claims) + Cardinality(S) <= MaxClaims
  PROVE  {[src |-> m, n |-> Cardinality(claims) + Cardinality({i \in S : i <= m}),
           active |-> TRUE] : m \in S} \subseteq Claims
<1>0. IsFiniteSet(Msgs)
  BY InboxAssumption, FS_Interval DEF Msgs
<1>1. IsFiniteSet(claims) /\ IsFiniteSet(S)
  <2>1. IsFiniteSet(claims)
    BY ClaimsFinite, FS_Subset DEF TClaims
  <2>2. IsFiniteSet(S)
    BY <1>0, FS_Subset
  <2>3. QED BY <2>1, <2>2
<1>2. Cardinality(claims) \in Nat /\ Cardinality(S) \in Nat
  BY <1>1, FS_CardinalityType
<1>3. ASSUME NEW m \in S
      PROVE  Cardinality(claims) + Cardinality({i \in S : i <= m}) \in 1..MaxClaims
  <2> DEFINE T == {i \in S : i <= m}
  <2>1. IsFiniteSet(T) /\ Cardinality(T) <= Cardinality(S)
    BY <1>1, FS_Subset
  <2>2. m \in T
    BY DEF Msgs
  <2>3. Cardinality(T) \in Nat /\ Cardinality(T) # 0
    BY <2>1, <2>2, FS_CardinalityType, FS_EmptySet
  <2> HIDE DEF T
  <2>4. Cardinality(claims) + Cardinality(T) \in 1..MaxClaims
    BY <1>2, <2>1, <2>3, InboxAssumption
  <2>5. QED BY <2>4 DEF T
<1>4. ASSUME NEW m \in S, NEW k \in 1..MaxClaims
      PROVE  [src |-> m, n |-> k, active |-> TRUE] \in Claims
  BY DEF Claims
<1>5. QED BY <1>3, <1>4

\* The claims.
LEMMA ClaimsNext ==
  ASSUME ITypeOK, [Next]_vars
  PROVE  TClaims'
<1>0. TClaims /\ TRun
  BY TypeParts
<1>1. ASSUME NEW p \in Procs, internalize_inbox_updates(p)
      PROVE  TClaims'
  <2>1. run[p].batch \subseteq Msgs
    BY <1>0 DEF TRun, RunRecords
  <2>2. CASE UNCHANGED claims
    BY <1>0, <2>2 DEF TClaims
  <2>3. ASSUME NEW S \in SUBSET run[p].batch,
               Cardinality(claims) + Cardinality(S) <= MaxClaims,
               claims' = claims \cup
                 {[src |-> m, n |-> Cardinality(claims) + Cardinality({i \in S : i <= m}),
                   active |-> TRUE] : m \in S}
        PROVE  TClaims'
    <3>1. S \in SUBSET Msgs
      BY <2>1
    <3>2. QED BY <1>0, <2>3, <3>1, NewClaims DEF TClaims
  <2>4. QED BY <1>1, <2>2, <2>3 DEF internalize_inbox_updates
<1>2. ASSUME NEW p \in Procs, apply_policy_deprecation(p)
      PROVE  TClaims'
  <2>1. PICK S \in SUBSET claims : Retire(S)
    BY <1>2 DEF apply_policy_deprecation
  <2>2. \A c \in claims : [c EXCEPT !.active = FALSE] \in Claims
    BY <1>0 DEF TClaims, Claims
  <2>3. QED BY <1>0, <2>1, <2>2 DEF TClaims, Retire
<1>3. ASSUME UNCHANGED claims
      PROVE  TClaims'
  BY <1>0, <1>3 DEF TClaims
<1>4. ASSUME NEW p \in Procs,
             \/ pull_inbox(p) \/ accept_pulled(p) \/ write_pulled(p) \/ ack_inbox(p)
             \/ claim_pending(p) \/ claim_message(p) \/ start_work(p)
             \/ push_internalize_message(p) \/ flush_internalize_updates(p) \/ finish_round(p)
      PROVE  TClaims'
  BY <1>3, <1>4 DEF local, pull_inbox, accept_pulled, write_pulled, ack_inbox, claim_pending,
     claim_message, start_work, push_internalize_message, flush_internalize_updates,
     finish_round
<1>5. ASSUME NEW p \in Procs,
             \/ stage_maintainer_batch(p) \/ load_effect_batch(p) \/ prepare_effect(p)
             \/ repair_effect_refs(p) \/ apply_effect(p) \/ mark_effect_applied(p)
             \/ ack_claimed(p) \/ remove_processing(p) \/ next_batch(p)
             \/ release_claimed(p) \/ crash(p)
      PROVE  TClaims'
  BY <1>3, <1>5 DEF local, stage_maintainer_batch, load_effect_batch, prepare_effect,
     repair_effect_refs, apply_effect, mark_effect_applied, ack_claimed, remove_processing,
     next_batch, release_claimed, crash
<1>6. CASE \/ \E q \in Policies : publish_new_policy(q) \/ deprecate_policy(q)
           \/ claim_update_suggestion \/ time_passes \/ UNCHANGED vars
  BY <1>3, <1>6, RoundsStay DEF local
<1>7. QED BY <1>1, <1>2, <1>4, <1>5, <1>6 DEF Next, Round

\* The type invariant.
LEMMA TypesNext ==
  ASSUME ITypeOK, IBatch, IJournal, [Next]_vars
  PROVE  ITypeOK'
<1>1. (TOutbox /\ TFiles /\ TLocal /\ TClaims /\ TRun /\ TLock /\ faults \in 0..MaxFaults)'
  BY OutboxNext, FilesNext, LocalNext, ClaimsNext, RunNext, LockNext, FaultsNext
<1>2. QED BY <1>1 DEF ITypeOK, TOutbox, TFiles, TLocal, TClaims, TRun, TLock, RunRecords

----------------------------------------------------------------------------
\* The copies of a message

\* Abandoned leases are leases still.
LEMMA AbandonKeeps ==
  ASSUME TFiles, NEW S, NEW p \in Procs, NEW m \in Msgs
  PROVE  (\E h \in Holders : Abandon(S, p)[m][h] # "none")
           <=> (\E h \in Holders : lease[m][h] # "none")
<1>1. p \in Holders /\ Orphan \in Holders /\ Orphan # p
  BY InboxAssumption DEF Holders
<1>2. lease[m] \in [Holders -> Ages]
  BY DEF TFiles
<1>3. CASE m \in S /\ lease[m][p] # "none"
  <2>1. Abandon(S, p)[m] = [lease[m] EXCEPT ![Orphan] = IF @ = "old" THEN @ ELSE lease[m][p],
                                            ![p] = "none"]
    BY <1>3 DEF Abandon
  <2>2. Abandon(S, p)[m][Orphan] # "none"
    BY <1>1, <1>2, <1>3, <2>1
  <2>3. QED BY <1>1, <1>3, <2>2
<1>4. CASE ~(m \in S /\ lease[m][p] # "none")
  <2>1. Abandon(S, p)[m] = lease[m]
    BY <1>4 DEF Abandon
  <2>2. QED BY <2>1
<1>5. QED BY <1>3, <1>4

\* Only a pull adds to what is kept; no step takes from it.
LEMMA KeptStays ==
  ASSUME ITypeOK, ISettled, [Next]_vars, \A p \in Procs : ~write_pulled(p)
  PROVE  Kept' = Kept
<1>0. TFiles /\ TRun
  BY TypeParts
<1>1. SUFFICES ASSUME NEW m \in Msgs
               PROVE  HasCopy(m)' <=> HasCopy(m)
  BY DEF Kept
<1>2. ASSUME UNCHANGED files
      PROVE  HasCopy(m)' <=> HasCopy(m)
  BY <1>2 DEF files, HasCopy
<1>3. ASSUME NEW p \in Procs, claim_pending(p)
      PROVE  HasCopy(m)' <=> HasCopy(m)
  <2>1. done' = done
    BY <1>3 DEF claim_pending
  <2>2. active'[m] = IF m \in done THEN "none" ELSE Recovered(m)
    BY <1>3 DEF claim_pending
  <2>3. \A h \in Holders : lease'[m][h] = IF h \in Stale(m) THEN "none" ELSE lease[m][h]
    BY <1>3 DEF claim_pending
  <2>4. CASE m \in done
    BY <2>1, <2>4 DEF HasCopy
  <2>5. CASE m \notin done /\ Stale(m) = {}
    BY <2>1, <2>2, <2>3, <2>5 DEF HasCopy, Recovered
  <2>6. CASE m \notin done /\ Stale(m) # {}
    <3>1. active'[m] # "none"
      BY <2>2, <2>6 DEF Recovered
    <3>2. HasCopy(m)
      BY <2>6 DEF HasCopy, Stale
    <3>3. QED BY <3>1, <3>2 DEF HasCopy
  <2>7. QED BY <2>4, <2>5, <2>6
<1>4. ASSUME NEW p \in Procs, claim_message(p)
      PROVE  HasCopy(m)' <=> HasCopy(m)
  <2>0. p \in Holders /\ done' = done
    BY <1>4 DEF Holders, claim_message
  <2>1. ASSUME NEW n \in Least(run[p].list), active[n] # "none",
               active' = [active EXCEPT ![n] = "none"],
               lease' = [lease EXCEPT ![n][p] = active[n]]
        PROVE  HasCopy(m)' <=> HasCopy(m)
    <3>1. CASE m = n
      <4>1. lease'[m][p] # "none"
        BY <1>0, <2>0, <2>1, <3>1 DEF TFiles
      <4>2. QED BY <2>0, <2>1, <3>1, <4>1 DEF HasCopy
    <3>2. CASE m # n
      <4>1. lease'[m] = lease[m] /\ active'[m] = active[m]
        BY <1>0, <2>1, <3>2 DEF TFiles
      <4>2. QED BY <2>0, <4>1 DEF HasCopy
    <3>3. QED BY <3>1, <3>2
  <2>2. CASE UNCHANGED <<active, lease>>
    BY <1>2, <2>0, <2>2 DEF files
  <2>3. CASE lease' = Abandon(run[p].mine, p) /\ UNCHANGED active
    BY <1>0, <2>0, <2>3, AbandonKeeps DEF HasCopy
  <2>4. QED BY <1>4, <2>1, <2>2, <2>3 DEF claim_message
<1>5. ASSUME NEW p \in Procs, ack_claimed(p)
      PROVE  HasCopy(m)' <=> HasCopy(m)
  <2>1. lease' = lease
    BY <1>5 DEF ack_claimed
  <2>2. p \in Holders
    BY DEF Holders
  <2>3. ASSUME NEW n \in Least(run[p].batch), lease[n][p] # "none", done' = done \cup {n},
               UNCHANGED active
        PROVE  HasCopy(m)' <=> HasCopy(m)
    BY <2>1, <2>2, <2>3 DEF HasCopy
  <2>4. ASSUME NEW n \in Least(run[p].batch), active[n] # "none", done' = done \cup {n},
               active' = [active EXCEPT ![n] = "none"]
        PROVE  HasCopy(m)' <=> HasCopy(m)
    BY <1>0, <2>1, <2>4 DEF HasCopy, TFiles
  <2>5. CASE UNCHANGED <<done, active>>
    BY <1>2, <2>1, <2>5 DEF files
  <2>6. QED BY <1>5, <2>3, <2>4, <2>5 DEF ack_claimed
<1>6. ASSUME NEW p \in Procs, remove_processing(p)
      PROVE  HasCopy(m)' <=> HasCopy(m)
  <2>1. PICK n \in Least(run[p].batch) : \/ lease' = [lease EXCEPT ![n][p] = "none"]
                                         \/ UNCHANGED lease
    BY <1>6 DEF remove_processing
  <2>2. n \in done
    BY <1>6, <2>1 DEF remove_processing, ISettled
  <2>3. m # n => lease'[m] = lease[m]
    BY <1>0, <2>1 DEF TFiles
  <2>4. done' = done /\ active' = active
    BY <1>6 DEF remove_processing
  <2>5. QED BY <2>2, <2>3, <2>4 DEF HasCopy
<1>7. ASSUME NEW p \in Procs, release_claimed(p)
      PROVE  HasCopy(m)' <=> HasCopy(m)
  <2> DEFINE kept == {i \in run[p].mine : active[i] # "none" /\ i \notin done}
  <2>0. done' = done /\ p \in Holders
    BY <1>7 DEF release_claimed, Holders
  <2>1. active'[m] = IF m \in Returned(p) THEN lease[m][p] ELSE active[m]
    BY <1>7 DEF release_claimed
  <2>2. lease'[m] = IF m \in run[p].mine \ kept THEN [lease[m] EXCEPT ![p] = "none"]
                                                ELSE Abandon(kept, p)[m]
    BY <1>7 DEF release_claimed
  <2>3. CASE m \in run[p].mine \ kept
    <3>1. \A h \in Holders : lease'[m][h] = IF h = p THEN "none" ELSE lease[m][h]
      BY <1>0, <2>2, <2>3 DEF TFiles
    <3>2. QED BY <2>0, <2>1, <2>3, <3>1 DEF HasCopy, Returned
  <2>4. CASE m \notin run[p].mine \ kept
    <3>1. active'[m] = active[m]
      BY <2>1, <2>4 DEF Returned
    <3>2. lease'[m] = Abandon(kept, p)[m]
      BY <2>2, <2>4
    <3> HIDE DEF kept
    <3>3. (\E h \in Holders : lease'[m][h] # "none") <=> (\E h \in Holders : lease[m][h] # "none")
      BY <1>0, <3>2, AbandonKeeps
    <3>4. QED BY <2>0, <3>1, <3>3 DEF HasCopy
  <2>5. QED BY <2>3, <2>4
<1>8. ASSUME NEW p \in Procs, crash(p)
      PROVE  HasCopy(m)' <=> HasCopy(m)
  BY <1>0, <1>8, AbandonKeeps DEF HasCopy, crash
<1>9. CASE time_passes
  <2>1. /\ active'[m] # "none" <=> active[m] # "none"
        /\ \A h \in Holders : lease'[m][h] # "none" <=> lease[m][h] # "none"
    BY <1>9 DEF time_passes
  <2>2. QED BY <1>9, <2>1 DEF HasCopy, time_passes
<1>10. ASSUME NEW p \in Procs,
              \/ pull_inbox(p) \/ accept_pulled(p) \/ ack_inbox(p) \/ start_work(p)
              \/ push_internalize_message(p) \/ flush_internalize_updates(p)
              \/ finish_round(p) \/ internalize_inbox_updates(p)
              \/ stage_maintainer_batch(p) \/ apply_policy_deprecation(p)
       PROVE  UNCHANGED files
  BY <1>10 DEF pull_inbox, accept_pulled, ack_inbox, start_work, push_internalize_message,
     flush_internalize_updates, finish_round, internalize_inbox_updates,
     stage_maintainer_batch, apply_policy_deprecation
<1>11. ASSUME NEW p \in Procs,
              \/ load_effect_batch(p) \/ prepare_effect(p) \/ repair_effect_refs(p)
              \/ apply_effect(p) \/ mark_effect_applied(p) \/ next_batch(p)
       PROVE  UNCHANGED files
  BY <1>11 DEF load_effect_batch, prepare_effect, repair_effect_refs, apply_effect,
     mark_effect_applied, next_batch
<1>12. ASSUME \/ \E q \in Policies : publish_new_policy(q) \/ deprecate_policy(q)
              \/ claim_update_suggestion \/ UNCHANGED vars
       PROVE  UNCHANGED files
  BY <1>12 DEF publish_new_policy, deprecate_policy, claim_update_suggestion, vars, files
<1>13. QED BY <1>2, <1>3, <1>4, <1>5, <1>6, <1>7, <1>8, <1>9, <1>10, <1>11, <1>12
           DEF Next, Round

\* A message that is written is one that was sent.
LEMMA KeptWritten ==
  ASSUME ITypeOK, IHand, NEW p \in Procs, write_pulled(p)
  PROVE  /\ Kept' = Kept \/ \E m \in Created \ Kept : Kept' = Kept \cup {m}
         /\ \A m \in Msgs : Received(p, m) /\ active' = [active EXCEPT ![m] = "new"] => m \in Kept'
<1>0. TFiles /\ TRun
  BY TypeParts
<1>1. UNCHANGED <<lease, done>>
  BY DEF write_pulled
<1>2. ASSUME UNCHANGED active
      PROVE  Kept' = Kept
  BY <1>1, <1>2 DEF Kept, HasCopy
<1>3. ASSUME NEW m \in Msgs, active' = [active EXCEPT ![m] = "new"]
      PROVE  Kept' = Kept \cup {m}
  <2>1. \A n \in Msgs : active'[n] = IF n = m THEN "new" ELSE active[n]
    BY <1>0, <1>3 DEF TFiles
  <2>2. \A n \in Msgs : HasCopy(n)' <=> (HasCopy(n) \/ n = m)
    BY <1>1, <2>1 DEF HasCopy
  <2>3. QED BY <2>2 DEF Kept
<1>4. Least(run[p].list) \subseteq Created /\ Created \subseteq Msgs
  BY LeastType DEF IHand, write_pulled, Created
<1>5. Kept' = Kept \/ \E m \in Created : Kept' = Kept \cup {m}
  BY <1>2, <1>3, <1>4 DEF write_pulled
<1>6. QED BY <1>3, <1>5

\* What is kept stays kept.
LEMMA KeptGrows ==
  ASSUME ITypeOK, ISettled, IHand, [Next]_vars
  PROVE  Kept \subseteq Kept'
  BY KeptStays, KeptWritten

\* What was sent stays as it is.
LEMMA SentStays ==
  ASSUME ITypeOK, [Next]_vars
  PROVE  /\ Created \subseteq Created' /\ \A m \in Created : kind'[m] = kind[m]
         /\ \/ UNCHANGED kind
            \/ \E m \in Msgs \ Created : Created' = Created \cup {m} /\ UNCHANGED <<files, local,
                                                                                delivered, run>>
<1>0. TOutbox
  BY TypeParts
<1>1. ASSUME NEW m \in Msgs \ Created, NEW k \in Kinds \ {"none"}, NEW q,
             create_outbox_entry(m, k, q)
      PROVE  /\ Created \subseteq Created' /\ \A n \in Created : kind'[n] = kind[n]
             /\ UNCHANGED kind \/ Created' = Created \cup {m}
  <2>1. CASE kind' = [kind EXCEPT ![m] = k]
    <3>1. \A n \in Msgs : kind'[n] = IF n = m THEN k ELSE kind[n]
      BY <1>0, <2>1 DEF TOutbox
    <3>2. QED BY <3>1 DEF Created
  <2>2. CASE UNCHANGED kind
    BY <2>2 DEF Created
  <2>3. QED BY <1>1, <2>1, <2>2 DEF create_outbox_entry
<1>2. \A m \in Msgs : Latest(m) => m \notin Created
  BY DEF Latest, Msgs
<1>a. {"update", "deprecate", "cau"} \subseteq Kinds \ {"none"}
  BY DEF Kinds
<1>3. ASSUME NEW q \in Policies, publish_new_policy(q) \/ deprecate_policy(q)
      PROVE  \E m \in Msgs \ Created, k \in Kinds \ {"none"} : create_outbox_entry(m, k, q)
  BY <1>2, <1>3, <1>a DEF publish_new_policy, deprecate_policy
<1>4. ASSUME NEW q \in Policies, publish_new_policy(q) \/ deprecate_policy(q)
      PROVE  UNCHANGED <<files, local, delivered, run>>
  BY <1>4 DEF publish_new_policy, deprecate_policy
<1>5. ASSUME claim_update_suggestion
      PROVE  /\ \E m \in Msgs \ Created, k \in Kinds \ {"none"} : create_outbox_entry(m, k, None)
             /\ UNCHANGED <<files, local, delivered, run>>
  BY <1>5, <1>a DEF claim_update_suggestion, Created
<1>6. ASSUME UNCHANGED kind
      PROVE  Created \subseteq Created' /\ \A m \in Created : kind'[m] = kind[m]
  BY <1>6 DEF Created
<1>7. ASSUME NEW p \in Procs, Round(p) \/ crash(p)
      PROVE  UNCHANGED kind
  <2>1. CASE \/ pull_inbox(p) \/ accept_pulled(p) \/ write_pulled(p) \/ ack_inbox(p)
             \/ claim_pending(p) \/ claim_message(p) \/ start_work(p)
             \/ push_internalize_message(p) \/ flush_internalize_updates(p) \/ finish_round(p)
    BY <2>1 DEF outbox, pull_inbox, accept_pulled, write_pulled, ack_inbox, claim_pending,
       claim_message, start_work, push_internalize_message, flush_internalize_updates,
       finish_round
  <2>2. CASE \/ internalize_inbox_updates(p) \/ stage_maintainer_batch(p)
             \/ apply_policy_deprecation(p) \/ load_effect_batch(p) \/ prepare_effect(p)
             \/ repair_effect_refs(p) \/ apply_effect(p) \/ mark_effect_applied(p)
    BY <2>2 DEF outbox, internalize_inbox_updates, stage_maintainer_batch,
       apply_policy_deprecation, load_effect_batch, prepare_effect, repair_effect_refs,
       apply_effect, mark_effect_applied
  <2>3. CASE \/ ack_claimed(p) \/ remove_processing(p) \/ next_batch(p)
             \/ release_claimed(p) \/ crash(p)
    BY <2>3 DEF outbox, ack_claimed, remove_processing, next_batch, release_claimed, crash
  <2>4. QED BY <1>7, <2>1, <2>2, <2>3 DEF Round
<1>8. CASE time_passes \/ UNCHANGED vars
  BY <1>6, <1>8 DEF time_passes, vars, outbox
<1>9. CASE \/ \E q \in Policies : publish_new_policy(q) \/ deprecate_policy(q)
           \/ claim_update_suggestion
  <2>1. PICK m \in Msgs \ Created, k \in Kinds \ {"none"}, q \in Policies \cup {None} :
          create_outbox_entry(m, k, q)
    BY <1>3, <1>5, <1>9
  <2>2. UNCHANGED <<files, local, delivered, run>>
    BY <1>4, <1>5, <1>9
  <2>3. QED BY <1>1, <2>1, <2>2
<1>10. QED BY <1>6, <1>7, <1>8, <1>9 DEF Next

----------------------------------------------------------------------------
\* The invariant

\* What one process has in hand.
InHand(p) ==
  /\ run[p].got \subseteq Kept /\ run[p].mine \subseteq Kept
  /\ run[p].batch \subseteq Kept /\ run[p].rest \subseteq Kept
  /\ run[p].list \subseteq IF run[p].pc \in {"accept", "write"} THEN Created ELSE Kept

LEMMA HandNext ==
  ASSUME IInv, [Next]_vars
  PROVE  IHand'
<1> USE DEF IInv
<1>0. TFiles /\ TRun /\ IHand
  BY TypeParts
<1>a. Kept \subseteq Kept' /\ Created \subseteq Created' /\ Kept \subseteq Created
  BY KeptGrows, SentStays DEF IHand
<1>b. Kept' \subseteq Created'
  BY <1>a, KeptStays, KeptWritten
<1>1. ASSUME NEW p \in Procs, run'[p] = run[p]
      PROVE  InHand(p)'
  BY <1>0, <1>1, <1>a DEF IHand, InHand
<1>2. ASSUME NEW p \in Procs,
             /\ run'[p].got \subseteq Kept' /\ run'[p].mine \subseteq Kept'
             /\ run'[p].batch \subseteq Kept' /\ run'[p].rest \subseteq Kept',
             IF run'[p].pc \in {"accept", "write"} THEN run'[p].list \subseteq Created
                                                   ELSE run'[p].list \subseteq Kept'
      PROVE  InHand(p)'
  BY <1>2, <1>a DEF InHand
<1>c. ASSUME NEW p \in Procs
      PROVE  run[p] \in RunRecords /\ InHand(p)
  BY <1>0 DEF TRun, IHand, InHand
<1>d. ASSUME NEW p \in Procs, NEW c, c \notin {"accept", "write"},
             run[p].pc \notin {"accept", "write"}, Goto(p, c)
      PROVE  InHand(p)'
  <2>1. run'[p] = [run[p] EXCEPT !.pc = c]
    BY <1>0, <1>d DEF TRun, Goto
  <2>2. QED BY <1>2, <1>a, <1>c, <1>d, <2>1 DEF RunRecords, InHand
<1>e. ASSUME NEW p \in Procs, run' = [run EXCEPT ![p] = Idle]
      PROVE  InHand(p)'
  BY <1>0, <1>2, <1>e DEF TRun, Idle
<1>3. ASSUME NEW p \in Procs, pull_inbox(p)
      PROVE  InHand(p)'
  <2>1. CASE run' = [run EXCEPT ![p].pc = "accept", ![p].list = Chosen]
    <3>1. run'[p] = [run[p] EXCEPT !.pc = "accept", !.list = Chosen]
      BY <1>0, <2>1 DEF TRun
    <3>2. QED BY <1>2, <1>a, <1>c, <3>1, ChosenType DEF RunRecords, InHand
  <2>2. CASE Goto(p, "scan")
    BY <1>3, <1>d, <2>2 DEF pull_inbox
  <2>3. QED BY <1>3, <2>1, <2>2 DEF pull_inbox
<1>4. ASSUME NEW p \in Procs, NEW m \in Kept', Received(p, m),
             run[p].pc \in {"accept", "write"}
      PROVE  InHand(p)'
  <2>1. run'[p] = [run[p] EXCEPT !.pc = "accept", !.list = @ \ {m}, !.got = @ \cup {m}]
    BY <1>0, <1>4 DEF TRun, Received
  <2>2. QED BY <1>2, <1>4, <1>a, <1>c, <2>1 DEF RunRecords, InHand
<1>5. ASSUME NEW p \in Procs, accept_pulled(p)
      PROVE  InHand(p)'
  <2>1. PICK m \in Least(run[p].list) :
          IF HasCopy(m) THEN Received(p, m) ELSE Goto(p, "write")
    BY <1>5 DEF accept_pulled
  <2>2. m \in Msgs
    BY <1>c, LeastType DEF RunRecords
  <2>3. CASE HasCopy(m)
    BY <1>4, <1>5, <1>a, <2>1, <2>2, <2>3 DEF accept_pulled, Kept
  <2>4. CASE Goto(p, "write")
    <3>1. run'[p] = [run[p] EXCEPT !.pc = "write"]
      BY <1>0, <2>4 DEF TRun, Goto
    <3>2. QED BY <1>2, <1>5, <1>a, <1>c, <3>1 DEF RunRecords, InHand, accept_pulled
  <2>5. QED BY <2>1, <2>3, <2>4
<1>6. ASSUME NEW p \in Procs, write_pulled(p)
      PROVE  InHand(p)'
  <2>1. ASSUME NEW m \in Least(run[p].list), active' = [active EXCEPT ![m] = "new"],
               Received(p, m)
        PROVE  InHand(p)'
    <3>1. m \in Msgs
      BY <1>c, LeastType DEF RunRecords
    <3>2. m \in Kept'
      BY <1>6, <2>1, <3>1, KeptWritten
    <3>3. QED BY <1>4, <1>6, <2>1, <3>2 DEF write_pulled
  <2>2. CASE ForgetList(p, "accept")
    <3>1. run'[p] = [run[p] EXCEPT !.pc = "accept", !.list = {}]
      BY <1>0, <2>2 DEF TRun, ForgetList
    <3>2. QED BY <1>2, <1>a, <1>c, <3>1 DEF RunRecords, InHand
  <2>3. QED BY <1>6, <2>1, <2>2 DEF write_pulled
<1>7. ASSUME NEW p \in Procs, ack_inbox(p)
      PROVE  InHand(p)'
  <2>1. run'[p] = [run[p] EXCEPT !.pc = "scan", !.got = {}]
    BY <1>0, <1>7 DEF TRun, ack_inbox
  <2>2. run[p].pc = "accept" /\ run[p].list = {}
    BY <1>7 DEF ack_inbox
  <2>3. QED BY <1>2, <1>a, <1>c, <2>1, <2>2 DEF RunRecords, InHand
<1>8. ASSUME NEW p \in Procs, claim_pending(p)
      PROVE  InHand(p)'
  <2> DEFINE l == {m \in Msgs \ (done \cup seen[p]) : active'[m] # "none"}
  <2>1. run'[p] = [run[p] EXCEPT !.pc = "claim", !.list = l]
    BY <1>0, <1>8 DEF TRun, claim_pending
  <2>2. l \subseteq Kept'
    BY DEF Kept, HasCopy
  <2> HIDE DEF l
  <2>3. QED BY <1>2, <1>a, <1>c, <2>1, <2>2 DEF RunRecords, InHand
<1>9. ASSUME NEW p \in Procs, claim_message(p)
      PROVE  InHand(p)'
  <2>1. ASSUME NEW m \in Least(run[p].list), active[m] # "none",
               run' = [run EXCEPT ![p].list = @ \ {m}, ![p].mine = @ \cup {m}]
        PROVE  InHand(p)'
    <3>1. run'[p] = [run[p] EXCEPT !.list = @ \ {m}, !.mine = @ \cup {m}]
      BY <1>0, <2>1 DEF TRun
    <3>2. m \in Kept
      BY <1>9, <1>c, LeastType DEF InHand, claim_message
    <3>3. QED BY <1>2, <1>9, <1>a, <1>c, <3>1, <3>2 DEF RunRecords, InHand, claim_message
  <2>2. ASSUME NEW m, run' = [run EXCEPT ![p].list = @ \ {m}]
        PROVE  InHand(p)'
    <3>1. run'[p] = [run[p] EXCEPT !.list = @ \ {m}]
      BY <1>0, <2>2 DEF TRun
    <3>2. QED BY <1>2, <1>9, <1>a, <1>c, <3>1 DEF RunRecords, InHand, claim_message
  <2>3. QED BY <1>9, <1>e, <2>1, <2>2 DEF claim_message
<1>10. ASSUME NEW p \in Procs, start_work(p)
      PROVE  InHand(p)'
  <2>1. run'[p] = [run[p] EXCEPT !.pc = "work", !.list = run[p].mine]
    BY <1>0, <1>10 DEF TRun, start_work
  <2>2. QED BY <1>2, <1>a, <1>c, <2>1 DEF RunRecords, InHand
<1>11. ASSUME NEW p \in Procs, push_internalize_message(p)
      PROVE  InHand(p)'
  <2>1. PICK m \in Mergeable(p) :
          run' = [run EXCEPT ![p].list = @ \ {m}, ![p].batch = @ \cup {m}]
    BY <1>11 DEF push_internalize_message
  <2>2. run'[p] = [run[p] EXCEPT !.list = @ \ {m}, !.batch = @ \cup {m}]
    BY <1>0, <2>1 DEF TRun
  <2>3. m \in Kept
    BY <1>11, <1>c, LeastType DEF InHand, push_internalize_message, Mergeable
  <2>4. run[p].pc = "work"
    BY <1>11 DEF push_internalize_message
  <2>5. QED BY <1>2, <1>a, <1>c, <2>2, <2>3, <2>4 DEF RunRecords, InHand
<1>12. ASSUME NEW p \in Procs, flush_internalize_updates(p)
      PROVE  InHand(p)'
  <2>1. PICK m \in Least(run[p].batch) :
          run' = [run EXCEPT ![p].pc = kind[m], ![p].rest = run[p].batch]
    BY <1>12 DEF flush_internalize_updates
  <2>2. run'[p] = [run[p] EXCEPT !.pc = kind[m], !.rest = run[p].batch]
    BY <1>0, <2>1 DEF TRun
  <2>3. kind[m] \notin {"accept", "write"}
    BY <1>12, LeastType DEF IBatch, flush_internalize_updates
  <2>4. QED BY ZenonT(60), <1>2, <1>12, <1>a, <1>c, <2>2, <2>3
            DEF RunRecords, InHand, flush_internalize_updates
<1>13. ASSUME NEW p \in Procs, apply_policy_deprecation(p)
      PROVE  InHand(p)'
  <2>1. ASSUME NEW m \in Least(run[p].list),
               run' = [run EXCEPT ![p].pc = "stage", ![p].list = @ \ {m}, ![p].batch = {m}]
        PROVE  InHand(p)'
    <3>1. run'[p] = [run[p] EXCEPT !.pc = "stage", !.list = @ \ {m}, !.batch = {m}]
      BY <1>0, <2>1 DEF TRun
    <3>2. m \in Kept
      BY <1>13, <1>c, LeastType DEF InHand, apply_policy_deprecation
    <3>3. QED BY <1>2, <1>13, <1>a, <1>c, <3>1, <3>2
              DEF RunRecords, InHand, apply_policy_deprecation
  <2>2. CASE Fail(p)
    BY <1>13, <1>d, <2>2 DEF Fail, apply_policy_deprecation
  <2>3. QED BY <1>13, <2>1, <2>2 DEF apply_policy_deprecation
<1>14. ASSUME NEW p \in Procs,
              \/ internalize_inbox_updates(p) \/ stage_maintainer_batch(p)
              \/ repair_effect_refs(p) \/ apply_effect(p) \/ next_batch(p)
      PROVE  InHand(p)'
  <2>1. run[p].pc \notin {"accept", "write"}
    BY <1>14 DEF internalize_inbox_updates, stage_maintainer_batch, repair_effect_refs,
       apply_effect, next_batch
  <2>2. (\E c : c \notin {"accept", "write"} /\ Goto(p, c)) \/ run' = run
    BY <1>14 DEF internalize_inbox_updates, stage_maintainer_batch, repair_effect_refs,
       apply_effect, next_batch, Fail
  <2>3. QED BY <1>1, <1>d, <2>1, <2>2
<1>15. ASSUME NEW p \in Procs, load_effect_batch(p) \/ prepare_effect(p)
      PROVE  InHand(p)'
  <2>1. ASSUME NEW n, run' = [run EXCEPT ![p].pc = "refs", ![p].cur = n], run[p].pc = "cau"
        PROVE  InHand(p)'
    <3>1. run'[p] = [run[p] EXCEPT !.pc = "refs", !.cur = n]
      BY <1>0, <2>1 DEF TRun
    <3>2. /\ run'[p].got = run[p].got /\ run'[p].mine = run[p].mine
          /\ run'[p].batch = run[p].batch /\ run'[p].rest = run[p].rest
          /\ run'[p].list = run[p].list /\ run'[p].pc = "refs"
      BY <1>c, <3>1 DEF RunRecords
    <3>3. QED BY <1>2, <1>a, <1>c, <2>1, <3>2 DEF InHand
  <2>2. ASSUME Fail(p), run[p].pc = "cau"
        PROVE  InHand(p)'
    BY <1>d, <2>2 DEF Fail
  <2>3. QED BY <1>15, <2>1, <2>2 DEF load_effect_batch, prepare_effect
<1>16. ASSUME NEW p \in Procs, mark_effect_applied(p)
      PROVE  InHand(p)'
  <2> DEFINE S == effect[run[p].cur].members
             c == IF run[p].rest \ S = {} THEN "ack" ELSE "cau"
  <2>1. run'[p] = [run[p] EXCEPT !.pc = c, !.rest = run[p].rest \ S, !.cur = 0]
    BY <1>0, <1>16 DEF TRun, mark_effect_applied
  <2>2. run[p].pc = "mark"
    BY <1>16 DEF mark_effect_applied
  <2>3. c \in {"ack", "cau"}
    OBVIOUS
  <2> HIDE DEF S, c
  <2>4. /\ run'[p].got = run[p].got /\ run'[p].mine = run[p].mine
        /\ run'[p].batch = run[p].batch /\ run'[p].rest = run[p].rest \ S
        /\ run'[p].list = run[p].list /\ run'[p].pc = c
    BY <1>c, <2>1 DEF RunRecords
  <2>5. QED BY <1>2, <1>a, <1>c, <2>2, <2>3, <2>4 DEF InHand
<1>17. ASSUME NEW p \in Procs, ack_claimed(p) \/ remove_processing(p)
      PROVE  InHand(p)'
  <2>1. ASSUME NEW m, Handled(p, m)
        PROVE  InHand(p)'
    <3>1. run'[p] = [run[p] EXCEPT !.pc = "ack", !.batch = @ \ {m}]
      BY <1>0, <2>1 DEF TRun, Handled
    <3>2. QED BY <1>2, <1>17, <1>a, <1>c, <3>1
              DEF RunRecords, InHand, ack_claimed, remove_processing
  <2>2. ASSUME NEW c \in {"unlink", "release"}, Goto(p, c)
        PROVE  InHand(p)'
    BY <1>17, <1>d, <2>2 DEF ack_claimed, remove_processing
  <2>3. QED BY <1>17, <2>1, <2>2 DEF ack_claimed, remove_processing, Fail
<1>18. ASSUME NEW p \in Procs, finish_round(p) \/ release_claimed(p) \/ crash(p)
      PROVE  InHand(p)'
  BY <1>18, <1>e DEF finish_round, release_claimed, crash
<1>19. ASSUME NEW p \in Procs, Round(p) \/ crash(p)
       PROVE  IHand'
  <2>1. InHand(p)'
    BY <1>3, <1>5, <1>6, <1>7, <1>8, <1>9, <1>10, <1>11, <1>12, <1>13, <1>14, <1>15, <1>16,
       <1>17, <1>18, <1>19 DEF Round
  <2>2. \A q \in Procs : InHand(q)'
    BY <1>0, <1>1, <1>19, <2>1, OthersStay
  <2>3. QED BY <1>b, <2>2 DEF IHand, InHand
<1>20. CASE \/ \E q \in Policies : publish_new_policy(q) \/ deprecate_policy(q)
            \/ claim_update_suggestion \/ time_passes \/ UNCHANGED vars
  BY <1>1, <1>20, <1>b, RoundsStay DEF IHand, InHand
<1>21. QED BY <1>19, <1>20 DEF Next

----------------------------------------------------------------------------
\* Batches

\* What a step does to the batch of the process that takes it.
Receives(p) ==
  /\ run[p].pc \in Receiving /\ run'[p].pc \in Receiving \cup {"work"}
  /\ run'[p].batch = run[p].batch
Pushes(p) ==
  /\ run[p].pc = "work" /\ run'[p].pc = "work"
  /\ \E m \in run[p].list : kind[m] # "deprecate" /\ run'[p].batch = run[p].batch \cup {m}
Flushes(p) ==
  /\ run[p].pc = "work" /\ \E m \in run[p].batch : run'[p].pc = kind[m]
  /\ run'[p].batch = run[p].batch /\ run'[p].rest = run[p].batch
Leaves(p) == run'[p] = Idle \/ run'[p].pc \in {"release", "stage"}
Stages(p) ==
  /\ run'[p].pc = "ack" /\ run'[p].batch = run[p].batch
  /\ settled' = settled \cup run[p].batch
Plans(p) ==
  /\ run[p].pc \in {"cau"} \cup OnPlan /\ run'[p].pc \in OnPlan
  /\ run'[p].batch = run[p].batch /\ run'[p].rest = run[p].rest
Marks(p) ==
  /\ run[p].pc = "mark" /\ run'[p].batch = run[p].batch
  /\ \E S : /\ run'[p].rest = run[p].rest \ S /\ settled' = settled \cup S
            /\ run'[p].pc = IF run[p].rest \ S = {} THEN "ack" ELSE "cau"
Acks(p) ==
  \/ /\ run[p].pc = "ack" /\ run'[p].pc = "unlink" /\ run'[p].batch = run[p].batch
     /\ Least(run[p].batch) \subseteq done'
  \/ /\ run[p].pc \in {"ack", "unlink"} /\ run'[p].pc = "ack"
     /\ run'[p].batch \subseteq run[p].batch
  \/ run[p].batch = {} /\ run'[p].batch = {} /\ run'[p].pc = "work"

LEMMA Moves ==
  ASSUME ITypeOK, NEW p \in Procs, Round(p) \/ crash(p)
  PROVE  \/ Receives(p) \/ Pushes(p) \/ Flushes(p) \/ Leaves(p) \/ Stages(p) \/ Plans(p)
         \/ Marks(p) \/ Acks(p)
<1>0. TRun
  BY TypeParts
<1>a. run[p] \in RunRecords
  BY <1>0 DEF TRun
<1>b. ASSUME NEW c, Goto(p, c)
      PROVE  run'[p].pc = c /\ run'[p].batch = run[p].batch /\ run'[p].rest = run[p].rest
  <2>1. run'[p] = [run[p] EXCEPT !.pc = c]
    BY <1>0, <1>b DEF TRun, Goto
  <2>2. QED BY <1>a, <2>1 DEF RunRecords
<1>c. ASSUME run' = [run EXCEPT ![p] = Idle]
      PROVE  Leaves(p)
  BY <1>0, <1>c DEF TRun, Leaves
<1>d. ASSUME Fail(p)
      PROVE  Leaves(p)
  BY <1>b, <1>d DEF Fail, Leaves
<1>e. ASSUME NEW m, Received(p, m)
      PROVE  run'[p].pc = "accept" /\ run'[p].batch = run[p].batch
  <2>1. run'[p] = [run[p] EXCEPT !.pc = "accept", !.list = @ \ {m}, !.got = @ \cup {m}]
    BY <1>0, <1>e DEF TRun, Received
  <2>2. QED BY <1>a, <2>1 DEF RunRecords
<1>1. CASE pull_inbox(p)
  <2>1. CASE run' = [run EXCEPT ![p].pc = "accept", ![p].list = Chosen]
    <3>1. run'[p] = [run[p] EXCEPT !.pc = "accept", !.list = Chosen]
      BY <1>0, <2>1 DEF TRun
    <3>2. run'[p].pc = "accept" /\ run'[p].batch = run[p].batch
      BY <1>a, <3>1 DEF RunRecords
    <3>3. QED BY <1>1, <3>2 DEF Receives, pull_inbox, Receiving
  <2>2. CASE Goto(p, "scan")
    BY <1>1, <1>b, <2>2 DEF Receives, pull_inbox, Receiving
  <2>3. QED BY <1>1, <2>1, <2>2 DEF pull_inbox
<1>2. CASE accept_pulled(p)
  BY <1>2, <1>b, <1>e DEF accept_pulled, Receives, Receiving
<1>3. CASE write_pulled(p)
  <2>1. CASE ForgetList(p, "accept")
    <3>1. run'[p] = [run[p] EXCEPT !.pc = "accept", !.list = {}]
      BY <1>0, <2>1 DEF TRun, ForgetList
    <3>2. run'[p].pc = "accept" /\ run'[p].batch = run[p].batch
      BY <1>a, <3>1 DEF RunRecords
    <3>3. QED BY <1>3, <3>2 DEF Receives, write_pulled, Receiving
  <2>2. QED BY <1>3, <1>e, <2>1 DEF write_pulled, Receives, Receiving
<1>4. CASE ack_inbox(p)
  <2>1. run'[p] = [run[p] EXCEPT !.pc = "scan", !.got = {}]
    BY <1>0, <1>4 DEF TRun, ack_inbox
  <2>2. run'[p].pc = "scan" /\ run'[p].batch = run[p].batch
    BY <1>a, <2>1 DEF RunRecords
  <2>3. QED BY <1>4, <2>2 DEF Receives, ack_inbox, Receiving
<1>5. CASE claim_pending(p)
  <2> DEFINE l == {m \in Msgs \ (done \cup seen[p]) : active'[m] # "none"}
  <2>1. run'[p] = [run[p] EXCEPT !.pc = "claim", !.list = l]
    BY <1>0, <1>5 DEF TRun, claim_pending
  <2> HIDE DEF l
  <2>2. run'[p].pc = "claim" /\ run'[p].batch = run[p].batch
    BY <1>a, <2>1 DEF RunRecords
  <2>3. QED BY <1>5, <2>2 DEF Receives, claim_pending, Receiving
<1>6. CASE claim_message(p)
  <2>1. ASSUME NEW m, run' = [run EXCEPT ![p].list = @ \ {m}, ![p].mine = @ \cup {m}]
        PROVE  run'[p].pc = run[p].pc /\ run'[p].batch = run[p].batch
    <3>1. run'[p] = [run[p] EXCEPT !.list = @ \ {m}, !.mine = @ \cup {m}]
      BY <1>0, <2>1 DEF TRun
    <3>2. QED BY <1>a, <3>1 DEF RunRecords
  <2>2. ASSUME NEW m, run' = [run EXCEPT ![p].list = @ \ {m}]
        PROVE  run'[p].pc = run[p].pc /\ run'[p].batch = run[p].batch
    <3>1. run'[p] = [run[p] EXCEPT !.list = @ \ {m}]
      BY <1>0, <2>2 DEF TRun
    <3>2. QED BY <1>a, <3>1 DEF RunRecords
  <2>3. run[p].pc = "claim"
    BY <1>6 DEF claim_message
  <2>4. (run'[p].pc = run[p].pc /\ run'[p].batch = run[p].batch) \/ Leaves(p)
    BY <1>6, <1>c, <2>1, <2>2 DEF claim_message
  <2>5. QED BY <2>3, <2>4 DEF Receives, Receiving
<1>7. CASE start_work(p)
  <2>1. run'[p] = [run[p] EXCEPT !.pc = "work", !.list = run[p].mine]
    BY <1>0, <1>7 DEF TRun, start_work
  <2>2. run'[p].pc = "work" /\ run'[p].batch = run[p].batch
    BY <1>a, <2>1 DEF RunRecords
  <2>3. QED BY <1>7, <2>2 DEF Receives, start_work, Receiving
<1>8. CASE push_internalize_message(p)
  <2>1. PICK m \in Mergeable(p) :
          run' = [run EXCEPT ![p].list = @ \ {m}, ![p].batch = @ \cup {m}]
    BY <1>8 DEF push_internalize_message
  <2>2. run'[p] = [run[p] EXCEPT !.list = @ \ {m}, !.batch = @ \cup {m}]
    BY <1>0, <2>1 DEF TRun
  <2>3. run'[p].pc = run[p].pc /\ run'[p].batch = run[p].batch \cup {m}
    BY <1>a, <2>2 DEF RunRecords
  <2>4. m \in run[p].list /\ kind[m] # "deprecate"
    BY LeastType DEF Mergeable
  <2>5. QED BY <1>8, <2>3, <2>4 DEF Pushes, push_internalize_message
<1>9. CASE flush_internalize_updates(p)
  <2>1. PICK m \in Least(run[p].batch) :
          run' = [run EXCEPT ![p].pc = kind[m], ![p].rest = run[p].batch]
    BY <1>9 DEF flush_internalize_updates
  <2>2. run'[p] = [run[p] EXCEPT !.pc = kind[m], !.rest = run[p].batch]
    BY <1>0, <2>1 DEF TRun
  <2>3. run'[p].pc = kind[m] /\ run'[p].batch = run[p].batch /\ run'[p].rest = run[p].batch
    BY <1>a, <2>2 DEF RunRecords
  <2>4. m \in run[p].batch
    BY LeastType
  <2>5. QED BY <1>9, <2>3, <2>4 DEF Flushes, flush_internalize_updates
<1>10. CASE finish_round(p) \/ release_claimed(p) \/ crash(p)
  BY <1>10, <1>c DEF finish_round, release_claimed, crash
<1>11. CASE internalize_inbox_updates(p)
  BY <1>11, <1>b, <1>d DEF internalize_inbox_updates, Leaves
<1>12. CASE stage_maintainer_batch(p)
  BY <1>12, <1>b, <1>d DEF stage_maintainer_batch, Stages
<1>13. CASE apply_policy_deprecation(p)
  <2>1. ASSUME NEW m,
               run' = [run EXCEPT ![p].pc = "stage", ![p].list = @ \ {m}, ![p].batch = {m}]
        PROVE  Leaves(p)
    <3>1. run'[p] = [run[p] EXCEPT !.pc = "stage", !.list = @ \ {m}, !.batch = {m}]
      BY <1>0, <2>1 DEF TRun
    <3>2. QED BY <1>a, <3>1 DEF RunRecords, Leaves
  <2>2. QED BY <1>13, <1>d, <2>1 DEF apply_policy_deprecation
<1>14. CASE load_effect_batch(p) \/ prepare_effect(p)
  <2>1. ASSUME NEW n, run' = [run EXCEPT ![p].pc = "refs", ![p].cur = n]
        PROVE  run'[p].pc = "refs" /\ run'[p].batch = run[p].batch /\ run'[p].rest = run[p].rest
    <3>1. run'[p] = [run[p] EXCEPT !.pc = "refs", !.cur = n]
      BY <1>0, <2>1 DEF TRun
    <3>2. QED BY <1>a, <3>1 DEF RunRecords
  <2>2. CASE load_effect_batch(p)
    BY <2>1, <2>2 DEF load_effect_batch, Plans, OnPlan
  <2>3. CASE prepare_effect(p)
    BY <1>d, <2>1, <2>3 DEF prepare_effect, Plans, OnPlan
  <2>4. QED BY <1>14, <2>2, <2>3
<1>15. CASE repair_effect_refs(p)
  <2>1. run[p].pc = "refs"
    BY <1>15 DEF repair_effect_refs
  <2>2. run' = run \/ Goto(p, "release") \/ Goto(p, "mark") \/ Goto(p, "apply")
    BY <1>15 DEF repair_effect_refs
  <2>3. QED BY <1>b, <2>1, <2>2 DEF Plans, OnPlan, Leaves
<1>16. CASE apply_effect(p)
  BY <1>16, <1>b, <1>d DEF apply_effect, Plans, OnPlan
<1>17. CASE mark_effect_applied(p)
  <2> DEFINE S == effect[run[p].cur].members
             c == IF run[p].rest \ S = {} THEN "ack" ELSE "cau"
  <2>1. run'[p] = [run[p] EXCEPT !.pc = c, !.rest = run[p].rest \ S, !.cur = 0]
    BY <1>0, <1>17 DEF TRun, mark_effect_applied
  <2>2. run[p].pc = "mark" /\ settled' = settled \cup S
    BY <1>17 DEF mark_effect_applied
  <2>3. run'[p].batch = run[p].batch /\ run'[p].rest = run[p].rest \ S /\ run'[p].pc = c
    <3> HIDE DEF S, c
    <3>1. QED BY <1>a, <2>1 DEF RunRecords
  <2>4. QED BY <2>2, <2>3 DEF Marks
<1>18. CASE ack_claimed(p) \/ remove_processing(p)
  <2>1. ASSUME NEW m, Handled(p, m), run[p].pc \in {"ack", "unlink"}
        PROVE  Acks(p)
    <3>1. run'[p] = [run[p] EXCEPT !.pc = "ack", !.batch = @ \ {m}]
      BY <1>0, <2>1 DEF TRun, Handled
    <3>2. run'[p].pc = "ack" /\ run'[p].batch \subseteq run[p].batch
      BY <1>a, <3>1 DEF RunRecords
    <3>3. QED BY <2>1, <3>2 DEF Acks
  <2>2. ASSUME NEW m \in Least(run[p].batch), done' = done \cup {m}, Goto(p, "unlink"),
               run[p].pc = "ack"
        PROVE  Acks(p)
    <3>1. \A n \in Least(run[p].batch) : n = m
      BY <1>a, InboxAssumption DEF RunRecords, Least, Msgs
    <3>2. QED BY <1>b, <2>2, <3>1 DEF Acks
  <2>3. ASSUME Goto(p, "release")
        PROVE  Leaves(p)
    BY <1>b, <2>3 DEF Leaves
  <2>4. CASE ack_claimed(p)
    BY <1>d, <2>1, <2>2, <2>4 DEF ack_claimed
  <2>5. CASE remove_processing(p)
    BY <2>1, <2>3, <2>5 DEF remove_processing
  <2>6. QED BY <1>18, <2>4, <2>5
<1>19. CASE next_batch(p)
  BY <1>19, <1>b DEF next_batch, Acks
<1>20. QED BY <1>1, <1>2, <1>3, <1>4, <1>5, <1>6, <1>7, <1>8, <1>9, <1>10, <1>11, <1>12,
           <1>13, <1>14, <1>15, <1>16, <1>17, <1>18, <1>19 DEF Round

\* What is settled or done stays so.
LEMMA HistoryGrows ==
  ASSUME ITypeOK, [Next]_vars
  PROVE  settled \subseteq settled' /\ done \subseteq done'
<1>1. ASSUME NEW p \in Procs, Round(p) \/ crash(p)
      PROVE  settled \subseteq settled' /\ done \subseteq done'
  <2>1. CASE \/ pull_inbox(p) \/ accept_pulled(p) \/ write_pulled(p) \/ ack_inbox(p)
             \/ claim_pending(p) \/ claim_message(p) \/ start_work(p)
             \/ push_internalize_message(p) \/ flush_internalize_updates(p) \/ finish_round(p)
    BY <2>1 DEF files, local, pull_inbox, accept_pulled, write_pulled, ack_inbox,
       claim_pending, claim_message, start_work, push_internalize_message,
       flush_internalize_updates, finish_round
  <2>2. CASE \/ internalize_inbox_updates(p) \/ stage_maintainer_batch(p)
             \/ apply_policy_deprecation(p) \/ load_effect_batch(p) \/ prepare_effect(p)
             \/ repair_effect_refs(p) \/ apply_effect(p) \/ mark_effect_applied(p)
    BY <2>2 DEF files, local, internalize_inbox_updates, stage_maintainer_batch,
       apply_policy_deprecation, load_effect_batch, prepare_effect, repair_effect_refs,
       apply_effect, mark_effect_applied
  <2>3. CASE \/ ack_claimed(p) \/ remove_processing(p) \/ next_batch(p)
             \/ release_claimed(p) \/ crash(p)
    BY <2>3 DEF files, local, ack_claimed, remove_processing, next_batch, release_claimed, crash
  <2>4. QED BY <1>1, <2>1, <2>2, <2>3 DEF Round
<1>2. CASE \/ \E q \in Policies : publish_new_policy(q) \/ deprecate_policy(q)
           \/ claim_update_suggestion \/ time_passes \/ UNCHANGED vars
  BY <1>2 DEF publish_new_policy, deprecate_policy, claim_update_suggestion, time_passes,
     vars, files, local
<1>3. QED BY <1>1, <1>2 DEF Next

LEMMA BatchNext ==
  ASSUME IInv, [Next]_vars
  PROVE  IBatch'
<1> DEFINE Ok(p) == /\ run[p].pc \in Receiving => run[p].batch = {}
                    /\ run[p].pc = "work" => \A m \in run[p].batch : kind[m] \in {"update", "cau"}
<1>0. ITypeOK /\ TRun /\ TOutbox /\ IBatch /\ IHand
  BY TypeParts DEF IInv
<1>a. \A p \in Procs : Ok(p) /\ run[p] \in RunRecords /\ \A m \in run[p].batch : kind'[m] = kind[m]
  BY <1>0, SentStays DEF IBatch, IHand, TRun
<1>1. ASSUME NEW p \in Procs, run'[p] = run[p]
      PROVE  Ok(p)'
  BY <1>1, <1>a
<1>2. ASSUME NEW p \in Procs, Round(p) \/ crash(p)
      PROVE  Ok(p)'
  <2>1. CASE Receives(p)
    BY <1>a, <2>1 DEF Receives
  <2>2. CASE Pushes(p)
    <3>1. PICK m \in run[p].list : kind[m] # "deprecate" /\ run'[p].batch = run[p].batch \cup {m}
      BY <2>2 DEF Pushes
    <3>2. m \in Created
      BY <1>0, <2>2 DEF IHand, Pushes
    <3>3. kind'[m] \in {"update", "cau"}
      BY <1>0, <3>1, <3>2, SentStays DEF Created, TOutbox, Kinds
    <3>4. run[p].pc = "work" /\ run'[p].pc = "work"
      BY <2>2 DEF Pushes
    <3>5. QED BY <1>a, <3>1, <3>3, <3>4 DEF Receiving
  <2>3. CASE Flushes(p)
    <3>1. PICK m \in run[p].batch : run'[p].pc = kind[m]
      BY <2>3 DEF Flushes
    <3>2. run'[p].pc \in {"update", "cau"}
      BY <1>a, <2>3, <3>1 DEF Flushes
    <3>3. QED BY <3>2 DEF Receiving
  <2>4. CASE Leaves(p)
    BY <2>4 DEF Leaves, Idle, Receiving
  <2>5. CASE Stages(p) \/ Plans(p) \/ Marks(p)
    BY <2>5 DEF Stages, Plans, Marks, Receiving, OnPlan
  <2>6. CASE Acks(p)
    BY <2>6 DEF Acks, Receiving
  <2>7. QED BY <1>0, <1>2, <2>1, <2>2, <2>3, <2>4, <2>5, <2>6, Moves
<1>3. \A p \in Procs : Ok(p)'
  <2>1. CASE \E p \in Procs : Round(p) \/ crash(p)
    BY <1>0, <1>1, <1>2, <2>1, OthersStay
  <2>2. CASE \/ \E q \in Policies : publish_new_policy(q) \/ deprecate_policy(q)
             \/ claim_update_suggestion \/ time_passes \/ UNCHANGED vars
    BY <1>1, <2>2, RoundsStay
  <2>3. QED BY <2>1, <2>2 DEF Next
<1>4. QED BY <1>3 DEF IBatch

LEMMA SettledNext ==
  ASSUME IInv, [Next]_vars
  PROVE  ISettled'
<1> DEFINE Ok(p) == /\ run[p].pc \in {"cau"} \cup OnPlan => run[p].batch \subseteq settled \cup run[p].rest
                    /\ run[p].pc \in {"ack", "unlink"} => run[p].batch \subseteq settled
                    /\ run[p].pc = "unlink" => Least(run[p].batch) \subseteq done
<1>0. ITypeOK /\ TRun /\ ISettled /\ IBatch
  BY TypeParts DEF IInv
<1>a. settled \subseteq settled' /\ done \subseteq done'
  BY <1>0, HistoryGrows
<1>b. \A p \in Procs : Ok(p)
  BY <1>0 DEF ISettled
<1>1. ASSUME NEW p \in Procs, run'[p] = run[p]
      PROVE  Ok(p)'
  BY <1>1, <1>a, <1>b DEF Least
<1>2. ASSUME NEW p \in Procs, Round(p) \/ crash(p)
      PROVE  Ok(p)'
  <2>1. CASE Receives(p) \/ Pushes(p)
    BY <2>1 DEF Receives, Receiving, OnPlan, Pushes
  <2>2. CASE Flushes(p)
    <3>1. run'[p].pc \in {"update", "cau"}
      BY <1>0, <2>2 DEF Flushes, IBatch
    <3>2. QED BY <2>2, <3>1 DEF Flushes, OnPlan
  <2>3. CASE Leaves(p)
    BY <2>3 DEF Leaves, Idle, OnPlan
  <2>4. CASE Stages(p)
    BY <2>4 DEF Stages, OnPlan
  <2>5. CASE Plans(p)
    BY <1>a, <1>b, <2>5 DEF Plans, OnPlan
  <2>6. CASE Marks(p)
    <3>1. PICK S : /\ run'[p].rest = run[p].rest \ S /\ settled' = settled \cup S
                   /\ run'[p].pc = IF run[p].rest \ S = {} THEN "ack" ELSE "cau"
      BY <2>6 DEF Marks
    <3>2. run[p].batch \subseteq settled \cup run[p].rest /\ run'[p].batch = run[p].batch
      BY <1>b, <2>6 DEF Marks, OnPlan
    <3>3. CASE run[p].rest \ S = {}
      BY <3>1, <3>2, <3>3 DEF OnPlan
    <3>4. CASE run[p].rest \ S # {}
      BY <3>1, <3>2, <3>4 DEF OnPlan
    <3>5. QED BY <3>3, <3>4
  <2>7. CASE Acks(p)
    BY <1>a, <1>b, <2>7 DEF Acks, OnPlan, Least
  <2>8. QED BY <1>0, <1>2, <2>1, <2>2, <2>3, <2>4, <2>5, <2>6, <2>7, Moves
<1>3. \A p \in Procs : Ok(p)'
  <2>1. CASE \E p \in Procs : Round(p) \/ crash(p)
    BY <1>0, <1>1, <1>2, <2>1, OthersStay
  <2>2. CASE \/ \E q \in Policies : publish_new_policy(q) \/ deprecate_policy(q)
             \/ claim_update_suggestion \/ time_passes \/ UNCHANGED vars
    BY <1>1, <2>2, RoundsStay
  <2>3. QED BY <2>1, <2>2 DEF Next
<1>4. QED BY <1>3 DEF ISettled

----------------------------------------------------------------------------
\* The journal

\* A record, once written, names the same plan with the same members for ever.
RecordsStay ==
  \A m \in Msgs : effect[m] # None =>
    /\ effect'[m] # None /\ effect'[m].plan = effect[m].plan
    /\ effect'[m].members = effect[m].members

\* A new record is a plan, or refers to one.
RecordsLead ==
  \A m \in Msgs : effect[m] = None /\ effect'[m] # None =>
    /\ effect'[m].members \subseteq Kept
    /\ \/ effect'[m].plan = m
       \/ /\ effect'[m].plan \in Msgs /\ effect[effect'[m].plan] # None
          /\ effect[effect'[m].plan].plan = effect'[m].plan

\* How a process comes to the plan in its hand.
HandMoves(p) ==
  run'[p].pc \in OnPlan =>
    \/ run[p].pc \in OnPlan /\ run'[p].cur = run[p].cur
    \/ /\ run'[p].cur \in Msgs /\ effect'[run'[p].cur] # None
       /\ effect'[run'[p].cur].plan = run'[p].cur

\* How it comes to apply that plan, and what it has then applied.
ApplyMoves(p) ==
  /\ run'[p].pc = "apply" =>
       \/ run[p].pc = "apply" /\ run'[p].cur = run[p].cur
       \/ /\ run[p].pc = "refs" /\ run'[p].cur = run[p].cur /\ effect' = effect
          /\ Unlike(run[p].cur) = {}
  /\ \/ took' = took
     \/ /\ run[p].pc = "apply" /\ effect' = effect
        /\ took' = took \cup {<<run[p].cur, m>> : m \in effect[run[p].cur].members}

LEMMA JournalStays ==
  ASSUME TLocal, UNCHANGED effect
  PROVE  RecordsStay /\ RecordsLead
  BY DEF RecordsStay, RecordsLead

\* A plan and a reference are records.
LEMMA PlanType ==
  ASSUME NEW m \in Msgs, NEW S \in SUBSET Msgs
  PROVE  /\ Plan(m, S) # None /\ Plan(m, S).plan = m /\ Plan(m, S).members = S
         /\ Ref(m) # None /\ Ref(m).plan = m /\ Ref(m).members = {}
<1>1. ASSUME NEW r, r = [plan |-> m, members |-> S, applied |-> FALSE]
      PROVE  r # None /\ r.plan = m /\ r.members = S
  <2>1. r \in Effects
    BY <1>1 DEF Effects
  <2>2. QED BY <1>1, <2>1, JournalAssumption
<1>2. ASSUME NEW r, r = [plan |-> m, members |-> {}, applied |-> FALSE]
      PROVE  r # None /\ r.plan = m /\ r.members = {}
  <2>1. r \in Effects
    BY <1>2 DEF Effects
  <2>2. QED BY <1>2, <2>1, JournalAssumption
<1>3. QED BY <1>1, <1>2 DEF Plan, Ref

LEMMA JournalMoves ==
  ASSUME IInv, NEW p \in Procs, Round(p) \/ crash(p)
  PROVE  RecordsStay /\ RecordsLead /\ HandMoves(p) /\ ApplyMoves(p)
<1>0. ITypeOK /\ TRun /\ TLocal /\ IHand /\ IJournal
  BY TypeParts DEF IInv
<1>a. run[p] \in RunRecords
  BY <1>0 DEF TRun
<1>b. ASSUME NEW c, Goto(p, c)
      PROVE  run'[p].pc = c /\ run'[p].cur = run[p].cur
  <2>1. run'[p] = [run[p] EXCEPT !.pc = c]
    BY <1>0, <1>b DEF TRun, Goto
  <2>2. QED BY <1>a, <2>1 DEF RunRecords
<1>c. ASSUME NEW n, run' = [run EXCEPT ![p].pc = "refs", ![p].cur = n]
      PROVE  run'[p].pc = "refs" /\ run'[p].cur = n
  <2>1. run'[p] = [run[p] EXCEPT !.pc = "refs", !.cur = n]
    BY <1>0, <1>c DEF TRun
  <2>2. QED BY <1>a, <2>1 DEF RunRecords
<1>d. ASSUME run'[p].pc \notin OnPlan, UNCHANGED <<effect, took>>
      PROVE  RecordsStay /\ RecordsLead /\ HandMoves(p) /\ ApplyMoves(p)
  BY <1>0, <1>d, JournalStays DEF HandMoves, ApplyMoves, OnPlan
<1>e. ASSUME Fail(p), UNCHANGED <<effect, took>>
      PROVE  RecordsStay /\ RecordsLead /\ HandMoves(p) /\ ApplyMoves(p)
  <2>1. run'[p].pc = "release"
    BY <1>b, <1>e DEF Fail
  <2>2. QED BY <1>d, <1>e, <2>1 DEF OnPlan
<1>1. CASE load_effect_batch(p)
  <2>1. PICK m \in Least(run[p].rest) :
          effect[m] # None /\ run' = [run EXCEPT ![p].pc = "refs", ![p].cur = effect[m].plan]
    BY <1>1 DEF load_effect_batch
  <2>2. m \in Msgs
    BY <1>a, LeastType DEF RunRecords
  <2>3. UNCHANGED <<effect, took>>
    BY <1>1 DEF load_effect_batch, local
  <2>4. effect[m].plan \in Msgs /\ effect[effect[m].plan] # None
        /\ effect[effect[m].plan].plan = effect[m].plan
    BY <1>0, <2>1, <2>2 DEF TLocal, Effects, IJournal
  <2>5. run'[p].pc = "refs" /\ run'[p].cur = effect[m].plan
    BY <1>c, <2>1
  <2>6. QED BY <1>0, <2>3, <2>4, <2>5, JournalStays DEF HandMoves, ApplyMoves
<1>2. CASE prepare_effect(p)
  <2> DEFINE group == {i \in run[p].rest : \A j \in run[p].rest : j <= i => effect[j] = None}
  <2>1. PICK m \in Least(run[p].rest) :
          /\ effect[m] = None
          /\ \/ /\ effect' = [effect EXCEPT ![m] = Plan(m, group)]
                /\ run' = [run EXCEPT ![p].pc = "refs", ![p].cur = m]
             \/ Fail(p) /\ UNCHANGED effect
    BY <1>2 DEF prepare_effect
  <2>2. took' = took
    BY <1>2 DEF prepare_effect
  <2>3. m \in Msgs
    BY <1>a, LeastType DEF RunRecords
  <2>4. group \subseteq Kept /\ group \in SUBSET Msgs
    BY <1>0, <1>a DEF IHand, RunRecords
  <2> HIDE DEF group
  <2>5. ASSUME effect' = [effect EXCEPT ![m] = Plan(m, group)],
               run' = [run EXCEPT ![p].pc = "refs", ![p].cur = m]
        PROVE  RecordsStay /\ RecordsLead /\ HandMoves(p) /\ ApplyMoves(p)
    <3>1. effect'[m] # None /\ effect'[m].plan = m /\ effect'[m].members = group
      BY <1>0, <2>3, <2>4, <2>5, PlanType DEF TLocal
    <3>2. \A n \in Msgs : n # m => effect'[n] = effect[n]
      BY <1>0, <2>5 DEF TLocal
    <3>3. run'[p].pc = "refs" /\ run'[p].cur = m
      BY <1>c, <2>5
    <3>4. RecordsStay /\ RecordsLead
      BY <2>1, <2>4, <3>1, <3>2 DEF RecordsStay, RecordsLead
    <3>5. QED BY <2>2, <2>3, <3>1, <3>3, <3>4 DEF HandMoves, ApplyMoves
  <2>6. QED BY <1>e, <2>1, <2>2, <2>5
<1>3. CASE repair_effect_refs(p)
  <2> DEFINE c == run[p].cur
  <2>1. /\ c \in Msgs /\ effect[c] \in Effects /\ effect[c].members \subseteq Msgs
        /\ effect[c].plan = c /\ effect[c] # None
    BY <1>0, <1>3, PlanInHand, JournalAssumption DEF repair_effect_refs, OnPlan
  <2>2. took' = took /\ run[p].pc = "refs"
    BY <1>3 DEF repair_effect_refs
  <2>3. ASSUME NEW m \in Least(Unlike(c)), effect[m] = None,
               effect' = [effect EXCEPT ![m] = Ref(c)], run' = run
        PROVE  RecordsStay /\ RecordsLead /\ HandMoves(p) /\ ApplyMoves(p)
    <3>1. m \in Msgs
      BY <2>1, LeastType DEF Unlike
    <3> HIDE DEF c
    <3>2. effect'[m] # None /\ effect'[m].plan = c /\ effect'[m].members = {}
      BY <1>0, <2>1, <2>3, <3>1, PlanType DEF TLocal
    <3>3. \A n \in Msgs : n # m => effect'[n] = effect[n]
      BY <1>0, <2>3 DEF TLocal
    <3>4. RecordsStay /\ RecordsLead
      BY <2>1, <2>3, <3>2, <3>3 DEF RecordsStay, RecordsLead
    <3>5. QED BY <2>2, <2>3, <3>4 DEF HandMoves, ApplyMoves, OnPlan
  <2>4. ASSUME Goto(p, "release"), effect' = effect
        PROVE  RecordsStay /\ RecordsLead /\ HandMoves(p) /\ ApplyMoves(p)
    BY <1>b, <1>d, <2>2, <2>4 DEF OnPlan
  <2>5. ASSUME Unlike(c) = {}, Goto(p, IF effect[c].applied THEN "mark" ELSE "apply"),
               effect' = effect
        PROVE  RecordsStay /\ RecordsLead /\ HandMoves(p) /\ ApplyMoves(p)
    <3>1. run'[p].pc \in {"mark", "apply"} /\ run'[p].cur = run[p].cur
      BY <1>b, <2>5
    <3>2. QED BY <1>0, <2>2, <2>5, <3>1, JournalStays DEF HandMoves, ApplyMoves, OnPlan
  <2>6. QED BY <1>3, <2>3, <2>4, <2>5 DEF repair_effect_refs
<1>4. CASE apply_effect(p)
  <2>1. run[p].pc = "apply" /\ effect' = effect
    BY <1>4 DEF apply_effect
  <2>2. CASE Fail(p) /\ UNCHANGED took
    BY <1>e, <2>1, <2>2
  <2>3. CASE /\ Goto(p, "mark")
             /\ \/ took' = took \cup {<<run[p].cur, m>> : m \in effect[run[p].cur].members}
                \/ UNCHANGED took
    <3>1. run'[p].pc = "mark" /\ run'[p].cur = run[p].cur
      BY <1>b, <2>3
    <3>2. QED BY <1>0, <2>1, <2>3, <3>1, JournalStays DEF HandMoves, ApplyMoves, OnPlan
  <2>4. QED BY <1>4, <2>2, <2>3 DEF apply_effect
<1>5. CASE mark_effect_applied(p)
  <2> DEFINE c == run[p].cur
             S == effect[c].members
             l == IF run[p].rest \ S = {} THEN "ack" ELSE "cau"
  <2>1. c \in Msgs /\ effect[c] \in Effects
    BY <1>0, <1>5, PlanInHand DEF mark_effect_applied, OnPlan
  <2>2. took' = took /\ effect' = [effect EXCEPT ![c].applied = TRUE]
    BY <1>5 DEF mark_effect_applied
  <2>3. run'[p] = [run[p] EXCEPT !.pc = l, !.rest = run[p].rest \ S, !.cur = 0]
    BY <1>0, <1>5 DEF TRun, mark_effect_applied
  <2>4. l \in {"ack", "cau"}
    OBVIOUS
  <2> HIDE DEF S, l, c
  <2>5. run'[p].pc = l
    BY <1>a, <2>3 DEF RunRecords
  <2>6. /\ effect'[c] \in Effects /\ effect'[c].plan = effect[c].plan
        /\ effect'[c].members = effect[c].members
    BY <1>0, <2>1, <2>2 DEF TLocal, Effects
  <2>7. \A n \in Msgs : n # c => effect'[n] = effect[n]
    BY <1>0, <2>2 DEF TLocal
  <2>8. RecordsStay /\ RecordsLead
    BY <2>1, <2>6, <2>7, JournalAssumption DEF RecordsStay, RecordsLead
  <2>9. QED BY <2>2, <2>4, <2>5, <2>8 DEF HandMoves, ApplyMoves, OnPlan
<1>6. CASE \/ pull_inbox(p) \/ accept_pulled(p) \/ write_pulled(p) \/ ack_inbox(p)
           \/ claim_pending(p) \/ claim_message(p) \/ start_work(p)
           \/ push_internalize_message(p) \/ flush_internalize_updates(p) \/ finish_round(p)
  <2>1. UNCHANGED <<effect, took>>
    BY <1>6 DEF local, pull_inbox, accept_pulled, write_pulled, ack_inbox,
       claim_pending, claim_message, start_work, push_internalize_message,
       flush_internalize_updates, finish_round
  <2>2. run[p].pc \notin {"cau"} \cup OnPlan
    BY <1>6 DEF OnPlan, pull_inbox, accept_pulled, write_pulled, ack_inbox,
       claim_pending, claim_message, start_work, push_internalize_message,
       flush_internalize_updates, finish_round
  <2>3. run'[p].pc \notin OnPlan
    BY <1>0, <2>2, Moves DEF IInv, IBatch, Receives, Pushes, Flushes, Leaves, Stages, Plans,
       Marks, Acks, Receiving, OnPlan, Idle
  <2>4. QED BY <1>d, <2>1, <2>3
<1>7. CASE \/ internalize_inbox_updates(p) \/ stage_maintainer_batch(p)
           \/ apply_policy_deprecation(p) \/ ack_claimed(p) \/ remove_processing(p)
           \/ next_batch(p) \/ release_claimed(p) \/ crash(p)
  <2>1. UNCHANGED <<effect, took>>
    BY <1>7 DEF local, internalize_inbox_updates, stage_maintainer_batch,
       apply_policy_deprecation, ack_claimed, remove_processing, next_batch,
       release_claimed, crash
  <2>2. CASE crash(p)
    <3>1. run'[p] = Idle
      BY <1>0, <2>2 DEF TRun, crash
    <3>2. QED BY <1>d, <2>1, <3>1 DEF Idle, OnPlan
  <2>3. CASE ~crash(p)
    <3>1. run[p].pc \notin {"cau"} \cup OnPlan
      BY <1>7, <2>3 DEF OnPlan, internalize_inbox_updates, stage_maintainer_batch,
         apply_policy_deprecation, ack_claimed, remove_processing, next_batch,
         release_claimed
    <3>2. run'[p].pc \notin OnPlan
      BY <1>0, <3>1, Moves DEF IInv, IBatch, Receives, Pushes, Flushes, Leaves, Stages,
         Plans, Marks, Acks, Receiving, OnPlan, Idle
    <3>3. QED BY <1>d, <2>1, <3>2
  <2>4. QED BY <2>2, <2>3
<1>8. QED BY <1>1, <1>2, <1>3, <1>4, <1>5, <1>6, <1>7 DEF Round

LEMMA JournalNext ==
  ASSUME IInv, [Next]_vars
  PROVE  IJournal' /\ IApplied'
<1>0. ITypeOK /\ TRun /\ TLocal /\ IJournal /\ IApplied
  BY TypeParts DEF IInv
<1>a. Kept \subseteq Kept'
  BY KeptGrows DEF IInv
<1>b. TLocal'
  BY <1>0, LocalNext
<1>1. ASSUME RecordsStay, RecordsLead
      PROVE  \A m \in Msgs : effect'[m] # None =>
               /\ effect'[m].members \subseteq Kept'
               /\ effect'[effect'[m].plan] # None
               /\ effect'[effect'[m].plan].plan = effect'[m].plan
  <2>1. SUFFICES ASSUME NEW m \in Msgs, effect'[m] # None
                 PROVE  /\ effect'[m].members \subseteq Kept'
                        /\ effect'[effect'[m].plan] # None
                        /\ effect'[effect'[m].plan].plan = effect'[m].plan
    OBVIOUS
  <2>2. CASE effect[m] # None
    <3>1. effect'[m].plan = effect[m].plan /\ effect'[m].members = effect[m].members
      BY <1>1, <2>2 DEF RecordsStay
    <3>2. effect[m].plan \in Msgs
      BY <1>0, <2>2 DEF TLocal, Effects
    <3>3. /\ effect[m].members \subseteq Kept /\ effect[effect[m].plan] # None
          /\ effect[effect[m].plan].plan = effect[m].plan
      BY <1>0, <2>2 DEF IJournal
    <3>4. QED BY <1>1, <1>a, <3>1, <3>2, <3>3 DEF RecordsStay
  <2>3. CASE effect[m] = None
    BY <1>1, <1>a, <2>1, <2>3 DEF RecordsStay, RecordsLead
  <2>4. QED BY <2>2, <2>3
<1>2. ASSUME RecordsStay, NEW p \in Procs, HandMoves(p), run'[p].pc \in OnPlan
      PROVE  /\ run'[p].cur \in Msgs /\ effect'[run'[p].cur] # None
             /\ effect'[run'[p].cur].plan = run'[p].cur
  BY <1>0, <1>2 DEF HandMoves, RecordsStay, IJournal
<1>3. ASSUME RecordsStay, NEW p \in Procs, NEW c \in Msgs, run[p].pc = "apply", c = run[p].cur
      PROVE  \A m \in effect'[c].members : effect'[m] # None /\ effect'[m].plan = c
  <2>1. effect[c].members \subseteq Msgs /\ effect[c] # None
    BY <1>0, <1>3, PlanInHand, JournalAssumption DEF OnPlan
  <2>2. effect'[c].members = effect[c].members
    BY <1>3, <2>1 DEF RecordsStay
  <2>3. \A m \in effect[c].members : effect[m] # None /\ effect[m].plan = c
    BY <1>0, <1>3 DEF IApplied
  <2>4. QED BY <1>3, <2>1, <2>2, <2>3 DEF RecordsStay
<1>4. ASSUME RecordsStay, NEW p \in Procs, ApplyMoves(p), run'[p].pc = "apply"
      PROVE  \A m \in effect'[run'[p].cur].members :
               effect'[m] # None /\ effect'[m].plan = run'[p].cur
  <2> DEFINE c == run[p].cur
  <2>1. run'[p].cur = c
    BY <1>4 DEF ApplyMoves
  <2>2. CASE run[p].pc = "apply"
    <3>1. c \in Msgs
      BY <1>0, <2>2, PlanInHand DEF OnPlan
    <3>2. QED BY <1>3, <1>4, <2>1, <2>2, <3>1
  <2>3. CASE run[p].pc = "refs" /\ effect' = effect /\ Unlike(c) = {}
    <3>1. c \in Msgs /\ effect[c] \in Effects /\ effect[c].plan = c
      BY <1>0, <2>3, PlanInHand DEF OnPlan
    <3>2. \A m \in effect[c].members \ {c} : effect[m] = Ref(c)
      BY <2>3 DEF Unlike
    <3> HIDE DEF c
    <3>3. Ref(c) # None /\ Ref(c).plan = c
      BY <3>1, PlanType
    <3>4. QED BY <2>1, <2>3, <3>1, <3>2, <3>3, JournalAssumption
  <2>4. QED BY <1>4, <2>2, <2>3 DEF ApplyMoves
<1>5. ASSUME RecordsStay, NEW t \in took
      PROVE  effect'[t[2]] # None /\ effect'[t[2]].plan = t[1]
  <2>1. t[2] \in Msgs /\ effect[t[2]] # None /\ effect[t[2]].plan = t[1]
    BY <1>0 DEF TLocal, IApplied
  <2>2. QED BY <1>5, <2>1 DEF RecordsStay
<1>6. ASSUME RecordsStay, NEW p \in Procs, ApplyMoves(p), NEW t \in took'
      PROVE  effect'[t[2]] # None /\ effect'[t[2]].plan = t[1]
  <2>1. CASE t \in took
    BY <1>5, <1>6, <2>1
  <2>2. CASE t \notin took
    <3>1. PICK m \in effect[run[p].cur].members : t = <<run[p].cur, m>>
      BY <1>6, <2>2 DEF ApplyMoves
    <3>2. run[p].pc = "apply" /\ effect' = effect
      BY <1>6, <2>2 DEF ApplyMoves
    <3>3. effect[m] # None /\ effect[m].plan = run[p].cur
      BY <1>0, <3>2 DEF IApplied
    <3>4. QED BY <3>1, <3>2, <3>3
  <2>3. QED BY <2>1, <2>2
<1>7. ASSUME NEW p \in Procs, Round(p) \/ crash(p)
      PROVE  IJournal' /\ IApplied'
  <2>1. RecordsStay /\ RecordsLead /\ HandMoves(p) /\ ApplyMoves(p)
    BY <1>7, JournalMoves
  <2>2. \A q \in Procs : q # p => HandMoves(q) /\ (run'[q].pc = "apply" => run[q].pc = "apply"
                                                     /\ run'[q].cur = run[q].cur)
    BY <1>0, <1>7, OthersStay DEF HandMoves
  <2>3. \A q \in Procs : run'[q].pc \in OnPlan =>
          /\ run'[q].cur \in Msgs /\ effect'[run'[q].cur] # None
          /\ effect'[run'[q].cur].plan = run'[q].cur
    BY <1>2, <2>1, <2>2
  <2>4. \A q \in Procs : run'[q].pc = "apply" =>
          \A m \in effect'[run'[q].cur].members :
            effect'[m] # None /\ effect'[m].plan = run'[q].cur
    BY <1>3, <1>4, <2>1, <2>2, <2>3 DEF OnPlan
  <2>5. QED BY <1>1, <1>6, <2>1, <2>3, <2>4 DEF IJournal, IApplied
<1>8. CASE \/ \E q \in Policies : publish_new_policy(q) \/ deprecate_policy(q)
           \/ claim_update_suggestion \/ time_passes \/ UNCHANGED vars
  <2>1. UNCHANGED <<run, effect, took>>
    BY <1>8, RoundsStay DEF local
  <2>2. RecordsStay /\ RecordsLead
    BY <1>0, <2>1, JournalStays
  <2>3. IJournal'
    BY <1>0, <1>1, <2>1, <2>2 DEF IJournal
  <2>4. IApplied'
    BY <1>0, <2>1 DEF IApplied
  <2>5. QED BY <2>3, <2>4
<1>9. QED BY <1>7, <1>8 DEF Next

----------------------------------------------------------------------------
\* The theorems

LEMMA InvInit == Init => IInv
<1> SUFFICES ASSUME Init
             PROVE  IInv
  OBVIOUS
<1> USE InboxAssumption DEF Init
<1>a. \A p \in Procs : run[p] = Idle
  OBVIOUS
<1>b. Idle \in RunRecords
  BY DEF Idle, RunRecords, Pcs
<1>1. ITypeOK
  <2>1. TOutbox /\ TFiles /\ TLocal /\ TClaims /\ faults \in 0..MaxFaults
    BY DEF TOutbox, TFiles, TLocal, TClaims, Kinds, Ages
  <2>2. TRun
    BY <1>b DEF TRun
  <2>3. TLock
    BY <1>a DEF TLock, Idle, Locked
  <2>4. QED BY <2>1, <2>2, <2>3, TypeParts
<1>2. IHand
  BY <1>a DEF IHand, Kept, HasCopy, Idle
<1>3. IBatch /\ ISettled
  BY <1>a DEF IBatch, ISettled, Idle, OnPlan
<1>4. IJournal /\ IApplied
  BY <1>a DEF IJournal, IApplied, Idle, OnPlan
<1>5. QED BY <1>1, <1>2, <1>3, <1>4 DEF IInv

LEMMA InvNext == IInv /\ [Next]_vars => IInv'
  BY TypesNext, HandNext, BatchNext, SettledNext, JournalNext DEF IInv

LEMMA Invariance == Spec => []IInv
  BY InvInit, InvNext, PTL DEF Spec

\* The shape of every variable, and knowledge_apply.lock exactly around the changes of
\* claims and journal, for any number of processes, messages and faults.
THEOREM InboxTypes == Spec => []ITypeOK
<1>1. IInv => ITypeOK
  BY DEF IInv
<1>2. QED BY <1>1, Invariance, PTL

\* internalize_claim_attribute_update_messages: however the batches are cut, whichever
\* process finds them, and wherever it stops, an update is applied by one plan at most.
THEOREM EffectsAreOnce == Spec => []EffectsOnce
<1>1. IInv => EffectsOnce
  <2>1. SUFFICES ASSUME IInv, NEW m \in Msgs
                 PROVE  Cardinality({t \in took : t[2] = m}) <= 1
    BY DEF EffectsOnce
  <2> DEFINE A == {t \in took : t[2] = m}
  <2>2. took \subseteq Msgs \X Msgs /\ \A t \in A : effect[m].plan = t[1]
    BY <2>1, TypeParts DEF IInv, TLocal, IApplied
  <2>3. A \subseteq {<<effect[m].plan, m>>}
    BY <2>2
  <2>4. A = {} \/ \E x : A = {x}
    BY <2>3
  <2> HIDE DEF A
  <2>5. Cardinality(A) <= 1
    <3>1. CASE A = {}
      BY <3>1, FS_EmptySet
    <3>2. ASSUME NEW x, A = {x}
          PROVE  Cardinality(A) <= 1
      <4>1. Cardinality({x}) = 1
        BY FS_Singleton
      <4>2. QED BY <3>2, <4>1
    <3>3. QED BY <2>4, <3>1, <3>2
  <2>6. QED BY <2>5 DEF A
<1>2. QED BY <1>1, Invariance, PTL

\* The steps of the delivery that the promise does not see.
LEMMA Unseen ==
  ASSUME UNCHANGED <<kind, delivered, settled, done>>, Kept' = Kept
  PROVE  UNCHANGED Promise!vars
  BY DEF Promise!vars, Created, Kept

\* Every step of the delivery is a step of the promise, or one it does not see.
LEMMA StepRefines ==
  ASSUME IInv, [Next]_vars
  PROVE  [Promise!Next]_(Promise!vars)
<1>0. ITypeOK /\ TRun /\ IHand /\ ISettled /\ IJournal
  BY TypeParts DEF IInv
<1>a. \A p \in Procs : run[p] \in RunRecords
  BY <1>0 DEF TRun
<1>b. ASSUME \A p \in Procs : ~write_pulled(p)
      PROVE  Kept' = Kept
  BY <1>0, <1>b, KeptStays
<1>1. CASE \/ \E q \in Policies : publish_new_policy(q) \/ deprecate_policy(q)
           \/ claim_update_suggestion
  <2>1. UNCHANGED <<files, local, delivered, run>>
    BY <1>1 DEF publish_new_policy, deprecate_policy, claim_update_suggestion
  <2>2. UNCHANGED <<delivered, settled, done>> /\ Kept' = Kept
    BY <2>1 DEF files, local, Kept, HasCopy
  <2>3. CASE UNCHANGED kind
    BY <2>2, <2>3, Unseen
  <2>4. ASSUME NEW m \in Msgs \ Created, Created' = Created \cup {m}
        PROVE  Promise!Next
    <3>1. Promise!Send(m)
      BY <2>2, <2>4 DEF Promise!Send, Kept
    <3>2. QED BY <3>1 DEF Promise!Next
  <2>5. QED BY <1>0, <2>3, <2>4, SentStays
<1>2. ASSUME NEW p \in Procs, write_pulled(p)
      PROVE  [Promise!Next]_(Promise!vars)
  <2>1. UNCHANGED <<kind, delivered, settled, done>>
    BY <1>2 DEF write_pulled, outbox, local
  <2>2. CASE Kept' = Kept
    BY <2>1, <2>2, Unseen
  <2>3. ASSUME NEW m \in Created \ Kept, Kept' = Kept \cup {m}
        PROVE  Promise!Next
    <3>1. Promise!Keep(m)
      BY <2>1, <2>3 DEF Promise!Keep, Kept, Created
    <3>2. m \in Msgs
      BY DEF Created
    <3>3. QED BY <3>1, <3>2 DEF Promise!Next
  <2>4. QED BY <1>0, <1>2, <2>2, <2>3, KeptWritten
<1>3. ASSUME NEW p \in Procs, ack_inbox(p)
      PROVE  Promise!Next
  <2>1. UNCHANGED <<kind, settled, files>>
    BY <1>3 DEF ack_inbox, local
  <2>2. UNCHANGED <<kind, settled, done>> /\ Kept' = Kept
    BY <2>1 DEF files, Kept, HasCopy
  <2>3. PICK S \in SUBSET run[p].got : delivered' = delivered \cup S
    BY <1>3, PrefixType DEF ack_inbox, Acknowledged
  <2>4. S \subseteq Kept /\ S \in SUBSET Msgs
    BY <1>0, <1>a DEF IHand, RunRecords
  <2>5. Promise!Confirm(S)
    BY <2>2, <2>3, <2>4 DEF Promise!Confirm, Kept, Created
  <2>6. QED BY <2>4, <2>5 DEF Promise!Next
<1>4. ASSUME NEW S \in SUBSET Kept, settled' = settled \cup S,
             UNCHANGED <<kind, delivered, files>>
      PROVE  Promise!Next
  <2>1. UNCHANGED <<kind, delivered, done>> /\ Kept' = Kept
    BY <1>4 DEF files, Kept, HasCopy
  <2>2. S \in SUBSET Msgs
    BY DEF Kept
  <2>3. Promise!Settle(S)
    BY <1>4, <2>1 DEF Promise!Settle, Kept, Created
  <2>4. QED BY <2>2, <2>3 DEF Promise!Next
<1>5. ASSUME NEW p \in Procs, stage_maintainer_batch(p)
      PROVE  [Promise!Next]_(Promise!vars)
  <2>1. UNCHANGED <<kind, delivered, files>>
    BY <1>5 DEF stage_maintainer_batch, outbox
  <2>2. run[p].batch \in SUBSET Kept
    BY <1>0 DEF IHand
  <2>3. CASE settled' = settled \cup run[p].batch
    BY <1>4, <2>1, <2>2, <2>3
  <2>4. CASE UNCHANGED settled
    <3>1. UNCHANGED <<kind, delivered, settled, done>> /\ Kept' = Kept
      BY <2>1, <2>4 DEF files, Kept, HasCopy
    <3>2. QED BY <3>1, Unseen
  <2>5. QED BY <1>5, <2>3, <2>4 DEF stage_maintainer_batch
<1>6. ASSUME NEW p \in Procs, mark_effect_applied(p)
      PROVE  [Promise!Next]_(Promise!vars)
  <2>1. UNCHANGED <<kind, delivered, files>>
    BY <1>6 DEF mark_effect_applied, outbox
  <2>2. settled' = settled \cup effect[run[p].cur].members
    BY <1>6 DEF mark_effect_applied
  <2>3. effect[run[p].cur].members \in SUBSET Kept
    BY <1>0, <1>6, PlanInHand DEF mark_effect_applied, OnPlan
  <2>4. QED BY <1>4, <2>1, <2>2, <2>3
<1>7. ASSUME NEW p \in Procs, ack_claimed(p), Kept' = Kept
      PROVE  [Promise!Next]_(Promise!vars)
  <2>1. UNCHANGED <<kind, delivered, settled>>
    BY <1>7 DEF ack_claimed, outbox, local
  <2>3. CASE UNCHANGED done
    BY <1>7, <2>1, <2>3, Unseen
  <2>4. ASSUME NEW m \in Least(run[p].batch), done' = done \cup {m}
        PROVE  Promise!Next
    <3>1. m \in Kept /\ m \in settled /\ m \in Msgs
      BY <1>0, <1>7, <1>a, LeastType DEF IHand, ISettled, ack_claimed, RunRecords
    <3>2. Promise!Finish(m)
      BY <1>7, <2>1, <2>4, <3>1 DEF Promise!Finish, Kept, Created
    <3>3. QED BY <3>1, <3>2 DEF Promise!Next
  <2>5. QED BY <1>7, <2>3, <2>4 DEF ack_claimed
<1>8. ASSUME NEW p \in Procs, Round(p) \/ crash(p), ~write_pulled(p), ~ack_inbox(p),
             ~stage_maintainer_batch(p), ~mark_effect_applied(p), ~ack_claimed(p)
      PROVE  UNCHANGED <<kind, delivered, settled, done>>
  <2>1. CASE \/ pull_inbox(p) \/ accept_pulled(p) \/ claim_pending(p) \/ claim_message(p)
             \/ start_work(p) \/ push_internalize_message(p) \/ flush_internalize_updates(p)
             \/ finish_round(p) \/ internalize_inbox_updates(p)
    BY <2>1 DEF files, local, outbox, pull_inbox, accept_pulled, claim_pending, claim_message,
       start_work, push_internalize_message, flush_internalize_updates, finish_round,
       internalize_inbox_updates
  <2>2. CASE \/ apply_policy_deprecation(p) \/ load_effect_batch(p) \/ prepare_effect(p)
             \/ repair_effect_refs(p) \/ apply_effect(p) \/ remove_processing(p)
             \/ next_batch(p) \/ release_claimed(p) \/ crash(p)
    BY <2>2 DEF files, local, outbox, apply_policy_deprecation, load_effect_batch,
       prepare_effect, repair_effect_refs, apply_effect, remove_processing, next_batch,
       release_claimed, crash
  <2>3. QED BY <1>8, <2>1, <2>2 DEF Round
<1>9. CASE time_passes \/ UNCHANGED vars
  <2>1. UNCHANGED <<kind, delivered, settled, done>>
    BY <1>9 DEF time_passes, vars, outbox, local
  <2>2. ASSUME NEW p \in Procs, write_pulled(p)
        PROVE  [Promise!Next]_(Promise!vars)
    BY <1>2, <2>2
  <2>3. QED BY <1>b, <2>1, <2>2, Unseen
<1>10. ASSUME NEW p \in Procs, Round(p) \/ crash(p)
       PROVE  [Promise!Next]_(Promise!vars)
  <2>1. CASE \E q \in Procs : write_pulled(q)
    BY <1>2, <2>1
  <2>2. CASE \A q \in Procs : ~write_pulled(q)
    <3>1. Kept' = Kept
      BY <1>b, <2>2
    <3>2. CASE ack_inbox(p) \/ stage_maintainer_batch(p) \/ mark_effect_applied(p) \/ ack_claimed(p)
      BY <1>3, <1>5, <1>6, <1>7, <3>1, <3>2
    <3>3. CASE ~(ack_inbox(p) \/ stage_maintainer_batch(p) \/ mark_effect_applied(p) \/ ack_claimed(p))
      BY <1>8, <1>10, <2>2, <3>1, <3>3, Unseen
    <3>4. QED BY <3>2, <3>3
  <2>3. QED BY <2>1, <2>2
<1>11. QED BY <1>1, <1>9, <1>10 DEF Next

\* The delivery keeps what InboxAbstract promises, whatever the processes, the network
\* and the crashes do: a message that is on the disk never disappears, is acknowledged
\* only then, and is done only when its outcome is settled.
THEOREM DeliveryKeepsPromise == Spec => NothingIsLost
<1>1. Init => Promise!Init
  BY DEF Init, Promise!Init, Created, HasCopy
<1>2. IInv /\ [Next]_vars => [Promise!Next]_(Promise!vars)
  BY StepRefines
<1>3. QED BY <1>1, <1>2, Invariance, PTL DEF Spec, NothingIsLost, Promise!Spec
=============================================================================
