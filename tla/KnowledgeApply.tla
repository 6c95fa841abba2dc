--------------------------- MODULE KnowledgeApply ---------------------------
(***************************************************************************)
(* The writers of an agent's local claims: a user's edit, the application  *)
(* of a Recap or Finalize checkpoint, a Dream consolidation and the        *)
(* withdrawal of a policy. Each works under the knowledge lock, writes the *)
(* claim files one by one, and then stages what it wrote for the team in   *)
(* the upload queue; a record on disk lets it finish after a crash.        *)
(*                                                                         *)
(* On disk: local (claims/), pend (maintainer_uploads/pending.yaml), edit  *)
(* (claim_edit_pending.yaml), recap (the Prepared finalize checkpoint),    *)
(* dream (the checkpoint of a Dream execution), dream_pending              *)
(* (dream_pending.yaml), policy (its inbox message), ledger (the reported  *)
(* claim sets). In memory: wr, the writer that holds the knowledge lock.   *)
(***************************************************************************)
EXTENDS UploadQueue

CONSTANTS
  Initial,      \* the claims that exist, and are mirrored, at the start
  Sourced,      \* the claims that have the withdrawn policy as a source
  Ops,          \* the writers of this instance: edit, recap, dream, rebind, policy
  MaxFaults     \* bound: crashes and I/O errors

ASSUME KnowledgeAssumption ==
  /\ Initial \subseteq Claims /\ Sourced \subseteq Claims
  /\ Ops \subseteq {"edit", "recap", "dream", "rebind", "policy"}
  /\ MaxVersion \in Nat \ {0} /\ MaxFaults \in Nat

VARIABLES local, pend, edit, recap, dream, dream_pending, policy, ledger, wr, faults

kvars == <<local, pend, edit, recap, dream, dream_pending, policy, ledger, wr, faults>>

-----------------------------------------------------------------------------
PendingClaimEdit == [old: Claim, target: Claim]
Plan == [st: {"none", "prepared", "applied"}, analysis: [Claims -> Claim],
         targets: SUBSET Claim, applied: SUBSET Claim, disputes: SUBSET Disputes]
\* A Dream checkpoint with its one group: the claims before and after it, and
\* which of them carry the knowledge of the retired ones.
DreamPlan == [st: {"none", "prepared", "applied"}, before: SUBSET Claim,
              after: SUBSET Claim]
Writer == [op: {"none", "edit", "recap", "dream", "policy"},
           pc: {"idle", "recover", "recovered", "plan", "discard", "write",
                "progress", "stage", "record", "clear", "done"},
           ids: SUBSET Claims, todo: SUBSET Claim, done: SUBSET Claim]

NoPlan  == [st |-> "none", analysis |-> [c \in Claims |-> NoClaim(c)],
            targets |-> {}, applied |-> {}, disputes |-> {}]
NoDream == [st |-> "none", before |-> {}, after |-> {}]
Idle    == [op |-> "none", pc |-> "idle", ids |-> {}, todo |-> {}, done |-> {}]

KTypeOK ==
  /\ local \in [Claims -> Claim] /\ \A c \in Claims : local[c].id = c
  /\ pend \in PendingMaintainerUploads /\ WellFormed(pend)
  /\ edit \subseteq PendingClaimEdit /\ Cardinality(edit) <= 1
  /\ recap \in Plan /\ dream \in DreamPlan /\ dream_pending \in BOOLEAN
  /\ policy \in {"pending", "staged", "done"} /\ ledger \subseteq Disputes
  /\ wr \in Writer /\ faults \in 0..MaxFaults

Current == {local[c] : c \in Claims}
Exists(c) == local[c].v > 0
\* The next version of a claim, strictly later than the one it replaces.
next_claim_update_at(c, dep, by) ==
  [id |-> c, v |-> local[c].v + 1, dep |-> dep, by |-> by]
CanRevise(c) == local[c].v < MaxVersion

At(op, pc) == wr.op = op /\ wr.pc = pc
Goto(pc) == wr' = [wr EXCEPT !.pc = pc]
write_claim(c) == local' = [local EXCEPT ![c.id] = c]
Fault == faults < MaxFaults /\ faults' = faults + 1

\* The writer takes the knowledge lock; all but a Dream refuse to work beside
\* a Dream commit that is not finished.
Lock(op, pc, ids) ==
  /\ wr.op = "none"
  /\ wr' = [Idle EXCEPT !.op = op, !.pc = pc, !.ids = ids]
  /\ UNCHANGED <<local, pend, edit, recap, dream, dream_pending, policy, ledger, faults>>
ensure_knowledge_ready == ~dream_pending

-----------------------------------------------------------------------------
(* A user's edit *)

lock_edit(c) ==
  "edit" \in Ops /\ ensure_knowledge_ready /\ Exists(c) /\ CanRevise(c) /\ Lock("edit", "recover", {c})

\* Mutant: the journalled version is staged, though another may have followed it.
RecoverStagesTarget ==
  /\ wr.pc = "recover"
  /\ \/ edit = {} /\ Goto("plan") /\ UNCHANGED <<pend, edit, faults>>
     \/ \E e \in edit : /\ local[e.target.id] = e.old
                        /\ edit' = {} /\ Goto("plan") /\ UNCHANGED <<pend, faults>>
     \/ \E e \in edit :
          /\ local[e.target.id] # e.old
          /\ pend' = stage_maintainer_batch_with_durable_claims(pend, {e.target}, {})
          /\ Goto("recovered") /\ UNCHANGED <<edit, faults>>
     \/ wr.op = "recap" /\ edit # {} /\ Goto("plan") /\ Fault /\ UNCHANGED <<pend, edit>>
  /\ UNCHANGED <<local, recap, dream, dream_pending, policy, ledger>>

\* What an interrupted edit left: nothing written, or a version to stage.
recover_pending_claim_edit_locked ==
  /\ wr.pc = "recover"
  /\ \/ edit = {} /\ Goto("plan") /\ UNCHANGED <<pend, edit, faults>>
     \/ \E e \in edit : /\ local[e.target.id] = e.old
                        /\ edit' = {} /\ Goto("plan") /\ UNCHANGED <<pend, faults>>
     \/ \E e \in edit :
          /\ local[e.target.id] # e.old
          /\ pend' = stage_maintainer_batch_with_durable_claims(pend, {local[e.target.id]}, {})
          /\ Goto("recovered") /\ UNCHANGED <<edit, faults>>
     \/ \* for a Recap a failed recovery is a warning only
        wr.op = "recap" /\ edit # {} /\ Goto("plan") /\ Fault /\ UNCHANGED <<pend, edit>>
  /\ UNCHANGED <<local, recap, dream, dream_pending, policy, ledger>>

clear_recovered_edit ==
  /\ wr.pc = "recovered" /\ Goto("plan")
  /\ \/ edit' = {} /\ UNCHANGED faults
     \/ wr.op = "recap" /\ Fault /\ UNCHANGED edit
  /\ UNCHANGED <<local, pend, recap, dream, dream_pending, policy, ledger>>

\* The user has read another version, or only wanted to read; the model's recap
\* fails or is preempted before its result is on disk.
give_up ==
  /\ At("edit", "plan") \/ (At("recap", "plan") /\ recap.st # "prepared")
  /\ wr' = Idle
  /\ UNCHANGED <<local, pend, edit, recap, dream, dream_pending, policy, ledger, faults>>

\* The version the user has read is the current one.
journal_edit ==
  /\ At("edit", "plan")
  /\ \E c \in wr.ids, dep \in BOOLEAN :
       edit' = {[old |-> local[c], target |-> next_claim_update_at(c, dep, "user")]}
  /\ Goto("write")
  /\ UNCHANGED <<local, pend, recap, dream, dream_pending, policy, ledger, faults>>

write_edit ==
  /\ At("edit", "write")
  /\ \E e \in edit : write_claim(e.target)
  /\ Goto("stage")
  /\ UNCHANGED <<pend, edit, recap, dream, dream_pending, policy, ledger, faults>>

stage_edit ==
  /\ At("edit", "stage")
  /\ pend' = stage_maintainer_batch_with_durable_claims(pend, {local[c] : c \in wr.ids}, {})
  /\ Goto("clear")
  /\ UNCHANGED <<local, edit, recap, dream, dream_pending, policy, ledger, faults>>

clear_pending_claim_edit ==
  /\ At("edit", "clear") /\ edit' = {} /\ wr' = Idle
  /\ UNCHANGED <<local, pend, recap, dream, dream_pending, policy, ledger, faults>>

-----------------------------------------------------------------------------
(* The checkpoint of a Recap or Finalize *)

lock_recap ==
  "recap" \in Ops /\ ensure_knowledge_ready /\ Lock("recap", "recover", {})

\* The model's result: new versions of some claims and some disputes, with the
\* claims it was analysed on. A checkpoint left Prepared is resumed instead.
prepare_recap ==
  /\ At("recap", "plan")
  /\ \/ recap.st = "prepared" /\ UNCHANGED recap
     \/ /\ recap.st # "prepared"
        /\ \E T \in SUBSET {c \in Claims : CanRevise(c)}, D \in SUBSET Disputes :
           \E dep \in [T -> BOOLEAN] :
             /\ \A c \in T : dep[c] => Exists(c)
             /\ recap' = [st |-> "prepared", analysis |-> local, applied |-> {}, disputes |-> D,
                          targets |-> {next_claim_update_at(c, dep[c], "recap") : c \in T}]
  /\ Goto("discard")
  /\ UNCHANGED <<local, pend, edit, dream, dream_pending, policy, ledger, faults>>

\* A target found as it was planned was written before the interruption.
observe_applied ==
  recap.applied \cup {t \in recap.targets : t.id \notin Ids(recap.applied) /\ t \in Current}

\* Has any analysed claim changed but by this plan?
analysis_is_stale ==
  \E c \in Claims :
    /\ recap.analysis[c].v > 0 \/ c \in Ids(recap.targets)
    /\ local[c] # IF c \in Ids(observe_applied \cap recap.targets)
                  THEN Entry(observe_applied, c) ELSE recap.analysis[c]

\* Mutant: the rest of a plan is carried out on whatever is there.
DiscardNothing ==
  /\ At("recap", "discard")
  /\ wr' = [wr EXCEPT !.pc = "write", !.done = observe_applied,
                      !.todo = {t \in recap.targets : t.id \notin Ids(observe_applied)}]
  /\ UNCHANGED <<local, pend, edit, recap, dream, dream_pending, policy, ledger, faults>>

\* A stale plan is given up as a whole: what it has written stays.
discard_stale_finalize_checkpoint ==
  /\ At("recap", "discard")
  /\ IF analysis_is_stale
     THEN /\ recap' = [recap EXCEPT !.targets = {}, !.disputes = {}, !.analysis = local,
                                    !.applied = observe_applied]
          /\ wr' = [wr EXCEPT !.pc = "write", !.done = observe_applied]
     ELSE /\ wr' = [wr EXCEPT !.pc = "write", !.done = observe_applied,
                      !.todo = {t \in recap.targets : t.id \notin Ids(observe_applied)}]
          /\ UNCHANGED recap
  /\ UNCHANGED <<local, pend, edit, dream, dream_pending, policy, ledger, faults>>

\* Mutant: in any order.
AnyTarget(t) == t \in wr.todo
\* The deprecated ones come last.
NextTarget(t) == t \in wr.todo /\ (t.dep => \A u \in wr.todo : u.dep)

apply_prepared_claim ==
  /\ At("recap", "write")
  /\ \E t \in wr.todo :
       /\ NextTarget(t) /\ write_claim(t)
       /\ wr' = [wr EXCEPT !.pc = "progress", !.todo = @ \ {t}, !.done = @ \cup {t}]
  /\ UNCHANGED <<pend, edit, recap, dream, dream_pending, policy, ledger, faults>>

save_progress ==
  /\ At("recap", "progress")
  /\ recap' = [recap EXCEPT !.applied = wr.done] /\ Goto("write")
  /\ UNCHANGED <<local, pend, edit, dream, dream_pending, policy, ledger, faults>>

stage_recap ==
  /\ At("recap", "write") /\ wr.todo = {}
  /\ pend' = stage_maintainer_batch(pend, wr.done \cap Current, recap.disputes \ ledger)
  /\ Goto("record")
  /\ UNCHANGED <<local, edit, recap, dream, dream_pending, policy, ledger, faults>>

record_dispute_if_new ==
  /\ At("recap", "record") /\ ledger' = ledger \cup recap.disputes /\ Goto("done")
  /\ UNCHANGED <<local, pend, edit, recap, dream, dream_pending, policy, faults>>

\* What an Applied checkpoint holds is not read again.
commit_applied ==
  /\ At("recap", "done")
  /\ recap' = [NoPlan EXCEPT !.st = "applied"] /\ wr' = Idle
  /\ UNCHANGED <<local, pend, edit, dream, dream_pending, policy, ledger, faults>>

-----------------------------------------------------------------------------
(* A Dream consolidation: the knowledge of a source moves to its carriers *)

\* Dream reads under the lock; its review and the checkpoint follow without it.
prepare_dream(s, C, rewrite) ==
  /\ "dream" \in Ops /\ dream.st # "prepared" /\ ~dream_pending /\ wr.op = "none"
  /\ s \notin C /\ C # {}
  /\ \A c \in {s} \cup C : Exists(c) /\ ~local[c].dep
  /\ CanRevise(s) /\ (rewrite => \A c \in C : CanRevise(c))
  /\ dream' = [st |-> "prepared", before |-> {local[c] : c \in {s} \cup C},
               after |-> {next_claim_update_at(s, TRUE, "dream")}
                 \cup {IF rewrite THEN next_claim_update_at(c, FALSE, "dream") ELSE local[c] : c \in C}]
  /\ UNCHANGED <<local, pend, edit, recap, dream_pending, policy, ledger, wr, faults>>

lock_dream ==
  (dream.st = "prepared" \/ dream_pending) /\ Lock("dream", "plan", {})

\* From here on nobody else works on the claims until the commit is finished.
begin_dream ==
  /\ At("dream", "plan")
  /\ dream_pending' = TRUE
  /\ Goto(IF dream.st = "applied" THEN "clear" ELSE "discard")
  /\ UNCHANGED <<local, pend, edit, recap, dream, policy, ledger, faults>>

\* A third version of a claim of the group is never overwritten.
DreamConflict ==
  \E b \in dream.before : local[b.id] # b /\ local[b.id] # Entry(dream.after, b.id)

\* The group is skipped on a conflict, and also when its evidence has changed or its
\* sources would form a cycle; what it has written before is staged all the same.
check_dream ==
  /\ At("dream", "discard")
  /\ \/ wr' = [wr EXCEPT !.pc = "stage", !.done = dream.after \cap Current]
     \/ /\ ~DreamConflict
        /\ wr' = [wr EXCEPT !.pc = "write", !.done = dream.after,
                            !.todo = dream.after \ Current]
  /\ UNCHANGED <<local, pend, edit, recap, dream, dream_pending, policy, ledger, faults>>

apply_dream_claim ==
  /\ At("dream", "write")
  /\ \/ \E t \in wr.todo : /\ NextTarget(t) /\ write_claim(t)
                           /\ wr' = [wr EXCEPT !.todo = @ \ {t}]
     \/ wr.todo = {} /\ Goto("stage") /\ UNCHANGED local
  /\ UNCHANGED <<pend, edit, recap, dream, dream_pending, policy, ledger, faults>>

stage_dream ==
  LET carriers == {c \in dream.after : ~c.dep}
      groups == {[before |-> Entry(dream.before, r.id), retired |-> r, carriers |-> carriers] :
                   r \in {c \in wr.done : c.dep}}
  IN
  /\ At("dream", "stage")
  /\ pend' = stage_consolidation_batch(pend, wr.done, groups)
  /\ Goto("done")
  /\ UNCHANGED <<local, edit, recap, dream, dream_pending, policy, ledger, faults>>

finish_dream ==
  /\ At("dream", "done") /\ dream' = [NoDream EXCEPT !.st = "applied"] /\ Goto("clear")
  /\ UNCHANGED <<local, pend, edit, recap, dream_pending, policy, ledger, faults>>

clear_dream_pending ==
  /\ At("dream", "clear") /\ dream_pending' = FALSE /\ wr' = Idle
  /\ UNCHANGED <<local, pend, edit, recap, dream, policy, ledger, faults>>

\* Dream reviews a retirement that waits for carriers that have changed, and
\* binds it to claims that survive now.
review_sync(g, C) ==
  /\ "rebind" \in Ops /\ wr.op = "none" /\ ensure_knowledge_ready
  /\ g \in pend.groups /\ local[g.retired.id] = g.retired
  /\ C # {} /\ \A c \in C : Exists(c) /\ ~local[c].dep
  /\ g.retired \in pend.claims
  /\ pend' = rebind_consolidation(pend, g, {local[c] : c \in C})
  /\ UNCHANGED <<local, edit, recap, dream, dream_pending, policy, ledger, wr, faults>>

-----------------------------------------------------------------------------
(* The withdrawal of a policy *)

lock_policy ==
  /\ "policy" \in Ops /\ policy = "pending" /\ ensure_knowledge_ready
  /\ \A c \in Sourced : Exists(c) /\ ~local[c].dep => CanRevise(c)
  /\ Lock("policy", "write", {})

apply_policy_deprecation ==
  LET left == {c \in Sourced : Exists(c) /\ ~local[c].dep} IN
  /\ At("policy", "write")
  /\ \/ \E c \in left : write_claim(next_claim_update_at(c, TRUE, "policy")) /\ UNCHANGED wr
     \/ left = {} /\ Goto("stage") /\ UNCHANGED local
  /\ UNCHANGED <<pend, edit, recap, dream, dream_pending, policy, ledger, faults>>

stage_withdrawn ==
  /\ At("policy", "stage")
  /\ pend' = stage_policy_deprecation(pend, {local[c] : c \in {d \in Sourced : Exists(d)}}, Sourced)
  /\ policy' = "staged" /\ wr' = Idle
  /\ UNCHANGED <<local, edit, recap, dream, dream_pending, ledger, faults>>

\* The inbox message is acknowledged once everything is staged, after the lock
\* is released; unless it is, it is handled again.
ack_policy ==
  /\ policy = "staged"
  /\ \/ policy' = "done" /\ UNCHANGED faults
     \/ policy' = "pending" /\ Fault
  /\ UNCHANGED <<local, pend, edit, recap, dream, dream_pending, ledger, wr>>

-----------------------------------------------------------------------------
\* The process dies or a write fails: the lock is released, the files stay.
writer_crash ==
  /\ wr.op # "none" /\ wr' = Idle /\ Fault
  /\ UNCHANGED <<local, pend, edit, recap, dream, dream_pending, policy, ledger>>

KInit ==
  /\ local = [c \in Claims |-> IF c \in Initial
                THEN [id |-> c, v |-> 1, dep |-> FALSE, by |-> "user"] ELSE NoClaim(c)]
  /\ pend = EmptyQueue /\ edit = {} /\ recap = NoPlan /\ dream = NoDream
  /\ dream_pending = FALSE /\ policy = "pending" /\ ledger = {} /\ wr = Idle /\ faults = 0

EditStep ==
  \/ \E c \in Claims : lock_edit(c)
  \/ recover_pending_claim_edit_locked \/ clear_recovered_edit
  \/ give_up \/ journal_edit \/ write_edit \/ stage_edit \/ clear_pending_claim_edit
RecapStep ==
  \/ lock_recap \/ prepare_recap \/ discard_stale_finalize_checkpoint
  \/ apply_prepared_claim \/ save_progress \/ stage_recap \/ record_dispute_if_new
  \/ commit_applied
DreamStep ==
  \/ \E s \in Claims, C \in SUBSET Claims, rewrite \in BOOLEAN : prepare_dream(s, C, rewrite)
  \/ lock_dream \/ begin_dream \/ check_dream \/ apply_dream_claim \/ stage_dream
  \/ finish_dream \/ clear_dream_pending
  \/ \E g \in pend.groups, C \in SUBSET Claims : review_sync(g, C)
PolicyStep == lock_policy \/ apply_policy_deprecation \/ stage_withdrawn \/ ack_policy

\* The claim versions on disk that a record on disk will have staged.
Journalled(c) ==
  \/ \E e \in edit : local[c] = e.target
  \/ recap.st = "prepared" /\ local[c] \in recap.targets \cup recap.applied
  \/ dream.st = "prepared" /\ local[c] \in dream.after
  \/ policy = "pending" /\ local[c].by = "policy"

KNext == EditStep \/ RecapStep \/ DreamStep \/ PolicyStep \/ writer_crash

KSpec == KInit /\ [][KNext]_kvars

-----------------------------------------------------------------------------
(* Properties *)

\* No version is overwritten unread: the Recap or Dream that replaces a claim (also one
\* that goes on after a crash) replaces exactly the version it was analysed on. Checked
\* by discard_stale_finalize_checkpoint and by the conflict check of a Dream group.
EditsKept ==
  [][\A c \in Claims : local'[c] # local[c] =>
       /\ local'[c].v > local[c].v
       /\ local'[c].by = "recap" => local[c] = recap.analysis[c]
       /\ local'[c].by = "dream" => local[c] \in dream.before]_kvars

\* A plan deprecates a source only when every claim it keeps or adds is as planned: the
\* knowledge is never in neither (the sort in apply_prepared_finalize_batch_local and in
\* apply_dream_checkpoint_locally), also when a plan goes on after crashes and edits.
SuccessorsFirst ==
  [][\A t \in wr.todo :
       t.dep /\ local'[t.id] = t /\ local[t.id] # t =>
         \A u \in IF wr.op = "recap" THEN recap.targets ELSE dream.after :
           u.dep \/ local[u.id] = u]_kvars

=============================================================================
