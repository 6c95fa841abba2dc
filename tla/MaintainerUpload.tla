-------------------------- MODULE MaintainerUpload --------------------------
(***************************************************************************)
(* Delivery of the upload queue to the maintainer's mirror, beside the     *)
(* writers that keep staging new versions. A delivery is single-flight     *)
(* (delivery_lock), works on a snapshot of the queue, sends what is ready  *)
(* in rounds with several requests at a time, and reconciles the file with *)
(* what failed when it is done.                                            *)
(*                                                                         *)
(* A request may be executed, or not, or executed and its answer lost. A   *)
(* request the client has given up on is assumed not to be executed after  *)
(* a later one.                                                            *)
(***************************************************************************)
EXTENDS KnowledgeApply

CONSTANT
  AuthErrors      \* may the maintainer refuse a request (401, 403)?

ASSUME UploadAssumption == AuthErrors \in BOOLEAN

VARIABLES
  mirror,   \* the maintainer's copy of each claim
  answered, \* the disputes the maintainer has accepted, or refused for good
  dl        \* the delivery

dvars == <<mirror, answered, dl>>
vars  == <<kvars, dvars>>
\* A step of the delivery that does not write the queue.
KUnchanged == UNCHANGED kvars

-----------------------------------------------------------------------------
\* q: the queue as it is attempted; rest: claims not yet sent; out: claims in
\* flight; fail: what has to be kept.
Delivery == [pc: {"idle", "refresh", "round", "send", "disputes", "reconcile"},
             q: PendingMaintainerUploads, rest: SUBSET Claim, out: SUBSET Claim,
             fail: PendingMaintainerUploads, reports: SUBSET Disputes]
NoDelivery == [pc |-> "idle", q |-> EmptyQueue, rest |-> {}, out |-> {},
               fail |-> EmptyQueue, reports |-> {}]

UTypeOK ==
  /\ KTypeOK
  /\ mirror \in [Claims -> Claim] /\ \A c \in Claims : mirror[c].id = c
  /\ answered \subseteq Disputes
  /\ dl \in Delivery

\* The lock is only tried: a delivery never waits for a writer.
KnowledgeReadable == wr.op = "none" /\ ensure_knowledge_ready

begin_delivery ==
  /\ dl.pc = "idle" /\ pend # EmptyQueue
  /\ dl' = [NoDelivery EXCEPT !.q = pend, !.rest = pend.claims,
                              !.pc = IF pend.groups = {} THEN "round" ELSE "refresh"]
  /\ KUnchanged /\ UNCHANGED <<mirror, answered>>

\* The queued versions of claims with dependencies are brought up to date.
Refreshed(q) ==
  LET actual == {local[c.id] : c \in {e \in q.claims :
                    e.id \in related_ids(q.groups) /\ Exists(e.id)}}
  IN [q EXCEPT !.claims = Insert(@, actual), !.groups = supersede(@, actual)]

refresh_related ==
  /\ dl.pc = "refresh"
  /\ \/ /\ KnowledgeReadable
        /\ pend' = write_or_clear(Refreshed(pend))
        /\ dl' = [dl EXCEPT !.pc = "round", !.q = Refreshed(pend),
                            !.rest = Refreshed(pend).claims]
     \/ /\ ~KnowledgeReadable
        /\ dl' = [dl EXCEPT !.pc = "round"] /\ UNCHANGED pend
  /\ UNCHANGED <<local, edit, recap, dream, dream_pending, policy, ledger, wr, faults>>
  /\ UNCHANGED <<mirror, answered>>

\* Mutant: the acknowledgements are not waited for.
ReadyUnacknowledged ==
  {c \in dl.rest : c.id \in related_ids(dl.q.groups) => KnowledgeReadable /\ c \in Current}

\* What this round may send: claims without dependencies, and of the others
\* those that are current and whose carriers have been acknowledged.
ReadyClaims ==
  {c \in dl.rest :
     c.id \in related_ids(dl.q.groups) =>
       KnowledgeReadable /\ c \in Current /\ ready(c, dl.q.groups, dl.q.acks, Current)}

\* A round, until nothing is ready; what remains is kept as durable.
next_round ==
  /\ dl.pc = "round"
  /\ LET R == ReadyClaims IN
     dl' = IF R # {}
           THEN [dl EXCEPT !.pc = "send", !.out = R, !.rest = @ \ R]
           ELSE [dl EXCEPT !.pc = "disputes", !.reports = dl.q.disputes, !.rest = {},
                           !.fail.claims = @ \cup dl.rest, !.fail.durable = @ \cup Ids(dl.rest)]
  /\ KUnchanged /\ UNCHANGED <<mirror, answered>>

\* The answer to the request for claim c: taken out of the requests in flight.
Answered(c, d) ==
  dl' = [d EXCEPT !.out = @ \ {c}, !.pc = IF dl.out = {c} THEN "round" ELSE "send"]

upload_claim(c) == mirror' = [mirror EXCEPT ![c.id] = c]

upload_succeeds(c) ==
  /\ dl.pc = "send" /\ c \in dl.out
  /\ upload_claim(c)
  /\ Answered(c, [dl EXCEPT !.q.acks = acknowledge(@, {c})])
  /\ KUnchanged /\ UNCHANGED answered

retain_failed_claim(c) ==
  [dl EXCEPT !.fail.claims = @ \cup {c},
             !.fail.durable = IF c.id \in dl.q.durable THEN @ \cup {c.id} ELSE @]

\* A timeout or a server error, whether or not the request is executed.
upload_fails(c) ==
  /\ dl.pc = "send" /\ c \in dl.out
  /\ \/ UNCHANGED mirror
     \/ upload_claim(c)
  /\ Answered(c, retain_failed_claim(c))
  /\ KUnchanged /\ UNCHANGED answered

\* 401 and 403: only a durable claim is kept.
upload_refused(c) ==
  /\ AuthErrors /\ dl.pc = "send" /\ c \in dl.out
  /\ Answered(c, IF c.id \in dl.q.durable THEN retain_failed_claim(c) ELSE dl)
  /\ KUnchanged /\ UNCHANGED <<mirror, answered>>

\* Mutant: a dispute that could not be reported is not kept.
ReportOnce(d) ==
  /\ dl.pc = "disputes" /\ d \in dl.reports
  /\ dl' = [dl EXCEPT !.reports = @ \ {d}]
  /\ answered' \in {answered, answered \cup {d}}
  /\ KUnchanged /\ UNCHANGED mirror

\* A dispute is accepted or found to conflict with the team's record, or it is
\* kept, whatever the error.
report_dispute(d) ==
  /\ dl.pc = "disputes" /\ d \in dl.reports
  /\ \/ /\ answered' = answered \cup {d}
        /\ dl' = [dl EXCEPT !.reports = @ \ {d}]
     \/ /\ answered' \in {answered, answered \cup {d}}
        /\ dl' = [dl EXCEPT !.reports = @ \ {d}, !.fail.disputes = @ \cup {d}]
  /\ KUnchanged /\ UNCHANGED mirror

finish_delivery ==
  /\ dl.pc = "disputes" /\ dl.reports = {}
  /\ pend' = write_or_clear(reconcile_pending_uploads_after_attempt(pend, dl.q, dl.fail))
  /\ dl' = NoDelivery
  /\ UNCHANGED <<local, edit, recap, dream, dream_pending, policy, ledger, wr, faults>>
  /\ UNCHANGED <<mirror, answered>>

\* The process dies, or a Dream is stopped while it uploads: the snapshot and
\* the answers are lost, requests in flight may still be executed.
delivery_cancelled ==
  /\ dl.pc # "idle" /\ Fault /\ dl' = NoDelivery
  /\ \E S \in SUBSET dl.out :
       mirror' = [c \in Claims |-> IF c \in Ids(S) THEN Entry(S, c) ELSE mirror[c]]
  /\ UNCHANGED <<local, pend, edit, recap, dream, dream_pending, policy, ledger, wr>>
  /\ UNCHANGED answered

-----------------------------------------------------------------------------
Init ==
  /\ KInit
  /\ mirror = local /\ answered = {} /\ dl = NoDelivery

DeliveryStep ==
  \/ begin_delivery \/ refresh_related \/ next_round
  \/ \E c \in dl.out : upload_succeeds(c) \/ upload_fails(c) \/ upload_refused(c)
  \/ \E d \in dl.reports : report_dispute(d)
  \/ finish_delivery \/ delivery_cancelled

Next == (KNext /\ UNCHANGED dvars) \/ DeliveryStep

Spec == Init /\ [][Next]_vars

-----------------------------------------------------------------------------
(* Properties *)

\* The team always gets the last word: a claim whose mirror differs from the local file
\* is queued as it is now, or a record on disk (edit journal, checkpoint, inbox message)
\* will have it staged. Only a version staged without a durable mark may be given up,
\* when the maintainer refuses it. At stake in merge_pending_uploads and
\* reconcile_pending_uploads_after_attempt, with versions staged during a delivery.
UnsyncedIsQueued ==
  \A c \in Claims : local[c] # mirror[c] =>
    \/ local[c] \in pend.claims
    \/ Journalled(c)
    \/ AuthErrors /\ local[c].by \in {"recap", "policy"}

\* A source that Dream has consolidated is retired in the mirror only by a delivery that
\* knows its carriers, and only when the mirror has each of them as it was, or the claims
\* it was consolidated into in turn (consolidation_delivery::ready), even if local claims
\* change while requests are in flight. A withdrawn policy lifts the dependency.
SourceKeptUntilCarried ==
  [][LET groups == dl.q.groups
         Mirrored(c) == mirror[c.id] = c
         Carried(c) == \/ Mirrored(c)
                       \/ \E h \in groups : /\ h.before = c /\ h.carriers # {}
                                             /\ \A e \in h.carriers : Mirrored(e)
     IN \A s \in Claims \ Sourced :
          mirror'[s] # mirror[s] /\ mirror'[s].dep /\ mirror'[s].by = "dream" =>
            \E g \in groups : /\ g.retired = mirror'[s] /\ g.carriers # {}
                              /\ \A c \in g.carriers : Carried(c)]_vars

\* An entry staged as durable keeps its mark until the mirror has that version: the
\* header of maintainer_upload.rs says of durable deliveries that they go on once the
\* maintainer accepts the agent again. A mark set while the same version, staged without
\* one, is in flight is lost when that request is refused.
DurableUntilMirrored ==
  [][\A c \in pend.claims : c.id \in pend.durable =>
       c.id \in pend'.durable \/ mirror[c.id] = c]_vars

\* A withdrawal is about the knowledge itself: once it is staged, no claim of the policy
\* waits in the queue for the carriers of an earlier consolidation, whatever a delivery
\* with an older snapshot, a review or another consolidation do to the queue later
\* (stage_policy_deprecation). A user or a later Recap could restore the claim and a Dream
\* consolidate it again, so only without them.
WithdrawnIsNotHeldBack ==
  policy # "pending" /\ Ops \cap {"edit", "recap"} = {} =>
    \A g \in pend.groups : g.retired.id \notin Sourced

\* A dispute on the ledger is never reported again, so it must not be lost: it is in the
\* queue until the maintainer has answered (staged before record_dispute_if_new).
DisputeKept == ledger \subseteq pend.disputes \cup answered

\* A newer version is never overtaken by an older one: the mirror only moves forward.
\* The comment in upload_maintainer_batch_inner gives this as the reason for the
\* single-flight delivery.
MirrorMovesForward == [][\A c \in Claims : mirror'[c].v >= mirror[c].v]_vars

=============================================================================
