---------------------------- MODULE UploadQueue ----------------------------
(***************************************************************************)
(* The values the maintainer upload queue (maintainer_uploads/pending.yaml *)
(* of an agent home) can hold, and the pure functions on them: merging a   *)
(* staged batch, the dependencies of a consolidation (a source may only be *)
(* retired in the team's mirror once the claims that carry its knowledge   *)
(* have been acknowledged), and reconciling the file after a delivery.     *)
(*                                                                         *)
(* A claim is abstracted to its identity, its version (updated_at, which   *)
(* next_claim_update_at makes strictly increasing), whether it is          *)
(* Deprecated, and who wrote it; two claims are equal when all four are.   *)
(***************************************************************************)
EXTENDS Naturals, FiniteSets

CONSTANTS
  Claims,       \* claim ids
  Disputes,     \* disputes, one for each set of claims in dispute
  MaxVersion    \* bound: versions of a claim

Writers == {"none", "user", "recap", "dream", "policy"}
Claim   == [id: Claims, v: 0..MaxVersion, dep: BOOLEAN, by: Writers]
ConsolidationDelivery == [before: Claim, retired: Claim, carriers: SUBSET Claim]
PendingMaintainerUploads ==
  [claims: SUBSET Claim, durable: SUBSET Claims, disputes: SUBSET Disputes,
   groups: SUBSET ConsolidationDelivery, acks: SUBSET Claim]

NoClaim(c) == [id |-> c, v |-> 0, dep |-> FALSE, by |-> "none"]
EmptyQueue == [claims |-> {}, durable |-> {}, disputes |-> {}, groups |-> {}, acks |-> {}]

Ids(cs) == {c.id : c \in cs}
\* The entry of an id in a set with one claim for each id.
Entry(cs, i) == CHOOSE c \in cs : c.id = i
\* A map keyed by claim id, with the claims of cs inserted last.
Insert(m, cs) == {c \in m : c.id \notin Ids(cs)} \cup cs

OnePerId(cs) == \A c, d \in cs : c.id = d.id => c = d
\* The shape that the functions below rely on and preserve: one entry for each
\* claim and one group for each source, and no mark without its entry.
WellFormed(q) ==
  /\ OnePerId(q.claims) /\ OnePerId(q.acks) /\ q.durable \subseteq Ids(q.claims)
  /\ \A g, h \in q.groups : g.retired.id = h.retired.id => g = h
  /\ \A g \in q.groups : g.retired.dep /\ g.before.id = g.retired.id

\* The file is removed when nothing is left to deliver.
write_or_clear(q) == IF q.claims = {} /\ q.disputes = {} THEN EmptyQueue ELSE q

-----------------------------------------------------------------------------
(* Dependencies of consolidations *)

related_ids(groups) ==
  {g.retired.id : g \in groups} \cup UNION {Ids(g.carriers) : g \in groups}

\* An ordinary change of a retired source: a restored one cancels its
\* retirement, a deprecated one inherits the dependency. cs has one claim for
\* each id.
supersede(groups, cs) ==
  {IF g.retired.id \in Ids(cs) THEN [g EXCEPT !.retired = Entry(cs, g.retired.id)] ELSE g :
     g \in {h \in groups : \A c \in cs : c.id = h.retired.id => c.dep}}

\* The carriers whose knowledge the mirror has: acknowledged as they are now,
\* or themselves consolidated into claims of which that is true. It is the
\* least such set; the search along the carriers gives up on a cycle.
CarriersReady(groups, acks, current) ==
  LET nodes == UNION {g.carriers : g \in groups}
      Base(c) == ~c.dep /\ c \in current /\ c \in acks
      Closed(R) == \A c \in nodes :
        \/ c \in R
        \/ /\ ~Base(c)
           /\ \A g \in groups :
                ~(/\ g.before = c /\ g.retired \in current
                  /\ g.carriers # {} /\ g.carriers \subseteq R)
  IN {c \in nodes : \A R \in SUBSET nodes : Closed(R) => c \in R}

ready(c, groups, acks, current) ==
  \A g \in groups : g.retired = c =>
    g.carriers # {} /\ g.carriers \subseteq CarriersReady(groups, acks, current)

acknowledge(acks, cs) == Insert(acks, cs)

\* Keep the groups whose source is still to be delivered and all the groups
\* their carriers lead to.
prune(q) ==
  LET start == {g \in q.groups : g.retired \in q.claims}
      Closed(K) == start \subseteq K /\ \A g \in K, h \in q.groups :
                                          h.before \in g.carriers => h \in K
      keep == {g \in q.groups : \A K \in SUBSET q.groups : Closed(K) => g \in K}
  IN [q EXCEPT !.groups = keep,
               !.acks = {c \in q.acks : c.id \in related_ids(keep)}]

-----------------------------------------------------------------------------
(* Staging *)

\* A staged version replaces the queued one unless it is older.
merge_pending_uploads(q, cs, ds) ==
  LET new == {c \in cs : \A e \in q.claims : e.id = c.id => c.v >= e.v}
      merged == Insert(q.claims, new)
  IN [q EXCEPT !.claims = merged,
               !.groups = supersede(@, new),
               !.durable = @ \cap Ids(merged),
               !.disputes = @ \cup ds]

stage_maintainer_batch(q, cs, ds) == write_or_clear(merge_pending_uploads(q, cs, ds))

stage_maintainer_batch_with_durable_claims(q, cs, ds) ==
  stage_maintainer_batch([q EXCEPT !.durable = @ \cup Ids(cs)], cs, ds)

\* The new groups replace those of the same source.
stage_consolidation_batch(q, cs, groups) ==
  LET m == merge_pending_uploads([q EXCEPT !.durable = @ \cup Ids(cs)], cs, {})
      sources == {g.retired.id : g \in groups}
  IN write_or_clear(
       [m EXCEPT !.groups = {g \in @ : g.retired.id \notin sources} \cup groups])

\* Mutant: as for any other deprecated claim, the dependency is inherited.
StageAsOrdinary(q, cs, sourced) == stage_maintainer_batch(q, cs, {})

\* A withdrawn policy retires the claims it was the source of for good: their
\* consolidations are cancelled.
stage_policy_deprecation(q, cs, sourced) ==
  LET m == merge_pending_uploads(q, cs, {}) IN
  write_or_clear(prune(
    [m EXCEPT !.groups = {g \in @ : ~\E c \in m.claims :
                            c.id = g.retired.id /\ c.dep /\ c.id \in sourced}]))

\* The current carriers of a source replace the ones it was retired with.
rebind_consolidation(q, g, carriers) ==
  LET new == [g EXCEPT !.carriers = carriers] IN
  write_or_clear(
    [q EXCEPT !.groups = {h \in @ : h.retired.id # g.retired.id} \cup {new},
              !.claims = Insert(@, carriers),
              !.durable = @ \cup Ids(carriers)])

-----------------------------------------------------------------------------
(* After a delivery *)

\* Mutant: an entry that was attempted is removed whatever it is by now.
ReconcileByIdentity(q, a, f) ==
  LET gone == {c \in a.claims : c.id \notin Ids(f.claims)} IN
  prune([q EXCEPT !.claims = {c \in @ : c.id \notin Ids(gone)},
                  !.durable = @ \ Ids(gone),
                  !.disputes = (@ \ a.disputes) \cup f.disputes,
                  !.acks = acknowledge(@, a.acks)])

\* q: the file as it is now; a: as it was attempted, with the acknowledgements
\* of this delivery; f: what failed. Only what was attempted and is unchanged
\* is removed; what failed comes back unless something newer is there.
reconcile_pending_uploads_after_attempt(q, a, f) ==
  LET failed == {c \in a.claims : c.id \in Ids(f.claims)}
      back == {c \in failed : c.id \notin Ids(q.claims)}
      gone == (a.claims \ failed) \cap q.claims
      claims == (q.claims \ gone) \cup back
  IN prune(
       [q EXCEPT !.claims = claims,
                 !.durable = ((@ \ Ids(gone)) \cup (f.durable \cap Ids(failed))) \cap Ids(claims),
                 !.disputes = (@ \ a.disputes) \cup f.disputes,
                 !.acks = acknowledge(@, a.acks)])

=============================================================================
