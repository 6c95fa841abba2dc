---------------------------- MODULE UploadProofs ----------------------------
(***************************************************************************)
(* Theorems of MaintainerUpload: types, the mirror only moves forward, a   *)
(* dispute on the ledger is kept, the team gets the last word, and a       *)
(* withdrawn claim is not held back; for any claims, writers, versions and *)
(* faults, with the writers of KnowledgeProofs.                            *)
(***************************************************************************)
EXTENDS MaintainerUpload, KnowledgeProofs

----------------------------------------------------------------------------
\* Reconciling and refreshing the queue

LEMMA ClaimFields == \A x \in Claim : x.id \in Claims /\ x.v \in Nat
  BY KnowledgeAssumption DEF Claim

\* The claims of a delivery that are kept, come back and go.
Failed(a, f) == {c \in a.claims : c.id \in Ids(f.claims)}
Back(q, a, f) == {c \in Failed(a, f) : c.id \notin Ids(q.claims)}
Gone(q, a, f) == (a.claims \ Failed(a, f)) \cap q.claims

LEMMA ReconcileFacts ==
  ASSUME NEW q, QueueOK(q), NEW a, QueueOK(a), NEW f \in PendingMaintainerUploads
  PROVE  LET m == reconcile_pending_uploads_after_attempt(q, a, f) IN
         /\ QueueOK(m)
         /\ m.claims = (q.claims \ Gone(q, a, f)) \cup Back(q, a, f)
         /\ m.disputes = (q.disputes \ a.disputes) \cup f.disputes
         /\ m.durable = ((q.durable \ Ids(Gone(q, a, f))) \cup (f.durable \cap Ids(Failed(a, f))))
                        \cap Ids(m.claims)
         /\ m.groups \subseteq q.groups
<1> DEFINE back == Back(q, a, f)
           gone == Gone(q, a, f)
           claims == (q.claims \ gone) \cup back
           dur == ((q.durable \ Ids(gone)) \cup (f.durable \cap Ids(Failed(a, f)))) \cap Ids(claims)
           dis == (q.disputes \ a.disputes) \cup f.disputes
           acks == Insert(q.acks, a.acks)
           r == [q EXCEPT !.claims = claims, !.durable = dur, !.disputes = dis, !.acks = acks]
<1>1. /\ q \in PendingMaintainerUploads /\ OnePerId(q.claims) /\ OnePerId(q.acks)
      /\ GroupsOK(q.groups)
  BY DEF QueueOK, WellFormed, GroupsOK
<1>2. a \in PendingMaintainerUploads /\ OnePerId(a.claims) /\ OnePerId(a.acks)
  BY DEF QueueOK, WellFormed
<1>3. /\ q.claims \in SUBSET Claim /\ q.durable \in SUBSET Claims
      /\ q.disputes \in SUBSET Disputes /\ q.acks \in SUBSET Claim
      /\ a.claims \in SUBSET Claim /\ a.acks \in SUBSET Claim
      /\ f.durable \in SUBSET Claims /\ f.disputes \in SUBSET Disputes
  BY <1>1, <1>2, QueueFields
<1>4. reconcile_pending_uploads_after_attempt(q, a, f) = prune(r)
  BY DEF reconcile_pending_uploads_after_attempt, acknowledge, Failed, Back, Gone
<1>5. back \subseteq a.claims /\ \A x \in back : x.id \notin Ids(q.claims)
  BY DEF Back, Failed
<1> HIDE DEF back, gone
<1>6. claims \in SUBSET Claim
  BY <1>3, <1>5
<1>7. OnePerId(claims)
  <2>1. \A x \in q.claims : x.id \in Ids(q.claims)
    BY DEF Ids
  <2>2. QED BY <1>1, <1>2, <1>5, <2>1 DEF OnePerId
<1>8. acks \in SUBSET Claim /\ OnePerId(acks)
  BY <1>1, <1>2, <1>3, InsertFacts
<1>9. dur \in SUBSET Claims /\ dur \subseteq Ids(claims) /\ dis \in SUBSET Disputes
  BY <1>3
<1> HIDE DEF claims, dur, dis, acks
<1>10. /\ r.claims = claims /\ r.durable = dur /\ r.disputes = dis /\ r.acks = acks
       /\ r.groups = q.groups
       /\ r \in [claims : SUBSET Claim, durable : SUBSET Claims, disputes : SUBSET Disputes,
                 groups : SUBSET ConsolidationDelivery, acks : SUBSET Claim]
  BY <1>1, <1>6, <1>8, <1>9 DEF PendingMaintainerUploads
<1> HIDE DEF r
<1>11. QueueOK(r)
  BY <1>1, <1>7, <1>8, <1>9, <1>10, QueueBuilt
<1> DEFINE m == prune(r)
<1>12. /\ QueueOK(m) /\ m.claims = claims /\ m.disputes = dis /\ m.durable = dur
       /\ m.groups \subseteq q.groups
  BY <1>10, <1>11, PruneFacts
<1>13. reconcile_pending_uploads_after_attempt(q, a, f) = m
  BY <1>4
<1> HIDE DEF m
<1>14. QED BY <1>12, <1>13 DEF claims, dur, dis, back, gone

LEMMA RefreshedFacts ==
  ASSUME TLocal, NEW q, QueueOK(q)
  PROVE  LET m == Refreshed(q) IN
         /\ QueueOK(m)
         /\ \E actual \in SUBSET Current : m.claims = Insert(q.claims, actual)
         /\ m.disputes = q.disputes
         /\ \A k \in m.groups : \E g \in q.groups : k.retired.id = g.retired.id
<1> DEFINE actual == {local[c.id] : c \in {e \in q.claims :
                         e.id \in related_ids(q.groups) /\ Exists(e.id)}}
           ins == Insert(q.claims, actual)
           sup == supersede(q.groups, actual)
           m == Refreshed(q)
<1>1. /\ q \in PendingMaintainerUploads /\ OnePerId(q.claims) /\ OnePerId(q.acks)
      /\ GroupsOK(q.groups) /\ q.durable \subseteq Ids(q.claims)
  BY DEF QueueOK, WellFormed, GroupsOK
<1>2. /\ q.claims \in SUBSET Claim /\ q.groups \in SUBSET ConsolidationDelivery
  BY <1>1, QueueFields
<1>3. m = [q EXCEPT !.claims = ins, !.groups = sup]
  BY DEF Refreshed
<1>4. actual \in SUBSET Current
  BY <1>2, ClaimFields DEF Current
<1> HIDE DEF actual
<1>5. actual \in SUBSET Claim /\ OnePerId(actual)
  BY <1>4, CurrentFacts DEF OnePerId
<1>6. ins \in SUBSET Claim /\ OnePerId(ins) /\ Ids(q.claims) \subseteq Ids(ins)
  BY <1>1, <1>2, <1>5, InsertFacts
<1>7. /\ sup \in SUBSET ConsolidationDelivery /\ GroupsOK(sup)
      /\ \A k \in sup : \E g \in q.groups : k.retired.id = g.retired.id
  BY <1>1, <1>2, <1>5, SupersedeFacts
<1> HIDE DEF ins, sup, m
<1>8. /\ m.claims = ins /\ m.groups = sup /\ m.durable = q.durable
      /\ m.disputes = q.disputes /\ m.acks = q.acks
      /\ m \in [claims : SUBSET Claim, durable : SUBSET Claims, disputes : SUBSET Disputes,
                groups : SUBSET ConsolidationDelivery, acks : SUBSET Claim]
  BY <1>1, <1>3, <1>6, <1>7 DEF PendingMaintainerUploads
<1>9. QueueOK(m)
  BY <1>1, <1>6, <1>7, <1>8, QueueBuilt
<1>10. QED BY <1>4, <1>7, <1>8, <1>9 DEF m, ins

----------------------------------------------------------------------------
\* The first invariant

\* The types of the delivery; its snapshot is a queue in shape.
TDelivery ==
  /\ mirror \in [Claims -> Claim] /\ \A c \in Claims : mirror[c].id = c
  /\ answered \subseteq Disputes /\ dl \in Delivery /\ QueueOK(dl.q)

\* What is still to be sent, in flight or failed is part of the snapshot.
DShape ==
  /\ dl.rest \subseteq dl.q.claims /\ dl.out \subseteq dl.q.claims
  /\ dl.fail.claims \subseteq dl.q.claims
  /\ dl.pc # "send" => dl.out = {}
  /\ dl.pc \in {"idle", "disputes"} => dl.rest = {}
  /\ dl.pc \in {"idle", "refresh"} => dl.fail.claims = {}

\* The mirror is not ahead of the snapshot, the snapshot not ahead of the queue, and the
\* queue not ahead of the file; two versions with one number are one version.
Ordered ==
  /\ \A c \in Claims : mirror[c].v <= local[c].v
  /\ \A x \in pend.claims \cup dl.q.claims :
       /\ mirror[x.id].v <= x.v /\ x.v <= local[x.id].v
       /\ x.v = local[x.id].v => x = local[x.id]
  /\ \A y \in dl.q.claims, x \in pend.claims : x.id = y.id => y.v <= x.v

\* A dispute is staged before it is on the ledger, and kept until it is answered.
DisputesHeld ==
  /\ ledger \subseteq pend.disputes \cup answered
  /\ At("recap", "record") => recap.disputes \subseteq ledger \cup pend.disputes \cup answered
  /\ dl.pc = "disputes" =>
       dl.q.disputes \subseteq dl.reports \cup dl.fail.disputes \cup answered

UInv == KInv /\ TDelivery /\ DShape /\ Ordered /\ DisputesHeld

----------------------------------------------------------------------------
\* The steps of a delivery, as moves of its record

LEMMA DeliveryFields ==
  ASSUME TDelivery
  PROVE  /\ dl.q \in PendingMaintainerUploads /\ dl.fail \in PendingMaintainerUploads
         /\ dl.rest \in SUBSET Claim /\ dl.out \in SUBSET Claim
         /\ dl.reports \in SUBSET Disputes
         /\ dl.q.claims \in SUBSET Claim /\ OnePerId(dl.q.claims)
  BY DEF TDelivery, Delivery, QueueOK, WellFormed, PendingMaintainerUploads

LEMMA NoDeliveryFacts ==
  /\ NoDelivery \in Delivery /\ NoDelivery.pc = "idle" /\ NoDelivery.q = EmptyQueue
  /\ NoDelivery.rest = {} /\ NoDelivery.out = {} /\ NoDelivery.fail = EmptyQueue
  /\ NoDelivery.reports = {} /\ QueueOK(NoDelivery.q) /\ NoDelivery.q.claims = {}
  /\ NoDelivery.fail.claims = {}
<1>1. EmptyQueue \in PendingMaintainerUploads /\ EmptyQueue.claims = {}
  BY EmptyQueueOK DEF QueueOK, EmptyQueue
<1>2. /\ NoDelivery.pc = "idle" /\ NoDelivery.q = EmptyQueue /\ NoDelivery.rest = {}
      /\ NoDelivery.out = {} /\ NoDelivery.fail = EmptyQueue /\ NoDelivery.reports = {}
  BY DEF NoDelivery
<1>3. NoDelivery \in Delivery
  BY <1>1 DEF NoDelivery, Delivery
<1>4. QED BY <1>1, <1>2, <1>3, EmptyQueueOK

LEMMA BeginMove ==
  ASSUME QueueOK(pend), begin_delivery
  PROVE  /\ dl' \in Delivery /\ dl'.q = pend /\ dl'.rest = pend.claims /\ dl'.out = {}
         /\ dl'.pc = (IF pend.groups = {} THEN "round" ELSE "refresh")
         /\ dl'.fail = EmptyQueue /\ UNCHANGED <<kvars, mirror, answered>>
<1>1. /\ dl' = [NoDelivery EXCEPT !.q = pend, !.rest = pend.claims,
                                  !.pc = IF pend.groups = {} THEN "round" ELSE "refresh"]
      /\ UNCHANGED <<kvars, mirror, answered>>
  BY DEF begin_delivery, KUnchanged
<1>2. pend \in PendingMaintainerUploads /\ pend.claims \in SUBSET Claim
  BY QueueFields DEF QueueOK
<1>3. NoDelivery \in Delivery /\ NoDelivery.out = {} /\ NoDelivery.fail = EmptyQueue
  BY NoDeliveryFacts
<1>4. QED BY <1>1, <1>2, <1>3 DEF Delivery

LEMMA RefreshMove ==
  ASSUME TLocal, TDelivery, QueueOK(pend), refresh_related
  PROVE  /\ dl.pc = "refresh" /\ dl' \in Delivery /\ dl'.pc = "round" /\ dl'.out = dl.out
         /\ dl'.fail = dl.fail
         /\ UNCHANGED <<local, edit, recap, dream, dream_pending, policy, ledger, wr, faults>>
         /\ UNCHANGED <<mirror, answered>>
         /\ \/ /\ pend' = write_or_clear(Refreshed(pend)) /\ dl'.q = Refreshed(pend)
               /\ dl'.rest = Refreshed(pend).claims
            \/ pend' = pend /\ dl'.q = dl.q /\ dl'.rest = dl.rest
<1> DEFINE m == Refreshed(pend)
<1>1. m \in PendingMaintainerUploads /\ m.claims \in SUBSET Claim
  BY RefreshedFacts, QueueFields DEF QueueOK
<1>2. /\ dl.pc = "refresh"
      /\ UNCHANGED <<local, edit, recap, dream, dream_pending, policy, ledger, wr, faults>>
      /\ UNCHANGED <<mirror, answered>>
      /\ \/ /\ pend' = write_or_clear(m)
            /\ dl' = [dl EXCEPT !.pc = "round", !.q = m, !.rest = m.claims]
         \/ pend' = pend /\ dl' = [dl EXCEPT !.pc = "round"]
  BY DEF refresh_related
<1> HIDE DEF m
<1>3. dl \in Delivery
  BY DEF TDelivery
<1>4. CASE dl' = [dl EXCEPT !.pc = "round", !.q = m, !.rest = m.claims]
           /\ pend' = write_or_clear(m)
  <2>1. /\ dl' \in Delivery /\ dl'.pc = "round" /\ dl'.out = dl.out /\ dl'.fail = dl.fail
        /\ dl'.q = m /\ dl'.rest = m.claims
    BY <1>1, <1>3, <1>4 DEF Delivery
  <2>2. QED BY <1>2, <1>4, <2>1 DEF m
<1>5. CASE pend' = pend /\ dl' = [dl EXCEPT !.pc = "round"]
  <2>1. /\ dl' \in Delivery /\ dl'.pc = "round" /\ dl'.out = dl.out /\ dl'.fail = dl.fail
        /\ dl'.q = dl.q /\ dl'.rest = dl.rest
    BY <1>3, <1>5 DEF Delivery
  <2>2. QED BY <1>2, <1>5, <2>1
<1>6. QED BY <1>2, <1>4, <1>5

LEMMA RoundMove ==
  ASSUME TDelivery, next_round
  PROVE  /\ dl.pc = "round" /\ dl' \in Delivery /\ dl'.q = dl.q
         /\ UNCHANGED <<kvars, mirror, answered>>
         /\ \/ /\ dl'.pc = "send" /\ dl'.out \subseteq dl.rest /\ dl'.rest = dl.rest \ dl'.out
               /\ dl'.fail = dl.fail
            \/ /\ dl'.pc = "disputes" /\ dl'.reports = dl.q.disputes /\ dl'.rest = {}
               /\ dl'.out = dl.out /\ dl'.fail.claims = dl.fail.claims \cup dl.rest
               /\ dl'.fail.durable = dl.fail.durable \cup Ids(dl.rest)
<1> DEFINE R == ReadyClaims
<1>1. R \subseteq dl.rest
  BY DEF ReadyClaims
<1>2. /\ dl.pc = "round" /\ UNCHANGED <<kvars, mirror, answered>>
      /\ \/ dl' = [dl EXCEPT !.pc = "send", !.out = R, !.rest = dl.rest \ R]
         \/ dl' = [dl EXCEPT !.pc = "disputes", !.reports = dl.q.disputes, !.rest = {},
                             !.fail.claims = @ \cup dl.rest, !.fail.durable = @ \cup Ids(dl.rest)]
  BY DEF next_round, KUnchanged
<1> HIDE DEF R
<1>3. dl \in Delivery
  BY DEF TDelivery
<1>4. /\ dl.rest \in SUBSET Claim /\ dl.q.disputes \in SUBSET Disputes
      /\ dl.fail \in PendingMaintainerUploads /\ Ids(dl.rest) \in SUBSET Claims
  BY DeliveryFields, QueueFields, ClaimFields DEF Ids
<1>5. CASE dl' = [dl EXCEPT !.pc = "send", !.out = R, !.rest = dl.rest \ R]
  <2>1. /\ dl' \in Delivery /\ dl'.q = dl.q /\ dl'.pc = "send" /\ dl'.out = R
        /\ dl'.rest = dl.rest \ R /\ dl'.fail = dl.fail
    BY <1>1, <1>3, <1>4, <1>5 DEF Delivery
  <2>2. QED BY <1>1, <1>2, <2>1
<1>6. CASE dl' = [dl EXCEPT !.pc = "disputes", !.reports = dl.q.disputes, !.rest = {},
                            !.fail.claims = @ \cup dl.rest, !.fail.durable = @ \cup Ids(dl.rest)]
  <2> DEFINE f == [dl.fail EXCEPT !.claims = @ \cup dl.rest, !.durable = @ \cup Ids(dl.rest)]
  <2>1. /\ f \in PendingMaintainerUploads /\ f.claims = dl.fail.claims \cup dl.rest
        /\ f.durable = dl.fail.durable \cup Ids(dl.rest)
    BY <1>4 DEF PendingMaintainerUploads
  <2>2. dl' = [dl EXCEPT !.pc = "disputes", !.reports = dl.q.disputes, !.rest = {}, !.fail = f]
    BY <1>3, <1>6 DEF Delivery
  <2> HIDE DEF f
  <2>3. /\ dl' \in Delivery /\ dl'.q = dl.q /\ dl'.pc = "disputes" /\ dl'.rest = {}
        /\ dl'.reports = dl.q.disputes /\ dl'.out = dl.out /\ dl'.fail = f
    BY <1>3, <1>4, <2>1, <2>2 DEF Delivery
  <2>4. QED BY <1>2, <2>1, <2>3
<1>7. QED BY <1>2, <1>5, <1>6

\* The answer to the request for a claim: executed, failed, or refused without a mark.
Sent(c) ==
  /\ dl.pc = "send" /\ c \in dl.out
  /\ dl' \in Delivery /\ QueueOK(dl'.q)
  /\ dl'.q.claims = dl.q.claims /\ dl'.q.durable = dl.q.durable
  /\ dl'.rest = dl.rest /\ dl'.out = dl.out \ {c}
  /\ dl'.pc = (IF dl.out = {c} THEN "round" ELSE "send")
  /\ UNCHANGED <<kvars, answered>>
  /\ \/ upload_claim(c) /\ dl'.fail = dl.fail
     \/ /\ UNCHANGED mirror \/ upload_claim(c)
        /\ dl'.fail.claims = dl.fail.claims \cup {c}
        /\ dl'.fail.durable = IF c.id \in dl.q.durable THEN dl.fail.durable \cup {c.id}
                              ELSE dl.fail.durable
     \/ AuthErrors /\ c.id \notin dl.q.durable /\ UNCHANGED mirror /\ dl'.fail = dl.fail

\* What all the answers do to the record.
LEMMA AnsweredMove ==
  ASSUME TDelivery, dl.pc = "send", NEW c \in dl.out, NEW d \in Delivery, Answered(c, d)
  PROVE  /\ dl' \in Delivery /\ dl'.q = d.q /\ dl'.rest = d.rest /\ dl'.out = d.out \ {c}
         /\ dl'.pc = (IF dl.out = {c} THEN "round" ELSE "send") /\ dl'.fail = d.fail
  BY DEF Answered, Delivery

LEMMA AcknowledgeMove ==
  ASSUME TDelivery, NEW c \in dl.out
  PROVE  LET d == [dl EXCEPT !.q.acks = acknowledge(@, {c})] IN
         /\ d \in Delivery /\ QueueOK(d.q) /\ d.q.claims = dl.q.claims
         /\ d.q.durable = dl.q.durable /\ d.rest = dl.rest /\ d.out = dl.out /\ d.fail = dl.fail
<1> DEFINE as == acknowledge(dl.q.acks, {c})
           k == [dl.q EXCEPT !.acks = as]
           d == [dl EXCEPT !.q.acks = acknowledge(@, {c})]
<1>1. /\ dl \in Delivery /\ dl.q \in PendingMaintainerUploads /\ OnePerId(dl.q.claims)
      /\ OnePerId(dl.q.acks) /\ dl.q.durable \subseteq Ids(dl.q.claims) /\ GroupsOK(dl.q.groups)
  BY DEF TDelivery, QueueOK, WellFormed, GroupsOK
<1>2. as \in SUBSET Claim /\ OnePerId(as)
  <2>1. dl.q.acks \in SUBSET Claim /\ {c} \in SUBSET Claim /\ OnePerId({c})
    BY <1>1, QueueFields, DeliveryFields DEF OnePerId
  <2>2. QED BY <1>1, <2>1, InsertFacts DEF acknowledge
<1>3. d = [dl EXCEPT !.q = k]
  BY <1>1 DEF Delivery
<1> HIDE DEF as, d
<1>4. /\ k.claims = dl.q.claims /\ k.durable = dl.q.durable /\ k.groups = dl.q.groups
      /\ k.acks = as
      /\ k \in [claims : SUBSET Claim, durable : SUBSET Claims, disputes : SUBSET Disputes,
                groups : SUBSET ConsolidationDelivery, acks : SUBSET Claim]
  BY <1>1, <1>2 DEF PendingMaintainerUploads
<1>5. k \in PendingMaintainerUploads
  BY <1>4 DEF PendingMaintainerUploads
<1> HIDE DEF k
<1>6. QueueOK(k)
  BY <1>1, <1>2, <1>4, QueueBuilt
<1>7. /\ d \in Delivery /\ d.q = k /\ d.rest = dl.rest /\ d.out = dl.out /\ d.fail = dl.fail
  BY <1>1, <1>3, <1>5 DEF Delivery
<1>8. QED BY <1>4, <1>6, <1>7 DEF d

LEMMA RetainMove ==
  ASSUME TDelivery, NEW c \in dl.out
  PROVE  LET d == retain_failed_claim(c) IN
         /\ d \in Delivery /\ d.q = dl.q /\ d.rest = dl.rest /\ d.out = dl.out
         /\ d.fail.claims = dl.fail.claims \cup {c}
         /\ d.fail.durable = IF c.id \in dl.q.durable THEN dl.fail.durable \cup {c.id}
                             ELSE dl.fail.durable
<1> DEFINE dur == IF c.id \in dl.q.durable THEN dl.fail.durable \cup {c.id} ELSE dl.fail.durable
           f == [dl.fail EXCEPT !.claims = dl.fail.claims \cup {c}, !.durable = dur]
           d == retain_failed_claim(c)
<1>1. dl \in Delivery /\ dl.fail \in PendingMaintainerUploads /\ c \in Claim /\ c.id \in Claims
  BY DeliveryFields, ClaimFields DEF TDelivery
<1>2. dur \in SUBSET Claims
  BY <1>1, QueueFields
<1>3. d = [dl EXCEPT !.fail = f]
  BY <1>1 DEF retain_failed_claim, Delivery
<1> HIDE DEF dur, d
<1>4. /\ f \in PendingMaintainerUploads /\ f.claims = dl.fail.claims \cup {c} /\ f.durable = dur
  BY <1>1, <1>2 DEF PendingMaintainerUploads
<1> HIDE DEF f
<1>5. d \in Delivery /\ d.q = dl.q /\ d.rest = dl.rest /\ d.out = dl.out /\ d.fail = f
  BY <1>1, <1>3, <1>4 DEF Delivery
<1>6. QED BY <1>4, <1>5 DEF d, dur

LEMMA SendMove ==
  ASSUME TDelivery, NEW c \in dl.out, upload_succeeds(c) \/ upload_fails(c) \/ upload_refused(c)
  PROVE  Sent(c)
<1>1. dl.pc = "send" /\ UNCHANGED <<kvars, answered>> /\ dl \in Delivery /\ QueueOK(dl.q)
  BY DEF upload_succeeds, upload_fails, upload_refused, KUnchanged, TDelivery
<1>2. CASE upload_succeeds(c)
  <2> DEFINE d == [dl EXCEPT !.q.acks = acknowledge(@, {c})]
  <2>1. Answered(c, d) /\ upload_claim(c)
    BY <1>2 DEF upload_succeeds
  <2>2. /\ d \in Delivery /\ QueueOK(d.q) /\ d.q.claims = dl.q.claims
        /\ d.q.durable = dl.q.durable /\ d.rest = dl.rest /\ d.out = dl.out /\ d.fail = dl.fail
    BY AcknowledgeMove
  <2> HIDE DEF d
  <2>3. /\ dl' \in Delivery /\ dl'.q = d.q /\ dl'.rest = d.rest /\ dl'.out = d.out \ {c}
        /\ dl'.pc = (IF dl.out = {c} THEN "round" ELSE "send") /\ dl'.fail = d.fail
    BY <1>1, <2>1, <2>2, AnsweredMove
  <2>4. QED BY <1>1, <2>1, <2>2, <2>3 DEF Sent
<1>3. ASSUME Answered(c, retain_failed_claim(c)), UNCHANGED mirror \/ upload_claim(c)
      PROVE  Sent(c)
  <2> DEFINE d == retain_failed_claim(c)
  <2>1. /\ d \in Delivery /\ d.q = dl.q /\ d.rest = dl.rest /\ d.out = dl.out
        /\ d.fail.claims = dl.fail.claims \cup {c}
        /\ d.fail.durable = IF c.id \in dl.q.durable THEN dl.fail.durable \cup {c.id}
                            ELSE dl.fail.durable
    BY RetainMove
  <2>2. Answered(c, d)
    BY <1>3
  <2> HIDE DEF d
  <2>3. /\ dl' \in Delivery /\ dl'.q = d.q /\ dl'.rest = d.rest /\ dl'.out = d.out \ {c}
        /\ dl'.pc = (IF dl.out = {c} THEN "round" ELSE "send") /\ dl'.fail = d.fail
    BY <1>1, <2>1, <2>2, AnsweredMove
  <2>4. QED BY <1>1, <1>3, <2>1, <2>3 DEF Sent
<1>4. CASE upload_fails(c)
  BY <1>3, <1>4 DEF upload_fails
<1>5. CASE upload_refused(c) /\ c.id \in dl.q.durable
  BY <1>3, <1>5 DEF upload_refused
<1>6. CASE upload_refused(c) /\ c.id \notin dl.q.durable
  <2>1. Answered(c, dl) /\ AuthErrors /\ UNCHANGED mirror
    BY <1>6 DEF upload_refused
  <2>2. /\ dl' \in Delivery /\ dl'.q = dl.q /\ dl'.rest = dl.rest /\ dl'.out = dl.out \ {c}
        /\ dl'.pc = (IF dl.out = {c} THEN "round" ELSE "send") /\ dl'.fail = dl.fail
    BY <1>1, <2>1, AnsweredMove
  <2>3. QED BY <1>1, <1>6, <2>1, <2>2 DEF Sent
<1>7. QED BY <1>2, <1>4, <1>5, <1>6

LEMMA ReportMove ==
  ASSUME TDelivery, NEW d \in dl.reports, report_dispute(d)
  PROVE  /\ dl.pc = "disputes" /\ dl' \in Delivery /\ dl'.pc = "disputes" /\ dl'.q = dl.q
         /\ dl'.rest = dl.rest /\ dl'.out = dl.out /\ dl'.reports = dl.reports \ {d}
         /\ dl'.fail.claims = dl.fail.claims /\ dl'.fail.durable = dl.fail.durable
         /\ dl.fail.disputes \subseteq dl'.fail.disputes
         /\ UNCHANGED <<kvars, mirror>> /\ answered' \in SUBSET Disputes
         /\ answered \subseteq answered' /\ (d \in answered' \/ d \in dl'.fail.disputes)
<1>1. /\ dl.pc = "disputes" /\ UNCHANGED <<kvars, mirror>> /\ dl \in Delivery
      /\ dl.fail \in PendingMaintainerUploads /\ d \in Disputes /\ answered \subseteq Disputes
  BY DeliveryFields DEF report_dispute, KUnchanged, TDelivery
<1>2. CASE /\ answered' = answered \cup {d}
           /\ dl' = [dl EXCEPT !.reports = @ \ {d}]
  <2>1. /\ dl' \in Delivery /\ dl'.pc = dl.pc /\ dl'.q = dl.q /\ dl'.rest = dl.rest
        /\ dl'.out = dl.out /\ dl'.reports = dl.reports \ {d} /\ dl'.fail = dl.fail
    BY <1>1, <1>2 DEF Delivery
  <2>2. QED BY <1>1, <1>2, <2>1
<1>3. CASE /\ answered' \in {answered, answered \cup {d}}
           /\ dl' = [dl EXCEPT !.reports = @ \ {d}, !.fail.disputes = @ \cup {d}]
  <2> DEFINE f == [dl.fail EXCEPT !.disputes = @ \cup {d}]
  <2>1. /\ f \in PendingMaintainerUploads /\ f.claims = dl.fail.claims
        /\ f.durable = dl.fail.durable /\ f.disputes = dl.fail.disputes \cup {d}
    BY <1>1 DEF PendingMaintainerUploads
  <2>2. dl' = [dl EXCEPT !.reports = @ \ {d}, !.fail = f]
    BY <1>1, <1>3 DEF Delivery
  <2> HIDE DEF f
  <2>3. /\ dl' \in Delivery /\ dl'.pc = dl.pc /\ dl'.q = dl.q /\ dl'.rest = dl.rest
        /\ dl'.out = dl.out /\ dl'.reports = dl.reports \ {d} /\ dl'.fail = f
    BY <1>1, <2>1, <2>2 DEF Delivery
  <2>4. QED BY <1>1, <1>3, <2>1, <2>3
<1>4. QED BY <1>2, <1>3 DEF report_dispute

LEMMA FinishMove ==
  ASSUME TDelivery, QueueOK(pend), finish_delivery
  PROVE  /\ dl.pc = "disputes" /\ dl.reports = {} /\ dl' = NoDelivery /\ QueueOK(pend')
         /\ pend'.claims = (pend.claims \ Gone(pend, dl.q, dl.fail)) \cup Back(pend, dl.q, dl.fail)
         /\ pend'.disputes = (pend.disputes \ dl.q.disputes) \cup dl.fail.disputes
         /\ pend'.durable = ((pend.durable \ Ids(Gone(pend, dl.q, dl.fail)))
                              \cup (dl.fail.durable \cap Ids(Failed(dl.q, dl.fail))))
                            \cap Ids(pend'.claims)
         /\ pend'.groups \subseteq pend.groups
         /\ UNCHANGED <<local, edit, recap, dream, dream_pending, policy, ledger, wr, faults>>
         /\ UNCHANGED <<mirror, answered>>
<1> DEFINE m == reconcile_pending_uploads_after_attempt(pend, dl.q, dl.fail)
<1>1. QueueOK(dl.q) /\ dl.fail \in PendingMaintainerUploads
  BY DeliveryFields DEF TDelivery
<1>2. /\ QueueOK(m)
      /\ m.claims = (pend.claims \ Gone(pend, dl.q, dl.fail)) \cup Back(pend, dl.q, dl.fail)
      /\ m.disputes = (pend.disputes \ dl.q.disputes) \cup dl.fail.disputes
      /\ m.durable = ((pend.durable \ Ids(Gone(pend, dl.q, dl.fail)))
                        \cup (dl.fail.durable \cap Ids(Failed(dl.q, dl.fail)))) \cap Ids(m.claims)
      /\ m.groups \subseteq pend.groups
  BY <1>1, ReconcileFacts
<1>3. pend' = write_or_clear(m)
  BY DEF finish_delivery
<1> HIDE DEF m
<1>4. /\ QueueOK(pend') /\ pend'.claims = m.claims /\ pend'.disputes = m.disputes
      /\ pend'.durable = m.durable /\ pend'.groups \subseteq m.groups
  BY <1>2, <1>3, WriteOrClear
<1>5. /\ dl.pc = "disputes" /\ dl.reports = {} /\ dl' = NoDelivery
      /\ UNCHANGED <<local, edit, recap, dream, dream_pending, policy, ledger, wr, faults>>
      /\ UNCHANGED <<mirror, answered>>
  BY DEF finish_delivery
<1>6. QED BY <1>2, <1>4, <1>5

----------------------------------------------------------------------------
\* The first invariant is kept

\* A delivery writes to the mirror only what is in flight.
MirrorMove ==
  /\ mirror' \in [Claims -> Claim]
  /\ \A c \in Claims : mirror'[c].id = c /\ (mirror'[c] = mirror[c] \/ mirror'[c] \in dl.out)

LEMMA UploadMirror ==
  ASSUME TDelivery, NEW c \in dl.out, UNCHANGED mirror \/ upload_claim(c)
  PROVE  MirrorMove
<1>1. c \in Claim /\ c.id \in Claims
  BY DeliveryFields, ClaimFields
<1>2. QED BY <1>1 DEF MirrorMove, TDelivery, upload_claim

LEMMA CancelledMirror ==
  ASSUME TDelivery, delivery_cancelled
  PROVE  MirrorMove
<1>1. PICK S \in SUBSET dl.out :
        mirror' = [c \in Claims |-> IF c \in Ids(S) THEN Entry(S, c) ELSE mirror[c]]
  BY DEF delivery_cancelled
<1>2. \A c \in Ids(S) : Entry(S, c) \in S /\ Entry(S, c).id = c
  BY EntryFacts
<1>3. S \subseteq Claim
  BY DeliveryFields
<1>4. QED BY <1>1, <1>2, <1>3 DEF MirrorMove, TDelivery

\* Versions stay in order when a delivery moves on.
LEMMA OrderedDelivery ==
  ASSUME UInv, MirrorMove, local' = local, QueueOK(pend'),
         pend'.claims \subseteq pend.claims \cup Current \cup dl.q.claims,
         \/ dl'.q.claims = pend'.claims
         \/ dl'.q.claims = {}
         \/ dl'.q.claims = dl.q.claims /\ pend'.claims = pend.claims
  PROVE  Ordered'
<1>1. TLocal /\ Ordered /\ TDelivery /\ dl.out \subseteq dl.q.claims
  BY DEF UInv, KInv, PlanInv, DShape
<1>2. /\ pend.claims \in SUBSET Claim /\ dl.q.claims \in SUBSET Claim /\ OnePerId(dl.q.claims)
      /\ Current \in SUBSET Claim /\ OnePerId(pend'.claims)
  BY <1>1, QueueFields, DeliveryFields, CurrentFacts DEF UInv, KInv, QueueOK, WellFormed
<1>3. \A c \in Claims : /\ local[c].v \in Nat /\ mirror[c].v \in Nat /\ mirror'[c].v \in Nat
                        /\ mirror[c].id = c /\ mirror'[c].id = c
  BY <1>1, ClaimFields DEF TLocal, TDelivery, MirrorMove
<1>4. \A x \in pend.claims \cup Current \cup dl.q.claims :
        /\ x.id \in Claims /\ x.v \in Nat
        /\ mirror[x.id].v <= x.v /\ x.v <= local[x.id].v
        /\ x.v = local[x.id].v => x = local[x.id]
  <2>1. \A x \in Current : x.id \in Claims /\ local[x.id] = x /\ x.v \in Nat
    BY <1>1, <1>2, CurrentFacts, ClaimFields
  <2>2. QED BY <1>1, <1>2, <1>3, <2>1, ClaimFields DEF Ordered
<1>5. \A c \in Claims : mirror'[c].v <= local[c].v
  BY <1>1, <1>3, <1>4 DEF MirrorMove, Ordered
<1>6. ASSUME NEW x \in pend.claims \cup Current \cup dl.q.claims
      PROVE  mirror'[x.id].v <= x.v
  <2>1. CASE mirror'[x.id] = mirror[x.id]
    BY <1>4, <2>1
  <2>2. CASE mirror'[x.id] \in dl.out
    <3> DEFINE y == mirror'[x.id]
    <3>1. y \in dl.q.claims /\ y.id = x.id
      BY <1>1, <1>3, <1>4, <2>2
    <3>2. CASE x \in pend.claims
      BY <1>1, <3>1, <3>2 DEF Ordered
    <3>3. CASE x \in dl.q.claims
      <4>1. y = x
        BY <1>2, <3>1, <3>3 DEF OnePerId
      <4>2. QED BY <1>4, <4>1
    <3>4. CASE x \in Current
      BY <1>1, <1>4, <1>5, <3>4, CurrentFacts
    <3>5. QED BY <3>2, <3>3, <3>4
  <2>3. QED BY <1>4, <2>1, <2>2 DEF MirrorMove
<1>7. \A x \in pend'.claims \cup dl'.q.claims : x \in pend.claims \cup Current \cup dl.q.claims
  OBVIOUS
<1>8. \A y \in dl'.q.claims, x \in pend'.claims : x.id = y.id => y.v <= x.v
  <2>1. CASE dl'.q.claims = pend'.claims
    BY <1>2, <1>4, <1>7, <2>1 DEF OnePerId
  <2>2. CASE dl'.q.claims = {}
    BY <2>2
  <2>3. CASE dl'.q.claims = dl.q.claims /\ pend'.claims = pend.claims
    BY <1>1, <2>3 DEF Ordered
  <2>4. QED BY <2>1, <2>2, <2>3
<1>9. QED BY <1>4, <1>5, <1>6, <1>7, <1>8 DEF Ordered

\* A version on disk is only ever replaced by a newer one.
LEMMA LocalGrows ==
  ASSUME PlanInv, [KNext]_kvars
  PROVE  /\ TLocal'
         /\ \A c \in Claims : local'[c] = local[c] \/ local[c].v < local'[c].v
<1>1. TLocal'
  BY PlanNext DEF PlanInv
<1>2. CASE local' = local
  BY <1>1, <1>2
<1>3. CASE local' # local
  <2>1. PICK t \in Claim : write_claim(t) /\ (t # local[t.id] => local[t.id].v < t.v)
    BY <1>3, OneWrite
  <2>2. local'[t.id] = t /\ \A d \in Claims : d # t.id => local'[d] = local[d]
    BY <2>1, WriteClaimFacts DEF PlanInv
  <2>3. QED BY <1>1, <2>1, <2>2
<1>4. QED BY <1>2, <1>3

\* Versions stay in order when a writer moves on.
LEMMA OrderedWriter ==
  ASSUME UInv, KNext, UNCHANGED dvars
  PROVE  Ordered'
<1>1. PlanInv /\ TLocal /\ Ordered /\ TDelivery /\ QueueOK(pend)
  BY DEF UInv, KInv, PlanInv
<1>2. /\ TLocal' /\ \A c \in Claims : local'[c] = local[c] \/ local[c].v < local'[c].v
  BY <1>1, LocalGrows
<1>3. pend' = pend \/ Staged
  BY <1>1, StagedNext
<1>4. mirror' = mirror /\ dl' = dl
  BY DEF dvars
<1>5. /\ pend.claims \in SUBSET Claim /\ dl.q.claims \in SUBSET Claim
      /\ Current \in SUBSET Claim
  BY <1>1, QueueFields, DeliveryFields, CurrentFacts DEF QueueOK
<1>6. \A c \in Claims : local[c].v \in Nat /\ local'[c].v \in Nat /\ mirror[c].v \in Nat
  BY <1>1, <1>2, ClaimFields DEF TLocal, TDelivery
<1>7. \A c \in Claims : mirror[c].v <= local'[c].v
  BY <1>1, <1>2, <1>6 DEF Ordered
<1>8. ASSUME NEW x \in pend.claims \cup dl.q.claims
      PROVE  /\ mirror[x.id].v <= x.v /\ x.v <= local'[x.id].v
             /\ x.v = local'[x.id].v => x = local'[x.id]
  <2>1. x.id \in Claims /\ x.v \in Nat
    BY <1>5, ClaimFields
  <2>2. /\ mirror[x.id].v <= x.v /\ x.v <= local[x.id].v
        /\ x.v = local[x.id].v => x = local[x.id]
    BY <1>1 DEF Ordered
  <2>3. QED BY <1>2, <1>6, <2>1, <2>2
<1>9. CASE pend' = pend
  BY <1>1, <1>4, <1>7, <1>8, <1>9 DEF Ordered
<1>10. CASE Staged
  <2>1. local' = local /\ pend'.claims \subseteq pend.claims \cup Current
    BY <1>10 DEF Staged
  <2>2. \A x \in Current : x.id \in Claims /\ local[x.id] = x /\ x.v \in Nat
    BY <1>1, <1>5, CurrentFacts, ClaimFields
  <2>3. \A x \in pend'.claims \cup dl.q.claims :
          /\ mirror[x.id].v <= x.v /\ x.v <= local[x.id].v
          /\ x.v = local[x.id].v => x = local[x.id]
    BY <1>1, <1>6, <1>8, <2>1, <2>2 DEF Ordered
  <2>4. \A y \in dl.q.claims, x \in pend'.claims : x.id = y.id => y.v <= x.v
    BY <1>1, <2>1, <2>2 DEF Ordered
  <2>5. QED BY <1>1, <1>4, <2>1, <2>3, <2>4 DEF Ordered
<1>11. QED BY <1>3, <1>9, <1>10

LEMMA GotoAny ==
  ASSUME TWriter
  PROVE  \A p : Goto(p) => /\ wr'.pc = p /\ wr'.op = wr.op /\ wr'.ids = wr.ids
                           /\ wr'.todo = wr.todo /\ wr'.done = wr.done
  BY DEF TWriter, Writer, Goto

\* Where the writer is after a step, and which step led to the places that matter.
LEMMA WriterAt ==
  ASSUME PlanInv, KNext
  PROVE  \/ wr' = wr /\ wr.op \in {"none", "policy"}
         \/ ack_policy
         \/ wr'.op = "none"
         \/ wr'.pc \in {"recover", "plan", "discard", "write", "progress", "stage"}
         \/ recover_pending_claim_edit_locked /\ wr'.pc = "recovered"
         \/ stage_edit /\ wr'.op = "edit" /\ wr'.pc = "clear"
         \/ stage_recap /\ wr'.op = "recap" /\ wr'.pc = "record"
         \/ record_dispute_if_new /\ wr'.op = "recap" /\ wr'.pc = "done"
         \/ stage_dream /\ wr'.op = "dream" /\ wr'.pc = "done"
         \/ wr'.op = "dream" /\ wr'.pc = "clear"
<1> DEFINE early == wr'.pc \in {"recover", "plan", "discard", "write", "progress", "stage"}
<1>1. TWriter /\ Idle.op = "none"
  BY DEF PlanInv, Idle
<1>2. ASSUME EditStep
      PROVE  \/ early \/ wr'.op = "none"
             \/ recover_pending_claim_edit_locked /\ wr'.pc = "recovered"
             \/ stage_edit /\ wr'.op = "edit" /\ wr'.pc = "clear"
  <2>1. \A c \in Claims : lock_edit(c) => wr'.pc = "recover"
    BY DEF lock_edit, Lock, Idle
  <2>2. recover_pending_claim_edit_locked => wr'.pc \in {"recovered", "plan"}
    <3>1. recover_pending_claim_edit_locked => \E p \in {"recovered", "plan"} : Goto(p)
      BY DEF recover_pending_claim_edit_locked
    <3>2. QED BY <1>1, <3>1, GotoAny
  <2>3. clear_recovered_edit => wr'.pc = "plan"
    BY <1>1, GotoAny DEF clear_recovered_edit
  <2>4. /\ journal_edit => wr'.pc = "write"
        /\ write_edit => wr'.pc = "stage"
        /\ stage_edit => wr'.pc = "clear" /\ wr'.op = "edit"
    BY <1>1, GotoAny DEF journal_edit, write_edit, stage_edit, At
  <2>5. give_up \/ clear_pending_claim_edit => wr'.op = "none"
    BY <1>1 DEF give_up, clear_pending_claim_edit
  <2>6. QED BY <1>2, <2>1, <2>2, <2>3, <2>4, <2>5 DEF EditStep
<1>3. ASSUME RecapStep
      PROVE  \/ early \/ wr'.op = "none"
             \/ stage_recap /\ wr'.op = "recap" /\ wr'.pc = "record"
             \/ record_dispute_if_new /\ wr'.op = "recap" /\ wr'.pc = "done"
  <2>1. lock_recap => wr'.pc = "recover"
    BY DEF lock_recap, Lock, Idle
  <2>2. commit_applied => wr'.op = "none"
    BY <1>1 DEF commit_applied
  <2>3. /\ prepare_recap => wr'.pc = "discard"
        /\ save_progress => wr'.pc = "write"
    BY <1>1, GotoAny DEF prepare_recap, save_progress
  <2>4. /\ stage_recap => wr'.op = "recap" /\ wr'.pc = "record"
        /\ record_dispute_if_new => wr'.op = "recap" /\ wr'.pc = "done"
    BY <1>1, GotoAny DEF stage_recap, record_dispute_if_new, At
  <2>5. /\ discard_stale_finalize_checkpoint => wr'.pc = "write"
        /\ apply_prepared_claim => wr'.pc = "progress"
    BY <1>1 DEF discard_stale_finalize_checkpoint, apply_prepared_claim, TWriter, Writer
  <2>6. QED BY <1>3, <2>1, <2>2, <2>3, <2>4, <2>5 DEF RecapStep
<1>4. ASSUME DreamStep
      PROVE  \/ early \/ wr'.op = "none"
             \/ wr' = wr /\ wr.op = "none"
             \/ stage_dream /\ wr'.op = "dream" /\ wr'.pc = "done"
             \/ wr'.op = "dream" /\ wr'.pc = "clear"
  <2>1. lock_dream => wr'.pc = "plan"
    BY DEF lock_dream, Lock, Idle
  <2>2. clear_dream_pending => wr'.op = "none"
    BY <1>1 DEF clear_dream_pending
  <2>3. /\ begin_dream => wr'.op = "dream" /\ wr'.pc \in {"clear", "discard"}
        /\ finish_dream => wr'.op = "dream" /\ wr'.pc = "clear"
        /\ stage_dream => wr'.op = "dream" /\ wr'.pc = "done"
    BY <1>1, GotoAny DEF begin_dream, finish_dream, stage_dream, At
  <2>4. check_dream \/ apply_dream_claim => wr'.pc \in {"stage", "write"}
    BY <1>1, GotoAny DEF check_dream, apply_dream_claim, TWriter, Writer, At
  <2>5. /\ \A g \in pend.groups, C \in SUBSET Claims :
             review_sync(g, C) => wr' = wr /\ wr.op = "none"
        /\ \A s \in Claims, C \in SUBSET Claims, rewrite \in BOOLEAN :
             prepare_dream(s, C, rewrite) => wr' = wr /\ wr.op = "none"
    BY DEF review_sync, prepare_dream
  <2>6. QED BY <1>4, <2>1, <2>2, <2>3, <2>4, <2>5 DEF DreamStep
<1>5. ASSUME PolicyStep
      PROVE  early \/ wr'.op = "none" \/ ack_policy \/ (wr' = wr /\ wr.op = "policy")
  <2>1. lock_policy => wr'.pc = "write"
    BY DEF lock_policy, Lock, Idle
  <2>2. apply_policy_deprecation => wr'.pc = "stage" \/ (wr' = wr /\ wr.op = "policy")
    BY <1>1, GotoAny DEF apply_policy_deprecation, At
  <2>3. stage_withdrawn => wr'.op = "none"
    BY <1>1 DEF stage_withdrawn
  <2>4. QED BY <1>5, <2>1, <2>2, <2>3 DEF PolicyStep
<1>6. ASSUME writer_crash PROVE wr'.op = "none"
  BY <1>1, <1>6 DEF writer_crash
<1>7. QED BY <1>2, <1>3, <1>4, <1>5, <1>6 DEF KNext

\* Only staging leads to the step that records the disputes.
LEMMA RecordStep ==
  ASSUME PlanInv, KNext, wr'.op = "recap", wr'.pc = "record"
  PROVE  stage_recap \/ (wr' = wr /\ UNCHANGED <<recap, ledger, pend>>)
<1>1. stage_recap \/ ack_policy
  BY WriterAt
<1>2. QED BY <1>1 DEF ack_policy

LEMMA LedgerStep ==
  ASSUME KNext
  PROVE  ledger' = ledger \/ record_dispute_if_new
<1>1. ASSUME EditStep PROVE ledger' = ledger
  BY <1>1
     DEF EditStep, lock_edit, Lock, recover_pending_claim_edit_locked, clear_recovered_edit,
         give_up, journal_edit, write_edit, stage_edit, clear_pending_claim_edit
<1>2. ASSUME RecapStep PROVE ledger' = ledger \/ record_dispute_if_new
  BY <1>2
     DEF RecapStep, lock_recap, Lock, prepare_recap, discard_stale_finalize_checkpoint,
         apply_prepared_claim, save_progress, stage_recap, commit_applied
<1>3. ASSUME DreamStep PROVE ledger' = ledger
  BY <1>3
     DEF DreamStep, prepare_dream, lock_dream, Lock, begin_dream, check_dream,
         apply_dream_claim, stage_dream, finish_dream, clear_dream_pending, review_sync
<1>4. ASSUME PolicyStep PROVE ledger' = ledger
  BY <1>4 DEF PolicyStep, lock_policy, Lock, apply_policy_deprecation, stage_withdrawn, ack_policy
<1>5. ASSUME writer_crash PROVE ledger' = ledger
  BY <1>5 DEF writer_crash
<1>6. QED BY <1>1, <1>2, <1>3, <1>4, <1>5 DEF KNext

LEMMA DisputesWriter ==
  ASSUME UInv, KNext, UNCHANGED dvars
  PROVE  DisputesHeld'
<1>1. PlanInv /\ QueueOK(pend) /\ DisputesHeld /\ answered' = answered /\ dl' = dl
  BY DEF UInv, KInv, dvars
<1>2. pend.disputes \subseteq pend'.disputes
  BY <1>1, StagedNext DEF Staged
<1>3. (ledger \subseteq pend.disputes \cup answered)'
  <2>1. CASE ledger' = ledger
    BY <1>1, <1>2, <2>1 DEF DisputesHeld
  <2>2. CASE record_dispute_if_new
    BY <1>1, <1>2, <2>2 DEF DisputesHeld, record_dispute_if_new
  <2>3. QED BY <2>1, <2>2, LedgerStep
<1>4. ASSUME wr'.op = "recap", wr'.pc = "record"
      PROVE  (recap.disputes \subseteq ledger \cup pend.disputes \cup answered)'
  <2>1. CASE stage_recap
    <3>1. pend'.disputes = pend.disputes \cup (recap.disputes \ ledger)
      BY <1>1, <2>1, RecapStaged
    <3>2. QED BY <2>1, <3>1 DEF stage_recap
  <2>2. CASE wr' = wr /\ UNCHANGED <<recap, ledger, pend>>
    BY <1>1, <1>4, <2>2 DEF DisputesHeld, At
  <2>3. QED BY <1>1, <1>4, <2>1, <2>2, RecordStep
<1>5. QED BY <1>1, <1>3, <1>4 DEF DisputesHeld, At

LEMMA UWriter ==
  ASSUME UInv, KNext, UNCHANGED dvars
  PROVE  UInv'
<1>1. KInv'
  BY KInvInductive DEF UInv
<1>2. TDelivery' /\ DShape'
  BY DEF UInv, TDelivery, DShape, dvars
<1>3. QED BY <1>1, <1>2, OrderedWriter, DisputesWriter DEF UInv

----------------------------------------------------------------------------
\* The steps of a delivery

\* The writers do not notice a delivery.
LEMMA KFrame ==
  ASSUME KInv, QueueOK(pend'), faults' \in 0..MaxFaults,
         UNCHANGED <<local, edit, recap, dream, dream_pending, policy, ledger, wr>>
  PROVE  KInv'
  BY PlanFrame DEF KInv

LEMMA MirrorStill ==
  ASSUME TDelivery, mirror' = mirror
  PROVE  MirrorMove
  BY DEF TDelivery, MirrorMove

LEMMA UBegin ==
  ASSUME UInv, begin_delivery
  PROVE  UInv'
<1>1. KInv /\ TDelivery /\ QueueOK(pend) /\ DisputesHeld
  BY DEF UInv, KInv
<1>2. /\ dl' \in Delivery /\ dl'.q = pend /\ dl'.rest = pend.claims /\ dl'.out = {}
      /\ dl'.pc \in {"round", "refresh"}
      /\ dl'.fail = EmptyQueue /\ UNCHANGED <<kvars, mirror, answered>>
  BY <1>1, BeginMove
<1>3. /\ pend' = pend /\ faults' \in 0..MaxFaults
      /\ UNCHANGED <<local, edit, recap, dream, dream_pending, policy, ledger, wr>>
  BY <1>1, <1>2 DEF kvars, KInv, PlanInv, TWriter
<1>4. KInv'
  BY <1>1, <1>3, KFrame
<1>5. TDelivery' /\ DShape'
  BY <1>1, <1>2, <1>3, NoDeliveryFacts DEF TDelivery, DShape
<1>6. Ordered'
  BY <1>1, <1>2, <1>3, MirrorStill, OrderedDelivery
<1>7. DisputesHeld'
  BY <1>1, <1>2, <1>3 DEF DisputesHeld, At
<1>8. QED BY <1>4, <1>5, <1>6, <1>7 DEF UInv

LEMMA URefresh ==
  ASSUME UInv, refresh_related
  PROVE  UInv'
<1>1. KInv /\ TLocal /\ TDelivery /\ QueueOK(pend) /\ DisputesHeld /\ DShape
  BY DEF UInv, KInv, PlanInv
<1>2. /\ dl.pc = "refresh" /\ dl' \in Delivery /\ dl'.pc = "round" /\ dl'.out = dl.out
      /\ dl'.fail = dl.fail
      /\ UNCHANGED <<local, edit, recap, dream, dream_pending, policy, ledger, wr, faults>>
      /\ UNCHANGED <<mirror, answered>>
      /\ \/ /\ pend' = write_or_clear(Refreshed(pend)) /\ dl'.q = Refreshed(pend)
            /\ dl'.rest = Refreshed(pend).claims
         \/ pend' = pend /\ dl'.q = dl.q /\ dl'.rest = dl.rest
  BY <1>1, RefreshMove
<1> DEFINE m == Refreshed(pend)
<1>3. /\ QueueOK(m) /\ m.disputes = pend.disputes
      /\ \E actual \in SUBSET Current : m.claims = Insert(pend.claims, actual)
  BY <1>1, RefreshedFacts
<1>m. \/ pend' = write_or_clear(m) /\ dl'.q = m /\ dl'.rest = m.claims
      \/ pend' = pend /\ dl'.q = dl.q /\ dl'.rest = dl.rest
  BY <1>2
<1> HIDE DEF m
<1>4. m.claims \subseteq pend.claims \cup Current
  <2>1. PICK actual \in SUBSET Current : m.claims = Insert(pend.claims, actual)
    BY <1>3
  <2>2. QED BY <1>1, <2>1, StagedClaims
<1>5. /\ QueueOK(pend') /\ pend'.disputes = pend.disputes
      /\ pend'.claims \subseteq pend.claims \cup Current
      /\ \/ dl'.q = m /\ dl'.rest = m.claims /\ pend'.claims = m.claims
         \/ dl'.q = dl.q /\ dl'.rest = dl.rest /\ pend' = pend
  BY <1>1, <1>3, <1>4, <1>m, WriteOrClear
<1>6. KInv'
  BY <1>1, <1>2, <1>5, KFrame DEF KInv, PlanInv, TWriter
<1>7. TDelivery'
  BY <1>1, <1>2, <1>3, <1>5 DEF TDelivery
<1>8. DShape'
  BY <1>1, <1>2, <1>5 DEF DShape
<1>9. Ordered'
  <2>1. \/ dl'.q.claims = pend'.claims
        \/ dl'.q.claims = dl.q.claims /\ pend'.claims = pend.claims
    BY <1>5
  <2>2. QED BY <1>1, <1>2, <1>5, <2>1, MirrorStill, OrderedDelivery
<1>10. DisputesHeld'
  BY <1>1, <1>2, <1>5 DEF DisputesHeld, At
<1>11. QED BY <1>6, <1>7, <1>8, <1>9, <1>10 DEF UInv

\* A step of the delivery that leaves the queue and the snapshot's claims alone.
LEMMA QuietDelivery ==
  ASSUME UInv, UNCHANGED kvars, MirrorMove, dl'.q.claims = dl.q.claims
  PROVE  KInv' /\ Ordered' /\ QueueOK(pend')
<1>1. /\ KInv /\ QueueOK(pend) /\ pend' = pend /\ local' = local /\ faults' \in 0..MaxFaults
      /\ UNCHANGED <<local, edit, recap, dream, dream_pending, policy, ledger, wr>>
  BY DEF UInv, kvars, KInv, PlanInv, TWriter
<1>2. KInv'
  BY <1>1, KFrame
<1>3. QED BY <1>1, <1>2, OrderedDelivery

LEMMA URound ==
  ASSUME UInv, next_round
  PROVE  UInv'
<1>1. TDelivery /\ DShape /\ DisputesHeld
  BY DEF UInv
<1>2. /\ dl.pc = "round" /\ dl' \in Delivery /\ dl'.q = dl.q
      /\ UNCHANGED <<kvars, mirror, answered>>
      /\ \/ /\ dl'.pc = "send" /\ dl'.out \subseteq dl.rest /\ dl'.rest = dl.rest \ dl'.out
            /\ dl'.fail = dl.fail
         \/ /\ dl'.pc = "disputes" /\ dl'.reports = dl.q.disputes /\ dl'.rest = {}
            /\ dl'.out = dl.out /\ dl'.fail.claims = dl.fail.claims \cup dl.rest
  BY <1>1, RoundMove
<1>3. KInv' /\ Ordered'
  BY <1>1, <1>2, MirrorStill, QuietDelivery
<1>4. TDelivery' /\ DShape'
  BY <1>1, <1>2 DEF TDelivery, DShape
<1>5. DisputesHeld'
  BY <1>1, <1>2 DEF DisputesHeld, At, kvars
<1>6. QED BY <1>3, <1>4, <1>5 DEF UInv

LEMMA USend ==
  ASSUME UInv, NEW c \in dl.out, Sent(c)
  PROVE  UInv' /\ MirrorMove
<1>1. TDelivery /\ DShape /\ DisputesHeld
  BY DEF UInv
<1>2. /\ dl.pc = "send" /\ dl' \in Delivery /\ QueueOK(dl'.q) /\ dl'.q.claims = dl.q.claims
      /\ dl'.rest = dl.rest /\ dl'.out = dl.out \ {c}
      /\ dl'.pc = (IF dl.out = {c} THEN "round" ELSE "send")
      /\ UNCHANGED <<kvars, answered>> /\ (UNCHANGED mirror \/ upload_claim(c))
      /\ dl'.fail.claims = dl.fail.claims \/ dl'.fail.claims = dl.fail.claims \cup {c}
  BY DEF Sent
<1>3. MirrorMove
  BY <1>1, <1>2, UploadMirror
<1>4. KInv' /\ Ordered'
  BY <1>2, <1>3, QuietDelivery
<1>5. TDelivery'
  BY <1>1, <1>2, <1>3 DEF TDelivery, MirrorMove
<1>6. DShape'
  BY <1>1, <1>2 DEF DShape
<1>7. DisputesHeld'
  BY <1>1, <1>2 DEF DisputesHeld, At, kvars
<1>8. QED BY <1>3, <1>4, <1>5, <1>6, <1>7 DEF UInv

LEMMA UReport ==
  ASSUME UInv, NEW d \in dl.reports, report_dispute(d)
  PROVE  UInv'
<1>1. TDelivery /\ DShape /\ DisputesHeld
  BY DEF UInv
<1>2. /\ dl.pc = "disputes" /\ dl' \in Delivery /\ dl'.pc = "disputes" /\ dl'.q = dl.q
      /\ dl'.rest = dl.rest /\ dl'.out = dl.out /\ dl'.reports = dl.reports \ {d}
      /\ dl'.fail.claims = dl.fail.claims
      /\ dl.fail.disputes \subseteq dl'.fail.disputes
      /\ UNCHANGED <<kvars, mirror>> /\ answered' \in SUBSET Disputes
      /\ answered \subseteq answered' /\ (d \in answered' \/ d \in dl'.fail.disputes)
  BY <1>1, ReportMove
<1>3. KInv' /\ Ordered'
  BY <1>1, <1>2, MirrorStill, QuietDelivery
<1>4. TDelivery' /\ DShape'
  BY <1>1, <1>2 DEF TDelivery, DShape
<1>5. DisputesHeld'
  BY <1>1, <1>2 DEF DisputesHeld, At, kvars
<1>6. QED BY <1>3, <1>4, <1>5 DEF UInv

LEMMA UFinish ==
  ASSUME UInv, finish_delivery
  PROVE  UInv'
<1>1. KInv /\ TDelivery /\ DShape /\ DisputesHeld /\ QueueOK(pend)
  BY DEF UInv, KInv
<1>2. /\ dl.pc = "disputes" /\ dl.reports = {} /\ dl' = NoDelivery /\ QueueOK(pend')
      /\ pend'.claims = (pend.claims \ Gone(pend, dl.q, dl.fail)) \cup Back(pend, dl.q, dl.fail)
      /\ pend'.disputes = (pend.disputes \ dl.q.disputes) \cup dl.fail.disputes
      /\ UNCHANGED <<local, edit, recap, dream, dream_pending, policy, ledger, wr, faults>>
      /\ UNCHANGED <<mirror, answered>>
  BY <1>1, FinishMove
<1>3. Back(pend, dl.q, dl.fail) \subseteq dl.q.claims
  BY DEF Back, Failed
<1>4. KInv'
  BY <1>1, <1>2, KFrame DEF KInv, PlanInv, TWriter
<1>5. TDelivery' /\ DShape'
  BY <1>1, <1>2, NoDeliveryFacts DEF TDelivery, DShape
<1>6. Ordered'
  <2>1. pend'.claims \subseteq pend.claims \cup Current \cup dl.q.claims
    BY <1>2, <1>3
  <2>2. dl'.q.claims = {}
    BY <1>2, NoDeliveryFacts
  <2>3. QED BY <1>1, <1>2, <2>1, <2>2, MirrorStill, OrderedDelivery
<1>7. DisputesHeld'
  <2>1. dl'.pc # "disputes"
    BY <1>2, NoDeliveryFacts
  <2>2. pend.disputes \subseteq pend'.disputes \cup answered
    BY <1>1, <1>2 DEF DisputesHeld
  <2>3. QED BY <1>1, <1>2, <2>1, <2>2 DEF DisputesHeld, At
<1>8. QED BY <1>4, <1>5, <1>6, <1>7 DEF UInv

LEMMA UCancelled ==
  ASSUME UInv, delivery_cancelled
  PROVE  UInv' /\ MirrorMove
<1>1. KInv /\ TDelivery /\ DShape /\ DisputesHeld /\ QueueOK(pend)
  BY DEF UInv, KInv
<1>2. /\ Fault /\ dl' = NoDelivery /\ answered' = answered /\ pend' = pend /\ local' = local
      /\ UNCHANGED <<local, edit, recap, dream, dream_pending, policy, ledger, wr>>
  BY DEF delivery_cancelled
<1>3. MirrorMove
  BY <1>1, CancelledMirror
<1>4. faults' \in 0..MaxFaults
  BY <1>1, <1>2, FaultCount DEF KInv, PlanInv
<1>5. KInv'
  BY <1>1, <1>2, <1>4, KFrame
<1>6. TDelivery' /\ DShape'
  BY <1>1, <1>2, <1>3, NoDeliveryFacts DEF TDelivery, DShape, MirrorMove
<1>7. Ordered'
  <2>1. dl'.q.claims = {}
    BY <1>2, NoDeliveryFacts
  <2>2. QED BY <1>1, <1>2, <1>3, <2>1, OrderedDelivery
<1>8. DisputesHeld'
  <2>1. dl'.pc # "disputes"
    BY <1>2, NoDeliveryFacts
  <2>2. QED BY <1>1, <1>2, <2>1 DEF DisputesHeld, At
<1>9. QED BY <1>3, <1>5, <1>6, <1>7, <1>8 DEF UInv

LEMMA UInit == Init => UInv
<1> SUFFICES ASSUME Init PROVE UInv
  OBVIOUS
<1>1. KInv /\ pend = EmptyQueue /\ ledger = {} /\ wr = Idle
  BY KInvInductive DEF Init, KInit
<1>2. mirror = local /\ answered = {} /\ dl = NoDelivery
  BY DEF Init
<1>3. TDelivery /\ DShape
  BY <1>1, <1>2, NoDeliveryFacts DEF TDelivery, DShape, KInv, PlanInv, TLocal
<1>4. Ordered
  <2>1. pend.claims = {} /\ dl.q.claims = {}
    BY <1>1, <1>2, NoDeliveryFacts DEF EmptyQueue
  <2>2. \A c \in Claims : local[c].v \in Nat
    BY <1>1, ClaimFields DEF KInv, PlanInv, TLocal
  <2>3. QED BY <1>2, <2>1, <2>2 DEF Ordered
<1>5. DisputesHeld
  BY <1>1, <1>2, NoDeliveryFacts DEF DisputesHeld, At, Idle
<1>6. QED BY <1>1, <1>3, <1>4, <1>5 DEF UInv

\* Every step keeps the invariant, and writes to the mirror only what is in flight.
LEMMA UNext == UInv /\ [Next]_vars => UInv' /\ MirrorMove
<1> SUFFICES ASSUME UInv, [Next]_vars PROVE UInv' /\ MirrorMove
  OBVIOUS
<1>1. TDelivery
  BY DEF UInv
<1>2. CASE UNCHANGED vars
  <2>1. UNCHANGED kvars /\ UNCHANGED dvars
    BY <1>2 DEF vars
  <2>2. mirror' = mirror /\ dl' = dl /\ answered' = answered
    BY <2>1 DEF dvars
  <2>3. KInv' /\ Ordered' /\ MirrorMove
    BY <1>1, <2>1, <2>2, MirrorStill, QuietDelivery
  <2>4. TDelivery' /\ DShape' /\ DisputesHeld'
    BY <2>1, <2>2 DEF UInv, TDelivery, DShape, DisputesHeld, At, kvars
  <2>5. QED BY <2>3, <2>4 DEF UInv
<1>3. CASE KNext /\ UNCHANGED dvars
  BY <1>1, <1>3, UWriter, MirrorStill DEF dvars
<1>4. CASE begin_delivery \/ refresh_related \/ next_round \/ finish_delivery
  <2>1. mirror' = mirror
    BY <1>4 DEF begin_delivery, refresh_related, next_round, finish_delivery
  <2>2. QED BY <1>1, <1>4, <2>1, MirrorStill, UBegin, URefresh, URound, UFinish
<1>5. CASE \E c \in dl.out : upload_succeeds(c) \/ upload_fails(c) \/ upload_refused(c)
  BY <1>1, <1>5, SendMove, USend
<1>6. CASE \E d \in dl.reports : report_dispute(d)
  <2>1. mirror' = mirror
    BY <1>6 DEF report_dispute
  <2>2. QED BY <1>1, <1>6, <2>1, MirrorStill, UReport
<1>7. CASE delivery_cancelled
  BY <1>7, UCancelled
<1>8. QED BY <1>2, <1>3, <1>4, <1>5, <1>6, <1>7 DEF Next, DeliveryStep

----------------------------------------------------------------------------
\* The theorems that follow from it

\* The queue, the snapshot of a delivery and the mirror keep their shape, whatever the
\* writers and deliveries do beside each other.
THEOREM UploadTypes == Spec => []UTypeOK
<1>1. UInv => UTypeOK
  BY KInvTypes DEF UInv, TDelivery, UTypeOK
<1>2. QED BY <1>1, UInit, UNext, PTL DEF Spec

\* The mirror only moves forward: no answer, lost answer, retry, cancelled delivery or
\* restart puts an older version of a claim over a newer one.
THEOREM MirrorOnlyMovesForward == Spec => MirrorMovesForward
<1>1. ASSUME UInv, MirrorMove PROVE \A c \in Claims : mirror'[c].v >= mirror[c].v
  <2>1. TDelivery /\ DShape /\ Ordered
    BY <1>1 DEF UInv
  <2>2. SUFFICES ASSUME NEW c \in Claims PROVE mirror'[c].v >= mirror[c].v
    OBVIOUS
  <2>3. mirror[c].v \in Nat /\ mirror'[c].v \in Nat /\ mirror'[c].id = c
    BY <1>1, <2>1, ClaimFields DEF TDelivery, MirrorMove
  <2>4. CASE mirror'[c] = mirror[c]
    BY <2>3, <2>4
  <2>5. CASE mirror'[c] \in dl.out
    <3>1. mirror'[c] \in dl.q.claims
      BY <2>1, <2>5 DEF DShape
    <3>2. mirror[mirror'[c].id].v <= mirror'[c].v
      BY <2>1, <3>1 DEF Ordered
    <3>3. QED BY <2>3, <3>2
  <2>6. QED BY <1>1, <2>4, <2>5 DEF MirrorMove
<1>2. UInv /\ [Next]_vars => [\A c \in Claims : mirror'[c].v >= mirror[c].v]_vars
  BY <1>1, UNext
<1>3. QED BY <1>2, UInit, UNext, PTL DEF Spec, MirrorMovesForward

\* A dispute on the ledger is never reported again, and it is in the queue until the
\* maintainer has answered.
THEOREM DisputesAreKept == Spec => []DisputeKept
<1>1. UInv => DisputeKept
  BY DEF UInv, DisputesHeld, DisputeKept
<1>2. QED BY <1>1, UInit, UNext, PTL DEF Spec

----------------------------------------------------------------------------
\* The second invariant: the team gets the last word

\* What may be given up when the maintainer refuses it.
OwnWord(x) == x.by \in {"recap", "policy"}
Covered(c) ==
  \/ local[c] = mirror[c]
  \/ local[c] \in pend.claims
  \/ AuthErrors /\ OwnWord(local[c])

SLocal ==
  /\ \A c \in Claims : Covered(c) \/ Journalled(c)
  /\ \A c \in Claims : local[c].by = "policy" => c \in Sourced /\ Exists(c)

\* Before a record is given up, what it stands for is covered.
SSteps ==
  /\ wr.pc = "recovered" \/ At("edit", "clear") => \A e \in edit : Covered(e.target.id)
  /\ wr.op = "recap" /\ wr.pc \in {"record", "done"} =>
       \A x \in (recap.targets \cup recap.applied) \cap Current : Covered(x.id)
  /\ At("dream", "done") => \A x \in dream.after \cap Current : Covered(x.id)

\* An attempted claim is to be sent, in flight, failed, mirrored, or given up.
SDelivery ==
  \A x \in dl.q.claims :
    \/ x \in dl.rest \/ x \in dl.out \/ x \in dl.fail.claims
    \/ mirror[x.id] = x
    \/ AuthErrors /\ OwnWord(x)

\* With refusals, what may not be given up has its mark: in the queue, in the snapshot,
\* and among the failed claims. Dream and policies are not at work then.
SMarks ==
  AuthErrors =>
    /\ \A x \in pend.claims : OwnWord(x) \/ x.id \in pend.durable
    /\ \A x \in dl.q.claims : OwnWord(x) \/ x.id \in dl.q.durable
    /\ \A x \in dl.fail.claims : x.id \in dl.q.durable => x.id \in dl.fail.durable
    /\ pend.groups = {} /\ dl.pc # "refresh"
    /\ wr.op \in {"none", "edit", "recap"} /\ dream.st = "none" /\ ~dream_pending

\* The instances in which the queue alone decides what is given up.
MarksDecide == AuthErrors => Ops \subseteq {"edit", "recap"}
SInv == MarksDecide => SLocal /\ SSteps /\ SDelivery /\ SMarks

\* A claim on disk is never older than the queue's, so all that is staged is taken.
LEMMA AllTaken ==
  ASSUME UInv, NEW cs \in SUBSET Current
  PROVE  /\ NotOlder(pend, cs) = cs
         /\ \A x \in cs : x \in Insert(pend.claims, NotOlder(pend, cs))
<1>1. TLocal /\ Ordered
  BY DEF UInv, KInv, PlanInv
<1>2. \A x \in cs : x.id \in Claims /\ local[x.id] = x /\ x.v \in Nat
  BY <1>1, CurrentFacts, ClaimFields
<1>3. pend.claims \in SUBSET Claim /\ cs \in SUBSET Claim
  BY <1>1, CurrentFacts, QueueFields DEF UInv, KInv, QueueOK
<1>4. \A x \in cs, e \in pend.claims : e.id = x.id => x.v >= e.v
  BY <1>1, <1>2, <1>3, ClaimFields DEF Ordered
<1>5. NotOlder(pend, cs) = cs
  BY <1>4 DEF NotOlder
<1>6. QED BY <1>3, <1>5, InsertFacts

LEMMA DurableTaken ==
  ASSUME UInv, NEW cs \in SUBSET Current,
         pend' = stage_maintainer_batch_with_durable_claims(pend, cs, {})
  PROVE  /\ \A x \in cs : x \in pend'.claims
         /\ \A x \in pend'.claims : x \in pend.claims \/ x.id \in pend'.durable
         /\ pend.durable \subseteq pend'.durable
         /\ pend.groups = {} => pend'.groups = {}
<1>1. cs \in SUBSET Claim /\ OnePerId(cs) /\ QueueOK(pend) /\ pend.claims \in SUBSET Claim
  BY StagedSets, QueueFields DEF UInv, KInv, PlanInv, QueueOK
<1>2. /\ pend'.claims = Insert(pend.claims, NotOlder(pend, cs))
      /\ pend.durable \cup Ids(NotOlder(pend, cs)) \subseteq pend'.durable
      /\ \A k \in pend'.groups : \E g \in pend.groups :
           k.retired.id = g.retired.id /\ k.carriers = g.carriers
  BY <1>1, StageDurableFacts
<1>3. NotOlder(pend, cs) = cs /\ \A x \in cs : x \in Insert(pend.claims, NotOlder(pend, cs))
  BY AllTaken
<1>4. \A x \in pend'.claims : x \in cs \/ x \in pend.claims
  <2>1. pend'.claims = Insert(pend.claims, cs)
    BY <1>2, <1>3
  <2>2. \A x : x \in Insert(pend.claims, cs) <=> x \in cs \/ (x \in pend.claims /\ x.id \notin Ids(cs))
    BY <1>1, InsertFacts
  <2>3. QED BY <2>1, <2>2
<1>5. \A x \in cs : x.id \in Ids(cs)
  BY DEF Ids
<1>6. QED BY <1>2, <1>3, <1>4, <1>5

LEMMA RecapTaken ==
  ASSUME UInv, stage_recap
  PROVE  /\ \A x \in wr.done \cap Current : x \in pend'.claims
         /\ \A x \in pend'.claims : x \in pend.claims \/ x \in wr.done
         /\ pend.durable \subseteq pend'.durable
         /\ pend.groups = {} => pend'.groups = {}
<1> DEFINE cs == wr.done \cap Current
           ds == recap.disputes \ ledger
<1>1. PlanInv /\ TLocal /\ QueueOK(pend)
  BY DEF UInv, KInv, PlanInv
<1>2. pend' = stage_maintainer_batch(pend, cs, ds) /\ ds \in SUBSET Disputes
  BY <1>1, PlanFields DEF stage_recap, PlanInv
<1>3. cs \in SUBSET Current
  OBVIOUS
<1> HIDE DEF ds, cs
<1>4. cs \in SUBSET Claim /\ OnePerId(cs) /\ pend.claims \in SUBSET Claim
  BY <1>1, <1>3, StagedSets, QueueFields DEF QueueOK
<1>5. /\ pend'.claims = Insert(pend.claims, NotOlder(pend, cs))
      /\ pend.durable \subseteq pend'.durable
      /\ \A k \in pend'.groups : \E g \in pend.groups :
           k.retired.id = g.retired.id /\ k.carriers = g.carriers
  BY <1>1, <1>2, <1>4, StageFacts
<1>6. NotOlder(pend, cs) = cs /\ \A x \in cs : x \in Insert(pend.claims, NotOlder(pend, cs))
  BY <1>3, AllTaken
<1>7. \A x \in pend'.claims : x \in cs \/ x \in pend.claims
  <2>1. pend'.claims = Insert(pend.claims, cs)
    BY <1>5, <1>6
  <2>2. \A x : x \in Insert(pend.claims, cs) <=> x \in cs \/ (x \in pend.claims /\ x.id \notin Ids(cs))
    BY <1>4, InsertFacts
  <2>3. QED BY <2>1, <2>2
<1>8. QED BY <1>5, <1>6, <1>7 DEF cs

LEMMA DreamTaken ==
  ASSUME UInv, stage_dream
  PROVE  \A x \in dream.after \cap Current : x \in pend'.claims
<1> DEFINE carriers == {c \in dream.after : ~c.dep}
           groups == {[before |-> Entry(dream.before, r.id), retired |-> r,
                       carriers |-> carriers] : r \in {c \in wr.done : c.dep}}
<1>1. PlanInv /\ TLocal /\ QueueOK(pend)
  BY DEF UInv, KInv, PlanInv
<1>2. /\ wr.op = "dream" /\ wr.pc = "stage"
      /\ pend' = stage_consolidation_batch(pend, wr.done, groups)
  BY DEF stage_dream, At
<1>3. wr.done = dream.after \cap Current /\ GoodGroup
  BY <1>1, <1>2 DEF PlanInv, KDream
<1>4. groups \in SUBSET ConsolidationDelivery /\ GroupsOK(groups)
  BY <1>1, <1>3, DreamGroups
<1> HIDE DEF groups
<1>5. wr.done \in SUBSET Claim /\ OnePerId(wr.done) /\ wr.done \in SUBSET Current
  BY <1>1, <1>3, StagedSets
<1>6. pend'.claims = Insert(pend.claims, NotOlder(pend, wr.done))
  BY <1>1, <1>2, <1>4, <1>5, ConsolidationFacts
<1>7. QED BY <1>3, <1>5, <1>6, AllTaken

LEMMA WithdrawnTaken ==
  ASSUME UInv, stage_withdrawn
  PROVE  /\ \A c \in Sourced : Exists(c) => local[c] \in pend'.claims
         /\ \A k \in pend'.groups :
              /\ \E g \in pend.groups : k.retired.id = g.retired.id
              /\ ~\E c \in pend'.claims : c.id = k.retired.id /\ c.dep /\ c.id \in Sourced
<1> DEFINE cs == {local[c] : c \in {d \in Sourced : Exists(d)}}
<1>1. TLocal /\ QueueOK(pend)
  BY DEF UInv, KInv, PlanInv
<1>2. pend' = stage_policy_deprecation(pend, cs, Sourced)
  BY DEF stage_withdrawn
<1>3. cs \in SUBSET Current /\ \A c \in Sourced : Exists(c) => local[c] \in cs
  BY KnowledgeAssumption DEF Current
<1> HIDE DEF cs
<1>4. cs \in SUBSET Claim /\ OnePerId(cs)
  BY <1>1, <1>3, StagedSets
<1>5. /\ pend'.claims = Insert(pend.claims, NotOlder(pend, cs))
      /\ \A k \in pend'.groups :
           /\ \E g \in pend.groups : k.retired.id = g.retired.id
           /\ ~\E c \in pend'.claims : c.id = k.retired.id /\ c.dep /\ c.id \in Sourced
  BY <1>1, <1>2, <1>4, PolicyStageFacts
<1>6. QED BY <1>3, <1>5, AllTaken

----------------------------------------------------------------------------
\* The second invariant under the steps of a writer

LEMMA CoveredWriter ==
  ASSUME UInv, KNext, UNCHANGED dvars, NEW c \in Claims, local'[c] = local[c], Covered(c)
  PROVE  Covered(c)'
<1>1. PlanInv /\ QueueOK(pend) /\ mirror' = mirror
  BY DEF UInv, KInv, dvars
<1>2. local[c] \in pend.claims => local[c] \in pend'.claims
  <2>1. local[c] \in Current
    BY DEF Current
  <2>2. QED BY <1>1, <2>1, StagedNext DEF Staged
<1>3. QED BY <1>1, <1>2 DEF Covered, OwnWord

\* A version just written is in the record it was written from.
LEMMA Written ==
  ASSUME PlanInv, KNext, NEW c \in Claims, local'[c] # local[c]
  PROVE  /\ Journalled(c)'
         /\ local'[c].by = "policy" => c \in Sourced
<1>1. CASE write_edit
  <2>1. PICK e \in edit : write_claim(e.target)
    BY <1>1 DEF write_edit
  <2>2. e.target \in Claim /\ e.target.by = "user" /\ edit' = edit
    BY <1>1 DEF write_edit, PlanInv, TRecords, PendingClaimEdit, KEdit
  <2>3. local'[c] = e.target
    BY <2>1, <2>2, WriteClaimFacts DEF PlanInv
  <2>4. QED BY <2>2, <2>3 DEF Journalled
<1>2. CASE apply_prepared_claim
  <2>1. PICK t \in wr.todo : write_claim(t)
    BY <1>2 DEF apply_prepared_claim
  <2>2. /\ recap' = recap /\ recap.st = "prepared" /\ t \in recap.targets /\ t \in Claim
        /\ t.by = "recap"
    BY <1>2, WriterFields
       DEF apply_prepared_claim, At, PlanInv, KRecap, OnTrack, GoodPlan
  <2>3. local'[c] = t
    BY <2>1, <2>2, WriteClaimFacts DEF PlanInv
  <2>4. QED BY <2>2, <2>3 DEF Journalled
<1>3. CASE apply_dream_claim
  <2>1. PICK t \in wr.todo : write_claim(t)
    BY <1>3 DEF apply_dream_claim
  <2>2. /\ dream' = dream /\ dream.st = "prepared" /\ t \in dream.after /\ t \in Claim
        /\ local[t.id] \in dream.before /\ GoodGroup
    BY <1>3, WriterFields DEF apply_dream_claim, At, PlanInv, KDream
  <2>3. local'[c] = t /\ c = t.id
    BY <2>1, <2>2, WriteClaimFacts DEF PlanInv
  <2>4. t.by = "dream"
    BY <2>2, <2>3 DEF GoodGroup, PlanInv, TLocal
  <2>5. QED BY <2>2, <2>3, <2>4 DEF Journalled
<1>4. CASE apply_policy_deprecation
  <2>1. PICK d \in Sourced : /\ Exists(d) /\ ~local[d].dep
                             /\ write_claim(next_claim_update_at(d, TRUE, "policy"))
    BY <1>4 DEF apply_policy_deprecation
  <2>2. /\ d \in Claims /\ CanRevise(d) /\ policy' = policy /\ policy = "pending"
        /\ "policy" \in Writers
    BY <1>4, <2>1, KnowledgeAssumption
       DEF apply_policy_deprecation, At, PlanInv, KPolicy, Writers
  <2> DEFINE t == next_claim_update_at(d, TRUE, "policy")
  <2>t. TLocal
    BY DEF PlanInv
  <2>3. t \in Claim /\ t.id = d /\ t.by = "policy"
    BY <2>2, <2>t, NextWithdrawn
  <2>4. write_claim(t)
    BY <2>1
  <2> HIDE DEF t
  <2>5. local'[c] = t /\ c = d
    BY <2>3, <2>4, WriteClaimFacts DEF PlanInv
  <2>6. QED BY <2>2, <2>3, <2>5 DEF Journalled
<1>5. QED BY <1>1, <1>2, <1>3, <1>4, LocalWriters

\* The steps that change a record.
LEMMA RecordChanges ==
  ASSUME KNext
  PROVE  /\ \/ edit' = edit \/ recover_pending_claim_edit_locked \/ clear_recovered_edit
            \/ journal_edit \/ clear_pending_claim_edit
         /\ \/ recap' = recap \/ prepare_recap \/ discard_stale_finalize_checkpoint
            \/ save_progress \/ commit_applied
         /\ \/ dream' = dream \/ finish_dream
            \/ \E s \in Claims, C \in SUBSET Claims, rewrite \in BOOLEAN :
                 prepare_dream(s, C, rewrite)
         /\ policy' = policy \/ stage_withdrawn \/ ack_policy
<1>1. ASSUME EditStep
      PROVE  /\ recap' = recap /\ dream' = dream /\ policy' = policy
             /\ \/ edit' = edit \/ recover_pending_claim_edit_locked \/ clear_recovered_edit
                \/ journal_edit \/ clear_pending_claim_edit
  BY <1>1
     DEF EditStep, lock_edit, Lock, recover_pending_claim_edit_locked, clear_recovered_edit,
         give_up, journal_edit, write_edit, stage_edit, clear_pending_claim_edit
<1>2. ASSUME RecapStep
      PROVE  /\ edit' = edit /\ dream' = dream /\ policy' = policy
             /\ \/ recap' = recap \/ prepare_recap \/ discard_stale_finalize_checkpoint
                \/ save_progress \/ commit_applied
  BY <1>2
     DEF RecapStep, lock_recap, Lock, prepare_recap, discard_stale_finalize_checkpoint,
         apply_prepared_claim, save_progress, stage_recap, record_dispute_if_new, commit_applied
<1>3. ASSUME DreamStep
      PROVE  /\ edit' = edit /\ recap' = recap /\ policy' = policy
             /\ \/ dream' = dream \/ finish_dream
                \/ \E s \in Claims, C \in SUBSET Claims, rewrite \in BOOLEAN :
                     prepare_dream(s, C, rewrite)
  BY <1>3
     DEF DreamStep, prepare_dream, lock_dream, Lock, begin_dream, check_dream,
         apply_dream_claim, stage_dream, finish_dream, clear_dream_pending, review_sync
<1>4. ASSUME PolicyStep
      PROVE  /\ edit' = edit /\ recap' = recap /\ dream' = dream
             /\ policy' = policy \/ stage_withdrawn \/ ack_policy
  BY <1>4 DEF PolicyStep, lock_policy, Lock, apply_policy_deprecation, stage_withdrawn, ack_policy
<1>5. ASSUME writer_crash
      PROVE  edit' = edit /\ recap' = recap /\ dream' = dream /\ policy' = policy
  BY <1>5 DEF writer_crash
<1>6. QED BY <1>1, <1>2, <1>3, <1>4, <1>5 DEF KNext

\* A record that is given up leaves no version behind.
LEMMA EditJournal ==
  ASSUME UInv, SSteps, KNext, NEW c \in Claims, NEW e \in edit, local[c] = e.target
  PROVE  Covered(c) \/ edit' = edit
<1>1. PlanInv /\ local[c].id = c
  BY DEF UInv, KInv, PlanInv, TLocal
<1>2. c = e.target.id /\ e.old.v < e.target.v /\ \A f \in edit : f = e
  BY <1>1 DEF PlanInv, KEdit, TRecords
<1>3. e.old # e.target
  <2>1. e.old.v \in Nat /\ e.target.v \in Nat
    BY <1>1, ClaimFields DEF PlanInv, TRecords, PendingClaimEdit
  <2>2. QED BY <1>2, <2>1
<1>4. CASE recover_pending_claim_edit_locked
  BY <1>2, <1>3, <1>4 DEF recover_pending_claim_edit_locked
<1>5. CASE clear_recovered_edit \/ clear_pending_claim_edit
  <2>1. wr.pc = "recovered" \/ At("edit", "clear")
    BY <1>5 DEF clear_recovered_edit, clear_pending_claim_edit
  <2>2. QED BY <1>2, <2>1 DEF SSteps
<1>6. CASE journal_edit
  BY <1>1, <1>6 DEF journal_edit, At, PlanInv, KEdit
<1>7. QED BY <1>4, <1>5, <1>6, RecordChanges

LEMMA RecapJournal ==
  ASSUME UInv, SSteps, KNext, NEW c \in Claims, recap.st = "prepared",
         local[c] \in recap.targets \cup recap.applied
  PROVE  Covered(c) \/ (recap'.st = "prepared" /\ local[c] \in recap'.targets \cup recap'.applied)
<1>1. PlanInv /\ local[c].id = c /\ recap \in Plan /\ GoodPlan
  BY DEF UInv, KInv, PlanInv, TLocal, TRecords, KRecap
<1>2. local[c] \in Current
  BY DEF Current
<1>3. CASE prepare_recap
  <2>1. recap' = recap
    BY <1>3 DEF prepare_recap
  <2>2. QED BY <2>1
<1>4. CASE discard_stale_finalize_checkpoint
  <2>1. local[c] \in observe_applied
    <3>1. CASE local[c] \in recap.applied
      BY <3>1 DEF observe_applied
    <3>2. CASE local[c] \in recap.targets /\ local[c].id \notin Ids(recap.applied)
      BY <1>2, <3>2 DEF observe_applied
    <3>3. CASE local[c] \in recap.targets /\ local[c].id \in Ids(recap.applied)
      <4>1. PICK y \in recap.applied : y.id = local[c].id
        BY <3>3 DEF Ids
      <4>2. y = local[c]
        BY <1>1, <3>3, <4>1 DEF GoodPlan, OnePerId
      <4>3. QED BY <4>1, <4>2 DEF observe_applied
    <3>4. QED BY <3>1, <3>2, <3>3
  <2>2. CASE recap' = recap
    BY <2>2
  <2>3. CASE recap' = [recap EXCEPT !.targets = {}, !.disputes = {}, !.analysis = local,
                                    !.applied = observe_applied]
    <3>1. recap'.st = "prepared" /\ recap'.applied = observe_applied
      BY <1>1, <2>3 DEF Plan
    <3>2. QED BY <2>1, <3>1
  <2>4. QED BY <1>4, <2>2, <2>3 DEF discard_stale_finalize_checkpoint
<1>5. CASE save_progress
  <2>1. OnTrack /\ recap' = [recap EXCEPT !.applied = wr.done]
    BY <1>1, <1>5 DEF save_progress, At, PlanInv, KRecap
  <2>2. /\ recap'.st = "prepared" /\ recap'.applied = wr.done
        /\ recap'.targets = recap.targets
    BY <1>1, <2>1 DEF Plan
  <2>3. QED BY <2>1, <2>2 DEF OnTrack
<1>6. CASE commit_applied
  <2>1. wr.op = "recap" /\ wr.pc = "done"
    BY <1>6 DEF commit_applied, At
  <2>2. QED BY <1>1, <1>2, <2>1 DEF SSteps
<1>7. QED BY <1>3, <1>4, <1>5, <1>6, RecordChanges

LEMMA DreamJournal ==
  ASSUME UInv, SSteps, KNext, NEW c \in Claims, dream.st = "prepared", local[c] \in dream.after
  PROVE  Covered(c) \/ dream' = dream
<1>1. local[c].id = c /\ local[c] \in Current
  BY DEF UInv, KInv, PlanInv, TLocal, Current
<1>2. CASE finish_dream
  BY <1>1, <1>2 DEF finish_dream, SSteps
<1>3. QED BY <1>2, RecordChanges DEF prepare_dream

LEMMA SLocalWriter ==
  ASSUME UInv, SLocal, SSteps, KNext, UNCHANGED dvars
  PROVE  SLocal'
<1>1. PlanInv /\ TLocal /\ QueueOK(pend)
  BY DEF UInv, KInv, PlanInv
<1>2. /\ TLocal' /\ \A c \in Claims : local'[c] = local[c] \/ local[c].v < local'[c].v
  BY <1>1, LocalGrows
<1>3. ASSUME NEW c \in Claims PROVE Covered(c)' \/ Journalled(c)'
  <2>1. CASE local'[c] # local[c]
    BY <1>1, <2>1, Written
  <2>2. CASE local'[c] = local[c] /\ Covered(c)
    BY <2>2, CoveredWriter
  <2>3. ASSUME local'[c] = local[c], ~Covered(c) PROVE Covered(c)' \/ Journalled(c)'
    <3>1. Journalled(c)
      BY <2>3 DEF SLocal
    <3>2. CASE \E e \in edit : local[c] = e.target
      BY <2>3, <3>2, EditJournal DEF Journalled
    <3>3. CASE recap.st = "prepared" /\ local[c] \in recap.targets \cup recap.applied
      BY <2>3, <3>3, RecapJournal DEF Journalled
    <3>4. CASE dream.st = "prepared" /\ local[c] \in dream.after
      BY <2>3, <3>4, DreamJournal DEF Journalled
    <3>5. CASE policy = "pending" /\ local[c].by = "policy"
      <4>1. CASE stage_withdrawn
        <5>1. c \in Sourced /\ Exists(c)
          BY <3>5 DEF SLocal
        <5>2. local[c] \in pend'.claims
          BY <4>1, <5>1, WithdrawnTaken
        <5>3. QED BY <2>3, <5>2 DEF Covered
      <4>2. CASE policy' = policy
        BY <2>3, <3>5, <4>2 DEF Journalled
      <4>3. QED BY <3>5, <4>1, <4>2, RecordChanges DEF ack_policy
    <3>6. QED BY <3>1, <3>2, <3>3, <3>4, <3>5 DEF Journalled
  <2>4. QED BY <2>1, <2>2, <2>3
<1>4. ASSUME NEW c \in Claims, local'[c].by = "policy" PROVE c \in Sourced /\ Exists(c)'
  <2>1. local[c].v \in Nat /\ local'[c].v \in Nat
    BY <1>1, <1>2, ClaimFields DEF TLocal
  <2>2. CASE local'[c] = local[c]
    BY <1>4, <2>2 DEF SLocal, Exists
  <2>3. CASE local'[c] # local[c]
    BY <1>1, <1>2, <1>4, <2>1, <2>3, Written DEF Exists
  <2>4. QED BY <2>2, <2>3
<1>5. QED BY <1>3, <1>4 DEF SLocal

LEMMA RecoverSteps ==
  ASSUME UInv, recover_pending_claim_edit_locked, wr'.pc = "recovered"
  PROVE  SSteps'
<1>1. PlanInv /\ TWriter
  BY DEF UInv, KInv, PlanInv
<1>2. PICK e \in edit :
        /\ pend' = stage_maintainer_batch_with_durable_claims(pend, {local[e.target.id]}, {})
        /\ edit' = edit /\ local' = local
  <2>1. ~Goto("plan")
    BY <1>1, GotoAny
  <2>2. QED BY <2>1 DEF recover_pending_claim_edit_locked
<1>3. e.target.id \in Claims /\ \A f \in edit : f = e
  BY <1>1 DEF PlanInv, TRecords, PendingClaimEdit, Claim
<1>4. {local[e.target.id]} \in SUBSET Current
  BY <1>3 DEF Current
<1>5. local[e.target.id] \in pend'.claims
  BY <1>2, <1>4, DurableTaken
<1>6. \A f \in edit' : Covered(f.target.id)'
  BY <1>2, <1>3, <1>5 DEF Covered
<1>7. QED BY <1>6 DEF SSteps, At

LEMMA EditSteps ==
  ASSUME UInv, stage_edit, wr'.op = "edit", wr'.pc = "clear"
  PROVE  SSteps'
<1>1. PlanInv /\ TWriter /\ wr.op = "edit" /\ wr.pc = "stage"
  BY DEF UInv, KInv, PlanInv, stage_edit, At
<1>2. /\ pend' = stage_maintainer_batch_with_durable_claims(pend, {local[c] : c \in wr.ids}, {})
      /\ edit' = edit /\ local' = local
  BY DEF stage_edit
<1>3. {local[c] : c \in wr.ids} \in SUBSET Current
  BY <1>1, WriterFields DEF Current
<1>4. \A c \in wr.ids : local[c] \in pend'.claims
  BY <1>2, <1>3, DurableTaken
<1>5. \A e \in edit : e.target.id \in wr.ids
  BY <1>1 DEF PlanInv, KEdit
<1>6. \A f \in edit' : Covered(f.target.id)'
  BY <1>2, <1>4, <1>5 DEF Covered
<1>7. QED BY <1>6 DEF SSteps, At

LEMMA RecapSteps ==
  ASSUME UInv, stage_recap, wr'.op = "recap", wr'.pc = "record"
  PROVE  SSteps'
<1>1. PlanInv /\ TLocal /\ wr.op = "recap" /\ wr.pc = "write" /\ wr.todo = {}
  BY DEF UInv, KInv, PlanInv, stage_recap, At
<1>2. local' = local /\ recap' = recap
  BY DEF stage_recap
<1>3. recap.targets \cup recap.applied \subseteq wr.done
  BY <1>1 DEF PlanInv, KRecap, OnTrack
<1>4. \A x \in wr.done \cap Current : x \in pend'.claims
  BY RecapTaken
<1>5. \A x \in Current : local[x.id] = x
  BY <1>1, CurrentFacts
<1>6. Current' = Current
  BY <1>2 DEF Current
<1>7. ASSUME NEW x \in ((recap.targets \cup recap.applied) \cap Current)' PROVE Covered(x.id)'
  <2>1. x \in wr.done \cap Current
    BY <1>2, <1>3, <1>6
  <2>2. QED BY <1>2, <1>4, <1>5, <2>1 DEF Covered
<1>8. QED BY <1>7 DEF SSteps, At

LEMMA RecordSteps ==
  ASSUME UInv, SSteps, KNext, UNCHANGED dvars, record_dispute_if_new,
         wr'.op = "recap", wr'.pc = "done"
  PROVE  SSteps'
<1>1. /\ local' = local /\ recap' = recap /\ wr.op = "recap" /\ wr.pc = "record" /\ TLocal
  BY DEF UInv, KInv, PlanInv, record_dispute_if_new, At
<1>2. Current' = Current
  BY <1>1 DEF Current
<1>3. \A x \in Current : x.id \in Claims
  BY <1>1, CurrentFacts
<1>4. ASSUME NEW x \in ((recap.targets \cup recap.applied) \cap Current)' PROVE Covered(x.id)'
  <2>1. x \in (recap.targets \cup recap.applied) \cap Current
    BY <1>1, <1>2
  <2>2. Covered(x.id)
    BY <1>1, <2>1 DEF SSteps
  <2>3. QED BY <1>1, <1>3, <2>1, <2>2, CoveredWriter
<1>5. QED BY <1>4 DEF SSteps, At

LEMMA DreamSteps ==
  ASSUME UInv, stage_dream, wr'.op = "dream", wr'.pc = "done"
  PROVE  SSteps'
<1>1. local' = local /\ dream' = dream /\ TLocal
  BY DEF UInv, KInv, PlanInv, stage_dream
<1>2. Current' = Current /\ \A x \in Current : local[x.id] = x
  BY <1>1, CurrentFacts DEF Current
<1>3. \A x \in dream.after \cap Current : x \in pend'.claims
  BY DreamTaken
<1>4. \A x \in (dream.after \cap Current)' : Covered(x.id)'
  BY <1>1, <1>2, <1>3 DEF Covered
<1>5. QED BY <1>4 DEF SSteps, At

LEMMA SStepsWriter ==
  ASSUME UInv, SSteps, KNext, UNCHANGED dvars
  PROVE  SSteps'
<1>1. PlanInv /\ PlanInv' /\ mirror' = mirror
  BY PlanNext DEF UInv, KInv, dvars
<1>2. wr.pc \in Steps(wr.op) /\ wr'.pc \in Steps(wr'.op)
  BY <1>1 DEF PlanInv, KSteps
<1>3. CASE ack_policy
  BY <1>1, <1>3 DEF ack_policy, SSteps, Covered, OwnWord, At, Current
<1>4. CASE \/ wr' = wr /\ wr.op \in {"none", "policy"}
           \/ wr'.op = "none"
           \/ wr'.pc \in {"recover", "plan", "discard", "write", "progress", "stage"}
           \/ wr'.op = "dream" /\ wr'.pc = "clear"
  <2>1. wr'.pc \notin {"recovered", "record", "done"} /\ ~(wr'.op = "edit" /\ wr'.pc = "clear")
    BY <1>2, <1>4, StepsFacts
  <2>2. QED BY <2>1 DEF SSteps, At
<1>5. QED BY <1>1, <1>3, <1>4, WriterAt, RecoverSteps, EditSteps, RecapSteps, RecordSteps, DreamSteps

\* With refusals only a user and Recaps are at work.
LEMMA RefusalSteps ==
  ASSUME AuthErrors, MarksDecide, SMarks, KNext
  PROVE  EditStep \/ RecapStep \/ writer_crash \/ ack_policy
<1>1. /\ Ops \subseteq {"edit", "recap"} /\ pend.groups = {}
      /\ wr.op \in {"none", "edit", "recap"} /\ dream.st = "none" /\ ~dream_pending
  BY DEF MarksDecide, SMarks
<1>2. ~DreamStep
  BY <1>1
     DEF DreamStep, prepare_dream, lock_dream, begin_dream, check_dream, apply_dream_claim,
         stage_dream, finish_dream, clear_dream_pending, review_sync, At
<1>3. PolicyStep => ack_policy
  BY <1>1 DEF PolicyStep, lock_policy, apply_policy_deprecation, stage_withdrawn, At
<1>4. QED BY <1>2, <1>3 DEF KNext

\* The frame of their steps.
LEMMA RefusalFrame ==
  ASSUME TWriter, EditStep \/ RecapStep \/ writer_crash \/ ack_policy,
         wr.op \in {"none", "edit", "recap"}
  PROVE  /\ wr'.op \in {"none", "edit", "recap"} /\ UNCHANGED <<dream, dream_pending>>
         /\ \/ pend' = pend \/ stage_recap
            \/ recover_pending_claim_edit_locked \/ stage_edit
<1>1. Idle.op = "none"
  BY DEF Idle
<1>2. ASSUME EditStep
      PROVE  /\ UNCHANGED <<dream, dream_pending>>
             /\ pend' = pend \/ recover_pending_claim_edit_locked \/ stage_edit
             /\ wr'.op \in {"none", "edit", wr.op}
  <2>1. /\ UNCHANGED <<dream, dream_pending>>
        /\ pend' = pend \/ recover_pending_claim_edit_locked \/ stage_edit
    BY <1>2
       DEF EditStep, lock_edit, Lock, recover_pending_claim_edit_locked, clear_recovered_edit,
           give_up, journal_edit, write_edit, stage_edit, clear_pending_claim_edit
  <2>2. \A c \in Claims : lock_edit(c) => wr'.op = "edit"
    BY DEF lock_edit, Lock, Idle
  <2>3. recover_pending_claim_edit_locked => wr'.op = wr.op
    <3>1. recover_pending_claim_edit_locked => \E p \in {"recovered", "plan"} : Goto(p)
      BY DEF recover_pending_claim_edit_locked
    <3>2. QED BY <3>1, GotoAny
  <2>4. clear_recovered_edit \/ journal_edit \/ write_edit \/ stage_edit => wr'.op = wr.op
    BY GotoAny DEF clear_recovered_edit, journal_edit, write_edit, stage_edit
  <2>5. give_up \/ clear_pending_claim_edit => wr'.op = "none"
    BY <1>1 DEF give_up, clear_pending_claim_edit
  <2>6. wr'.op \in {"none", "edit", wr.op}
    BY <1>2, <2>2, <2>3, <2>4, <2>5 DEF EditStep
  <2>7. QED BY <2>1, <2>6
<1>3. ASSUME RecapStep
      PROVE  /\ UNCHANGED <<dream, dream_pending>> /\ (pend' = pend \/ stage_recap)
             /\ wr'.op \in {"none", "recap"}
  <2>1. UNCHANGED <<dream, dream_pending>> /\ (pend' = pend \/ stage_recap)
    BY <1>3
       DEF RecapStep, lock_recap, Lock, prepare_recap, discard_stale_finalize_checkpoint,
           apply_prepared_claim, save_progress, stage_recap, record_dispute_if_new, commit_applied
  <2>2. lock_recap => wr'.op = "recap"
    BY DEF lock_recap, Lock, Idle
  <2>3. prepare_recap \/ save_progress \/ stage_recap \/ record_dispute_if_new => wr'.op = "recap"
    BY GotoAny DEF prepare_recap, save_progress, stage_recap, record_dispute_if_new, At
  <2>4. discard_stale_finalize_checkpoint \/ apply_prepared_claim => wr'.op = "recap"
    BY DEF discard_stale_finalize_checkpoint, apply_prepared_claim, At, TWriter, Writer
  <2>5. commit_applied => wr'.op = "none"
    BY <1>1 DEF commit_applied
  <2>6. QED BY <1>3, <2>1, <2>2, <2>3, <2>4, <2>5 DEF RecapStep
<1>4. ASSUME writer_crash \/ ack_policy
      PROVE  UNCHANGED <<dream, dream_pending>> /\ pend' = pend /\ wr'.op \in {"none", wr.op}
  BY <1>1, <1>4 DEF writer_crash, ack_policy
<1>5. QED BY <1>2, <1>3, <1>4

LEMMA SMarksWriter ==
  ASSUME UInv, MarksDecide, SMarks, KNext, UNCHANGED dvars
  PROVE  SMarks'
<1> SUFFICES ASSUME AuthErrors PROVE SMarks'
  BY DEF SMarks
<1>1. PlanInv /\ TWriter /\ dl' = dl
  BY DEF UInv, KInv, PlanInv, dvars
<1>2. /\ \A x \in pend.claims : OwnWord(x) \/ x.id \in pend.durable
      /\ pend.groups = {} /\ wr.op \in {"none", "edit", "recap"}
      /\ dream.st = "none" /\ ~dream_pending
  BY DEF SMarks
<1>3. /\ wr'.op \in {"none", "edit", "recap"} /\ UNCHANGED <<dream, dream_pending>>
      /\ \/ pend' = pend \/ stage_recap
         \/ recover_pending_claim_edit_locked \/ stage_edit
  BY <1>1, <1>2, RefusalSteps, RefusalFrame
<1>4. /\ \A x \in pend'.claims : OwnWord(x) \/ x.id \in pend'.durable
      /\ pend'.groups = {}
  <2>1. CASE pend' = pend
    BY <1>2, <2>1
  <2>2. ASSUME NEW cs \in SUBSET Current,
               pend' = stage_maintainer_batch_with_durable_claims(pend, cs, {})
        PROVE  /\ \A x \in pend'.claims : OwnWord(x) \/ x.id \in pend'.durable
               /\ pend'.groups = {}
    <3>1. /\ \A x \in pend'.claims : x \in pend.claims \/ x.id \in pend'.durable
          /\ pend.durable \subseteq pend'.durable
          /\ pend.groups = {} => pend'.groups = {}
      BY <2>2, DurableTaken
    <3>2. QED BY <1>2, <3>1
  <2>3. CASE recover_pending_claim_edit_locked /\ pend' # pend
    <3>1. PICK e \in edit :
            pend' = stage_maintainer_batch_with_durable_claims(pend, {local[e.target.id]}, {})
      BY <2>3 DEF recover_pending_claim_edit_locked
    <3>2. {local[e.target.id]} \in SUBSET Current
      BY <1>1 DEF PlanInv, TRecords, PendingClaimEdit, Claim, Current
    <3>3. QED BY <2>2, <3>1, <3>2
  <2>4. CASE stage_edit
    <3>1. {local[c] : c \in wr.ids} \in SUBSET Current
      BY <1>1, WriterFields DEF Current
    <3>2. QED BY <2>2, <2>4, <3>1 DEF stage_edit
  <2>5. CASE stage_recap
    <3>1. /\ \A x \in pend'.claims : x \in pend.claims \/ x \in wr.done
          /\ pend.durable \subseteq pend'.durable
          /\ pend.groups = {} => pend'.groups = {}
      BY <2>5, RecapTaken
    <3>2. \A t \in wr.done : t.by = "recap"
      BY <1>1, <2>5 DEF stage_recap, At, PlanInv, KRecap, OnTrack
    <3>3. QED BY <1>2, <3>1, <3>2 DEF OwnWord
  <2>6. QED BY <1>3, <2>1, <2>3, <2>4, <2>5
<1>5. /\ \A x \in dl'.q.claims : OwnWord(x) \/ x.id \in dl'.q.durable
      /\ \A x \in dl'.fail.claims : x.id \in dl'.q.durable => x.id \in dl'.fail.durable
      /\ dl'.pc # "refresh"
  BY <1>1 DEF SMarks
<1>6. QED BY <1>2, <1>3, <1>4, <1>5 DEF SMarks

LEMMA SWriter ==
  ASSUME UInv, MarksDecide, SLocal, SSteps, SDelivery, SMarks, KNext, UNCHANGED dvars
  PROVE  SLocal' /\ SSteps' /\ SDelivery' /\ SMarks'
<1>1. SDelivery'
  BY DEF SDelivery, dvars
<1>2. QED BY <1>1, SLocalWriter, SStepsWriter, SMarksWriter

----------------------------------------------------------------------------
\* The second invariant under the steps of a delivery

\* What the mirror has as it is on disk, or as it was attempted, it keeps.
LEMMA MirrorKeeps ==
  ASSUME UInv, MirrorMove
  PROVE  /\ \A c \in Claims : local[c] = mirror[c] => local[c] = mirror'[c]
         /\ \A x \in dl.q.claims : mirror[x.id] = x => mirror'[x.id] = x
<1>1. TLocal /\ TDelivery /\ DShape /\ Ordered
  BY DEF UInv, KInv, PlanInv
<1>2. \A c \in Claims : local[c].v \in Nat /\ local[c].id = c /\ mirror[c].v \in Nat
  BY <1>1, ClaimFields DEF TLocal, TDelivery
<1>3. /\ dl.out \subseteq dl.q.claims /\ OnePerId(dl.q.claims)
      /\ \A x \in dl.q.claims : x.id \in Claims /\ x.v \in Nat
  BY <1>1, DeliveryFields, ClaimFields DEF DShape
<1>4. ASSUME NEW c \in Claims, local[c] = mirror[c] PROVE local[c] = mirror'[c]
  <2>1. CASE mirror'[c] = mirror[c]
    BY <1>4, <2>1
  <2>2. ASSUME NEW y \in dl.out, mirror'[c] = y PROVE local[c] = mirror'[c]
    <3>1. y \in dl.q.claims /\ y.id = c /\ y.v \in Nat
      BY <1>3, <2>2 DEF MirrorMove
    <3>2. /\ mirror[c].v <= y.v /\ y.v <= local[c].v
          /\ y.v = local[c].v => y = local[c]
      BY <1>1, <3>1 DEF Ordered
    <3>3. y.v = local[c].v
      BY <1>2, <1>4, <3>1, <3>2
    <3>4. QED BY <2>2, <3>2, <3>3
  <2>3. QED BY <2>1, <2>2 DEF MirrorMove
<1>5. ASSUME NEW x \in dl.q.claims, mirror[x.id] = x PROVE mirror'[x.id] = x
  BY <1>3, <1>5 DEF MirrorMove, OnePerId
<1>6. QED BY <1>4, <1>5

\* A delivery leaves every version covered that was, if the queue does.
LEMMA SMove ==
  ASSUME UInv, SLocal, SSteps, MirrorMove,
         UNCHANGED <<local, edit, recap, dream, dream_pending, policy, ledger, wr>>,
         \A c \in Claims : local[c] \in pend.claims =>
           \/ local[c] \in pend'.claims
           \/ local[c] = mirror[c]
           \/ AuthErrors /\ OwnWord(local[c])
  PROVE  SLocal' /\ SSteps'
<1>1. \A c \in Claims : Covered(c) => Covered(c)'
  BY MirrorKeeps DEF Covered, OwnWord
<1>2. \A c \in Claims : Journalled(c) => Journalled(c)'
  BY DEF Journalled
<1>3. SLocal'
  BY <1>1, <1>2 DEF SLocal, Exists
<1>4. TLocal /\ TRecords
  BY DEF UInv, KInv, PlanInv
<1>5. (\A e \in edit : e.target.id \in Claims) /\ \A x \in Current : x.id \in Claims
  BY <1>4, CurrentFacts DEF TRecords, PendingClaimEdit, Claim
<1>6. Current' = Current
  BY DEF Current
<1>7. SSteps'
  BY <1>1, <1>5, <1>6 DEF SSteps, At
<1>8. QED BY <1>3, <1>7

LEMMA SBegin ==
  ASSUME UInv, SLocal, SSteps, SDelivery, SMarks, begin_delivery
  PROVE  SLocal' /\ SSteps' /\ SDelivery' /\ SMarks'
<1>1. TDelivery /\ QueueOK(pend)
  BY DEF UInv, KInv
<1>2. /\ dl'.q = pend /\ dl'.rest = pend.claims
      /\ dl'.pc = (IF pend.groups = {} THEN "round" ELSE "refresh")
      /\ dl'.fail = EmptyQueue /\ UNCHANGED <<kvars, mirror>>
  BY <1>1, BeginMove
<1>3. /\ pend' = pend
      /\ UNCHANGED <<local, edit, recap, dream, dream_pending, policy, ledger, wr>>
  BY <1>2 DEF kvars
<1>4. SLocal' /\ SSteps'
  BY <1>1, <1>2, <1>3, MirrorStill, SMove
<1>5. SDelivery'
  BY <1>2 DEF SDelivery
<1>6. dl'.fail.claims = {}
  BY <1>2 DEF EmptyQueue
<1>7. SMarks'
  BY <1>2, <1>3, <1>6 DEF SMarks, OwnWord
<1>8. QED BY <1>4, <1>5, <1>7

LEMMA SRefresh ==
  ASSUME UInv, SLocal, SSteps, SDelivery, SMarks, refresh_related
  PROVE  SLocal' /\ SSteps' /\ SDelivery' /\ SMarks'
<1>1. TDelivery /\ QueueOK(pend) /\ TLocal
  BY DEF UInv, KInv, PlanInv
<1>2. /\ dl.pc = "refresh" /\ dl'.out = dl.out /\ dl'.fail = dl.fail
      /\ UNCHANGED <<local, edit, recap, dream, dream_pending, policy, ledger, wr>>
      /\ mirror' = mirror
      /\ \/ /\ pend' = write_or_clear(Refreshed(pend)) /\ dl'.q = Refreshed(pend)
            /\ dl'.rest = Refreshed(pend).claims
         \/ pend' = pend /\ dl'.q = dl.q /\ dl'.rest = dl.rest
  BY <1>1, RefreshMove
<1>3. SMarks'
  BY <1>2 DEF SMarks
<1>4. CASE pend' = pend /\ dl'.q = dl.q /\ dl'.rest = dl.rest
  <2>1. SLocal' /\ SSteps'
    BY <1>1, <1>2, <1>4, MirrorStill, SMove
  <2>2. SDelivery'
    BY <1>2, <1>4 DEF SDelivery
  <2>3. QED BY <1>3, <2>1, <2>2
<1>5. ASSUME pend' = write_or_clear(Refreshed(pend)), dl'.q = Refreshed(pend),
             dl'.rest = Refreshed(pend).claims
      PROVE  SLocal' /\ SSteps' /\ SDelivery'
  <2> DEFINE m == Refreshed(pend)
  <2>1. QueueOK(m) /\ \E actual \in SUBSET Current : m.claims = Insert(pend.claims, actual)
    BY <1>1, RefreshedFacts
  <2>2. pend' = write_or_clear(m) /\ dl'.q = m /\ dl'.rest = m.claims
    BY <1>5
  <2> HIDE DEF m
  <2>3. pend.claims \cap Current \subseteq m.claims
    <3>1. PICK actual \in SUBSET Current : m.claims = Insert(pend.claims, actual)
      BY <2>1
    <3>2. QED BY <1>1, <3>1, StagedClaims
  <2>4. pend'.claims = m.claims
    BY <2>1, <2>2, WriteOrClear
  <2>5. \A c \in Claims : local[c] \in pend.claims => local[c] \in pend'.claims
    BY <2>3, <2>4 DEF Current
  <2>6. SLocal' /\ SSteps'
    BY <1>1, <1>2, <2>5, MirrorStill, SMove
  <2>7. SDelivery'
    BY <2>2 DEF SDelivery
  <2>8. QED BY <2>6, <2>7
<1>6. QED BY <1>2, <1>3, <1>4, <1>5

LEMMA SRound ==
  ASSUME UInv, SLocal, SSteps, SDelivery, SMarks, next_round
  PROVE  SLocal' /\ SSteps' /\ SDelivery' /\ SMarks'
<1>1. TDelivery /\ DShape
  BY DEF UInv
<1>2. /\ dl.pc = "round" /\ dl'.q = dl.q /\ dl'.pc # "refresh"
      /\ UNCHANGED <<kvars, mirror, answered>>
      /\ \/ /\ dl'.rest = dl.rest \ dl'.out
            /\ dl'.fail = dl.fail
         \/ /\ dl'.rest = {}
            /\ dl'.out = dl.out /\ dl'.fail.claims = dl.fail.claims \cup dl.rest
            /\ dl'.fail.durable = dl.fail.durable \cup Ids(dl.rest)
  BY <1>1, RoundMove
<1>3. /\ pend' = pend
      /\ UNCHANGED <<local, edit, recap, dream, dream_pending, policy, ledger, wr>>
  BY <1>2 DEF kvars
<1>4. SLocal' /\ SSteps'
  BY <1>1, <1>2, <1>3, MirrorStill, SMove
<1>5. dl.out = {}
  BY <1>1, <1>2 DEF DShape
<1>6. SDelivery'
  BY <1>2, <1>5 DEF SDelivery
<1>7. \A x \in dl.rest : x.id \in Ids(dl.rest)
  BY DEF Ids
<1>8. AuthErrors => \A x \in dl'.fail.claims : x.id \in dl'.q.durable => x.id \in dl'.fail.durable
  BY <1>2, <1>7 DEF SMarks
<1>9. SMarks'
  BY <1>2, <1>3, <1>8 DEF SMarks
<1>10. QED BY <1>4, <1>6, <1>9

LEMMA SSend ==
  ASSUME UInv, SLocal, SSteps, SDelivery, SMarks, NEW c \in dl.out, Sent(c)
  PROVE  SLocal' /\ SSteps' /\ SDelivery' /\ SMarks'
<1>1. TDelivery /\ DShape /\ MirrorMove /\ c \in dl.q.claims
  BY USend DEF UInv, DShape
<1>2. /\ dl'.q.claims = dl.q.claims /\ dl'.q.durable = dl.q.durable
      /\ dl'.rest = dl.rest /\ dl'.out = dl.out \ {c} /\ dl'.pc # "refresh"
      /\ UNCHANGED <<kvars, answered>>
      /\ \/ upload_claim(c) /\ dl'.fail = dl.fail
         \/ /\ UNCHANGED mirror \/ upload_claim(c)
            /\ dl'.fail.claims = dl.fail.claims \cup {c}
            /\ dl'.fail.durable = IF c.id \in dl.q.durable THEN dl.fail.durable \cup {c.id}
                                  ELSE dl.fail.durable
         \/ AuthErrors /\ c.id \notin dl.q.durable /\ UNCHANGED mirror /\ dl'.fail = dl.fail
  BY DEF Sent
<1>3. /\ pend' = pend
      /\ UNCHANGED <<local, edit, recap, dream, dream_pending, policy, ledger, wr>>
  BY <1>2 DEF kvars
<1>4. SLocal' /\ SSteps'
  BY <1>1, <1>3, SMove
<1>5. dl.fail.claims \subseteq dl'.fail.claims
  BY <1>2
<1>6. \/ c \in dl'.fail.claims
      \/ mirror'[c.id] = c
      \/ AuthErrors /\ OwnWord(c)
  <2>1. CASE upload_claim(c)
    <3>1. c.id \in Claims /\ mirror \in [Claims -> Claim]
      BY <1>1, DeliveryFields, ClaimFields DEF TDelivery
    <3>2. QED BY <2>1, <3>1 DEF upload_claim
  <2>2. CASE AuthErrors /\ c.id \notin dl.q.durable
    BY <1>1, <2>2 DEF SMarks
  <2>3. QED BY <1>2, <2>1, <2>2
<1>7. ASSUME NEW x \in dl'.q.claims
      PROVE  \/ x \in dl'.rest \/ x \in dl'.out \/ x \in dl'.fail.claims
             \/ mirror'[x.id] = x
             \/ AuthErrors /\ OwnWord(x)
  <2>1. CASE x = c
    BY <1>6, <2>1
  <2>2. CASE x # c
    BY <1>1, <1>2, <1>5, <2>2, MirrorKeeps DEF SDelivery
  <2>3. QED BY <2>1, <2>2
<1>8. SDelivery'
  BY <1>7 DEF SDelivery, OwnWord
<1>9. AuthErrors => \A x \in dl'.fail.claims : x.id \in dl'.q.durable => x.id \in dl'.fail.durable
  BY <1>2 DEF SMarks
<1>10. SMarks'
  BY <1>2, <1>3, <1>9 DEF SMarks, OwnWord
<1>11. QED BY <1>4, <1>8, <1>10

LEMMA SReport ==
  ASSUME UInv, SLocal, SSteps, SDelivery, SMarks, NEW d \in dl.reports, report_dispute(d)
  PROVE  SLocal' /\ SSteps' /\ SDelivery' /\ SMarks'
<1>1. TDelivery
  BY DEF UInv
<1>2. /\ dl'.pc # "refresh" /\ dl'.q = dl.q /\ dl'.rest = dl.rest /\ dl'.out = dl.out
      /\ dl'.fail.claims = dl.fail.claims /\ dl'.fail.durable = dl.fail.durable
      /\ UNCHANGED <<kvars, mirror>>
  BY <1>1, ReportMove
<1>3. /\ pend' = pend
      /\ UNCHANGED <<local, edit, recap, dream, dream_pending, policy, ledger, wr>>
  BY <1>2 DEF kvars
<1>4. SLocal' /\ SSteps'
  BY <1>1, <1>2, <1>3, MirrorStill, SMove
<1>5. SDelivery' /\ SMarks'
  BY <1>2, <1>3 DEF SDelivery, SMarks
<1>6. QED BY <1>4, <1>5

LEMMA SFinish ==
  ASSUME UInv, SLocal, SSteps, SDelivery, SMarks, finish_delivery
  PROVE  SLocal' /\ SSteps' /\ SDelivery' /\ SMarks'
<1> DEFINE gone == Gone(pend, dl.q, dl.fail)
           back == Back(pend, dl.q, dl.fail)
           failed == Failed(dl.q, dl.fail)
<1>1. TDelivery /\ DShape /\ QueueOK(pend)
  BY DEF UInv, KInv
<1>2. /\ dl.pc = "disputes" /\ dl' = NoDelivery
      /\ pend'.claims = (pend.claims \ gone) \cup back
      /\ pend'.durable = ((pend.durable \ Ids(gone)) \cup (dl.fail.durable \cap Ids(failed)))
                         \cap Ids(pend'.claims)
      /\ pend'.groups \subseteq pend.groups
      /\ UNCHANGED <<local, edit, recap, dream, dream_pending, policy, ledger, wr>>
      /\ mirror' = mirror
  BY <1>1, FinishMove
<1>3. dl.rest = {} /\ dl.out = {} /\ OnePerId(pend.claims)
  BY <1>1, <1>2 DEF DShape, QueueOK, WellFormed
<1>4. /\ \A x \in gone : x \in dl.q.claims /\ x \in pend.claims /\ x \notin dl.fail.claims
      /\ back \subseteq failed /\ failed \subseteq dl.q.claims
      /\ \A x \in failed : \E y \in dl.fail.claims : y.id = x.id
  BY DEF Gone, Back, Failed, Ids
<1> HIDE DEF gone, back, failed
<1>5. \A c \in Claims : local[c] \in pend.claims =>
        \/ local[c] \in pend'.claims
        \/ local[c] = mirror[c]
        \/ AuthErrors /\ OwnWord(local[c])
  <2>1. SUFFICES ASSUME NEW c \in Claims, local[c] \in gone
                 PROVE  local[c] = mirror[c] \/ (AuthErrors /\ OwnWord(local[c]))
    BY <1>2
  <2>2. local[c].id = c
    BY DEF UInv, KInv, PlanInv, TLocal
  <2>3. QED BY <1>3, <1>4, <2>1, <2>2 DEF SDelivery
<1>6. SLocal' /\ SSteps'
  BY <1>1, <1>2, <1>5, MirrorStill, SMove
<1>7. SDelivery'
  BY <1>2, NoDeliveryFacts DEF SDelivery
<1>8. ASSUME AuthErrors, NEW x \in pend'.claims PROVE OwnWord(x) \/ x.id \in pend'.durable
  <2>1. x.id \in Ids(pend'.claims)
    BY DEF Ids
  <2>2. CASE x \in pend.claims \ gone
    <3>1. x.id \notin Ids(gone)
      BY <1>3, <1>4, <2>2 DEF OnePerId, Ids
    <3>2. OwnWord(x) \/ x.id \in pend.durable
      BY <1>8, <2>2 DEF SMarks
    <3>3. QED BY <1>2, <2>1, <3>1, <3>2
  <2>3. CASE x \in back
    <3>1. PICK y \in dl.fail.claims : y.id = x.id
      BY <1>4, <2>3
    <3>2. OwnWord(x) \/ x.id \in dl.q.durable
      BY <1>4, <1>8, <2>3 DEF SMarks
    <3>3. x.id \in dl.q.durable => x.id \in dl.fail.durable
      BY <1>8, <3>1 DEF SMarks
    <3>4. x.id \in Ids(failed)
      BY <1>4, <2>3 DEF Ids
    <3>5. QED BY <1>2, <2>1, <3>2, <3>3, <3>4
  <2>4. QED BY <1>2, <2>2, <2>3
<1>9. SMarks'
  BY <1>2, <1>8, NoDeliveryFacts DEF SMarks
<1>10. QED BY <1>6, <1>7, <1>9

LEMMA SCancelled ==
  ASSUME UInv, SLocal, SSteps, SDelivery, SMarks, delivery_cancelled
  PROVE  SLocal' /\ SSteps' /\ SDelivery' /\ SMarks'
<1>1. /\ dl' = NoDelivery /\ pend' = pend
      /\ UNCHANGED <<local, edit, recap, dream, dream_pending, policy, ledger, wr>>
  BY DEF delivery_cancelled
<1>2. MirrorMove
  BY CancelledMirror DEF UInv
<1>3. SLocal' /\ SSteps'
  BY <1>1, <1>2, SMove
<1>4. SDelivery' /\ SMarks'
  BY <1>1, NoDeliveryFacts DEF SDelivery, SMarks
<1>5. QED BY <1>3, <1>4

LEMMA SInit == Init => SInv
<1> SUFFICES ASSUME Init PROVE SInv
  OBVIOUS
<1>1. /\ mirror = local /\ dl = NoDelivery /\ pend = EmptyQueue /\ edit = {} /\ wr = Idle
      /\ dream = NoDream /\ ~dream_pending
  BY DEF Init, KInit
<1>2. wr.op = "none" /\ wr.pc = "idle" /\ dream.st = "none"
  BY <1>1 DEF Idle, NoDream
<1>3. pend.claims = {} /\ pend.groups = {} /\ dl.q.claims = {} /\ dl.fail.claims = {} /\ dl.pc = "idle"
  BY <1>1, NoDeliveryFacts DEF EmptyQueue
<1>4. \A c \in Claims : local[c].by # "policy"
  BY DEF Init, KInit, NoClaim
<1>5. SLocal
  BY <1>1, <1>4 DEF SLocal, Covered
<1>6. SSteps /\ SDelivery /\ SMarks
  BY <1>1, <1>2, <1>3 DEF SSteps, SDelivery, SMarks, At
<1>7. QED BY <1>5, <1>6 DEF SInv

LEMMA SNext == UInv /\ SInv /\ [Next]_vars => SInv'
<1> SUFFICES ASSUME UInv, MarksDecide, SLocal, SSteps, SDelivery, SMarks, [Next]_vars
             PROVE  SLocal' /\ SSteps' /\ SDelivery' /\ SMarks'
  BY DEF SInv, MarksDecide
<1>1. TDelivery
  BY DEF UInv
<1>2. CASE UNCHANGED vars
  <2>1. UNCHANGED kvars /\ UNCHANGED dvars
    BY <1>2 DEF vars
  <2>2. /\ mirror' = mirror /\ dl' = dl /\ pend' = pend
        /\ UNCHANGED <<local, edit, recap, dream, dream_pending, policy, ledger, wr>>
    BY <2>1 DEF kvars, dvars
  <2>3. SLocal' /\ SSteps'
    BY <1>1, <2>2, MirrorStill, SMove
  <2>4. SDelivery' /\ SMarks'
    BY <2>2 DEF SDelivery, SMarks
  <2>5. QED BY <2>3, <2>4
<1>3. CASE KNext /\ UNCHANGED dvars
  BY <1>3, SWriter
<1>4. CASE begin_delivery \/ refresh_related \/ next_round
  BY <1>4, SBegin, SRefresh, SRound
<1>5. CASE \E c \in dl.out : upload_succeeds(c) \/ upload_fails(c) \/ upload_refused(c)
  BY <1>1, <1>5, SendMove, SSend
<1>6. CASE \E d \in dl.reports : report_dispute(d)
  BY <1>6, SReport
<1>7. CASE finish_delivery \/ delivery_cancelled
  BY <1>7, SFinish, SCancelled
<1>8. QED BY <1>2, <1>3, <1>4, <1>5, <1>6, <1>7 DEF Next, DeliveryStep

\* The team always gets the last word: what the mirror does not have yet is in the queue,
\* or in a record on disk that will have it staged, through crashes, lost answers and
\* versions staged during a delivery. Where the maintainer may refuse the agent this is
\* stated for the writers whose versions are marked when they are staged, a user and
\* Recaps: a mark that a recovery sets on a version in flight without one (a Dream's
\* refresh or a withdrawal has put it there) does not keep it when that request is refused.
THEOREM LastWordIsQueued == Spec => [](MarksDecide => UnsyncedIsQueued)
<1>1. SInv => (MarksDecide => UnsyncedIsQueued)
  BY DEF SInv, SLocal, Covered, OwnWord, UnsyncedIsQueued
<1>2. QED BY <1>1, UInit, UNext, SInit, SNext, PTL DEF Spec

----------------------------------------------------------------------------
\* The third invariant: a withdrawn claim waits for nothing

\* Neither a user nor a Recap is at work.
NoReviser == Ops \cap {"edit", "recap"} = {}

\* A consolidation is about a claim on disk, and not about one of the withdrawn policy.
WGroups ==
  /\ \A g \in pend.groups : Exists(g.retired.id)
  /\ policy # "pending" => \A g \in pend.groups : g.retired.id \notin Sourced

WPolicy ==
  policy # "pending" \/ At("policy", "stage") => \A c \in Sourced : Exists(c) => local[c].dep

\* A Dream group is made of live claims, it retires nothing before its commit begins, and
\* after a withdrawal it finds no claim of the policy as it was planned.
WDream ==
  dream.st = "prepared" =>
    /\ \A b \in dream.before : ~b.dep /\ b.v > 0
    /\ ~dream_pending => \A a \in dream.after : a.dep => a \notin Current
    /\ policy # "pending" => \A x \in dream.before \cup dream.after :
                               x.id \in Sourced => x \notin Current

WWriter ==
  /\ wr.op \notin {"edit", "recap"}
  /\ wr.op = "policy" => ~dream_pending
  /\ At("dream", "clear") => dream.st # "prepared"

WInv == NoReviser => WGroups /\ WPolicy /\ WDream /\ WWriter

LEMMA WSteps ==
  ASSUME PlanInv, NoReviser, WWriter, KNext
  PROVE  DreamStep \/ PolicyStep \/ writer_crash
<1>1. wr.op \notin {"edit", "recap"} /\ "edit" \notin Ops /\ "recap" \notin Ops
  BY DEF WWriter, NoReviser
<1>2. wr.pc \notin {"recover", "recovered"}
  <2>1. wr.op \in {"none", "dream", "policy"} /\ wr.pc \in Steps(wr.op)
    BY <1>1 DEF PlanInv, KSteps, TWriter, Writer
  <2>2. QED BY <2>1, StepsFacts
<1>3. ~EditStep
  BY <1>1, <1>2
     DEF EditStep, lock_edit, recover_pending_claim_edit_locked, clear_recovered_edit,
         give_up, journal_edit, write_edit, stage_edit, clear_pending_claim_edit, At
<1>4. ~RecapStep
  BY <1>1
     DEF RecapStep, lock_recap, prepare_recap, discard_stale_finalize_checkpoint,
         apply_prepared_claim, save_progress, stage_recap, record_dispute_if_new,
         commit_applied, At
<1>5. QED BY <1>3, <1>4 DEF KNext

\* Nothing new in the queue, the claims or the message.
LEMMA WFrame ==
  ASSUME WGroups, WPolicy, local' = local, policy' # "pending" => policy # "pending",
         At("policy", "stage")' => At("policy", "stage"),
         \A k \in pend'.groups : \E g \in pend.groups : k.retired.id = g.retired.id
  PROVE  WGroups' /\ WPolicy'
<1>1. WGroups'
  BY DEF WGroups, Exists
<1>2. WPolicy'
  BY DEF WPolicy, Exists
<1>3. QED BY <1>1, <1>2

LEMMA WDreamFrame ==
  ASSUME WDream, local' = local, dream' = dream, policy' # "pending" => policy # "pending",
         dream_pending => dream_pending'
  PROVE  WDream'
  BY DEF WDream, Current

LEMMA WPrepare ==
  ASSUME PlanInv, WGroups, WPolicy, WDream, WWriter, NEW s \in Claims, NEW C \in SUBSET Claims,
         NEW rewrite \in BOOLEAN, prepare_dream(s, C, rewrite)
  PROVE  WGroups' /\ WPolicy' /\ WDream' /\ WWriter'
<1>1. /\ wr.op = "none" /\ \A c \in {s} \cup C : Exists(c) /\ ~local[c].dep
      /\ UNCHANGED <<local, pend, dream_pending, policy, wr>>
  BY DEF prepare_dream
<1>2. WGroups' /\ WPolicy'
  BY <1>1, WFrame DEF At
<1>3. WWriter'
  BY <1>1 DEF WWriter, At
<1> DEFINE t == next_claim_update_at(s, TRUE, "dream")
           u(c) == IF rewrite THEN next_claim_update_at(c, FALSE, "dream") ELSE local[c]
<1>4. dream'.before = {local[c] : c \in {s} \cup C} /\ dream'.after = {t} \cup {u(c) : c \in C}
  BY DEF prepare_dream
<1>5. TLocal /\ \A c \in Claims : local[c].v \in Nat /\ local[c].id = c
  BY ClaimFields DEF PlanInv, TLocal
<1>6. t.id = s /\ t \notin Current
  <2>1. t.id = s /\ t.v = local[s].v + 1
    BY DEF next_claim_update_at
  <2> HIDE DEF t
  <2>2. local[s] # t
    BY <1>5, <2>1
  <2>3. QED BY <1>5, <2>1, <2>2, CurrentFacts
<1>7. \A c \in C : u(c).id = c /\ ~u(c).dep
  BY <1>1, <1>5 DEF next_claim_update_at
<1> HIDE DEF t, u
<1>8. Current' = Current
  BY <1>1 DEF Current
<1>9. policy # "pending" => \A c \in {s} \cup C : c \notin Sourced
  BY <1>1 DEF WPolicy
<1>10. WDream'
  <2>1. \A b \in dream'.before : ~b.dep /\ b.v > 0 /\ b.id \in {s} \cup C
    BY <1>1, <1>4, <1>5 DEF Exists
  <2>2. \A a \in dream'.after : (a.dep => a \notin Current) /\ a.id \in {s} \cup C
    BY <1>4, <1>6, <1>7
  <2>3. QED BY <1>1, <1>8, <1>9, <2>1, <2>2 DEF WDream
<1>11. QED BY <1>2, <1>3, <1>10

LEMMA WLock ==
  ASSUME TWriter, WGroups, WPolicy, WDream, WWriter,
         lock_dream \/ lock_policy \/ check_dream \/ begin_dream \/ writer_crash \/ ack_policy
  PROVE  WGroups' /\ WPolicy' /\ WDream' /\ WWriter'
<1>1. /\ UNCHANGED <<local, pend, dream>> /\ (policy' # "pending" => policy # "pending")
      /\ dream_pending' = dream_pending \/ (begin_dream /\ dream_pending')
  BY DEF lock_dream, lock_policy, Lock, check_dream, begin_dream, writer_crash, ack_policy
<1>2. lock_dream => wr'.op = "dream" /\ wr'.pc = "plan"
  BY DEF lock_dream, Lock, Idle
<1>3. lock_policy => wr'.op = "policy" /\ wr'.pc = "write" /\ ~dream_pending /\ ~begin_dream
  BY DEF lock_policy, Lock, Idle, ensure_knowledge_ready, begin_dream, At
<1>4. check_dream => wr'.op = "dream" /\ wr'.pc \in {"stage", "write"}
  BY DEF check_dream, At, TWriter, Writer
<1>5. begin_dream => /\ wr'.op = "dream" /\ wr'.pc \in {"clear", "discard"}
                     /\ wr'.pc = "clear" => dream.st = "applied"
  <2>1. begin_dream => /\ wr.op = "dream"
                       /\ \/ Goto("clear") /\ dream.st = "applied"
                          \/ Goto("discard")
    BY DEF begin_dream, At
  <2>2. QED BY <2>1, GotoAny
<1>6. writer_crash => wr'.op = "none" /\ ~ack_policy
  BY DEF writer_crash, Idle, ack_policy
<1>7. ack_policy => wr' = wr
  BY DEF ack_policy
<1>8. At("policy", "stage")' => At("policy", "stage")
  BY <1>2, <1>3, <1>4, <1>5, <1>6, <1>7 DEF At
<1>9. WGroups' /\ WPolicy'
  BY <1>1, <1>8, WFrame
<1>10. WDream'
  BY <1>1, WDreamFrame
<1>11. WWriter'
  BY <1>1, <1>2, <1>3, <1>4, <1>5, <1>6, <1>7 DEF WWriter, At
<1>12. QED BY <1>9, <1>10, <1>11

LEMMA WApplyDream ==
  ASSUME PlanInv, QueueOK(pend), WGroups, WPolicy, WDream, WWriter, apply_dream_claim
  PROVE  WGroups' /\ WPolicy' /\ WDream' /\ WWriter'
<1>1. /\ wr.op = "dream" /\ wr.pc = "write" /\ TWriter /\ TLocal
      /\ UNCHANGED <<pend, dream, dream_pending, policy>>
      /\ dream.st = "prepared" /\ dream_pending /\ GoodGroup
      /\ wr.todo \subseteq dream.after /\ \A t \in wr.todo : local[t.id] \in dream.before
  BY DEF apply_dream_claim, At, PlanInv, KDream
<1>2. wr'.op = "dream" /\ wr'.pc \in {"write", "stage"}
  <2>1. \/ \E t \in wr.todo : wr' = [wr EXCEPT !.todo = @ \ {t}]
        \/ Goto("stage")
    BY DEF apply_dream_claim
  <2>2. CASE Goto("stage")
    BY <1>1, <2>2, GotoAny
  <2>3. CASE \E t \in wr.todo : wr' = [wr EXCEPT !.todo = @ \ {t}]
    BY <1>1, <2>3 DEF TWriter, Writer
  <2>4. QED BY <2>1, <2>2, <2>3
<1>3. WWriter'
  BY <1>2 DEF WWriter, At
<1>4. CASE local' = local
  BY <1>1, <1>2, <1>3, <1>4, WFrame, WDreamFrame DEF At
<1>5. ASSUME NEW t \in wr.todo, write_claim(t) PROVE WGroups' /\ WPolicy' /\ WDream'
  <2>1. /\ t \in Claim /\ t.id \in Claims /\ t.v \in Nat /\ local[t.id] \in dream.before
        /\ t \in dream.after /\ local[t.id].id = t.id /\ local[t.id].v \in Nat
    BY <1>1, WriterFields, ClaimFields DEF TLocal
  <2>2. TLocal' /\ local'[t.id] = t /\ \A d \in Claims : d # t.id => local'[d] = local[d]
    BY <1>1, <1>5, <2>1, WriteClaimFacts DEF TLocal
  <2>3. local[t.id].v <= t.v
    BY <1>1, <2>1 DEF GoodGroup
  <2>4. policy # "pending" => t.id \notin Sourced
    <3>1. local[t.id] \in Current
      BY <2>1 DEF Current
    <3>2. QED BY <1>1, <2>1, <3>1 DEF WDream
  <2>5. \A c \in Claims : Exists(c) => Exists(c)'
    BY <2>1, <2>2, <2>3 DEF Exists
  <2>6. \A g \in pend.groups : g.retired.id \in Claims
    BY QueueFields, ClaimFields DEF QueueOK, ConsolidationDelivery
  <2>7. WGroups'
    BY <1>1, <2>5, <2>6 DEF WGroups
  <2>8. WPolicy'
    BY <1>1, <1>2, <2>2, <2>4, KnowledgeAssumption DEF WPolicy, At, Exists
  <2>9. ASSUME policy # "pending", NEW x \in dream.before \cup dream.after, x.id \in Sourced
        PROVE  x \notin Current'
    <3>1. x \notin Current /\ x.id # t.id /\ x.id \in Claims
      BY <1>1, <2>4, <2>9, KnowledgeAssumption DEF WDream
    <3>2. local'[x.id] = local[x.id] /\ local[x.id] # x
      BY <2>2, <3>1 DEF Current
    <3>3. QED BY <2>2, <3>2 DEF Current, TLocal
  <2>10. WDream'
    BY <1>1, <2>9 DEF WDream
  <2>11. QED BY <2>7, <2>8, <2>10
<1>6. QED BY <1>3, <1>4, <1>5 DEF apply_dream_claim

LEMMA WStageDream ==
  ASSUME PlanInv, QueueOK(pend), WGroups, WPolicy, WDream, WWriter, stage_dream
  PROVE  WGroups' /\ WPolicy' /\ WDream' /\ WWriter'
<1> DEFINE carriers == {c \in dream.after : ~c.dep}
           groups == {[before |-> Entry(dream.before, r.id), retired |-> r,
                       carriers |-> carriers] : r \in {c \in wr.done : c.dep}}
<1>1. /\ wr.op = "dream" /\ wr.pc = "stage" /\ TWriter /\ TLocal /\ Goto("done")
      /\ UNCHANGED <<local, dream, dream_pending, policy>>
      /\ pend' = stage_consolidation_batch(pend, wr.done, groups)
  BY DEF stage_dream, At, PlanInv
<1>2. wr.done = dream.after \cap Current /\ GoodGroup /\ dream.st = "prepared"
  BY <1>1 DEF PlanInv, KDream
<1>3. wr'.op = "dream" /\ wr'.pc = "done"
  BY <1>1, GotoAny
<1>4. WWriter' /\ WDream'
  BY <1>1, <1>3, WDreamFrame DEF WWriter, At
<1>5. WPolicy'
  BY <1>1, <1>3 DEF WPolicy, At, Exists
<1>6. groups \in SUBSET ConsolidationDelivery /\ GroupsOK(groups)
  BY <1>2, DreamGroups
<1>7. \A g \in groups : g.retired \in dream.after \cap Current /\ g.retired.dep
  BY <1>2
<1> HIDE DEF groups
<1>8. wr.done \in SUBSET Claim /\ OnePerId(wr.done)
  BY <1>1, <1>2, StagedSets
<1>9. \A k \in pend'.groups : k \in groups \/ \E g \in pend.groups : k.retired.id = g.retired.id
  BY <1>1, <1>6, <1>8, ConsolidationFacts
<1>10. ASSUME NEW r \in dream.after \cap Current, r.dep
       PROVE  Exists(r.id) /\ (policy # "pending" => r.id \notin Sourced)
  <2>1. r.id \in Ids(dream.before)
    BY <1>2 DEF GoodGroup, Ids
  <2>2. PICK b \in dream.before : b.id = r.id
    BY <2>1 DEF Ids
  <2>3. b.v < r.v
    BY <1>2, <1>10, <2>2 DEF GoodGroup, WDream
  <2>4. b.v \in Nat /\ r.v \in Nat
    BY <1>1, CurrentFacts, GroupFields, ClaimFields DEF PlanInv
  <2>5. r = local[r.id]
    BY <1>1, CurrentFacts
  <2>6. QED BY <1>2, <2>3, <2>4, <2>5 DEF Exists, WDream
<1>11. \A k \in pend'.groups : /\ Exists(k.retired.id)
                               /\ policy # "pending" => k.retired.id \notin Sourced
  BY <1>7, <1>9, <1>10 DEF WGroups
<1>12. WGroups'
  BY <1>1, <1>11 DEF WGroups, Exists
<1>13. QED BY <1>4, <1>5, <1>12

LEMMA WEndDream ==
  ASSUME TWriter, WGroups, WPolicy, WDream, WWriter, finish_dream \/ clear_dream_pending
  PROVE  WGroups' /\ WPolicy' /\ WDream' /\ WWriter'
<1>1. /\ UNCHANGED <<local, pend, policy>> /\ wr.op = "dream"
      /\ \/ /\ finish_dream /\ dream'.st = "applied" /\ dream_pending' = dream_pending
            /\ Goto("clear")
         \/ dream' = dream /\ wr.pc = "clear" /\ wr' = Idle /\ dream_pending' = FALSE
  BY DEF finish_dream, clear_dream_pending, NoDream, At
<1>2. /\ wr'.op \in {"dream", "none"}
      /\ dream'.st # "prepared"
  <2>1. CASE finish_dream /\ dream'.st = "applied" /\ Goto("clear")
    BY <1>1, <2>1, GotoAny
  <2>2. CASE dream' = dream /\ wr.pc = "clear" /\ wr' = Idle
    BY <1>1, <2>2 DEF WWriter, At, Idle
  <2>3. QED BY <1>1, <2>1, <2>2
<1>3. WGroups' /\ WPolicy'
  BY <1>1, <1>2, WFrame DEF At
<1>4. WDream' /\ WWriter'
  BY <1>2 DEF WDream, WWriter, At
<1>5. QED BY <1>3, <1>4

LEMMA WReview ==
  ASSUME PlanInv, QueueOK(pend), WGroups, WPolicy, WDream, WWriter,
         NEW g \in pend.groups, NEW C \in SUBSET Claims, review_sync(g, C)
  PROVE  WGroups' /\ WPolicy' /\ WDream' /\ WWriter'
<1> DEFINE cs == {local[c] : c \in C}
<1>1. /\ UNCHANGED <<local, dream, dream_pending, policy, wr>>
      /\ pend' = rebind_consolidation(pend, g, cs)
  BY DEF review_sync
<1>2. cs \in SUBSET Current
  BY DEF Current
<1> HIDE DEF cs
<1>3. cs \in SUBSET Claim /\ OnePerId(cs)
  BY <1>2, StagedSets DEF PlanInv
<1>4. \A k \in pend'.groups : \E h \in pend.groups : k.retired.id = h.retired.id
  BY <1>1, <1>3, RebindFacts
<1>5. WGroups' /\ WPolicy' /\ WDream'
  BY <1>1, <1>4, WFrame, WDreamFrame DEF At
<1>6. WWriter'
  BY <1>1 DEF WWriter, At
<1>7. QED BY <1>5, <1>6

LEMMA WApplyPolicy ==
  ASSUME PlanInv, QueueOK(pend), WGroups, WPolicy, WDream, WWriter, apply_policy_deprecation
  PROVE  WGroups' /\ WPolicy' /\ WDream' /\ WWriter'
<1> DEFINE left == {c \in Sourced : Exists(c) /\ ~local[c].dep}
<1>1. /\ wr.op = "policy" /\ wr.pc = "write" /\ TWriter /\ TLocal /\ policy = "pending"
      /\ UNCHANGED <<pend, dream, dream_pending, policy>> /\ ~dream_pending
  BY DEF apply_policy_deprecation, At, PlanInv, KPolicy, WWriter
<1>2. \/ left = {} /\ Goto("stage") /\ local' = local
      \/ \E c \in left : write_claim(next_claim_update_at(c, TRUE, "policy")) /\ wr' = wr
  BY DEF apply_policy_deprecation
<1>3. CASE left = {} /\ Goto("stage") /\ local' = local
  <2>1. wr'.op = "policy"
    BY <1>1, <1>3, GotoAny
  <2>2. WPolicy'
    BY <1>3 DEF WPolicy, Exists
  <2>3. WGroups' /\ WDream'
    BY <1>1, <1>3, WDreamFrame DEF WGroups, Exists
  <2>4. QED BY <1>1, <2>1, <2>2, <2>3 DEF WWriter, At
<1>4. ASSUME NEW c \in left, write_claim(next_claim_update_at(c, TRUE, "policy")), wr' = wr
      PROVE  WGroups' /\ WPolicy' /\ WDream' /\ WWriter'
  <2>1. c \in Claims /\ CanRevise(c) /\ "policy" \in Writers
    BY <1>1, KnowledgeAssumption DEF PlanInv, KPolicy, Writers
  <2> DEFINE t == next_claim_update_at(c, TRUE, "policy")
  <2>2. t \in Claim /\ t.id = c /\ local[c].v < t.v /\ t.by = "policy"
    BY <1>1, <2>1, NextWithdrawn
  <2>3. write_claim(t)
    BY <1>4
  <2> HIDE DEF t, left
  <2>4. TLocal' /\ local'[c] = t /\ \A d \in Claims : d # c => local'[d] = local[d]
    BY <1>1, <2>2, <2>3, WriteClaimFacts DEF TLocal
  <2>5. \A d \in Claims : Exists(d) => Exists(d)'
    <3>1. local[c].v \in Nat /\ t.v \in Nat
      BY <1>1, <2>1, <2>2, ClaimFields DEF TLocal
    <3>2. QED BY <2>2, <2>4, <3>1 DEF Exists
  <2>6. \A g \in pend.groups : g.retired.id \in Claims
    BY QueueFields, ClaimFields DEF QueueOK, ConsolidationDelivery
  <2>7. WGroups'
    BY <1>1, <2>5, <2>6 DEF WGroups
  <2>8. WPolicy'
    BY <1>1, <1>4 DEF WPolicy, At
  <2>9. ASSUME dream.st = "prepared", NEW a \in dream.after, a.dep PROVE a \notin Current'
    <3>1. GoodGroup /\ a \notin Current /\ a \in Claim /\ a.id \in Claims
      BY <1>1, <2>9, GroupFields, ClaimFields DEF PlanInv, KDream, WDream
    <3>2. PICK b \in dream.before : b.id = a.id
      BY <3>1 DEF GoodGroup, Ids
    <3>3. a.by = "dream"
      BY <2>9, <3>1, <3>2 DEF GoodGroup, WDream
    <3>4. a # t
      BY <2>2, <3>3
    <3>5. a # local'[a.id]
      BY <2>4, <3>1, <3>4 DEF Current
    <3>6. QED BY <2>4, <3>5 DEF Current, TLocal
  <2>10. WDream'
    BY <1>1, <2>9 DEF WDream
  <2>11. WWriter'
    BY <1>1, <1>4 DEF WWriter, At
  <2>12. QED BY <2>7, <2>8, <2>10, <2>11
<1>5. QED BY <1>2, <1>3, <1>4

LEMMA WWithdrawn ==
  ASSUME UInv, WGroups, WPolicy, WDream, WWriter, stage_withdrawn
  PROVE  WGroups' /\ WPolicy' /\ WDream' /\ WWriter'
<1>1. /\ wr.op = "policy" /\ wr.pc = "stage" /\ TLocal /\ QueueOK(pend) /\ TRecords
      /\ UNCHANGED <<local, dream, dream_pending>> /\ wr'.op = "none" /\ ~dream_pending
      /\ dream.st = "prepared" => GoodGroup
  BY DEF stage_withdrawn, At, Idle, UInv, KInv, PlanInv, KDream, WWriter
<1>2. \A c \in Sourced : Exists(c) => local[c].dep
  BY <1>1 DEF WPolicy, At
<1>3. /\ \A c \in Sourced : Exists(c) => local[c] \in pend'.claims
      /\ \A k \in pend'.groups :
           /\ \E g \in pend.groups : k.retired.id = g.retired.id
           /\ ~\E c \in pend'.claims : c.id = k.retired.id /\ c.dep /\ c.id \in Sourced
  BY WithdrawnTaken
<1>4. ASSUME NEW k \in pend'.groups PROVE Exists(k.retired.id) /\ k.retired.id \notin Sourced
  <2>1. Exists(k.retired.id)
    BY <1>3 DEF WGroups
  <2>2. ASSUME k.retired.id \in Sourced PROVE FALSE
    <3>1. local[k.retired.id].id = k.retired.id
      BY <1>1, <2>2, KnowledgeAssumption DEF TLocal
    <3>2. QED BY <1>2, <1>3, <2>1, <2>2, <3>1
  <2>3. QED BY <2>1, <2>2
<1>5. WGroups' /\ WPolicy'
  BY <1>1, <1>2, <1>4 DEF WGroups, WPolicy, Exists
<1>6. WWriter'
  BY <1>1 DEF WWriter, At
<1>7. ASSUME dream.st = "prepared", NEW x \in dream.before \cup dream.after, x.id \in Sourced
      PROVE  x \notin Current
  <2>1. CASE x.dep
    BY <1>1, <1>7, <2>1 DEF WDream
  <2>2. ASSUME ~x.dep, x \in Current PROVE FALSE
    <3>1. x = local[x.id] /\ x \in Claim /\ x.v \in Nat
      BY <1>1, <2>2, CurrentFacts, ClaimFields
    <3>2. PICK b \in dream.before : b.id = x.id /\ (x = b \/ b.v < x.v)
      BY <1>1, <1>7 DEF GoodGroup, Ids
    <3>3. b.v \in Nat /\ b.v > 0
      BY <1>1, <1>7, GroupFields, ClaimFields DEF WDream
    <3>4. Exists(x.id)
      BY <3>1, <3>2, <3>3 DEF Exists
    <3>5. QED BY <1>2, <1>7, <2>2, <3>1, <3>4
  <2>3. QED BY <2>1, <2>2
<1>8. WDream'
  BY <1>1, <1>7 DEF WDream, Current
<1>9. QED BY <1>5, <1>6, <1>8

LEMMA WNextWriter ==
  ASSUME UInv, NoReviser, WGroups, WPolicy, WDream, WWriter, KNext
  PROVE  WGroups' /\ WPolicy' /\ WDream' /\ WWriter'
<1>1. PlanInv /\ QueueOK(pend) /\ TWriter
  BY DEF UInv, KInv, PlanInv
<1>2. DreamStep \/ PolicyStep \/ writer_crash
  BY <1>1, WSteps
<1>3. CASE DreamStep
  BY <1>1, <1>3, WPrepare, WLock, WApplyDream, WStageDream, WEndDream, WReview DEF DreamStep
<1>4. CASE PolicyStep \/ writer_crash
  BY <1>1, <1>4, WLock, WApplyPolicy, WWithdrawn DEF PolicyStep
<1>5. QED BY <1>2, <1>3, <1>4

\* A delivery adds no consolidation.
LEMMA WNextDelivery ==
  ASSUME UInv, WGroups, WPolicy, WDream, WWriter, DeliveryStep
  PROVE  WGroups' /\ WPolicy' /\ WDream' /\ WWriter'
<1>1. TLocal /\ TDelivery /\ QueueOK(pend)
  BY DEF UInv, KInv, PlanInv
<1>2. /\ UNCHANGED <<local, dream, dream_pending, policy, wr>>
      /\ pend' = pend \/ refresh_related \/ finish_delivery
  BY DEF DeliveryStep, begin_delivery, refresh_related, next_round, upload_succeeds,
         upload_fails, upload_refused, report_dispute, finish_delivery, delivery_cancelled,
         KUnchanged, kvars
<1>3. \A k \in pend'.groups : \E g \in pend.groups : k.retired.id = g.retired.id
  <2>1. CASE pend' = pend
    BY <2>1
  <2>2. CASE refresh_related /\ pend' # pend
    <3> DEFINE m == Refreshed(pend)
    <3>1. pend' = write_or_clear(m)
      BY <2>2 DEF refresh_related
    <3>2. QueueOK(m) /\ \A k \in m.groups : \E g \in pend.groups : k.retired.id = g.retired.id
      BY <1>1, RefreshedFacts
    <3> HIDE DEF m
    <3>3. pend'.groups \subseteq m.groups
      BY <3>1, <3>2, WriteOrClear
    <3>4. QED BY <3>2, <3>3
  <2>3. CASE finish_delivery
    <3>1. pend'.groups \subseteq pend.groups
      BY <1>1, <2>3, FinishMove
    <3>2. QED BY <3>1
  <2>4. QED BY <1>2, <2>1, <2>2, <2>3
<1>4. WGroups' /\ WPolicy' /\ WDream'
  BY <1>2, <1>3, WFrame, WDreamFrame DEF At
<1>5. WWriter'
  BY <1>2 DEF WWriter, At
<1>6. QED BY <1>4, <1>5

LEMMA WInit == Init => WInv
<1> SUFFICES ASSUME Init PROVE WInv
  OBVIOUS
<1>1. pend.groups = {} /\ policy = "pending" /\ wr.op = "none" /\ dream.st = "none"
  BY DEF Init, KInit, EmptyQueue, Idle, NoDream
<1>2. QED BY <1>1 DEF WInv, WGroups, WPolicy, WDream, WWriter, At

LEMMA WNext == UInv /\ WInv /\ [Next]_vars => WInv'
<1> SUFFICES ASSUME UInv, NoReviser, WGroups, WPolicy, WDream, WWriter, [Next]_vars
             PROVE  WGroups' /\ WPolicy' /\ WDream' /\ WWriter'
  BY DEF WInv, NoReviser
<1>1. CASE UNCHANGED vars
  <2>1. UNCHANGED <<local, pend, dream, dream_pending, policy, wr>>
    BY <1>1 DEF vars, kvars
  <2>2. QED BY <2>1, WFrame, WDreamFrame DEF At, WWriter
<1>2. CASE KNext
  BY <1>2, WNextWriter
<1>3. CASE DeliveryStep
  BY <1>3, WNextDelivery
<1>4. QED BY <1>1, <1>2, <1>3 DEF Next

\* A withdrawn policy's claims wait for no carriers once the withdrawal is staged: not for
\* those of a consolidation made, resumed after a crash, reviewed or put back by a delivery
\* later, where no user or Recap can restore a claim.
THEOREM WithdrawnIsDelivered == Spec => []WithdrawnIsNotHeldBack
<1>1. WInv => WithdrawnIsNotHeldBack
  BY DEF WInv, NoReviser, WGroups, WithdrawnIsNotHeldBack
<1>2. QED BY <1>1, UInit, UNext, WInit, WNext, PTL DEF Spec
=============================================================================
