--------------------------- MODULE KnowledgeProofs ---------------------------
(***************************************************************************)
(* Theorems of KnowledgeApply: types, no version is overwritten unread,    *)
(* and a plan deprecates last; for any claims, writers, versions and       *)
(* faults.                                                                 *)
(***************************************************************************)
EXTENDS KnowledgeApply, FiniteSetTheorems, TLAPS

----------------------------------------------------------------------------
\* The functions on the queue

GroupsOK(groups) ==
  /\ \A g, h \in groups : g.retired.id = h.retired.id => g = h
  /\ \A g \in groups : g.retired.dep /\ g.before.id = g.retired.id
QueueOK(q) == q \in PendingMaintainerUploads /\ WellFormed(q)

\* A queue field by field.
LEMMA QueueFields ==
  ASSUME NEW q \in PendingMaintainerUploads
  PROVE  /\ q.claims \in SUBSET Claim /\ q.durable \in SUBSET Claims
         /\ q.disputes \in SUBSET Disputes /\ q.groups \in SUBSET ConsolidationDelivery
         /\ q.acks \in SUBSET Claim
  BY DEF PendingMaintainerUploads

LEMMA QueueBuilt ==
  ASSUME NEW q, q \in [claims : SUBSET Claim, durable : SUBSET Claims,
                       disputes : SUBSET Disputes,
                       groups : SUBSET ConsolidationDelivery, acks : SUBSET Claim],
         OnePerId(q.claims), OnePerId(q.acks), q.durable \subseteq Ids(q.claims),
         GroupsOK(q.groups)
  PROVE  QueueOK(q)
  BY DEF QueueOK, PendingMaintainerUploads, WellFormed, GroupsOK

LEMMA EmptyQueueOK == QueueOK(EmptyQueue)
<1>1. /\ EmptyQueue.claims = {} /\ EmptyQueue.acks = {} /\ EmptyQueue.durable = {}
      /\ EmptyQueue.groups = {}
  BY DEF EmptyQueue
<1>2. EmptyQueue \in PendingMaintainerUploads
  BY DEF EmptyQueue, PendingMaintainerUploads
<1>3. QED BY <1>1, <1>2 DEF QueueOK, WellFormed, OnePerId

LEMMA WriteOrClear ==
  ASSUME NEW q, QueueOK(q)
  PROVE  /\ QueueOK(write_or_clear(q))
         /\ write_or_clear(q).claims = q.claims
         /\ write_or_clear(q).disputes = q.disputes
         /\ write_or_clear(q).durable = q.durable
         /\ write_or_clear(q).groups \subseteq q.groups
<1>1. CASE q.claims = {} /\ q.disputes = {}
  <2>1. write_or_clear(q) = EmptyQueue
    BY <1>1 DEF write_or_clear
  <2>2. EmptyQueue.claims = {} /\ EmptyQueue.disputes = {} /\ EmptyQueue.durable = {}
        /\ EmptyQueue.groups = {}
    BY DEF EmptyQueue
  <2>3. q.durable \subseteq Ids(q.claims)
    BY DEF QueueOK, WellFormed
  <2>4. q.durable = {}
    BY <1>1, <2>3 DEF Ids
  <2>5. QED BY <1>1, <2>1, <2>2, <2>4, EmptyQueueOK
<1>2. CASE ~(q.claims = {} /\ q.disputes = {})
  BY <1>2 DEF write_or_clear
<1>3. QED BY <1>1, <1>2

\* The entry of an id.
LEMMA EntryFacts ==
  ASSUME NEW cs, NEW i \in Ids(cs)
  PROVE  /\ Entry(cs, i) \in cs /\ Entry(cs, i).id = i
         /\ OnePerId(cs) => \A x \in cs : x.id = i => x = Entry(cs, i)
<1>1. \E c \in cs : c.id = i
  BY DEF Ids
<1>2. Entry(cs, i) \in cs /\ Entry(cs, i).id = i
  BY <1>1 DEF Entry
<1>3. QED BY <1>2 DEF OnePerId

\* A claim written into a map takes the place of the one with its id.
LEMMA InsertFacts ==
  ASSUME NEW m \in SUBSET Claim, NEW cs \in SUBSET Claim
  PROVE  /\ Insert(m, cs) \in SUBSET Claim
         /\ Ids(Insert(m, cs)) = Ids(m) \cup Ids(cs)
         /\ OnePerId(m) /\ OnePerId(cs) => OnePerId(Insert(m, cs))
         /\ \A x : x \in Insert(m, cs) <=> x \in cs \/ (x \in m /\ x.id \notin Ids(cs))
<1>1. \A x : x \in Insert(m, cs) <=> x \in cs \/ (x \in m /\ x.id \notin Ids(cs))
  BY DEF Insert
<1>2. \A x \in cs : x.id \in Ids(cs)
  BY DEF Ids
<1>3. Insert(m, cs) \in SUBSET Claim
  BY <1>1
<1>4. Ids(Insert(m, cs)) = Ids(m) \cup Ids(cs)
  <2>1. ASSUME NEW i \in Ids(m) \cup Ids(cs) PROVE i \in Ids(Insert(m, cs))
    BY <1>1, <2>1 DEF Ids
  <2>2. ASSUME NEW i \in Ids(Insert(m, cs)) PROVE i \in Ids(m) \cup Ids(cs)
    BY <1>1, <2>2 DEF Ids
  <2>3. QED BY <2>1, <2>2
<1>5. ASSUME OnePerId(m), OnePerId(cs) PROVE OnePerId(Insert(m, cs))
  BY <1>1, <1>2, <1>5 DEF OnePerId
<1>6. QED BY <1>1, <1>3, <1>4, <1>5

\* A change of the sources moves the groups along or cancels them.
LEMMA SupersedeFacts ==
  ASSUME NEW groups \in SUBSET ConsolidationDelivery, GroupsOK(groups),
         NEW cs \in SUBSET Claim, OnePerId(cs)
  PROVE  /\ supersede(groups, cs) \in SUBSET ConsolidationDelivery
         /\ GroupsOK(supersede(groups, cs))
         /\ \A k \in supersede(groups, cs) : \E g \in groups :
              k.retired.id = g.retired.id /\ k.carriers = g.carriers
<1> DEFINE moved(g) == IF g.retired.id \in Ids(cs)
                       THEN [g EXCEPT !.retired = Entry(cs, g.retired.id)] ELSE g
           kept == {h \in groups : \A c \in cs : c.id = h.retired.id => c.dep}
<1>1. supersede(groups, cs) = {moved(g) : g \in kept}
  BY DEF supersede
<1>2. ASSUME NEW g \in kept
      PROVE  /\ moved(g) \in ConsolidationDelivery /\ moved(g).retired.id = g.retired.id
             /\ moved(g).retired.dep /\ moved(g).before = g.before
             /\ moved(g).carriers = g.carriers
  <2>1. g \in ConsolidationDelivery /\ g.retired.dep
    BY DEF GroupsOK
  <2>2. CASE g.retired.id \in Ids(cs)
    <3> DEFINE e == Entry(cs, g.retired.id)
    <3>1. e \in cs /\ e.id = g.retired.id
      BY <2>2, EntryFacts
    <3>2. e \in Claim /\ e.dep
      BY <3>1
    <3> HIDE DEF e
    <3>3. moved(g) = [g EXCEPT !.retired = e]
      BY <2>2 DEF e
    <3> HIDE DEF moved, kept
    <3>4. QED BY <2>1, <3>1, <3>2, <3>3 DEF ConsolidationDelivery
  <2>3. CASE g.retired.id \notin Ids(cs)
    BY <2>1, <2>3
  <2>4. QED BY <2>2, <2>3
<1>3. kept \subseteq groups
  OBVIOUS
<1> HIDE DEF moved, kept
<1>4. supersede(groups, cs) \in SUBSET ConsolidationDelivery
  BY <1>1, <1>2
<1>5. ASSUME NEW g \in kept, NEW h \in kept, moved(g).retired.id = moved(h).retired.id
      PROVE  moved(g) = moved(h)
  <2>1. g.retired.id = h.retired.id
    BY <1>2, <1>5
  <2>2. QED BY <1>3, <2>1 DEF GroupsOK
<1>6. ASSUME NEW g \in kept PROVE moved(g).before.id = moved(g).retired.id
  BY <1>2, <1>3 DEF GroupsOK
<1>7. GroupsOK(supersede(groups, cs))
  BY <1>1, <1>2, <1>5, <1>6 DEF GroupsOK
<1>8. QED BY <1>1, <1>2, <1>3, <1>4, <1>7

\* The staged claims that are not older than what is queued.
NotOlder(q, cs) == {c \in cs : \A e \in q.claims : e.id = c.id => c.v >= e.v}

\* What staging does to a queue, field by field.
LEMMA MergeFacts ==
  ASSUME NEW q \in PendingMaintainerUploads, OnePerId(q.claims), OnePerId(q.acks),
         GroupsOK(q.groups), NEW cs \in SUBSET Claim, OnePerId(cs),
         NEW ds \in SUBSET Disputes
  PROVE  LET m == merge_pending_uploads(q, cs, ds) IN
         /\ QueueOK(m)
         /\ m.claims = Insert(q.claims, NotOlder(q, cs))
         /\ m.disputes = q.disputes \cup ds
         /\ m.durable = q.durable \cap (Ids(q.claims) \cup Ids(NotOlder(q, cs)))
         /\ \A k \in m.groups : \E g \in q.groups :
              k.retired.id = g.retired.id /\ k.carriers = g.carriers
<1> DEFINE new == NotOlder(q, cs)
           merged == Insert(q.claims, new)
           sup == supersede(q.groups, new)
           m == merge_pending_uploads(q, cs, ds)
<1>1. new \in SUBSET Claim /\ OnePerId(new)
  BY DEF NotOlder, OnePerId
<1>2. m = [q EXCEPT !.claims = merged, !.groups = sup, !.durable = q.durable \cap Ids(merged),
                    !.disputes = q.disputes \cup ds]
  BY DEF merge_pending_uploads, NotOlder
<1> HIDE DEF new
<1>3. /\ merged \in SUBSET Claim /\ OnePerId(merged)
      /\ Ids(merged) = Ids(q.claims) \cup Ids(new)
  BY <1>1, QueueFields, InsertFacts
<1>4. /\ sup \in SUBSET ConsolidationDelivery /\ GroupsOK(sup)
      /\ \A k \in sup : \E g \in q.groups : k.retired.id = g.retired.id /\ k.carriers = g.carriers
  BY <1>1, QueueFields, SupersedeFacts
<1> HIDE DEF merged, sup, m
<1>5. /\ m.claims = merged /\ m.groups = sup /\ m.durable = q.durable \cap Ids(merged)
      /\ m.disputes = q.disputes \cup ds /\ m.acks = q.acks
  BY <1>2 DEF PendingMaintainerUploads
<1>6. m \in [claims : SUBSET Claim, durable : SUBSET Claims, disputes : SUBSET Disputes,
             groups : SUBSET ConsolidationDelivery, acks : SUBSET Claim]
  BY <1>2, <1>3, <1>4 DEF PendingMaintainerUploads
<1>7. QueueOK(m)
  BY <1>3, <1>4, <1>5, <1>6, QueueBuilt
<1>8. QED BY <1>3, <1>4, <1>5, <1>7 DEF m, new, merged

LEMMA StageFacts ==
  ASSUME NEW q, QueueOK(q), NEW cs \in SUBSET Claim, OnePerId(cs), NEW ds \in SUBSET Disputes
  PROVE  LET m == stage_maintainer_batch(q, cs, ds) IN
         /\ QueueOK(m)
         /\ m.claims = Insert(q.claims, NotOlder(q, cs))
         /\ m.disputes = q.disputes \cup ds
         /\ q.durable \subseteq m.durable
         /\ \A k \in m.groups : \E g \in q.groups :
              k.retired.id = g.retired.id /\ k.carriers = g.carriers
<1> DEFINE n == merge_pending_uploads(q, cs, ds)
<1>1. /\ q \in PendingMaintainerUploads /\ OnePerId(q.claims) /\ OnePerId(q.acks)
      /\ GroupsOK(q.groups) /\ q.durable \subseteq Ids(q.claims)
  BY DEF QueueOK, WellFormed, GroupsOK
<1>2. /\ QueueOK(n) /\ n.claims = Insert(q.claims, NotOlder(q, cs))
      /\ n.disputes = q.disputes \cup ds
      /\ n.durable = q.durable \cap (Ids(q.claims) \cup Ids(NotOlder(q, cs)))
      /\ \A k \in n.groups : \E g \in q.groups :
           k.retired.id = g.retired.id /\ k.carriers = g.carriers
  BY <1>1, MergeFacts
<1> HIDE DEF n
<1>3. /\ QueueOK(write_or_clear(n)) /\ write_or_clear(n).claims = n.claims
      /\ write_or_clear(n).disputes = n.disputes /\ write_or_clear(n).durable = n.durable
      /\ write_or_clear(n).groups \subseteq n.groups
  BY <1>2, WriteOrClear
<1>4. stage_maintainer_batch(q, cs, ds) = write_or_clear(n)
  BY DEF stage_maintainer_batch, n
<1>5. q.durable \subseteq n.durable
  BY <1>1, <1>2
<1>6. QED BY <1>2, <1>3, <1>4, <1>5

\* The marks are set first, and dropped again where no entry follows.
Marked(q, cs) == [q EXCEPT !.durable = @ \cup Ids(cs)]

LEMMA MarkedFacts ==
  ASSUME NEW q, QueueOK(q), NEW cs \in SUBSET Claim
  PROVE  LET m == Marked(q, cs) IN
         /\ m \in PendingMaintainerUploads /\ OnePerId(m.claims) /\ OnePerId(m.acks)
         /\ GroupsOK(m.groups) /\ m.claims = q.claims /\ m.disputes = q.disputes
         /\ m.groups = q.groups /\ m.durable = q.durable \cup Ids(cs)
<1> DEFINE m == Marked(q, cs)
<1>1. /\ q \in PendingMaintainerUploads /\ OnePerId(q.claims) /\ OnePerId(q.acks)
      /\ GroupsOK(q.groups)
  BY DEF QueueOK, WellFormed, GroupsOK
<1>2. Ids(cs) \in SUBSET Claims
  BY DEF Ids, Claim
<1>3. m = [q EXCEPT !.durable = q.durable \cup Ids(cs)]
  BY DEF Marked
<1> HIDE DEF m
<1>4. /\ m.claims = q.claims /\ m.acks = q.acks /\ m.groups = q.groups
      /\ m.disputes = q.disputes /\ m.durable = q.durable \cup Ids(cs)
      /\ m \in PendingMaintainerUploads
  BY <1>1, <1>2, <1>3 DEF PendingMaintainerUploads
<1>5. QED BY <1>1, <1>4 DEF m

LEMMA StageDurableFacts ==
  ASSUME NEW q, QueueOK(q), NEW cs \in SUBSET Claim, OnePerId(cs)
  PROVE  LET m == stage_maintainer_batch_with_durable_claims(q, cs, {}) IN
         /\ QueueOK(m)
         /\ m.claims = Insert(q.claims, NotOlder(q, cs))
         /\ m.disputes = q.disputes
         /\ q.durable \cup Ids(NotOlder(q, cs)) \subseteq m.durable
         /\ \A k \in m.groups : \E g \in q.groups :
              k.retired.id = g.retired.id /\ k.carriers = g.carriers
<1> DEFINE p == Marked(q, cs)
           n == merge_pending_uploads(p, cs, {})
<1>1. /\ p \in PendingMaintainerUploads /\ OnePerId(p.claims) /\ OnePerId(p.acks)
      /\ GroupsOK(p.groups) /\ p.claims = q.claims /\ p.disputes = q.disputes
      /\ p.groups = q.groups /\ p.durable = q.durable \cup Ids(cs)
  BY MarkedFacts
<1>2. NotOlder(p, cs) = NotOlder(q, cs)
  BY <1>1 DEF NotOlder
<1> HIDE DEF p
<1>3. /\ QueueOK(n) /\ n.claims = Insert(p.claims, NotOlder(p, cs))
      /\ n.disputes = p.disputes \cup {}
      /\ n.durable = p.durable \cap (Ids(p.claims) \cup Ids(NotOlder(p, cs)))
      /\ \A k \in n.groups : \E g \in p.groups :
           k.retired.id = g.retired.id /\ k.carriers = g.carriers
  <2>1. PICK ds \in SUBSET Disputes : ds = {}
    OBVIOUS
  <2>2. /\ p \in PendingMaintainerUploads /\ OnePerId(p.claims) /\ OnePerId(p.acks)
        /\ GroupsOK(p.groups)
    BY <1>1
  <2> DEFINE u == merge_pending_uploads(p, cs, ds)
  <2>3. /\ QueueOK(u) /\ u.claims = Insert(p.claims, NotOlder(p, cs))
        /\ u.disputes = p.disputes \cup ds
        /\ u.durable = p.durable \cap (Ids(p.claims) \cup Ids(NotOlder(p, cs)))
        /\ \A k \in u.groups : \E g \in p.groups :
             k.retired.id = g.retired.id /\ k.carriers = g.carriers
    BY <2>2, MergeFacts
  <2>4. u = n
    BY <2>1
  <2> HIDE DEF u, n
  <2>5. QED BY <2>1, <2>3, <2>4
<1> HIDE DEF n
<1>4. /\ QueueOK(write_or_clear(n)) /\ write_or_clear(n).claims = n.claims
      /\ write_or_clear(n).disputes = n.disputes /\ write_or_clear(n).durable = n.durable
      /\ write_or_clear(n).groups \subseteq n.groups
  BY <1>3, WriteOrClear
<1>5. stage_maintainer_batch_with_durable_claims(q, cs, {}) = write_or_clear(n)
  BY DEF stage_maintainer_batch_with_durable_claims, stage_maintainer_batch, n, p, Marked
<1>6. q.durable \cup Ids(NotOlder(q, cs)) \subseteq n.durable
  <2>1. q.durable \subseteq Ids(q.claims)
    BY DEF QueueOK, WellFormed
  <2>2. Ids(NotOlder(q, cs)) \subseteq Ids(cs)
    BY DEF Ids, NotOlder
  <2>3. QED BY <1>1, <1>2, <1>3, <2>1, <2>2
<1>7. QED BY <1>1, <1>2, <1>3, <1>4, <1>5, <1>6

LEMMA ConsolidationFacts ==
  ASSUME NEW q, QueueOK(q), NEW cs \in SUBSET Claim, OnePerId(cs),
         NEW groups \in SUBSET ConsolidationDelivery, GroupsOK(groups)
  PROVE  LET m == stage_consolidation_batch(q, cs, groups) IN
         /\ QueueOK(m)
         /\ m.claims = Insert(q.claims, NotOlder(q, cs))
         /\ m.disputes = q.disputes
         /\ \A k \in m.groups : k \in groups \/ \E g \in q.groups : k.retired.id = g.retired.id
<1> DEFINE p == Marked(q, cs)
           n == merge_pending_uploads(p, cs, {})
           gs == {g \in n.groups : g.retired.id \notin {h.retired.id : h \in groups}} \cup groups
           r == [n EXCEPT !.groups = gs]
<1>1. /\ p \in PendingMaintainerUploads /\ OnePerId(p.claims) /\ OnePerId(p.acks)
      /\ GroupsOK(p.groups) /\ p.claims = q.claims /\ p.disputes = q.disputes
      /\ p.groups = q.groups /\ p.durable = q.durable \cup Ids(cs)
  BY MarkedFacts
<1>2. NotOlder(p, cs) = NotOlder(q, cs)
  BY <1>1 DEF NotOlder
<1> HIDE DEF p
<1>3. /\ QueueOK(n) /\ n.claims = Insert(p.claims, NotOlder(p, cs))
      /\ n.disputes = p.disputes \cup {}
      /\ \A k \in n.groups : \E g \in p.groups :
           k.retired.id = g.retired.id /\ k.carriers = g.carriers
  <2>1. PICK ds \in SUBSET Disputes : ds = {}
    OBVIOUS
  <2>2. /\ p \in PendingMaintainerUploads /\ OnePerId(p.claims) /\ OnePerId(p.acks)
        /\ GroupsOK(p.groups)
    BY <1>1
  <2> DEFINE u == merge_pending_uploads(p, cs, ds)
  <2>3. /\ QueueOK(u) /\ u.claims = Insert(p.claims, NotOlder(p, cs))
        /\ u.disputes = p.disputes \cup ds
        /\ \A k \in u.groups : \E g \in p.groups :
             k.retired.id = g.retired.id /\ k.carriers = g.carriers
    BY <2>2, MergeFacts
  <2>4. u = n
    BY <2>1
  <2> HIDE DEF u, n
  <2>5. QED BY <2>1, <2>3, <2>4
<1>4. /\ n \in PendingMaintainerUploads /\ OnePerId(n.claims) /\ OnePerId(n.acks)
      /\ GroupsOK(n.groups) /\ n.durable \subseteq Ids(n.claims)
  BY <1>3 DEF QueueOK, WellFormed, GroupsOK
<1>w. stage_consolidation_batch(q, cs, groups) = write_or_clear(r)
  BY DEF stage_consolidation_batch, r, gs, n, p, Marked
<1> HIDE DEF n
<1>5. gs \in SUBSET ConsolidationDelivery /\ GroupsOK(gs)
  <2>1. gs \in SUBSET ConsolidationDelivery
    BY <1>4, QueueFields
  <2>2. GroupsOK(gs)
    BY <1>4 DEF GroupsOK
  <2>3. QED BY <2>1, <2>2
<1>e. \A k \in gs : k \in groups \/ k \in n.groups
  OBVIOUS
<1> HIDE DEF gs
<1>6. /\ r.claims = n.claims /\ r.acks = n.acks /\ r.durable = n.durable
      /\ r.disputes = n.disputes /\ r.groups = gs
      /\ r \in [claims : SUBSET Claim, durable : SUBSET Claims, disputes : SUBSET Disputes,
                groups : SUBSET ConsolidationDelivery, acks : SUBSET Claim]
  BY <1>4, <1>5 DEF PendingMaintainerUploads
<1> HIDE DEF r
<1>7. QueueOK(r)
  BY <1>4, <1>5, <1>6, QueueBuilt
<1>8. /\ QueueOK(write_or_clear(r)) /\ write_or_clear(r).claims = r.claims
      /\ write_or_clear(r).disputes = r.disputes
      /\ write_or_clear(r).groups \subseteq r.groups
  BY <1>7, WriteOrClear
<1>9. QED BY <1>1, <1>2, <1>3, <1>6, <1>8, <1>e, <1>w

\* Pruning drops groups and acknowledgements only.
LEMMA PruneFacts ==
  ASSUME NEW q, QueueOK(q)
  PROVE  LET m == prune(q) IN
         /\ QueueOK(m) /\ m.claims = q.claims /\ m.disputes = q.disputes
         /\ m.durable = q.durable /\ m.groups \subseteq q.groups
<1>1. PICK K \in SUBSET q.groups, A \in SUBSET q.acks :
        prune(q) = [q EXCEPT !.groups = K, !.acks = A]
  BY DEF prune
<1>2. /\ q \in PendingMaintainerUploads /\ OnePerId(q.claims) /\ OnePerId(q.acks)
      /\ GroupsOK(q.groups) /\ q.durable \subseteq Ids(q.claims)
  BY DEF QueueOK, WellFormed, GroupsOK
<1> DEFINE m == [q EXCEPT !.groups = K, !.acks = A]
<1>3. /\ m.claims = q.claims /\ m.disputes = q.disputes /\ m.durable = q.durable
      /\ m.groups = K /\ m.acks = A
      /\ m \in [claims : SUBSET Claim, durable : SUBSET Claims, disputes : SUBSET Disputes,
                groups : SUBSET ConsolidationDelivery, acks : SUBSET Claim]
  BY <1>2 DEF PendingMaintainerUploads
<1> HIDE DEF m
<1>4. OnePerId(A) /\ GroupsOK(K)
  BY <1>2 DEF OnePerId, GroupsOK
<1>5. QueueOK(m)
  BY <1>2, <1>3, <1>4, QueueBuilt
<1>6. prune(q) = m
  BY <1>1 DEF m
<1>7. QED BY <1>3, <1>5, <1>6

LEMMA PolicyStageFacts ==
  ASSUME NEW q, QueueOK(q), NEW cs \in SUBSET Claim, OnePerId(cs), NEW sourced
  PROVE  LET m == stage_policy_deprecation(q, cs, sourced) IN
         /\ QueueOK(m)
         /\ m.claims = Insert(q.claims, NotOlder(q, cs))
         /\ m.disputes = q.disputes
         /\ \A k \in m.groups :
              /\ \E g \in q.groups : k.retired.id = g.retired.id
              /\ ~\E c \in m.claims : c.id = k.retired.id /\ c.dep /\ c.id \in sourced
<1> DEFINE n == merge_pending_uploads(q, cs, {})
           gs == {g \in n.groups : ~\E c \in n.claims :
                                      c.id = g.retired.id /\ c.dep /\ c.id \in sourced}
           r == [n EXCEPT !.groups = gs]
<1>1. /\ q \in PendingMaintainerUploads /\ OnePerId(q.claims) /\ OnePerId(q.acks)
      /\ GroupsOK(q.groups)
  BY DEF QueueOK, WellFormed, GroupsOK
<1>2. /\ QueueOK(n) /\ n.claims = Insert(q.claims, NotOlder(q, cs))
      /\ n.disputes = q.disputes
      /\ \A k \in n.groups : \E g \in q.groups : k.retired.id = g.retired.id
  <2>1. PICK ds \in SUBSET Disputes : ds = {}
    OBVIOUS
  <2> DEFINE u == merge_pending_uploads(q, cs, ds)
  <2>2. /\ QueueOK(u) /\ u.claims = Insert(q.claims, NotOlder(q, cs))
        /\ u.disputes = q.disputes \cup ds
        /\ \A k \in u.groups : \E g \in q.groups :
             k.retired.id = g.retired.id /\ k.carriers = g.carriers
    BY <1>1, MergeFacts
  <2>3. u = n
    BY <2>1
  <2> HIDE DEF u, n
  <2>4. QED BY <2>1, <2>2, <2>3
<1>3. /\ n \in PendingMaintainerUploads /\ OnePerId(n.claims) /\ OnePerId(n.acks)
      /\ GroupsOK(n.groups) /\ n.durable \subseteq Ids(n.claims)
  BY <1>2 DEF QueueOK, WellFormed, GroupsOK
<1>w. stage_policy_deprecation(q, cs, sourced) = write_or_clear(prune(r))
  BY DEF stage_policy_deprecation
<1> HIDE DEF n
<1>4. /\ gs \in SUBSET ConsolidationDelivery /\ GroupsOK(gs) /\ gs \subseteq n.groups
      /\ \A k \in gs : ~\E c \in n.claims : c.id = k.retired.id /\ c.dep /\ c.id \in sourced
  BY <1>3, QueueFields DEF GroupsOK
<1> HIDE DEF gs
<1>5. /\ r.claims = n.claims /\ r.acks = n.acks /\ r.durable = n.durable
      /\ r.disputes = n.disputes /\ r.groups = gs
      /\ r \in [claims : SUBSET Claim, durable : SUBSET Claims, disputes : SUBSET Disputes,
                groups : SUBSET ConsolidationDelivery, acks : SUBSET Claim]
  BY <1>3, <1>4 DEF PendingMaintainerUploads
<1> HIDE DEF r
<1>6. QueueOK(r)
  BY <1>3, <1>4, <1>5, QueueBuilt
<1> DEFINE t == prune(r)
<1>7. /\ QueueOK(t) /\ t.claims = r.claims /\ t.disputes = r.disputes
      /\ t.groups \subseteq r.groups
  BY <1>6, PruneFacts
<1> HIDE DEF t
<1>8. /\ QueueOK(write_or_clear(t)) /\ write_or_clear(t).claims = t.claims
      /\ write_or_clear(t).disputes = t.disputes
      /\ write_or_clear(t).groups \subseteq t.groups
  BY <1>7, WriteOrClear
<1>9. stage_policy_deprecation(q, cs, sourced) = write_or_clear(t)
  BY <1>w DEF t
<1> DEFINE z == write_or_clear(t)
<1>10. /\ QueueOK(z) /\ z.claims = n.claims /\ z.disputes = q.disputes
       /\ z.groups \subseteq gs
  BY <1>2, <1>5, <1>7, <1>8
<1>11. stage_policy_deprecation(q, cs, sourced) = z
  BY <1>9
<1> HIDE DEF z
<1>12. \A k \in z.groups :
         /\ \E g \in q.groups : k.retired.id = g.retired.id
         /\ ~\E c \in z.claims : c.id = k.retired.id /\ c.dep /\ c.id \in sourced
  BY <1>2, <1>4, <1>10
<1>13. QED BY <1>2, <1>10, <1>11, <1>12

LEMMA RebindFacts ==
  ASSUME NEW q, QueueOK(q), NEW g \in q.groups, NEW cs \in SUBSET Claim, OnePerId(cs)
  PROVE  LET m == rebind_consolidation(q, g, cs) IN
         /\ QueueOK(m)
         /\ m.claims = Insert(q.claims, cs)
         /\ m.disputes = q.disputes
         /\ \A k \in m.groups : \E h \in q.groups : k.retired.id = h.retired.id
<1> DEFINE new == [g EXCEPT !.carriers = cs]
           gs == {h \in q.groups : h.retired.id # g.retired.id} \cup {new}
           ins == Insert(q.claims, cs)
           dur == q.durable \cup Ids(cs)
           r == [q EXCEPT !.groups = gs, !.claims = ins, !.durable = dur]
<1>1. /\ q \in PendingMaintainerUploads /\ OnePerId(q.claims) /\ OnePerId(q.acks)
      /\ GroupsOK(q.groups) /\ q.durable \subseteq Ids(q.claims)
  BY DEF QueueOK, WellFormed, GroupsOK
<1>2. g \in ConsolidationDelivery
  BY <1>1, QueueFields
<1>3. /\ new \in ConsolidationDelivery /\ new.retired = g.retired /\ new.before = g.before
  BY <1>2 DEF ConsolidationDelivery
<1>w. rebind_consolidation(q, g, cs) = write_or_clear(r)
  BY DEF rebind_consolidation
<1> HIDE DEF new
<1>4. /\ gs \in SUBSET ConsolidationDelivery /\ GroupsOK(gs)
      /\ \A k \in gs : \E h \in q.groups : k.retired.id = h.retired.id
  <2>1. gs \in SUBSET ConsolidationDelivery
    BY <1>1, <1>3, QueueFields
  <2>2. GroupsOK(gs)
    BY <1>1, <1>3 DEF GroupsOK
  <2>3. QED BY <1>3, <2>1, <2>2
<1> HIDE DEF gs
<1>5. ins \in SUBSET Claim /\ OnePerId(ins) /\ Ids(ins) = Ids(q.claims) \cup Ids(cs)
  BY <1>1, QueueFields, InsertFacts
<1>6. dur \in SUBSET Claims /\ dur \subseteq Ids(ins)
  <2>1. Ids(cs) \subseteq Claims
    BY DEF Ids, Claim
  <2>2. QED BY <1>1, <1>5, <2>1, QueueFields
<1> HIDE DEF ins, dur
<1>7. /\ r.claims = ins /\ r.acks = q.acks /\ r.durable = dur
      /\ r.disputes = q.disputes /\ r.groups = gs
      /\ r \in [claims : SUBSET Claim, durable : SUBSET Claims, disputes : SUBSET Disputes,
                groups : SUBSET ConsolidationDelivery, acks : SUBSET Claim]
  BY <1>1, <1>4, <1>5, <1>6 DEF PendingMaintainerUploads
<1> HIDE DEF r
<1>8. QueueOK(r)
  BY <1>1, <1>4, <1>5, <1>6, <1>7, QueueBuilt
<1>9. /\ QueueOK(write_or_clear(r)) /\ write_or_clear(r).claims = r.claims
      /\ write_or_clear(r).disputes = r.disputes
      /\ write_or_clear(r).groups \subseteq r.groups
  BY <1>8, WriteOrClear
<1>10. QED BY <1>4, <1>7, <1>9, <1>w DEF ins

----------------------------------------------------------------------------
\* Writers and their plans

\* The parts of the type invariant.
TLocal == local \in [Claims -> Claim] /\ \A c \in Claims : local[c].id = c
TRecords ==
  /\ edit \subseteq PendingClaimEdit /\ \A e, f \in edit : e = f
  /\ recap \in Plan /\ dream \in DreamPlan /\ dream_pending \in BOOLEAN
  /\ policy \in {"pending", "staged", "done"} /\ ledger \subseteq Disputes
TWriter == wr \in Writer /\ faults \in 0..MaxFaults

\* The steps of each writer.
Steps(op) ==
  CASE op = "none" -> {"idle"}
    [] op = "edit" -> {"recover", "recovered", "plan", "write", "stage", "clear"}
    [] op = "recap" -> {"recover", "recovered", "plan", "discard", "write", "progress",
                        "record", "done"}
    [] op = "dream" -> {"plan", "discard", "write", "stage", "done", "clear"}
    [] op = "policy" -> {"write", "stage"}

KSteps ==
  /\ wr.pc \in Steps(wr.op)
  /\ wr.todo # {} => wr.op \in {"recap", "dream"} /\ wr.pc \in {"write", "progress"}

\* An edit is journalled for the version it replaces, and written over that version.
KEdit ==
  /\ \A e \in edit : /\ e.target.id = e.old.id /\ e.old.v < e.target.v
                     /\ e.target.by = "user"
  /\ wr.op = "edit" =>
       /\ wr.pc \in {"recover", "recovered", "plan"} => \A c \in wr.ids : CanRevise(c)
       /\ wr.pc = "plan" => edit = {}
       /\ wr.pc \in {"write", "stage", "clear"} => \A e \in edit : e.target.id \in wr.ids
       /\ wr.pc = "write" => \A e \in edit : local[e.target.id] = e.old
       /\ wr.pc \in {"stage", "clear"} => \A e \in edit : local[e.target.id] = e.target

\* A checkpoint has one target for each claim, newer than the analysed version; what it
\* counts as applied was a target, unless the plan was given up.
GoodPlan ==
  /\ OnePerId(recap.targets)
  /\ \A t \in recap.targets : t.by = "recap" /\ recap.analysis[t.id].v < t.v
  /\ \A t \in recap.applied : t.by = "recap"
  /\ recap.targets = {} \/ recap.applied \subseteq recap.targets

\* What is still to be written meets the analysed version; the other targets are there.
OnTrack ==
  /\ wr.todo \subseteq recap.targets
  /\ \A t \in wr.todo : local[t.id] = recap.analysis[t.id]
  /\ \A t \in recap.targets : t \in wr.todo \/ (local[t.id] = t /\ t \in wr.done)
  /\ recap.applied \subseteq wr.done /\ \A t \in wr.done : t.by = "recap"
  /\ recap.targets = {} \/ wr.done \subseteq recap.targets

KRecap ==
  /\ recap.st = "prepared" => GoodPlan
  /\ wr.op = "recap" =>
       /\ wr.pc \in {"discard", "write", "progress", "record", "done"} => recap.st = "prepared"
       /\ wr.pc \in {"write", "progress", "record", "done"} => OnTrack

\* A Dream group says of each of its claims what it is before and after.
GoodGroup ==
  /\ OnePerId(dream.before) /\ OnePerId(dream.after) /\ Ids(dream.before) = Ids(dream.after)
  /\ \A b \in dream.before, a \in dream.after :
       b.id = a.id => a = b \/ (b.v < a.v /\ a.by = "dream")

KDream ==
  /\ dream.st = "prepared" => GoodGroup
  /\ dream_pending => dream.st # "none"
  /\ wr.op = "dream" =>
       /\ dream.st # "none"
       /\ wr.pc \in {"discard", "write", "stage", "done"} =>
            dream.st = "prepared" /\ dream_pending
       /\ wr.pc = "write" =>
            /\ wr.done = dream.after /\ wr.todo \subseteq dream.after
            /\ \A t \in wr.todo : local[t.id] \in dream.before
            /\ \A t \in dream.after : t \in wr.todo \/ local[t.id] = t
       /\ wr.pc \in {"stage", "done"} => wr.done = dream.after \cap Current

\* While a policy is withdrawn every claim it has to deprecate can be.
KPolicy ==
  wr.op = "policy" =>
    policy = "pending" /\ \A c \in Sourced : Exists(c) /\ ~local[c].dep => CanRevise(c)

\* The inductive invariant, without and with the queue.
PlanInv == TLocal /\ TRecords /\ TWriter /\ KSteps /\ KEdit /\ KRecap /\ KDream /\ KPolicy
KInv == PlanInv /\ QueueOK(pend)

----------------------------------------------------------------------------
\* The writer's steps, as moves of its record

LEMMA StepsFacts ==
  /\ Steps("none") = {"idle"}
  /\ Steps("edit") = {"recover", "recovered", "plan", "write", "stage", "clear"}
  /\ Steps("recap") = {"recover", "recovered", "plan", "discard", "write", "progress",
                       "record", "done"}
  /\ Steps("dream") = {"plan", "discard", "write", "stage", "done", "clear"}
  /\ Steps("policy") = {"write", "stage"}
  BY DEF Steps

LEMMA WriterFields ==
  ASSUME TWriter
  PROVE  /\ wr.op \in {"none", "edit", "recap", "dream", "policy"}
         /\ wr.ids \in SUBSET Claims /\ wr.todo \in SUBSET Claim /\ wr.done \in SUBSET Claim
  BY DEF TWriter, Writer

\* A step that only moves on.
LEMMA GotoFacts ==
  ASSUME TWriter, NEW p, p \in {"idle", "recover", "recovered", "plan", "discard", "write",
                                "progress", "stage", "record", "clear", "done"},
         Goto(p)
  PROVE  /\ wr' \in Writer /\ wr'.op = wr.op /\ wr'.pc = p /\ wr'.ids = wr.ids
         /\ wr'.todo = wr.todo /\ wr'.done = wr.done
  BY DEF TWriter, Writer, Goto

LEMMA IdleFacts ==
  ASSUME wr' = Idle
  PROVE  wr' \in Writer /\ wr'.op = "none" /\ wr'.pc = "idle" /\ wr'.todo = {}
  BY DEF Idle, Writer

LEMMA LockFacts ==
  ASSUME NEW op \in {"none", "edit", "recap", "dream", "policy"},
         NEW p, p \in {"recover", "plan", "write"}, NEW ids \in SUBSET Claims, Lock(op, p, ids)
  PROVE  /\ wr' \in Writer /\ wr'.op = op /\ wr'.pc = p /\ wr'.ids = ids
         /\ wr'.todo = {} /\ wr.op = "none"
  BY DEF Lock, Idle, Writer

\* A writer disturbs only what the invariant says of its own records.
LEMMA Frames ==
  ASSUME PlanInv
  PROVE  /\ edit' = edit /\ wr'.op # "edit" => KEdit'
         /\ recap' = recap /\ wr'.op # "recap" => KRecap'
         /\ dream' = dream /\ dream_pending' = dream_pending /\ wr'.op # "dream" => KDream'
         /\ wr'.op # "policy" => KPolicy'
<1>1. ASSUME edit' = edit, wr'.op # "edit" PROVE KEdit'
  BY <1>1 DEF PlanInv, KEdit
<1>2. ASSUME recap' = recap, wr'.op # "recap" PROVE KRecap'
  BY <1>2 DEF PlanInv, KRecap, GoodPlan
<1>3. ASSUME dream' = dream, dream_pending' = dream_pending, wr'.op # "dream" PROVE KDream'
  BY <1>3 DEF PlanInv, KDream, GoodGroup
<1>4. wr'.op # "policy" => KPolicy'
  BY DEF KPolicy
<1>5. QED BY <1>1, <1>2, <1>3, <1>4

\* A writer gives up, finishes or dies.
LEMMA IdleNext ==
  ASSUME PlanInv, wr' = Idle, local' = local, edit' = edit \/ edit' = {}, recap' = recap,
         dream' = dream, dream_pending' = dream_pending,
         policy' \in {"pending", "staged", "done"}, ledger' = ledger, faults' \in 0..MaxFaults
  PROVE  PlanInv'
<1>1. wr' \in Writer /\ wr'.op = "none" /\ wr'.pc = "idle" /\ wr'.todo = {}
  BY IdleFacts
<1>2. TLocal' /\ TRecords' /\ TWriter'
  BY <1>1 DEF PlanInv, TLocal, TRecords, TWriter
<1>3. KSteps'
  BY <1>1, StepsFacts DEF KSteps
<1>4. KEdit'
  BY <1>1 DEF PlanInv, KEdit
<1>5. QED BY <1>1, <1>2, <1>3, <1>4, Frames DEF PlanInv

----------------------------------------------------------------------------
\* A user's edit

LEMMA NextVersion ==
  ASSUME TLocal, NEW c \in Claims, CanRevise(c), NEW dep \in BOOLEAN, NEW by \in Writers
  PROVE  LET t == next_claim_update_at(c, dep, by) IN
         t \in Claim /\ t.id = c /\ local[c].v < t.v /\ t.by = by /\ t.dep = dep
<1>1. local[c] \in Claim /\ local[c].v \in 0..MaxVersion /\ MaxVersion \in Nat
  BY KnowledgeAssumption DEF TLocal, Claim
<1>2. local[c].v + 1 \in 0..MaxVersion /\ local[c].v < local[c].v + 1
  BY <1>1 DEF CanRevise
<1>3. QED BY <1>2 DEF next_claim_update_at, Claim

\* The same for a revision that withdraws the claim, and for one that keeps it.
LEMMA NextWithdrawn ==
  ASSUME TLocal, NEW c \in Claims, CanRevise(c), NEW by \in Writers
  PROVE  /\ next_claim_update_at(c, TRUE, by) \in Claim
         /\ next_claim_update_at(c, TRUE, by).id = c
         /\ local[c].v < next_claim_update_at(c, TRUE, by).v
         /\ next_claim_update_at(c, TRUE, by).by = by
         /\ next_claim_update_at(c, TRUE, by).dep
<1>1. local[c] \in Claim /\ local[c].v \in 0..MaxVersion /\ MaxVersion \in Nat
  BY KnowledgeAssumption DEF TLocal, Claim
<1>2. local[c].v + 1 \in 0..MaxVersion /\ local[c].v < local[c].v + 1
  BY <1>1 DEF CanRevise
<1>3. QED BY ONLY <1>2, by \in Writers, c \in Claims DEF next_claim_update_at, Claim

LEMMA NextKept ==
  ASSUME TLocal, NEW c \in Claims, CanRevise(c), NEW by \in Writers
  PROVE  /\ next_claim_update_at(c, FALSE, by) \in Claim
         /\ next_claim_update_at(c, FALSE, by).id = c
         /\ local[c].v < next_claim_update_at(c, FALSE, by).v
         /\ next_claim_update_at(c, FALSE, by).by = by
<1>1. local[c] \in Claim /\ local[c].v \in 0..MaxVersion /\ MaxVersion \in Nat
  BY KnowledgeAssumption DEF TLocal, Claim
<1>2. local[c].v + 1 \in 0..MaxVersion /\ local[c].v < local[c].v + 1
  BY <1>1 DEF CanRevise
<1>3. QED BY ONLY <1>2, by \in Writers, c \in Claims DEF next_claim_update_at, Claim

LEMMA LockEditNext ==
  ASSUME PlanInv, NEW c \in Claims, lock_edit(c)
  PROVE  PlanInv'
<1>1. /\ Lock("edit", "recover", {c}) /\ CanRevise(c)
  BY DEF lock_edit
<1>2. /\ wr' \in Writer /\ wr'.op = "edit" /\ wr'.pc = "recover" /\ wr'.ids = {c}
      /\ wr'.todo = {}
  BY <1>1, LockFacts
<1>3. /\ local' = local /\ edit' = edit /\ recap' = recap /\ dream' = dream
      /\ dream_pending' = dream_pending /\ policy' = policy /\ ledger' = ledger /\ faults' = faults
  BY <1>1 DEF Lock
<1>4. TLocal' /\ TRecords' /\ TWriter'
  BY <1>2, <1>3 DEF PlanInv, TLocal, TRecords, TWriter
<1>5. KSteps'
  BY <1>2, StepsFacts DEF KSteps
<1>6. KEdit'
  BY <1>1, <1>2, <1>3 DEF PlanInv, KEdit, CanRevise
<1>7. QED BY <1>2, <1>3, <1>4, <1>5, <1>6, Frames DEF PlanInv

\* The steps before the plan, of an edit or a Recap.
LEMMA BeforePlanNext ==
  ASSUME PlanInv, wr.op \in {"edit", "recap"}, NEW p \in {"recovered", "plan"}, Goto(p),
         wr.pc \in {"recover", "recovered"}, edit' = edit \/ edit' = {},
         wr.op = "edit" /\ p = "plan" => edit' = {}, faults' \in 0..MaxFaults,
         UNCHANGED <<local, recap, dream, dream_pending, policy, ledger>>
  PROVE  PlanInv'
<1>1. /\ wr' \in Writer /\ wr'.op = wr.op /\ wr'.pc = p /\ wr'.ids = wr.ids
      /\ wr'.todo = wr.todo
  BY GotoFacts DEF PlanInv
<1>2. TLocal' /\ TRecords' /\ TWriter'
  BY <1>1 DEF PlanInv, TLocal, TRecords, TWriter
<1>3. KSteps'
  BY <1>1, StepsFacts DEF PlanInv, KSteps
<1>4. KEdit'
  BY <1>1 DEF PlanInv, KEdit, CanRevise
<1>5. KRecap'
  BY <1>1 DEF PlanInv, KRecap, GoodPlan
<1>6. QED BY <1>1, <1>2, <1>3, <1>4, <1>5, Frames DEF PlanInv

LEMMA FaultCount ==
  ASSUME TWriter, Fault
  PROVE  faults' \in 0..MaxFaults
  BY KnowledgeAssumption DEF TWriter, Fault

LEMMA RecoverNext ==
  ASSUME PlanInv, recover_pending_claim_edit_locked \/ clear_recovered_edit
  PROVE  PlanInv'
<1>1. wr.pc \in {"recover", "recovered"} /\ wr.op \in {"edit", "recap"}
  BY StepsFacts, WriterFields
     DEF PlanInv, KSteps, recover_pending_claim_edit_locked, clear_recovered_edit
<1>2. UNCHANGED <<local, recap, dream, dream_pending, policy, ledger>>
  BY DEF recover_pending_claim_edit_locked, clear_recovered_edit
<1>3. \E p \in {"recovered", "plan"} :
        /\ Goto(p) /\ (edit' = edit \/ edit' = {})
        /\ wr.op = "edit" /\ p = "plan" => edit' = {}
        /\ faults' = faults \/ Fault
  BY DEF recover_pending_claim_edit_locked, clear_recovered_edit
<1>4. faults' \in 0..MaxFaults
  BY <1>3, FaultCount DEF PlanInv, TWriter
<1>5. QED BY <1>1, <1>2, <1>3, <1>4, BeforePlanNext

LEMMA GiveUpNext ==
  ASSUME PlanInv, give_up \/ clear_pending_claim_edit
  PROVE  PlanInv'
<1>1. /\ wr' = Idle /\ local' = local /\ (edit' = edit \/ edit' = {}) /\ recap' = recap
      /\ dream' = dream /\ dream_pending' = dream_pending /\ policy' = policy
      /\ ledger' = ledger /\ faults' = faults
  BY DEF give_up, clear_pending_claim_edit
<1>2. policy' \in {"pending", "staged", "done"} /\ faults' \in 0..MaxFaults
  BY <1>1 DEF PlanInv, TRecords, TWriter
<1>3. QED BY <1>1, <1>2, IdleNext

LEMMA JournalNext ==
  ASSUME PlanInv, journal_edit
  PROVE  PlanInv'
<1>1. /\ wr.op = "edit" /\ wr.pc = "plan" /\ Goto("write")
      /\ UNCHANGED <<local, recap, dream, dream_pending, policy, ledger, faults>>
  BY DEF journal_edit, At
<1>2. PICK c \in wr.ids, dep \in BOOLEAN :
        edit' = {[old |-> local[c], target |-> next_claim_update_at(c, dep, "user")]}
  BY DEF journal_edit
<1>3. /\ wr' \in Writer /\ wr'.op = wr.op /\ wr'.pc = "write" /\ wr'.ids = wr.ids
      /\ wr'.todo = wr.todo
  BY <1>1, GotoFacts DEF PlanInv
<1> DEFINE t == next_claim_update_at(c, dep, "user")
           e == [old |-> local[c], target |-> t]
<1>4. c \in Claims /\ CanRevise(c)
  BY <1>1, WriterFields DEF PlanInv, KEdit
<1>5. t \in Claim /\ t.id = c /\ local[c].v < t.v /\ t.by = "user"
  BY <1>4, NextVersion DEF PlanInv, Writers
<1> HIDE DEF t
<1>6. local[c] \in Claim /\ local[c].id = c
  BY <1>4 DEF PlanInv, TLocal
<1>7. e \in PendingClaimEdit /\ e.old = local[c] /\ e.target = t
  BY <1>5, <1>6 DEF PendingClaimEdit
<1>8. edit' = {e}
  BY <1>2 DEF t
<1> HIDE DEF e
<1>9. TLocal' /\ TRecords' /\ TWriter'
  BY <1>1, <1>3, <1>7, <1>8 DEF PlanInv, TLocal, TRecords, TWriter
<1>10. KSteps'
  BY <1>1, <1>3, StepsFacts DEF PlanInv, KSteps
<1>11. KEdit'
  BY <1>1, <1>3, <1>5, <1>6, <1>7, <1>8 DEF KEdit
<1>12. QED BY <1>1, <1>3, <1>9, <1>10, <1>11, Frames DEF PlanInv

\* A claim is written over.
LEMMA WriteClaimFacts ==
  ASSUME TLocal, NEW t \in Claim, write_claim(t)
  PROVE  /\ TLocal' /\ local'[t.id] = t
         /\ \A c \in Claims : c # t.id => local'[c] = local[c]
<1>1. t.id \in Claims
  BY DEF Claim
<1>2. QED BY <1>1 DEF TLocal, write_claim

LEMMA WriteEditNext ==
  ASSUME PlanInv, write_edit
  PROVE  PlanInv'
<1>1. /\ wr.op = "edit" /\ wr.pc = "write" /\ Goto("stage")
      /\ UNCHANGED <<edit, recap, dream, dream_pending, policy, ledger, faults>>
  BY DEF write_edit, At
<1>2. PICK e \in edit : write_claim(e.target)
  BY DEF write_edit
<1>3. /\ wr' \in Writer /\ wr'.op = wr.op /\ wr'.pc = "stage" /\ wr'.ids = wr.ids
      /\ wr'.todo = wr.todo
  BY <1>1, GotoFacts DEF PlanInv
<1>4. e.target \in Claim /\ \A f \in edit : f = e
  BY DEF PlanInv, TRecords, PendingClaimEdit
<1>5. TLocal' /\ local'[e.target.id] = e.target
  BY <1>2, <1>4, WriteClaimFacts DEF PlanInv
<1>6. TRecords' /\ TWriter'
  BY <1>1, <1>3 DEF PlanInv, TRecords, TWriter
<1>7. KSteps'
  BY <1>1, <1>3, StepsFacts DEF PlanInv, KSteps
<1>8. KEdit'
  BY <1>1, <1>3, <1>4, <1>5 DEF PlanInv, KEdit
<1>9. QED BY <1>1, <1>3, <1>5, <1>6, <1>7, <1>8, Frames DEF PlanInv

LEMMA StageEditNext ==
  ASSUME PlanInv, stage_edit
  PROVE  PlanInv'
<1>1. /\ wr.op = "edit" /\ wr.pc = "stage" /\ Goto("clear")
      /\ UNCHANGED <<local, edit, recap, dream, dream_pending, policy, ledger, faults>>
  BY DEF stage_edit, At
<1>2. /\ wr' \in Writer /\ wr'.op = wr.op /\ wr'.pc = "clear" /\ wr'.ids = wr.ids
      /\ wr'.todo = wr.todo
  BY <1>1, GotoFacts DEF PlanInv
<1>3. TLocal' /\ TRecords' /\ TWriter'
  BY <1>1, <1>2 DEF PlanInv, TLocal, TRecords, TWriter
<1>4. KSteps'
  BY <1>1, <1>2, StepsFacts DEF PlanInv, KSteps
<1>5. KEdit'
  BY <1>1, <1>2 DEF PlanInv, KEdit
<1>6. QED BY <1>1, <1>2, <1>3, <1>4, <1>5, Frames DEF PlanInv

LEMMA EditNext ==
  ASSUME PlanInv, EditStep
  PROVE  PlanInv'
  BY LockEditNext, RecoverNext, GiveUpNext, JournalNext, WriteEditNext, StageEditNext
     DEF EditStep

----------------------------------------------------------------------------
\* The checkpoint of a Recap or Finalize

LEMMA PlanFields ==
  ASSUME TRecords
  PROVE  /\ recap.st \in {"none", "prepared", "applied"} /\ recap.analysis \in [Claims -> Claim]
         /\ recap.targets \in SUBSET Claim /\ recap.applied \in SUBSET Claim
         /\ recap.disputes \in SUBSET Disputes
  BY DEF TRecords, Plan

LEMMA LockRecapNext ==
  ASSUME PlanInv, lock_recap
  PROVE  PlanInv'
<1>1. Lock("recap", "recover", {})
  BY DEF lock_recap
<1>2. /\ local' = local /\ edit' = edit /\ recap' = recap /\ dream' = dream
      /\ dream_pending' = dream_pending /\ policy' = policy /\ ledger' = ledger /\ faults' = faults
  BY <1>1 DEF Lock
<1>3. wr' \in Writer /\ wr'.op = "recap" /\ wr'.pc = "recover" /\ wr'.todo = {}
  BY <1>1 DEF Lock, Idle, Writer
<1>4. TLocal' /\ TRecords' /\ TWriter'
  BY <1>2, <1>3 DEF PlanInv, TLocal, TRecords, TWriter
<1>5. KSteps'
  BY <1>3, StepsFacts DEF KSteps
<1>6. KRecap'
  BY <1>2, <1>3 DEF PlanInv, KRecap, GoodPlan
<1>7. QED BY <1>2, <1>3, <1>4, <1>5, <1>6, Frames DEF PlanInv

\* A new plan is about the claims as they are.
LEMMA NewPlan ==
  ASSUME TLocal, NEW T \in SUBSET {c \in Claims : CanRevise(c)}, NEW D \in SUBSET Disputes,
         NEW dep \in [T -> BOOLEAN],
         recap' = [st |-> "prepared", analysis |-> local, applied |-> {}, disputes |-> D,
                   targets |-> {next_claim_update_at(c, dep[c], "recap") : c \in T}]
  PROVE  recap' \in Plan /\ recap'.st = "prepared" /\ GoodPlan'
<1> DEFINE t(c) == next_claim_update_at(c, dep[c], "recap")
           ts == {t(c) : c \in T}
<1>1. ASSUME NEW c \in T
      PROVE  t(c) \in Claim /\ t(c).id = c /\ local[c].v < t(c).v /\ t(c).by = "recap"
  <2>1. c \in Claims /\ CanRevise(c) /\ dep[c] \in BOOLEAN /\ "recap" \in Writers
    BY DEF Writers
  <2>2. QED BY <2>1, NextVersion
<1> HIDE DEF t
<1>2. ts \in SUBSET Claim /\ OnePerId(ts)
  BY <1>1 DEF OnePerId
<1>3. \A x \in ts : x.by = "recap" /\ local[x.id].v < x.v
  BY <1>1
<1>4. recap' = [st |-> "prepared", analysis |-> local, applied |-> {}, disputes |-> D,
                targets |-> ts]
  BY DEF t
<1> HIDE DEF ts
<1>5. /\ recap'.st = "prepared" /\ recap'.analysis = local /\ recap'.applied = {}
      /\ recap'.targets = ts
  BY <1>4
<1>6. recap' \in Plan
  BY <1>2, <1>4 DEF TLocal, Plan
<1>7. QED BY <1>2, <1>3, <1>5, <1>6 DEF GoodPlan

LEMMA PrepareRecapNext ==
  ASSUME PlanInv, prepare_recap
  PROVE  PlanInv'
<1>1. /\ wr.op = "recap" /\ wr.pc = "plan" /\ Goto("discard")
      /\ UNCHANGED <<local, edit, dream, dream_pending, policy, ledger, faults>>
  BY DEF prepare_recap, At
<1>2. recap' \in Plan /\ recap'.st = "prepared" /\ GoodPlan'
  <2>1. CASE recap.st = "prepared" /\ recap' = recap
    BY <2>1 DEF PlanInv, TRecords, KRecap, GoodPlan
  <2>2. CASE ~(recap.st = "prepared" /\ recap' = recap)
    BY <2>2, NewPlan DEF prepare_recap, PlanInv
  <2>3. QED BY <2>1, <2>2
<1>3. wr' \in Writer /\ wr'.op = wr.op /\ wr'.pc = "discard" /\ wr'.todo = wr.todo
  BY <1>1, GotoFacts DEF PlanInv
<1>4. TLocal' /\ TRecords' /\ TWriter'
  BY <1>1, <1>2, <1>3 DEF PlanInv, TLocal, TRecords, TWriter
<1>5. KSteps'
  BY <1>1, <1>3, StepsFacts DEF PlanInv, KSteps
<1>6. KRecap'
  BY <1>1, <1>2, <1>3 DEF KRecap
<1>7. QED BY <1>1, <1>3, <1>4, <1>5, <1>6, Frames DEF PlanInv

\* A checkpoint that goes on is as it was analysed, apart from its own writes.
LEMMA NotStale ==
  ASSUME PlanInv, GoodPlan, ~analysis_is_stale,
         NEW t \in recap.targets
  PROVE  IF t.id \in Ids(observe_applied)
         THEN local[t.id] = t /\ t \in observe_applied
         ELSE local[t.id] = recap.analysis[t.id]
<1> DEFINE O == observe_applied
<1>1. O \subseteq recap.targets
  BY DEF GoodPlan, observe_applied
<1>2. t.id \in Ids(recap.targets) /\ t.id \in Claims
  BY PlanFields DEF Ids, Claim, PlanInv
<1>3. O \cap recap.targets = O
  BY <1>1
<1>4. local[t.id] = IF t.id \in Ids(O) THEN Entry(O, t.id) ELSE recap.analysis[t.id]
  BY <1>2, <1>3 DEF analysis_is_stale
<1> HIDE DEF O
<1>5. ASSUME t.id \in Ids(O) PROVE Entry(O, t.id) = t /\ t \in O
  <2>1. Entry(O, t.id) \in O /\ Entry(O, t.id).id = t.id
    BY <1>5, EntryFacts
  <2>2. QED BY <1>1, <2>1 DEF GoodPlan, OnePerId
<1>6. QED BY <1>4, <1>5 DEF O

LEMMA DiscardNext ==
  ASSUME PlanInv, discard_stale_finalize_checkpoint
  PROVE  PlanInv'
<1> DEFINE O == observe_applied
           rest == {t \in recap.targets : t.id \notin Ids(O)}
<1>1. /\ wr.op = "recap" /\ wr.pc = "discard" /\ recap.st = "prepared" /\ GoodPlan
      /\ wr.todo = {}
      /\ UNCHANGED <<local, edit, dream, dream_pending, policy, ledger, faults>>
  BY DEF discard_stale_finalize_checkpoint, At, PlanInv, KRecap, KSteps
<1>2. O \in SUBSET Claim /\ recap.applied \subseteq O /\ \A t \in O : t.by = "recap"
  BY <1>1, PlanFields DEF observe_applied, GoodPlan, PlanInv
<1>3. recap.targets = {} \/ O \subseteq recap.targets
  BY <1>1 DEF observe_applied, GoodPlan
<1>4. rest \in SUBSET Claim /\ rest \subseteq recap.targets
  BY PlanFields DEF PlanInv
<1>5. CASE analysis_is_stale
  <2>1. /\ recap' = [recap EXCEPT !.targets = {}, !.disputes = {}, !.analysis = local, !.applied = O]
        /\ wr' = [wr EXCEPT !.pc = "write", !.done = O]
    BY <1>5 DEF discard_stale_finalize_checkpoint
  <2> HIDE DEF O, rest
  <2>2. /\ wr' \in Writer /\ wr'.op = "recap" /\ wr'.pc = "write" /\ wr'.todo = {}
        /\ wr'.done = O
    BY <1>1, <1>2, <2>1 DEF PlanInv, TWriter, Writer
  <2>3. /\ recap'.st = "prepared" /\ recap'.targets = {} /\ recap'.applied = O
        /\ recap' \in Plan
    BY <1>1, <1>2, <2>1 DEF PlanInv, TRecords, TLocal, Plan
  <2>4. TLocal' /\ TRecords' /\ TWriter'
    BY <1>1, <2>2, <2>3 DEF PlanInv, TLocal, TRecords, TWriter
  <2>5. KSteps'
    BY <2>2, StepsFacts DEF KSteps
  <2>6. GoodPlan' /\ OnTrack'
    BY <1>2, <2>2, <2>3 DEF GoodPlan, OnTrack, OnePerId
  <2>7. KRecap'
    BY <2>2, <2>3, <2>6 DEF KRecap
  <2>8. QED BY <1>1, <2>2, <2>4, <2>5, <2>7, Frames DEF PlanInv
<1>6. CASE ~analysis_is_stale
  <2>1. recap' = recap /\ wr' = [wr EXCEPT !.pc = "write", !.done = O, !.todo = rest]
    BY <1>6 DEF discard_stale_finalize_checkpoint
  <2>2. \A t \in recap.targets :
          \/ t \in rest /\ local[t.id] = recap.analysis[t.id]
          \/ local[t.id] = t /\ t \in O
    BY <1>1, <1>6, NotStale
  <2>3. \A t \in rest : local[t.id] = recap.analysis[t.id]
    BY <1>1, <1>6, NotStale
  <2> HIDE DEF O, rest
  <2>4. /\ wr' \in Writer /\ wr'.op = "recap" /\ wr'.pc = "write" /\ wr'.todo = rest
        /\ wr'.done = O
    BY <1>1, <1>2, <1>4, <2>1 DEF PlanInv, TWriter, Writer
  <2>5. TLocal' /\ TRecords' /\ TWriter'
    BY <1>1, <2>1, <2>4 DEF PlanInv, TLocal, TRecords, TWriter
  <2>6. KSteps'
    BY <2>4, StepsFacts DEF KSteps
  <2>7. GoodPlan' /\ OnTrack'
    BY <1>1, <1>2, <1>3, <1>4, <2>1, <2>2, <2>3, <2>4 DEF GoodPlan, OnTrack
  <2>8. KRecap'
    BY <1>1, <2>1, <2>4, <2>7 DEF KRecap
  <2>9. QED BY <1>1, <2>1, <2>4, <2>5, <2>6, <2>8, Frames DEF PlanInv
<1>7. QED BY <1>5, <1>6

LEMMA ApplyTargetNext ==
  ASSUME PlanInv, apply_prepared_claim
  PROVE  PlanInv'
<1>1. /\ wr.op = "recap" /\ wr.pc = "write" /\ recap.st = "prepared" /\ GoodPlan /\ OnTrack
      /\ UNCHANGED <<edit, recap, dream, dream_pending, policy, ledger, faults>>
  BY DEF apply_prepared_claim, At, PlanInv, KRecap
<1>2. PICK t \in wr.todo :
        /\ write_claim(t)
        /\ wr' = [wr EXCEPT !.pc = "progress", !.todo = wr.todo \ {t}, !.done = wr.done \cup {t}]
  BY DEF apply_prepared_claim
<1>3. t \in Claim /\ t \in recap.targets /\ t.by = "recap"
  BY <1>1, WriterFields DEF PlanInv, OnTrack, GoodPlan
<1>4. /\ wr' \in Writer /\ wr'.op = "recap" /\ wr'.pc = "progress"
      /\ wr'.todo = wr.todo \ {t} /\ wr'.done = wr.done \cup {t}
  BY <1>1, <1>2, <1>3 DEF PlanInv, TWriter, Writer
<1>5. /\ TLocal' /\ local'[t.id] = t
      /\ \A c \in Claims : c # t.id => local'[c] = local[c]
  BY <1>2, <1>3, WriteClaimFacts DEF PlanInv
<1>6. \A u \in recap.targets : u # t => u.id \in Claims /\ u.id # t.id
  BY <1>1, <1>3, PlanFields DEF GoodPlan, OnePerId, Claim, PlanInv
<1>7. TRecords' /\ TWriter'
  BY <1>1, <1>4 DEF PlanInv, TRecords, TWriter
<1>8. KSteps'
  BY <1>4, StepsFacts DEF KSteps
<1>9. OnTrack'
  <2>1. \A u \in wr.todo \ {t} : local'[u.id] = recap.analysis[u.id]
    BY <1>1, <1>5, <1>6 DEF OnTrack
  <2>2. \A u \in recap.targets : u \in wr.todo \ {t} \/ (local'[u.id] = u /\ u \in wr.done \cup {t})
    BY <1>1, <1>3, <1>5, <1>6 DEF OnTrack
  <2>3. recap' = recap
    BY <1>1
  <2>4. QED BY <1>1, <1>3, <1>4, <2>1, <2>2, <2>3 DEF OnTrack
<1>10. KRecap'
  BY <1>1, <1>4, <1>9 DEF KRecap, GoodPlan
<1>11. QED BY <1>1, <1>4, <1>5, <1>7, <1>8, <1>10, Frames DEF PlanInv

LEMMA ProgressNext ==
  ASSUME PlanInv, save_progress
  PROVE  PlanInv'
<1>1. /\ wr.op = "recap" /\ wr.pc = "progress" /\ recap.st = "prepared" /\ GoodPlan /\ OnTrack
      /\ Goto("write") /\ recap' = [recap EXCEPT !.applied = wr.done]
      /\ UNCHANGED <<local, edit, dream, dream_pending, policy, ledger, faults>>
  BY DEF save_progress, At, PlanInv, KRecap
<1>2. /\ wr' \in Writer /\ wr'.op = "recap" /\ wr'.pc = "write" /\ wr'.todo = wr.todo
      /\ wr'.done = wr.done
  BY <1>1, GotoFacts DEF PlanInv
<1>3. /\ recap' \in Plan /\ recap'.st = "prepared" /\ recap'.targets = recap.targets
      /\ recap'.analysis = recap.analysis /\ recap'.applied = wr.done
  BY <1>1, WriterFields DEF PlanInv, TRecords, Plan
<1>4. TLocal' /\ TRecords' /\ TWriter'
  BY <1>1, <1>2, <1>3 DEF PlanInv, TLocal, TRecords, TWriter
<1>5. KSteps'
  BY <1>2, StepsFacts DEF KSteps
<1>6. GoodPlan' /\ OnTrack'
  BY <1>1, <1>2, <1>3 DEF GoodPlan, OnTrack
<1>7. KRecap'
  BY <1>2, <1>3, <1>6 DEF KRecap
<1>8. QED BY <1>1, <1>2, <1>4, <1>5, <1>7, Frames DEF PlanInv

LEMMA AfterWritesNext ==
  ASSUME PlanInv, stage_recap \/ record_dispute_if_new
  PROVE  PlanInv'
<1>1. /\ wr.op = "recap" /\ wr.pc \in {"write", "record"} /\ recap.st = "prepared"
      /\ GoodPlan /\ OnTrack
      /\ UNCHANGED <<local, edit, recap, dream, dream_pending, policy, faults>>
  BY DEF stage_recap, record_dispute_if_new, At, PlanInv, KRecap
<1>2. wr.todo = {}
  BY <1>1 DEF PlanInv, KSteps, stage_recap, record_dispute_if_new, At
<1>3. ledger' \subseteq Disputes
  BY PlanFields DEF PlanInv, TRecords, stage_recap, record_dispute_if_new
<1>4. /\ wr' \in Writer /\ wr'.op = "recap" /\ wr'.pc \in {"record", "done"}
      /\ wr'.todo = wr.todo /\ wr'.done = wr.done
  BY <1>1, GotoFacts DEF PlanInv, stage_recap, record_dispute_if_new
<1>5. TLocal' /\ TRecords' /\ TWriter'
  BY <1>1, <1>3, <1>4 DEF PlanInv, TLocal, TRecords, TWriter
<1>6. KSteps'
  BY <1>2, <1>4, StepsFacts DEF KSteps
<1>7. KRecap'
  BY <1>1, <1>4 DEF KRecap, GoodPlan, OnTrack
<1>8. QED BY <1>1, <1>4, <1>5, <1>6, <1>7, Frames DEF PlanInv

LEMMA CommitNext ==
  ASSUME PlanInv, commit_applied
  PROVE  PlanInv'
<1>1. /\ wr' = Idle /\ recap' = [NoPlan EXCEPT !.st = "applied"]
      /\ UNCHANGED <<local, edit, dream, dream_pending, policy, ledger, faults>>
  BY DEF commit_applied
<1>2. wr' \in Writer /\ wr'.op = "none" /\ wr'.pc = "idle" /\ wr'.todo = {}
  BY <1>1, IdleFacts
<1>3. \A c \in Claims : NoClaim(c) \in Claim
  BY KnowledgeAssumption DEF NoClaim, Claim, Writers
<1>4. recap' \in Plan /\ recap'.st = "applied"
  BY <1>1, <1>3 DEF NoPlan, Plan
<1>5. TLocal' /\ TRecords' /\ TWriter'
  BY <1>1, <1>2, <1>4 DEF PlanInv, TLocal, TRecords, TWriter
<1>6. KSteps'
  BY <1>2, StepsFacts DEF KSteps
<1>7. KRecap'
  BY <1>2, <1>4 DEF KRecap
<1>8. QED BY <1>1, <1>2, <1>5, <1>6, <1>7, Frames DEF PlanInv

LEMMA RecapNext ==
  ASSUME PlanInv, RecapStep
  PROVE  PlanInv'
  BY LockRecapNext, PrepareRecapNext, DiscardNext, ApplyTargetNext, ProgressNext,
     AfterWritesNext, CommitNext DEF RecapStep

----------------------------------------------------------------------------
\* A Dream consolidation

LEMMA GroupFields ==
  ASSUME TRecords
  PROVE  /\ dream.st \in {"none", "prepared", "applied"}
         /\ dream.before \in SUBSET Claim /\ dream.after \in SUBSET Claim
  BY DEF TRecords, DreamPlan

\* The claims on disk, each under its id.
LEMMA CurrentFacts ==
  ASSUME TLocal
  PROVE  /\ Current \in SUBSET Claim /\ OnePerId(Current)
         /\ \A x : x \in Current => x.id \in Claims /\ local[x.id] = x
         /\ \A x \in Claim : local[x.id] = x => x \in Current
<1>1. \A x \in Claim : x.id \in Claims
  BY DEF Claim
<1>2. QED BY <1>1 DEF Current, TLocal, OnePerId

\* A new group is about the claims as they are.
LEMMA NewGroup ==
  ASSUME TLocal, NEW s \in Claims, NEW C \in SUBSET Claims, NEW rewrite \in BOOLEAN,
         s \notin C, CanRevise(s), rewrite => \A c \in C : CanRevise(c),
         dream' = [st |-> "prepared", before |-> {local[c] : c \in {s} \cup C},
                   after |-> {next_claim_update_at(s, TRUE, "dream")}
                     \cup {IF rewrite THEN next_claim_update_at(c, FALSE, "dream")
                                      ELSE local[c] : c \in C}]
  PROVE  dream' \in DreamPlan /\ dream'.st = "prepared" /\ GoodGroup'
<1> DEFINE D == {s} \cup C
           a(c) == IF c = s THEN next_claim_update_at(s, TRUE, "dream")
                   ELSE IF rewrite THEN next_claim_update_at(c, FALSE, "dream") ELSE local[c]
           bs == {local[c] : c \in D}
           as == {a(c) : c \in D}
<1>1. \A c \in D : local[c] \in Claim /\ local[c].id = c
  BY DEF TLocal
<1>2. ASSUME NEW c \in D
      PROVE  /\ a(c) \in Claim /\ a(c).id = c
             /\ a(c) = local[c] \/ (local[c].v < a(c).v /\ a(c).by = "dream")
  <2>1. "dream" \in Writers /\ c \in Claims
    BY DEF Writers
  <2>2. CASE c = s
    BY <2>1, <2>2, NextWithdrawn
  <2>3. CASE c # s /\ rewrite
    BY <2>1, <2>3, NextKept
  <2>4. CASE c # s /\ ~rewrite
    BY <1>1, <2>4
  <2>5. QED BY <2>2, <2>3, <2>4
<1>3. as = {next_claim_update_at(s, TRUE, "dream")}
             \cup {IF rewrite THEN next_claim_update_at(c, FALSE, "dream") ELSE local[c] : c \in C}
  OBVIOUS
<1>4. dream' = [st |-> "prepared", before |-> bs, after |-> as]
  BY <1>3
<1> HIDE DEF a
<1>5. /\ as \in SUBSET Claim /\ bs \in SUBSET Claim /\ OnePerId(as) /\ OnePerId(bs)
  BY <1>1, <1>2 DEF OnePerId
<1>6. Ids(bs) = Ids(as)
  <2>1. Ids(bs) = D
    BY <1>1 DEF Ids
  <2>2. Ids(as) = D
    BY <1>2 DEF Ids
  <2>3. QED BY <2>1, <2>2
<1>7. \A x \in bs, y \in as : x.id = y.id => y = x \/ (x.v < y.v /\ y.by = "dream")
  BY <1>1, <1>2
<1> HIDE DEF as, bs
<1> DEFINE d == [st |-> "prepared", before |-> bs, after |-> as]
<1>d. d \in DreamPlan /\ d.st = "prepared" /\ d.before = bs /\ d.after = as
  <2>1. bs \in SUBSET Claim /\ as \in SUBSET Claim
    BY <1>5
  <2>2. QED BY ONLY <2>1 DEF DreamPlan
<1> HIDE DEF d
<1>8. dream' \in DreamPlan /\ dream'.st = "prepared" /\ dream'.before = bs /\ dream'.after = as
  BY <1>4, <1>d DEF d
<1>9. QED BY <1>5, <1>6, <1>7, <1>8 DEF GoodGroup

LEMMA PrepareDreamNext ==
  ASSUME PlanInv, NEW s \in Claims, NEW C \in SUBSET Claims, NEW rewrite \in BOOLEAN,
         prepare_dream(s, C, rewrite)
  PROVE  PlanInv'
<1>1. /\ wr.op = "none" /\ ~dream_pending
      /\ UNCHANGED <<local, edit, recap, dream_pending, policy, ledger, wr, faults>>
  BY DEF prepare_dream
<1>2. dream' \in DreamPlan /\ dream'.st = "prepared" /\ GoodGroup'
  <2>1. TLocal /\ s \notin C /\ CanRevise(s) /\ (rewrite => \A c \in C : CanRevise(c))
    BY DEF prepare_dream, PlanInv
  <2>2. dream' = [st |-> "prepared", before |-> {local[c] : c \in {s} \cup C},
                  after |-> {next_claim_update_at(s, TRUE, "dream")}
                    \cup {IF rewrite THEN next_claim_update_at(c, FALSE, "dream")
                                     ELSE local[c] : c \in C}]
    BY DEF prepare_dream
  <2>3. QED BY <2>1, <2>2, NewGroup
<1>3. TLocal' /\ TRecords' /\ TWriter' /\ KSteps'
  BY <1>1, <1>2 DEF PlanInv, TLocal, TRecords, TWriter, KSteps
<1>4. KDream'
  BY <1>1, <1>2 DEF KDream
<1>5. QED BY <1>1, <1>3, <1>4, Frames DEF PlanInv

LEMMA LockDreamNext ==
  ASSUME PlanInv, lock_dream
  PROVE  PlanInv'
<1>1. Lock("dream", "plan", {}) /\ (dream.st = "prepared" \/ dream_pending)
  BY DEF lock_dream
<1>2. UNCHANGED <<local, edit, recap, dream, dream_pending, policy, ledger, faults>>
  BY <1>1 DEF Lock
<1>3. wr' \in Writer /\ wr'.op = "dream" /\ wr'.pc = "plan" /\ wr'.todo = {}
  BY <1>1 DEF Lock, Idle, Writer
<1>4. TLocal' /\ TRecords' /\ TWriter'
  BY <1>2, <1>3 DEF PlanInv, TLocal, TRecords, TWriter
<1>5. KSteps'
  BY <1>3, StepsFacts DEF KSteps
<1>6. KDream'
  BY <1>1, <1>2, <1>3 DEF PlanInv, KDream, GoodGroup
<1>7. QED BY <1>2, <1>3, <1>4, <1>5, <1>6, Frames DEF PlanInv

LEMMA BeginDreamNext ==
  ASSUME PlanInv, begin_dream
  PROVE  PlanInv'
<1>1. /\ wr.op = "dream" /\ wr.pc = "plan" /\ dream_pending' = TRUE
      /\ Goto(IF dream.st = "applied" THEN "clear" ELSE "discard")
      /\ UNCHANGED <<local, edit, recap, dream, policy, ledger, faults>>
  BY DEF begin_dream, At
<1>2. dream.st \in {"prepared", "applied"} /\ wr.todo = {}
  BY <1>1, GroupFields DEF PlanInv, KDream, KSteps
<1>3. /\ wr' \in Writer /\ wr'.op = "dream" /\ wr'.todo = {}
      /\ wr'.pc = IF dream.st = "applied" THEN "clear" ELSE "discard"
  BY <1>1, <1>2, GotoFacts DEF PlanInv
<1>4. TLocal' /\ TRecords' /\ TWriter'
  BY <1>1, <1>3 DEF PlanInv, TLocal, TRecords, TWriter
<1>5. KSteps'
  BY <1>3, StepsFacts DEF KSteps
<1>6. KDream'
  BY <1>1, <1>2, <1>3 DEF PlanInv, KDream, GoodGroup
<1>7. QED BY <1>1, <1>3, <1>4, <1>5, <1>6, Frames DEF PlanInv

LEMMA CheckDreamNext ==
  ASSUME PlanInv, check_dream
  PROVE  PlanInv'
<1>1. /\ wr.op = "dream" /\ wr.pc = "discard" /\ wr.todo = {} /\ dream.st = "prepared"
      /\ dream_pending /\ GoodGroup
      /\ UNCHANGED <<local, edit, recap, dream, dream_pending, policy, ledger, faults>>
  BY DEF check_dream, At, PlanInv, KDream, KSteps
<1>2. dream.after \in SUBSET Claim /\ dream.before \in SUBSET Claim
  BY GroupFields DEF PlanInv
<1>3. /\ Current' = Current /\ TLocal' /\ TRecords'
  BY <1>1 DEF PlanInv, TLocal, TRecords, Current
<1>4. CASE wr' = [wr EXCEPT !.pc = "stage", !.done = dream.after \cap Current]
  <2>1. /\ wr' \in Writer /\ wr'.op = "dream" /\ wr'.pc = "stage" /\ wr'.todo = {}
        /\ wr'.done = dream.after \cap Current
    BY <1>1, <1>2, <1>4 DEF PlanInv, TWriter, Writer
  <2>2. TWriter'
    BY <1>1, <2>1 DEF PlanInv, TWriter
  <2>3. KSteps'
    BY <2>1, StepsFacts DEF KSteps
  <2>4. KDream'
    BY <1>1, <1>3, <2>1 DEF KDream, GoodGroup
  <2>5. QED BY <1>1, <1>3, <2>1, <2>2, <2>3, <2>4, Frames DEF PlanInv
<1>5. CASE /\ ~DreamConflict
           /\ wr' = [wr EXCEPT !.pc = "write", !.done = dream.after,
                               !.todo = dream.after \ Current]
  <2>1. /\ wr' \in Writer /\ wr'.op = "dream" /\ wr'.pc = "write"
        /\ wr'.todo = dream.after \ Current /\ wr'.done = dream.after
    BY <1>1, <1>2, <1>5 DEF PlanInv, TWriter, Writer
  <2>2. ASSUME NEW t \in dream.after \ Current PROVE local[t.id] \in dream.before
    <3>1. PICK b \in dream.before : b.id = t.id
      BY <1>1 DEF GoodGroup, Ids
    <3>2. Entry(dream.after, b.id) = t
      <4>1. b.id \in Ids(dream.after)
        BY <3>1 DEF Ids
      <4>2. QED BY <1>1, <3>1, <4>1, EntryFacts DEF GoodGroup
    <3>3. local[t.id] # t
      BY <1>2, CurrentFacts DEF PlanInv
    <3>4. QED BY <1>5, <3>1, <3>2, <3>3 DEF DreamConflict
  <2>3. \A t \in dream.after : t \in dream.after \ Current \/ local[t.id] = t
    BY CurrentFacts DEF PlanInv
  <2>4. TWriter'
    BY <1>1, <2>1 DEF PlanInv, TWriter
  <2>5. KSteps'
    BY <2>1, StepsFacts DEF KSteps
  <2>6. KDream'
    BY <1>1, <2>1, <2>2, <2>3 DEF KDream, GoodGroup
  <2>7. QED BY <1>1, <1>3, <2>1, <2>4, <2>5, <2>6, Frames DEF PlanInv
<1>6. QED BY <1>4, <1>5 DEF check_dream

LEMMA ApplyDreamNext ==
  ASSUME PlanInv, apply_dream_claim
  PROVE  PlanInv'
<1>1. /\ wr.op = "dream" /\ wr.pc = "write" /\ dream.st = "prepared" /\ dream_pending
      /\ GoodGroup /\ wr.done = dream.after /\ wr.todo \subseteq dream.after
      /\ \A t \in wr.todo : local[t.id] \in dream.before
      /\ \A t \in dream.after : t \in wr.todo \/ local[t.id] = t
      /\ UNCHANGED <<edit, recap, dream, dream_pending, policy, ledger, faults>>
  BY DEF apply_dream_claim, At, PlanInv, KDream
<1>2. dream.after \in SUBSET Claim /\ dream.before \in SUBSET Claim
  BY GroupFields DEF PlanInv
<1>3. ASSUME NEW t \in wr.todo, write_claim(t), wr' = [wr EXCEPT !.todo = wr.todo \ {t}]
      PROVE  PlanInv'
  <2>1. t \in Claim /\ t \in dream.after
    BY <1>1, <1>2
  <2>2. /\ wr' \in Writer /\ wr'.op = "dream" /\ wr'.pc = "write"
        /\ wr'.todo = wr.todo \ {t} /\ wr'.done = dream.after
    BY <1>1, <1>3 DEF PlanInv, TWriter, Writer
  <2>3. /\ TLocal' /\ local'[t.id] = t
        /\ \A c \in Claims : c # t.id => local'[c] = local[c]
    BY <1>3, <2>1, WriteClaimFacts DEF PlanInv
  <2>4. \A u \in dream.after : u # t => u.id \in Claims /\ u.id # t.id
    BY <1>1, <1>2, <2>1 DEF GoodGroup, OnePerId, Claim
  <2>5. TRecords' /\ TWriter'
    BY <1>1, <2>2 DEF PlanInv, TRecords, TWriter
  <2>6. KSteps'
    BY <2>2, StepsFacts DEF KSteps
  <2>7. /\ \A u \in wr.todo \ {t} : local'[u.id] \in dream.before
        /\ \A u \in dream.after : u \in wr.todo \ {t} \/ local'[u.id] = u
    BY <1>1, <2>3, <2>4
  <2>8. KDream'
    BY <1>1, <2>2, <2>7 DEF KDream, GoodGroup
  <2>9. QED BY <1>1, <2>2, <2>3, <2>5, <2>6, <2>8, Frames DEF PlanInv
<1>4. ASSUME wr.todo = {}, Goto("stage"), local' = local
      PROVE  PlanInv'
  <2>1. /\ wr' \in Writer /\ wr'.op = "dream" /\ wr'.pc = "stage" /\ wr'.todo = {}
        /\ wr'.done = dream.after
    BY <1>1, <1>4, GotoFacts DEF PlanInv
  <2>2. dream.after = dream.after \cap Current
    BY <1>1, <1>2, <1>4, CurrentFacts DEF PlanInv
  <2>3. Current' = Current
    BY <1>4 DEF Current
  <2>4. TLocal' /\ TRecords' /\ TWriter'
    BY <1>1, <1>4, <2>1 DEF PlanInv, TLocal, TRecords, TWriter
  <2>5. KSteps'
    BY <2>1, StepsFacts DEF KSteps
  <2>6. KDream'
    BY <1>1, <2>1, <2>2, <2>3 DEF KDream, GoodGroup
  <2>7. QED BY <1>1, <2>1, <2>4, <2>5, <2>6, Frames DEF PlanInv
<1>5. QED BY <1>3, <1>4 DEF apply_dream_claim

LEMMA StageDreamNext ==
  ASSUME PlanInv, stage_dream
  PROVE  PlanInv'
<1>1. /\ wr.op = "dream" /\ wr.pc = "stage" /\ Goto("done") /\ dream.st = "prepared"
      /\ dream_pending /\ GoodGroup /\ wr.todo = {} /\ wr.done = dream.after \cap Current
      /\ UNCHANGED <<local, edit, recap, dream, dream_pending, policy, ledger, faults>>
  BY DEF stage_dream, At, PlanInv, KDream, KSteps
<1>2. /\ wr' \in Writer /\ wr'.op = "dream" /\ wr'.pc = "done" /\ wr'.todo = {}
      /\ wr'.done = wr.done
  BY <1>1, GotoFacts DEF PlanInv
<1>3. TLocal' /\ TRecords' /\ TWriter'
  BY <1>1, <1>2 DEF PlanInv, TLocal, TRecords, TWriter
<1>4. KSteps'
  BY <1>2, StepsFacts DEF KSteps
<1>5. KDream'
  BY <1>1, <1>2 DEF KDream, GoodGroup, Current
<1>6. QED BY <1>1, <1>2, <1>3, <1>4, <1>5, Frames DEF PlanInv

LEMMA FinishDreamNext ==
  ASSUME PlanInv, finish_dream
  PROVE  PlanInv'
<1>1. /\ wr.op = "dream" /\ wr.pc = "done" /\ Goto("clear") /\ wr.todo = {}
      /\ dream' = [NoDream EXCEPT !.st = "applied"]
      /\ UNCHANGED <<local, edit, recap, dream_pending, policy, ledger, faults>>
  BY DEF finish_dream, At, PlanInv, KSteps
<1>2. wr' \in Writer /\ wr'.op = "dream" /\ wr'.pc = "clear" /\ wr'.todo = {}
  BY <1>1, GotoFacts DEF PlanInv
<1>3. dream' \in DreamPlan /\ dream'.st = "applied"
  BY <1>1 DEF NoDream, DreamPlan
<1>4. TLocal' /\ TRecords' /\ TWriter'
  BY <1>1, <1>2, <1>3 DEF PlanInv, TLocal, TRecords, TWriter
<1>5. KSteps'
  BY <1>2, StepsFacts DEF KSteps
<1>6. KDream'
  BY <1>2, <1>3 DEF KDream
<1>7. QED BY <1>1, <1>2, <1>4, <1>5, <1>6, Frames DEF PlanInv

LEMMA ClearDreamNext ==
  ASSUME PlanInv, clear_dream_pending
  PROVE  PlanInv'
<1>1. /\ dream_pending' = FALSE /\ wr' = Idle
      /\ UNCHANGED <<local, edit, recap, dream, policy, ledger, faults>>
  BY DEF clear_dream_pending
<1>2. wr' \in Writer /\ wr'.op = "none" /\ wr'.pc = "idle" /\ wr'.todo = {}
  BY <1>1, IdleFacts
<1>3. TLocal' /\ TRecords' /\ TWriter'
  BY <1>1, <1>2 DEF PlanInv, TLocal, TRecords, TWriter
<1>4. KSteps'
  BY <1>2, StepsFacts DEF KSteps
<1>5. KDream'
  BY <1>1, <1>2 DEF PlanInv, KDream, GoodGroup
<1>6. QED BY <1>1, <1>2, <1>3, <1>4, <1>5, Frames DEF PlanInv

\* A step that leaves everything but the queue alone, or nothing changes.
LEMMA PlanFrame ==
  ASSUME PlanInv, faults' \in 0..MaxFaults,
         UNCHANGED <<local, edit, recap, dream, dream_pending, policy, ledger, wr>>
  PROVE  PlanInv'
<1>1. TLocal' /\ TRecords' /\ TWriter' /\ KSteps'
  BY DEF PlanInv, TLocal, TRecords, TWriter, KSteps
<1>2. KEdit' /\ KPolicy'
  BY DEF PlanInv, KEdit, KPolicy, CanRevise, Exists
<1>3. KRecap'
  BY DEF PlanInv, KRecap, GoodPlan, OnTrack
<1>4. KDream'
  BY DEF PlanInv, KDream, GoodGroup, Current
<1>5. QED BY <1>1, <1>2, <1>3, <1>4 DEF PlanInv

LEMMA DreamNext ==
  ASSUME PlanInv, DreamStep
  PROVE  PlanInv'
<1>1. ASSUME NEW g \in pend.groups, NEW C \in SUBSET Claims, review_sync(g, C)
      PROVE  PlanInv'
  <2>1. UNCHANGED <<local, edit, recap, dream, dream_pending, policy, ledger, wr, faults>>
    BY <1>1 DEF review_sync
  <2>2. QED BY <2>1, PlanFrame DEF PlanInv, TWriter
<1>2. QED BY <1>1, PrepareDreamNext, LockDreamNext, BeginDreamNext, CheckDreamNext,
             ApplyDreamNext, StageDreamNext, FinishDreamNext, ClearDreamNext DEF DreamStep

----------------------------------------------------------------------------
\* The withdrawal of a policy, and crashes

LEMMA LockPolicyNext ==
  ASSUME PlanInv, lock_policy
  PROVE  PlanInv'
<1>1. /\ Lock("policy", "write", {}) /\ policy = "pending"
      /\ \A c \in Sourced : Exists(c) /\ ~local[c].dep => CanRevise(c)
  BY DEF lock_policy
<1>2. UNCHANGED <<local, edit, recap, dream, dream_pending, policy, ledger, faults>>
  BY <1>1 DEF Lock
<1>3. wr' \in Writer /\ wr'.op = "policy" /\ wr'.pc = "write" /\ wr'.todo = {}
  BY <1>1 DEF Lock, Idle, Writer
<1>4. TLocal' /\ TRecords' /\ TWriter'
  BY <1>2, <1>3 DEF PlanInv, TLocal, TRecords, TWriter
<1>5. KSteps'
  BY <1>3, StepsFacts DEF KSteps
<1>6. KPolicy'
  BY <1>1, <1>2 DEF KPolicy, Exists, CanRevise
<1>7. QED BY <1>2, <1>3, <1>4, <1>5, <1>6, Frames DEF PlanInv

LEMMA ApplyPolicyNext ==
  ASSUME PlanInv, apply_policy_deprecation
  PROVE  PlanInv'
<1>1. /\ wr.op = "policy" /\ wr.pc = "write" /\ wr.todo = {} /\ policy = "pending"
      /\ \A c \in Sourced : Exists(c) /\ ~local[c].dep => CanRevise(c)
      /\ UNCHANGED <<edit, recap, dream, dream_pending, policy, ledger, faults>>
  BY DEF apply_policy_deprecation, At, PlanInv, KPolicy, KSteps
<1>2. ASSUME NEW c \in Sourced, Exists(c), ~local[c].dep, wr' = wr,
             write_claim(next_claim_update_at(c, TRUE, "policy"))
      PROVE  PlanInv'
  <2> DEFINE t == next_claim_update_at(c, TRUE, "policy")
  <2>1. c \in Claims /\ "policy" \in Writers
    BY KnowledgeAssumption DEF Writers
  <2>2. t \in Claim /\ t.id = c /\ t.dep
    BY <1>1, <1>2, <2>1, NextWithdrawn DEF PlanInv
  <2>3. write_claim(t)
    BY <1>2
  <2> HIDE DEF t
  <2>4. TLocal' /\ local'[c] = t /\ \A d \in Claims : d # c => local'[d] = local[d]
    BY <2>2, <2>3, WriteClaimFacts DEF PlanInv
  <2>5. TRecords' /\ TWriter' /\ KSteps'
    BY <1>1, <1>2 DEF PlanInv, TRecords, TWriter, KSteps
  <2>6. KPolicy'
    BY <1>1, <2>2, <2>4, KnowledgeAssumption DEF KPolicy, Exists, CanRevise
  <2>7. QED BY <1>1, <1>2, <2>4, <2>5, <2>6, Frames DEF PlanInv
<1>3. ASSUME Goto("stage"), local' = local PROVE PlanInv'
  <2>1. wr' \in Writer /\ wr'.op = "policy" /\ wr'.pc = "stage" /\ wr'.todo = {}
    BY <1>1, <1>3, GotoFacts DEF PlanInv
  <2>2. TLocal' /\ TRecords' /\ TWriter'
    BY <1>1, <1>3, <2>1 DEF PlanInv, TLocal, TRecords, TWriter
  <2>3. KSteps'
    BY <2>1, StepsFacts DEF KSteps
  <2>4. KPolicy'
    BY <1>1, <1>3 DEF KPolicy, Exists, CanRevise
  <2>5. QED BY <1>1, <2>1, <2>2, <2>3, <2>4, Frames DEF PlanInv
<1>4. QED BY <1>2, <1>3 DEF apply_policy_deprecation

LEMMA PolicyNext ==
  ASSUME PlanInv, PolicyStep
  PROVE  PlanInv'
<1>1. ASSUME stage_withdrawn PROVE PlanInv'
  BY <1>1, IdleNext DEF stage_withdrawn, PlanInv, TWriter
<1>2. ASSUME ack_policy PROVE PlanInv'
  <2>1. /\ policy = "staged" /\ policy' \in {"pending", "staged", "done"}
        /\ faults' = faults \/ Fault
        /\ UNCHANGED <<local, edit, recap, dream, dream_pending, ledger, wr>>
    BY <1>2 DEF ack_policy
  <2>2. faults' \in 0..MaxFaults /\ wr.op # "policy"
    BY <2>1, FaultCount DEF PlanInv, TWriter, KPolicy
  <2>3. TLocal' /\ TRecords' /\ TWriter' /\ KSteps'
    BY <2>1, <2>2 DEF PlanInv, TLocal, TRecords, TWriter, KSteps
  <2>4. KEdit' /\ KPolicy'
    BY <2>1, <2>2 DEF PlanInv, KEdit, KPolicy, CanRevise
  <2>5. KRecap'
    BY <2>1 DEF PlanInv, KRecap, GoodPlan, OnTrack
  <2>6. KDream'
    BY <2>1 DEF PlanInv, KDream, GoodGroup, Current
  <2>7. QED BY <2>3, <2>4, <2>5, <2>6 DEF PlanInv
<1>3. QED BY <1>1, <1>2, LockPolicyNext, ApplyPolicyNext DEF PolicyStep

LEMMA CrashNext ==
  ASSUME PlanInv, writer_crash
  PROVE  PlanInv'
  BY FaultCount, IdleNext DEF writer_crash, PlanInv, TRecords

LEMMA PlanInit == KInit => PlanInv
<1> SUFFICES ASSUME KInit PROVE PlanInv
  OBVIOUS
<1>1. /\ edit = {} /\ recap = NoPlan /\ dream = NoDream /\ dream_pending = FALSE
      /\ policy = "pending" /\ ledger = {} /\ wr = Idle /\ faults = 0
  BY DEF KInit
<1>2. \A c \in Claims : NoClaim(c) \in Claim /\ NoClaim(c).id = c
  BY KnowledgeAssumption DEF NoClaim, Claim, Writers
<1>3. \A c \in Claims : LET n == [id |-> c, v |-> 1, dep |-> FALSE, by |-> "user"] IN
        n \in Claim /\ n.id = c
  BY KnowledgeAssumption DEF Claim, Writers
<1>4. TLocal
  BY <1>2, <1>3 DEF KInit, TLocal
<1>5. NoPlan \in Plan /\ NoPlan.st = "none"
  BY <1>2 DEF NoPlan, Plan
<1>6. NoDream \in DreamPlan /\ NoDream.st = "none"
  BY DEF NoDream, DreamPlan
<1>7. wr \in Writer /\ wr.op = "none" /\ wr.pc = "idle" /\ wr.todo = {}
  BY <1>1 DEF Idle, Writer
<1>8. TRecords /\ TWriter
  <2>1. TRecords
    BY <1>1, <1>5, <1>6 DEF TRecords
  <2>2. TWriter
    BY <1>1, <1>7, KnowledgeAssumption DEF TWriter
  <2>3. QED BY <2>1, <2>2
<1>9. KSteps /\ KEdit /\ KRecap /\ KDream /\ KPolicy
  BY <1>1, <1>5, <1>6, <1>7, StepsFacts DEF KSteps, KEdit, KRecap, KDream, KPolicy
<1>10. QED BY <1>4, <1>8, <1>9 DEF PlanInv

LEMMA PlanNext == PlanInv /\ [KNext]_kvars => PlanInv'
<1> SUFFICES ASSUME PlanInv, [KNext]_kvars PROVE PlanInv'
  OBVIOUS
<1>1. CASE UNCHANGED kvars
  BY <1>1, PlanFrame DEF kvars, PlanInv, TWriter
<1>2. QED BY <1>1, EditNext, RecapNext, DreamNext, PolicyNext, CrashNext DEF KNext

----------------------------------------------------------------------------
\* What the writers stage

\* Staged claims are the claims on disk; nothing that is as on disk leaves the queue, and
\* no dispute does.
Staged ==
  /\ QueueOK(pend') /\ local' = local
  /\ pend'.claims \subseteq pend.claims \cup Current
  /\ pend.claims \cap Current \subseteq pend'.claims
  /\ pend.disputes \subseteq pend'.disputes

LEMMA StagedClaims ==
  ASSUME TLocal, QueueOK(pend), NEW cs \in SUBSET Current, NEW new \in SUBSET cs,
         NEW m, m.claims = Insert(pend.claims, new)
  PROVE  /\ m.claims \subseteq pend.claims \cup Current
         /\ pend.claims \cap Current \subseteq m.claims
<1>1. pend.claims \in SUBSET Claim /\ new \in SUBSET Claim
  BY QueueFields, CurrentFacts DEF QueueOK
<1>2. \A x : x \in m.claims <=> x \in new \/ (x \in pend.claims /\ x.id \notin Ids(new))
  BY DEF Insert
<1>3. ASSUME NEW x \in pend.claims \cap Current PROVE x \in m.claims
  <2>1. CASE x.id \in Ids(new)
    <3>1. PICK y \in new : y.id = x.id
      BY <2>1 DEF Ids
    <3>2. y = x
      BY <3>1, CurrentFacts
    <3>3. QED BY <1>2, <3>1, <3>2
  <2>2. CASE x.id \notin Ids(new)
    BY <1>2, <2>2
  <2>3. QED BY <2>1, <2>2
<1>4. QED BY <1>2, <1>3

LEMMA StagedSets ==
  ASSUME TLocal, NEW cs \in SUBSET Current
  PROVE  cs \in SUBSET Claim /\ OnePerId(cs) /\ NotOlder(pend, cs) \in SUBSET cs
  BY CurrentFacts DEF OnePerId, NotOlder

LEMMA DurableStaged ==
  ASSUME TLocal, QueueOK(pend), NEW cs \in SUBSET Current, local' = local,
         pend' = stage_maintainer_batch_with_durable_claims(pend, cs, {})
  PROVE  Staged
<1>1. cs \in SUBSET Claim /\ OnePerId(cs) /\ NotOlder(pend, cs) \in SUBSET cs
  BY StagedSets
<1>2. /\ QueueOK(pend') /\ pend'.claims = Insert(pend.claims, NotOlder(pend, cs))
      /\ pend'.disputes = pend.disputes
  BY <1>1, StageDurableFacts
<1>3. QED BY <1>1, <1>2, StagedClaims DEF Staged

LEMMA RecoverStaged ==
  ASSUME PlanInv, QueueOK(pend), recover_pending_claim_edit_locked
  PROVE  pend' = pend \/ Staged
<1>1. SUFFICES ASSUME NEW e \in edit, local' = local,
        pend' = stage_maintainer_batch_with_durable_claims(pend, {local[e.target.id]}, {})
      PROVE Staged
  BY DEF recover_pending_claim_edit_locked
<1>2. e.target.id \in Claims
  BY DEF PlanInv, TRecords, PendingClaimEdit, Claim
<1>3. {local[e.target.id]} \in SUBSET Current
  BY <1>2 DEF Current
<1>4. QED BY <1>1, <1>3, DurableStaged DEF PlanInv

LEMMA EditStaged ==
  ASSUME PlanInv, QueueOK(pend), stage_edit
  PROVE  Staged
<1>1. {local[c] : c \in wr.ids} \in SUBSET Current
  BY WriterFields DEF Current, PlanInv
<1>2. QED BY <1>1, DurableStaged DEF stage_edit, PlanInv

LEMMA RecapStaged ==
  ASSUME PlanInv, QueueOK(pend), stage_recap
  PROVE  Staged /\ pend'.disputes = pend.disputes \cup (recap.disputes \ ledger)
<1> DEFINE cs == wr.done \cap Current
           ds == recap.disputes \ ledger
<1>1. pend' = stage_maintainer_batch(pend, cs, ds) /\ local' = local
  BY DEF stage_recap
<1>2. cs \in SUBSET Current /\ ds \in SUBSET Disputes
  BY PlanFields DEF PlanInv
<1> HIDE DEF cs, ds
<1>3. cs \in SUBSET Claim /\ OnePerId(cs) /\ NotOlder(pend, cs) \in SUBSET cs
  BY <1>2, StagedSets DEF PlanInv
<1>4. /\ QueueOK(pend') /\ pend'.claims = Insert(pend.claims, NotOlder(pend, cs))
      /\ pend'.disputes = pend.disputes \cup ds
  BY <1>1, <1>2, <1>3, StageFacts
<1>5. QED BY <1>1, <1>2, <1>3, <1>4, StagedClaims DEF Staged, PlanInv, ds

\* The groups a Dream stages are well formed.
LEMMA DreamGroups ==
  ASSUME PlanInv, GoodGroup, NEW done \in SUBSET dream.after
  PROVE  LET carriers == {c \in dream.after : ~c.dep}
             groups == {[before |-> Entry(dream.before, r.id), retired |-> r,
                         carriers |-> carriers] : r \in {c \in done : c.dep}}
         IN groups \in SUBSET ConsolidationDelivery /\ GroupsOK(groups)
<1> DEFINE carriers == {c \in dream.after : ~c.dep}
           g(r) == [before |-> Entry(dream.before, r.id), retired |-> r, carriers |-> carriers]
           groups == {g(r) : r \in {c \in done : c.dep}}
<1>1. dream.after \in SUBSET Claim /\ dream.before \in SUBSET Claim
  BY GroupFields DEF PlanInv
<1>2. carriers \in SUBSET Claim
  BY <1>1
<1> HIDE DEF carriers
<1>3. ASSUME NEW r \in {c \in done : c.dep}
      PROVE  /\ g(r) \in ConsolidationDelivery /\ g(r).retired = r /\ r.dep
             /\ r \in dream.after /\ g(r).before.id = r.id
  <2>1. r \in dream.after /\ r.dep /\ r \in Claim
    BY <1>1
  <2>2. r.id \in Ids(dream.before)
    BY <2>1 DEF GoodGroup, Ids
  <2> DEFINE b == Entry(dream.before, r.id)
  <2>3. b \in Claim /\ b.id = r.id
    BY <1>1, <2>2, EntryFacts
  <2> HIDE DEF b
  <2>4. g(r) = [before |-> b, retired |-> r, carriers |-> carriers]
    BY DEF b
  <2>5. QED BY <1>2, <2>1, <2>3, <2>4 DEF ConsolidationDelivery
<1> HIDE DEF g
<1>4. groups \in SUBSET ConsolidationDelivery
  BY <1>3
<1>5. GroupsOK(groups)
  <2>1. \A x, y \in groups : x.retired.id = y.retired.id => x = y
    BY <1>3 DEF GoodGroup, OnePerId
  <2>2. \A x \in groups : x.retired.dep /\ x.before.id = x.retired.id
    BY <1>3
  <2>3. QED BY <2>1, <2>2 DEF GroupsOK
<1>6. QED BY <1>4, <1>5 DEF g, carriers

LEMMA DreamStaged ==
  ASSUME PlanInv, QueueOK(pend), stage_dream
  PROVE  Staged
<1> DEFINE carriers == {c \in dream.after : ~c.dep}
           groups == {[before |-> Entry(dream.before, r.id), retired |-> r,
                       carriers |-> carriers] : r \in {c \in wr.done : c.dep}}
<1>1. /\ wr.op = "dream" /\ wr.pc = "stage" /\ local' = local
      /\ pend' = stage_consolidation_batch(pend, wr.done, groups)
  BY DEF stage_dream, At
<1>2. wr.done = dream.after \cap Current /\ GoodGroup
  BY <1>1 DEF PlanInv, KDream
<1>3. wr.done \in SUBSET dream.after /\ wr.done \in SUBSET Current
  BY <1>2
<1>4. groups \in SUBSET ConsolidationDelivery /\ GroupsOK(groups)
  BY <1>2, <1>3, DreamGroups
<1> HIDE DEF groups
<1>5. wr.done \in SUBSET Claim /\ OnePerId(wr.done) /\ NotOlder(pend, wr.done) \in SUBSET wr.done
  BY <1>3, StagedSets DEF PlanInv
<1>6. /\ QueueOK(pend') /\ pend'.claims = Insert(pend.claims, NotOlder(pend, wr.done))
      /\ pend'.disputes = pend.disputes
  BY <1>1, <1>4, <1>5, ConsolidationFacts
<1>7. QED BY <1>1, <1>3, <1>5, <1>6, StagedClaims DEF Staged, PlanInv

LEMMA ReviewStaged ==
  ASSUME PlanInv, QueueOK(pend), NEW g \in pend.groups, NEW C \in SUBSET Claims,
         review_sync(g, C)
  PROVE  Staged
<1> DEFINE cs == {local[c] : c \in C}
<1>1. pend' = rebind_consolidation(pend, g, cs) /\ local' = local
  BY DEF review_sync
<1>2. cs \in SUBSET Current
  BY DEF Current
<1> HIDE DEF cs
<1>3. cs \in SUBSET Claim /\ OnePerId(cs)
  BY <1>2, StagedSets DEF PlanInv
<1>4. /\ QueueOK(pend') /\ pend'.claims = Insert(pend.claims, cs)
      /\ pend'.disputes = pend.disputes
  BY <1>1, <1>3, RebindFacts
<1>5. QED BY <1>1, <1>2, <1>4, StagedClaims DEF Staged, PlanInv

LEMMA WithdrawnStaged ==
  ASSUME PlanInv, QueueOK(pend), stage_withdrawn
  PROVE  Staged
<1> DEFINE cs == {local[c] : c \in {d \in Sourced : Exists(d)}}
<1>1. pend' = stage_policy_deprecation(pend, cs, Sourced) /\ local' = local
  BY DEF stage_withdrawn
<1>2. cs \in SUBSET Current
  BY KnowledgeAssumption DEF Current
<1> HIDE DEF cs
<1>3. cs \in SUBSET Claim /\ OnePerId(cs) /\ NotOlder(pend, cs) \in SUBSET cs
  BY <1>2, StagedSets DEF PlanInv
<1>4. /\ QueueOK(pend') /\ pend'.claims = Insert(pend.claims, NotOlder(pend, cs))
      /\ pend'.disputes = pend.disputes
  BY <1>1, <1>3, PolicyStageFacts
<1>5. QED BY <1>1, <1>2, <1>3, <1>4, StagedClaims DEF Staged, PlanInv

LEMMA StagedNext ==
  ASSUME PlanInv, QueueOK(pend), [KNext]_kvars
  PROVE  pend' = pend \/ Staged
<1>1. ASSUME EditStep PROVE pend' = pend \/ Staged
  BY <1>1, RecoverStaged, EditStaged
     DEF EditStep, lock_edit, Lock, clear_recovered_edit, give_up, journal_edit, write_edit,
         clear_pending_claim_edit
<1>2. ASSUME RecapStep PROVE pend' = pend \/ Staged
  BY <1>2, RecapStaged
     DEF RecapStep, lock_recap, Lock, prepare_recap, discard_stale_finalize_checkpoint,
         apply_prepared_claim, save_progress, record_dispute_if_new, commit_applied
<1>3. ASSUME DreamStep PROVE pend' = pend \/ Staged
  BY <1>3, DreamStaged, ReviewStaged
     DEF DreamStep, prepare_dream, lock_dream, Lock, begin_dream, check_dream,
         apply_dream_claim, finish_dream, clear_dream_pending
<1>4. ASSUME PolicyStep PROVE pend' = pend \/ Staged
  BY <1>4, WithdrawnStaged DEF PolicyStep, lock_policy, Lock, apply_policy_deprecation, ack_policy
<1>5. ASSUME writer_crash \/ UNCHANGED kvars PROVE pend' = pend
  BY <1>5 DEF writer_crash, kvars
<1>6. QED BY <1>1, <1>2, <1>3, <1>4, <1>5 DEF KNext

LEMMA KInvInductive ==
  /\ KInit => KInv
  /\ KInv /\ [KNext]_kvars => KInv'
<1>1. KInit => KInv
  BY PlanInit, EmptyQueueOK DEF KInv, KInit
<1>2. ASSUME KInv, [KNext]_kvars PROVE QueueOK(pend')
  <2>1. pend' = pend \/ Staged
    BY <1>2, StagedNext DEF KInv
  <2>2. QED BY <1>2, <2>1 DEF KInv, Staged
<1>3. ASSUME KInv, [KNext]_kvars PROVE KInv'
  BY <1>2, <1>3, PlanNext DEF KInv
<1>4. QED BY <1>1, <1>3

----------------------------------------------------------------------------
\* The theorems

LEMMA KInvTypes == KInv => KTypeOK
<1> SUFFICES ASSUME KInv PROVE KTypeOK
  OBVIOUS
<1>1. Cardinality(edit) <= 1
  <2>1. CASE edit = {}
    BY <2>1, FS_EmptySet
  <2>2. CASE edit # {}
    <3>1. PICK e : edit = {e}
      BY <2>2 DEF KInv, PlanInv, TRecords
    <3>2. Cardinality({e}) = 1
      BY FS_Singleton
    <3>3. QED BY <3>1, <3>2
  <2>3. QED BY <2>1, <2>2
<1>2. pend \in PendingMaintainerUploads /\ WellFormed(pend)
  BY DEF KInv, QueueOK
<1>3. QED BY <1>1, <1>2 DEF KInv, PlanInv, TLocal, TRecords, TWriter, KTypeOK

\* The writers keep their records and the queue in shape: at most one edit is journalled,
\* and the queue has one entry for each claim and one group for each source.
THEOREM KnowledgeTypes == KSpec => []KTypeOK
  BY KInvTypes, KInvInductive, PTL DEF KSpec

\* The steps that write a claim file.
LEMMA LocalWriters ==
  ASSUME [KNext]_kvars
  PROVE  local' = local \/ write_edit \/ apply_prepared_claim \/ apply_dream_claim
         \/ apply_policy_deprecation
<1>1. ASSUME EditStep PROVE local' = local \/ write_edit
  BY <1>1
     DEF EditStep, lock_edit, Lock, recover_pending_claim_edit_locked, clear_recovered_edit,
         give_up, journal_edit, stage_edit, clear_pending_claim_edit
<1>2. ASSUME RecapStep PROVE local' = local \/ apply_prepared_claim
  BY <1>2
     DEF RecapStep, lock_recap, Lock, prepare_recap, discard_stale_finalize_checkpoint,
         save_progress, stage_recap, record_dispute_if_new, commit_applied
<1>3. ASSUME DreamStep PROVE local' = local \/ apply_dream_claim
  BY <1>3
     DEF DreamStep, prepare_dream, lock_dream, Lock, begin_dream, check_dream, stage_dream,
         finish_dream, clear_dream_pending, review_sync
<1>4. ASSUME PolicyStep PROVE local' = local \/ apply_policy_deprecation
  BY <1>4 DEF PolicyStep, lock_policy, Lock, stage_withdrawn, ack_policy
<1>5. ASSUME writer_crash \/ UNCHANGED kvars PROVE local' = local
  BY <1>5 DEF writer_crash, kvars
<1>6. QED BY <1>1, <1>2, <1>3, <1>4, <1>5 DEF KNext

\* Each of them writes one claim; it is newer, and what it replaces is what was planned for.
LEMMA OneWrite ==
  ASSUME PlanInv, [KNext]_kvars, local' # local
  PROVE  \E t \in Claim :
           /\ write_claim(t)
           /\ t # local[t.id] => local[t.id].v < t.v
           /\ \/ wr.todo = {} /\ (t.by = "user" \/ (t.by = "policy" /\ t.id \in Sourced))
              \/ /\ wr.op = "recap" /\ wr.pc = "write" /\ t \in wr.todo /\ NextTarget(t)
                 /\ t.by = "recap" /\ local[t.id] = recap.analysis[t.id]
              \/ /\ wr.op = "dream" /\ wr.pc = "write" /\ t \in wr.todo /\ NextTarget(t)
                 /\ t # local[t.id] => t.by = "dream"
                 /\ local[t.id] \in dream.before
<1>1. CASE write_edit
  <2>1. PICK e \in edit : write_claim(e.target)
    BY <1>1 DEF write_edit
  <2>2. /\ e.target \in Claim /\ local[e.target.id] = e.old /\ e.old.v < e.target.v
        /\ e.target.by = "user" /\ wr.todo = {}
    BY <1>1, <2>1 DEF write_edit, At, PlanInv, KEdit, KSteps, TRecords, PendingClaimEdit
  <2>3. QED BY <2>1, <2>2
<1>2. CASE apply_prepared_claim
  <2>1. PICK t \in wr.todo : write_claim(t) /\ NextTarget(t)
    BY <1>2 DEF apply_prepared_claim
  <2>2. wr.op = "recap" /\ wr.pc = "write" /\ GoodPlan /\ OnTrack
    BY <1>2 DEF apply_prepared_claim, At, PlanInv, KRecap
  <2>3. /\ t \in Claim /\ t.by = "recap" /\ local[t.id] = recap.analysis[t.id]
        /\ recap.analysis[t.id].v < t.v
    BY <2>2, WriterFields DEF PlanInv, GoodPlan, OnTrack
  <2>4. QED BY <2>1, <2>2, <2>3
<1>3. CASE apply_dream_claim
  <2>1. PICK t \in wr.todo : write_claim(t) /\ NextTarget(t)
    BY <1>3 DEF apply_dream_claim
  <2>2. /\ wr.op = "dream" /\ wr.pc = "write" /\ GoodGroup /\ t \in dream.after
        /\ local[t.id] \in dream.before
    BY <1>3 DEF apply_dream_claim, At, PlanInv, KDream
  <2>3. t \in Claim /\ local[t.id].id = t.id
    BY WriterFields DEF PlanInv, TLocal, Claim
  <2>4. t # local[t.id] => local[t.id].v < t.v /\ t.by = "dream"
    BY <2>2, <2>3 DEF GoodGroup
  <2>5. QED BY <2>1, <2>2, <2>3, <2>4
<1>4. CASE apply_policy_deprecation
  <2>1. PICK c \in Sourced : /\ Exists(c) /\ ~local[c].dep
                             /\ write_claim(next_claim_update_at(c, TRUE, "policy"))
    BY <1>4 DEF apply_policy_deprecation
  <2>2. c \in Claims /\ CanRevise(c) /\ wr.todo = {} /\ "policy" \in Writers
    BY <1>4, <2>1, KnowledgeAssumption
       DEF apply_policy_deprecation, At, PlanInv, KPolicy, KSteps, Writers
  <2> DEFINE t == next_claim_update_at(c, TRUE, "policy")
  <2>3. t \in Claim /\ t.id = c /\ local[c].v < t.v /\ t.by = "policy"
    BY <2>2, NextWithdrawn DEF PlanInv
  <2>4. write_claim(t)
    BY <2>1
  <2> HIDE DEF t
  <2>5. QED BY <2>2, <2>3, <2>4
<1>5. QED BY <1>1, <1>2, <1>3, <1>4, LocalWriters

\* No version is overwritten unread: every write makes a newer version, and a Recap or Dream
\* replaces exactly the version its plan was made for, also after crashes and edits between.
THEOREM EditsAreKept == KSpec => EditsKept
<1>1. ASSUME KInv, [KNext]_kvars
      PROVE  [\A c \in Claims : local'[c] # local[c] =>
                /\ local'[c].v > local[c].v
                /\ local'[c].by = "recap" => local[c] = recap.analysis[c]
                /\ local'[c].by = "dream" => local[c] \in dream.before]_kvars
  <2>1. SUFFICES ASSUME NEW c \in Claims, local'[c] # local[c]
                 PROVE  /\ local'[c].v > local[c].v
                        /\ local'[c].by = "recap" => local[c] = recap.analysis[c]
                        /\ local'[c].by = "dream" => local[c] \in dream.before
    OBVIOUS
  <2>2. PICK t \in Claim :
          /\ write_claim(t)
          /\ t # local[t.id] => local[t.id].v < t.v
          /\ \/ t.by \in {"user", "policy"}
             \/ t.by = "recap" /\ local[t.id] = recap.analysis[t.id]
             \/ (t # local[t.id] => t.by = "dream") /\ local[t.id] \in dream.before
    BY <1>1, <2>1, OneWrite DEF KInv
  <2>3. /\ local'[t.id] = t /\ \A d \in Claims : d # t.id => local'[d] = local[d]
    BY <1>1, <2>2, WriteClaimFacts DEF KInv, PlanInv
  <2>4. c = t.id /\ t # local[t.id]
    BY <2>1, <2>3
  <2>5. local'[c].v > local[c].v
    <3>1. t.v \in Nat /\ local[c].v \in Nat
      BY <1>1, <2>1, KnowledgeAssumption DEF KInv, PlanInv, TLocal, Claim
    <3>2. QED BY <2>2, <2>3, <2>4, <3>1
  <2>6. QED BY <2>2, <2>3, <2>4, <2>5
<1>2. QED BY <1>1, KInvInductive, PTL DEF KSpec, EditsKept

\* A plan deprecates a source only when every claim it keeps or adds is there as planned,
\* also when the plan is resumed after crashes and edits.
THEOREM SuccessorsAreFirst == KSpec => SuccessorsFirst
<1>1. ASSUME KInv, [KNext]_kvars
      PROVE  [\A t \in wr.todo :
                t.dep /\ local'[t.id] = t /\ local[t.id] # t =>
                  \A u \in IF wr.op = "recap" THEN recap.targets ELSE dream.after :
                    u.dep \/ local[u.id] = u]_kvars
  <2>1. SUFFICES ASSUME NEW t \in wr.todo, t.dep, local'[t.id] = t, local[t.id] # t
                 PROVE  \A u \in IF wr.op = "recap" THEN recap.targets ELSE dream.after :
                          u.dep \/ local[u.id] = u
    OBVIOUS
  <2>2. PICK x \in Claim : /\ write_claim(x) /\ x \in wr.todo /\ NextTarget(x)
                           /\ wr.op \in {"recap", "dream"} /\ wr.pc = "write"
    BY <1>1, <2>1, OneWrite DEF KInv
  <2>3. \A d \in Claims : d # x.id => local'[d] = local[d]
    BY <1>1, <2>2, WriteClaimFacts DEF KInv, PlanInv
  <2>4. t.id \in Claims
    BY <1>1, WriterFields DEF KInv, PlanInv, Claim
  <2>5. t.id = x.id
    BY <2>1, <2>3, <2>4
  <2>6. CASE wr.op = "recap"
    <3>1. GoodPlan /\ OnTrack
      BY <1>1, <2>2, <2>6 DEF KInv, PlanInv, KRecap
    <3>2. t = x
      BY <2>2, <2>5, <3>1 DEF GoodPlan, OnTrack, OnePerId
    <3>3. \A u \in wr.todo : u.dep
      BY <2>1, <2>2, <3>2 DEF NextTarget
    <3>4. QED BY <2>6, <3>1, <3>3 DEF OnTrack
  <2>7. CASE wr.op = "dream"
    <3>1. /\ GoodGroup /\ wr.todo \subseteq dream.after
          /\ \A u \in dream.after : u \in wr.todo \/ local[u.id] = u
      BY <1>1, <2>2, <2>7 DEF KInv, PlanInv, KDream
    <3>2. t = x
      BY <2>2, <2>5, <3>1 DEF GoodGroup, OnePerId
    <3>3. \A u \in wr.todo : u.dep
      BY <2>1, <2>2, <3>2 DEF NextTarget
    <3>4. QED BY <2>7, <3>1, <3>3
  <2>8. QED BY <2>2, <2>6, <2>7
<1>2. QED BY <1>1, KInvInductive, PTL DEF KSpec, SuccessorsFirst
=============================================================================
