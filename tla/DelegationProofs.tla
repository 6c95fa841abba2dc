-------------------------- MODULE DelegationProofs --------------------------
(***************************************************************************)
(* Theorems of Delegation: types, the slots, what is committed, the        *)
(* terminal statuses, the orphans and the closed session, for any number   *)
(* of subagents, slots, resumptions and faults.                            *)
(***************************************************************************)
EXTENDS Delegation, SequenceTheorems, FiniteSetTheorems, WellFoundedInduction, TLAPS

----------------------------------------------------------------------------
\* Queues

\* A set of natural numbers has a least member.
LEMMA LeastNatural ==
  ASSUME NEW T, T \subseteq Nat, T # {}
  PROVE  \E x \in T : \A y \in T : x <= y
<1> DEFINE R == {xy \in Nat \X Nat : xy[1] < xy[2]}
<1>1. IsWellFoundedOn(R, Nat)
  BY NatLessThanWellFounded DEF OpToRel
<1>2. PICK x \in T : \A y \in T : <<y, x>> \notin R
  <2> HIDE DEF R
  <2> QED BY <1>1, WFMin
<1>3. \A y \in T : ~(y < x)
  BY <1>2
<1>4. QED BY <1>3

\* The k-th member of a finite set of positions exists.
LEMMA KthPosition ==
  ASSUME NEW n \in Nat, NEW kept \in SUBSET (1 .. n), NEW k \in 1 .. Cardinality(kept)
  PROVE  \E i \in kept : Cardinality({j \in kept : j <= i}) = k
<1> DEFINE upto(m) == {j \in kept : j <= m}
           T == {m \in 0 .. n : Cardinality(upto(m)) >= k}
<1>0. \A j \in kept : j \in Nat /\ 1 <= j /\ j <= n
  OBVIOUS
<1>1. IsFiniteSet(kept) /\ Cardinality(kept) \in Nat /\ k \in Nat /\ k >= 1
  <2>1. IsFiniteSet(1 .. n) /\ kept \subseteq 1 .. n
    BY FS_Interval
  <2>2. IsFiniteSet(kept)
    BY <2>1, FS_Subset
  <2>3. Cardinality(kept) \in Nat
    BY <2>2, FS_CardinalityType
  <2>4. QED BY <2>2, <2>3
<1>2. \A m : IsFiniteSet(upto(m)) /\ Cardinality(upto(m)) \in Nat
  <2>1. \A m : upto(m) \subseteq kept
    OBVIOUS
  <2>2. QED BY <1>1, <2>1, FS_Subset, FS_CardinalityType
<1>3. n \in T
  <2>1. upto(n) = kept
    BY <1>0
  <2>2. Cardinality(kept) >= k
    BY <1>1
  <2>3. QED BY <2>1, <2>2
<1>4. PICK m \in T : \A x \in T : m <= x
  <2>1. T \subseteq Nat /\ T # {}
    BY <1>3
  <2> HIDE DEF T
  <2>2. QED BY <2>1, LeastNatural
<1>5. m \in 0 .. n /\ Cardinality(upto(m)) >= k
  BY <1>4
<1>6. m # 0
  <2>1. \A j \in kept : ~(j <= 0)
    BY <1>0
  <2>2. upto(0) = {}
    BY <2>1
  <2>3. Cardinality(upto(0)) = 0
    BY <2>2, FS_EmptySet
  <2>4. QED BY <1>1, <1>5, <2>3
<1>7. Cardinality(upto(m - 1)) < k
  <2>1. m - 1 \in 0 .. n /\ ~(m <= m - 1)
    BY <1>5, <1>6
  <2>2. m - 1 \notin T
    <3> HIDE DEF T
    <3> QED BY <1>4, <2>1
  <2>3. ~(Cardinality(upto(m - 1)) >= k)
    BY <2>1, <2>2
  <2> HIDE DEF upto
  <2>4. QED BY <1>1, <1>2, <2>3
<1>8. m \in kept
  <2>1. SUFFICES ASSUME m \notin kept PROVE FALSE
    OBVIOUS
  <2>2. \A j \in kept : j <= m <=> j <= m - 1
    BY <1>0, <1>5, <2>1
  <2>3. upto(m) = upto(m - 1)
    BY <2>2
  <2> HIDE DEF upto
  <2>4. QED BY <1>1, <1>2, <1>5, <1>7, <2>3
<1>9. upto(m) = upto(m - 1) \cup {m} /\ m \notin upto(m - 1)
  <2>1. \A j \in kept : j <= m <=> j <= m - 1 \/ j = m
    BY <1>0, <1>5
  <2>2. ~(m <= m - 1) /\ m <= m
    BY <1>5
  <2>3. QED BY <1>8, <2>1, <2>2
<1> HIDE DEF upto
<1>10. Cardinality(upto(m)) = Cardinality(upto(m - 1)) + 1
  BY <1>2, <1>9, FS_AddElement
<1>11. Cardinality(upto(m)) = k
  BY <1>1, <1>2, <1>5, <1>7, <1>10
<1>12. QED BY <1>8, <1>11 DEF upto

OnceEach(q) == \A i, j \in DOMAIN q : q[i] = q[j] => i = j

\* What a queue retains it had, and not twice what it had once.
LEMMA RetainedFacts ==
  ASSUME NEW S, NEW q \in Seq(S), NEW U
  PROVE  /\ Retained(q, U) \in Seq(S)
         /\ ToSet(Retained(q, U)) \subseteq ToSet(q)
         /\ OnceEach(q) => OnceEach(Retained(q, U))
<1> DEFINE kept == {i \in DOMAIN q : q[i] \in U}
           at(k) == CHOOSE i \in kept : Cardinality({j \in kept : j <= i}) = k
           r == Retained(q, U)
<1>1. Len(q) \in Nat /\ DOMAIN q = 1 .. Len(q) /\ kept \in SUBSET (1 .. Len(q))
  OBVIOUS
<1>2. Cardinality(kept) \in Nat
  <2>1. IsFiniteSet(1 .. Len(q)) /\ kept \subseteq 1 .. Len(q)
    BY <1>1, FS_Interval
  <2>2. QED BY <2>1, FS_Subset, FS_CardinalityType
<1>3. \A k \in 1 .. Cardinality(kept) :
        at(k) \in kept /\ Cardinality({j \in kept : j <= at(k)}) = k
  <2>1. TAKE k \in 1 .. Cardinality(kept)
  <2>2. \E i \in kept : Cardinality({j \in kept : j <= i}) = k
    <3> HIDE DEF kept
    <3> QED BY <1>1, KthPosition
  <2>3. QED BY <2>2
<1>4. r = [k \in 1 .. Cardinality(kept) |-> q[at(k)]]
  BY DEF Retained
<1> HIDE DEF at, r
<1>5. \A k \in 1 .. Cardinality(kept) : q[at(k)] \in S /\ at(k) \in DOMAIN q
  <2>1. TAKE k \in 1 .. Cardinality(kept)
  <2>2. at(k) \in kept
    BY <1>3
  <2>3. at(k) \in 1 .. Len(q)
    BY <1>1, <2>2
  <2>4. QED BY <1>1, <2>3
<1>6. r \in Seq(S)
  <2> HIDE DEF kept
  <2>1. QED BY <1>2, <1>4, <1>5
<1>7. ToSet(r) \subseteq ToSet(q)
  BY <1>4, <1>5 DEF ToSet
<1>8. ASSUME OnceEach(q) PROVE OnceEach(r)
  <2>1. SUFFICES ASSUME NEW k \in 1 .. Cardinality(kept), NEW l \in 1 .. Cardinality(kept),
                        q[at(k)] = q[at(l)]
                 PROVE  k = l
    BY <1>4 DEF OnceEach
  <2>2. at(k) = at(l)
    BY <1>5, <1>8, <2>1 DEF OnceEach
  <2>3. QED BY <1>3, <2>2
<1>9. QED BY <1>6, <1>7, <1>8 DEF r

LEMMA AppendFacts ==
  ASSUME NEW S, NEW q \in Seq(S), NEW d \in S
  PROVE  /\ Append(q, d) \in Seq(S)
         /\ ToSet(Append(q, d)) = ToSet(q) \cup {d}
         /\ OnceEach(q) /\ d \notin ToSet(q) => OnceEach(Append(q, d))
<1> DEFINE r == Append(q, d)
<1>1. r \in Seq(S) /\ Len(r) = Len(q) + 1 /\ Len(q) \in Nat
      /\ DOMAIN r = 1 .. Len(q) + 1 /\ DOMAIN q = 1 .. Len(q)
      /\ r[Len(q) + 1] = d /\ \A i \in 1 .. Len(q) : r[i] = q[i]
  OBVIOUS
<1> HIDE DEF r
<1>2. ToSet(r) = ToSet(q) \cup {d}
  <2>1. ASSUME NEW x \in ToSet(r) PROVE x \in ToSet(q) \cup {d}
    BY <1>1, <2>1 DEF ToSet
  <2>2. ASSUME NEW x \in ToSet(q) PROVE x \in ToSet(r)
    BY <1>1, <2>2 DEF ToSet
  <2>3. d \in ToSet(r)
    BY <1>1 DEF ToSet
  <2>4. QED BY <2>1, <2>2, <2>3
<1>3. ASSUME OnceEach(q), d \notin ToSet(q) PROVE OnceEach(r)
  BY <1>1, <1>3 DEF OnceEach, ToSet
<1>4. QED BY <1>1, <1>2, <1>3 DEF r

LEMMA TailFacts ==
  ASSUME NEW S, NEW q \in Seq(S), q # <<>>
  PROVE  /\ Head(q) \in S /\ Tail(q) \in Seq(S)
         /\ ToSet(q) = ToSet(Tail(q)) \cup {Head(q)}
         /\ OnceEach(q) => OnceEach(Tail(q)) /\ Head(q) \notin ToSet(Tail(q))
<1> DEFINE r == Tail(q)
<1>1. r \in Seq(S) /\ Len(q) \in Nat \ {0} /\ DOMAIN r = 1 .. Len(q) - 1
      /\ DOMAIN q = 1 .. Len(q) /\ Head(q) = q[1] /\ Head(q) \in S
      /\ \A i \in 1 .. Len(q) - 1 : r[i] = q[i + 1]
  OBVIOUS
<1> HIDE DEF r
<1>2. ToSet(q) = ToSet(r) \cup {Head(q)}
  <2>1. ASSUME NEW i \in DOMAIN q PROVE q[i] \in ToSet(r) \cup {Head(q)}
    <3>1. CASE i = 1
      BY <1>1, <3>1
    <3>2. CASE i # 1
      <4>1. i - 1 \in DOMAIN r /\ r[i - 1] = q[i]
        BY <1>1, <3>2
      <4>2. QED BY <4>1 DEF ToSet
    <3>3. QED BY <3>1, <3>2
  <2>2. ASSUME NEW i \in DOMAIN r PROVE r[i] \in ToSet(q)
    <3>1. i + 1 \in DOMAIN q /\ r[i] = q[i + 1]
      BY <1>1
    <3>2. QED BY <3>1 DEF ToSet
  <2>3. Head(q) \in ToSet(q)
    BY <1>1 DEF ToSet
  <2>4. QED BY <2>1, <2>2, <2>3 DEF ToSet
<1>3. ASSUME OnceEach(q) PROVE OnceEach(r) /\ Head(q) \notin ToSet(r)
  <2>1. OnceEach(r)
    <3>1. SUFFICES ASSUME NEW i \in 1 .. Len(q) - 1, NEW j \in 1 .. Len(q) - 1, r[i] = r[j]
                   PROVE  i = j
      BY <1>1 DEF OnceEach
    <3>2. i + 1 \in DOMAIN q /\ j + 1 \in DOMAIN q /\ q[i + 1] = q[j + 1]
      BY <1>1, <3>1
    <3>3. i + 1 = j + 1
      BY <1>3, <3>2 DEF OnceEach
    <3>4. QED BY <1>1, <3>3
  <2>2. ASSUME NEW i \in DOMAIN r PROVE r[i] # Head(q)
    <3>1. i + 1 \in DOMAIN q /\ 1 \in DOMAIN q /\ i + 1 # 1 /\ r[i] = q[i + 1]
      BY <1>1
    <3>2. QED BY <1>1, <1>3, <3>1 DEF OnceEach
  <2>3. QED BY <2>1, <2>2 DEF ToSet
<1>4. QED BY <1>1, <1>2, <1>3 DEF r

LEMMA EmptyFacts == ToSet(<<>>) = {} /\ OnceEach(<<>>) /\ \A S : <<>> \in Seq(S)
  BY DEF ToSet, OnceEach

----------------------------------------------------------------------------
\* Types

Statuses == {"none", "dir"} \cup Unfinished \cup Terminal
Stages == {"none", "start", "dir", "meta", "made", "undo", "done"}
Pumps == [pc : {"idle", "loop", "start", "mark"}, id : Delegations \cup {None}]
Cleaners == [pc : {"idle", "wait", "each", "close"}, kind : {"mark", "hard", "soft"},
             todo : SUBSET Delegations, failed : BOOLEAN, updated : BOOLEAN]
Remotes == [pc : {"idle", "strict", "soft"}, todo : SUBSET Delegations]
Waiters == [pc : {"idle", "choose", "look", "sleep"}, ids : SUBSET Delegations,
            until : {"any", "all"}]
Outcomes == {"none", "completed", "failed", "unsaved"}
Checkpoints == {"none", "open", "committed"}

LEMMA InitTypes == Init => DTypeOK
<1>1. SUFFICES ASSUME Init PROVE DTypeOK
  OBVIOUS
<1>2. /\ Idle \in Pumps /\ NoCleaner \in Cleaners /\ NoWaiter \in Waiters
      /\ NoRemote \in Remotes
      /\ 0 \in 0 .. MaxResumes /\ 0 \in 0 .. MaxFaults
  BY BoundAssumption DEF Idle, NoCleaner, NoWaiter, NoRemote, Pumps, Cleaners, Waiters, Remotes
<1>3. /\ status \in [Delegations -> {"none", "dir"} \cup Unfinished \cup Terminal]
      /\ reg \in [Delegations -> Stages] /\ result \in [Delegations -> Outcomes]
      /\ checkpoint \in [Delegations -> Checkpoints]
      /\ task \in [Delegations -> {"none", "ended"} \cup Working]
  BY <1>1 DEF Init, Stages, Outcomes, Checkpoints
<1>4. queue \in Seq(Delegations)
  BY <1>1, EmptyFacts DEF Init
<1>5. news \in BOOLEAN /\ up \in BOOLEAN /\ swept \in BOOLEAN
  BY <1>1, Zenon DEF Init
<1>6. /\ pump \in Pumps /\ cleaner \in Cleaners /\ waiter \in Waiters /\ remote \in Remotes
      /\ resumes \in 0 .. MaxResumes /\ faults \in 0 .. MaxFaults
  BY <1>1, <1>2 DEF Init
<1>7. /\ sess = "open" /\ lock = None /\ wanting = 0
      /\ cancelled = {} /\ running = {} /\ aborted = {} /\ broken = {} /\ outside = {}
  BY <1>1, Zenon DEF Init
<1>8. QED
  BY <1>3, <1>4, <1>5, <1>6, <1>7
  DEF DTypeOK, Pumps, Cleaners, Waiters, Remotes, Stages, Outcomes, Checkpoints

\* What a failed write or none does to the counters, and a publication or none to news.
WorldTypes ==
  /\ faults \in 0 .. MaxFaults /\ broken \subseteq Delegations
  /\ up \in BOOLEAN /\ resumes \in 0 .. MaxResumes
  /\ remote \in Remotes /\ outside \subseteq Delegations /\ swept \in BOOLEAN

LEMMA SideTypes ==
  ASSUME DTypeOK
  PROVE  /\ WorldTypes
         /\ UNCHANGED world => WorldTypes'
         /\ \A d \in Delegations : Fails(d) => WorldTypes'
         /\ \A S \in SUBSET Delegations :
              Faulty(S) => faults' \in 0 .. MaxFaults /\ broken' \subseteq Delegations
         /\ publish \/ UNCHANGED news => news' \in BOOLEAN
<1>0. WorldTypes
  BY DEF DTypeOK, WorldTypes, Remotes
<1>1. ASSUME NEW S \in SUBSET Delegations, Faulty(S)
      PROVE  faults' \in 0 .. MaxFaults /\ broken' \subseteq Delegations
  <2>1. faults' \in 0 .. MaxFaults
    BY <1>0, <1>1, BoundAssumption DEF WorldTypes, Faulty
  <2>2. broken' \subseteq Delegations
    BY <1>0, <1>1 DEF WorldTypes, Faulty
  <2>3. QED BY <2>1, <2>2
<1>2. ASSUME NEW d \in Delegations, Fails(d) PROVE WorldTypes'
  <2>1. Faulty({d}) /\ UNCHANGED <<up, resumes, remote, outside, swept>>
    BY <1>2 DEF Fails, supervision
  <2>2. QED BY <1>0, <1>1, <2>1 DEF WorldTypes
<1>3. ASSUME UNCHANGED world PROVE WorldTypes'
  BY <1>0, <1>3 DEF WorldTypes, world, supervision
<1>4. publish => news' \in BOOLEAN
  BY Zenon DEF publish
<1>5. UNCHANGED news => news' \in BOOLEAN
  BY Zenon DEF DTypeOK
<1>6. QED BY <1>0, <1>1, <1>2, <1>3, <1>4, <1>5

LEMMA StatusTypes ==
  ASSUME DTypeOK, NEW d \in Delegations
  PROVE  /\ Abandoned(d) \in [Delegations -> Statuses]
         /\ \A s \in Statuses : [status EXCEPT ![d] = s] \in [Delegations -> Statuses]
         /\ \A s \in Stages : [reg EXCEPT ![d] = s] \in [Delegations -> Stages]
         /\ status[d] \in Statuses
  BY DEF DTypeOK, Abandoned, Statuses, Stages, Terminal

LEMMA RegisterTypes ==
  ASSUME DTypeOK, NEW d \in Delegations, Register(d)
  PROVE  DTypeOK'
<1> USE DEF disk, creation, runner, tasks, watch
<1>1. /\ UNCHANGED <<sess, cancelled, running, pump, task, result, checkpoint, aborted, cleaner,
                     waiter>>
      /\ Fails(d) \/ UNCHANGED world
      /\ publish \/ UNCHANGED news
  BY DEF Register, RegisterDir, RegisterMetadata, RegisterEvents, RegisterFails, RegisterPush,
     RegisterUndo
<1>2. status' \in [Delegations -> Statuses] /\ reg' \in [Delegations -> Stages]
  <2>1. {"dir", "queued", "none"} \subseteq Statuses /\ status \in [Delegations -> Statuses]
        /\ {"dir", "meta", "made", "undo", "done"} \subseteq Stages
    BY DEF Statuses, Unfinished, DTypeOK, Stages
  <2>2. QED
    BY <2>1, StatusTypes DEF Register, RegisterDir, RegisterMetadata, RegisterEvents,
       RegisterFails, RegisterPush, RegisterUndo
<1>3. lock' \in Delegations \cup {None}
  BY DEF DTypeOK, Register, RegisterDir, RegisterMetadata, RegisterEvents, RegisterFails,
     RegisterPush, RegisterUndo, Answered
<1>4. queue' \in Seq(Delegations) /\ wanting' \in Nat
  <2>1. UNCHANGED <<queue, wanting>> \/ (queue' = Append(queue, d) /\ wanting' = wanting + 1)
    BY DEF Register, RegisterDir, RegisterMetadata, RegisterEvents, RegisterFails,
       RegisterPush, RegisterUndo
  <2>2. queue \in Seq(Delegations) /\ wanting \in Nat
    BY DEF DTypeOK
  <2>3. Append(queue, d) \in Seq(Delegations)
    BY <2>2
  <2>4. QED BY <2>1, <2>2, <2>3
<1>5. WorldTypes' /\ news' \in BOOLEAN
  BY <1>1, SideTypes
<1>6. QED BY <1>1, <1>2, <1>3, <1>4, <1>5 DEF DTypeOK, Statuses, Stages, WorldTypes, Remotes

LEMMA PumpTypes ==
  ASSUME DTypeOK, pump_queue \/ PumpStep,
         pump.pc \in {"start", "mark"} => pump.id \in Delegations
  PROVE  DTypeOK'
<1> USE DEF disk, creation, runner, tasks, watch
<1>1. /\ UNCHANGED <<sess, lock, cancelled, reg, result, checkpoint, aborted, cleaner, waiter>>
      /\ publish \/ UNCHANGED news
  BY DEF pump_queue, PumpStep, PumpNext, PumpStart, PumpStartFails, PumpMark
<1>2. WorldTypes' /\ news' \in BOOLEAN
  <2>1. CASE UNCHANGED world
    BY <1>1, <2>1, SideTypes
  <2>2. CASE ~UNCHANGED world
    <3>1. Fails(pump.id) /\ pump.id \in Delegations
      BY <2>2 DEF pump_queue, PumpStep, PumpNext, PumpStart, PumpStartFails, PumpMark
    <3>2. QED BY <1>1, <3>1, SideTypes
  <2>3. QED BY <2>1, <2>2
<1>3. pump' \in Pumps
  <2>1. /\ [pc |-> "loop", id |-> None] \in Pumps
        /\ \A id \in Delegations : [pc |-> "start", id |-> id] \in Pumps
        /\ Idle \in Pumps /\ [pump EXCEPT !.pc = "mark"] \in Pumps
    BY DEF Pumps, Idle, DTypeOK
  <2>2. queue # <<>> => Head(queue) \in Delegations
    BY TailFacts DEF DTypeOK
  <2>3. QED BY <2>1, <2>2 DEF pump_queue, PumpStep, PumpNext, PumpStart, PumpStartFails, PumpMark
<1>4. queue' \in Seq(Delegations) /\ wanting' \in Nat
  <2>1. /\ queue' = queue \/ (queue # <<>> /\ queue' = Tail(queue))
        /\ wanting' = wanting \/ (wanting > 0 /\ wanting' = wanting - 1)
    BY DEF pump_queue, PumpStep, PumpNext, PumpStart, PumpStartFails, PumpMark
  <2>2. queue \in Seq(Delegations) /\ wanting \in Nat
    BY DEF DTypeOK
  <2>3. queue # <<>> => Tail(queue) \in Seq(Delegations)
    BY <2>2
  <2>4. QED BY <2>1, <2>2, <2>3
<1>5. status' \in [Delegations -> Statuses]
  <2>1. {"running", "failed"} \subseteq Statuses /\ status \in [Delegations -> Statuses]
    BY DEF Statuses, Unfinished, Terminal, DTypeOK
  <2>2. \/ status' = status
        \/ /\ pump.id \in Delegations
           /\ \E s \in {"running", "failed", status[pump.id]} :
                status' = [status EXCEPT ![pump.id] = s]
    BY DEF pump_queue, PumpStep, PumpNext, PumpStart, PumpStartFails, PumpMark
  <2>3. QED BY <2>1, <2>2, StatusTypes
<1>6. running' \subseteq Delegations /\ task' \in [Delegations -> {"none", "ended"} \cup Working]
  <2>1. /\ running' \subseteq running \/ (running' = running \cup {pump.id} /\ pump.id \in Delegations)
        /\ task' = task \/ (pump.id \in Delegations /\ task' = [task EXCEPT ![pump.id] = "begin"])
    BY DEF pump_queue, PumpStep, PumpNext, PumpStart, PumpStartFails, PumpMark
  <2>2. QED BY <2>1 DEF DTypeOK, Working
<1>7. QED BY <1>1, <1>2, <1>3, <1>4, <1>5, <1>6
      DEF DTypeOK, Statuses, Pumps, WorldTypes, Remotes

LEMMA TaskTypes ==
  ASSUME DTypeOK, NEW d \in Delegations, TaskStep(d) \/ AbortLands(d),
         task[d] \in {"complete", "panic"} => result[d] \in {"completed", "failed"}
  PROVE  DTypeOK'
<1> USE DEF disk, creation, runner, tasks, watch
<1>1. /\ UNCHANGED <<sess, lock, cancelled, reg, queue, pump, cleaner, waiter>>
      /\ aborted' \in {aborted, aborted \ {d}}
      /\ Fails(d) \/ UNCHANGED world
      /\ publish \/ UNCHANGED news
  BY DEF TaskStep, BeginTask, Execute, Complete, Record, FinishTask, ReleaseSlot, AbortLands
<1>2. /\ running' \in {running, running \ {d}} /\ wanting' \in {wanting, wanting + 1}
  BY DEF TaskStep, BeginTask, Execute, Complete, Record, FinishTask, ReleaseSlot, AbortLands
<1>3. /\ running' \subseteq Delegations /\ wanting' \in Nat /\ aborted' \subseteq Delegations
      /\ WorldTypes' /\ news' \in BOOLEAN
  BY <1>1, <1>2, SideTypes DEF DTypeOK
<1>4. task' \in [Delegations -> {"none", "ended"} \cup Working]
  <2>1. \E pc \in {"ended"} \cup Working : task' = [task EXCEPT ![d] = pc]
    BY DEF TaskStep, BeginTask, Execute, Complete, Record, FinishTask, ReleaseSlot, AbortLands,
       TaskTo, Working
  <2>2. QED BY <2>1 DEF DTypeOK
<1>5. result' \in [Delegations -> Outcomes]
  <2>1. result' = result \/ \E r \in Outcomes : result' = [result EXCEPT ![d] = r]
    BY DEF TaskStep, BeginTask, Execute, Complete, Record, FinishTask, ReleaseSlot, AbortLands,
       Outcomes
  <2>2. QED BY <2>1 DEF DTypeOK, Outcomes
<1>6. checkpoint' \in [Delegations -> Checkpoints]
  <2>1. checkpoint' = checkpoint
        \/ \E c \in Checkpoints \cup {checkpoint[d]} : checkpoint' = [checkpoint EXCEPT ![d] = c]
    BY DEF TaskStep, BeginTask, Execute, Complete, Record, FinishTask, ReleaseSlot, AbortLands,
       Checkpoints, Verdict
  <2>2. QED BY <2>1 DEF DTypeOK, Checkpoints
<1>7. status' \in [Delegations -> Statuses]
  <2>1. status' = status \/ \E r \in {"completed", "failed"} : status' = [status EXCEPT ![d] = r]
    BY DEF TaskStep, BeginTask, Execute, Complete, Record, FinishTask, ReleaseSlot, AbortLands,
       TaskAt
  <2>2. {"completed", "failed"} \subseteq Statuses /\ status \in [Delegations -> Statuses]
    BY DEF Statuses, Terminal, DTypeOK
  <2>3. QED BY <2>1, <2>2, StatusTypes
<1>8. QED BY <1>1, <1>3, <1>4, <1>5, <1>6, <1>7
      DEF DTypeOK, Statuses, Outcomes, Checkpoints, WorldTypes, Remotes

LEMMA CleanTypes ==
  ASSUME DTypeOK, CleanStep
  PROVE  DTypeOK'
<1> USE DEF disk, creation, runner, tasks, watch
<1>0. cleaner \in Cleaners
  BY DEF DTypeOK, Cleaners
<1>1. UNCHANGED <<lock, cancelled, reg, pump, wanting, task, result, checkpoint, waiter>>
  BY DEF CleanStep, AbandonList, AbandonEnd, CloseSession, AbandonOne
<1>2. CASE AbandonList
  <2>1. Active \in SUBSET Delegations /\ HalfMade \in BOOLEAN
    BY Zenon DEF Active, HalfMade
  <2>2. cleaner' \in Cleaners
    BY <1>0, <1>2, <2>1 DEF AbandonList, Cleaners
  <2>3. WorldTypes'
    <3>1. CASE UNCHANGED world
      BY <3>1, SideTypes
    <3>2. CASE Faulty(Active) /\ UNCHANGED <<up, resumes, supervision>>
      BY <2>1, <3>2, SideTypes DEF WorldTypes, supervision
    <3>3. QED BY <1>2, <3>1, <3>2 DEF AbandonList
  <2>4. UNCHANGED <<status, sess, queue, running, aborted, news>>
    BY <1>2 DEF AbandonList
  <2>5. QED BY <1>1, <2>2, <2>3, <2>4 DEF DTypeOK, Cleaners, WorldTypes, Remotes
<1>3. ASSUME NEW d \in Delegations, AbandonOne(d) PROVE DTypeOK'
  <2>1. UNCHANGED <<sess, queue, running, aborted, news>>
    BY <1>3 DEF AbandonOne
  <2>2. Fails(d) \/ UNCHANGED world
    BY <1>3 DEF AbandonOne
  <2>3. status' \in [Delegations -> Statuses]
    BY <1>3, StatusTypes DEF AbandonOne, DTypeOK, Statuses
  <2>4. cleaner' \in Cleaners
    <3>1. PICK u \in BOOLEAN, f \in BOOLEAN :
            cleaner' = [cleaner EXCEPT !.todo = @ \ {d}, !.updated = u, !.failed = f]
      <4>1. CASE cleaner' = [cleaner EXCEPT !.todo = @ \ {d},
                                            !.updated = @ \/ status'[d] = "abandoned"]
        BY <1>0, <4>1 DEF Cleaners
      <4>2. CASE cleaner' = [cleaner EXCEPT !.todo = @ \ {d}, !.failed = TRUE]
        BY <1>0, <4>2 DEF Cleaners
      <4>3. QED BY <1>3, <4>1, <4>2 DEF AbandonOne
    <3>2. QED BY <1>0, <3>1 DEF Cleaners
  <2>5. WorldTypes'
    BY <2>2, SideTypes
  <2>6. QED BY <1>1, <2>1, <2>3, <2>4, <2>5
        DEF DTypeOK, Statuses, Cleaners, WorldTypes, Remotes
<1>4. CASE AbandonEnd
  <2>1. UNCHANGED <<status, sess, up, resumes, faults, broken, remote, outside>>
        /\ swept' \in BOOLEAN
    BY <1>4, Zenon DEF AbandonEnd
  <2>2. publish \/ UNCHANGED news
    BY <1>4 DEF AbandonEnd
  <2>3. cleaner' \in Cleaners
    BY <1>4 DEF AbandonEnd, NoCleaner, Cleaners
  <2>4. running' \subseteq Delegations /\ aborted' \subseteq Delegations
    BY <1>4 DEF AbandonEnd, AbortAll, PruneTerminal, DTypeOK
  <2>5. queue' \in Seq(Delegations)
    <3>1. queue' = <<>> \/ queue' = Retained(queue, {d \in Delegations : ~is_terminal(d)})
      BY <1>4 DEF AbandonEnd, AbortAll, PruneTerminal
    <3>2. queue \in Seq(Delegations)
      BY DEF DTypeOK
    <3>3. \A U : Retained(queue, U) \in Seq(Delegations)
      BY <3>2, RetainedFacts
    <3>4. QED BY <3>1, <3>3, EmptyFacts
  <2>6. QED BY <1>1, <2>1, <2>2, <2>3, <2>4, <2>5, SideTypes DEF DTypeOK, Cleaners
<1>5. CASE CloseSession
  <2>1. Clean("soft") \in Cleaners /\ NoCleaner \in Cleaners
    BY DEF Clean, NoCleaner, Cleaners
  <2>2. cleaner' \in Cleaners
    BY <1>5, <2>1 DEF CloseSession
  <2>3. sess' \in {sess, "closed"} /\ UNCHANGED <<status, queue, running, aborted, news, world>>
    BY <1>5 DEF CloseSession
  <2>4. WorldTypes'
    BY <2>3, SideTypes
  <2>5. QED BY <1>1, <2>2, <2>3, <2>4 DEF DTypeOK, Cleaners, WorldTypes, Remotes
<1>6. QED BY <1>2, <1>3, <1>4, <1>5 DEF CleanStep

LEMMA SessionTypes ==
  ASSUME DTypeOK, \/ mark_session_finalizing \/ RetryFinalize \/ ResumeSession \/ ProcessEnds
  PROVE  DTypeOK'
<1> USE DEF disk, creation, runner, tasks, watch, supervision
<1>1. /\ \A k \in {"mark", "hard", "soft"} : Clean(k) \in Cleaners
      /\ NoCleaner \in Cleaners /\ NoWaiter \in Waiters /\ Idle \in Pumps
  BY DEF Clean, NoCleaner, NoWaiter, Cleaners, Waiters, Idle, Pumps
<1>2. CASE mark_session_finalizing
  <2>1. faults' \in 0 .. MaxFaults /\ broken' \subseteq Delegations
    BY <1>2, SideTypes DEF mark_session_finalizing, DTypeOK
  <2>2. cleaner' \in Cleaners
    BY <1>1, <1>2 DEF mark_session_finalizing, DTypeOK, Cleaners
  <2>3. /\ sess' = "finalizing" /\ waiter' \in Waiters /\ news' = FALSE
        /\ UNCHANGED <<status, lock, cancelled, reg, queue, running, pump, wanting, task, result,
                       checkpoint, aborted, up, resumes, remote, outside, swept>>
    BY <1>1, <1>2 DEF mark_session_finalizing
  <2>4. QED BY <2>1, <2>2, <2>3 DEF DTypeOK, Cleaners, Waiters
<1>3. CASE RetryFinalize
  BY <1>1, <1>3 DEF RetryFinalize, DTypeOK, Cleaners, world
<1>4. CASE ResumeSession
  <2>1. resumes' \in 0 .. MaxResumes
    BY <1>4, BoundAssumption DEF ResumeSession, DTypeOK
  <2>2. checkpoint' \in [Delegations -> Checkpoints]
    BY <1>4 DEF ResumeSession, Checkpoints
  <2>3. /\ sess' = "open" /\ cleaner' \in Cleaners
        /\ UNCHANGED <<status, lock, cancelled, reg, queue, running, pump, wanting, task, result,
                       aborted, waiter, news, faults, broken, remote, outside>>
    BY <1>1, <1>4 DEF ResumeSession
  <2>4. up' \in BOOLEAN /\ swept' \in BOOLEAN
    BY <1>4, Zenon DEF ResumeSession
  <2>5. QED BY <2>1, <2>2, <2>3, <2>4 DEF DTypeOK, Cleaners, Checkpoints
<1>5. CASE ProcessEnds
  <2>1. faults' \in 0 .. MaxFaults /\ broken' \subseteq Delegations
    BY <1>5, SideTypes DEF ProcessEnds, DTypeOK
  <2>2. /\ checkpoint' \in [Delegations -> Checkpoints] /\ result' \in [Delegations -> Outcomes]
    BY <1>5 DEF ProcessEnds, Checkpoints, Outcomes
  <2>3. reg' \in [Delegations -> Stages]
    BY <1>5 DEF ProcessEnds, Stages
  <2>4. task' \in [Delegations -> {"none", "ended"} \cup Working]
    BY <1>5 DEF ProcessEnds, DTypeOK
  <2>5. queue' \in Seq(Delegations)
    BY <1>5, EmptyFacts DEF ProcessEnds
  <2>6. news' \in BOOLEAN /\ up' \in BOOLEAN /\ swept' \in BOOLEAN
    BY <1>5, Zenon DEF ProcessEnds
  <2>7. /\ lock' = None /\ cancelled' = {} /\ running' = {} /\ aborted' = {}
        /\ pump' \in Pumps /\ wanting' \in Nat /\ cleaner' \in Cleaners /\ waiter' \in Waiters
        /\ UNCHANGED <<status, sess, resumes, remote, outside>>
    BY <1>1, <1>5 DEF ProcessEnds
  <2>8. QED BY <2>1, <2>2, <2>3, <2>4, <2>5, <2>6, <2>7
        DEF DTypeOK, Cleaners, Waiters, Pumps, Checkpoints, Outcomes, Stages
<1>6. QED BY <1>2, <1>3, <1>4, <1>5

\* What the supervisor does is seen in the files, the session and its own finalize.
SupervisorMoves ==
  /\ UNCHANGED <<lock, cancelled, reg, queue, running, pump, wanting, task, result, checkpoint,
                 aborted, cleaner, waiter, news, up, resumes, faults, broken, swept>>
  /\ \A e \in Delegations :
       status'[e] = status[e] \/ (status[e] \in Unfinished /\ status'[e] = "abandoned")

LEMMA SupervisorMovesSo ==
  ASSUME DTypeOK, SupervisorStep
  PROVE  SupervisorMoves
<1> USE DEF disk, creation, runner, tasks, watch
<1>1. status \in [Delegations -> Statuses]
  BY DEF DTypeOK, Statuses
<1>2. CASE SupervisorFinalize \/ SupervisorClose \/ SupervisorStops
  BY <1>2 DEF SupervisorFinalize, SupervisorClose, SupervisorStops, SupervisorMoves
<1>3. ASSUME NEW d \in Delegations, SupervisorAbandon(d) PROVE SupervisorMoves
  BY <1>1, <1>3 DEF SupervisorAbandon, Abandoned, SupervisorMoves
<1>4. QED BY <1>2, <1>3 DEF SupervisorStep

LEMMA SupervisorTypes ==
  ASSUME DTypeOK, SupervisorStep
  PROVE  DTypeOK'
<1> USE DEF disk, creation, runner, tasks, watch
<1>1. SupervisorMoves /\ remote \in Remotes
  BY SupervisorMovesSo DEF DTypeOK, Remotes
<1>2. Active \in SUBSET Delegations /\ NoRemote \in Remotes
  BY DEF Active, NoRemote, Remotes
<1>3. /\ remote' \in Remotes /\ status' \in [Delegations -> Statuses]
      /\ sess' \in {sess, "closed"} /\ outside' \subseteq Delegations
  <2>1. CASE SupervisorFinalize \/ SupervisorClose \/ SupervisorStops
    BY <1>1, <1>2, <2>1
    DEF SupervisorFinalize, SupervisorClose, SupervisorStops, DTypeOK, Statuses, Remotes, NoRemote
  <2>2. ASSUME NEW d \in Delegations, SupervisorAbandon(d)
        PROVE  /\ remote' \in Remotes /\ status' \in [Delegations -> Statuses]
               /\ sess' \in {sess, "closed"} /\ outside' \subseteq Delegations
    BY <1>1, <1>2, <2>2, StatusTypes DEF SupervisorAbandon, DTypeOK, Remotes
  <2>3. QED BY <2>1, <2>2 DEF SupervisorStep
<1>4. QED BY <1>1, <1>3 DEF SupervisorMoves, DTypeOK, Statuses, Remotes

LEMMA ToolTypes ==
  ASSUME DTypeOK, \/ WaitStep \/ wait_subagents \/ WaitGiveUp \/ CancelTurn
                  \/ \E d \in Delegations : create_subagent(d)
  PROVE  DTypeOK'
<1> USE DEF disk, creation, runner, tasks, watch, world, supervision
<1>1. CASE WaitStep \/ wait_subagents \/ WaitGiveUp
  <2>1. UNCHANGED <<status, sess, lock, cancelled, reg, queue, running, pump, wanting, task,
                    result, checkpoint, aborted, cleaner, up, resumes, faults, broken, remote,
                    outside, swept>>
    BY <1>1 DEF WaitStep, WaitChoose, WaitLook, WaitWake, wait_subagents, WaitGiveUp
  <2>2. waiter' \in Waiters
    <3>1. \A S \in SUBSET Delegations, u \in {"any", "all"} :
            [pc |-> "look", ids |-> S, until |-> u] \in Waiters
      BY DEF Waiters
    <3>2. /\ NoWaiter \in Waiters /\ [NoWaiter EXCEPT !.pc = "choose"] \in Waiters
          /\ \A pc \in {"look", "sleep"} : [waiter EXCEPT !.pc = pc] \in Waiters
      BY DEF NoWaiter, Waiters, DTypeOK
    <3>3. (SUBSET {d \in Delegations : ~Unloadable(d)}) \ {{}} \subseteq SUBSET Delegations
      OBVIOUS
    <3>4. QED BY <1>1, <3>1, <3>2, <3>3
          DEF WaitStep, WaitChoose, WaitLook, WaitWake, wait_subagents, WaitGiveUp
  <2>3. news' = FALSE \/ UNCHANGED news
    BY <1>1 DEF WaitStep, WaitChoose, WaitLook, WaitWake, wait_subagents, WaitGiveUp
  <2>4. news' \in BOOLEAN
    BY <2>3 DEF DTypeOK
  <2>5. QED BY <2>1, <2>2, <2>4 DEF DTypeOK, Waiters
<1>2. CASE CancelTurn
  BY <1>2 DEF CancelTurn, DTypeOK
<1>3. ASSUME NEW d \in Delegations, create_subagent(d) PROVE DTypeOK'
  BY <1>3 DEF create_subagent, DTypeOK
<1>4. QED BY <1>1, <1>2, <1>3

----------------------------------------------------------------------------
\* The life of one delegation

\* Its file follows its registration, which its turn awaits or has cancelled.
RegistrationAgrees(d) ==
  /\ reg[d] \in {"none", "start"} => status[d] = "none"
  /\ reg[d] = "dir" => status[d] = "dir"
  /\ reg[d] \in {"meta", "made", "undo"} => status[d] \in {"queued", "abandoned"}
  /\ Registering(d) => lock = d \/ d \in cancelled

\* It waits for a slot in one place, registered and without a task.
WaitsOnce(d) ==
  /\ d \in ToSet(queue) \/ pump.id = d =>
       reg[d] = "done" /\ task[d] = "none" /\ status[d] \in Unfinished \cup Terminal
  /\ ~(d \in ToSet(queue) /\ pump.id = d)

\* Its task holds a slot until it is aborted, and ends after its result is on file or
\* could not be written.
TaskAgrees(d) ==
  /\ task[d] # "none" => reg[d] = "done" /\ status[d] \in {"running"} \cup Terminal
  /\ d \in running \cup aborted => task[d] # "none"
  /\ Acting(d) => d \in running
  /\ task[d] \in {"complete", "panic"} => result[d] \in {"completed", "failed"}
  /\ task[d] \in {"record", "finish", "release"} => is_terminal(d) \/ d \in broken
  /\ task[d] \in {"record", "finish"} /\ result[d] = "completed" => status[d] = "completed"
  /\ checkpoint[d] = "committed" => status[d] = "completed"

Life(d) == RegistrationAgrees(d) /\ WaitsOnce(d) /\ TaskAgrees(d)

\* The pump has a candidate exactly while it starts one.
PumpAgrees ==
  IF pump.pc \in {"start", "mark"} THEN pump.id \in Delegations ELSE pump.id = None

Lives == \A d \in Delegations : Life(d)

BaseInv == DTypeOK /\ PumpAgrees /\ OnceEach(queue) /\ Lives

LEMMA InitLife == Init => BaseInv
<1>1. SUFFICES ASSUME Init PROVE BaseInv
  OBVIOUS
<1>2. PumpAgrees /\ OnceEach(queue) /\ ToSet(queue) = {}
  BY <1>1, EmptyFacts DEF Init, PumpAgrees, Idle
<1>3. Lives
  BY <1>1, <1>2, NoneAssumption
  DEF Init, Lives, Life, RegistrationAgrees, WaitsOnce, TaskAgrees, Registering, Acting, Working, Idle,
      Delegations, is_terminal
<1>4. QED BY <1>1, <1>2, <1>3, InitTypes DEF BaseInv

LEMMA RegisterLife ==
  ASSUME BaseInv, NEW d \in Delegations, Register(d)
  PROVE  PumpAgrees' /\ OnceEach(queue)' /\ Lives'
<1> USE DEF disk, creation, runner, tasks, watch, world, supervision
<1>1. UNCHANGED <<running, pump, task, result, checkpoint, aborted>> /\ broken \subseteq broken'
      /\ UNCHANGED cancelled
  BY DEF Register, RegisterDir, RegisterMetadata, RegisterEvents, RegisterFails, RegisterPush,
     RegisterUndo, Fails, Faulty
<1>2. Life(d) /\ status \in [Delegations -> Statuses] /\ reg \in [Delegations -> Stages]
      /\ queue \in Seq(Delegations)
  BY DEF BaseInv, Lives, DTypeOK, Statuses, Stages
<1>3. /\ \A e \in Delegations : e # d => status'[e] = status[e] /\ reg'[e] = reg[e]
      /\ lock' \in {lock, None} /\ (lock' # lock => lock = d)
  BY <1>2 DEF Register, RegisterDir, RegisterMetadata, RegisterEvents, RegisterFails, RegisterPush,
     RegisterUndo, Answered, Abandoned
<1>4. /\ reg[d] \notin {"none", "done"} /\ d \notin ToSet(queue) /\ pump.id # d /\ task[d] = "none"
      /\ checkpoint[d] # "committed"
  BY <1>2 DEF Register, RegisterDir, RegisterMetadata, RegisterEvents, RegisterFails, RegisterPush,
     RegisterUndo, Life, RegistrationAgrees, WaitsOnce, TaskAgrees
<1>5. \/ reg'[d] = "done" /\ UNCHANGED queue
      \/ reg'[d] = "dir" /\ status'[d] = "dir" /\ UNCHANGED <<lock, queue>>
      \/ reg'[d] = "meta" /\ status'[d] = "queued" /\ UNCHANGED <<lock, queue>>
      \/ reg'[d] \in {"made", "undo"} /\ reg[d] \in {"meta", "made"} /\ UNCHANGED <<status, lock, queue>>
      \/ /\ reg'[d] = "done" /\ reg[d] = "made"
         /\ queue' = Append(queue, d) /\ UNCHANGED status
  BY <1>2 DEF Register, RegisterDir, RegisterMetadata, RegisterEvents, RegisterFails, RegisterPush,
     RegisterUndo
<1>6. /\ ToSet(queue') = ToSet(queue) \/ (/\ ToSet(queue') = ToSet(queue) \cup {d}
                                        /\ reg'[d] = "done" /\ reg[d] = "made" /\ UNCHANGED status)
      /\ OnceEach(queue')
  <2>1. ToSet(Append(queue, d)) = ToSet(queue) \cup {d} /\ OnceEach(Append(queue, d))
    BY <1>2, <1>4, AppendFacts DEF BaseInv
  <2>2. QED BY <1>5, <2>1 DEF BaseInv
<1>7. PumpAgrees'
  BY <1>1 DEF BaseInv, PumpAgrees
<1>8. ASSUME NEW e \in Delegations, e # d PROVE Life(e)'
  <2>1. Life(e)
    BY DEF BaseInv, Lives
  <2>2. e \in ToSet(queue') <=> e \in ToSet(queue)
    BY <1>6, <1>8
  <2>3. Registering(e) /\ lock = e => lock' = e
    BY <1>3, <1>8
  <2>4. QED BY <1>1, <1>3, <1>8, <2>1, <2>2, <2>3
        DEF Life, RegistrationAgrees, WaitsOnce, TaskAgrees, Registering, Acting, is_terminal
<1>9. Life(d)'
  <2>1. Registering(d)
    BY <1>2, <1>4 DEF Registering, Stages
  <2>2. RegistrationAgrees(d)'
    BY <1>1, <1>2, <1>5, <2>1 DEF Life, RegistrationAgrees, Registering
  <2>3. WaitsOnce(d)'
    BY <1>1, <1>2, <1>4, <1>6 DEF Life, RegistrationAgrees, WaitsOnce, Unfinished, Terminal
  <2>4. TaskAgrees(d)'
    BY <1>1, <1>2, <1>4 DEF Life, TaskAgrees, Acting, Working
  <2>5. QED BY <2>2, <2>3, <2>4 DEF Life
<1>10. QED BY <1>6, <1>7, <1>8, <1>9 DEF Lives

\* What the pump does: it sleeps or wakes, takes a candidate, drops one, or starts one.
PumpAside ==
  UNCHANGED <<status, reg, lock, cancelled, queue, task, result, checkpoint, aborted, broken>>
PumpMoves ==
  \/ /\ PumpAside /\ running' \subseteq running
     /\ \A d \in running : task[d] \in Working => d \in running'
     /\ pump'.pc \in {"loop", "idle"} /\ pump'.id = None /\ pump.id = None
  \/ /\ UNCHANGED <<status, reg, lock, cancelled, task, result, checkpoint, aborted, broken>>
     /\ pump.id = None /\ queue # <<>> /\ queue' = Tail(queue)
     /\ pump' = [pc |-> "start", id |-> Head(queue)]
     /\ running' \subseteq running /\ \A d \in running : task[d] \in Working => d \in running'
     /\ Cardinality(running') < MaxConcurrent
  \/ /\ pump.pc \in {"start", "mark"} /\ pump.id \in Delegations
     /\ UNCHANGED <<reg, lock, cancelled, queue, running, task, result, checkpoint, aborted>>
     /\ broken \subseteq broken'
     /\ pump'.pc \in {"loop", "mark"} /\ (pump'.pc = "mark" => pump'.id = pump.id)
     /\ pump'.pc = "loop" => pump'.id = None
     /\ \/ /\ UNCHANGED status
           /\ status[pump.id] \in Unfinished => pump.id \in broken'
        \/ /\ ~is_terminal(pump.id) /\ status' = [status EXCEPT ![pump.id] = "running"]
           /\ pump.id \in broken'
        \/ ~is_terminal(pump.id) /\ status' = [status EXCEPT ![pump.id] = "failed"]
  \/ /\ pump.pc = "start" /\ pump.id \in Delegations /\ ~is_terminal(pump.id)
     /\ UNCHANGED <<reg, lock, cancelled, queue, result, checkpoint, aborted, broken>>
     /\ pump'.pc = "loop" /\ pump'.id = None
     /\ status' = [status EXCEPT ![pump.id] = "running"]
     /\ running' = running \cup {pump.id}
     /\ task' = [task EXCEPT ![pump.id] = "begin"]

LEMMA PumpMovesSo ==
  ASSUME DTypeOK, PumpAgrees, pump_queue \/ PumpStep
  PROVE  PumpMoves /\ UNCHANGED <<sess, cleaner, up, remote, swept>>
<1> USE DEF disk, creation, runner, tasks, watch, world, supervision
<1>1. pump \in Pumps /\ status \in [Delegations -> Statuses]
  BY DEF DTypeOK, Pumps, Statuses
<1>2. CASE pump_queue
  BY <1>1, <1>2 DEF pump_queue, PumpMoves, PumpAside, PumpAgrees, PumpLockFree
<1>3. CASE PumpNext
  <2>1. /\ running' = {d \in running : task[d] \in Working} /\ pump.id = None
        /\ UNCHANGED <<status, sess, reg, lock, cancelled, task, result, checkpoint, aborted,
                       cleaner, up, broken, remote, swept>>
    BY <1>3 DEF PumpNext, PumpAgrees
  <2>2. running' \subseteq running /\ \A d \in running : task[d] \in Working => d \in running'
    BY <2>1
  <2>3. Cardinality(running') \in Nat
    <3>1. IsFiniteSet(Delegations) /\ running' \subseteq Delegations
      BY <2>2, BoundAssumption, FS_Interval DEF Delegations, DTypeOK
    <3>2. QED BY <3>1, FS_Subset, FS_CardinalityType
  <2>4. \/ pump' = Idle /\ UNCHANGED queue
        \/ /\ queue # <<>> /\ queue' = Tail(queue) /\ ~(Cardinality(running') >= MaxConcurrent)
           /\ pump' = [pc |-> "start", id |-> Head(queue)]
    BY <1>3, <2>1 DEF PumpNext
  <2>5. QED BY <2>1, <2>2, <2>3, <2>4, ConcurrencyAssumption DEF PumpMoves, PumpAside, Idle
<1>4. CASE PumpStart
  <2>1. pump.id \in Delegations /\ pump.pc = "start"
    BY <1>4 DEF PumpStart, PumpAgrees
  <2>2. is_terminal(pump.id) => status[pump.id] \notin Unfinished
    BY DEF is_terminal, Unfinished, Terminal
  <2>3. QED BY <1>4, <2>1, <2>2 DEF PumpStart, PumpMoves
<1>5. CASE PumpStartFails
  <2>1. pump.id \in Delegations /\ pump.pc = "start" /\ pump.id \in broken' /\ broken \subseteq broken'
    BY <1>5 DEF PumpStartFails, PumpAgrees, Fails, Faulty
  <2>2. status' = status \/ status' = [status EXCEPT ![pump.id] = "running"]
    BY <1>1, <1>5, <2>1 DEF PumpStartFails
  <2>3. pump'.pc = "mark" /\ pump'.id = pump.id
    BY <1>1, <1>5 DEF PumpStartFails, Pumps
  <2>4. QED BY <1>5, <2>1, <2>2, <2>3 DEF PumpStartFails, PumpMoves, Fails, Faulty
<1>6. CASE PumpMark
  <2>1. pump.id \in Delegations /\ pump.pc = "mark" /\ pump'.pc = "loop" /\ pump'.id = None
    BY <1>6 DEF PumpMark, PumpAgrees
  <2>2. /\ LegalComplete(pump.id, "failed") => ~is_terminal(pump.id)
        /\ status[pump.id] \in Unfinished => LegalComplete(pump.id, "failed")
    BY DEF LegalComplete, is_terminal, Terminal, Unfinished
  <2>3. QED BY <1>6, <2>1, <2>2 DEF PumpMark, PumpMoves, Fails, Faulty
<1>7. QED BY <1>2, <1>3, <1>4, <1>5, <1>6 DEF PumpStep

LEMMA PumpLife ==
  ASSUME BaseInv, PumpMoves
  PROVE  PumpAgrees' /\ OnceEach(queue)' /\ Lives'
<1>0. /\ queue \in Seq(Delegations) /\ OnceEach(queue)
      /\ status \in [Delegations -> Statuses]
      /\ task \in [Delegations -> {"none", "ended"} \cup Working]
      /\ \A d \in Delegations : Life(d) /\ d # None
  BY NoneAssumption DEF BaseInv, Lives, DTypeOK, Statuses, Delegations
<1>1. CASE /\ PumpAside /\ running' \subseteq running
           /\ \A d \in running : task[d] \in Working => d \in running'
           /\ pump'.pc \in {"loop", "idle"} /\ pump'.id = None /\ pump.id = None
  <2>1. PumpAgrees' /\ OnceEach(queue)'
    BY <1>0, <1>1 DEF PumpAgrees, PumpAside
  <2>2. ASSUME NEW d \in Delegations PROVE Life(d)'
    BY <1>0, <1>1
    DEF PumpAside, Life, RegistrationAgrees, WaitsOnce, TaskAgrees, Registering, Acting, is_terminal
  <2>3. QED BY <2>1, <2>2 DEF Lives
<1>2. CASE /\ UNCHANGED <<status, reg, lock, cancelled, task, result, checkpoint, aborted, broken>>
           /\ pump.id = None /\ queue # <<>> /\ queue' = Tail(queue)
           /\ pump' = [pc |-> "start", id |-> Head(queue)]
           /\ running' \subseteq running /\ \A d \in running : task[d] \in Working => d \in running'
  <2>1. /\ Head(queue) \in Delegations /\ OnceEach(queue') /\ Head(queue) \notin ToSet(queue')
        /\ ToSet(queue) = ToSet(queue') \cup {Head(queue)}
    BY <1>0, <1>2, TailFacts
  <2>2. PumpAgrees'
    BY <1>2, <2>1 DEF PumpAgrees
  <2>3. ASSUME NEW d \in Delegations PROVE Life(d)'
    <3>1. d \in ToSet(queue') \/ pump'.id = d <=> d \in ToSet(queue)
      BY <1>2, <2>1
    <3>2. WaitsOnce(d)'
      BY <1>0, <1>2, <2>1, <3>1 DEF Life, WaitsOnce
    <3>3. RegistrationAgrees(d)' /\ TaskAgrees(d)'
      BY <1>0, <1>2 DEF Life, RegistrationAgrees, TaskAgrees, Registering, Acting, is_terminal
    <3>4. QED BY <3>2, <3>3 DEF Life
  <2>4. QED BY <2>1, <2>2, <2>3 DEF Lives
<1>3. CASE /\ pump.pc \in {"start", "mark"} /\ pump.id \in Delegations
           /\ UNCHANGED <<reg, lock, cancelled, queue, running, task, result, checkpoint, aborted>>
           /\ broken \subseteq broken'
           /\ pump'.pc \in {"loop", "mark"} /\ (pump'.pc = "mark" => pump'.id = pump.id)
           /\ pump'.pc = "loop" => pump'.id = None
           /\ \/ UNCHANGED status
              \/ /\ ~is_terminal(pump.id)
                 /\ \E s \in {"running", "failed"} : status' = [status EXCEPT ![pump.id] = s]
  <2>0. PICK c \in Delegations : c = pump.id
    BY <1>3
  <2>1. PumpAgrees' /\ OnceEach(queue)'
    BY <1>0, <1>3 DEF PumpAgrees
  <2>2. Life(c)'
    <3>1. /\ reg[c] = "done" /\ task[c] = "none" /\ c \notin ToSet(queue)
          /\ status'[c] \in Unfinished \cup Terminal
          /\ status[c] = "completed" => status'[c] = "completed"
      BY <1>0, <2>0, <1>3 DEF Life, WaitsOnce, Unfinished, Terminal, is_terminal
    <3>2. QED BY <1>0, <2>0, <1>3, <3>1
          DEF Life, RegistrationAgrees, WaitsOnce, TaskAgrees, Registering, Acting, is_terminal
  <2>3. ASSUME NEW d \in Delegations, d # c PROVE Life(d)'
    <3>1. status'[d] = status[d] /\ pump'.id # d
      BY <1>0, <2>0, <1>3, <2>3
    <3>2. QED BY <1>0, <2>0, <1>3, <3>1
          DEF Life, RegistrationAgrees, WaitsOnce, TaskAgrees, Registering, Acting, is_terminal
  <2>4. QED BY <2>1, <2>2, <2>3 DEF Lives
<1>4. CASE /\ pump.pc = "start" /\ pump.id \in Delegations /\ ~is_terminal(pump.id)
           /\ UNCHANGED <<reg, lock, cancelled, queue, result, checkpoint, aborted, broken>>
           /\ pump'.pc = "loop" /\ pump'.id = None
           /\ status' = [status EXCEPT ![pump.id] = "running"]
           /\ running' = running \cup {pump.id}
           /\ task' = [task EXCEPT ![pump.id] = "begin"]
  <2>0. PICK c \in Delegations : c = pump.id
    BY <1>4
  <2>1. PumpAgrees' /\ OnceEach(queue)'
    BY <1>0, <1>4 DEF PumpAgrees
  <2>2. Life(c)'
    <3>1. /\ reg[c] = "done" /\ c \notin ToSet(queue)
          /\ status'[c] = "running" /\ task'[c] = "begin" /\ c \in running'
          /\ checkpoint[c] # "committed"
      BY <1>0, <2>0, <1>4 DEF Life, WaitsOnce, TaskAgrees, Terminal, is_terminal
    <3>2. QED BY <1>0, <2>0, <1>4, <3>1
          DEF Life, RegistrationAgrees, WaitsOnce, TaskAgrees, Registering, Acting, is_terminal
  <2>3. ASSUME NEW d \in Delegations, d # c PROVE Life(d)'
    <3>1. status'[d] = status[d] /\ task'[d] = task[d] /\ pump'.id # d /\ (d \in running' <=> d \in running)
      BY <1>0, <2>0, <1>4, <2>3
    <3>2. QED BY <1>0, <2>0, <1>4, <2>3, <3>1
          DEF Life, RegistrationAgrees, WaitsOnce, TaskAgrees, Registering, Acting, is_terminal
  <2>4. QED BY <2>1, <2>2, <2>3 DEF Lives
<1>5. QED BY <1>1, <1>2, <1>3, <1>4 DEF PumpMoves

\* What a step of its task leaves alone.
TaskMoves(d) ==
  /\ UNCHANGED <<sess, reg, lock, cancelled, queue, pump, cleaner, up, remote, swept>>
  /\ aborted' \in {aborted, aborted \ {d}} /\ (task'[d] = "ended" => d \notin aborted')
  /\ task'[d] # "ended" => UNCHANGED aborted
  /\ task[d] \in Working /\ running' \subseteq running /\ running \subseteq running' \cup {d}
  /\ broken \subseteq broken'
  /\ \A e \in Delegations :
       e # d => /\ status'[e] = status[e] /\ task'[e] = task[e] /\ result'[e] = result[e]
                /\ checkpoint'[e] = checkpoint[e]
  /\ task'[d] \in {"ended"} \cup Working
  /\ status'[d] = status[d] \/ (status[d] \in Unfinished /\ status'[d] \in Terminal)

LEMMA TaskMovesSo ==
  ASSUME BaseInv, NEW d \in Delegations, TaskStep(d) \/ AbortLands(d)
  PROVE  TaskMoves(d) /\ TaskAgrees(d)' /\ (task'[d] = "ended" => d \in aborted \/ TaskAt(d, "release"))
<1> USE DEF disk, creation, runner, tasks, watch, world, supervision
<1>1. /\ TaskAgrees(d) /\ status \in [Delegations -> Statuses]
      /\ task \in [Delegations -> {"none", "ended"} \cup Working]
      /\ result \in [Delegations -> Outcomes] /\ checkpoint \in [Delegations -> Checkpoints]
      /\ running \subseteq Delegations
  BY DEF BaseInv, Lives, Life, DTypeOK, Statuses, Outcomes, Checkpoints
<1>2. CASE BeginTask(d) \/ Execute(d)
  <2>1. TaskMoves(d) /\ UNCHANGED <<status, running, broken>>
    BY <1>1, <1>2 DEF BeginTask, Execute, TaskAt, TaskTo, TaskMoves, Working
  <2>2. \/ task'[d] = "execute"
        \/ task'[d] \in {"complete", "panic"} /\ result'[d] \in {"completed", "failed"}
    BY <1>1, <1>2 DEF BeginTask, Execute, TaskTo
  <2>3. checkpoint'[d] \in {checkpoint[d], "open", "none"}
    BY <1>1, <1>2 DEF BeginTask, Execute
  <2>4. task[d] \in {"begin", "execute"}
    BY <1>2 DEF BeginTask, Execute, TaskAt
  <2>5. QED BY <1>1, <2>1, <2>2, <2>3, <2>4 DEF TaskMoves, TaskAgrees, Acting, Working
<1>3. CASE Complete(d)
  <2>1. TaskAt(d, "complete") \/ TaskAt(d, "panic")
    BY <1>3 DEF Complete
  <2>2. result[d] \in {"completed", "failed"} /\ status[d] \in {"running"} \cup Terminal
    BY <1>1, <2>1 DEF TaskAgrees, TaskAt
  <2>3. UNCHANGED <<sess, reg, lock, cancelled, queue, running, pump, checkpoint, aborted, cleaner,
                    up, remote, swept>>
    BY <1>3 DEF Complete, Fails, Faulty
  <2>4. CASE /\ LegalComplete(d, result[d]) /\ status' = [status EXCEPT ![d] = result[d]]
             /\ task' = [task EXCEPT ![d] = "record"] /\ UNCHANGED <<result, broken>>
    <3>1. status[d] = "running" /\ status'[d] = result[d] /\ task'[d] = "record"
      BY <1>1, <2>2, <2>4 DEF LegalComplete, Terminal
    <3>2. TaskMoves(d)
      BY <1>1, <2>1, <2>2, <2>3, <2>4, <3>1
      DEF TaskMoves, TaskAt, Working, Unfinished, Terminal
    <3>3. TaskAgrees(d)'
      BY <1>1, <2>1, <2>2, <2>3, <2>4, <3>1
      DEF TaskAgrees, TaskAt, Acting, Working, Terminal, is_terminal
    <3>4. QED BY <3>1, <3>2, <3>3
  <2>5. CASE /\ task' \in {[task EXCEPT ![d] = "release"], [task EXCEPT ![d] = "finish"]}
             /\ result' = [result EXCEPT ![d] = "unsaved"] /\ UNCHANGED status
             /\ IF LegalComplete(d, result[d]) THEN Fails(d) ELSE UNCHANGED broken
    <3>1. task'[d] \in {"release", "finish"} /\ result'[d] = "unsaved" /\ broken \subseteq broken'
      BY <1>1, <2>5 DEF Fails, Faulty
    <3>2. is_terminal(d) \/ d \in broken'
      BY <2>2, <2>5 DEF LegalComplete, is_terminal, Fails, Faulty
    <3>3. TaskMoves(d)
      BY <1>1, <2>1, <2>3, <2>5, <3>1 DEF TaskMoves, TaskAt, Working
    <3>4. TaskAgrees(d)'
      BY <1>1, <2>1, <2>3, <2>5, <3>1, <3>2 DEF TaskAgrees, TaskAt, Acting, Working, is_terminal
    <3>5. QED BY <3>1, <3>3, <3>4
  <2>6. QED BY <1>3, <2>4, <2>5 DEF Complete, TaskTo
<1>4. CASE Record(d)
  <2>1. /\ TaskAt(d, "record") /\ task' = [task EXCEPT ![d] = "finish"]
        /\ UNCHANGED <<sess, reg, lock, cancelled, queue, running, pump, status, checkpoint, aborted,
                       cleaner, up, remote, swept>>
        /\ result' = result \/ result' = [result EXCEPT ![d] = "unsaved"]
        /\ broken \subseteq broken'
    BY <1>4 DEF Record, TaskTo, Fails, Faulty
  <2>2. TaskMoves(d) /\ task'[d] = "finish"
    BY <1>1, <2>1 DEF TaskMoves, TaskAt, Working
  <2>3. TaskAgrees(d)'
    BY <1>1, <2>1, <2>2 DEF TaskAgrees, TaskAt, Acting, Working, is_terminal
  <2>4. QED BY <2>2, <2>3
<1>5. CASE FinishTask(d)
  <2>1. /\ TaskAt(d, "finish") /\ task' = [task EXCEPT ![d] = "release"]
        /\ UNCHANGED <<sess, reg, lock, cancelled, queue, running, pump, status, result, aborted,
                       cleaner, up, broken, remote, swept>>
    BY <1>5 DEF FinishTask, TaskTo
  <2>2. TaskMoves(d) /\ task'[d] = "release"
    BY <1>1, <1>5, <2>1 DEF FinishTask, TaskMoves, TaskAt, Working
  <2>3. checkpoint'[d] = "committed" => checkpoint[d] = "committed" \/ result[d] = "completed"
    BY <1>1, <1>5 DEF FinishTask, Verdict
  <2>4. TaskAgrees(d)'
    BY <1>1, <2>1, <2>2, <2>3 DEF TaskAgrees, TaskAt, Acting, Working, is_terminal
  <2>5. QED BY <2>2, <2>4
<1>6. CASE ReleaseSlot(d)
  <2>1. /\ TaskAt(d, "release") /\ task' = [task EXCEPT ![d] = "ended"] /\ running' = running \ {d}
        /\ UNCHANGED <<sess, reg, lock, cancelled, queue, pump, status, checkpoint, cleaner,
                       up, broken, remote, swept>>
        /\ result' = [result EXCEPT ![d] = "none"] /\ aborted' = aborted \ {d}
    BY <1>6 DEF ReleaseSlot, TaskTo
  <2>2. TaskMoves(d) /\ task'[d] = "ended"
    BY <1>1, <2>1 DEF TaskMoves, TaskAt, Working
  <2>3. TaskAgrees(d)'
    BY <1>1, <2>1, <2>2 DEF TaskAgrees, TaskAt, Acting, Working, is_terminal
  <2>4. QED BY <2>1, <2>2, <2>3
<1>7. CASE AbortLands(d)
  <2>1. /\ d \in aborted /\ task[d] \in Working /\ task' = [task EXCEPT ![d] = "ended"]
        /\ UNCHANGED <<sess, reg, lock, cancelled, queue, running, pump, status, cleaner,
                       up, broken, remote, swept>>
        /\ result' = [result EXCEPT ![d] = "none"] /\ aborted' = aborted \ {d}
    BY <1>7 DEF AbortLands, TaskTo
  <2>2. TaskMoves(d) /\ task'[d] = "ended"
    BY <1>1, <1>7, <2>1 DEF AbortLands, TaskMoves, Working
  <2>3. checkpoint'[d] \in {checkpoint[d], "none"}
    BY <1>1, <1>7 DEF AbortLands
  <2>4. TaskAgrees(d)'
    BY <1>1, <2>1, <2>2, <2>3 DEF TaskAgrees, Acting, Working, is_terminal
  <2>5. QED BY <2>1, <2>2, <2>4
<1>8. QED BY <1>2, <1>3, <1>4, <1>5, <1>6, <1>7 DEF TaskStep

LEMMA TaskLife ==
  ASSUME BaseInv, NEW d \in Delegations, TaskStep(d) \/ AbortLands(d)
  PROVE  PumpAgrees' /\ OnceEach(queue)' /\ Lives'
<1>1. TaskMoves(d) /\ TaskAgrees(d)'
  BY TaskMovesSo
<1>2. PumpAgrees' /\ OnceEach(queue)'
  BY <1>1 DEF BaseInv, PumpAgrees, TaskMoves
<1>3. Life(d)'
  <2>1. /\ Life(d) /\ reg[d] = "done" /\ d \notin ToSet(queue) /\ pump.id # d
    BY <1>1 DEF BaseInv, Lives, Life, TaskAgrees, WaitsOnce, TaskMoves, Working
  <2>2. RegistrationAgrees(d)' /\ WaitsOnce(d)'
    BY <1>1, <2>1 DEF TaskMoves, RegistrationAgrees, WaitsOnce, Registering
  <2>3. QED BY <1>1, <2>2 DEF Life
<1>4. ASSUME NEW e \in Delegations, e # d PROVE Life(e)'
  <2>1. Life(e) /\ status'[e] = status[e] /\ task'[e] = task[e] /\ result'[e] = result[e]
        /\ checkpoint'[e] = checkpoint[e] /\ (e \in running' <=> e \in running)
        /\ (e \in aborted' <=> e \in aborted)
    BY <1>1, <1>4 DEF TaskMoves, BaseInv, Lives
  <2>2. QED BY <1>1, <2>1
        DEF TaskMoves, Life, RegistrationAgrees, WaitsOnce, TaskAgrees, Registering, Acting, is_terminal
<1>5. QED BY <1>2, <1>3, <1>4 DEF Lives

\* What a step does that touches neither queue, pump, tasks nor registrations.
Aside == UNCHANGED <<reg, lock, cancelled, queue, running, pump, task, result, aborted>>

LEMMA AsideLife ==
  ASSUME BaseInv, Aside, broken \subseteq broken',
         \A e \in Delegations :
           /\ status'[e] = status[e] \/ (status[e] \in Unfinished /\ status'[e] = "abandoned")
           /\ checkpoint'[e] \in {checkpoint[e], "none"}
  PROVE  PumpAgrees' /\ OnceEach(queue)' /\ Lives'
<1>1. PumpAgrees' /\ OnceEach(queue)'
  BY DEF BaseInv, PumpAgrees, Aside
<1>2. ASSUME NEW e \in Delegations PROVE Life(e)'
  <2>1. Life(e)
    BY DEF BaseInv, Lives
  <2>2. RegistrationAgrees(e)'
    BY <2>1 DEF Life, Aside, RegistrationAgrees, Registering, Unfinished
  <2>3. WaitsOnce(e)'
    BY <2>1 DEF Life, Aside, WaitsOnce, Unfinished, Terminal
  <2>4. TaskAgrees(e)'
    <3>1. is_terminal(e) => is_terminal(e)' /\ (status[e] = "completed" => status'[e] = "completed")
      BY DEF is_terminal, Terminal, Unfinished
    <3>2. status[e] = "completed" => status'[e] = "completed"
      BY DEF Unfinished
    <3>3. QED BY <2>1, <3>1, <3>2 DEF Life, Aside, TaskAgrees, Acting, Terminal, Unfinished
  <2>5. QED BY <2>2, <2>3, <2>4 DEF Life
<1>3. QED BY <1>1, <1>2 DEF Lives

LEMMA CleanLife ==
  ASSUME BaseInv, CleanStep
  PROVE  PumpAgrees' /\ OnceEach(queue)' /\ Lives'
<1> USE DEF disk, creation, runner, tasks, watch, world, supervision
<1>0. status \in [Delegations -> Statuses] /\ queue \in Seq(Delegations) /\ OnceEach(queue)
  BY DEF BaseInv, DTypeOK, Statuses
<1>1. CASE AbandonList \/ CloseSession
  <2>1. Aside /\ UNCHANGED <<status, checkpoint>> /\ broken \subseteq broken'
    BY <1>1 DEF AbandonList, CloseSession, Aside, Faulty
  <2>2. QED BY <2>1, AsideLife
<1>2. ASSUME NEW d \in Delegations, AbandonOne(d) PROVE PumpAgrees' /\ OnceEach(queue)' /\ Lives'
  <2>1. Aside /\ UNCHANGED checkpoint /\ broken \subseteq broken'
    BY <1>2 DEF AbandonOne, Aside, Fails, Faulty
  <2>2. \A e \in Delegations :
          status'[e] = status[e] \/ (status[e] \in Unfinished /\ status'[e] = "abandoned")
    BY <1>0, <1>2 DEF AbandonOne, Abandoned
  <2>3. QED BY <2>1, <2>2, AsideLife
<1>3. CASE AbandonEnd
  <2>1. /\ UNCHANGED <<status, reg, lock, cancelled, pump, task, result, checkpoint, broken>>
    BY <1>3 DEF AbandonEnd
  <2>2. ToSet(queue') \subseteq ToSet(queue) /\ OnceEach(queue')
    <3>1. queue' = <<>> \/ queue' = Retained(queue, {d \in Delegations : ~is_terminal(d)})
      BY <1>3 DEF AbandonEnd, AbortAll, PruneTerminal
    <3>2. \A U : ToSet(Retained(queue, U)) \subseteq ToSet(queue) /\ OnceEach(Retained(queue, U))
      BY <1>0, RetainedFacts
    <3>3. QED BY <3>1, <3>2, EmptyFacts
  <2>3. running' \subseteq running /\ aborted \subseteq aborted'
        /\ \A e : (e \in running => e \in running' \cup aborted') /\ (e \in aborted' => e \in aborted \cup running)
    BY <1>3 DEF AbandonEnd, AbortAll, PruneTerminal
  <2>4. PumpAgrees'
    BY <2>1 DEF BaseInv, PumpAgrees
  <2>5. ASSUME NEW e \in Delegations PROVE Life(e)'
    <3>1. Life(e)
      BY DEF BaseInv, Lives
    <3>2. RegistrationAgrees(e)' /\ WaitsOnce(e)'
      BY <2>1, <2>2, <3>1 DEF Life, RegistrationAgrees, WaitsOnce, Registering
    <3>3. TaskAgrees(e)'
      BY <2>1, <2>3, <3>1 DEF Life, TaskAgrees, Acting, is_terminal
    <3>4. QED BY <3>2, <3>3 DEF Life
  <2>6. QED BY <2>2, <2>4, <2>5 DEF Lives
<1>4. QED BY <1>1, <1>2, <1>3 DEF CleanStep

LEMMA OtherLife ==
  ASSUME BaseInv,
         \/ mark_session_finalizing \/ RetryFinalize \/ ResumeSession \/ ProcessEnds
         \/ SupervisorStep
         \/ WaitStep \/ wait_subagents \/ WaitGiveUp \/ CancelTurn
         \/ \E d \in Delegations : create_subagent(d)
         \/ UNCHANGED vars
  PROVE  PumpAgrees' /\ OnceEach(queue)' /\ Lives'
<1> USE DEF disk, creation, runner, tasks, watch, world, supervision
<1>1. CASE \/ mark_session_finalizing \/ RetryFinalize
           \/ WaitStep \/ wait_subagents \/ WaitGiveUp \/ UNCHANGED vars
  <2>1. Aside /\ UNCHANGED <<status, checkpoint>> /\ broken \subseteq broken'
    BY <1>1 DEF mark_session_finalizing, RetryFinalize, WaitStep, WaitChoose, WaitLook,
       WaitWake, wait_subagents, WaitGiveUp, vars, Aside, Faulty
  <2>2. QED BY <2>1, AsideLife
<1>2. CASE ResumeSession
  <2>1. Aside /\ UNCHANGED <<status, broken>> /\ \A e \in Delegations : checkpoint'[e] = "none"
    BY <1>2 DEF ResumeSession, Aside
  <2>2. QED BY <2>1, AsideLife
<1>3. CASE ProcessEnds
  <2>1. PumpAgrees' /\ OnceEach(queue)' /\ ToSet(queue') = {} /\ pump'.id = None
    BY <1>3, EmptyFacts DEF ProcessEnds, PumpAgrees, Idle
  <2>2. ASSUME NEW e \in Delegations PROVE Life(e)'
    <3>1. Life(e) /\ e # None
      BY NoneAssumption DEF BaseInv, Lives, Delegations
    <3>2. /\ reg'[e] = (IF reg[e] = "none" THEN "none" ELSE "done") /\ running' = {} /\ aborted' = {}
          /\ task'[e] = (IF task[e] \in Working THEN "ended" ELSE task[e])
          /\ result'[e] = "none" /\ checkpoint'[e] = "none" /\ UNCHANGED status /\ broken \subseteq broken'
          /\ task[e] \in {"none", "ended"} \cup Working
      BY <1>3 DEF ProcessEnds, Faulty, BaseInv, DTypeOK
    <3>3. RegistrationAgrees(e)'
      BY <3>1, <3>2 DEF Life, RegistrationAgrees, Registering
    <3>4. WaitsOnce(e)'
      BY <2>1, <3>1 DEF WaitsOnce
    <3>5. TaskAgrees(e)'
      BY <3>1, <3>2 DEF Life, TaskAgrees, Acting, Working
    <3>6. QED BY <3>3, <3>4, <3>5 DEF Life
  <2>3. QED BY <2>1, <2>2 DEF Lives
<1>4. CASE CancelTurn
  <2>1. UNCHANGED <<status, reg, queue, running, pump, task, result, checkpoint, aborted, broken>>
        /\ cancelled \subseteq cancelled' /\ lock \in cancelled'
    BY <1>4 DEF CancelTurn
  <2>2. PumpAgrees' /\ OnceEach(queue)'
    BY <2>1 DEF BaseInv, PumpAgrees
  <2>3. ASSUME NEW e \in Delegations PROVE Life(e)'
    <3>1. Life(e)
      BY DEF BaseInv, Lives
    <3>2. QED BY <2>1, <3>1
      DEF Life, RegistrationAgrees, WaitsOnce, TaskAgrees, Registering, Acting, is_terminal
  <2>4. QED BY <2>2, <2>3 DEF Lives
<1>5. ASSUME NEW d \in Delegations, create_subagent(d)
      PROVE  PumpAgrees' /\ OnceEach(queue)' /\ Lives'
  <2>1. UNCHANGED <<status, cancelled, queue, running, pump, task, result, checkpoint, aborted, broken>>
        /\ lock = None /\ lock' = d /\ reg[d] = "none" /\ reg' = [reg EXCEPT ![d] = "start"]
    BY <1>5 DEF create_subagent
  <2>2. PumpAgrees' /\ OnceEach(queue)'
    BY <2>1 DEF BaseInv, PumpAgrees
  <2>3. ASSUME NEW e \in Delegations PROVE Life(e)'
    <3>1. Life(e) /\ e # None
      BY NoneAssumption DEF BaseInv, Lives, Delegations
    <3>2. reg'[e] = (IF e = d THEN "start" ELSE reg[e])
      BY <2>1 DEF BaseInv, DTypeOK
    <3>3. QED BY <2>1, <3>1, <3>2
      DEF Life, RegistrationAgrees, WaitsOnce, TaskAgrees, Registering, Acting, is_terminal
  <2>4. QED BY <2>2, <2>3 DEF Lives
<1>6. CASE SupervisorStep
  <2>1. SupervisorMoves
    BY <1>6, SupervisorMovesSo DEF BaseInv
  <2>2. QED BY <2>1, AsideLife DEF SupervisorMoves, Aside
<1>7. QED BY <1>1, <1>2, <1>3, <1>4, <1>5, <1>6

LEMMA BaseNext == BaseInv /\ [Next]_vars => BaseInv'
<1>1. SUFFICES ASSUME BaseInv, [Next]_vars PROVE BaseInv'
  OBVIOUS
<1>2. /\ DTypeOK /\ PumpAgrees
      /\ pump.pc \in {"start", "mark"} => pump.id \in Delegations
      /\ \A d \in Delegations :
           task[d] \in {"complete", "panic"} => result[d] \in {"completed", "failed"}
  BY <1>1 DEF BaseInv, PumpAgrees, Lives, Life, TaskAgrees
<1>3. ASSUME NEW d \in Delegations, Register(d) PROVE BaseInv'
  BY <1>1, <1>2, <1>3, RegisterTypes, RegisterLife DEF BaseInv
<1>4. ASSUME NEW d \in Delegations, TaskStep(d) \/ AbortLands(d) PROVE BaseInv'
  BY <1>1, <1>2, <1>4, TaskTypes, TaskLife DEF BaseInv
<1>5. CASE pump_queue \/ PumpStep
  BY <1>1, <1>2, <1>5, PumpTypes, PumpMovesSo, PumpLife DEF BaseInv
<1>6. CASE CleanStep
  BY <1>1, <1>2, <1>6, CleanTypes, CleanLife DEF BaseInv
<1>7. CASE \/ mark_session_finalizing \/ RetryFinalize \/ ResumeSession \/ ProcessEnds
  BY <1>1, <1>2, <1>7, SessionTypes, OtherLife DEF BaseInv
<1>8. CASE \/ WaitStep \/ wait_subagents \/ WaitGiveUp \/ CancelTurn
           \/ \E d \in Delegations : create_subagent(d)
  BY <1>1, <1>2, <1>8, ToolTypes, OtherLife DEF BaseInv
<1>9. CASE UNCHANGED vars
  <2>1. DTypeOK'
    BY <1>2, <1>9 DEF vars, disk, creation, runner, tasks, watch, world, supervision, DTypeOK
  <2>2. QED BY <1>1, <1>9, <2>1, OtherLife DEF BaseInv
<1>10. CASE SupervisorStep
  BY <1>1, <1>2, <1>10, SupervisorTypes, OtherLife DEF BaseInv
<1>11. QED BY <1>1, <1>3, <1>4, <1>5, <1>6, <1>7, <1>8, <1>9, <1>10 DEF Next, Work

\* Every variable keeps its type, whatever is cancelled, cut or resumed.
THEOREM DelegationTypes == Spec => []DTypeOK
<1>1. BaseInv => DTypeOK
  BY DEF BaseInv
<1>2. QED BY InitLife, BaseNext, <1>1, PTL DEF Spec

\* What a subagent read counts as read only if it is on record as completed: a result
\* that could not be saved, a panic, an abort or a late answer to an abandoned delegation
\* never commits the checkpoint (run_one, finish_task).
THEOREM CommitsAreCompleted == Spec => []CommittedIsCompleted
<1>1. BaseInv => CommittedIsCompleted
  BY DEF BaseInv, Lives, Life, TaskAgrees, CommittedIsCompleted
<1>2. QED BY InitLife, BaseNext, <1>1, PTL DEF Spec

----------------------------------------------------------------------------
\* The session around its delegations

\* No tool call is between its check and its answer while the session closes or is
\* cleaned.
LockAgrees == sess # "open" \/ cleaner.pc # "idle" => lock = None

\* While pump_lock is held for an abandon, what is unfinished is on its list, or could not
\* be written; or it was half created when the list was made, which the abandon counts.
CleanAgrees ==
  cleaner.pc = "each" =>
    /\ pump.pc = "idle"
    /\ \A d \in Delegations :
         /\ status[d] \in Unfinished =>
              d \in cleaner.todo \/ d \in broken \/ (cleaner.failed /\ Registering(d))
         /\ reg[d] = "dir" => cleaner.failed

\* Nothing is half created any more, and what is unfinished is in S or could not be written.
Settled(S) ==
  \A d \in Delegations : reg[d] # "dir" /\ (status[d] \in Unfinished => d \in S \/ d \in broken)

\* finalize.lock keeps the strict abandon of the supervisor and that of the session's own
\* process apart; what the supervisor has listed is all there is.
RemoteAgrees ==
  /\ cleaner.pc = "close" => cleaner.kind = "hard"
  /\ remote.pc = "strict" =>
       /\ sess = "finalizing" /\ (cleaner.pc = "idle" \/ cleaner.kind # "hard")
       /\ Settled(remote.todo)

\* From the strict abandon that succeeded until the session is opened again.
DiskAgrees == sess = "closed" \/ cleaner.pc = "close" => Settled({})

\* The runner that was emptied stays empty.
Still == queue = <<>> /\ pump.id = None /\ \A d \in Delegations : ~Acting(d)
SweptAgrees == swept => sess # "open" /\ Still

SessionInv ==
  LockAgrees /\ CleanAgrees /\ RemoteAgrees /\ DiskAgrees /\ SweptAgrees /\ NoOrphans

\* The files stay settled as long as nothing half created appears and nothing becomes
\* unfinished again.
LEMMA SettledStays ==
  ASSUME NEW S, Settled(S), broken \subseteq broken',
         \A d \in Delegations :
           /\ reg'[d] = "dir" => reg[d] = "dir"
           /\ status'[d] \in Unfinished => status[d] \in Unfinished \/ d \in broken'
  PROVE  Settled(S)'
  BY DEF Settled

\* What a registration does to its delegation.
RegisterMoves(d) ==
  /\ UNCHANGED <<sess, running, pump, task, aborted, cancelled, cleaner, up, remote, swept>>
  /\ broken \subseteq broken' /\ lock' \in {lock, None}
  /\ \A e \in Delegations : e # d => status'[e] = status[e] /\ reg'[e] = reg[e]
  /\ Registering(d)
  /\ \/ /\ UNCHANGED queue /\ reg'[d] \in {"dir", "meta", "made", "undo"}
        /\ reg'[d] = "dir" => d \notin cancelled
        /\ status'[d] \in Unfinished => status[d] \in Unfinished \/ reg[d] = "dir"
     \/ UNCHANGED queue /\ reg'[d] = "done" /\ (status'[d] \notin Unfinished \/ d \in broken')
     \/ /\ queue' = Append(queue, d) /\ reg'[d] = "done" /\ d \notin cancelled
        /\ UNCHANGED status
  /\ is_terminal(d) => status'[d] \in {status[d], "none"}

LEMMA RegisterMovesSo ==
  ASSUME BaseInv, NEW d \in Delegations, Register(d)
  PROVE  RegisterMoves(d)
<1> USE DEF disk, creation, runner, tasks, watch, world, supervision
<1>1. RegistrationAgrees(d) /\ status \in [Delegations -> Statuses] /\ reg \in [Delegations -> Stages]
  BY DEF BaseInv, Lives, Life, DTypeOK, Statuses, Stages
<1> USE DEF RegisterMoves, Registering, RegistrationAgrees, Answered, is_terminal, Unfinished, Terminal
<1>2. CASE RegisterDir(d)
  BY <1>1, <1>2 DEF RegisterDir
<1>3. CASE RegisterMetadata(d)
  BY <1>1, <1>3 DEF RegisterMetadata
<1>4. CASE RegisterEvents(d)
  BY <1>1, <1>4 DEF RegisterEvents
<1>5. CASE RegisterFails(d)
  BY <1>1, <1>5 DEF RegisterFails, Fails, Faulty
<1>6. CASE RegisterPush(d)
  BY <1>1, <1>6 DEF RegisterPush
<1>7. CASE RegisterUndo(d)
  BY <1>1, <1>7 DEF RegisterUndo, Fails, Faulty, Abandoned
<1>8. QED BY <1>2, <1>3, <1>4, <1>5, <1>6, <1>7 DEF Register

LEMMA RegisterSession ==
  ASSUME BaseInv, SessionInv, NEW d \in Delegations, RegisterMoves(d)
  PROVE  SessionInv'
<1>0. /\ lock = d \/ d \in cancelled
      /\ None \notin Delegations
      /\ queue \in Seq(Delegations)
  BY NoneAssumption DEF BaseInv, Lives, Life, RegistrationAgrees, RegisterMoves, Delegations, DTypeOK
<1>1. LockAgrees'
  BY DEF SessionInv, LockAgrees, RegisterMoves
<1>2. lock = None => d \in cancelled
  BY <1>0
<1>3. CleanAgrees'
  <2>1. SUFFICES ASSUME cleaner.pc = "each" PROVE CleanAgrees'
    BY DEF CleanAgrees, RegisterMoves
  <2>2. d \in cancelled /\ pump.pc = "idle"
    BY <1>2, <2>1 DEF SessionInv, LockAgrees, CleanAgrees
  <2>3. \A e \in Delegations :
          /\ status[e] \in Unfinished =>
               e \in cleaner.todo \/ e \in broken \/ (cleaner.failed /\ Registering(e))
          /\ reg[e] = "dir" => cleaner.failed
    BY <2>1 DEF SessionInv, CleanAgrees
  <2>4. ASSUME NEW e \in Delegations, e # d
        PROVE  /\ status'[e] \in Unfinished =>
                    e \in cleaner.todo \/ e \in broken' \/ (cleaner.failed /\ Registering(e)')
               /\ reg'[e] = "dir" => cleaner.failed
    BY <2>3, <2>4 DEF RegisterMoves, Registering
  <2>5. /\ status'[d] \in Unfinished =>
             d \in cleaner.todo \/ d \in broken' \/ (cleaner.failed /\ Registering(d)')
        /\ reg'[d] = "dir" => cleaner.failed
    BY <2>2, <2>3 DEF RegisterMoves, Registering
  <2>6. QED BY <2>2, <2>4, <2>5 DEF CleanAgrees, RegisterMoves
<1>4. RemoteAgrees' /\ DiskAgrees' /\ SweptAgrees'
  <2>1. CASE sess = "open" /\ cleaner.pc = "idle"
    BY <2>1 DEF SessionInv, RemoteAgrees, DiskAgrees, SweptAgrees, RegisterMoves
  <2>2. CASE sess # "open" \/ cleaner.pc # "idle"
    <3>1. d \in cancelled
      BY <1>2, <2>2 DEF SessionInv, LockAgrees
    <3>2. /\ UNCHANGED <<queue, pump, task, aborted, sess, cleaner, remote, swept>>
          /\ broken \subseteq broken'
          /\ \A e \in Delegations : reg'[e] = "dir" => reg[e] = "dir"
      BY <3>1 DEF RegisterMoves
    <3>3. ASSUME NEW S, Settled(S) PROVE Settled(S)'
      <4>1. \A e \in Delegations :
              status'[e] \in Unfinished => status[e] \in Unfinished \/ e \in broken'
        BY <3>3 DEF RegisterMoves, Settled
      <4>2. QED BY <3>2, <3>3, <4>1, SettledStays
    <3>4. DiskAgrees' /\ RemoteAgrees'
      BY <3>2, <3>3 DEF SessionInv, DiskAgrees, RemoteAgrees, Settled
    <3>5. SweptAgrees'
      BY <3>2 DEF SessionInv, SweptAgrees, Still, Acting
    <3>6. QED BY <3>4, <3>5
  <2>3. QED BY <2>1, <2>2
<1>5. NoOrphans'
  <2>1. SUFFICES ASSUME up, cleaner.pc = "idle", NEW e \in Delegations, status'[e] \in Unfinished
                 PROVE  \/ Registering(e)' \/ e \in ToSet(queue') \/ pump'.id = e \/ Acting(e)'
                        \/ e \in broken'
    BY DEF NoOrphans, RegisterMoves
  <2>2. ToSet(queue) \subseteq ToSet(queue') /\ (queue' = Append(queue, d) => d \in ToSet(queue'))
    <3>1. ToSet(Append(queue, d)) = ToSet(queue) \cup {d}
      BY <1>0, AppendFacts
    <3>2. QED BY <3>1 DEF RegisterMoves
  <2>3. CASE e # d
    <3>1. \/ Registering(e) \/ e \in ToSet(queue) \/ pump.id = e \/ Acting(e) \/ e \in broken
      BY <2>1, <2>3 DEF SessionInv, NoOrphans, RegisterMoves
    <3>2. QED BY <2>2, <2>3, <3>1 DEF RegisterMoves, Registering, Acting
  <2>4. CASE e = d
    BY <2>1, <2>2, <2>4 DEF RegisterMoves, Registering
  <2>5. QED BY <2>3, <2>4
<1>6. QED BY <1>1, <1>3, <1>4, <1>5 DEF SessionInv

LEMMA PumpSession ==
  ASSUME BaseInv, SessionInv, pump_queue \/ PumpStep
  PROVE  SessionInv'
<1>0. PumpMoves /\ UNCHANGED <<sess, cleaner, up, remote, swept>>
  BY PumpMovesSo DEF BaseInv
<1>1. cleaner.pc # "each"
  BY DEF SessionInv, CleanAgrees, pump_queue, PumpStep, PumpNext, PumpStart, PumpStartFails,
     PumpMark, PumpLockFree
<1>2. UNCHANGED <<reg, lock, cancelled, aborted>> /\ broken \subseteq broken'
  BY <1>0 DEF PumpMoves, PumpAside
<1>3. LockAgrees' /\ CleanAgrees'
  BY <1>0, <1>1, <1>2 DEF SessionInv, LockAgrees, CleanAgrees
<1>4. RemoteAgrees' /\ DiskAgrees' /\ SweptAgrees'
  <2>1. \A e \in Delegations :
          status'[e] \in Unfinished => status[e] \in Unfinished \/ e \in broken'
    <3>1. status \in [Delegations -> Statuses]
      BY DEF BaseInv, DTypeOK, Statuses
    <3>2. pump.id \in Delegations => status[pump.id] \in Unfinished \cup Terminal
      BY DEF BaseInv, Lives, Life, WaitsOnce
    <3>3. QED BY <1>0, <3>1, <3>2 DEF PumpMoves, PumpAside, is_terminal, Unfinished, Terminal
  <2>2. \A S : Settled(S) => Settled(S)'
    BY <1>2, <2>1, SettledStays
  <2>3. RemoteAgrees' /\ DiskAgrees'
    BY <1>0, <2>2 DEF SessionInv, RemoteAgrees, DiskAgrees, Settled
  <2>4. SweptAgrees'
    <3>1. SUFFICES ASSUME swept PROVE Still'
      BY <1>0 DEF SessionInv, SweptAgrees
    <3>2. Still
      BY <3>1 DEF SessionInv, SweptAgrees
    <3>3. PumpAside /\ pump'.id = None
      BY <1>0, <3>2, NoneAssumption DEF PumpMoves, Still, Delegations
    <3>4. QED BY <3>2, <3>3 DEF PumpAside, Still, Acting
  <2>5. QED BY <2>3, <2>4
<1>5. NoOrphans'
  <2>1. SUFFICES ASSUME up, cleaner.pc = "idle", NEW e \in Delegations, status'[e] \in Unfinished
                 PROVE  \/ Registering(e)' \/ e \in ToSet(queue') \/ pump'.id = e \/ Acting(e)'
                        \/ e \in broken'
    BY <1>0 DEF NoOrphans
  <2>2. /\ queue \in Seq(Delegations) /\ status \in [Delegations -> Statuses]
        /\ task \in [Delegations -> {"none", "ended"} \cup Working] /\ Life(e) /\ e # None
    BY NoneAssumption DEF BaseInv, Lives, DTypeOK, Statuses, Delegations
  <2>3. status[e] \in Unfinished =>
          \/ Registering(e) \/ e \in ToSet(queue) \/ pump.id = e \/ Acting(e) \/ e \in broken
    BY <2>1 DEF SessionInv, NoOrphans
  <2>4. CASE e # pump.id
    <3>1. status'[e] = status[e] /\ task'[e] = task[e]
      BY <1>0, <2>2, <2>4 DEF PumpMoves, PumpAside
    <3>2. e \in ToSet(queue) => e \in ToSet(queue') \/ pump'.id = e
      <4>1. queue # <<>> => ToSet(queue) = ToSet(Tail(queue)) \cup {Head(queue)}
        BY <2>2, TailFacts
      <4>2. queue' = queue \/ (queue # <<>> /\ queue' = Tail(queue) /\ pump'.id = Head(queue))
        BY <1>0 DEF PumpMoves, PumpAside
      <4>3. QED BY <4>1, <4>2
    <3>3. QED BY <1>2, <2>1, <2>3, <2>4, <3>1, <3>2 DEF Registering, Acting
  <2>5. CASE e = pump.id
    <3>1. e \notin aborted
      BY <2>2, <2>5 DEF Life, WaitsOnce, TaskAgrees
    <3>2. e \notin broken' =>
            \/ status'[e] \in Terminal
            \/ task'[e] = "begin"
      <4>1. status[e] \in Unfinished \cup Terminal
        BY <2>2, <2>5 DEF Life, WaitsOnce
      <4>2. QED BY <1>0, <2>2, <2>5, <4>1 DEF PumpMoves, is_terminal, Terminal
    <3>3. status'[e] \notin Terminal
      BY <2>1 DEF Unfinished, Terminal
    <3>4. QED BY <1>2, <3>1, <3>2, <3>3 DEF Acting, Working
  <2>6. QED BY <2>4, <2>5
<1>6. QED BY <1>3, <1>4, <1>5 DEF SessionInv

LEMMA TaskSession ==
  ASSUME BaseInv, SessionInv, NEW d \in Delegations, TaskStep(d) \/ AbortLands(d)
  PROVE  SessionInv'
<1>0. TaskMoves(d) /\ (task'[d] = "ended" => d \in aborted \/ TaskAt(d, "release"))
  BY TaskMovesSo
<1>1. /\ UNCHANGED <<sess, reg, lock, cancelled, queue, pump, cleaner, up, remote, swept>>
      /\ broken \subseteq broken'
      /\ \A e \in Delegations : /\ status'[e] \in Unfinished => status'[e] = status[e]
                                /\ Acting(e)' => Acting(e)
  BY <1>0 DEF TaskMoves, Acting, Working, Unfinished, Terminal
<1>2. LockAgrees'
  BY <1>1 DEF SessionInv, LockAgrees
<1>3. CleanAgrees'
  BY <1>1 DEF SessionInv, CleanAgrees, Registering
<1>4. RemoteAgrees' /\ DiskAgrees' /\ SweptAgrees'
  <2>1. \A S : Settled(S) => Settled(S)'
    BY <1>1, SettledStays
  <2>2. QED BY <1>1, <2>1 DEF SessionInv, RemoteAgrees, DiskAgrees, SweptAgrees, Settled, Still
<1>5. NoOrphans'
  <2>1. SUFFICES ASSUME up, cleaner.pc = "idle", NEW e \in Delegations, status'[e] \in Unfinished
                 PROVE  \/ Registering(e)' \/ e \in ToSet(queue') \/ pump'.id = e \/ Acting(e)'
                        \/ e \in broken'
    BY <1>1 DEF NoOrphans
  <2>2. status'[e] = status[e]
    BY <1>1, <2>1
  <2>3. \/ Registering(e) \/ e \in ToSet(queue) \/ pump.id = e \/ Acting(e) \/ e \in broken
    BY <2>1, <2>2 DEF SessionInv, NoOrphans
  <2>4. ASSUME Acting(e) PROVE Acting(e)' \/ e \in broken'
    <3>1. CASE e # d
      BY <1>0, <2>4, <3>1 DEF TaskMoves, Acting
    <3>2. CASE e = d /\ task'[d] \in Working
      BY <1>0, <2>4, <3>2 DEF TaskMoves, Acting, Working
    <3>3. CASE e = d /\ task'[d] = "ended"
      <4>1. task[d] = "release"
        BY <1>0, <2>4, <3>3 DEF Acting, TaskAt
      <4>2. is_terminal(d) \/ d \in broken
        BY <4>1 DEF BaseInv, Lives, Life, TaskAgrees
      <4>3. QED BY <1>1, <2>1, <2>2, <3>3, <4>2 DEF is_terminal, Unfinished, Terminal
    <3>4. QED BY <1>0, <3>1, <3>2, <3>3 DEF TaskMoves
  <2>5. QED BY <1>1, <2>3, <2>4 DEF Registering
<1>6. QED BY <1>2, <1>3, <1>4, <1>5 DEF SessionInv

LEMMA CleanSession ==
  ASSUME BaseInv, SessionInv, CleanStep
  PROVE  SessionInv'
<1> USE DEF disk, creation, runner, tasks, watch, world, supervision
<1>0. /\ status \in [Delegations -> Statuses] /\ queue \in Seq(Delegations)
      /\ cleaner \in Cleaners
  BY DEF BaseInv, DTypeOK, Statuses, Cleaners
<1>1. /\ cleaner.pc # "idle" /\ lock = None
      /\ UNCHANGED <<lock, reg, cancelled, pump, up, remote>> /\ broken \subseteq broken'
  BY DEF CleanStep, AbandonList, AbandonEnd, CloseSession, AbandonOne, Fails, Faulty, SessionInv, LockAgrees
<1>2. LockAgrees'
  BY <1>1 DEF LockAgrees
<1>3. ASSUME \A e \in Delegations :
               status'[e] \in Unfinished => status[e] \in Unfinished \/ e \in broken'
      PROVE  \A S : Settled(S) => Settled(S)'
  BY <1>1, <1>3, SettledStays
<1>4. CASE AbandonList
  <2>1. /\ cleaner.pc = "wait" /\ cleaner'.pc = "each" /\ pump.pc = "idle"
        /\ cleaner'.kind = cleaner.kind
        /\ UNCHANGED <<status, sess, queue, running, task, aborted, swept>>
    BY <1>0, <1>4 DEF AbandonList, Cleaners
  <2>2. /\ \A d \in Delegations : reg[d] = "dir" => status[d] = "dir"
        /\ \/ cleaner'.todo = Active /\ cleaner'.failed = HalfMade
           \/ cleaner'.failed = TRUE /\ broken' = broken \cup Active
    BY <1>0, <1>4 DEF AbandonList, Faulty, Cleaners, BaseInv, Lives, Life, RegistrationAgrees
  <2>3. CleanAgrees'
    BY <1>1, <2>1, <2>2 DEF CleanAgrees, Active, HalfMade
  <2>4. RemoteAgrees' /\ DiskAgrees'
    BY <1>1, <1>3, <2>1 DEF SessionInv, RemoteAgrees, DiskAgrees, Settled
  <2>5. SweptAgrees' /\ NoOrphans'
    BY <1>1, <2>1 DEF SessionInv, SweptAgrees, Still, Acting, NoOrphans
  <2>6. QED BY <1>2, <2>3, <2>4, <2>5 DEF SessionInv
<1>5. ASSUME NEW d \in Delegations, AbandonOne(d) PROVE SessionInv'
  <2>1. /\ cleaner.pc = "each" /\ cleaner'.pc = "each" /\ cleaner'.todo = cleaner.todo \ {d}
        /\ cleaner.failed => cleaner'.failed
        /\ cleaner'.kind = cleaner.kind
        /\ UNCHANGED <<sess, queue, running, task, aborted, swept>>
    BY <1>0, <1>5 DEF AbandonOne, Cleaners, Fails, Faulty
  <2>2. /\ \A e \in Delegations : status'[e] \in Unfinished => status[e] \in Unfinished
        /\ status'[d] \in Unfinished => d \in broken'
    BY <1>0, <1>5 DEF AbandonOne, Abandoned, Fails, Faulty, Unfinished
  <2>3. CleanAgrees'
    BY <1>1, <2>1, <2>2 DEF SessionInv, CleanAgrees, Registering
  <2>4. RemoteAgrees' /\ DiskAgrees'
    BY <1>1, <1>3, <2>1, <2>2 DEF SessionInv, RemoteAgrees, DiskAgrees, Settled
  <2>5. SweptAgrees' /\ NoOrphans'
    BY <1>1, <2>1, <2>2 DEF SessionInv, SweptAgrees, Still, Acting, NoOrphans
  <2>6. QED BY <1>2, <2>3, <2>4, <2>5 DEF SessionInv
<1>6. CASE AbandonEnd
  <2>1. /\ cleaner.pc = "each" /\ cleaner.todo = {} /\ UNCHANGED <<status, sess, task, broken>>
        /\ cleaner'.pc \in {"idle", "close"}
        /\ cleaner'.pc = "close" => /\ cleaner.kind = "hard" /\ cleaner'.kind = "hard"
                                    /\ ~cleaner.failed
    BY <1>6 DEF AbandonEnd, NoCleaner
  <2>2. /\ pump.pc = "idle" /\ pump.id = None
        /\ \A d \in Delegations :
             /\ status[d] \in Unfinished => d \in broken \/ (cleaner.failed /\ Registering(d))
             /\ reg[d] = "dir" => cleaner.failed
    BY <2>1 DEF SessionInv, CleanAgrees, BaseInv, PumpAgrees
  <2>3. /\ aborted \subseteq aborted'
        /\ ~HardFailed => aborted' = aborted \cup running /\ queue' = <<>>
        /\ swept' => sess # "open" /\ (swept \/ ~HardFailed)
    BY <1>6 DEF AbandonEnd, AbortAll, PruneTerminal
  <2>4. DiskAgrees'
    <3>1. CASE cleaner'.pc = "close"
      BY <1>1, <2>1, <2>2, <3>1 DEF DiskAgrees, Settled
    <3>2. CASE cleaner'.pc # "close"
      BY <1>1, <1>3, <2>1, <3>2 DEF SessionInv, DiskAgrees
    <3>3. QED BY <3>1, <3>2
  <2>5. RemoteAgrees'
    BY <1>1, <1>3, <2>1 DEF SessionInv, RemoteAgrees, Settled
  <2>6. ASSUME ~HardFailed PROVE Still'
    <3>1. \A d \in Delegations : Acting(d) => d \in running
      BY DEF BaseInv, Lives, Life, TaskAgrees
    <3>2. QED BY <1>1, <2>1, <2>2, <2>3, <2>6, <3>1 DEF Still, Acting
  <2>7. ASSUME swept PROVE Still'
    <3>1. Still
      BY <2>7 DEF SessionInv, SweptAgrees
    <3>2. queue' = <<>>
      <4>1. queue' = <<>> \/ queue' = Retained(queue, {d \in Delegations : ~is_terminal(d)})
        BY <1>6 DEF AbandonEnd, AbortAll, PruneTerminal
      <4>2. \A U : Retained(queue, U) \in Seq(Delegations) /\ ToSet(Retained(queue, U)) = {}
        <5>1. ToSet(queue) = {}
          BY <3>1, EmptyFacts DEF Still
        <5>2. QED BY <1>0, <5>1, RetainedFacts
      <4>3. \A q \in Seq(Delegations) : ToSet(q) = {} => q = <<>>
        <5>1. ASSUME NEW q \in Seq(Delegations), q # <<>> PROVE Head(q) \in ToSet(q)
          BY <5>1, TailFacts
        <5>2. QED BY <5>1
      <4>4. QED BY <4>1, <4>2, <4>3
    <3>3. QED BY <1>1, <2>1, <2>3, <3>1, <3>2 DEF Still, Acting
  <2>8. SweptAgrees'
    BY <2>1, <2>3, <2>6, <2>7 DEF SweptAgrees
  <2>9. NoOrphans'
    BY <1>1, <2>1, <2>2 DEF NoOrphans, Registering
  <2>10. CleanAgrees'
    BY <2>1 DEF CleanAgrees
  <2>11. QED BY <1>2, <2>4, <2>5, <2>8, <2>9, <2>10 DEF SessionInv
<1>7. CASE CloseSession
  <2>1. /\ cleaner.pc = "close" /\ cleaner'.pc \in {"wait", "idle"} /\ sess' \in {sess, "closed"}
        /\ UNCHANGED <<status, queue, running, task, aborted, broken, swept>>
    <3>1. Clean("soft").pc = "wait" /\ NoCleaner.pc = "idle"
      BY DEF Clean, NoCleaner
    <3>2. QED BY <1>7, <3>1 DEF CloseSession
  <2>2. Settled({}) /\ remote.pc # "strict"
    BY <2>1 DEF SessionInv, DiskAgrees, RemoteAgrees
  <2>3. Settled({})'
    BY <1>3, <2>1, <2>2
  <2>4. CleanAgrees' /\ RemoteAgrees' /\ DiskAgrees'
    BY <1>1, <2>1, <2>2, <2>3 DEF CleanAgrees, RemoteAgrees, DiskAgrees
  <2>5. SweptAgrees' /\ NoOrphans'
    BY <1>1, <2>1, <2>2 DEF SessionInv, SweptAgrees, Still, Acting, NoOrphans, Settled
  <2>6. QED BY <1>2, <2>4, <2>5 DEF SessionInv
<1>8. QED BY <1>4, <1>5, <1>6, <1>7 DEF CleanStep

\* The supervisor closes a session only with its list worked off, and a resume keeps out of
\* its way while it is at it.
LEMMA SupervisorSession ==
  ASSUME BaseInv, SessionInv, SupervisorStep
  PROVE  SessionInv'
<1> USE DEF disk, creation, runner, tasks, watch
<1>0. SupervisorMoves /\ remote \in Remotes /\ status \in [Delegations -> Statuses]
  BY SupervisorMovesSo DEF BaseInv, DTypeOK, Remotes, Statuses
<1>1. /\ UNCHANGED <<lock, cancelled, reg, queue, running, pump, task, aborted, cleaner, up,
                     broken, swept>>
      /\ \A e \in Delegations : status'[e] \in Unfinished => status[e] \in Unfinished
  BY <1>0 DEF SupervisorMoves, Unfinished
<1>2. sess' = sess \/ (sess' = "closed" /\ SupervisorClose)
  BY DEF SupervisorStep, SupervisorFinalize, SupervisorAbandon, SupervisorClose, SupervisorStops
<1>3. \A S : Settled(S) => Settled(S)'
  BY <1>1, SettledStays
<1>4. ASSUME SupervisorClose PROVE sess = "finalizing" /\ Settled({}) /\ remote'.pc = "soft"
  BY <1>4 DEF SupervisorClose, NoRemote, SessionInv, RemoteAgrees, Settled
<1>5. CleanAgrees'
  BY <1>1 DEF SessionInv, CleanAgrees, Registering
<1>6. LockAgrees' /\ SweptAgrees' /\ NoOrphans'
  BY <1>1, <1>2, <1>4
  DEF SessionInv, LockAgrees, SweptAgrees, Still, NoOrphans, Acting, Registering
<1>7. DiskAgrees'
  BY <1>1, <1>2, <1>3, <1>4 DEF SessionInv, DiskAgrees
<1>8. RemoteAgrees'
  <2>1. CASE remote'.pc # "strict"
    BY <1>1, <2>1 DEF SessionInv, RemoteAgrees
  <2>2. CASE remote'.pc = "strict" /\ remote.pc # "strict"
    <3>1. /\ SupervisorFinalize /\ ~HalfMade /\ remote'.todo = Active
          /\ sess = "finalizing" /\ UNCHANGED <<sess, status>>
          /\ cleaner.pc = "idle" \/ cleaner.kind = "mark"
      BY <1>0, <2>2 DEF SupervisorStep, SupervisorFinalize, SupervisorAbandon, SupervisorClose,
         SupervisorStops, NoRemote, Remotes, FinalizeLockFree
    <3>2. Settled(Active)
      BY <3>1 DEF Settled, Active, HalfMade, BaseInv, Lives, Life, RegistrationAgrees
    <3>3. QED BY <1>1, <1>3, <3>1, <3>2 DEF SessionInv, RemoteAgrees, Settled
  <2>3. CASE remote'.pc = "strict" /\ remote.pc = "strict"
    <3>1. PICK d \in Delegations : SupervisorAbandon(d)
      BY <2>3 DEF SupervisorStep, SupervisorFinalize, SupervisorClose, SupervisorStops, NoRemote,
         FinalizeLockFree
    <3>2. remote'.todo = remote.todo \ {d} /\ UNCHANGED sess /\ status'[d] \notin Unfinished
      BY <1>0, <3>1 DEF SupervisorAbandon, Abandoned, Remotes, Unfinished
    <3>3. Settled(remote.todo)
      BY <2>3 DEF SessionInv, RemoteAgrees
    <3>4. ASSUME NEW S, S = remote.todo \ {d} PROVE Settled(S)'
      BY <1>1, <3>2, <3>3, <3>4 DEF Settled
    <3>5. QED BY <1>1, <2>3, <3>2, <3>4 DEF SessionInv, RemoteAgrees, Settled
  <2>4. QED BY <2>1, <2>2, <2>3
<1>9. QED BY <1>5, <1>6, <1>7, <1>8 DEF SessionInv

LEMMA OtherSession ==
  ASSUME BaseInv, SessionInv,
         \/ mark_session_finalizing \/ RetryFinalize \/ ResumeSession \/ ProcessEnds
         \/ WaitStep \/ wait_subagents \/ WaitGiveUp \/ CancelTurn
         \/ \E d \in Delegations : create_subagent(d)
         \/ UNCHANGED vars
  PROVE  SessionInv'
<1> USE DEF disk, creation, runner, tasks, watch, world, supervision
<1>0. \A S : /\ UNCHANGED <<status, reg>> /\ broken \subseteq broken' => (Settled(S) => Settled(S)')
  BY SettledStays
<1>1. CASE mark_session_finalizing
  <2>1. /\ sess = "open" /\ sess' = "finalizing" /\ lock = None /\ cleaner.pc = "idle"
        /\ cleaner'.pc \in {"wait", "idle"} /\ broken \subseteq broken'
        /\ UNCHANGED <<status, lock, reg, queue, running, pump, task, aborted, up, remote, swept>>
    BY <1>1 DEF mark_session_finalizing, Clean, NoCleaner, Faulty
  <2>2. RemoteAgrees' /\ DiskAgrees' /\ SweptAgrees'
    BY <2>1 DEF SessionInv, RemoteAgrees, DiskAgrees, SweptAgrees
  <2>3. LockAgrees' /\ CleanAgrees' /\ NoOrphans'
    BY <2>1 DEF SessionInv, LockAgrees, CleanAgrees, NoOrphans, Registering, Acting
  <2>4. QED BY <2>2, <2>3 DEF SessionInv
<1>2. CASE RetryFinalize
  <2>1. /\ sess = "finalizing" /\ cleaner.pc = "idle" /\ cleaner'.pc = "wait"
        /\ remote.pc = "idle"
        /\ UNCHANGED <<status, sess, lock, reg, queue, running, pump, task, aborted, up, remote,
                       swept, broken>>
    BY <1>2 DEF RetryFinalize, FinalizeLockFree, Clean, NoCleaner
  <2>2. QED BY <2>1 DEF SessionInv, LockAgrees, CleanAgrees, RemoteAgrees, DiskAgrees, SweptAgrees,
       Still, NoOrphans, Acting
<1>3. CASE ResumeSession
  <2>1. /\ sess' = "open" /\ lock' = None /\ cleaner'.pc = "wait" /\ swept' = FALSE
        /\ remote.pc = "strict" => sess # "finalizing"
        /\ UNCHANGED remote
    BY <1>3 DEF ResumeSession, Clean, NoCleaner
  <2>2. QED BY <2>1 DEF SessionInv, LockAgrees, CleanAgrees, RemoteAgrees, DiskAgrees, SweptAgrees,
       NoOrphans
<1>4. CASE ProcessEnds
  <2>1. /\ lock' = None /\ ~up' /\ cleaner'.pc = "idle" /\ queue' = <<>> /\ pump'.id = None
        /\ UNCHANGED <<status, sess, remote>> /\ broken \subseteq broken'
        /\ swept' => sess # "open"
        /\ \A d \in Delegations : reg'[d] # "dir" /\ task'[d] \notin Working
    BY <1>4 DEF ProcessEnds, NoCleaner, Idle, Working, Faulty
  <2>2. \A S : Settled(S) => Settled(S)'
    BY <2>1, SettledStays
  <2>3. RemoteAgrees' /\ DiskAgrees'
    BY <2>1, <2>2 DEF SessionInv, RemoteAgrees, DiskAgrees, Settled
  <2>4. QED BY <2>1, <2>3
        DEF SessionInv, LockAgrees, CleanAgrees, SweptAgrees, Still, Acting, NoOrphans
<1>5. CASE WaitStep \/ wait_subagents \/ WaitGiveUp \/ UNCHANGED vars
  <2>1. UNCHANGED <<status, sess, lock, cancelled, reg, queue, running, pump, task, aborted, cleaner,
                    up, broken, remote, swept>>
    BY <1>5 DEF WaitStep, WaitChoose, WaitLook, WaitWake, wait_subagents, WaitGiveUp, vars
  <2>2. QED BY <2>1 DEF SessionInv, LockAgrees, CleanAgrees, RemoteAgrees, DiskAgrees, Settled,
       SweptAgrees, Still, NoOrphans, Registering, Acting
<1>6. CASE CancelTurn \/ \E d \in Delegations : create_subagent(d)
  <2>1. /\ cleaner.pc = "idle" /\ sess = "open"
        /\ UNCHANGED <<status, sess, queue, running, pump, task, aborted, cleaner, up, broken, remote,
                       swept>>
        /\ \A e \in Delegations : Registering(e) => Registering(e)'
    BY <1>6 DEF CancelTurn, create_subagent, SessionInv, LockAgrees, BaseInv, DTypeOK, Registering
  <2>2. QED BY <2>1 DEF SessionInv, LockAgrees, CleanAgrees, RemoteAgrees, DiskAgrees, SweptAgrees,
       NoOrphans, Acting
<1>7. QED BY <1>1, <1>2, <1>3, <1>4, <1>5, <1>6

LEMMA InitSession == Init => SessionInv
<1>1. SUFFICES ASSUME Init PROVE SessionInv
  OBVIOUS
<1>2. \A d \in Delegations : status[d] \notin Unfinished
  BY <1>1 DEF Init, Unfinished
<1>3. QED BY <1>1, <1>2 DEF Init, NoCleaner, NoRemote, SessionInv, LockAgrees, CleanAgrees,
      RemoteAgrees, DiskAgrees, SweptAgrees, NoOrphans

LEMMA SessionNext == BaseInv /\ SessionInv /\ [Next]_vars => SessionInv'
  BY RegisterMovesSo, RegisterSession, PumpSession, TaskSession, CleanSession, SupervisorSession,
     OtherSession
  DEF Next, Work

\* Nobody waits for a subagent nobody runs, whatever is cancelled, cut, closed or resumed
\* while it is created, started or run (create_until_registered, pump_queue,
\* abandon_unfinished_for_session).
THEOREM EverySubagentIsRun == Spec => []NoOrphans
<1>1. SessionInv => NoOrphans
  BY DEF SessionInv
<1>2. QED BY InitLife, BaseNext, InitSession, SessionNext, <1>1, PTL DEF Spec

\* No subagent outlives its session: whoever closed it, only what a store operation failed
\* on is left unfinished in a closed session, and once the session's own process has
\* emptied its runner or ended, nothing is queued or acts (mark_session_finalizing before
\* abandon_session_delegations, abort_all_in_memory).  No switch is assumed: the supervisor
\* may finalize at any time, and a resume may overtake the end of what it does.
THEOREM ClosedSessionsAreQuiet == Spec => []ClosedIsQuiet
<1>1. SessionInv => ClosedIsQuiet
  BY DEF SessionInv, DiskAgrees, Settled, SweptAgrees, Still, ClosedIsQuiet
<1>2. QED BY InitLife, BaseNext, InitSession, SessionNext, <1>1, PTL DEF Spec

\* A terminal status is final: neither a late result, nor a start, nor an abandon
\* replaces it (store.rs complete, start, abandon).
THEOREM TerminalStatusesStand == Spec => TerminalIsFinal
<1> DEFINE Stands == \A d \in Delegations : is_terminal(d) => status'[d] \in {status[d], "none"}
<1>1. ASSUME BaseInv, [Next]_vars PROVE Stands
  <2> USE DEF disk, creation, runner, tasks, watch, world, supervision
  <2>0. status \in [Delegations -> Statuses]
    BY <1>1 DEF BaseInv, DTypeOK, Statuses
  <2>1. ASSUME NEW d \in Delegations, Register(d) PROVE Stands
    BY <1>1, <2>1, RegisterMovesSo DEF RegisterMoves
  <2>2. ASSUME NEW d \in Delegations, TaskStep(d) \/ AbortLands(d) PROVE Stands
    BY <1>1, <2>2, TaskMovesSo DEF TaskMoves, is_terminal, Unfinished, Terminal
  <2>3. CASE pump_queue \/ PumpStep
    BY <1>1, <2>0, <2>3, PumpMovesSo DEF BaseInv, PumpMoves, PumpAside
  <2>4. CASE CleanStep
    BY <2>0, <2>4 DEF CleanStep, AbandonList, AbandonEnd, CloseSession, AbandonOne, Abandoned,
       is_terminal, Unfinished, Terminal
  <2>5. CASE \/ mark_session_finalizing \/ RetryFinalize \/ ResumeSession \/ ProcessEnds
             \/ WaitStep \/ wait_subagents \/ WaitGiveUp \/ CancelTurn
             \/ (\E d \in Delegations : create_subagent(d)) \/ UNCHANGED vars
    BY <2>5 DEF mark_session_finalizing, RetryFinalize, ResumeSession, ProcessEnds, WaitStep, WaitChoose,
       WaitLook, WaitWake, wait_subagents, WaitGiveUp, CancelTurn, create_subagent, vars
  <2>6. CASE SupervisorStep
    BY <1>1, <2>6, SupervisorMovesSo DEF BaseInv, SupervisorMoves, is_terminal, Unfinished, Terminal
  <2>7. QED BY <1>1, <2>1, <2>2, <2>3, <2>4, <2>5, <2>6 DEF Next, Work
<1>2. BaseInv /\ [Next]_vars => [Stands]_vars
  BY <1>1
<1>3. QED BY InitLife, BaseNext, <1>2, PTL DEF Spec, TerminalIsFinal

----------------------------------------------------------------------------
\* The slots

\* The handles the runner counts, with room for the candidate of the pump.
SlotsAgree ==
  /\ Cardinality(running) <= MaxConcurrent
  /\ pump.pc \in {"start", "mark"} => Cardinality(running) < MaxConcurrent

LEMMA Counted ==
  ASSUME NEW S \in SUBSET Delegations, NEW T \in SUBSET S
  PROVE  /\ IsFiniteSet(S) /\ Cardinality(S) \in Nat /\ Cardinality(T) \in Nat
         /\ Cardinality(T) <= Cardinality(S)
<1>1. IsFiniteSet(Delegations)
  BY BoundAssumption, FS_Interval DEF Delegations
<1>2. IsFiniteSet(S)
  BY <1>1, FS_Subset
<1>3. QED BY <1>2, FS_Subset, FS_CardinalityType

LEMMA SlotsNext == BaseInv /\ SlotsAgree /\ [Next]_vars => SlotsAgree'
<1>1. SUFFICES ASSUME BaseInv, SlotsAgree, [Next]_vars PROVE SlotsAgree'
  OBVIOUS
<1>2. running \in SUBSET Delegations
  BY <1>1 DEF BaseInv, DTypeOK
<1>3. ASSUME running' \subseteq running, pump'.pc \in {"start", "mark"} => pump.pc \in {"start", "mark"}
      PROVE  SlotsAgree'
  BY <1>1, <1>2, <1>3, Counted, ConcurrencyAssumption DEF SlotsAgree
<1>4. CASE pump_queue \/ PumpStep
  <2>1. PumpMoves
    BY <1>1, <1>4, PumpMovesSo DEF BaseInv
  <2>2. CASE running' \subseteq running
    BY <1>1, <1>2, <1>3, <2>1, <2>2, Counted, ConcurrencyAssumption DEF PumpMoves, SlotsAgree
  <2>3. CASE ~(running' \subseteq running)
    <3>1. /\ pump.pc = "start" /\ pump'.pc = "loop" /\ running' = running \cup {pump.id}
      BY <2>1, <2>3 DEF PumpMoves
    <3>2. IsFiniteSet(running) /\ Cardinality(running) \in Nat
      BY <1>2, Counted
    <3>3. Cardinality(running') \in {Cardinality(running), Cardinality(running) + 1}
      <4>1. CASE pump.id \in running
        <5>1. running' = running
          BY <3>1, <4>1
        <5>2. QED BY <5>1
      <4>2. CASE pump.id \notin running
        BY <3>1, <3>2, <4>2, FS_AddElement
      <4>3. QED BY <4>1, <4>2
    <3>4. Cardinality(running') \in Nat /\ Cardinality(running') <= Cardinality(running) + 1
      BY <3>2, <3>3
    <3>5. QED BY <1>1, <3>1, <3>2, <3>3, <3>4, ConcurrencyAssumption DEF SlotsAgree
  <2>4. QED BY <2>2, <2>3
<1>5. CASE \E d \in Delegations : TaskStep(d) \/ AbortLands(d)
  BY <1>1, <1>3, <1>5, TaskMovesSo DEF TaskMoves
<1>6. CASE \E d \in Delegations : Register(d)
  BY <1>1, <1>3, <1>6, RegisterMovesSo DEF RegisterMoves
<1>7. CASE \/ CleanStep \/ mark_session_finalizing \/ RetryFinalize \/ ResumeSession \/ ProcessEnds
           \/ WaitStep \/ wait_subagents \/ WaitGiveUp \/ CancelTurn
           \/ (\E d \in Delegations : create_subagent(d)) \/ UNCHANGED vars
  <2>1. running' \subseteq running /\ (UNCHANGED pump \/ pump' = Idle)
    BY <1>7 DEF CleanStep, AbandonList, AbandonEnd, AbortAll, PruneTerminal, CloseSession, AbandonOne,
       mark_session_finalizing, RetryFinalize, ResumeSession, ProcessEnds, WaitStep, WaitChoose, WaitLook,
       WaitWake, wait_subagents, WaitGiveUp, CancelTurn, create_subagent, vars, disk, creation,
       runner, tasks, watch, world, supervision
  <2>2. QED BY <1>3, <2>1 DEF Idle
<1>8. CASE SupervisorStep
  BY <1>1, <1>3, <1>8, SupervisorMovesSo DEF BaseInv, SupervisorMoves
<1>9. QED BY <1>1, <1>4, <1>5, <1>6, <1>7, <1>8 DEF Next, Work

\* At most max_concurrent subagents act at any time: the handles pump_queue counts include
\* every task that was not aborted.
THEOREM SlotsAreRespected == Spec => []SlotsRespected
<1>1. Init => SlotsAgree
  <2>1. Cardinality({}) = 0
    BY FS_EmptySet
  <2>2. QED BY <2>1, ConcurrencyAssumption DEF Init, SlotsAgree, Idle
<1>2. BaseInv /\ SlotsAgree => SlotsRespected
  <2>1. SUFFICES ASSUME BaseInv, SlotsAgree PROVE SlotsRespected
    OBVIOUS
  <2>2. running \in SUBSET Delegations /\ {d \in Delegations : Acting(d)} \in SUBSET running
    BY <2>1 DEF BaseInv, DTypeOK, Lives, Life, TaskAgrees
  <2>3. QED BY <2>1, <2>2, Counted, ConcurrencyAssumption DEF SlotsAgree, SlotsRespected
<1>3. QED BY InitLife, BaseNext, SlotsNext, <1>1, <1>2, PTL DEF Spec
=============================================================================
