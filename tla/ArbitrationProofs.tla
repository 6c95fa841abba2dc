-------------------------- MODULE ArbitrationProofs --------------------------
(***************************************************************************)
(* What Arbitration promises of the decision and its delivery, for any     *)
(* number of holders, workers, analyses, resolutions and faults.           *)
(***************************************************************************)
EXTENDS Arbitration, TLAPS

\* The resolutions that are on the disk or in the hands of an operation or an event,
\* each of which may still be written anywhere.
Sources == pending \cup {r \in {record, decided, ev.r} : r # None}
                   \cup (IF op = None THEN {} ELSE {op.r})

\* A replacement exists only for the automatic decision it names, is unique, and is
\* backed by a pending delivery until it is the decision.
IReplacement ==
  /\ \A r \in Sources : r.over # 0 =>
       /\ r.by = Human /\ r.over < r.n /\ decided # None
       /\ \/ decided = r
          \/ /\ decided.by = Automatic /\ decided.n = r.over
             /\ r \in pending \/ (op # None /\ r = op.r /\ "persist" \in op.todo)
  /\ \A r1, r2 \in Sources : r1.over # 0 /\ r2.over # 0 => r1 = r2

\* The operation under way: it may still commit only what the decision allows, and
\* what it has written so far is there.
IOperation ==
  op # None =>
    /\ IF "dispute" \in op.todo
         THEN decided = None \/ op.r.over # 0
         ELSE decided = op.r
    /\ {"record", "dispute"} \cap op.todo # {} /\ "persist" \notin op.todo
         => op.r \in pending \/ op.r = decided
    /\ "dispute" \in op.todo /\ "record" \notin op.todo => record = op.r
    /\ "persist" \in op.todo /\ "dispute" \in op.todo => "record" \in op.todo
    /\ "outbox" \in op.todo \/ (op.r.notify => \A h \in Holders : <<op.r.n, h>> \in outbox)
    /\ "observe" \in op.todo \/ op.r.n \in noted
    /\ "intent" \in op.todo => op.r.over = 0
    /\ {"intent", "adopted"} \cap op.todo # {} => analysis \in Analyses
    /\ "persist" \in op.todo /\ op.r.over # 0 => record # op.r /\ ev.r # op.r

\* The resolution file runs ahead of the decision only with a replacement.
IRecord ==
  (record # None /\ decided # None /\ record # decided) => record.over # 0

\* An analysis being adopted holds its resolution, which replaces nothing.
IAnalysis ==
  (analysis # None /\ analysis.state = "Adopting") =>
    analysis.res # None /\ analysis.res.over = 0 /\ analysis.res.n <= minted

\* The event in hand is about a resolution, and its operation about the same one.
IEvent ==
  /\ ev.pc \notin {"idle", "ended"} => ev.r \in Resolutions
  /\ op # None /\ op.name = "deliver" => ev.r = op.r /\ ev.pc = "deliver"

\* Ids are minted once, in order.
IMinted == \A r \in Sources : r.n <= minted

\* The inductive invariant.
IInv == /\ ATypeOK /\ IReplacement /\ IOperation /\ IRecord /\ IAnalysis /\ IEvent
        /\ IMinted /\ HoldersAreTold /\ OnlyDecisionsAreSent /\ RecordIsBacked

----------------------------------------------------------------------------
\* Types

\* The starting state has the types.
LEMMA InitType == Init => ATypeOK
<1>1. Idle \in [pc : {"idle", "build", "propose", "verify", "adopt"},
                id : 0..MaxAnalyses, fp : 0..MaxWorld]
  BY ArbitrationAssumption DEF Idle
<1>2. NoEvent \in Events
  BY DEF NoEvent, Events
<1>3. 1 \in 0..MaxWorld /\ 0 \in 0..MaxRes /\ 0 \in 0..MaxAnalyses /\ 0 \in 0..MaxFaults
  BY ArbitrationAssumption
<1>4. QED BY <1>1, <1>2, <1>3 DEF Init, ATypeOK, Runs

\* A run keeps its type when it ends, moves on or begins.
LEMMA RunType ==
  ASSUME ATypeOK, NEW a \in Actors,
         NEW pc \in {"idle", "build", "propose", "verify", "adopt"}
  PROVE  /\ [run EXCEPT ![a] = Idle] \in Runs
         /\ [run EXCEPT ![a].pc = pc] \in Runs
         /\ \A id \in 0..MaxAnalyses, fp \in 0..MaxWorld :
              [run EXCEPT ![a] = [pc |-> pc, id |-> id, fp |-> fp]] \in Runs
         /\ run[a].fp \in 0..MaxWorld
  BY ArbitrationAssumption DEF ATypeOK, Runs, Idle

\* The requests of the people and the change of the inputs keep the types.
LEMMA RequestTypes ==
  ASSUME ATypeOK,
         report_dispute \/ create_analysis \/ inputs_change
  PROVE  ATypeOK'
<1>1. created < MaxAnalyses => NewAnalysis \in Analyses
  BY ArbitrationAssumption DEF ATypeOK, NewAnalysis, Analyses, Recoverable, Terminal
<1>2. CASE report_dispute
  <2>1. analysis' \in Analyses \cup {None} /\ created' \in 0..MaxAnalyses
    BY <1>1, <1>2, ArbitrationAssumption DEF ATypeOK, report_dispute
  <2>2. faults' \in 0..MaxFaults
    BY <1>2, ArbitrationAssumption DEF ATypeOK, report_dispute
  <2>3. reported' \in BOOLEAN
    BY <1>2, Zenon DEF ATypeOK, report_dispute
  <2>4. QED BY <1>2, <2>1, <2>2, <2>3, Zenon DEF ATypeOK, report_dispute
<1>3. CASE create_analysis
  BY <1>1, <1>3, ArbitrationAssumption DEF ATypeOK, create_analysis
<1>4. CASE inputs_change
  BY <1>4, ArbitrationAssumption DEF ATypeOK, inputs_change
<1>5. QED BY <1>2, <1>3, <1>4

\* What a worker or an adopter writes into the analysis file is an analysis.
LEMMA AnalysisValues ==
  ASSUME ATypeOK, analysis # None, NEW w \in Workers
  PROVE  /\ Preempted(analysis) \in Analyses /\ Failed(analysis) \in Analyses
         /\ [analysis EXCEPT !.state = "Failed"] \in Analyses
         /\ \A fp \in 0..MaxWorld :
              [analysis EXCEPT !.state = "Proposing", !.lease = w, !.fp = fp] \in Analyses
         /\ [analysis EXCEPT !.lease = w] \in Analyses
         /\ [analysis EXCEPT !.state = "Verifying"] \in Analyses
         /\ \A v \in {"Approved", "Unresolved"} :
              [analysis EXCEPT !.state = v, !.lease = None, !.seen = world] \in Analyses
         /\ [analysis EXCEPT !.state = "Pending", !.attempts = 0, !.fp = 0,
                             !.lease = None] \in Analyses
         /\ analysis.attempts < MaxAttempts =>
              [analysis EXCEPT !.state = "WaitingContext", !.attempts = @ + 1] \in Analyses
<1>1. analysis \in Analyses /\ world \in 0..MaxWorld
  BY DEF ATypeOK
<1>2. Failed(analysis) \in Analyses
  BY <1>1 DEF Analyses, Failed, Terminal
<1>3. Preempted(analysis) \in Analyses
  BY <1>1, <1>2 DEF Preempted
<1>4. [analysis EXCEPT !.state = "Failed"] \in Analyses
  BY <1>1 DEF Analyses, Terminal
<1>5. ASSUME NEW fp \in 0..MaxWorld
      PROVE  [analysis EXCEPT !.state = "Proposing", !.lease = w, !.fp = fp] \in Analyses
  BY <1>1 DEF Analyses, Recoverable
<1>6. [analysis EXCEPT !.lease = w] \in Analyses
  BY <1>1 DEF Analyses
<1>7. [analysis EXCEPT !.state = "Verifying"] \in Analyses
  BY <1>1 DEF Analyses, Recoverable
<1>8. ASSUME NEW v \in {"Approved", "Unresolved"}
      PROVE  [analysis EXCEPT !.state = v, !.lease = None, !.seen = world] \in Analyses
  BY <1>1 DEF Analyses, Terminal
<1>9. [analysis EXCEPT !.state = "Pending", !.attempts = 0, !.fp = 0, !.lease = None]
        \in Analyses
  <2>1. 0 \in 0..MaxAttempts /\ 0 \in 0..MaxWorld
    BY ArbitrationAssumption
  <2>2. QED BY <1>1, <2>1 DEF Analyses, Recoverable
<1>10. ASSUME analysis.attempts < MaxAttempts
       PROVE  [analysis EXCEPT !.state = "WaitingContext", !.attempts = @ + 1] \in Analyses
  <2>1. analysis.attempts \in 0..MaxAttempts
    BY <1>1 DEF Analyses
  <2>2. analysis.attempts + 1 \in 0..MaxAttempts
    BY <1>10, <2>1, ArbitrationAssumption
  <2>3. QED BY <1>1, <2>2 DEF Analyses, Recoverable
<1>11. QED BY <1>2, <1>3, <1>4, <1>5, <1>6, <1>7, <1>8, <1>9, <1>10

\* The steps of a worker on the analysis file keep the types.
LEMMA WorkerTypes ==
  ASSUME ATypeOK, NEW w \in Workers,
         \/ mark_analysis_preempted(w) \/ prepare_context(w) \/ save_prepared_context(w)
         \/ acquire_phase(w) \/ save_proposal(w) \/ save_verification(w)
         \/ finish_failed(w) \/ start_reanalysis_round(w)
  PROVE  ATypeOK'
<1>1. w \in Actors
  BY DEF Actors
<1>2. analysis # None => analysis \in Analyses /\ analysis.id \in 0..MaxAnalyses
                         /\ analysis.attempts \in 0..MaxAttempts
  BY ArbitrationAssumption DEF ATypeOK, Analyses
<1>3. world \in 0..MaxWorld /\ 0 \in 0..MaxWorld /\ run \in Runs
      /\ analysis \in Analyses \cup {None}
  BY ArbitrationAssumption DEF ATypeOK
<1>4. restUnchanged /\ analysis' \in Analyses \cup {None} /\ run' \in Runs
  <2>1. CASE mark_analysis_preempted(w)
    BY <1>1, <2>1, AnalysisValues, RunType DEF mark_analysis_preempted, Write, Done
  <2>2. CASE prepare_context(w)
    <3>1. ~Exhausted(analysis) => analysis.attempts < MaxAttempts
      BY <1>2, <2>2, ArbitrationAssumption DEF Exhausted, prepare_context
    <3>2. [run EXCEPT ![w] = [pc |-> "build", id |-> analysis.id, fp |-> world]] \in Runs
      BY <1>1, <1>2, <1>3, <2>2, RunType DEF prepare_context
    <3>3. QED
      BY <1>2, <1>3, <2>2, <3>1, <3>2, AnalysisValues DEF prepare_context, Write
  <2>3. CASE save_prepared_context(w)
    <3>1. [run EXCEPT ![w] = Idle] \in Runs /\ [run EXCEPT ![w].pc = "propose"] \in Runs
          /\ run[w].fp \in 0..MaxWorld
      BY <1>1, RunType
    <3>2. Current(w) => [analysis EXCEPT !.state = "Failed"] \in Analyses
            /\ [analysis EXCEPT !.state = "Proposing", !.lease = w, !.fp = run[w].fp]
                 \in Analyses
      BY <3>1, AnalysisValues DEF Current
    <3>3. QED
      BY <1>3, <2>3, <3>1, <3>2 DEF save_prepared_context, Write, Done, Goto
  <2>4. CASE acquire_phase(w)
    BY <1>1, <1>2, <1>3, <2>4, AnalysisValues, RunType DEF acquire_phase, Write
  <2>5. CASE save_proposal(w)
    BY <1>1, <1>3, <2>5, AnalysisValues, RunType
    DEF save_proposal, Write, Done, Goto, Current, Fenced
  <2>6. CASE save_verification(w)
    BY <1>1, <1>3, <2>6, AnalysisValues, RunType
    DEF save_verification, Write, Done, Current, Fenced
  <2>7. CASE finish_failed(w)
    BY <1>1, <2>7, AnalysisValues, RunType
    DEF finish_failed, Write, Done, Current, Fenced
  <2>8. CASE start_reanalysis_round(w)
    BY <1>1, <1>3, <2>8, AnalysisValues DEF start_reanalysis_round, Write
  <2>9. QED BY <2>1, <2>2, <2>3, <2>4, <2>5, <2>6, <2>7, <2>8
<1>5. QED BY <1>4, Zenon DEF ATypeOK, restUnchanged

\* A freshly minted resolution.
LEMMA MintedType ==
  ASSUME ATypeOK, minted < MaxRes, NEW by \in {Human, Automatic},
         NEW src \in 0..MaxAnalyses, NEW over \in 0..MaxRes, NEW notify \in BOOLEAN
  PROVE  /\ Minted(by, src, over, notify) \in Resolutions
         /\ minted + 1 \in 0..MaxRes
  BY ArbitrationAssumption DEF ATypeOK, Minted, Resolutions

\* The write lists of the operations contain only files that exist.
LEMMA TodoTypes ==
  ASSUME NEW r
  PROVE  /\ Delivery(r) \in SUBSET Steps /\ FinishAdoption(r) \in SUBSET Steps
         /\ Recovery(r) \in SUBSET Steps /\ Commit(r) \in SUBSET Steps
         /\ {"intent"} \cup FinishAdoption(r) \in SUBSET Steps
         /\ {"record", "dispute"} \cup Delivery(r) \in SUBSET Steps
  BY DEF Delivery, FinishAdoption, Recovery, Commit, Steps

\* An operation on a resolution is an operation.
LEMMA OperationType ==
  ASSUME NEW name \in {"adopt", "recover", "resolve", "deliver"}, NEW r \in Resolutions,
         NEW todo \in SUBSET Steps
  PROVE  Operation(name, r, todo) \in Operations
  BY DEF Operation, Operations

\* Every stored human resolution is one of the resolutions on the disk.
LEMMA StoredHumanFacts ==
  ASSUME NEW r \in StoredHuman
  PROVE  r.by = Human /\ (r \in pending \/ (record # None /\ r = record))
  BY DEF StoredHuman, HumanIntents

\* What an adoption writes back into the analysis file is an analysis.
LEMMA AdoptionValues ==
  ASSUME ATypeOK, analysis \in Analyses
  PROVE  /\ Superseded(analysis) \in Analyses /\ Reanalysis(analysis) \in Analyses
         /\ [analysis EXCEPT !.blocked = TRUE] \in Analyses
         /\ [analysis EXCEPT !.state = "Adopted"] \in Analyses
         /\ \A r \in Resolutions :
              [analysis EXCEPT !.state = "Adopting", !.res = r, !.lease = None] \in Analyses
<1>1. analysis \in Analyses /\ analysis.changes \in 0..3
  BY DEF ATypeOK, Analyses
<1>2. Superseded(analysis) \in Analyses
  BY <1>1 DEF Analyses, Superseded, Terminal
<1>3. Reanalysis(analysis) \in Analyses
  <2>1. analysis.changes < 2 => analysis.changes + 1 \in 0..3
    BY <1>1
  <2>2. 3 \in 0..3
    OBVIOUS
  <2>3. CASE analysis.changes < 2
    BY <1>1, <2>1, <2>3 DEF Analyses, Reanalysis, Recoverable
  <2>4. CASE ~(analysis.changes < 2)
    BY <1>1, <2>2, <2>4 DEF Analyses, Reanalysis, Terminal
  <2>5. QED BY <2>3, <2>4
<1>4. [analysis EXCEPT !.blocked = TRUE] \in Analyses
  BY <1>1 DEF Analyses
<1>5. [analysis EXCEPT !.state = "Adopted"] \in Analyses
  BY <1>1 DEF Analyses, Terminal
<1>6. ASSUME NEW r \in Resolutions
      PROVE [analysis EXCEPT !.state = "Adopting", !.res = r, !.lease = None] \in Analyses
  BY <1>1 DEF Analyses, Recoverable
<1>7. QED BY <1>2, <1>3, <1>4, <1>5, <1>6

\* A resumed adoption works on the resolution the analysis already holds.
LEMMA ResumeTypes ==
  ASSUME ATypeOK, IAnalysis, NEW a \in Actors, analysis # None,
         resume_matching_analysis_adoption(a)
  PROVE  analysis' \in Analyses \cup {None} /\ op' \in Operations \cup {None} /\ run' \in Runs
<1>1. analysis \in Analyses /\ analysis.res \in Resolutions
  BY DEF ATypeOK, IAnalysis, Analyses, resume_matching_analysis_adoption
<1>2. Operation("adopt", analysis.res, FinishAdoption(analysis.res)) \in Operations
  BY <1>1, TodoTypes, OperationType
<1>3. run' \in Runs
  BY RunType DEF resume_matching_analysis_adoption, Done
<1>4. op \in Operations \cup {None} /\ analysis \in Analyses \cup {None}
  BY DEF ATypeOK
<1>5. QED
  BY <1>1, <1>2, <1>3, <1>4, AdoptionValues DEF resume_matching_analysis_adoption, Write

\* The two locked sections of an adoption, its recovery and its abandonment keep the
\* types.
LEMMA AdoptionTypes ==
  ASSUME ATypeOK, IAnalysis, NEW a \in Actors,
         \/ adopt_approved(a) \/ adopt_recheck(a) \/ abandon(a)
         \/ recover_analysis_adoption(a)
  PROVE  ATypeOK'
<1>1. /\ analysis \in Analyses \cup {None} /\ op \in Operations \cup {None}
      /\ minted \in 0..MaxRes /\ world \in 0..MaxWorld /\ run \in Runs
      /\ pending \subseteq Resolutions /\ record \in Resolutions \cup {None}
  BY DEF ATypeOK
<1>2. analysis # None => analysis.id \in 0..MaxAnalyses
  BY ArbitrationAssumption DEF ATypeOK, Analyses
<1>3. By(a) \in {Human, Automatic}
  BY DEF By
<1>4. [run EXCEPT ![a] = Idle] \in Runs
  BY RunType
<1>5. /\ UNCHANGED <<reported, decided, record, pending, outbox, noted, world, ev,
                     created, faults>>
      /\ analysis' \in Analyses \cup {None} /\ op' \in Operations \cup {None}
      /\ run' \in Runs /\ minted' \in 0..MaxRes
  <2>1. CASE adopt_approved(a)
    <3>1. analysis # None /\ minted' = minted /\ adoptionUnchanged
      BY <2>1 DEF adopt_approved
    <3>2. CASE resume_matching_analysis_adoption(a)
      BY <1>1, <3>1, <3>2, ResumeTypes DEF adoptionUnchanged
    <3>3. CASE ~resume_matching_analysis_adoption(a)
      <4>1. [run EXCEPT ![a] = [pc |-> "adopt", id |-> analysis.id, fp |-> world]] \in Runs
        BY <1>1, <1>2, <3>1, RunType
      <4>2. QED BY <1>1, <2>1, <3>1, <3>3, <4>1 DEF adopt_approved, adoptionUnchanged
    <3>4. QED BY <3>2, <3>3
  <2>2. CASE adopt_recheck(a)
    <3>1. adoptionUnchanged
      BY <2>2 DEF adopt_recheck
    <3>2. CASE ~Current(a) \/ (analysis.state # "Adopting" /\ ~Adoptable)
      BY <1>1, <1>4, <2>2, <3>1, <3>2
      DEF adopt_recheck, adoptionUnchanged, Done, resume_matching_analysis_adoption
    <3>3. CASE Current(a) /\ resume_matching_analysis_adoption(a) /\ minted' = minted
      BY <1>1, <3>1, <3>3, ResumeTypes DEF adoptionUnchanged, Current
    <3>4. CASE Current(a) /\ Adoptable /\ begin_analysis_adoption(a) /\ Done(a)
      <4>1. analysis' \in Analyses \cup {None} /\ run' \in Runs
        BY <1>1, <1>4, <3>4 DEF begin_analysis_adoption, Done
      <4>2. CASE UNCHANGED <<op, minted>>
        BY <1>1, <3>1, <4>1, <4>2 DEF adoptionUnchanged
      <4>3. CASE \E r \in StoredHuman :
                   /\ op' = Operation("recover", r, {"record", "dispute"} \cup Delivery(r))
                   /\ UNCHANGED minted
        <5>1. PICK r \in StoredHuman :
                   /\ op' = Operation("recover", r, {"record", "dispute"} \cup Delivery(r))
                   /\ UNCHANGED minted
          BY <4>3
        <5>2. r \in Resolutions
          BY <1>1, StoredHumanFacts
        <5>3. QED
          BY <1>1, <3>1, <4>1, <5>1, <5>2, TodoTypes, OperationType DEF adoptionUnchanged
      <4>4. CASE /\ minted < MaxRes /\ minted' = minted + 1
                 /\ LET r == Minted(By(a), analysis.id, 0, TRUE)
                    IN op' = Operation("adopt", r, {"intent"} \cup FinishAdoption(r))
        <5>1. Minted(By(a), analysis.id, 0, TRUE) \in Resolutions /\ minted' \in 0..MaxRes
          <6>1. 0 \in 0..MaxRes /\ TRUE \in BOOLEAN /\ analysis.id \in 0..MaxAnalyses
            BY <1>2, <3>4, ArbitrationAssumption DEF Current
          <6>2. QED BY <1>3, <4>4, <6>1, MintedType
        <5>2. QED
          BY <3>1, <4>1, <4>4, <5>1, TodoTypes, OperationType DEF adoptionUnchanged
      <4>5. QED BY <3>4, <4>2, <4>3, <4>4, Zenon DEF begin_analysis_adoption
    <3>5. CASE /\ Current(a) /\ Adoptable /\ Done(a) /\ UNCHANGED <<op, minted>>
               /\ \/ Write(Reanalysis(analysis))
                  \/ Write([analysis EXCEPT !.blocked = TRUE])
      BY <1>1, <1>4, <3>1, <3>5, AdoptionValues DEF adoptionUnchanged, Done, Write, Current
    <3>6. QED BY <2>2, <3>2, <3>3, <3>4, <3>5, Zenon DEF adopt_recheck
  <2>3. CASE abandon(a)
    BY <1>1, <1>4, <2>3 DEF abandon, Done, restUnchanged
  <2>4. CASE recover_analysis_adoption(a)
    <3>1. analysis # None /\ analysis.res \in Resolutions
      BY <2>4 DEF recover_analysis_adoption, ATypeOK, IAnalysis, Analyses
    <3>2. Operation("adopt", analysis.res, FinishAdoption(analysis.res)) \in Operations
      BY <3>1, TodoTypes, OperationType
    <3>3. QED
      BY <1>1, <2>4, <3>1, <3>2, AdoptionValues
      DEF recover_analysis_adoption, adoptionUnchanged, Write
  <2>5. QED BY <2>1, <2>2, <2>3, <2>4
<1>6. QED BY <1>5, Zenon DEF ATypeOK

\* The resolutions a person begins keep the types.
LEMMA HumanTypes ==
  ASSUME ATypeOK, resolve_human \/ reject_and_replace
  PROVE  ATypeOK'
<1>1. /\ pending \subseteq Resolutions /\ record \in Resolutions \cup {None}
      /\ minted \in 0..MaxRes /\ decided \in Resolutions \cup {None}
  BY DEF ATypeOK
<1>2. UNCHANGED <<disk, world, run, ev, created, faults>>
  BY DEF resolve_human, reject_and_replace
<1>3. op' \in Operations /\ minted' \in 0..MaxRes
  <2>1. ASSUME NEW r \in StoredHuman, op' = Operation("resolve", r, Recovery(r)),
               UNCHANGED minted
        PROVE  op' \in Operations /\ minted' \in 0..MaxRes
    BY <1>1, <2>1, StoredHumanFacts, TodoTypes, OperationType
  <2>2. ASSUME NEW over \in 0..MaxRes, NEW notify \in BOOLEAN,
               minted < MaxRes, minted' = minted + 1,
               op' = Operation("resolve", Minted(Human, 0, over, notify),
                               Commit(Minted(Human, 0, over, notify)))
        PROVE  op' \in Operations /\ minted' \in 0..MaxRes
    BY <2>2, MintedType, TodoTypes, OperationType, ArbitrationAssumption
  <2>3. CASE resolve_human
    BY <2>1, <2>2, <2>3, ArbitrationAssumption DEF resolve_human
  <2>4. CASE reject_and_replace
    <3>1. decided # None => decided.n \in 0..MaxRes
      BY <1>1, ArbitrationAssumption DEF Resolutions
    <3>2. QED BY <2>1, <2>2, <2>4, <3>1 DEF reject_and_replace
  <2>5. QED BY <2>3, <2>4
<1>4. QED BY <1>2, <1>3, Zenon DEF ATypeOK, disk

\* The operation under way is on a resolution and has files to write.
LEMMA FirstFacts ==
  ASSUME ATypeOK, NEW s \in Steps, First(s)
  PROVE  /\ op # None /\ op \in Operations /\ op.r \in Resolutions /\ s \in op.todo
         /\ op.todo \subseteq Steps
         /\ \A t \in op.todo : Rank[s] <= Rank[t]
  BY DEF ATypeOK, First, Operations

\* A written file leaves the rest of the operation.
LEMMA WroteTypes ==
  ASSUME ATypeOK, NEW s \in Steps, First(s), Wrote(s)
  PROVE  op' \in Operations \cup {None} /\ ev' \in Events
<1>1. op \in Operations /\ ev \in Events
  BY FirstFacts DEF ATypeOK
<1>2. [op EXCEPT !.todo = @ \ {s}] \in Operations
  BY <1>1 DEF Operations
<1>3. [ev EXCEPT !.pc = "complete"] \in Events
  BY <1>1 DEF Events
<1>4. QED BY <1>1, <1>2, <1>3 DEF Wrote

\* The writes keep the types.
LEMMA WriteTypes ==
  ASSUME ATypeOK, WriteStep,
         {"intent", "adopted"} \cap op.todo # {} => analysis \in Analyses
  PROVE  ATypeOK'
<1> USE DEF Steps
<1>1. CASE write_intent
  <2>1. analysis' \in Analyses
    BY <1>1, AdoptionValues, FirstFacts DEF write_intent, Write
  <2>2. QED BY <1>1, <2>1, WroteTypes DEF ATypeOK, write_intent, Wrote
<1>2. CASE persist_pending_delivery
  <2>1. PICK s \in {"persist", "repersist"} : First(s) /\ Wrote(s)
    BY <1>2 DEF persist_pending_delivery
  <2>2. QED BY <1>2, <2>1, WroteTypes, FirstFacts
            DEF ATypeOK, persist_pending_delivery, Wrote
<1>3. CASE write_resolution_record
  BY <1>3, WroteTypes, FirstFacts DEF ATypeOK, write_resolution_record, Wrote
<1>4. CASE write_dispute
  BY <1>4, WroteTypes, FirstFacts DEF ATypeOK, write_dispute, Wrote
<1>5. CASE preempt_current_analysis
  <2>1. Preempted(analysis) \in Analyses \cup {None}
    <3>1. CASE analysis = None
      BY <3>1 DEF Preempted
    <3>2. CASE analysis # None
      <4>1. analysis \in Analyses
        BY <3>2 DEF ATypeOK
      <4>2. QED BY <4>1 DEF Preempted, Failed, Analyses, Terminal
    <3>3. QED BY <3>1, <3>2
  <2>2. faults' \in 0..MaxFaults
    BY <1>5, ArbitrationAssumption DEF ATypeOK, preempt_current_analysis
  <2>3. QED BY <1>5, <2>1, <2>2, WroteTypes
            DEF ATypeOK, preempt_current_analysis, Wrote, Write
<1>6. CASE ensure_outbox_entry
  <2>1. op.r.n \in 1..MaxRes
    BY <1>6, FirstFacts DEF ensure_outbox_entry, Resolutions
  <2>2. outbox' \in SUBSET ((1..MaxRes) \X Holders)
    <3>1. \A h \in Holders : outbox \cup {<<op.r.n, h>>} \in SUBSET ((1..MaxRes) \X Holders)
      BY <2>1 DEF ATypeOK
    <3>2. outbox' = outbox \/ \E h \in Holders : outbox' = outbox \cup {<<op.r.n, h>>}
      BY <1>6 DEF ensure_outbox_entry
    <3>3. QED BY <3>1, <3>2 DEF ATypeOK
  <2>3. op' \in Operations \cup {None} /\ ev' \in Events
    BY <1>6, WroteTypes DEF ATypeOK, ensure_outbox_entry
  <2>4. UNCHANGED <<reported, world, run, minted, created>>
    BY <1>6 DEF ensure_outbox_entry, Wrote
  <2>5. QED BY <1>6, <2>2, <2>3, <2>4 DEF ATypeOK, ensure_outbox_entry
<1>7. CASE register_observation
  <2>1. op.r.n \in 1..MaxRes
    BY <1>7, FirstFacts DEF register_observation, Resolutions
  <2>2. QED BY <1>7, <2>1, WroteTypes DEF ATypeOK, register_observation, Wrote
<1>8. CASE remove_pending_delivery
  BY <1>8, WroteTypes DEF ATypeOK, remove_pending_delivery, Wrote
<1>9. CASE write_adopted
  <2>1. analysis' \in Analyses
    BY <1>9, AdoptionValues, FirstFacts DEF write_adopted, Write
  <2>2. QED BY <1>9, <2>1, WroteTypes DEF ATypeOK, write_adopted, Wrote
<1>10. QED BY <1>1, <1>2, <1>3, <1>4, <1>5, <1>6, <1>7, <1>8, <1>9 DEF WriteStep

\* The delivery event and the faults keep the types.
LEMMA EventTypes ==
  ASSUME ATypeOK, IEvent, EventStep \/ cut \/ crash \/ scheduler_ends
  PROVE  ATypeOK'
<1>1. ev \in Events /\ pending \subseteq Resolutions /\ analysis \in Analyses \cup {None}
      /\ NoEvent \in Events /\ op \in Operations \cup {None}
  BY DEF ATypeOK, NoEvent, Events
<1>2. \A pc \in {"idle", "deliver", "complete", "retry", "rewrite", "ended"} :
         /\ [ev EXCEPT !.pc = pc] \in Events
         /\ \A r \in Resolutions : [pc |-> pc, r |-> r] \in Events
  BY <1>1 DEF Events
<1>3. CASE recover_pending_delivery
  <2>1. PICK r \in pending :
          \/ /\ ev' = [pc |-> "deliver", r |-> r]
             /\ \E todo \in SUBSET Steps : op' = Operation("deliver", r, todo)
             /\ UNCHANGED pending
          \/ /\ ev' = [pc |-> "complete", r |-> r]
             /\ pending' = pending \ {r} /\ UNCHANGED op
    BY <1>3 DEF recover_pending_delivery, Delivery, Steps
  <2>2. ev' \in Events /\ op' \in Operations \cup {None} /\ pending' \subseteq Resolutions
    BY <1>1, <1>2, <2>1, OperationType
  <2>3. QED BY <1>3, <2>2 DEF ATypeOK, recover_pending_delivery
<1>4. CASE complete_analysis_adoption_after_delivery
  <2>1. analysis' \in Analyses \cup {None}
    BY <1>1, <1>4, AdoptionValues DEF complete_analysis_adoption_after_delivery, Write
  <2>2. ev' \in Events /\ faults' \in 0..MaxFaults
    BY <1>1, <1>2, <1>4, ArbitrationAssumption
    DEF complete_analysis_adoption_after_delivery, ATypeOK
  <2>3. QED BY <1>4, <2>1, <2>2 DEF ATypeOK, complete_analysis_adoption_after_delivery
<1>5. CASE persist_retry
  <2>1. ev' \in Events
    BY <1>1, <1>2, <1>5 DEF persist_retry
  <2>2. pending' \subseteq Resolutions
    BY <1>1, <1>5 DEF persist_retry, IEvent
  <2>3. QED BY <1>5, <2>1, <2>2 DEF ATypeOK, persist_retry
<1>6. CASE cut
  <2>1. ev' \in Events /\ faults' \in 0..MaxFaults
    BY <1>1, <1>2, <1>6, ArbitrationAssumption DEF cut, ATypeOK
  <2>2. QED BY <1>6, <2>1 DEF ATypeOK, cut, disk
<1>7. CASE crash
  <2>1. faults' \in 0..MaxFaults /\ run' \in Runs
    BY <1>7, ArbitrationAssumption DEF crash, ATypeOK, Runs, Idle
  <2>2. QED BY <1>1, <1>7, <2>1 DEF ATypeOK, crash, disk
<1>8. CASE scheduler_ends
  <2>1. ev' \in Events /\ faults' \in 0..MaxFaults
    BY <1>8, ArbitrationAssumption DEF scheduler_ends, Ended, Events, ATypeOK
  <2>2. QED BY <1>8, <2>1 DEF ATypeOK, scheduler_ends, disk
<1>9. QED BY <1>3, <1>4, <1>5, <1>6, <1>7, <1>8 DEF EventStep

----------------------------------------------------------------------------
\* The writes of an operation

\* The files an operation still has to write come after the one it writes now.
LEMMA WriteOrder ==
  ASSUME NEW s \in Steps, First(s)
  PROVE  /\ s # "intent" /\ s # "persist" => "persist" \notin op.todo
         /\ s \notin {"intent", "persist", "record"} => "record" \notin op.todo
         /\ s \notin {"intent", "persist", "record", "dispute"} => "dispute" \notin op.todo
         /\ s \in {"unpend", "observe"} => "outbox" \notin op.todo
         /\ s = "unpend" => "observe" \notin op.todo
<1>1. /\ Rank["persist"] = 2 /\ Rank["record"] = 3 /\ Rank["dispute"] = 4
      /\ Rank["preempt"] = 5 /\ Rank["repersist"] = 6 /\ Rank["outbox"] = 7
      /\ Rank["observe"] = 8 /\ Rank["unpend"] = 9 /\ Rank["adopted"] = 10
      /\ Rank["intent"] = 1
  BY DEF Rank, Steps
<1>2. \A t \in op.todo : Rank[s] <= Rank[t]
  BY DEF First
<1>3. QED BY <1>1, <1>2 DEF Steps

\* What writing file s changes.
Effect(s) ==
  /\ First(s) /\ op.r \in Resolutions
  /\ \/ op' = None /\ op.todo = {s}
     \/ op'.r = op.r /\ op'.todo = op.todo \ {s} /\ op'.name = op.name /\ op' # None
     \/ op' = op /\ s = "outbox" /\ ev' = ev
  /\ ev'.r = ev.r /\ minted' = minted
  /\ ev'.pc = ev.pc \/ (op' = None /\ op.name = "deliver")
  /\ decided' = IF s = "dispute" THEN op.r ELSE decided
  /\ record' = IF s = "record" THEN op.r ELSE record
  /\ pending' = IF s \in {"persist", "repersist"} THEN pending \cup {op.r}
                ELSE IF s = "unpend" THEN pending \ {op.r} ELSE pending
  /\ outbox \subseteq outbox'
  /\ outbox' \subseteq outbox \cup
       (IF s = "outbox" THEN {<<op.r.n, h>> : h \in Holders} ELSE {})
  /\ s = "outbox" => op' = op \/ \A h \in Holders : <<op.r.n, h>> \in outbox
  /\ noted' = IF s = "observe" THEN noted \cup {op.r.n} ELSE noted

\* A written file leaves the operation, or ends it with its last file.
LEMMA WroteFacts ==
  ASSUME ATypeOK, NEW s \in Steps, First(s), Wrote(s)
  PROVE  /\ op.r \in Resolutions
         /\ \/ op' = None /\ op.todo = {s}
            \/ op'.r = op.r /\ op'.todo = op.todo \ {s} /\ op'.name = op.name /\ op' # None
         /\ ev'.r = ev.r /\ minted' = minted
         /\ ev'.pc = ev.pc \/ (op' = None /\ op.name = "deliver")
<1>1. op \in Operations /\ ev \in Events /\ op # None /\ op.r \in Resolutions
  BY FirstFacts DEF ATypeOK
<1>2. (op' = None /\ op.todo = {s}) \/ op' = [op EXCEPT !.todo = op.todo \ {s}]
  BY DEF Wrote
<1>3. ev' = ev \/ (ev' = [ev EXCEPT !.pc = "complete"] /\ op' = None /\ op.name = "deliver")
  BY DEF Wrote
<1>4. minted' = minted
  BY DEF Wrote
<1>5. [op EXCEPT !.todo = op.todo \ {s}] # None
  BY <1>1, NoneAssumption DEF Operations
<1>6. QED BY <1>1, <1>2, <1>3, <1>4, <1>5 DEF Operations, Events

\* Every write is the writing of one file.
LEMMA WriteEffect ==
  ASSUME ATypeOK, WriteStep
  PROVE  \E s \in Steps : Effect(s)
<1> USE DEF Steps
<1>1. CASE write_intent
  BY <1>1, WroteFacts DEF write_intent, Effect
<1>2. CASE persist_pending_delivery
  <2>1. PICK s \in {"persist", "repersist"} : First(s) /\ Wrote(s)
    BY <1>2 DEF persist_pending_delivery
  <2>2. QED BY <1>2, <2>1, WroteFacts DEF persist_pending_delivery, Effect
<1>3. CASE write_resolution_record
  BY <1>3, WroteFacts DEF write_resolution_record, Effect
<1>4. CASE write_dispute
  BY <1>4, WroteFacts DEF write_dispute, Effect
<1>5. CASE preempt_current_analysis
  BY <1>5, WroteFacts DEF preempt_current_analysis, Effect
<1>6. CASE ensure_outbox_entry
  <2>1. First("outbox") /\ UNCHANGED <<decided, record, pending, noted>>
        /\ op.r \in Resolutions
    BY <1>6, FirstFacts DEF ensure_outbox_entry
  <2>2. CASE \A h \in Holders : <<op.r.n, h>> \in outbox
    BY <1>6, <2>1, <2>2, WroteFacts DEF ensure_outbox_entry, Effect
  <2>3. CASE ~\A h \in Holders : <<op.r.n, h>> \in outbox
    BY <1>6, <2>1, <2>3 DEF ensure_outbox_entry, Effect
  <2>4. QED BY <2>2, <2>3
<1>7. CASE register_observation
  BY <1>7, WroteFacts DEF register_observation, Effect
<1>8. CASE remove_pending_delivery
  BY <1>8, WroteFacts DEF remove_pending_delivery, Effect
<1>9. CASE write_adopted
  BY <1>9, WroteFacts DEF write_adopted, Effect
<1>10. QED BY <1>1, <1>2, <1>3, <1>4, <1>5, <1>6, <1>7, <1>8, <1>9 DEF WriteStep

\* A write spreads no resolution but the operation's own.
LEMMA SourcesKept ==
  ASSUME NEW s \in Steps, Effect(s)
  PROVE  Sources' \subseteq Sources /\ op.r \in Sources
<1>1. op # None
  BY DEF Effect, First
<1>2. op.r \in Sources
  BY <1>1 DEF Sources
<1>3. ASSUME NEW r \in Sources' PROVE r \in Sources
  <2>1. CASE r \in pending'
    BY <1>2, <2>1 DEF Effect, Sources
  <2>2. CASE r \in {record', decided', ev'.r} /\ r # None
    BY <1>2, <2>2 DEF Effect, Sources
  <2>3. CASE op' # None /\ r = op'.r
    BY <1>2, <2>3 DEF Effect
  <2>4. QED BY <1>3, <2>1, <2>2, <2>3 DEF Sources
<1>4. QED BY <1>2, <1>3

\* The decision and the replacement stay consistent under every write.
LEMMA WriteKeepsReplacement ==
  ASSUME IInv, NEW s \in Steps, Effect(s)
  PROVE  IReplacement' /\ IMinted' /\ IEvent'
<1>1. Sources' \subseteq Sources /\ op.r \in Sources /\ op # None
  BY SourcesKept DEF Effect, First
<1>2. IMinted'
  BY <1>1 DEF IInv, IMinted, Effect
<1>3. IEvent'
  <2>1. op # None /\ op.name = "deliver" => ev.r = op.r /\ ev.pc = "deliver"
    BY DEF IInv, IEvent
  <2>2. ev'.pc \notin {"idle", "ended"} => ev'.r \in Resolutions
    BY <1>1, <2>1 DEF IInv, IEvent, Effect
  <2>3. op' # None /\ op'.name = "deliver" => ev'.r = op'.r /\ ev'.pc = "deliver"
    BY <1>1, <2>1 DEF Effect
  <2>4. QED BY <2>2, <2>3 DEF IEvent
<1>4. \A r1, r2 \in Sources' : r1.over # 0 /\ r2.over # 0 => r1 = r2
  BY <1>1 DEF IInv, IReplacement
<1>5. ASSUME NEW r \in Sources', r.over # 0
      PROVE  /\ r.by = Human /\ r.over < r.n /\ decided' # None
             /\ \/ decided' = r
                \/ /\ decided'.by = Automatic /\ decided'.n = r.over
                   /\ r \in pending' \/ (op' # None /\ r = op'.r /\ "persist" \in op'.todo)
  <2>1. /\ r.by = Human /\ r.over < r.n /\ decided # None
        /\ \/ decided = r
           \/ /\ decided.by = Automatic /\ decided.n = r.over
              /\ r \in pending \/ (r = op.r /\ "persist" \in op.todo)
    BY <1>1, <1>5 DEF IInv, IReplacement
  <2>2. CASE s = "dispute"
    <3>1. "dispute" \in op.todo /\ decided' = op.r
      BY <2>2 DEF Effect, First
    <3>2. op.r.over # 0
      BY <1>1, <2>1, <3>1 DEF IInv, IOperation
    <3>3. r = op.r
      BY <1>1, <1>5, <3>2 DEF IInv, IReplacement
    <3>4. op.r # None
      BY NoneAssumption DEF Effect
    <3>5. QED BY <2>1, <3>1, <3>3, <3>4
  <2>3. CASE s # "dispute"
    <3>1. decided' = decided
      BY <2>3 DEF Effect
    <3>2. CASE s = "unpend"
      <4>1. "dispute" \notin op.todo /\ "persist" \notin op.todo
        BY <3>2, WriteOrder DEF Effect
      <4>2. decided = op.r
        BY <1>1, <4>1 DEF IInv, IOperation
      <4>3. QED BY <2>1, <3>1, <3>2, <4>1, <4>2 DEF Effect
    <3>3. CASE s # "unpend"
      <4>1. pending \subseteq pending'
        BY <3>3 DEF Effect
      <4>2. CASE "persist" \in op.todo /\ r = op.r
        <5>1. s \in {"intent", "persist"}
          BY <4>2, WriteOrder DEF Effect
        <5>2. CASE s = "persist"
          BY <2>1, <3>1, <4>2, <5>2 DEF Effect
        <5>3. CASE s = "intent"
          <6>1. op' # None => op'.r = op.r /\ "persist" \in op'.todo
            BY <4>2, <5>3 DEF Effect
          <6>2. op' # None
            BY <1>1, <4>2, <5>3 DEF Effect
          <6>3. QED BY <2>1, <3>1, <4>1, <4>2, <6>1, <6>2
        <5>4. QED BY <5>1, <5>2, <5>3
      <4>3. QED BY <2>1, <3>1, <4>1, <4>2
    <3>4. QED BY <3>2, <3>3
  <2>4. QED BY <2>2, <2>3
<1>6. QED BY <1>2, <1>3, <1>4, <1>5 DEF IReplacement

\* The delivery promises survive every write.
LEMMA WriteKeepsPromises ==
  ASSUME IInv, NEW s \in Steps, Effect(s)
  PROVE  IRecord' /\ RecordIsBacked' /\ HoldersAreTold' /\ OnlyDecisionsAreSent'
<1>1. op # None /\ s \in op.todo /\ op.r \in Resolutions
  BY DEF Effect, First
<1>2. IRecord'
  <2>1. CASE s = "record"
    <3>1. decided' = decided /\ record' = op.r
      BY <2>1 DEF Effect
    <3>2. QED BY <1>1, <3>1 DEF IInv, IOperation, IRecord
  <2>2. CASE s = "dispute"
    <3>1. "record" \notin op.todo /\ decided' = op.r /\ record' = record
      BY <2>2, WriteOrder DEF Effect
    <3>2. QED BY <1>1, <2>2, <3>1 DEF IInv, IOperation, IRecord
  <2>3. CASE s \notin {"record", "dispute"}
    BY <2>3 DEF IInv, IRecord, Effect
  <2>4. QED BY <2>1, <2>2, <2>3
<1>3. RecordIsBacked'
  <2>1. CASE s = "record"
    <3>1. /\ decided' = decided /\ record' = op.r /\ pending' = pending
          /\ "persist" \notin op.todo
      BY <2>1, WriteOrder DEF Effect
    <3>2. op.r \in pending \/ op.r = decided
      BY <1>1, <2>1, <3>1 DEF IInv, IOperation
    <3>3. QED BY <3>1, <3>2 DEF RecordIsBacked
  <2>2. CASE s = "dispute"
    <3>1. "record" \notin op.todo /\ decided' = op.r /\ record' = record
      BY <2>2, WriteOrder DEF Effect
    <3>2. QED BY <1>1, <2>2, <3>1 DEF IInv, IOperation, RecordIsBacked
  <2>3. CASE s = "unpend"
    <3>1. /\ "dispute" \notin op.todo /\ decided' = decided /\ record' = record
          /\ pending' = pending \ {op.r}
      BY <2>3, WriteOrder DEF Effect
    <3>2. decided = op.r
      BY <1>1, <3>1 DEF IInv, IOperation
    <3>3. QED BY <3>1, <3>2 DEF IInv, RecordIsBacked
  <2>4. CASE s \notin {"record", "dispute", "unpend"}
    BY <2>4 DEF IInv, RecordIsBacked, Effect
  <2>5. QED BY <2>1, <2>2, <2>3, <2>4
<1>4. \A r : Told(r) => Told(r)'
  BY DEF Told, Effect
<1>5. HoldersAreTold'
  <2>1. CASE s = "dispute"
    <3>1. /\ "persist" \notin op.todo /\ decided' = op.r /\ pending' = pending
      BY <2>1, WriteOrder DEF Effect
    <3>2. op.r \in pending \/ op.r = decided
      BY <1>1, <2>1, <3>1 DEF IInv, IOperation
    <3>3. QED BY <1>4, <3>1, <3>2 DEF IInv, HoldersAreTold, Told
  <2>2. CASE s = "unpend"
    <3>1. /\ {"dispute", "outbox", "observe"} \cap op.todo = {} /\ decided' = decided
      BY <2>2, WriteOrder DEF Effect
    <3>2. decided = op.r /\ Told(op.r)
      BY <1>1, <3>1 DEF IInv, IOperation, Told
    <3>3. QED BY <1>4, <3>1, <3>2 DEF HoldersAreTold, Told
  <2>3. CASE s \notin {"dispute", "unpend"}
    <3>1. decided' = decided /\ pending \subseteq pending'
      BY <2>3 DEF Effect
    <3>2. QED BY <1>4, <3>1 DEF IInv, HoldersAreTold, Told
  <2>4. QED BY <2>1, <2>2, <2>3
<1>6. OnlyDecisionsAreSent'
  <2>1. CASE s = "dispute"
    <3>1. decided' = op.r /\ outbox' = outbox /\ op.r \in Sources
      BY <1>1, <2>1 DEF Effect, Sources
    <3>2. CASE decided = None
      BY <3>1, <3>2 DEF IInv, OnlyDecisionsAreSent
    <3>3. CASE decided # None
      <4>1. op.r.over # 0
        BY <1>1, <2>1, <3>3 DEF IInv, IOperation
      <4>2. decided = op.r \/ (decided.by = Automatic /\ decided.n = op.r.over)
        BY <3>1, <4>1 DEF IInv, IReplacement
      <4>3. decided \in Sources
        BY <3>3 DEF Sources
      <4>4. decided.by = Automatic => decided.over = 0
        BY <4>3 DEF IInv, IReplacement, Human, Automatic
      <4>5. \A e \in outbox : e[1] # 0
        BY DEF IInv, ATypeOK
      <4>6. op.r # None
        BY <1>1, NoneAssumption
      <4>7. QED BY <3>1, <3>3, <4>2, <4>4, <4>5, <4>6 DEF IInv, OnlyDecisionsAreSent
    <3>4. QED BY <3>2, <3>3
  <2>2. CASE s = "outbox"
    <3>1. /\ decided' = decided /\ "dispute" \notin op.todo
          /\ outbox' \subseteq outbox \cup {<<op.r.n, h>> : h \in Holders}
      BY <2>2, WriteOrder DEF Effect
    <3>2. decided = op.r
      BY <1>1, <3>1 DEF IInv, IOperation
    <3>3. decided # None
      BY <1>1, <3>2, NoneAssumption
    <3>4. QED BY <3>1, <3>2, <3>3 DEF IInv, OnlyDecisionsAreSent
  <2>3. CASE s \notin {"dispute", "outbox"}
    <3>1. decided' = decided /\ outbox' = outbox
      BY <2>3 DEF Effect
    <3>2. QED BY <3>1 DEF IInv, OnlyDecisionsAreSent
  <2>4. QED BY <2>1, <2>2, <2>3
<1>7. QED BY <1>2, <1>3, <1>5, <1>6

\* What the operation still has to write keeps matching what is on the disk.
LEMMA WriteKeepsOperation ==
  ASSUME IInv, NEW s \in Steps, Effect(s),
         {"intent", "adopted"} \cap op.todo # {} => analysis' \in Analyses
  PROVE  IOperation'
<1> SUFFICES ASSUME op' # None PROVE IOperation!2'
  BY DEF IOperation
<1>1. op # None /\ s \in op.todo /\ op.r \in Resolutions
  BY DEF Effect, First
<1>2. op'.r = op.r /\ op'.todo \subseteq op.todo /\ op.todo \subseteq op'.todo \cup {s}
      /\ ev'.r = ev.r
  BY DEF Effect
<1>3. s # "outbox" => s \notin op'.todo
  BY DEF Effect
<1>4. IF "dispute" \in op'.todo THEN decided' = None \/ op'.r.over # 0 ELSE decided' = op'.r
  <2>1. CASE s = "dispute"
    BY <1>2, <1>3, <2>1 DEF Effect
  <2>2. CASE s # "dispute"
    <3>1. decided' = decided /\ ("dispute" \in op'.todo <=> "dispute" \in op.todo)
      BY <1>2, <2>2 DEF Effect
    <3>2. QED BY <1>1, <1>2, <3>1 DEF IInv, IOperation
  <2>3. QED BY <2>1, <2>2
<1>5. {"record", "dispute"} \cap op'.todo # {} /\ "persist" \notin op'.todo
        => op'.r \in pending' \/ op'.r = decided'
  <2>1. CASE s \in {"persist", "repersist"}
    BY <1>2, <2>1 DEF Effect
  <2>2. CASE s \in {"unpend", "dispute"}
    <3>1. {"record", "dispute"} \cap op'.todo = {}
      BY <1>2, <1>3, <2>2, WriteOrder DEF Effect
    <3>2. QED BY <3>1
  <2>3. CASE s \notin {"persist", "repersist", "unpend", "dispute"}
    <3>1. pending' = pending /\ decided' = decided
          /\ ("persist" \in op'.todo <=> "persist" \in op.todo)
      BY <1>2, <2>3 DEF Effect
    <3>2. QED BY <1>1, <1>2, <3>1 DEF IInv, IOperation
  <2>4. QED BY <2>1, <2>2, <2>3
<1>6. "dispute" \in op'.todo /\ "record" \notin op'.todo => record' = op'.r
  <2>1. CASE s = "record"
    BY <1>2, <2>1 DEF Effect
  <2>2. CASE s # "record"
    <3>1. record' = record /\ ("record" \in op'.todo <=> "record" \in op.todo)
      BY <1>2, <2>2 DEF Effect
    <3>2. QED BY <1>1, <1>2, <3>1 DEF IInv, IOperation
  <2>3. QED BY <2>1, <2>2
<1>7. "persist" \in op'.todo /\ "dispute" \in op'.todo => "record" \in op'.todo
  <2>1. CASE s = "record"
    BY <1>2, <2>1, WriteOrder DEF Effect
  <2>2. CASE s # "record"
    BY <1>1, <1>2, <2>2 DEF IInv, IOperation
  <2>3. QED BY <2>1, <2>2
<1>8. "outbox" \in op'.todo \/ (op'.r.notify => \A h \in Holders : <<op'.r.n, h>> \in outbox')
  <2>1. CASE s = "outbox"
    BY <1>1, <1>2, <2>1 DEF Effect
  <2>2. CASE s # "outbox"
    <3>1. "outbox" \in op'.todo <=> "outbox" \in op.todo
      BY <1>2, <2>2
    <3>2. outbox \subseteq outbox'
      BY DEF Effect
    <3>3. QED BY <1>1, <1>2, <3>1, <3>2 DEF IInv, IOperation
  <2>3. QED BY <2>1, <2>2
<1>9. "observe" \in op'.todo \/ op'.r.n \in noted'
  BY <1>1, <1>2 DEF IInv, IOperation, Effect
<1>10. "intent" \in op'.todo => op'.r.over = 0
  BY <1>1, <1>2 DEF IInv, IOperation
<1>11. {"intent", "adopted"} \cap op'.todo # {} => analysis' \in Analyses
  BY <1>2
<1>12. "persist" \in op'.todo /\ op'.r.over # 0 => record' # op'.r /\ ev'.r # op'.r
  <2>1. CASE s = "record"
    BY <1>2, <2>1, WriteOrder DEF Effect
  <2>2. CASE s # "record"
    BY <1>1, <1>2, <2>2 DEF IInv, IOperation, Effect
  <2>3. QED BY <2>1, <2>2
<1>13. QED BY <1>4, <1>5, <1>6, <1>7, <1>8, <1>9, <1>10, <1>11, <1>12

\* Every write of an operation preserves the invariant.
LEMMA WriteKeepsInvariant ==
  ASSUME IInv, WriteStep
  PROVE  IInv'
<1>1. ATypeOK /\ IAnalysis /\ IOperation /\ IMinted
  BY DEF IInv
<1>2. PICK s \in Steps : Effect(s)
  BY <1>1, WriteEffect
<1>3. op # None /\ op.r \in Sources
  BY <1>2, SourcesKept DEF Effect, First
<1>4. {"intent", "adopted"} \cap op.todo # {} => analysis \in Analyses
  BY <1>1, <1>3 DEF IOperation
<1>5. ATypeOK'
  BY <1>1, <1>4, WriteTypes
<1>6. analysis' = analysis \/ write_intent \/ preempt_current_analysis \/ write_adopted
  BY DEF WriteStep, persist_pending_delivery, write_resolution_record, write_dispute,
         ensure_outbox_entry, register_observation, remove_pending_delivery
<1>7. IAnalysis'
  <2>1. minted' = minted
    BY <1>2 DEF Effect
  <2>2. CASE analysis' = analysis
    BY <1>1, <2>1, <2>2 DEF IAnalysis
  <2>3. CASE write_intent
    <3>1. op.r.over = 0 /\ op.r.n <= minted /\ op.r # None /\ analysis \in Analyses
      BY <1>1, <1>3, <1>4, <2>3, FirstFacts, NoneAssumption
      DEF write_intent, IOperation, IMinted, First, Steps
    <3>2. analysis'.res = op.r
      BY <2>3, <3>1 DEF write_intent, Write, Analyses
    <3>3. QED BY <2>1, <3>1, <3>2 DEF IAnalysis
  <2>4. CASE preempt_current_analysis
    <3>1. analysis' = analysis \/ analysis' = Preempted(analysis)
      BY <2>4 DEF preempt_current_analysis, Write
    <3>2. analysis' = analysis \/ (analysis \in Analyses /\ analysis' = Failed(analysis))
      BY <1>1, <3>1 DEF Preempted, ATypeOK
    <3>3. analysis' = analysis \/ analysis'.state = "Failed"
      BY <3>2 DEF Failed, Analyses
    <3>4. QED BY <1>1, <2>1, <3>3 DEF IAnalysis
  <2>5. CASE write_adopted
    <3>1. analysis \in Analyses
      BY <1>4, <2>5 DEF write_adopted, First
    <3>2. analysis'.state = "Adopted"
      BY <2>5, <3>1 DEF write_adopted, Write, Analyses
    <3>3. QED BY <3>2 DEF IAnalysis
  <2>6. QED BY <1>6, <2>2, <2>3, <2>4, <2>5
<1>8. {"intent", "adopted"} \cap op.todo # {} => analysis' \in Analyses
  <2>1. analysis \in Analyses =>
          /\ Failed(analysis) \in Analyses /\ [analysis EXCEPT !.state = "Adopted"] \in Analyses
          /\ \A r \in Resolutions :
               [analysis EXCEPT !.state = "Adopting", !.res = r, !.lease = None] \in Analyses
    BY <1>1, AdoptionValues DEF Failed, Analyses, Terminal
  <2>2. op.r \in Resolutions
    BY <1>2 DEF Effect
  <2>3. QED
    BY <1>4, <1>6, <2>1, <2>2
    DEF write_intent, preempt_current_analysis, write_adopted, Write, Preempted
<1>9. QED
  BY <1>2, <1>5, <1>7, <1>8, WriteKeepsReplacement, WriteKeepsPromises, WriteKeepsOperation
  DEF IInv

----------------------------------------------------------------------------
\* The beginning of an operation

\* A list of files an operation may begin with on resolution r, given what is on the
\* disk.
MayBegin(r, todo) ==
  /\ IF "dispute" \in todo THEN decided = None \/ r.over # 0 ELSE decided = r
  /\ {"record", "dispute"} \cap todo # {} /\ "persist" \notin todo
       => r \in pending \/ r = decided
  /\ "dispute" \in todo => "record" \in todo
  /\ "outbox" \in todo \/ ~r.notify
  /\ "observe" \in todo
  /\ "intent" \in todo => r.over = 0
  /\ {"intent", "adopted"} \cap todo # {} => analysis \in Analyses

\* A person's replacement of the automatic decision, minted just now.
FreshReplacement(r, todo) ==
  /\ r.by = Human /\ r.over < r.n /\ decided # None /\ decided.by = Automatic
  /\ decided.n = r.over /\ "persist" \in todo /\ \A x \in Sources : x.over = 0

\* An operation that may begin preserves the invariant.
LEMMA BeginKeepsInvariant ==
  ASSUME IInv, op = None, NEW name \in {"adopt", "recover", "resolve", "deliver"},
         NEW r \in Resolutions, NEW todo \in SUBSET Steps, op' = Operation(name, r, todo),
         UNCHANGED <<decided, record, pending, outbox, noted, analysis>>,
         ATypeOK', minted' \in Nat, minted <= minted', r.n <= minted',
         MayBegin(r, todo),
         r.over # 0 => (r \in Sources /\ "persist" \notin todo) \/ FreshReplacement(r, todo),
         IF name = "deliver" THEN ev' = [pc |-> "deliver", r |-> r] /\ r \in pending
                             ELSE ev' = ev
  PROVE  IInv'
<1>1. op'.r = r /\ op'.todo = todo /\ op'.name = name
  BY DEF Operation
<1>2. Sources' \subseteq Sources \cup {r}
  BY <1>1 DEF Sources
<1>3. IMinted'
  <2>1. \A x \in Sources : x \in Resolutions
    BY DEF Sources, IInv, ATypeOK, Events
  <2>2. \A x \in Sources : x.n \in Nat
    BY <2>1, ArbitrationAssumption DEF Resolutions
  <2>3. minted \in Nat /\ minted' \in Nat
    BY ArbitrationAssumption DEF IInv, ATypeOK
  <2>4. \A x \in Sources : x.n <= minted'
    BY <2>2, <2>3 DEF IInv, IMinted
  <2>5. QED BY <1>2, <2>4 DEF IMinted
<1>4. IEvent'
  BY <1>1 DEF IInv, IEvent
<1>5. IReplacement'
  <2>1. CASE r.over = 0 \/ r \in Sources
    <3>1. ASSUME NEW x \in Sources', x.over # 0 PROVE x \in Sources
      BY <1>2, <2>1, <3>1
    <3>2. QED BY <3>1 DEF IInv, IReplacement
  <2>2. CASE FreshReplacement(r, todo)
    <3>1. ASSUME NEW x \in Sources', x.over # 0 PROVE x = r
      BY <1>2, <2>2, <3>1 DEF FreshReplacement
    <3>2. op' # None
      BY NoneAssumption, OperationType
    <3>3. QED BY <1>1, <2>2, <3>1, <3>2 DEF IReplacement, FreshReplacement
  <2>3. QED BY <2>1, <2>2
<1>6. IOperation'
  <2>1. "persist" \in todo /\ r.over # 0 => record # r /\ ev'.r # r
    <3>1. CASE FreshReplacement(r, todo)
      <4>1. r \notin Sources \/ r.over = 0
        BY <3>1 DEF FreshReplacement
      <4>2. r # None
        BY NoneAssumption
      <4>3. ev' = ev \/ r \in Sources
        BY DEF Sources
      <4>4. QED BY <4>1, <4>2, <4>3 DEF Sources
    <3>2. QED BY <3>1
  <2>2. QED BY <1>1, <2>1 DEF IOperation, MayBegin
<1>7. IRecord' /\ HoldersAreTold' /\ OnlyDecisionsAreSent' /\ RecordIsBacked'
  BY DEF IInv, IRecord, HoldersAreTold, OnlyDecisionsAreSent, RecordIsBacked, Told
<1>8. IAnalysis'
  <2>1. CASE analysis # None /\ analysis.state = "Adopting"
    <3>1. analysis.res \in Resolutions /\ analysis.res.n <= minted /\ analysis.res # None
          /\ analysis.res.over = 0
      BY <2>1 DEF IInv, IAnalysis, ATypeOK, Analyses
    <3>2. analysis.res.n \in Nat /\ minted \in Nat
      BY <3>1, ArbitrationAssumption DEF Resolutions, IInv, ATypeOK
    <3>3. QED BY <3>1, <3>2 DEF IAnalysis
  <2>2. QED BY <2>1 DEF IAnalysis
<1>9. QED BY <1>3, <1>4, <1>5, <1>6, <1>7, <1>8 DEF IInv

\* A step that leaves the decision, its files, the operation and the event alone
\* preserves the invariant if it leaves a sound analysis.
LEMMA AsideKeepsInvariant ==
  ASSUME IInv, ATypeOK', IAnalysis', op = None \/ analysis' = analysis,
         UNCHANGED <<decided, record, pending, outbox, noted, op, ev, minted>>
  PROVE  IInv'
<1>1. Sources' = Sources
  BY DEF Sources
<1>2. IReplacement' /\ IMinted' /\ IEvent' /\ IRecord'
  BY <1>1 DEF IInv, IReplacement, IMinted, IEvent, IRecord
<1>3. HoldersAreTold' /\ OnlyDecisionsAreSent' /\ RecordIsBacked'
  BY DEF IInv, HoldersAreTold, OnlyDecisionsAreSent, RecordIsBacked, Told
<1>4. IOperation'
  BY DEF IInv, IOperation
<1>5. QED BY <1>2, <1>3, <1>4 DEF IInv

\* What an operation that finishes an adoption may write.
LEMMA FinishMayBegin ==
  ASSUME NEW r \in Resolutions, r.over = 0, ~Overtaken(r), analysis \in Analyses
  PROVE  MayBegin(r, FinishAdoption(r))
  BY DEF MayBegin, FinishAdoption, Delivery, Overtaken

\* Requests, changed inputs and the work on the analysis preserve the invariant: none
\* of them begins an adoption.
LEMMA AnalysisStepsKeepInvariant ==
  ASSUME IInv, NEW a \in Actors,
         \/ report_dispute \/ create_analysis \/ inputs_change \/ abandon(a)
         \/ a \in Workers /\ \/ mark_analysis_preempted(a) \/ prepare_context(a)
                             \/ save_prepared_context(a) \/ acquire_phase(a)
                             \/ save_proposal(a) \/ save_verification(a)
                             \/ finish_failed(a) \/ start_reanalysis_round(a)
  PROVE  IInv'
<1>1. ATypeOK /\ IAnalysis
  BY DEF IInv
<1>2. analysis # None => analysis \in Analyses
  BY <1>1 DEF ATypeOK
<1>3. CASE report_dispute \/ create_analysis \/ inputs_change
  <2>1. ATypeOK'
    BY <1>1, <1>3, RequestTypes
  <2>2. /\ UNCHANGED <<decided, record, pending, outbox, noted, op, ev, minted>>
        /\ op = None \/ analysis' = analysis
        /\ analysis' = analysis \/ analysis' = NewAnalysis
    BY <1>3 DEF report_dispute, create_analysis, inputs_change, Unlocked
  <2>3. IAnalysis'
    BY <1>1, <2>2 DEF IAnalysis, NewAnalysis
  <2>4. QED BY <2>1, <2>2, <2>3, AsideKeepsInvariant
<1>4. CASE abandon(a)
  <2>1. ATypeOK'
    BY <1>1, <1>4, AdoptionTypes
  <2>2. /\ UNCHANGED <<decided, record, pending, outbox, noted, op, ev, minted>>
        /\ analysis' = analysis
    BY <1>4 DEF abandon, restUnchanged
  <2>3. IAnalysis'
    BY <1>1, <2>2 DEF IAnalysis
  <2>4. QED BY <2>1, <2>2, <2>3, AsideKeepsInvariant
<1>5. CASE a \in Workers /\ \/ mark_analysis_preempted(a) \/ prepare_context(a)
                            \/ save_prepared_context(a) \/ acquire_phase(a)
                            \/ save_proposal(a) \/ save_verification(a)
                            \/ finish_failed(a) \/ start_reanalysis_round(a)
  <2>1. ATypeOK'
    BY <1>1, <1>5, WorkerTypes
  <2>2. UNCHANGED <<decided, record, pending, outbox, noted, op, ev, minted>>
    BY <1>5 DEF mark_analysis_preempted, prepare_context, save_prepared_context,
                acquire_phase, save_proposal, save_verification, finish_failed,
                start_reanalysis_round, restUnchanged
  <2>3. op = None \/ analysis' = analysis
    BY <1>5 DEF mark_analysis_preempted, prepare_context, save_prepared_context,
                acquire_phase, save_proposal, save_verification, finish_failed,
                start_reanalysis_round, Unlocked
  <2>4. analysis' = analysis \/ (analysis' # None => analysis'.state # "Adopting")
    <3>1. CASE mark_analysis_preempted(a)
      BY <1>2, <3>1
      DEF mark_analysis_preempted, Write, Preempted, Failed, Analyses
    <3>2. CASE prepare_context(a)
      BY <1>2, <3>2 DEF prepare_context, Write, Failed, Analyses
    <3>3. CASE save_prepared_context(a)
      BY <1>2, <3>3 DEF save_prepared_context, Write, Current, Analyses
    <3>4. CASE acquire_phase(a)
      BY <1>2, <3>4 DEF acquire_phase, Write, Analyses
    <3>5. CASE save_proposal(a)
      BY <1>2, <3>5 DEF save_proposal, Write, Current, Fenced, Failed, Analyses
    <3>6. CASE save_verification(a)
      BY <1>2, <3>6 DEF save_verification, Write, Current, Fenced, Analyses
    <3>7. CASE finish_failed(a)
      BY <1>2, <3>7 DEF finish_failed, Write, Current, Fenced, Failed, Analyses
    <3>8. CASE start_reanalysis_round(a)
      BY <1>2, <3>8 DEF start_reanalysis_round, Write, Analyses
    <3>9. QED BY <1>5, <3>1, <3>2, <3>3, <3>4, <3>5, <3>6, <3>7, <3>8
  <2>5. IAnalysis'
    BY <1>1, <2>2, <2>4 DEF IAnalysis
  <2>6. QED BY <2>1, <2>2, <2>3, <2>5, AsideKeepsInvariant
<1>6. QED BY <1>3, <1>4, <1>5

\* An adoption that was begun earlier is resumed, or given up, without harm.
LEMMA ResumeKeepsInvariant ==
  ASSUME IInv, ATypeOK', op = None, analysis # None, analysis.state = "Adopting",
         UNCHANGED <<decided, record, pending, outbox, noted, ev, minted>>,
         \/ UNCHANGED <<analysis, op>>
         \/ analysis' = Superseded(analysis) /\ UNCHANGED op
         \/ /\ ~Overtaken(analysis.res) /\ UNCHANGED analysis
            /\ op' = Operation("adopt", analysis.res, FinishAdoption(analysis.res))
  PROVE  IInv'
<1>1. ATypeOK /\ IAnalysis
  BY DEF IInv
<1>2. analysis \in Analyses
  BY <1>1 DEF ATypeOK
<1>3. analysis.res \in Resolutions /\ analysis.res.over = 0 /\ analysis.res.n <= minted
  BY <1>1, <1>2 DEF IAnalysis, Analyses
<1>4. CASE UNCHANGED <<analysis, op>>
  <2>1. IAnalysis'
    BY <1>1, <1>4 DEF IAnalysis
  <2>2. QED BY <1>4, <2>1, AsideKeepsInvariant
<1>5. CASE analysis' = Superseded(analysis) /\ UNCHANGED op
  <2>1. analysis'.state = "Approved"
    BY <1>2, <1>5 DEF Superseded, Analyses
  <2>2. IAnalysis'
    BY <2>1 DEF IAnalysis
  <2>3. QED BY <1>5, <2>2, AsideKeepsInvariant
<1>6. CASE /\ ~Overtaken(analysis.res) /\ UNCHANGED analysis
           /\ op' = Operation("adopt", analysis.res, FinishAdoption(analysis.res))
  <2>1. MayBegin(analysis.res, FinishAdoption(analysis.res))
    BY <1>2, <1>3, <1>6, FinishMayBegin
  <2>2. minted' \in Nat /\ minted <= minted' /\ analysis.res.n <= minted'
    BY <1>1, <1>3, ArbitrationAssumption DEF ATypeOK
  <2>3. FinishAdoption(analysis.res) \in SUBSET Steps
    BY TodoTypes
  <2>4. QED BY <1>3, <1>6, <2>1, <2>2, <2>3, BeginKeepsInvariant
<1>7. QED BY <1>4, <1>5, <1>6

\* A stored human resolution may be brought to its end.
LEMMA StoredMayBegin ==
  ASSUME IInv, op = None, NEW r \in StoredHuman, RecoversDecision(r)
  PROVE  /\ r \in Resolutions /\ r \in Sources /\ r.n <= minted
         /\ MayBegin(r, Recovery(r)) /\ MayBegin(r, {"record", "dispute"} \cup Delivery(r))
         /\ "persist" \notin Recovery(r) \cup {"record", "dispute"} \cup Delivery(r)
<1>1. r.by = Human /\ (r \in pending \/ (record # None /\ r = record))
  BY StoredHumanFacts
<1>2. r \in Resolutions /\ r \in Sources
  BY <1>1 DEF IInv, ATypeOK, Sources
<1>3. r.n <= minted
  BY <1>2 DEF IInv, IMinted
<1>4. r \in pending \/ r = decided
  BY <1>1 DEF IInv, RecordIsBacked
<1>5. decided = None \/ r.over # 0
  BY DEF RecoversDecision
<1>6. MayBegin(r, Recovery(r)) /\ MayBegin(r, {"record", "dispute"} \cup Delivery(r))
  BY <1>4, <1>5 DEF MayBegin, Recovery, Delivery
<1>7. "persist" \notin Recovery(r) \cup {"record", "dispute"} \cup Delivery(r)
  BY DEF Recovery, Delivery
<1>8. QED BY <1>2, <1>3, <1>6, <1>7

\* The two locked sections of an adoption and the recovery of one preserve the
\* invariant.
LEMMA AdoptionKeepsInvariant ==
  ASSUME IInv, NEW a \in Actors,
         adopt_approved(a) \/ adopt_recheck(a) \/ recover_analysis_adoption(a)
  PROVE  IInv'
<1>1. ATypeOK /\ IAnalysis
  BY DEF IInv
<1>2. ATypeOK'
  BY <1>1, AdoptionTypes
<1>3. op = None /\ UNCHANGED <<decided, record, pending, outbox, noted, ev>>
  BY DEF adopt_approved, adopt_recheck, recover_analysis_adoption, Unlocked,
         adoptionUnchanged
<1>4. analysis # None => analysis \in Analyses
  BY <1>1 DEF ATypeOK
<1>5. ASSUME analysis # None, resume_matching_analysis_adoption(a), UNCHANGED minted
      PROVE  IInv'
  BY <1>2, <1>3, <1>5, ResumeKeepsInvariant DEF resume_matching_analysis_adoption, Write
<1>6. ASSUME UNCHANGED <<analysis, op, minted>>
      PROVE  IInv'
  <2>1. IAnalysis'
    BY <1>1, <1>6 DEF IAnalysis
  <2>2. QED BY <1>2, <1>3, <1>6, <2>1, AsideKeepsInvariant
<1>7. CASE adopt_approved(a)
  BY <1>5, <1>6, <1>7 DEF adopt_approved
<1>8. CASE recover_analysis_adoption(a)
  BY <1>2, <1>3, <1>8, ResumeKeepsInvariant DEF recover_analysis_adoption, Write
<1>9. CASE adopt_recheck(a)
  <2>1. CASE ~Current(a) \/ (analysis.state # "Adopting" /\ ~Adoptable)
    BY <1>6, <1>9, <2>1 DEF adopt_recheck, resume_matching_analysis_adoption
  <2>2. CASE Current(a) /\ resume_matching_analysis_adoption(a) /\ UNCHANGED minted
    BY <1>5, <2>2 DEF Current
  <2>3. CASE /\ Current(a) /\ Adoptable /\ UNCHANGED <<op, minted>>
             /\ \/ Write(Reanalysis(analysis))
                \/ Write([analysis EXCEPT !.blocked = TRUE])
    <3>1. analysis \in Analyses /\ analysis.state = "Approved"
      BY <1>4, <2>3 DEF Current, Adoptable
    <3>2. analysis'.state # "Adopting"
      BY <2>3, <3>1 DEF Write, Reanalysis, Analyses
    <3>3. IAnalysis'
      BY <3>2 DEF IAnalysis
    <3>4. QED BY <1>2, <1>3, <2>3, <3>3, AsideKeepsInvariant
  <2>4. CASE Current(a) /\ Adoptable /\ begin_analysis_adoption(a)
    <3>1. decided = None /\ analysis \in Analyses /\ analysis' = analysis
      BY <1>4, <2>4 DEF Adoptable, Current, begin_analysis_adoption
    <3>2. CASE UNCHANGED <<op, minted>>
      BY <1>6, <3>1, <3>2
    <3>3. CASE \E r \in StoredHuman :
                 /\ op' = Operation("recover", r, {"record", "dispute"} \cup Delivery(r))
                 /\ UNCHANGED minted
      <4>1. PICK r \in StoredHuman :
                 /\ op' = Operation("recover", r, {"record", "dispute"} \cup Delivery(r))
                 /\ UNCHANGED minted
        BY <3>3
      <4>2. RecoversDecision(r)
        BY <3>1 DEF RecoversDecision
      <4>3. /\ r \in Resolutions /\ r \in Sources /\ r.n <= minted
            /\ MayBegin(r, {"record", "dispute"} \cup Delivery(r))
            /\ "persist" \notin {"record", "dispute"} \cup Delivery(r)
        BY <1>3, <4>2, StoredMayBegin
      <4>4. minted' \in Nat /\ minted <= minted' /\ r.n <= minted'
        BY <1>1, <4>1, <4>3, ArbitrationAssumption DEF ATypeOK
      <4>5. {"record", "dispute"} \cup Delivery(r) \in SUBSET Steps
        BY TodoTypes
      <4>6. QED BY <1>2, <1>3, <3>1, <4>1, <4>3, <4>4, <4>5, BeginKeepsInvariant
    <3>4. CASE /\ minted < MaxRes /\ minted' = minted + 1
               /\ LET r == Minted(By(a), analysis.id, 0, TRUE)
                  IN op' = Operation("adopt", r, {"intent"} \cup FinishAdoption(r))
      <4> DEFINE r == Minted(By(a), analysis.id, 0, TRUE)
      <4>1. r \in Resolutions
        <5>1. /\ 0 \in 0..MaxRes /\ TRUE \in BOOLEAN /\ analysis.id \in 0..MaxAnalyses
              /\ By(a) \in {Human, Automatic}
          BY <3>1, ArbitrationAssumption DEF By, Analyses
        <5>2. QED BY <1>1, <3>4, <5>1, MintedType
      <4>2. r.over = 0 /\ r.n = minted + 1
        BY DEF Minted
      <4>3. MayBegin(r, {"intent"} \cup FinishAdoption(r))
        BY <3>1, <4>1, <4>2 DEF MayBegin, FinishAdoption, Delivery
      <4>4. {"intent"} \cup FinishAdoption(r) \in SUBSET Steps
        BY TodoTypes
      <4>5. op' = Operation("adopt", r, {"intent"} \cup FinishAdoption(r))
        BY <3>4
      <4>6. minted \in Nat /\ minted' = minted + 1
        BY <1>1, <3>4, ArbitrationAssumption DEF ATypeOK
      <4> HIDE DEF r
      <4>7. minted' \in Nat /\ minted <= minted' /\ r.n <= minted'
        BY <4>2, <4>6
      <4>8. QED
        BY <1>2, <1>3, <3>1, <4>1, <4>2, <4>3, <4>7, <4>4, <4>5, BeginKeepsInvariant
    <3>5. QED BY <2>4, <3>2, <3>3, <3>4, Zenon DEF begin_analysis_adoption
  <2>5. QED BY <1>9, <2>1, <2>2, <2>3, <2>4, Zenon DEF adopt_recheck
<1>10. QED BY <1>7, <1>8, <1>9

\* A person's resolution, stored or new, begins without harm: a replacement is minted
\* only while no other one exists.
LEMMA HumanKeepsInvariant ==
  ASSUME IInv, resolve_human \/ reject_and_replace
  PROVE  IInv'
<1>1. ATypeOK /\ IReplacement
  BY DEF IInv
<1>2. ATypeOK'
  BY <1>1, HumanTypes
<1>3. op = None /\ UNCHANGED <<decided, record, pending, outbox, noted, analysis, ev>>
  BY DEF resolve_human, reject_and_replace, Unlocked, disk
<1>4. minted \in Nat /\ (decided # None => decided.n \in 1..MaxRes)
  BY <1>1, ArbitrationAssumption DEF ATypeOK, Resolutions
<1>5. ASSUME NEW r \in StoredHuman, RecoversDecision(r), UNCHANGED minted,
             op' = Operation("resolve", r, Recovery(r))
      PROVE  IInv'
  <2>1. /\ r \in Resolutions /\ r \in Sources /\ r.n <= minted
        /\ MayBegin(r, Recovery(r)) /\ "persist" \notin Recovery(r)
    BY <1>3, <1>5, StoredMayBegin
  <2>2. minted' \in Nat /\ minted <= minted' /\ r.n <= minted'
    BY <1>4, <1>5, <2>1
  <2>3. Recovery(r) \in SUBSET Steps
    BY TodoTypes
  <2>4. QED BY <1>2, <1>3, <1>5, <2>1, <2>2, <2>3, BeginKeepsInvariant
<1>6. CASE resolve_human
  <2>1. decided = None
    BY <1>6 DEF resolve_human, Open
  <2>2. CASE \E r \in StoredHuman : op' = Operation("resolve", r, Recovery(r))
                                    /\ UNCHANGED minted
    BY <1>5, <2>1, <2>2 DEF RecoversDecision
  <2>3. ASSUME NEW notify \in BOOLEAN, minted < MaxRes, minted' = minted + 1,
               op' = Operation("resolve", Minted(Human, 0, 0, notify),
                               Commit(Minted(Human, 0, 0, notify)))
        PROVE  IInv'
    <3> DEFINE r == Minted(Human, 0, 0, notify)
    <3>1. r \in Resolutions
      BY <1>1, <2>3, MintedType, ArbitrationAssumption
    <3>2. r.over = 0 /\ r.n = minted + 1
      BY DEF Minted
    <3>3. MayBegin(r, Commit(r))
      BY <2>1, <3>1, <3>2 DEF MayBegin, Commit, Delivery
    <3>4. minted' \in Nat /\ minted <= minted' /\ r.n <= minted'
      BY <1>4, <2>3, <3>2
    <3>5. Commit(r) \in SUBSET Steps /\ op' = Operation("resolve", r, Commit(r))
      BY <2>3, TodoTypes
    <3> HIDE DEF r
    <3>6. QED BY <1>2, <1>3, <3>1, <3>2, <3>3, <3>4, <3>5, BeginKeepsInvariant
  <2>4. QED BY <1>6, <2>2, <2>3 DEF resolve_human
<1>7. CASE reject_and_replace
  <2>1. CASE \E r \in StoredHuman : RecoversDecision(r)
    BY <1>5, <1>7, <2>1 DEF reject_and_replace
  <2>2. CASE ~(\E r \in StoredHuman : RecoversDecision(r))
    <3> DEFINE r == Minted(Human, 0, decided.n, TRUE)
    <3>1. /\ decided # None /\ decided.by = Automatic /\ record = decided
          /\ minted < MaxRes /\ minted' = minted + 1
          /\ op' = Operation("resolve", r, Commit(r))
      BY <1>7, <2>2 DEF reject_and_replace
    <3>2. r \in Resolutions
      <4>1. decided.n \in 0..MaxRes /\ 0 \in 0..MaxAnalyses /\ TRUE \in BOOLEAN
        BY <1>4, <3>1, ArbitrationAssumption
      <4>2. QED BY <1>1, <3>1, <4>1, MintedType
    <3>3. r.by = Human /\ r.over = decided.n /\ r.n = minted + 1
      BY DEF Minted
    <3>4. decided.n \in 1..MaxRes /\ decided.n <= minted /\ minted' = minted + 1
      <4>1. decided \in Sources
        BY <3>1 DEF Sources
      <4>2. decided.n <= minted
        BY <4>1 DEF IInv, IMinted
      <4>3. QED BY <1>4, <3>1, <4>2
    <3>5. ASSUME NEW x \in Sources, x.over # 0 PROVE FALSE
      <4>1. /\ x.by = Human /\ x.over < x.n
            /\ decided = x \/ (decided.n = x.over /\ x \in pending)
        BY <1>1, <1>3, <3>5 DEF IReplacement
      <4>2. decided # x
        BY <3>1, <4>1, ArbitrationAssumption DEF Human, Automatic
      <4>3. x \in StoredHuman
        BY <4>1, <4>2 DEF StoredHuman, HumanIntents
      <4>4. x \in Resolutions
        BY <1>1, <4>1, <4>2 DEF ATypeOK
      <4>5. decided.n # x.n
        BY <1>4, <3>1, <4>1, <4>2, <4>4, ArbitrationAssumption DEF Resolutions
      <4>6. RecoversDecision(x)
        BY <3>1, <3>5, <4>5 DEF RecoversDecision
      <4>7. QED BY <2>2, <4>3, <4>6
    <3>6. Commit(r) \in SUBSET Steps
      BY TodoTypes
    <3>7. op' = Operation("resolve", r, Commit(r))
      BY <3>1
    <3> HIDE DEF r
    <3>8. r.over # 0 /\ r.over < r.n
      BY <1>4, <3>3, <3>4
    <3>9. FreshReplacement(r, Commit(r))
      BY <3>1, <3>3, <3>8, <3>5 DEF FreshReplacement, Commit
    <3>10. MayBegin(r, Commit(r))
      BY <3>2, <3>8 DEF MayBegin, Commit, Delivery
    <3>11. minted' \in Nat /\ minted <= minted' /\ r.n <= minted'
      BY <1>4, <3>3, <3>4
    <3>12. QED
      BY <1>2, <1>3, <3>2, <3>8, <3>9, <3>10, <3>11, <3>6, <3>7, BeginKeepsInvariant
  <2>3. QED BY <2>1, <2>2
<1>8. QED BY <1>6, <1>7

----------------------------------------------------------------------------
\* Events and faults

\* An operation or an event that ends, and leaves the files alone, preserves the
\* invariant: no replacement that was not persisted is left anywhere.
LEMMA EndKeepsInvariant ==
  ASSUME IInv, ATypeOK', op' = None,
         UNCHANGED <<decided, record, pending, outbox, noted, analysis, minted>>,
         ev'.r = ev.r \/ ev'.r = None, ev'.pc \notin {"idle", "ended"} => ev'.r \in Resolutions
  PROVE  IInv'
<1>1. Sources' \subseteq Sources
  BY DEF Sources
<1>2. ASSUME NEW x \in Sources', x.over # 0
      PROVE  x = decided \/ x \in pending
  <2>1. CASE op # None /\ x = op.r /\ "persist" \in op.todo
    <3>1. record # x /\ ev.r # x
      BY <1>2, <2>1 DEF IInv, IOperation
    <3>2. QED BY <1>2, <3>1 DEF Sources
  <2>2. CASE ~(op # None /\ x = op.r /\ "persist" \in op.todo)
    BY <1>1, <1>2, <2>2 DEF IInv, IReplacement
  <2>3. QED BY <2>1, <2>2
<1>3. IReplacement'
  BY <1>1, <1>2 DEF IInv, IReplacement
<1>4. IMinted' /\ IEvent' /\ IOperation'
  BY <1>1 DEF IInv, IMinted, IEvent, IOperation
<1>5. IRecord' /\ IAnalysis' /\ HoldersAreTold' /\ OnlyDecisionsAreSent' /\ RecordIsBacked'
  BY DEF IInv, IRecord, IAnalysis, HoldersAreTold, OnlyDecisionsAreSent, RecordIsBacked, Told
<1>6. QED BY <1>3, <1>4, <1>5 DEF IInv

\* A pending delivery is taken up, or given up because the decision is another one;
\* a delivered analysis is closed; a retry writes back what is still the decision's.
LEMMA EventKeepsInvariant ==
  ASSUME IInv, EventStep \/ cut \/ crash \/ scheduler_ends
  PROVE  IInv'
<1>1. ATypeOK /\ IEvent /\ IReplacement
  BY DEF IInv
<1>2. ATypeOK'
  BY <1>1, EventTypes
<1>3. CASE cut
  <2>1. ev \in Events /\ (op.name = "deliver" => ev.r \in Resolutions)
    BY <1>1, <1>3 DEF cut, ATypeOK, IEvent
  <2>2. ev'.r = ev.r /\ (ev'.pc \notin {"idle", "ended"} => ev'.r \in Resolutions)
    BY <1>1, <1>3, <2>1 DEF cut, Events, IEvent
  <2>3. QED BY <1>2, <1>3, <2>2, EndKeepsInvariant DEF cut, disk
<1>4. CASE crash
  BY <1>2, <1>4, EndKeepsInvariant DEF crash, disk, NoEvent
<1>8. CASE scheduler_ends
  <2>1. /\ UNCHANGED <<decided, analysis, record, pending, outbox, noted, op, minted>>
        /\ ev'.r = None /\ ev'.pc = "ended" /\ ev.pc # "deliver"
    BY <1>8 DEF scheduler_ends, disk, Ended
  <2>2. Sources' \subseteq Sources
    BY <2>1 DEF Sources
  <2>3. IReplacement' /\ IMinted' /\ IRecord' /\ IAnalysis'
    BY <1>1, <2>1, <2>2 DEF IInv, IReplacement, IMinted, IRecord, IAnalysis
  <2>4. IEvent'
    BY <1>1, <2>1 DEF IEvent
  <2>5. IOperation'
    <3>1. op # None => op.r # None
      BY <1>1, NoneAssumption DEF ATypeOK, Operations
    <3>2. QED BY <2>1, <3>1 DEF IInv, IOperation
  <2>6. HoldersAreTold' /\ OnlyDecisionsAreSent' /\ RecordIsBacked'
    BY <2>1 DEF IInv, HoldersAreTold, OnlyDecisionsAreSent, RecordIsBacked, Told
  <2>7. QED BY <1>2, <2>3, <2>4, <2>5, <2>6 DEF IInv
<1>5. CASE complete_analysis_adoption_after_delivery
  <2>1. /\ op = None /\ op' = None
        /\ UNCHANGED <<decided, record, pending, outbox, noted, minted>>
    BY <1>5 DEF complete_analysis_adoption_after_delivery, Unlocked
  <2>2. ev'.r = ev.r \/ ev'.r = None
    BY <1>1, <1>5 DEF complete_analysis_adoption_after_delivery, NoEvent, ATypeOK, Events
  <2>3. ev'.pc \notin {"idle", "ended"} => ev'.r \in Resolutions
    BY <1>1, <1>5
    DEF complete_analysis_adoption_after_delivery, NoEvent, ATypeOK, Events, IEvent
  <2>4. CASE UNCHANGED analysis
    BY <1>2, <2>1, <2>2, <2>3, <2>4, EndKeepsInvariant
  <2>5. CASE ~UNCHANGED analysis
    <3>1. analysis \in Analyses /\ analysis' = [analysis EXCEPT !.state = "Adopted"]
      BY <1>1, <1>5, <2>5 DEF complete_analysis_adoption_after_delivery, Write, ATypeOK
    <3>2. IAnalysis'
      BY <3>1 DEF IAnalysis, Analyses
    <3>3. Sources' \subseteq Sources
      BY <2>1, <2>2 DEF Sources
    <3>4. IReplacement'
      BY <1>1, <2>1, <3>3 DEF IReplacement
    <3>5. IMinted' /\ IEvent' /\ IOperation' /\ IRecord'
      BY <2>1, <2>3, <3>3 DEF IInv, IMinted, IEvent, IOperation, IRecord
    <3>6. HoldersAreTold' /\ OnlyDecisionsAreSent' /\ RecordIsBacked'
      BY <2>1 DEF IInv, HoldersAreTold, OnlyDecisionsAreSent, RecordIsBacked, Told
    <3>7. QED BY <1>2, <3>2, <3>4, <3>5, <3>6 DEF IInv
  <2>6. QED BY <2>4, <2>5
<1>6. CASE persist_retry
  <2>1. UNCHANGED <<decided, analysis, record, outbox, noted, op, minted>>
    BY <1>6 DEF persist_retry
  <2>2. ev.r \in Resolutions /\ ev.pc \in {"retry", "rewrite"} /\ ev.r \in Sources
    BY <1>1, <1>6, NoneAssumption DEF persist_retry, IEvent, Sources
  <2>3. /\ pending' = pending \/ pending' = pending \cup {ev.r}
        /\ ev'.r = ev.r \/ ev'.r = None
        /\ ev'.pc \notin {"idle", "ended"} => ev'.r \in Resolutions
    BY <1>1, <1>6, <2>2 DEF persist_retry, ATypeOK, Events, NoEvent
  <2>4. Sources' \subseteq Sources
    BY <2>1, <2>2, <2>3 DEF Sources
  <2>5. pending \subseteq pending'
    BY <2>3
  <2>6. IReplacement'
    BY <1>1, <2>1, <2>4, <2>5 DEF IReplacement
  <2>7. IMinted' /\ IRecord' /\ IAnalysis'
    BY <2>1, <2>4 DEF IInv, IMinted, IRecord, IAnalysis
  <2>8. IEvent'
    <3>1. ~(op # None /\ op.name = "deliver")
      BY <1>1, <2>2 DEF IEvent
    <3>2. QED BY <2>1, <2>3, <3>1 DEF IEvent
  <2>9. IOperation'
    <3>1. op # None /\ "persist" \in op.todo /\ op.r.over # 0 => record # op.r /\ ev'.r # op.r
      <4>1. ASSUME op # None PROVE op.r # None
        BY <1>1, <4>1, NoneAssumption DEF ATypeOK, Operations
      <4>2. QED BY <2>3, <4>1 DEF IInv, IOperation
    <3>2. QED BY <2>1, <2>5, <3>1 DEF IInv, IOperation
  <2>10. HoldersAreTold' /\ OnlyDecisionsAreSent' /\ RecordIsBacked'
    BY <2>1, <2>5 DEF IInv, HoldersAreTold, OnlyDecisionsAreSent, RecordIsBacked, Told
  <2>11. QED BY <1>2, <2>6, <2>7, <2>8, <2>9, <2>10 DEF IInv
<1>7. CASE recover_pending_delivery
  <2>1. /\ op = None
        /\ UNCHANGED <<decided, analysis, record, outbox, noted, minted>>
    BY <1>7 DEF recover_pending_delivery, Unlocked
  <2> DEFINE mayCommit(r) == \/ decided = None
                             \/ r.by = Human /\ r.over # 0 /\ decided.by = Automatic
             todo(r) == Delivery(r) \cup (IF decided = r THEN {} ELSE {"record", "dispute"})
                                    \cup (IF record = r THEN {} ELSE {"record"})
  <2>2. PICK r \in pending :
          \/ /\ decided = r \/ mayCommit(r)
             /\ ev' = [pc |-> "deliver", r |-> r]
             /\ op' = Operation("deliver", r, todo(r)) /\ UNCHANGED pending
          \/ /\ decided # r /\ ~mayCommit(r)
             /\ ev' = [pc |-> "complete", r |-> r]
             /\ pending' = pending \ {r} /\ UNCHANGED op
    BY <1>7 DEF recover_pending_delivery
  <2>3. r \in Resolutions /\ r \in Sources /\ r.n <= minted /\ minted \in Nat
    BY <1>1, ArbitrationAssumption DEF ATypeOK, Sources, IInv, IMinted
  <2>4. CASE /\ decided = r \/ mayCommit(r)
             /\ ev' = [pc |-> "deliver", r |-> r]
             /\ op' = Operation("deliver", r, todo(r)) /\ UNCHANGED pending
    <3>1. todo(r) \in SUBSET Steps /\ "persist" \notin todo(r)
      BY DEF Delivery, Steps
    <3>2. MayBegin(r, todo(r))
      BY <2>4 DEF MayBegin, Delivery
    <3>3. minted' \in Nat /\ minted <= minted' /\ r.n <= minted'
      BY <2>1, <2>3
    <3>4. QED
      <4> HIDE DEF todo
      <4>1. QED BY <1>2, <2>1, <2>3, <2>4, <3>1, <3>2, <3>3, BeginKeepsInvariant
  <2>5. CASE /\ decided # r /\ ~mayCommit(r)
             /\ ev' = [pc |-> "complete", r |-> r]
             /\ pending' = pending \ {r} /\ UNCHANGED op
    <3>1. Sources' \subseteq Sources
      BY <2>1, <2>3, <2>5 DEF Sources
    <3>2. r.over = 0
      BY <1>1, <2>3, <2>5 DEF IReplacement
    <3>3. record # r
      BY <2>5, <3>2, NoneAssumption, <2>3 DEF IInv, IRecord
    <3>4. IReplacement'
      BY <1>1, <2>1, <2>5, <3>1, <3>2 DEF IReplacement
    <3>5. IMinted' /\ IRecord' /\ IAnalysis' /\ IOperation'
      BY <2>1, <2>5, <3>1 DEF IInv, IMinted, IRecord, IAnalysis, IOperation
    <3>6. IEvent'
      BY <2>1, <2>3, <2>5 DEF IEvent
    <3>7. HoldersAreTold' /\ OnlyDecisionsAreSent' /\ RecordIsBacked'
      BY <2>1, <2>5, <3>3 DEF IInv, HoldersAreTold, OnlyDecisionsAreSent, RecordIsBacked, Told
    <3>8. QED BY <1>2, <3>4, <3>5, <3>6, <3>7 DEF IInv
  <2>6. QED BY <2>2, <2>4, <2>5
<1>9. QED BY <1>3, <1>4, <1>5, <1>6, <1>7, <1>8 DEF EventStep

----------------------------------------------------------------------------
\* The theorems

\* The invariant holds at the start.
LEMMA InitInvariant == Init => IInv
<1>1. SUFFICES ASSUME Init PROVE IInv
  OBVIOUS
<1>2. ATypeOK
  BY <1>1, InitType
<1>3. Sources = {}
  BY <1>1 DEF Init, Sources, NoEvent
<1>4. IReplacement /\ IMinted
  BY <1>3 DEF IReplacement, IMinted
<1>5. QED
  BY <1>1, <1>2, <1>4
  DEF Init, IInv, IOperation, IRecord, IAnalysis, IEvent, NoEvent, HoldersAreTold,
      OnlyDecisionsAreSent, RecordIsBacked

\* Every step preserves the invariant.
LEMMA NextInvariant == IInv /\ [Next]_vars => IInv'
<1>1. SUFFICES ASSUME IInv, [Next]_vars PROVE IInv'
  OBVIOUS
<1>2. CASE UNCHANGED vars
  <2>1. Sources' = Sources
    BY <1>2 DEF vars, Sources
  <2>2. ATypeOK'
    BY <1>1, <1>2 DEF IInv, ATypeOK, vars
  <2>3. IAnalysis'
    BY <1>1, <1>2 DEF IInv, IAnalysis, vars
  <2>4. QED BY <1>1, <1>2, <2>2, <2>3, AsideKeepsInvariant DEF vars
<1>3. CASE report_dispute \/ create_analysis \/ inputs_change
  <2>1. Human \in Actors
    BY DEF Actors
  <2>2. QED BY <1>1, <1>3, <2>1, AnalysisStepsKeepInvariant
<1>4. CASE resolve_human \/ reject_and_replace
  BY <1>1, <1>4, HumanKeepsInvariant
<1>5. CASE \E w \in Workers : WorkerStep(w)
  <2>1. PICK w \in Workers : WorkerStep(w)
    BY <1>5
  <2>2. w \in Actors
    BY DEF Actors
  <2>3. QED
    BY <1>1, <2>1, <2>2, AnalysisStepsKeepInvariant, AdoptionKeepsInvariant DEF WorkerStep
<1>6. CASE \E a \in Actors : adopt_approved(a) \/ adopt_recheck(a) \/ abandon(a)
  BY <1>1, <1>6, AnalysisStepsKeepInvariant, AdoptionKeepsInvariant
<1>7. CASE WriteStep
  BY <1>1, <1>7, WriteKeepsInvariant
<1>8. CASE EventStep \/ cut \/ crash \/ scheduler_ends
  BY <1>1, <1>8, EventKeepsInvariant
<1>9. QED BY <1>1, <1>2, <1>3, <1>4, <1>5, <1>6, <1>7, <1>8 DEF Next

\* The files of a dispute, its operation, runs and events keep their types, whatever
\* interleaves and wherever it is cut.
THEOREM ArbitrationTypes == Spec => []ATypeOK
<1>1. IInv => ATypeOK
  BY DEF IInv
<1>2. QED BY InitInvariant, NextInvariant, <1>1, PTL DEF Spec

\* A committed resolution that some holder was not told of, or that was not registered
\* for observation, still has its pending delivery (finish_analysis_adoption_locked,
\* resolve_human, recover_pending_delivery).
THEOREM DeliveryIsOwed == Spec => []HoldersAreTold
<1>1. IInv => HoldersAreTold
  BY DEF IInv
<1>2. QED BY InitInvariant, NextInvariant, <1>1, PTL DEF Spec

\* Only a committed resolution, or the automatic one it replaced, is ever sent to a
\* holder (ensure_delivery).
THEOREM SentIsDecided == Spec => []OnlyDecisionsAreSent
<1>1. IInv => OnlyDecisionsAreSent
  BY DEF IInv
<1>2. QED BY InitInvariant, NextInvariant, <1>1, PTL DEF Spec

\* A resolution file that is not the decision is backed by its pending delivery
\* (write_resolution_record comes after persist_pending_delivery and before unpend).
THEOREM RecordsAreBacked == Spec => []RecordIsBacked
<1>1. IInv => RecordIsBacked
  BY DEF IInv
<1>2. QED BY InitInvariant, NextInvariant, <1>1, PTL DEF Spec

\* Only write_dispute writes the decision, and its operation was begun on an open
\* dispute or on a replacement of this very decision.
LEMMA DecisionStep ==
  ASSUME IInv, [Next]_vars, decided # None
  PROVE  \/ decided' = decided
         \/ /\ decided.by = Automatic /\ decided' # None
            /\ decided'.by = Human /\ decided'.over = decided.n
<1>1. SUFFICES ASSUME decided' # decided
               PROVE  /\ decided.by = Automatic /\ decided' # None
                      /\ decided'.by = Human /\ decided'.over = decided.n
  OBVIOUS
<1>2. write_dispute
  BY <1>1
  DEF Next, vars, disk, report_dispute, create_analysis, inputs_change, resolve_human,
      reject_and_replace, WorkerStep, mark_analysis_preempted, prepare_context,
      save_prepared_context, acquire_phase, save_proposal, save_verification,
      finish_failed, start_reanalysis_round, restUnchanged, recover_analysis_adoption,
      adoptionUnchanged, adopt_approved, adopt_recheck, abandon, WriteStep, write_intent,
      persist_pending_delivery, write_resolution_record, preempt_current_analysis,
      ensure_outbox_entry, register_observation, remove_pending_delivery, write_adopted,
      EventStep, recover_pending_delivery, complete_analysis_adoption_after_delivery,
      persist_retry, cut, crash, scheduler_ends
<1>3. op # None /\ "dispute" \in op.todo /\ decided' = op.r /\ op.r # None
  BY <1>2, NoneAssumption DEF write_dispute, First, IInv, ATypeOK, Operations
<1>4. op.r.over # 0 /\ op.r \in Sources
  BY <1>3 DEF IInv, IOperation, Sources
<1>5. QED BY <1>1, <1>3, <1>4 DEF IInv, IReplacement

\* A decision changes only when a person replaces the automatic resolution they
\* rejected (reject_and_replace; finish_analysis_adoption_locked and resolve_human
\* leave a decided dispute alone).
THEOREM DecisionsAreFinal == Spec => DecisionsStand
<1> DEFINE Stands == decided # None =>
             \/ decided' = decided
             \/ /\ decided.by = Automatic /\ decided' # None
                /\ decided'.by = Human /\ decided'.over = decided.n
<1>1. IInv /\ [Next]_vars => [Stands]_decided
  BY DecisionStep
<1>2. QED BY InitInvariant, NextInvariant, <1>1, PTL DEF Spec, DecisionsStand

----------------------------------------------------------------------------
\* Adoption

\* What a step may do to the analysis file: begin another analysis, move the current
\* one on, freeze or drop its context, save its verdict, fix or end its adoption.
Kept == analysis # None /\ analysis'.id = analysis.id
SameInputs == Kept /\ analysis'.fp = analysis.fp /\ analysis'.seen = analysis.seen
Renewed == op = None /\ op' = None /\ analysis' = NewAnalysis /\ created' = created + 1
Moved ==
  /\ op = None /\ op' = None /\ SameInputs
  /\ analysis'.state \notin {"Adopting", "Adopted"}
  /\ analysis'.state = "Approved" => analysis.state \in {"Approved", "Adopting"}
Frozen(w) ==
  /\ op = None /\ op' = None /\ Kept /\ analysis'.fp \in {0, run[w].fp}
  /\ analysis'.seen = analysis.seen /\ analysis'.state \in {"Pending", "Proposing"}
Judged(w) ==
  /\ op = None /\ op' = None /\ Kept /\ analysis'.fp = analysis.fp
  /\ analysis'.seen = world /\ analysis'.state \in {"Approved", "Unresolved"}
  /\ run'[w] = Idle
PreemptedNow == preempt_current_analysis /\ SameInputs /\ analysis'.state = "Failed"
Fixed ==
  /\ write_intent /\ SameInputs /\ analysis'.state = "Adopting" /\ analysis'.res = op.r
Closed ==
  /\ SameInputs /\ analysis'.state = "Adopted" /\ analysis'.res = analysis.res
  /\ \/ write_adopted
     \/ /\ op = None /\ op' = None /\ ev.pc = "complete" /\ record = ev.r
        /\ analysis.state = "Adopting" /\ analysis.res = ev.r

AnalysisMoves ==
  \/ UNCHANGED analysis
  \/ Renewed \/ Moved \/ (\E w \in Workers : Frozen(w) \/ Judged(w))
  \/ PreemptedNow \/ Fixed \/ Closed

LEMMA WorkerMovesAnalysis ==
  ASSUME IInv, NEW w \in Workers,
         \/ mark_analysis_preempted(w) \/ prepare_context(w) \/ save_prepared_context(w)
         \/ acquire_phase(w) \/ save_proposal(w) \/ save_verification(w)
         \/ finish_failed(w) \/ start_reanalysis_round(w)
  PROVE  AnalysisMoves
<1>1. /\ analysis # None => analysis \in Analyses
      /\ run \in Runs /\ w \in Actors
  BY DEF IInv, ATypeOK, Actors
<1>2. SUFFICES ASSUME analysis' # analysis PROVE AnalysisMoves
  BY DEF AnalysisMoves
<1>3. UNCHANGED op
  BY DEF mark_analysis_preempted, prepare_context, save_prepared_context, acquire_phase,
     save_proposal, save_verification, finish_failed, start_reanalysis_round, restUnchanged
<1>4. op = None /\ analysis \in Analyses /\ analysis # None
  BY <1>1, <1>2 DEF mark_analysis_preempted, prepare_context, save_prepared_context, acquire_phase,
     save_proposal, save_verification, finish_failed, start_reanalysis_round, Unlocked, Fenced,
     Current
<1> USE DEF AnalysisMoves, Write, Kept, SameInputs
<1>5. CASE mark_analysis_preempted(w) \/ finish_failed(w)
  BY <1>2, <1>3, <1>4, <1>5 DEF mark_analysis_preempted, finish_failed, Preempted, Failed, Moved,
     Analyses
<1>6. CASE prepare_context(w)
  BY <1>2, <1>3, <1>4, <1>6 DEF prepare_context, Failed, Moved, Analyses
<1>7. CASE save_prepared_context(w)
  <2>1. CASE analysis' = [analysis EXCEPT !.state = "Failed"]
    BY <1>3, <1>4, <2>1 DEF Moved, Analyses
  <2>2. CASE analysis' = [analysis EXCEPT !.state = "Proposing", !.lease = w, !.fp = run[w].fp]
    BY <1>3, <1>4, <2>2 DEF Frozen, Analyses
  <2>3. QED BY <1>2, <1>7, <2>1, <2>2 DEF save_prepared_context
<1>8. CASE acquire_phase(w)
  BY <1>3, <1>4, <1>8 DEF acquire_phase, Moved, Analyses
<1>9. CASE save_proposal(w)
  BY <1>2, <1>3, <1>4, <1>9 DEF save_proposal, Failed, Moved, Analyses
<1>10. CASE save_verification(w)
  <2>1. run'[w] = Idle
    BY <1>1, <1>10 DEF save_verification, Done, Runs
  <2>2. PICK v \in {"Approved", "Unresolved"} :
          analysis' = [analysis EXCEPT !.state = v, !.lease = None, !.seen = world]
    BY <1>2, <1>10 DEF save_verification
  <2>3. Judged(w)
    BY <1>3, <1>4, <2>1, <2>2 DEF Judged, Analyses
  <2>4. QED BY <2>3
<1>11. CASE start_reanalysis_round(w)
  BY <1>3, <1>4, <1>11 DEF start_reanalysis_round, Frozen, Analyses
<1>12. QED BY <1>5, <1>6, <1>7, <1>8, <1>9, <1>10, <1>11

LEMMA AdoptionMovesAnalysis ==
  ASSUME IInv, NEW a \in Actors,
         adopt_approved(a) \/ adopt_recheck(a) \/ recover_analysis_adoption(a)
  PROVE  AnalysisMoves
<1>1. SUFFICES ASSUME analysis' # analysis PROVE AnalysisMoves
  BY DEF AnalysisMoves
<1>2. op = None /\ op' = None /\ analysis # None /\ analysis \in Analyses
  BY <1>1 DEF adopt_approved, adopt_recheck, recover_analysis_adoption, Unlocked, Current, IInv,
     ATypeOK, resume_matching_analysis_adoption, begin_analysis_adoption
<1>3. \/ analysis.state = "Adopting" /\ analysis' = Superseded(analysis)
      \/ Adoptable /\ analysis' \in {Reanalysis(analysis), [analysis EXCEPT !.blocked = TRUE]}
  BY <1>1 DEF adopt_approved, adopt_recheck, recover_analysis_adoption, Write,
     resume_matching_analysis_adoption, begin_analysis_adoption
<1>4. Moved
  BY ZenonT(60), <1>2, <1>3 DEF Moved, SameInputs, Kept, Superseded, Reanalysis, Analyses, Adoptable
<1>5. QED BY <1>4 DEF AnalysisMoves

LEMMA WriteMovesAnalysis ==
  ASSUME IInv, WriteStep
  PROVE  AnalysisMoves
<1>0. op # None /\ op.todo # {}
  BY DEF WriteStep, write_intent, persist_pending_delivery, write_resolution_record, write_dispute,
     preempt_current_analysis, ensure_outbox_entry, register_observation, remove_pending_delivery,
     write_adopted, First
<1> USE DEF AnalysisMoves, SameInputs, Kept, Write
<1>1. CASE write_intent \/ write_adopted
  <2>1. analysis \in Analyses
    BY <1>0, <1>1 DEF IInv, IOperation, write_intent, write_adopted, First
  <2>2. QED
    BY <1>1, <2>1, NoneAssumption DEF write_intent, write_adopted, Fixed, Closed, Analyses
<1>2. CASE preempt_current_analysis
  <2>1. analysis' = analysis \/ (analysis # None /\ analysis' = Failed(analysis))
    BY <1>2 DEF preempt_current_analysis, Preempted
  <2>2. QED BY <1>2, <2>1 DEF IInv, ATypeOK, PreemptedNow, Failed, Analyses
<1>3. QED
  BY <1>1, <1>2 DEF WriteStep, persist_pending_delivery, write_resolution_record, write_dispute,
     ensure_outbox_entry, register_observation, remove_pending_delivery

LEMMA StepMovesAnalysis ==
  ASSUME IInv, [Next]_vars
  PROVE  AnalysisMoves
<1>1. CASE \E w \in Workers : WorkerStep(w)
  <2>1. Workers \subseteq Actors
    BY DEF Actors
  <2>2. QED BY <1>1, <2>1, WorkerMovesAnalysis, AdoptionMovesAnalysis DEF WorkerStep
<1>2. CASE \E a \in Actors : adopt_approved(a) \/ adopt_recheck(a)
  BY <1>2, AdoptionMovesAnalysis
<1>3. CASE WriteStep
  BY <1>3, WriteMovesAnalysis
<1>4. CASE complete_analysis_adoption_after_delivery
  <2>1. SUFFICES ASSUME analysis' # analysis PROVE Closed
    BY DEF AnalysisMoves
  <2>2. /\ op = None /\ op' = None /\ ev.pc = "complete" /\ record = ev.r /\ analysis # None
        /\ analysis.state = "Adopting" /\ analysis.res = ev.r
        /\ analysis' = [analysis EXCEPT !.state = "Adopted"]
    BY <1>4, <2>1 DEF complete_analysis_adoption_after_delivery, Unlocked, Write
  <2>3. analysis \in Analyses
    BY <2>2 DEF IInv, ATypeOK
  <2>4. QED BY <2>2, <2>3 DEF Closed, SameInputs, Kept, Analyses
<1>5. CASE report_dispute \/ create_analysis
  <2>1. op = None /\ UNCHANGED op
    BY <1>5 DEF report_dispute, create_analysis, Unlocked
  <2>2. UNCHANGED analysis \/ (analysis' = NewAnalysis /\ created' = created + 1)
    BY <1>5 DEF report_dispute, create_analysis
  <2>3. QED BY <2>1, <2>2 DEF AnalysisMoves, Renewed
<1>6. CASE \/ inputs_change \/ resolve_human \/ reject_and_replace \/ cut \/ crash \/ scheduler_ends
           \/ recover_pending_delivery \/ persist_retry \/ UNCHANGED vars
           \/ \E a \in Actors : abandon(a)
  BY <1>6 DEF inputs_change, resolve_human, reject_and_replace, cut, crash, scheduler_ends, disk, abandon,
     recover_pending_delivery, persist_retry, vars, AnalysisMoves
<1>7. QED BY <1>1, <1>2, <1>3, <1>4, <1>5, <1>6 DEF Next, EventStep

\* The operation that is to close an adoption is about the analysis on the disk.
IAdopting ==
  op # None /\ "adopted" \in op.todo /\ "intent" \notin op.todo =>
    analysis.state = "Adopting" /\ analysis.res = op.r

\* A delivery event that is done has delivered the decision, or a resolution that will
\* not be the decision any more.
IComplete ==
  ev.pc = "complete" => decided # None /\ (ev.r.over = 0 /\ decided = ev.r => Told(ev.r))

\* A closed adoption has its resolution, and that one was decided and delivered.
IAdopted ==
  (analysis # None /\ analysis.state = "Adopted") =>
    /\ analysis.res \in Resolutions /\ decided # None
    /\ analysis.res.n \in {decided.n, decided.over} /\ Told(analysis.res)

\* An adoption begins with its intent, or takes up the one on the disk.
LEMMA OperationBegins ==
  ASSUME IInv, [Next]_vars, op = None, op' # None
  PROVE  /\ UNCHANGED analysis
         /\ \/ {"intent", "adopted"} \cap op'.todo = {}
            \/ /\ "intent" \notin op'.todo /\ analysis.state = "Adopting"
               /\ op'.r = analysis.res
            \/ /\ "intent" \in op'.todo
               /\ \E a \in Actors : /\ run[a].pc = "adopt" /\ Current(a) /\ Adoptable
                                    /\ InputsUnchanged(a) /\ op'.r.by = By(a)
<1> USE DEF Operation, Delivery
<1>1. ASSUME op' = Operation("adopt", analysis.res, FinishAdoption(analysis.res)),
             analysis.state = "Adopting", UNCHANGED analysis
      PROVE  /\ UNCHANGED analysis
             /\ "intent" \notin op'.todo /\ analysis.state = "Adopting" /\ op'.r = analysis.res
  BY <1>1 DEF FinishAdoption
<1>2. ASSUME NEW a \in Actors, run[a].pc = "adopt", Current(a), Adoptable, InputsUnchanged(a),
             begin_analysis_adoption(a)
      PROVE  /\ UNCHANGED analysis
             /\ \/ {"intent", "adopted"} \cap op'.todo = {}
                \/ "intent" \in op'.todo /\ op'.r.by = By(a)
  BY <1>2 DEF begin_analysis_adoption, FinishAdoption, Minted
<1>3. CASE \E a \in Actors : adopt_approved(a) \/ adopt_recheck(a)
  <2>1. PICK a \in Actors : adopt_approved(a) \/ adopt_recheck(a)
    BY <1>3
  <2>2. \/ /\ op' = Operation("adopt", analysis.res, FinishAdoption(analysis.res))
           /\ analysis.state = "Adopting" /\ UNCHANGED analysis
        \/ /\ run[a].pc = "adopt" /\ Current(a) /\ Adoptable /\ InputsUnchanged(a)
           /\ begin_analysis_adoption(a)
    BY <2>1 DEF adopt_approved, adopt_recheck, resume_matching_analysis_adoption
  <2>3. QED BY <1>1, <1>2, <2>2
<1>4. CASE \E w \in Workers : recover_analysis_adoption(w)
  BY <1>1, <1>4 DEF recover_analysis_adoption
<1>5. CASE resolve_human \/ reject_and_replace
  <2>1. PICK r, todo : op' = Operation("resolve", r, todo) /\ todo \in {Recovery(r), Commit(r)}
    BY <1>5 DEF resolve_human, reject_and_replace
  <2>2. {"intent", "adopted"} \cap todo = {} /\ op'.todo = todo
    BY <2>1 DEF Recovery, Commit
  <2>3. UNCHANGED analysis
    BY <1>5 DEF resolve_human, reject_and_replace, disk
  <2>4. QED BY <2>2, <2>3
<1>6. CASE recover_pending_delivery
  <2>1. PICK r, todo : /\ op' = Operation("deliver", r, todo)
                       /\ {"intent", "adopted"} \cap todo = {}
    BY <1>6 DEF recover_pending_delivery
  <2>2. QED BY <1>6, <2>1 DEF recover_pending_delivery
<1>7. ~UNCHANGED op
  OBVIOUS
<1>8. ~WriteStep
  BY DEF WriteStep, write_intent, First, write_resolution_record, write_dispute,
     persist_pending_delivery, preempt_current_analysis, ensure_outbox_entry,
     register_observation, remove_pending_delivery, write_adopted
<1>9. /\ ~report_dispute /\ ~create_analysis /\ ~inputs_change
      /\ \A a \in Actors : ~abandon(a)
      /\ ~UNCHANGED vars /\ ~cut /\ ~crash /\ ~scheduler_ends
  BY <1>7 DEF report_dispute, create_analysis, inputs_change, abandon, restUnchanged, vars, cut,
     crash, scheduler_ends
<1>10. \A w \in Workers : WorkerStep(w) => recover_analysis_adoption(w)
  BY <1>7 DEF WorkerStep, mark_analysis_preempted, prepare_context, save_prepared_context,
     acquire_phase, save_proposal, save_verification, finish_failed, start_reanalysis_round,
     restUnchanged
<1>11. EventStep => recover_pending_delivery
  BY <1>7 DEF EventStep, complete_analysis_adoption_after_delivery, persist_retry
<1>12. QED BY <1>3, <1>4, <1>5, <1>6, <1>8, <1>9, <1>10, <1>11 DEF Next

\* Under way, an operation only gets shorter, by the files it writes.
LEMMA OperationGoesOn ==
  ASSUME IInv, [Next]_vars, op # None, op' # None
  PROVE  op' = op \/ (WriteStep /\ op'.r = op.r /\ op'.todo \subseteq op.todo)
<1>1. CASE WriteStep
  <2>1. PICK s \in Steps : Effect(s)
    BY <1>1, WriteEffect DEF IInv
  <2>2. QED BY <1>1, <2>1 DEF Effect
<1>2. CASE ~WriteStep
  <2>1. UNCHANGED op
    BY <1>2 DEF Next, vars, disk, report_dispute, create_analysis, inputs_change, WorkerStep,
      mark_analysis_preempted, prepare_context, save_prepared_context, acquire_phase,
      save_proposal, save_verification, finish_failed, start_reanalysis_round, restUnchanged,
      recover_analysis_adoption, adopt_approved, adopt_recheck, resolve_human, reject_and_replace,
      abandon, EventStep, recover_pending_delivery, Unlocked,
      complete_analysis_adoption_after_delivery, persist_retry, cut, crash, scheduler_ends
  <2>2. QED BY <2>1
<1>3. QED BY <1>1, <1>2

ToldThen(r) == r.n \in noted' /\ (r.notify => \A h \in Holders : <<r.n, h>> \in outbox')

\* What was told stays told.
LEMMA ToldStays ==
  ASSUME IInv, [Next]_vars
  PROVE  \A r : Told(r) => ToldThen(r)
<1>1. outbox \subseteq outbox' /\ noted \subseteq noted'
  <2>1. CASE WriteStep
    <3>1. PICK s \in Steps : Effect(s)
      BY <2>1, WriteEffect DEF IInv
    <3>2. QED BY <3>1 DEF Effect
  <2>2. CASE ~WriteStep
    <3>1. UNCHANGED <<outbox, noted>>
      BY <2>2 DEF Next, vars, disk, report_dispute, create_analysis, inputs_change, WorkerStep,
        mark_analysis_preempted, prepare_context, save_prepared_context, acquire_phase,
        save_proposal, save_verification, finish_failed, start_reanalysis_round, restUnchanged,
        recover_analysis_adoption, adoptionUnchanged, adopt_approved, adopt_recheck,
        resolve_human, reject_and_replace, abandon, EventStep, recover_pending_delivery,
        complete_analysis_adoption_after_delivery, persist_retry, cut, crash, scheduler_ends
    <3>2. QED BY <3>1
  <2>3. QED BY <2>1, <2>2
<1>2. QED BY <1>1 DEF Told, ToldThen

\* The intent is the first file of an adoption and the closed analysis its last.
LEMMA FirstAndLast ==
  ASSUME NEW s \in Steps, First(s), op.todo \subseteq Steps
  PROVE  (s # "intent" => "intent" \notin op.todo) /\ (s = "adopted" => op.todo = {"adopted"})
<1>1. /\ Rank["persist"] = 2 /\ Rank["record"] = 3 /\ Rank["dispute"] = 4
      /\ Rank["preempt"] = 5 /\ Rank["repersist"] = 6 /\ Rank["outbox"] = 7
      /\ Rank["observe"] = 8 /\ Rank["unpend"] = 9 /\ Rank["adopted"] = 10
      /\ Rank["intent"] = 1
  BY DEF Rank, Steps
<1>2. \A t \in op.todo : Rank[s] <= Rank[t]
  BY DEF First
<1>3. s # "intent" => "intent" \notin op.todo
  BY <1>1, <1>2 DEF Steps
<1>4. ASSUME s = "adopted", NEW t \in op.todo PROVE t = "adopted"
  BY <1>1, <1>2, <1>4 DEF Steps
<1>5. QED BY <1>3, <1>4 DEF First

LEMMA AdoptingNext ==
  ASSUME IInv, IAdopting, [Next]_vars
  PROVE  IAdopting'
<1>1. SUFFICES ASSUME op' # None, "adopted" \in op'.todo, "intent" \notin op'.todo
               PROVE  analysis'.state = "Adopting" /\ analysis'.res = op'.r
  BY DEF IAdopting
<1>2. AnalysisMoves
  BY StepMovesAnalysis
<1>3. CASE op = None
  BY <1>1, <1>3, OperationBegins
<1>4. CASE op # None
  <2>1. op'.r = op.r /\ op'.todo \subseteq op.todo /\ op \in Operations
    BY <1>1, <1>4, OperationGoesOn DEF IInv, ATypeOK
  <2>2. CASE write_intent
    <3>1. "intent" \in op.todo /\ analysis \in Analyses
      BY <1>4, <2>2 DEF write_intent, First, IInv, IOperation
    <3>2. analysis' = [analysis EXCEPT !.state = "Adopting", !.res = op.r, !.lease = None]
      BY <2>2 DEF write_intent, Write
    <3>3. QED BY <2>1, <3>1, <3>2 DEF Analyses
  <2>3. CASE write_adopted
    <3>1. First("adopted") /\ op.todo \subseteq Steps /\ Wrote("adopted")
      BY <2>1, <2>3 DEF write_adopted, Operations
    <3>2. op.todo = {"adopted"}
      BY <3>1, FirstAndLast DEF Steps
    <3>3. QED BY <1>1, <3>1, <3>2 DEF Wrote
  <2>4. CASE ~write_intent /\ ~write_adopted
    <3>1. analysis' = analysis \/ PreemptedNow
      BY <1>2, <1>4, <2>4 DEF AnalysisMoves, Renewed, Moved, Frozen, Judged, Fixed, Closed
    <3>2. "intent" \notin op.todo
      <4>1. CASE op' = op
        BY <1>1, <4>1
      <4>2. CASE op' # op
        <5>1. WriteStep
          BY <1>1, <1>4, <4>2, OperationGoesOn
        <5>2. PICK s \in Steps : First(s) /\ s # "intent"
          BY <2>4, <5>1 DEF WriteStep, write_intent, persist_pending_delivery,
             write_resolution_record, write_dispute, preempt_current_analysis,
             ensure_outbox_entry, register_observation, remove_pending_delivery, write_adopted, Steps
        <5>3. QED BY <2>1, <5>2, FirstAndLast DEF Operations
      <4>3. QED BY <4>1, <4>2
    <3>3. analysis.state = "Adopting" /\ analysis.res = op.r
      BY <1>1, <1>4, <2>1, <3>2 DEF IAdopting
    <3>4. analysis' = analysis
      BY <3>1, <3>3 DEF PreemptedNow, preempt_current_analysis, Write, Preempted
    <3>5. QED BY <2>1, <3>3, <3>4
  <2>5. QED BY <2>2, <2>3, <2>4
<1>5. QED BY <1>3, <1>4

\* With its last file an operation has decided and told its resolution.
LEMMA OperationTells ==
  ASSUME IInv, NEW s \in Steps, Effect(s), op.todo = {s}, op' = None
  PROVE  decided' = op.r /\ ToldThen(op.r)
<1>1. op # None /\ op.r \in Resolutions
  BY DEF Effect, First
<1>2. decided' = op.r
  BY <1>1 DEF IInv, IOperation, Effect
<1>3. op.r.notify => \A h \in Holders : <<op.r.n, h>> \in outbox'
  BY <1>1 DEF IInv, IOperation, Effect
<1>4. op.r.n \in noted'
  BY <1>1 DEF IInv, IOperation, Effect
<1>5. QED BY <1>2, <1>3, <1>4 DEF ToldThen

LEMMA CompleteNext ==
  ASSUME IInv, IComplete, [Next]_vars
  PROVE  IComplete'
<1>1. SUFFICES ASSUME ev'.pc = "complete"
               PROVE  decided' # None /\ (ev'.r.over = 0 /\ decided' = ev'.r => ToldThen(ev'.r))
  BY DEF IComplete, Told, ToldThen
<1>2. CASE ev.pc = "complete" /\ ev'.r = ev.r
  <2>1. decided # None /\ (ev.r.over = 0 /\ decided = ev.r => Told(ev.r))
    BY <1>2 DEF IComplete
  <2>2. decided.n \in 1..MaxRes
    BY <2>1 DEF IInv, ATypeOK, Resolutions
  <2>3. /\ decided' # None
        /\ decided' = decided \/ decided'.over # 0
    BY <2>1, <2>2, DecisionStep
  <2>4. QED BY <1>2, <2>1, <2>3, ToldStays
<1>3. CASE WriteStep /\ ~(ev.pc = "complete" /\ ev'.r = ev.r)
  <2>1. PICK s \in Steps : Effect(s)
    BY <1>3, WriteEffect DEF IInv
  <2>2. /\ op # None /\ op.name = "deliver" /\ op' = None /\ ev'.r = ev.r /\ ev.r = op.r
        /\ op.r # None
    BY <1>1, <1>3, <2>1, NoneAssumption DEF Effect, First, IInv, IEvent
  <2>3. op.todo = {s}
    BY <1>1, <1>3, <2>1, <2>2, NoneAssumption DEF Effect
  <2>4. QED BY <2>1, <2>2, <2>3, OperationTells
<1>4. CASE recover_pending_delivery
  <2>1. PICK r \in pending : ev'.r = r /\ decided # r /\ decided # None
    BY <1>1, <1>4 DEF recover_pending_delivery
  <2>2. decided' = decided
    BY <1>4 DEF recover_pending_delivery
  <2>3. QED BY <2>1, <2>2
<1>5. CASE ~WriteStep /\ ~recover_pending_delivery
  <2>1. ev \in Events
    BY DEF IInv, ATypeOK
  <2>2. UNCHANGED ev \/ ev'.pc # "complete"
    <3>1. CASE complete_analysis_adoption_after_delivery \/ persist_retry \/ cut \/ crash \/ scheduler_ends
      BY <2>1, <3>1 DEF complete_analysis_adoption_after_delivery, persist_retry, cut, crash, scheduler_ends,
         NoEvent, Ended, disk, Events
    <3>2. CASE \E w \in Workers : WorkerStep(w)
      BY <3>2 DEF WorkerStep, mark_analysis_preempted, prepare_context, save_prepared_context,
         acquire_phase, save_proposal, save_verification, finish_failed, start_reanalysis_round,
         restUnchanged, recover_analysis_adoption, adoptionUnchanged
    <3>3. CASE \/ \E a \in Actors : adopt_approved(a) \/ adopt_recheck(a) \/ abandon(a)
               \/ report_dispute \/ create_analysis \/ inputs_change
               \/ resolve_human \/ reject_and_replace \/ UNCHANGED vars
      BY <3>3 DEF adopt_approved, adopt_recheck, abandon, restUnchanged, adoptionUnchanged,
         report_dispute, create_analysis, inputs_change, resolve_human, reject_and_replace, vars
    <3>4. QED BY <1>5, <3>1, <3>2, <3>3 DEF Next, EventStep
  <2>3. QED BY <1>1, <1>2, <2>2
<1>6. QED BY <1>2, <1>3, <1>4, <1>5

LEMMA AdoptedNext ==
  ASSUME IInv, IAdopting, IComplete, IAdopted, [Next]_vars
  PROVE  IAdopted'
<1>1. SUFFICES ASSUME analysis' # None, analysis'.state = "Adopted"
               PROVE  /\ analysis'.res \in Resolutions /\ decided' # None
                      /\ analysis'.res.n \in {decided'.n, decided'.over} /\ ToldThen(analysis'.res)
  BY DEF IAdopted, Told, ToldThen
<1>2. AnalysisMoves
  BY StepMovesAnalysis
<1>3. CASE UNCHANGED analysis
  <2>1. /\ analysis.res \in Resolutions /\ decided # None
        /\ analysis.res.n \in {decided.n, decided.over} /\ Told(analysis.res)
    BY <1>1, <1>3 DEF IAdopted
  <2>2. analysis.res.n # 0 /\ decided \in Sources
    BY <2>1 DEF Resolutions, Sources
  <2>3. decided.by = Automatic => analysis.res.n = decided.n
    BY <2>1, <2>2 DEF IInv, IReplacement, Human, Automatic
  <2>4. decided' # None /\ analysis.res.n \in {decided'.n, decided'.over}
    BY <2>1, <2>3, DecisionStep
  <2>5. QED BY <1>3, <2>1, <2>4, ToldStays
<1>4. CASE analysis' # analysis
  <2>1. Closed
    BY <1>1, <1>2, <1>4 DEF AnalysisMoves, Renewed, NewAnalysis, Moved, Frozen, Judged,
       PreemptedNow, Fixed
  <2>2. CASE write_adopted
    <3>1. First("adopted") /\ Wrote("adopted") /\ op # None /\ op \in Operations
      BY <2>2 DEF write_adopted, First, IInv, ATypeOK
    <3>2. op.todo = {"adopted"} /\ op.r \in Resolutions
      BY <3>1, FirstAndLast DEF Steps, Operations
    <3>3. analysis.res = op.r
      BY <3>1, <3>2 DEF IAdopting
    <3>4. decided = op.r /\ Told(op.r)
      BY <3>1, <3>2 DEF IInv, IOperation, Told
    <3>5. UNCHANGED <<decided, outbox, noted>>
      BY <2>2 DEF write_adopted
    <3>6. QED BY <2>1, <3>2, <3>3, <3>4, <3>5, NoneAssumption DEF Closed, Told, ToldThen
  <2>3. CASE /\ ev.pc = "complete" /\ record = ev.r
             /\ analysis.state = "Adopting" /\ analysis.res = ev.r /\ ~write_adopted
    <3>1. analysis # None /\ ev.r \in Resolutions /\ ev.r.over = 0
      BY <2>1, <2>3 DEF Closed, SameInputs, Kept, IInv, IAnalysis, IEvent
    <3>2. decided = ev.r
      BY <2>3, <3>1, NoneAssumption DEF IInv, IRecord, IComplete
    <3>3. Told(ev.r)
      BY <2>3, <3>1, <3>2 DEF IComplete
    <3>4. decided' = decided
      <4>1. CASE WriteStep
        <5>1. op # None
          BY <4>1 DEF WriteStep, write_intent, persist_pending_delivery, write_resolution_record,
             write_dispute, preempt_current_analysis, ensure_outbox_entry, register_observation,
             remove_pending_delivery, write_adopted, First
        <5>2. QED BY <2>1, <2>3, <5>1 DEF Closed
      <4>2. CASE ~WriteStep
        BY <4>2 DEF Next, vars, disk, report_dispute, create_analysis, inputs_change, WorkerStep,
          mark_analysis_preempted, prepare_context, save_prepared_context, acquire_phase,
          save_proposal, save_verification, finish_failed, start_reanalysis_round, restUnchanged,
          recover_analysis_adoption, adoptionUnchanged, adopt_approved, adopt_recheck,
          resolve_human, reject_and_replace, abandon, EventStep, recover_pending_delivery,
          complete_analysis_adoption_after_delivery, persist_retry, cut, crash, scheduler_ends
      <4>3. QED BY <4>1, <4>2
    <3>5. QED BY <2>1, <2>3, <3>1, <3>2, <3>3, <3>4, ToldStays, NoneAssumption DEF Closed
  <2>4. QED BY <2>1, <2>2, <2>3 DEF Closed
<1>5. QED BY <1>3, <1>4

\* An analysis shown as adopted has decided the dispute, until a person replaced it, and
\* every holder was told of its resolution: whoever closes it, the adoption itself
\* (finish_analysis_adoption_locked) or the event that delivered it
\* (complete_analysis_adoption_after_delivery), and wherever others were cut.
THEOREM AdoptionsAreDone == Spec => []AdoptedIsDone
<1> DEFINE Inv == IInv /\ IAdopting /\ IComplete /\ IAdopted
<1>1. Init => Inv
  BY InitInvariant DEF Init, IAdopting, IComplete, IAdopted, NoEvent
<1>2. Inv /\ [Next]_vars => Inv'
  BY NextInvariant, AdoptingNext, CompleteNext, AdoptedNext
<1>3. Inv => AdoptedIsDone
  BY DEF IAdopted, AdoptedIsDone
<1>4. QED BY <1>1, <1>2, <1>3, PTL DEF Spec

----------------------------------------------------------------------------
\* What an adoption has read

\* One maintainer process serves the team store, so one worker analyses (spawn_scheduler
\* has a single consumer); people adopt beside it.
OneWorker == \E w : Workers = {w}

\* Analyses are numbered in order, and a run is about one of them.
IIds == /\ analysis # None => analysis.id <= created
        /\ \A a \in Actors : run[a].id <= created

\* Versions are read in order: the frozen context before the verdict, the verdict before
\* the context of an adoption.
IVersions ==
  /\ analysis # None =>
       /\ analysis.fp <= world /\ analysis.seen <= world
       /\ analysis.state \in {"Approved", "Adopting"} => analysis.fp <= analysis.seen
  /\ \A a \in Actors : run[a].fp <= world
  /\ \A w \in Workers : run[w].pc = "adopt" /\ Current(w) => analysis.seen <= run[w].fp

\* An intent in hand is about the approved analysis on the disk, and an automatic one is
\* about inputs that were the same from first to last.
IIntent ==
  op # None /\ "intent" \in op.todo =>
    /\ analysis.state = "Approved"
    /\ op.r.by = Automatic => analysis.fp = analysis.seen

\* What a step does to the run of an actor: it ends, moves on, or begins with the
\* current analysis and the current version; an adoption begins only so.
RunMoves(a) ==
  \/ run'[a] = run[a] \/ run'[a] = Idle
  \/ /\ run'[a].id = run[a].id /\ run'[a].fp = run[a].fp
     /\ run'[a].pc \in {"propose", "verify"}
  \/ /\ analysis # None /\ run'[a].id = analysis.id /\ run'[a].fp \in {0, world}
     /\ run'[a].pc = "adopt" => run'[a].fp = world /\ UNCHANGED analysis

LEMMA StepMovesRun ==
  ASSUME IInv, [Next]_vars, NEW a \in Actors
  PROVE  RunMoves(a)
<1>0. run \in Runs /\ run[a] \in [pc : {"idle", "build", "propose", "verify", "adopt"},
                                  id : 0..MaxAnalyses, fp : 0..MaxWorld]
  BY DEF IInv, ATypeOK, Runs
<1>1. ASSUME UNCHANGED run PROVE RunMoves(a)
  BY <1>1 DEF RunMoves
<1>2. ASSUME NEW b \in Actors, Done(b) PROVE RunMoves(a)
  BY <1>0, <1>2 DEF RunMoves, Done, Runs
<1>3. ASSUME NEW b \in Actors, Goto(b, "propose") \/ Goto(b, "verify") PROVE RunMoves(a)
  BY <1>0, <1>3 DEF RunMoves, Goto, Runs
<1>4. ASSUME NEW b \in Actors, NEW pc, NEW fp \in {0, world}, analysis # None,
             pc = "adopt" => fp = world /\ UNCHANGED analysis,
             run' = [run EXCEPT ![b] = [pc |-> pc, id |-> analysis.id, fp |-> fp]]
      PROVE  RunMoves(a)
  BY <1>0, <1>4 DEF RunMoves, Runs
<1>5. Workers \subseteq Actors
  BY DEF Actors
<1>6. ASSUME NEW w \in Workers, WorkerStep(w) PROVE RunMoves(a)
  <2>1. CASE mark_analysis_preempted(w) \/ save_verification(w) \/ finish_failed(w)
    BY <1>2, <1>5, <2>1 DEF mark_analysis_preempted, save_verification, finish_failed
  <2>2. CASE save_prepared_context(w) \/ save_proposal(w)
    BY <1>2, <1>3, <1>5, <2>2 DEF save_prepared_context, save_proposal
  <2>3. CASE prepare_context(w)
    BY <1>1, <1>4, <1>5, <2>3 DEF prepare_context
  <2>4. CASE acquire_phase(w)
    <3>1. PICK pc \in {"propose", "verify"} :
            run' = [run EXCEPT ![w] = [pc |-> pc, id |-> analysis.id, fp |-> 0]]
      BY <2>4 DEF acquire_phase
    <3>2. analysis # None
      BY <2>4 DEF acquire_phase
    <3>3. QED BY <1>4, <1>5, <3>1, <3>2
  <2>5. CASE start_reanalysis_round(w) \/ recover_analysis_adoption(w)
    BY <1>1, <2>5 DEF start_reanalysis_round, recover_analysis_adoption
  <2>6. QED BY <1>6, <2>1, <2>2, <2>3, <2>4, <2>5 DEF WorkerStep
<1>7. ASSUME NEW b \in Actors, adopt_approved(b) \/ adopt_recheck(b) \/ abandon(b)
      PROVE  RunMoves(a)
  <2>1. \/ Done(b)
        \/ /\ analysis # None /\ UNCHANGED analysis
           /\ run' = [run EXCEPT ![b] = [pc |-> "adopt", id |-> analysis.id, fp |-> world]]
    BY <1>7 DEF adopt_approved, adopt_recheck, abandon, resume_matching_analysis_adoption
  <2>2. QED BY <1>2, <1>4, <2>1
<1>8. CASE crash
  BY <1>8 DEF crash, RunMoves
<1>9. CASE WriteStep
  <2>1. UNCHANGED run
    BY <1>9 DEF WriteStep, write_intent, persist_pending_delivery, write_resolution_record,
       write_dispute, preempt_current_analysis, ensure_outbox_entry, register_observation,
       remove_pending_delivery, write_adopted, Wrote
  <2>2. QED BY <1>1, <2>1
<1>10. CASE \/ report_dispute \/ create_analysis \/ inputs_change \/ resolve_human
            \/ reject_and_replace \/ EventStep \/ cut \/ scheduler_ends \/ UNCHANGED vars
  <2>1. UNCHANGED run
    BY <1>10 DEF report_dispute, create_analysis, inputs_change, resolve_human, reject_and_replace,
       EventStep, recover_pending_delivery, complete_analysis_adoption_after_delivery,
       persist_retry, cut, scheduler_ends, disk, vars
  <2>2. QED BY <1>1, <2>1
<1>11. QED BY <1>6, <1>7, <1>8, <1>9, <1>10 DEF Next

\* The counters only grow.
LEMMA CountersGrow ==
  ASSUME IInv, [Next]_vars
  PROVE  /\ world \in Nat /\ world' \in Nat /\ world <= world'
         /\ created \in Nat /\ created' \in Nat /\ created <= created'
<1>1. /\ world \in Nat /\ created \in Nat
  BY ArbitrationAssumption DEF IInv, ATypeOK
<1>2. world' \in {world, world + 1}
  BY DEF Next, vars, disk, report_dispute, create_analysis, inputs_change, WorkerStep,
     mark_analysis_preempted, prepare_context, save_prepared_context, acquire_phase,
     save_proposal, save_verification, finish_failed, start_reanalysis_round, restUnchanged,
     recover_analysis_adoption, adoptionUnchanged, adopt_approved, adopt_recheck,
     resolve_human, reject_and_replace, abandon, WriteStep, write_intent,
     persist_pending_delivery, write_resolution_record, write_dispute, preempt_current_analysis,
     ensure_outbox_entry, register_observation, remove_pending_delivery, write_adopted, Wrote,
     EventStep, recover_pending_delivery, complete_analysis_adoption_after_delivery,
     persist_retry, cut, crash, scheduler_ends
<1>3. created' \in {created, created + 1}
  BY DEF Next, vars, disk, report_dispute, create_analysis, inputs_change, WorkerStep,
     mark_analysis_preempted, prepare_context, save_prepared_context, acquire_phase,
     save_proposal, save_verification, finish_failed, start_reanalysis_round, restUnchanged,
     recover_analysis_adoption, adoptionUnchanged, adopt_approved, adopt_recheck,
     resolve_human, reject_and_replace, abandon, WriteStep, write_intent,
     persist_pending_delivery, write_resolution_record, write_dispute, preempt_current_analysis,
     ensure_outbox_entry, register_observation, remove_pending_delivery, write_adopted, Wrote,
     EventStep, recover_pending_delivery, complete_analysis_adoption_after_delivery,
     persist_retry, cut, crash, scheduler_ends
<1>4. QED BY <1>1, <1>2, <1>3

LEMMA VersionTypes ==
  ASSUME IInv
  PROVE  /\ world \in Nat /\ created \in Nat
         /\ analysis # None =>
              /\ analysis.id \in Nat /\ analysis.fp \in Nat /\ analysis.seen \in Nat
         /\ \A a \in Actors : run[a].id \in Nat /\ run[a].fp \in Nat
<1>1. world \in Nat /\ created \in Nat
  BY ArbitrationAssumption DEF IInv, ATypeOK
<1>2. ASSUME analysis # None
      PROVE  analysis.id \in Nat /\ analysis.fp \in Nat /\ analysis.seen \in Nat
  BY <1>2, ArbitrationAssumption DEF IInv, ATypeOK, Analyses
<1>3. ASSUME NEW a \in Actors PROVE run[a].id \in Nat /\ run[a].fp \in Nat
  BY <1>3, ArbitrationAssumption DEF IInv, ATypeOK, Runs
<1>4. QED BY <1>1, <1>2, <1>3

LEMMA IdsNext ==
  ASSUME IInv, IIds, [Next]_vars
  PROVE  IIds'
<1>1. AnalysisMoves
  BY StepMovesAnalysis
<1>2. /\ created \in Nat /\ created' \in Nat /\ created <= created'
  BY CountersGrow
<1>3. ASSUME analysis' # None PROVE analysis'.id <= created'
  <2>1. CASE Renewed
    BY <1>2, <2>1 DEF Renewed, NewAnalysis
  <2>2. CASE analysis # None /\ analysis'.id = analysis.id
    BY <1>2, <2>2, VersionTypes DEF IIds
  <2>3. QED BY <1>1, <1>3, <2>1, <2>2 DEF AnalysisMoves, Moved, Frozen, Judged, PreemptedNow,
       Fixed, Closed, SameInputs, Kept
<1>4. ASSUME NEW a \in Actors PROVE run'[a].id <= created'
  <2>1. run[a].id <= created /\ (analysis # None => analysis.id <= created)
    BY DEF IIds
  <2>2. run'[a].id = run[a].id \/ run'[a].id = 0
        \/ (analysis # None /\ run'[a].id = analysis.id)
    BY StepMovesRun DEF RunMoves, Idle
  <2>3. QED BY <1>2, <2>1, <2>2, VersionTypes
<1>5. QED BY <1>3, <1>4 DEF IIds

\* While an intent is in hand nobody else writes the analysis.
LEMMA IntentNext ==
  ASSUME OneWorker, IInv, IIds, IVersions, IIntent, [Next]_vars
  PROVE  IIntent'
<1>1. SUFFICES ASSUME op' # None, "intent" \in op'.todo
               PROVE  /\ analysis'.state = "Approved"
                      /\ op'.r.by = Automatic => analysis'.fp = analysis'.seen
  BY DEF IIntent
<1>2. CASE op = None
  <2>1. UNCHANGED analysis
    BY <1>1, <1>2, OperationBegins
  <2>2. PICK a \in Actors : /\ run[a].pc = "adopt" /\ Current(a) /\ Adoptable
                            /\ InputsUnchanged(a) /\ op'.r.by = By(a)
    BY <1>1, <1>2, OperationBegins
  <2>3. analysis # None /\ analysis.state = "Approved" /\ analysis.fp = run[a].fp
    BY <2>2 DEF Current, Adoptable, InputsUnchanged
  <2>4. ASSUME op'.r.by = Automatic PROVE analysis.fp = analysis.seen
    <3>1. a \in Workers
      BY <2>2, <2>4 DEF By, Actors, Human, Automatic
    <3>2. analysis.seen <= run[a].fp /\ analysis.fp <= analysis.seen
      BY <2>2, <2>3, <3>1 DEF IVersions
    <3>3. QED BY <2>3, <3>2, VersionTypes
  <2>5. QED BY <2>1, <2>3, <2>4
<1>3. CASE op # None
  <2>1. op'.r = op.r /\ op'.todo \subseteq op.todo /\ op \in Operations
    BY <1>1, <1>3, OperationGoesOn DEF IInv, ATypeOK
  <2>2. "intent" \in op.todo /\ op.todo \subseteq Steps
    BY <1>1, <2>1 DEF Operations
  <2>3. ~write_intent
    <3>1. SUFFICES ASSUME write_intent PROVE FALSE
      OBVIOUS
    <3>2. op' = [op EXCEPT !.todo = @ \ {"intent"}]
      BY <1>1, <3>1 DEF write_intent, Wrote
    <3>3. QED BY <1>1, <2>1, <3>2 DEF Operations
  <2>4. ~First("preempt") /\ ~First("adopted")
    BY <2>2, FirstAndLast DEF Steps
  <2>5. analysis' = analysis
    BY <1>3, <2>3, <2>4, StepMovesAnalysis
    DEF AnalysisMoves, Renewed, Moved, Frozen, Judged, PreemptedNow, Fixed, Closed,
        preempt_current_analysis, write_adopted
  <2>6. QED BY <1>3, <2>1, <2>2, <2>5 DEF IIntent
<1>4. QED BY <1>2, <1>3

\* What a step does to the two versions of the analysis.
LEMMA VersionMoves ==
  ASSUME IInv, IIntent, [Next]_vars, analysis' # None
  PROVE  \/ UNCHANGED analysis
         \/ Renewed
         \/ /\ SameInputs
            /\ analysis'.state \in {"Approved", "Adopting"} =>
                 analysis.state \in {"Approved", "Adopting"}
         \/ \E w \in Workers : Frozen(w) \/ Judged(w)
<1>1. AnalysisMoves
  BY StepMovesAnalysis
<1>2. Fixed => analysis.state = "Approved"
  BY DEF Fixed, write_intent, First, IIntent
<1>3. QED BY <1>1, <1>2 DEF AnalysisMoves, Moved, PreemptedNow, Fixed, Closed

LEMMA VersionsNext ==
  ASSUME OneWorker, IInv, IIds, IVersions, IIntent, [Next]_vars
  PROVE  IVersions'
<1>1. /\ world \in Nat /\ world' \in Nat /\ world <= world'
      /\ created \in Nat /\ created' \in Nat
  BY CountersGrow
<1>2. ASSUME NEW a \in Actors
      PROVE  run[a].fp <= world /\ run[a].fp \in Nat /\ run[a].id <= created /\ run[a].id \in Nat
  BY VersionTypes DEF IVersions, IIds
<1>3. Workers \subseteq Actors
  BY DEF Actors
<1>4. ASSUME NEW a \in Actors PROVE run'[a].fp <= world'
  <2>1. run'[a].fp = run[a].fp \/ run'[a].fp \in {0, world}
    BY StepMovesRun DEF RunMoves, Idle
  <2>2. QED BY <1>1, <1>2, <2>1
<1>5. ASSUME analysis' # None
      PROVE  /\ analysis'.fp <= world' /\ analysis'.seen <= world'
             /\ analysis'.state \in {"Approved", "Adopting"} => analysis'.fp <= analysis'.seen
  <2>1. analysis # None =>
          /\ analysis.fp \in Nat /\ analysis.seen \in Nat
          /\ analysis.fp <= world /\ analysis.seen <= world
          /\ analysis.state \in {"Approved", "Adopting"} => analysis.fp <= analysis.seen
    BY VersionTypes DEF IVersions
  <2>2. CASE UNCHANGED analysis
    BY <1>1, <1>5, <2>1, <2>2
  <2>3. CASE Renewed
    BY <1>1, <2>3 DEF Renewed, NewAnalysis
  <2>4. CASE /\ SameInputs
             /\ analysis'.state \in {"Approved", "Adopting"} =>
                  analysis.state \in {"Approved", "Adopting"}
    BY <1>1, <2>1, <2>4 DEF SameInputs, Kept
  <2>5. ASSUME NEW w \in Workers, Frozen(w)
        PROVE  /\ analysis'.fp <= world' /\ analysis'.seen <= world'
               /\ analysis'.state \notin {"Approved", "Adopting"}
    BY <1>1, <1>2, <1>3, <2>1, <2>5 DEF Frozen, Kept
  <2>6. ASSUME NEW w \in Workers, Judged(w)
        PROVE  analysis'.fp <= world' /\ analysis'.seen <= world' /\ analysis'.fp <= analysis'.seen
    BY <1>1, <2>1, <2>6 DEF Judged, Kept
  <2>7. QED BY <1>5, <2>2, <2>3, <2>4, <2>5, <2>6, VersionMoves
<1>6. ASSUME NEW w \in Workers, run'[w].pc = "adopt", analysis' # None,
             analysis'.id = run'[w].id
      PROVE  analysis'.seen <= run'[w].fp
  <2>1. w \in Actors /\ \A v \in Workers : v = w
    BY <1>3 DEF OneWorker
  <2>2. CASE run'[w] = run[w]
    <3>1. ~Renewed
      BY <1>1, <1>2, <1>6, <2>1, <2>2 DEF Renewed, NewAnalysis
    <3>2. \A v \in Workers : ~Judged(v)
      BY <1>6, <2>1 DEF Judged, Idle
    <3>3. /\ analysis # None /\ analysis'.id = analysis.id /\ analysis'.seen = analysis.seen
      BY <1>6, <3>1, <3>2, VersionMoves DEF SameInputs, Kept, Frozen
    <3>4. QED BY <1>6, <2>2, <3>3 DEF IVersions, Current
  <2>3. CASE run'[w].fp = world /\ UNCHANGED analysis
    BY <1>6, <2>3 DEF IVersions
  <2>4. QED BY <1>6, <2>1, <2>2, <2>3, StepMovesRun DEF RunMoves, Idle
<1>7. QED BY <1>4, <1>5, <1>6 DEF IVersions, Current

LEMMA ReadNext ==
  ASSUME IInv, IAdopting, IIntent, AdoptsWhatItRead, [Next]_vars
  PROVE  AdoptsWhatItRead'
<1>1. SUFFICES ASSUME analysis' # None, analysis'.state \in {"Adopting", "Adopted"},
                      analysis'.res.by = Automatic
               PROVE  analysis'.fp = analysis'.seen
  BY DEF AdoptsWhatItRead
<1>2. UNCHANGED analysis \/ Fixed \/ Closed
  BY <1>1, StepMovesAnalysis DEF AnalysisMoves, Renewed, NewAnalysis, Moved, Frozen, Judged,
     PreemptedNow
<1>3. CASE UNCHANGED analysis
  BY <1>1, <1>3 DEF AdoptsWhatItRead
<1>4. CASE Fixed
  BY <1>1, <1>4 DEF Fixed, SameInputs, write_intent, First, IIntent
<1>5. CASE Closed
  <2>1. analysis # None /\ analysis.state = "Adopting"
    <3>1. CASE write_adopted
      <4>1. First("adopted") /\ op # None /\ op.todo \subseteq Steps
        BY <3>1 DEF write_adopted, First, IInv, ATypeOK, Operations
      <4>2. op.todo = {"adopted"}
        BY <4>1, FirstAndLast DEF Steps
      <4>3. QED BY <1>5, <4>1, <4>2 DEF IAdopting, Closed, SameInputs, Kept
    <3>2. QED BY <1>5, <3>1 DEF Closed, SameInputs, Kept
  <2>2. QED BY <1>1, <1>5, <2>1 DEF Closed, SameInputs, AdoptsWhatItRead
<1>6. QED BY <1>2, <1>3, <1>4, <1>5

\* An automatic adoption is fixed only on inputs that did not change between the freezing
\* of the context and the verdict, whatever people and rounds come between the two locked
\* sections of adopt_approved, where the store has one maintainer.  With several workers
\* it does not hold: save_prepared_context compares the analysis and its state, not its
\* round, and takes a context that was built in an earlier round.
THEOREM AdoptionsReadThat == OneWorker /\ Spec => []AdoptsWhatItRead
<1> DEFINE Inv == IInv /\ IAdopting /\ IIds /\ IVersions /\ IIntent /\ AdoptsWhatItRead
<1>1. SUFFICES ASSUME OneWorker PROVE Spec => []AdoptsWhatItRead
  OBVIOUS
<1>2. Init => Inv
  <2>1. SUFFICES ASSUME Init PROVE Inv
    OBVIOUS
  <2>2. IInv /\ IAdopting /\ IIntent /\ AdoptsWhatItRead
    BY <2>1, InitInvariant DEF Init, IAdopting, IIntent, AdoptsWhatItRead
  <2>3. IIds /\ IVersions
    <3>1. /\ analysis = None /\ world = 1 /\ created = 0
          /\ \A a \in Actors : run[a].id = 0 /\ run[a].fp = 0 /\ run[a].pc = "idle"
      BY <2>1 DEF Init, Idle
    <3>2. Workers \subseteq Actors
      BY DEF Actors
    <3>3. QED BY <3>1, <3>2 DEF IIds, IVersions
  <2>4. QED BY <2>2, <2>3
<1>3. Inv /\ [Next]_vars => Inv'
  BY <1>1, NextInvariant, AdoptingNext, IdsNext, VersionsNext, IntentNext, ReadNext
<1>4. QED BY <1>2, <1>3, PTL DEF Spec
=============================================================================
