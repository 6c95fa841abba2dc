------------------------------ MODULE McpProofs ------------------------------
(***************************************************************************)
(* The client the manager shows is the one its generation connected, and   *)
(* the last toggle of the panel decides what the file says: for any number *)
(* of operations, retries and failures.                                    *)
(***************************************************************************)
EXTENDS McpConnections, TLAPS

\* The last operation that was started.
IsLast(o) == Started(o) /\ \A p \in Ops : p > o => ~Started(p)

\* The operations are started in order, and each begins a new generation.
MOrder ==
    /\ op[1].kind = "refresh" /\ op[1].gen = 0
    /\ \A o \in Ops : ~Started(o) => op[o] = Idle
    /\ \A o, p \in Ops : p < o /\ Started(o) =>
         Started(p) /\ op[p].gen < op[o].gen /\ op[o].gen <= mgr.gen

\* The steps of an operation that is past its begin_connect_attempt.
Connecting == {"await", "fence", "close", "dial", "dialing", "listing", "drain", "backoff",
               "install", "report", "finish", "end"}

\* How far an operation of each kind comes, and where its waits lead.
MKinds ==
    \A o \in Ops :
      /\ op[o].pc \in {"drain", "backoff"} /\ op[o].then = "dial" => op[o].try < MaxRetries
      /\ op[o].pc = "backoff" => op[o].then = "dial"
      /\ op[o].pc = "await" => op[o].then \notin {"drop", "drain"}
      /\ op[o].kind = "refresh" =>
           /\ o = 1 /\ op[o].pc \in (Connecting \ {"await"}) \union {"read"}
           /\ op[o].pc \in {"fence", "close"} => op[o].then \in {"drop", "drain"}
           /\ op[o].pc # "end" => \A p \in Ops : p # o => ~Started(p)
           /\ op[o].pc = "read" => mgr.client = None
      /\ op[o].kind = "reconnect" =>
           /\ op[o].pc \in Connecting \union {"read", "check", "off", "begin"}
           /\ op[o].then \in {"read", "dial", "drop", "drain", "report"}
      /\ op[o].kind = "enable" =>
           /\ op[o].pc \in Connecting \union {"lock", "read", "check", "write", "begin"}
           /\ op[o].then \in {"lock", "dial", "drop", "drain", "report"}
      /\ op[o].kind = "disable" =>
           /\ op[o].pc \in {"lock", "write", "off", "await", "fence", "close", "finish", "end"}
           /\ op[o].then = "finish"

\* The configuration lock is held from the read to the write.
MLock ==
    \A o \in Ops :
      \/ op[o].kind = "enable" /\ op[o].pc \in {"read", "check", "write"}
      \/ op[o].kind = "disable" /\ op[o].pc \in {"write", "off"}
      => cfgLock = o

\* The panel is busy with the last operation until it ends, and a disable leaves
\* nothing to ask for.
MBusy ==
    /\ \A o \in Ops : o # 1 /\ IsLast(o) /\ op[o].pc # "end" => busy = o
    /\ \A o \in Ops : op[o].kind = "disable" /\ op[o].pc # "end" =>
         IsLast(o) /\ mgr.status = "Disabled"
    /\ mgr.status = "Disabled" => ~mgr.enabled /\ mgr.client = None

\* An enable that has not yet written.
Ahead(o) ==
    /\ op[o].kind = "enable"
    /\ \/ op[o].pc \in {"lock", "read", "check", "write"}
       \/ op[o].pc \in {"await", "fence", "close"} /\ op[o].then = "lock"

LastToggle(o) == o \in Toggles /\ \A p \in Toggles : p <= o

\* Before its write the last enable is the current operation; an older one that has
\* passed the check finds a disable waiting for the lock; behind its write the last
\* toggle has settled the file.
MToggle ==
    \A o \in Ops :
      /\ Ahead(o) /\ LastToggle(o) =>
           IsLast(o) /\ mgr.gen = op[o].gen /\ ~mgr.enabled /\ mgr.client = None
      /\ op[o].kind = "enable" /\ op[o].pc = "write" =>
           \A p \in Ops : p > o /\ Started(p) => op[p].kind = "disable" /\ op[p].pc = "lock"
      /\ LastToggle(o) /\ ~op[o].err =>
           /\ op[o].kind = "enable" /\ ~Ahead(o) /\ ~mgr.down => config
           /\ op[o].kind = "disable" /\ op[o].pc \notin {"lock", "write"} => ~config

\* The inductive invariant.
MInv == CTypeOK /\ ClientIsCurrent /\ MOrder /\ MKinds /\ MLock /\ MBusy /\ MToggle

----------------------------------------------------------------------------
\* Types

OpRecords ==
    [kind : {"none", "refresh", "reconnect", "enable", "disable"}, pc : Pcs, gen : Nat,
     stale : Ops \union {NoOp}, client : Transports \union {None},
     then : {"read", "lock", "finish", "dial", "report", "drop", "drain"},
     on : BOOLEAN, try : 0 .. MaxRetries, err : BOOLEAN]
MgrRecords ==
    [gen : Nat, status : Statuses, enabled : BOOLEAN, client : Transports \union {None},
     attempt : Ops \union {NoOp}, down : BOOLEAN]
AttRecords ==
    [gen : Nat, cancelled : BOOLEAN, finished : BOOLEAN, failed : BOOLEAN, done : BOOLEAN]
TrStates == {"none", "open", "up", "dropped", "closing", "gone", "stuck"}

TOp == op \in [Ops -> OpRecords]
TMgr == mgr \in MgrRecords
TAtt == att \in [Ops -> AttRecords]
TTr == tr \in [Transports -> TrStates]
TFlags == config \in BOOLEAN /\ gate \in BOOLEAN /\ overtaken \in BOOLEAN
TCloser == closer \in [Transports -> {"none", "fence", "close", "end"}]
TLock == cfgLock \in Ops \union {NoOp} /\ busy \in Ops \union {NoOp}
TQuit ==
    quit \in [pc : {"no", "down", "wait", "close", "exit"}, attempt : Ops \union {NoOp},
              client : Transports \union {None}]
TFaults == faults \in 0 .. MaxFaults

LEMMA TypeParts ==
    CTypeOK <=> TOp /\ TMgr /\ TAtt /\ TTr /\ TFlags /\ TCloser /\ TLock /\ TQuit /\ TFaults
  BY DEF CTypeOK, TOp, TMgr, TAtt, TTr, TFlags, TCloser, TLock, TQuit, TFaults, OpRecords,
     MgrRecords, AttRecords, TrStates

LEMMA Bounds == 0 \in 0 .. MaxRetries /\ 1 \in Ops /\ NoOp \notin Ops /\ Ops \subseteq Nat
  BY McpAssumption DEF Ops, NoOp

\* A fence changes what it knows of an attempt, and never the attempt's generation.
LEMMA TryCompleteType ==
  ASSUME NEW as \in [Ops -> AttRecords], NEW ts
  PROVE  /\ TryComplete(as, ts) \in [Ops -> AttRecords]
         /\ \A a \in Ops : TryComplete(as, ts)[a].gen = as[a].gen
<1>1. ASSUME NEW a \in Ops
      PROVE  /\ TryComplete(as, ts)[a] \in AttRecords
             /\ TryComplete(as, ts)[a].gen = as[a].gen
  <2> DEFINE d == as[a].done \/ (as[a].finished /\ (as[a].cancelled => Pending(ts, a) = {}))
  <2>1. TryComplete(as, ts)[a] = [as[a] EXCEPT !.done = d]
    BY DEF TryComplete
  <2>2. d \in BOOLEAN /\ as[a] \in AttRecords
    OBVIOUS
  <2> HIDE DEF d
  <2>3. QED BY <2>1, <2>2 DEF AttRecords
<1>2. TryComplete(as, ts) = [a \in Ops |-> TryComplete(as, ts)[a]]
  BY DEF TryComplete
<1>3. QED BY <1>1, <1>2

LEMMA CancelledType ==
  ASSUME NEW as \in [Ops -> AttRecords], NEW a \in Ops \union {NoOp}
  PROVE  /\ Cancelled(as, a) \in [Ops -> AttRecords]
         /\ \A b \in Ops : Cancelled(as, a)[b].gen = as[b].gen
  BY DEF Cancelled, AttRecords

LEMMA FinishedType ==
  ASSUME NEW as \in [Ops -> AttRecords], NEW a \in Ops
  PROVE  /\ Finished(as, a) \in [Ops -> AttRecords]
         /\ \A b \in Ops : Finished(as, a)[b].gen = as[b].gen
  BY DEF Finished, AttRecords

LEMMA ClosingType ==
  ASSUME NEW ts \in [Transports -> TrStates], NEW t \in Transports \union {None}
  PROVE  Closing(ts, t) \in [Transports -> TrStates]
  BY DEF Closing, TrStates

LEMMA TryingType ==
  ASSUME TOp, NEW o \in Ops
  PROVE  Trying(o) \in Transports
  BY DEF Trying, TOp, OpRecords, Transports

\* The attempts: a generation is given once, when the attempt begins.
AttStays ==
    att' \in [Ops -> AttRecords] /\ \A a \in Ops : att'[a].gen = att[a].gen

LEMMA AttNext ==
  ASSUME CTypeOK, [Next]_vars
  PROVE  /\ TAtt'
         /\ \/ AttStays
            \/ /\ \E o \in Ops : BeginConnect(o) /\ GenerationMatches(o)
                                 /\ att'[o].gen = mgr.gen + 1
                                 /\ \A a \in Ops : a # o => att'[a].gen = att[a].gen
            \/ Refresh /\ mgr' # mgr
<1>0. TOp /\ TMgr /\ TAtt /\ TTr /\ TQuit
  BY TypeParts
<1>a. mgr.attempt \in Ops \union {NoOp} /\ mgr.gen \in Nat
  BY <1>0 DEF TMgr, MgrRecords
<1>b. ASSUME NEW ts, NEW as \in [Ops -> AttRecords], \A a \in Ops : as[a].gen = att[a].gen,
             att' = TryComplete(as, ts)
      PROVE  AttStays
  BY <1>b, TryCompleteType DEF AttStays
<1>c. ASSUME NEW ts, att' = TryComplete(Cancelled(att, mgr.attempt), ts)
      PROVE  AttStays
  <2>1. /\ Cancelled(att, mgr.attempt) \in [Ops -> AttRecords]
        /\ \A a \in Ops : Cancelled(att, mgr.attempt)[a].gen = att[a].gen
    BY <1>0, <1>a, CancelledType DEF TAtt
  <2>2. QED BY <1>b, <1>c, <2>1
<1>d. ASSUME NEW o \in Ops, NEW ts, att' = TryComplete(Finished(att, o), ts)
      PROVE  AttStays
  <2>1. /\ Finished(att, o) \in [Ops -> AttRecords]
        /\ \A a \in Ops : Finished(att, o)[a].gen = att[a].gen
    BY <1>0, FinishedType DEF TAtt
  <2>2. QED BY <1>b, <1>d, <2>1
<1>e. ASSUME UNCHANGED att
      PROVE  AttStays
  BY <1>0, <1>e DEF AttStays, TAtt
<1>f. ASSUME NEW o \in Ops, Refused(o, att, tr)
      PROVE  AttStays
  <2>1. CASE att[o].gen = 0
    BY <1>0, <1>b, <1>f, <2>1 DEF Refused, TAtt
  <2>2. CASE att[o].gen # 0
    BY <1>d, <1>f, <2>2 DEF Refused
  <2>3. QED BY <2>1, <2>2
<1>1. ASSUME NEW t \in Transports, Settle(t)
      PROVE  AttStays
  <2>1. PICK clean \in BOOLEAN : att' = TryComplete([att EXCEPT ![t[1]].failed = @ \/ ~clean], tr')
    BY <1>1 DEF Settle
  <2> DEFINE as == [att EXCEPT ![t[1]].failed = @ \/ ~clean]
  <2>2. t[1] \in Ops
    BY DEF Transports
  <2>3. as \in [Ops -> AttRecords] /\ \A a \in Ops : as[a].gen = att[a].gen
    BY ZenonT(60), <1>0, <2>2 DEF TAtt, AttRecords
  <2> HIDE DEF as
  <2>4. QED BY <1>b, <2>1, <2>3 DEF as
<1>2. ASSUME NEW kind, BeginRequest(kind)
      PROVE  AttStays
  BY <1>2, <1>c DEF BeginRequest
<1>3. ASSUME NEW o \in Ops, AwaitAttempt(o)
      PROVE  AttStays
  BY <1>3, <1>e, <1>f DEF AwaitAttempt
<1>4. ASSUME NEW o \in Ops, Close(o)
      PROVE  AttStays
  BY <1>4, <1>d, <1>e, <1>f DEF Close
<1>5. ASSUME NEW o \in Ops, Finish(o) \/ TurnOff(o)
      PROVE  AttStays
  BY <1>5, <1>c, <1>e DEF Finish, TurnOff
<1>6. ASSUME NEW o \in Ops, ConnectCancelled(o) \/ Apply(o)
      PROVE  AttStays
  BY <1>6, <1>d, <1>e DEF ConnectCancelled, Apply
<1>7. ASSUME NEW o \in Ops, BeginConnect(o)
      PROVE  \/ AttStays
             \/ /\ TAtt' /\ GenerationMatches(o) /\ att'[o].gen = mgr.gen + 1
                /\ \A a \in Ops : a # o => att'[a].gen = att[a].gen
  <2>1. CASE ~GenerationMatches(o)
    BY <1>7, <1>e, <2>1 DEF BeginConnect
  <2>2. CASE GenerationMatches(o)
    <3> DEFINE as == [Cancelled(att, mgr.attempt) EXCEPT ![o].gen = mgr.gen + 1]
    <3>1. att' = TryComplete(as, tr)
      BY <1>7, <2>2 DEF BeginConnect
    <3>2. /\ Cancelled(att, mgr.attempt) \in [Ops -> AttRecords]
          /\ \A a \in Ops : Cancelled(att, mgr.attempt)[a].gen = att[a].gen
      BY <1>0, <1>a, CancelledType DEF TAtt
    <3>3. /\ as \in [Ops -> AttRecords] /\ as[o].gen = mgr.gen + 1
          /\ \A a \in Ops : a # o => as[a].gen = att[a].gen
      BY <1>a, <3>2 DEF AttRecords
    <3> HIDE DEF as
    <3>4. QED BY <2>2, <3>1, <3>3, TryCompleteType DEF TAtt
  <2>3. QED BY <2>1, <2>2
<1>8. ASSUME Refresh
      PROVE  TAtt' /\ (AttStays \/ mgr' # mgr)
  <2>1. CASE UNCHANGED <<mgr, att>>
    BY <1>0, <1>e, <2>1 DEF TAtt
  <2>2. CASE /\ mgr' = [mgr EXCEPT !.gen = @ + 1, !.enabled = config,
                                   !.status = IF config THEN "Starting" ELSE "Disabled",
                                   !.attempt = IF config THEN 1 ELSE NoOp]
             /\ att' = IF config THEN [att EXCEPT ![1].gen = mgr.gen + 1] ELSE att
    <3>1. TAtt'
      BY <1>0, <1>a, <2>2, Bounds DEF TAtt, AttRecords
    <3>2. mgr'.gen = mgr.gen + 1
      BY <1>0, <2>2 DEF TMgr, MgrRecords
    <3>3. QED BY <1>a, <3>1, <3>2
  <2>3. QED BY <1>8, <2>1, <2>2 DEF Refresh
<1>9. ASSUME TakeAll
      PROVE  AttStays
  BY <1>9, <1>c DEF TakeAll
<1>10. ASSUME NEW o \in Ops,
              \/ Fence(o) \/ Lock(o) \/ Read(o) \/ ConfigError(o) \/ Check(o) \/ Write(o)
              \/ Dial(o) \/ Serve(o) \/ DialFails(o) \/ Listed(o) \/ Drain(o) \/ Retry(o)
       PROVE  AttStays
  BY <1>10, <1>e DEF Fence, Lock, Read, ConfigError, Check, Write, Dial, Serve, DialFails,
     Listed, Drain, Retry
<1>11. ASSUME \/ \E t \in Transports : ReportFence(t) \/ ReportClose(t) \/ ReportFailure(t)
              \/ WaitAttempt \/ Exit \/ Shutdown \/ UNCHANGED vars
       PROVE  AttStays
  BY <1>11, <1>e DEF ReportFence, ReportClose, ReportFailure, WaitAttempt, Exit, Shutdown, vars
<1>12. ASSUME AttStays
       PROVE  TAtt'
  BY <1>12 DEF AttStays, TAtt
<1>13. QED
  BY <1>1, <1>2, <1>3, <1>4, <1>5, <1>6, <1>7, <1>8, <1>9, <1>10, <1>11, <1>12
     DEF Next, Progress, OpStep

----------------------------------------------------------------------------
\* The operations

Thens == {"read", "lock", "finish", "dial", "report", "drop", "drain"}

\* A step of an operation leaves the others alone, and its own kind and generation.
OpFrame(o) ==
    /\ TOp' /\ \A p \in Ops : p # o => op'[p] = op[p]
    /\ op'[o].kind = op[o].kind /\ op'[o].gen = op[o].gen

Sets(o, pc, then, try, err) ==
    op'[o].pc = pc /\ op'[o].then = then /\ op'[o].try = try /\ op'[o].err = err

\* It goes to pc with nothing else changed, or fails there.
GoesTo(o, pc) == OpFrame(o) /\ Sets(o, pc, op[o].then, op[o].try, op[o].err)
FailsTo(o, pc) == OpFrame(o) /\ Sets(o, pc, op[o].then, op[o].try, TRUE)
GoesThen(o, pc, then) == OpFrame(o) /\ Sets(o, pc, then, op[o].try, op[o].err)

LEMMA GotoForm ==
  ASSUME TOp, NEW o \in Ops, NEW c \in Pcs, Goto(o, c)
  PROVE  GoesTo(o, c)
<1>1. op'[o] = [op[o] EXCEPT !.pc = c] /\ \A p \in Ops : p # o => op'[p] = op[p]
  BY DEF TOp, Goto
<1>2. op[o] \in OpRecords /\ op' = [p \in Ops |-> op'[p]]
  BY DEF TOp, Goto
<1>3. /\ op'[o] \in OpRecords /\ op'[o].kind = op[o].kind /\ op'[o].gen = op[o].gen
      /\ Sets(o, c, op[o].then, op[o].try, op[o].err)
  BY <1>1, <1>2 DEF OpRecords, Sets
<1>4. TOp'
  BY <1>1, <1>2, <1>3 DEF TOp
<1>5. QED BY <1>1, <1>3, <1>4 DEF GoesTo, OpFrame

LEMMA FailForm ==
  ASSUME TOp, NEW o \in Ops, NEW c \in Pcs, op' = [op EXCEPT ![o].pc = c, ![o].err = TRUE]
  PROVE  FailsTo(o, c)
<1>1. op'[o] = [op[o] EXCEPT !.pc = c, !.err = TRUE] /\ \A p \in Ops : p # o => op'[p] = op[p]
  BY DEF TOp
<1>2. op[o] \in OpRecords /\ op' = [p \in Ops |-> op'[p]]
  BY DEF TOp
<1>3. /\ op'[o] \in OpRecords /\ op'[o].kind = op[o].kind /\ op'[o].gen = op[o].gen
      /\ Sets(o, c, op[o].then, op[o].try, TRUE)
  BY <1>1, <1>2 DEF OpRecords, Sets
<1>4. TOp'
  BY <1>1, <1>2, <1>3 DEF TOp
<1>5. QED BY <1>1, <1>3, <1>4 DEF FailsTo, OpFrame

LEMMA ThenForm ==
  ASSUME TOp, NEW o \in Ops, NEW c \in Pcs, NEW th \in Thens,
         \/ op' = [op EXCEPT ![o].pc = c, ![o].then = th]
         \/ op' = [op EXCEPT ![o].pc = c, ![o].then = th, ![o].client = Trying(o)]
  PROVE  GoesThen(o, c, th)
<1>0. Trying(o) \in Transports \union {None}
  BY TryingType
<1>1. /\ \/ op'[o] = [op[o] EXCEPT !.pc = c, !.then = th]
         \/ op'[o] = [op[o] EXCEPT !.pc = c, !.then = th, !.client = Trying(o)]
      /\ \A p \in Ops : p # o => op'[p] = op[p]
  BY DEF TOp
<1>2. op[o] \in OpRecords /\ op' = [p \in Ops |-> op'[p]]
  BY DEF TOp
<1>3. /\ op'[o] \in OpRecords /\ op'[o].kind = op[o].kind /\ op'[o].gen = op[o].gen
      /\ Sets(o, c, th, op[o].try, op[o].err)
  BY <1>0, <1>1, <1>2 DEF OpRecords, Sets, Thens
<1>4. TOp'
  BY <1>1, <1>2, <1>3 DEF TOp
<1>5. QED BY <1>1, <1>3, <1>4 DEF GoesThen, OpFrame

Calm == UNCHANGED <<mgr, config, cfgLock, busy>>
Released(o) == cfgLock' = IF cfgLock = o THEN NoOp ELSE cfgLock

\* What the steps of an operation do, one predicate for each group.
Waits(o) ==
    /\ Calm
    /\ \/ op[o].pc = "await" /\ (GoesTo(o, "fence") \/ GoesTo(o, op[o].then) \/ FailsTo(o, "finish"))
       \/ op[o].pc = "fence" /\ GoesTo(o, "close")
       \/ /\ op[o].pc = "close" /\ op[o].then \notin {"drop", "drain"}
          /\ GoesTo(o, op[o].then) \/ FailsTo(o, "finish")
Drains(o) ==
    \E th \in {"dial", "report"} : /\ GoesThen(o, "drain", th)
                                   /\ th = "dial" => op[o].try < MaxRetries
Connects(o) ==
    /\ Calm
    /\ \/ op[o].pc = "close" /\ op[o].then = "drop" /\ GoesTo(o, "finish")
       \/ op[o].pc = "close" /\ op[o].then = "drain" /\ Drains(o)
       \/ op[o].pc = "dial" /\ GoesTo(o, "dialing")
       \/ op[o].pc = "dialing" /\ (GoesTo(o, "listing") \/ Drains(o))
       \/ /\ op[o].pc = "listing"
          /\ GoesTo(o, "install") \/ \E th \in {"drop", "drain"} : GoesThen(o, "fence", th)
       \/ /\ \/ op[o].pc \in {"dial", "dialing", "listing", "backoff"}
             \/ op[o].pc \in {"fence", "close"} /\ op[o].then = "drain"
          /\ GoesTo(o, "finish")
       \/ /\ op[o].pc = "drain"
          /\ GoesTo(o, "report") \/ (op[o].then = "dial" /\ GoesTo(o, "backoff"))
       \/ /\ op[o].pc = "backoff" /\ OpFrame(o)
          /\ Sets(o, "dial", op[o].then, op[o].try + 1, op[o].err)
Locks(o) ==
    /\ op[o].pc = "lock" /\ cfgLock = NoOp /\ UNCHANGED <<mgr, config, busy>>
    /\ \/ cfgLock' = o /\ GoesTo(o, IF op[o].kind = "enable" THEN "read" ELSE "write")
       \/ /\ mgr.down /\ UNCHANGED cfgLock
          /\ FailsTo(o, IF op[o].kind = "enable" THEN "finish" ELSE "await")
Reads(o) ==
    /\ op[o].pc = "read" /\ op[o].kind \in {"enable", "reconnect"}
    /\ Calm /\ GoesTo(o, "check")
Errs(o) ==
    /\ op[o].pc = "write" \/ (op[o].pc = "read" /\ op[o].kind \in {"enable", "reconnect"})
    /\ UNCHANGED <<mgr, config, busy>> /\ Released(o)
    /\ FailsTo(o, IF op[o].kind = "disable" THEN "await" ELSE "finish")
Checks(o) ==
    /\ op[o].pc = "check" /\ UNCHANGED <<mgr, config, busy>>
    /\ \/ ~GenerationMatches(o) /\ GoesTo(o, "finish") /\ Released(o)
       \/ FailsTo(o, "finish") /\ Released(o)
       \/ /\ GenerationMatches(o) /\ UNCHANGED cfgLock
          /\ \/ op[o].kind = "enable" /\ GoesTo(o, "write")
             \/ op[o].kind = "reconnect" /\ (GoesTo(o, "begin") \/ GoesTo(o, "off"))
Writes(o) ==
    /\ op[o].pc = "write" /\ UNCHANGED <<mgr, busy>> /\ config' = (op[o].kind = "enable")
    /\ \/ op[o].kind = "enable" /\ GoesTo(o, "begin") /\ cfgLock' = NoOp
       \/ op[o].kind # "enable" /\ GoesTo(o, "off") /\ UNCHANGED cfgLock

\* A new generation takes the client out.
Bumps == mgr'.gen = mgr.gen + 1 /\ mgr'.client = None /\ mgr'.down = mgr.down

Turns(o) ==
    /\ op[o].pc = "off" /\ UNCHANGED <<config, busy>> /\ Released(o)
    /\ GoesTo(o, IF op[o].kind = "disable" THEN "await" ELSE "finish")
    /\ \/ /\ op[o].kind = "disable" \/ GenerationMatches(o)
          /\ Bumps /\ mgr'.status = "Disabled" /\ ~mgr'.enabled
       \/ op[o].kind # "disable" /\ UNCHANGED mgr
Begins(o) ==
    /\ op[o].pc = "begin" /\ UNCHANGED <<config, cfgLock, busy>>
    /\ \/ /\ GenerationMatches(o) /\ GoesThen(o, "await", "dial")
          /\ Bumps /\ mgr'.status = "Reconnecting"
       \/ ~GenerationMatches(o) /\ GoesTo(o, "finish") /\ UNCHANGED mgr
Applies(o) ==
    /\ op[o].pc \in {"install", "report"} /\ UNCHANGED <<config, cfgLock, busy>>
    /\ GoesTo(o, "finish") \/ GoesThen(o, "fence", "drop")
    /\ \/ UNCHANGED mgr
       \/ /\ mgr'.gen = mgr.gen /\ mgr'.enabled = mgr.enabled /\ mgr'.down = mgr.down
          /\ mgr.enabled /\ mgr'.status \in {"Ready", "Failed"}
          /\ \/ mgr'.client = None
             \/ /\ mgr'.client = Trying(o) /\ mgr'.status = "Ready" /\ mgr'.attempt = NoOp
                /\ mgr.gen = att[o].gen
Finishes(o) ==
    /\ op[o].pc = "finish" /\ UNCHANGED <<config, cfgLock>> /\ GoesTo(o, "end")
    /\ busy' = IF busy = o THEN NoOp ELSE busy
    /\ \/ UNCHANGED mgr
       \/ /\ op[o].err /\ op[o].kind # "disable" /\ GenerationMatches(o)
          /\ Bumps /\ mgr'.status = "Failed"

LEMMA BumpForm ==
  ASSUME TMgr, NEW s \in Statuses, NEW e \in BOOLEAN, NEW a \in Ops \union {NoOp},
         mgr' = [mgr EXCEPT !.gen = mgr.gen + 1, !.status = s, !.enabled = e, !.client = None,
                            !.attempt = a]
  PROVE  TMgr' /\ Bumps /\ mgr'.status = s /\ mgr'.enabled = e
<1>1. mgr.gen \in Nat
  BY DEF TMgr, MgrRecords
<1>2. mgr.gen + 1 \in Nat
  BY <1>1
<1>3. QED BY <1>1, <1>2 DEF TMgr, MgrRecords, Bumps

LEMMA OpMoves ==
  ASSUME CTypeOK, MKinds, MOrder, NEW o \in Ops, OpStep(o)
  PROVE  /\ TMgr' /\ OpFrame(o)
         /\ \/ Waits(o) \/ Connects(o) \/ Locks(o) \/ Reads(o) \/ Errs(o) \/ Checks(o)
            \/ Writes(o) \/ Turns(o) \/ Begins(o) \/ Applies(o) \/ Finishes(o)
<1>0. TOp /\ TMgr
  BY TypeParts
<1>a. op[o] \in OpRecords /\ mgr \in MgrRecords /\ Trying(o) \in Transports
  BY <1>0, TryingType DEF TOp, TMgr
<1>b. op[o].then \in Thens
  BY <1>a DEF OpRecords, Thens
<1>c. ASSUME UNCHANGED mgr, NEW c, \/ GoesTo(o, c) \/ FailsTo(o, c)
                                   \/ \E th \in Thens : GoesThen(o, c, th)
      PROVE  TMgr' /\ OpFrame(o)
  BY <1>0, <1>c DEF TMgr, GoesTo, FailsTo, GoesThen
<1>d. \A pc \in Pcs : Goto(o, pc) => GoesTo(o, pc)
  BY <1>0, GotoForm
<1>e. Fail(o) => FailsTo(o, "finish")
  BY <1>0, FailForm DEF Fail, Pcs
<1> USE DEF Calm
<1>1. CASE AwaitAttempt(o)
  <2>1. op[o].then \in Pcs
    BY <1>1, <1>b DEF MKinds, Thens, Pcs, AwaitAttempt, At
  <2>2. QED BY <1>1, <1>c, <1>d, <1>e, <2>1 DEF AwaitAttempt, At, Refused, Waits, Pcs
<1>2. CASE Fence(o)
  BY <1>2, <1>c, <1>d DEF Fence, At, Waits, Pcs
<1>3. CASE Close(o)
  <2>0. op[o].pc = "close" /\ Calm
    BY <1>3 DEF Close, At
  <2>1. CASE op[o].then = "drop"
    <3>1. GoesTo(o, "finish")
      BY <1>3, <1>d, <2>1 DEF Close, Pcs
    <3>2. QED BY <1>c, <2>0, <2>1, <3>1 DEF Connects
  <2>2. CASE op[o].then = "drain"
    <3>1. PICK retry \in BOOLEAN :
            /\ retry => op[o].try < MaxRetries
            /\ op' = [op EXCEPT ![o].pc = "drain", ![o].then = IF retry THEN "dial" ELSE "report"]
      BY <1>3, <2>2 DEF Close
    <3>2. GoesThen(o, "drain", IF retry THEN "dial" ELSE "report")
      BY <1>0, <3>1, ThenForm DEF Pcs, Thens
    <3>3. Drains(o)
      BY <3>1, <3>2 DEF Drains
    <3>4. QED BY <1>c, <2>0, <2>2, <3>2, <3>3 DEF Connects, Thens
  <2>3. CASE op[o].then \notin {"drop", "drain"}
    <3>1. op[o].then \in Pcs
      BY <1>b, <2>3 DEF Thens, Pcs
    <3>2. Goto(o, op[o].then) \/ Fail(o)
      BY <1>3, <2>3 DEF Close, Refused
    <3>3. GoesTo(o, op[o].then) \/ FailsTo(o, "finish")
      BY <1>d, <1>e, <3>1, <3>2
    <3>4. QED BY <1>c, <2>0, <2>3, <3>3 DEF Waits
  <2>4. QED BY <2>1, <2>2, <2>3
<1>4. CASE Lock(o)
  <2>1. CASE ~mgr.down
    BY <1>4, <1>c, <1>d, <2>1 DEF Lock, At, Locks, Pcs
  <2>2. CASE mgr.down
    <3> DEFINE c == IF op[o].kind = "enable" THEN "finish" ELSE "await"
    <3>1. op' = [op EXCEPT ![o].pc = c, ![o].err = TRUE] /\ c \in Pcs
      BY <1>4, <2>2 DEF Lock, Pcs
    <3> HIDE DEF c
    <3>2. FailsTo(o, c)
      BY <1>0, <3>1, FailForm
    <3>3. UNCHANGED <<mgr, config, busy, cfgLock>> /\ op[o].pc = "lock" /\ cfgLock = NoOp
      BY <1>4, <2>2 DEF Lock, At
    <3>4. QED BY <1>c, <2>2, <3>2, <3>3 DEF Locks, c
  <2>3. QED BY <2>1, <2>2
<1>5. CASE Read(o)
  <2>1. op'[o] = [op[o] EXCEPT !.pc = "check", !.on = config]
        /\ \A p \in Ops : p # o => op'[p] = op[p]
    BY <1>0, <1>5 DEF TOp, Read
  <2>2. config \in BOOLEAN /\ op' = [p \in Ops |-> op'[p]]
    BY <1>0, <1>5, TypeParts DEF TFlags, TOp, Read
  <2>3. /\ op'[o] \in OpRecords /\ op'[o].kind = op[o].kind /\ op'[o].gen = op[o].gen
        /\ Sets(o, "check", op[o].then, op[o].try, op[o].err)
    BY <1>a, <2>1, <2>2 DEF OpRecords, Sets, Pcs
  <2>4. TOp'
    BY <1>0, <2>1, <2>2, <2>3 DEF TOp
  <2>5. GoesTo(o, "check")
    BY <2>1, <2>3, <2>4 DEF GoesTo, OpFrame
  <2>6. QED BY <1>5, <1>c, <2>5 DEF Read, Reads, At
<1>6. CASE ConfigError(o)
  <2> DEFINE c == IF op[o].kind = "disable" THEN "await" ELSE "finish"
  <2>1. op' = [op EXCEPT ![o].pc = c, ![o].err = TRUE] /\ c \in Pcs
    BY <1>6 DEF ConfigError, Pcs
  <2> HIDE DEF c
  <2>2. FailsTo(o, c)
    BY <1>0, <2>1, FailForm
  <2>3. QED BY <1>6, <1>c, <2>2 DEF ConfigError, At, Errs, Released, c
<1>7. CASE Check(o)
  <2>0. op[o].pc = "check" /\ UNCHANGED <<mgr, config, busy>>
    BY <1>7 DEF Check, At
  <2>1. op[o].kind \in {"enable", "reconnect"}
    BY <1>a, <2>0 DEF MKinds, MOrder, OpRecords, Connecting, Started, Idle
  <2>2. CASE ~GenerationMatches(o)
    BY <1>7, <1>c, <1>d, <2>0, <2>2 DEF Check, Checks, Released, Pcs
  <2>3. CASE GenerationMatches(o) /\ gate
    BY <1>7, <1>c, <1>e, <2>0, <2>3 DEF Check, Checks, Released
  <2>4. CASE GenerationMatches(o) /\ ~gate
    <3>1. UNCHANGED cfgLock
      BY <1>7, <2>4 DEF Check
    <3>2. \/ op[o].kind = "enable" /\ Goto(o, "write")
          \/ op[o].kind = "reconnect" /\ (Goto(o, "begin") \/ Goto(o, "off"))
      BY <1>7, <2>1, <2>4 DEF Check
    <3>3. QED BY <1>c, <1>d, <2>0, <2>4, <3>1, <3>2 DEF Checks, Pcs
  <2>5. QED BY <2>2, <2>3, <2>4
<1>8. CASE Write(o)
  BY <1>8, <1>c, <1>d DEF Write, At, Writes, Pcs
<1>9. CASE TurnOff(o)
  <2>0. op[o].pc = "off" /\ UNCHANGED <<config, busy>> /\ Released(o)
    BY <1>9 DEF TurnOff, At, Released
  <2>1. GoesTo(o, IF op[o].kind = "disable" THEN "await" ELSE "finish")
    BY <1>9, <1>d DEF TurnOff, Pcs
  <2>2. CASE op[o].kind = "disable" \/ GenerationMatches(o)
    <3>1. mgr' = [mgr EXCEPT !.gen = @ + 1, !.status = "Disabled", !.enabled = FALSE,
                             !.client = None]
      BY <1>9, <2>2 DEF TurnOff
    <3>2. TMgr' /\ Bumps /\ mgr'.status = "Disabled" /\ ~mgr'.enabled
      <4>1. mgr' = [mgr EXCEPT !.gen = mgr.gen + 1, !.status = "Disabled", !.enabled = FALSE,
                               !.client = None, !.attempt = mgr.attempt]
        BY <1>a, <3>1 DEF MgrRecords
      <4>2. mgr.attempt \in Ops \union {NoOp}
        BY <1>a DEF MgrRecords
      <4>3. QED BY <1>0, <4>1, <4>2, BumpForm DEF Statuses
    <3>3. QED BY <2>0, <2>1, <2>2, <3>2 DEF Turns, GoesTo
  <2>3. CASE ~(op[o].kind = "disable" \/ GenerationMatches(o))
    BY <1>9, <1>c, <2>0, <2>1, <2>3 DEF TurnOff, Turns
  <2>4. QED BY <2>2, <2>3
<1>10. CASE BeginConnect(o)
  <2>0. op[o].pc = "begin" /\ UNCHANGED <<config, cfgLock, busy>>
    BY <1>10 DEF BeginConnect, At
  <2>1. CASE GenerationMatches(o)
    <3>1. mgr' = [mgr EXCEPT !.gen = @ + 1, !.status = "Reconnecting", !.enabled = TRUE,
                             !.client = None, !.attempt = o]
      BY <1>10, <2>1 DEF BeginConnect
    <3>2. TMgr' /\ Bumps /\ mgr'.status = "Reconnecting"
      BY <1>0, <3>1, BumpForm DEF Statuses
    <3>3. op' = [op EXCEPT ![o].pc = "await", ![o].then = "dial",
                           ![o].stale = mgr.attempt, ![o].client = mgr.client]
      BY <1>10, <2>1 DEF BeginConnect
    <3>4. op'[o] = [op[o] EXCEPT !.pc = "await", !.then = "dial",
                                 !.stale = mgr.attempt, !.client = mgr.client]
          /\ \A p \in Ops : p # o => op'[p] = op[p]
      BY <1>0, <3>3 DEF TOp
    <3>5. mgr.attempt \in Ops \union {NoOp} /\ mgr.client \in Transports \union {None}
      BY <1>a DEF MgrRecords
    <3>6. /\ op'[o] \in OpRecords /\ op'[o].kind = op[o].kind /\ op'[o].gen = op[o].gen
          /\ Sets(o, "await", "dial", op[o].try, op[o].err)
      BY <1>a, <3>4, <3>5 DEF OpRecords, Sets, Pcs
    <3>7. op' = [p \in Ops |-> op'[p]]
      BY <1>0, <3>3 DEF TOp
    <3>8. TOp'
      BY <1>0, <3>4, <3>6, <3>7 DEF TOp
    <3>9. GoesThen(o, "await", "dial")
      BY <3>4, <3>6, <3>8 DEF GoesThen, OpFrame
    <3>10. QED BY <2>0, <2>1, <3>2, <3>9 DEF Begins, GoesThen
  <2>2. CASE ~GenerationMatches(o)
    BY <1>10, <1>c, <1>d, <2>0, <2>2 DEF BeginConnect, Begins, Pcs
  <2>3. QED BY <2>1, <2>2
<1>11. CASE Dial(o) \/ Serve(o)
  BY <1>11, <1>c, <1>d DEF Dial, Serve, At, Connects, Pcs
<1>12. CASE DialFails(o)
  <2>0. op[o].pc = "dialing" /\ Calm
    BY <1>12 DEF DialFails, At
  <2>1. PICK retry \in BOOLEAN :
          /\ retry => op[o].try < MaxRetries
          /\ op' = [op EXCEPT ![o].pc = "drain", ![o].then = IF retry THEN "dial" ELSE "report"]
    BY <1>12 DEF DialFails
  <2>2. GoesThen(o, "drain", IF retry THEN "dial" ELSE "report")
    BY <1>0, <2>1, ThenForm DEF Pcs, Thens
  <2>3. Drains(o)
    BY <2>1, <2>2 DEF Drains
  <2>4. QED BY <1>c, <2>0, <2>2, <2>3 DEF Connects, Thens
<1>13. CASE Listed(o)
  <2>0. op[o].pc = "listing" /\ Calm
    BY <1>13 DEF Listed, At
  <2>1. CASE Goto(o, "install")
    BY <1>c, <1>d, <2>0, <2>1 DEF Connects, Pcs
  <2>2. ASSUME NEW th \in {"drop", "drain"},
               op' = [op EXCEPT ![o].pc = "fence", ![o].then = th, ![o].client = Trying(o)]
        PROVE  OpFrame(o) /\ TMgr' /\ Connects(o)
    <3>1. GoesThen(o, "fence", th)
      BY <1>0, <2>2, ThenForm DEF Pcs, Thens
    <3>2. QED BY <1>c, <2>0, <3>1 DEF Connects, Thens
  <2>3. QED BY <1>13, <2>1, <2>2 DEF Listed
<1>14. CASE ConnectCancelled(o)
  BY <1>14, <1>c, <1>d DEF ConnectCancelled, At, Connects, Pcs
<1>15. CASE Drain(o)
  BY <1>15, <1>c, <1>d DEF Drain, At, Connects, Pcs
<1>16. CASE Retry(o)
  <2>0. op[o].pc = "backoff" /\ op' = [op EXCEPT ![o].pc = "dial", ![o].try = @ + 1] /\ Calm
    BY <1>16 DEF Retry, At
  <2>1. op'[o] = [op[o] EXCEPT !.pc = "dial", !.try = @ + 1]
        /\ \A p \in Ops : p # o => op'[p] = op[p]
    BY <1>0, <2>0 DEF TOp
  <2>2. op[o].try + 1 \in 0 .. MaxRetries
    BY <1>a, <2>0, McpAssumption DEF MKinds, OpRecords
  <2>3. /\ op'[o] \in OpRecords /\ op'[o].kind = op[o].kind /\ op'[o].gen = op[o].gen
        /\ Sets(o, "dial", op[o].then, op[o].try + 1, op[o].err)
    BY <1>a, <2>1, <2>2 DEF OpRecords, Sets, Pcs
  <2>4. op' = [p \in Ops |-> op'[p]]
    BY <1>0, <2>0 DEF TOp
  <2>5. TOp'
    BY <1>0, <2>1, <2>3, <2>4 DEF TOp
  <2>6. OpFrame(o)
    BY <2>1, <2>3, <2>5 DEF OpFrame
  <2>7. QED BY <1>0, <2>0, <2>3, <2>6 DEF Connects, TMgr
<1>17. CASE Apply(o)
  <2>0. op[o].pc \in {"install", "report"} /\ UNCHANGED <<config, cfgLock, busy>>
    BY <1>17 DEF Apply, At
  <2>1. GoesTo(o, "finish") \/ GoesThen(o, "fence", "drop")
    <3>1. CASE op' = [op EXCEPT ![o].pc = "fence", ![o].then = "drop", ![o].client = Trying(o)]
      BY <1>0, <3>1, ThenForm DEF Pcs, Thens
    <3>2. CASE Goto(o, "finish")
      BY <1>d, <3>2 DEF Pcs
    <3>3. QED BY <1>17, <3>1, <3>2 DEF Apply
  <2>2. CASE UNCHANGED mgr
    BY <1>0, <2>0, <2>1, <2>2 DEF Applies, TMgr, GoesTo, GoesThen
  <2>3. CASE mgr' # mgr
    <3>1. OutcomeIsCurrent(o)
      BY <1>17, <2>3 DEF Apply
    <3>2. PICK s \in {"Ready", "Failed"}, c \in {Trying(o), None} :
            /\ mgr' = [mgr EXCEPT !.attempt = NoOp, !.status = s, !.client = c]
            /\ c = Trying(o) => s = "Ready"
      <4>1. CASE op[o].pc = "install"
        BY <1>17, <3>1, <4>1 DEF Apply
      <4>2. CASE op[o].pc # "install"
        <5>1. Trying(o) # None
          BY <1>a, Bounds DEF Trying, None, NoOp
        <5>2. QED BY <1>17, <3>1, <4>2, <5>1 DEF Apply
      <4>3. QED BY <4>1, <4>2
    <3>3. /\ TMgr' /\ mgr'.gen = mgr.gen /\ mgr'.enabled = mgr.enabled /\ mgr'.down = mgr.down
          /\ mgr'.status = s /\ mgr'.client = c /\ mgr'.attempt = NoOp
      BY <1>a, <3>2 DEF TMgr, MgrRecords, Statuses
    <3>4. QED BY <2>0, <2>1, <3>1, <3>2, <3>3 DEF Applies, GoesTo, GoesThen, OutcomeIsCurrent
  <2>4. QED BY <2>2, <2>3
<1>18. CASE Finish(o)
  <2>0. /\ op[o].pc = "finish" /\ UNCHANGED <<config, cfgLock>>
        /\ busy' = IF busy = o THEN NoOp ELSE busy
    BY <1>18 DEF Finish, At
  <2>1. GoesTo(o, "end")
    BY <1>18, <1>d DEF Finish, Pcs
  <2>2. CASE UNCHANGED mgr
    BY <1>c, <2>0, <2>1, <2>2 DEF Finishes
  <2>3. CASE mgr' # mgr
    <3>1. /\ op[o].err /\ op[o].kind # "disable" /\ GenerationMatches(o)
          /\ mgr' = [mgr EXCEPT !.gen = @ + 1, !.client = None, !.status = "Failed"]
      BY <1>18, <2>3 DEF Finish
    <3>2. TMgr' /\ Bumps /\ mgr'.status = "Failed"
      <4>1. mgr' = [mgr EXCEPT !.gen = mgr.gen + 1, !.status = "Failed", !.enabled = mgr.enabled,
                               !.client = None, !.attempt = mgr.attempt]
        BY <1>a, <3>1 DEF MgrRecords
      <4>2. mgr.attempt \in Ops \union {NoOp} /\ mgr.enabled \in BOOLEAN
        BY <1>a DEF MgrRecords
      <4>3. QED BY <1>0, <4>1, <4>2, BumpForm DEF Statuses
    <3>3. QED BY <2>0, <2>1, <3>1, <3>2 DEF Finishes, GoesTo
  <2>4. QED BY <2>2, <2>3
<1>19. QED
  BY <1>1, <1>2, <1>3, <1>4, <1>5, <1>6, <1>7, <1>8, <1>9, <1>10, <1>11, <1>12, <1>13, <1>14,
     <1>15, <1>16, <1>17, <1>18 DEF OpStep

\* A request of the panel starts the next operation.
Requests(kind, o) ==
    /\ PanelIsOpen /\ Offered(kind) /\ IsNext(o)
    /\ TOp' /\ \A p \in Ops : p # o => op'[p] = op[p]
    /\ op'[o].kind = kind /\ op'[o].gen = mgr.gen + 1
    /\ Sets(o, IF kind = "disable" THEN "lock" ELSE "await",
            CASE kind = "reconnect" -> "read" [] kind = "enable" -> "lock"
              [] kind = "disable" -> "finish", 0, FALSE)
    /\ busy' = o /\ UNCHANGED <<config, cfgLock>>
    /\ Bumps /\ mgr'.status = (IF kind = "disable" THEN "Disabled" ELSE "Reconnecting")
    /\ mgr'.enabled = (mgr.enabled /\ kind # "disable")

LEMMA RequestMoves ==
  ASSUME CTypeOK, NEW kind \in {"reconnect", "enable", "disable"}, BeginRequest(kind)
  PROVE  TMgr' /\ \E o \in Ops : Requests(kind, o)
<1>0. TOp /\ TMgr /\ mgr \in MgrRecords
  BY TypeParts DEF TMgr
<1> DEFINE pc == IF kind = "disable" THEN "lock" ELSE "await"
           th == CASE kind = "reconnect" -> "read" [] kind = "enable" -> "lock"
                   [] kind = "disable" -> "finish"
<1>1. PICK o \in Ops :
        /\ IsNext(o) /\ busy' = o
        /\ op' = [op EXCEPT ![o] = [Idle EXCEPT !.kind = kind, !.gen = mgr.gen + 1,
                                      !.stale = mgr.attempt, !.client = mgr.client,
                                      !.pc = pc, !.then = th]]
  BY DEF BeginRequest
<1>2. pc \in Pcs /\ th \in Thens
  BY DEF Pcs, Thens
<1>3. /\ mgr.gen + 1 \in Nat /\ mgr.attempt \in Ops \union {NoOp}
      /\ mgr.client \in Transports \union {None} /\ mgr.enabled \in BOOLEAN
  BY <1>0 DEF MgrRecords
<1>4. /\ mgr' = [mgr EXCEPT !.gen = @ + 1, !.client = None,
                            !.status = IF kind = "disable" THEN "Disabled" ELSE "Reconnecting",
                            !.enabled = @ /\ kind # "disable"]
      /\ PanelIsOpen /\ Offered(kind) /\ UNCHANGED <<config, cfgLock>>
  BY DEF BeginRequest
<1>5. /\ TMgr' /\ Bumps
      /\ mgr'.status = (IF kind = "disable" THEN "Disabled" ELSE "Reconnecting")
      /\ mgr'.enabled = (mgr.enabled /\ kind # "disable")
  <2> DEFINE s == IF kind = "disable" THEN "Disabled" ELSE "Reconnecting"
             e == mgr.enabled /\ kind # "disable"
  <2>1. s \in Statuses /\ e \in BOOLEAN
    BY <1>3 DEF Statuses
  <2>2. mgr' = [mgr EXCEPT !.gen = mgr.gen + 1, !.status = s, !.enabled = e, !.client = None,
                           !.attempt = mgr.attempt]
    BY <1>0, <1>4 DEF MgrRecords
  <2> HIDE DEF s, e
  <2>3. TMgr' /\ Bumps /\ mgr'.status = s /\ mgr'.enabled = e
    BY <1>0, <1>3, <2>1, <2>2, BumpForm
  <2>4. QED BY <2>3 DEF s, e
<1> HIDE DEF pc, th
<1>6. op'[o] = [Idle EXCEPT !.kind = kind, !.gen = mgr.gen + 1, !.stale = mgr.attempt,
                            !.client = mgr.client, !.pc = pc, !.then = th]
      /\ \A p \in Ops : p # o => op'[p] = op[p]
  BY <1>0, <1>1 DEF TOp
<1>7. /\ op'[o].kind = kind /\ op'[o].gen = mgr.gen + 1 /\ Sets(o, pc, th, 0, FALSE)
      /\ op'[o] \in OpRecords
  BY ZenonT(60), <1>2, <1>3, <1>6, Bounds DEF Idle, Sets, OpRecords, Thens
<1>8. op' = [p \in Ops |-> op'[p]]
  BY <1>0, <1>1 DEF TOp
<1>9. TOp'
  BY <1>0, <1>6, <1>7, <1>8 DEF TOp
<1>10. Requests(kind, o)
  BY <1>1, <1>4, <1>5, <1>6, <1>7, <1>9 DEF Requests, pc, th
<1>11. QED BY <1>5, <1>10

\* The startup refresh gives the server its first generation.
Refreshes ==
    /\ op[1].pc = "read" /\ op[1].kind = "refresh" /\ UNCHANGED <<config, cfgLock, busy>>
    /\ GoesTo(1, "finish") \/ GoesTo(1, "dial")
    /\ \/ UNCHANGED mgr
       \/ /\ mgr'.gen = mgr.gen + 1 /\ mgr'.client = mgr.client /\ mgr'.down = mgr.down
          /\ mgr'.status = "Disabled" => ~mgr'.enabled

LEMMA RefreshMoves ==
  ASSUME CTypeOK, Refresh
  PROVE  TMgr' /\ Refreshes
<1>0. TOp /\ TMgr /\ mgr \in MgrRecords /\ config \in BOOLEAN
  BY TypeParts DEF TMgr, TFlags
<1>1. op[1].pc = "read" /\ op[1].kind = "refresh" /\ UNCHANGED <<config, cfgLock, busy>>
  BY DEF Refresh, At
<1>2. GoesTo(1, "finish") \/ GoesTo(1, "dial")
  <2>1. Goto(1, "finish") \/ Goto(1, "dial")
    BY DEF Refresh
  <2>2. QED BY <1>0, <2>1, GotoForm, Bounds DEF Pcs
<1>3. CASE UNCHANGED mgr
  BY <1>0, <1>1, <1>2, <1>3 DEF Refreshes, TMgr
<1>4. CASE mgr' # mgr
  <2> DEFINE s == IF config THEN "Starting" ELSE "Disabled"
             a == IF config THEN 1 ELSE NoOp
  <2>1. mgr' = [mgr EXCEPT !.gen = @ + 1, !.enabled = config, !.status = s, !.attempt = a]
    BY <1>4 DEF Refresh
  <2>2. s \in Statuses /\ a \in Ops \union {NoOp} /\ mgr.gen + 1 \in Nat
        /\ (s = "Disabled" => ~config)
    BY <1>0, Bounds DEF Statuses, MgrRecords
  <2> HIDE DEF s, a
  <2>3. /\ mgr' \in MgrRecords /\ mgr'.gen = mgr.gen + 1 /\ mgr'.client = mgr.client
        /\ mgr'.down = mgr.down /\ mgr'.status = s /\ mgr'.enabled = config
    BY <1>0, <2>1, <2>2 DEF MgrRecords
  <2>4. QED BY <1>1, <1>2, <2>2, <2>3 DEF Refreshes, TMgr
<1>5. QED BY <1>3, <1>4

\* What the watchers and the shutdown do to the manager.
Outside ==
    /\ UNCHANGED <<op, config, cfgLock, busy>>
    /\ \/ UNCHANGED mgr
       \/ mgr.client # None /\ Bumps /\ mgr'.status = "Failed"
       \/ /\ mgr'.gen = mgr.gen /\ mgr'.status = mgr.status /\ mgr'.enabled = mgr.enabled
          /\ mgr.down => mgr'.down
          /\ mgr'.client = None \/ (mgr'.client = mgr.client /\ mgr'.attempt = mgr.attempt)

OutsideStep ==
    \/ \E t \in Transports : Settle(t) \/ ReportFence(t) \/ ReportClose(t) \/ ReportFailure(t)
    \/ Shutdown \/ TakeAll \/ WaitAttempt \/ Exit \/ UNCHANGED vars

LEMMA OutsideMoves ==
  ASSUME CTypeOK, OutsideStep
  PROVE  TMgr' /\ Outside
<1>0. TMgr /\ mgr \in MgrRecords
  BY TypeParts DEF TMgr
<1>1. ASSUME NEW t \in Transports, ReportFailure(t)
      PROVE  TMgr' /\ Outside
  <2>1. mgr' = [mgr EXCEPT !.gen = @ + 1, !.client = None, !.status = "Failed"]
    BY <1>1 DEF ReportFailure
  <2>2. mgr' = [mgr EXCEPT !.gen = mgr.gen + 1, !.status = "Failed", !.enabled = mgr.enabled,
                           !.client = None, !.attempt = mgr.attempt]
    BY <1>0, <2>1 DEF MgrRecords
  <2>3. mgr.attempt \in Ops \union {NoOp} /\ mgr.enabled \in BOOLEAN
    BY <1>0 DEF MgrRecords
  <2>4. TMgr' /\ Bumps /\ mgr'.status = "Failed"
    BY <1>0, <2>2, <2>3, BumpForm DEF Statuses
  <2>5. mgr.client # None
    <3>1. mgr.client = t
      BY <1>1 DEF ReportFailure, ReportIsCurrent
    <3>2. t # None
      BY Bounds DEF Transports, None, NoOp
    <3>3. QED BY <3>1, <3>2
  <2>6. QED BY <1>1, <2>4, <2>5 DEF ReportFailure, Outside
<1>2. CASE Shutdown
  BY <1>0, <1>2 DEF Shutdown, Outside, TMgr, MgrRecords
<1>3. CASE TakeAll
  BY <1>0, <1>3 DEF TakeAll, Outside, TMgr, MgrRecords
<1>4. CASE \/ \E t \in Transports : Settle(t) \/ ReportFence(t) \/ ReportClose(t)
           \/ WaitAttempt \/ Exit \/ UNCHANGED vars
  BY <1>0, <1>4 DEF Settle, ReportFence, ReportClose, WaitAttempt, Exit, vars, Outside, TMgr
<1>5. QED BY <1>1, <1>2, <1>3, <1>4 DEF OutsideStep

\* Every step is one of these.
LEMMA NextMoves ==
  ASSUME [Next]_vars
  PROVE  \/ \E o \in Ops : OpStep(o)
         \/ \E kind \in {"reconnect", "enable", "disable"} : BeginRequest(kind)
         \/ Refresh \/ OutsideStep
  BY DEF Next, Progress, OutsideStep

LEMMA TrNext ==
  ASSUME CTypeOK, [Next]_vars
  PROVE  TTr' /\ TCloser'
<1>0. TOp /\ TMgr /\ TTr /\ TCloser
  BY TypeParts
<1>a. mgr.client \in Transports \union {None}
  BY <1>0 DEF TMgr, MgrRecords
<1>b. ASSUME NEW t \in Transports \union {None}, tr' = Closing(tr, t)
      PROVE  TTr'
  BY <1>0, <1>b, ClosingType DEF TTr
<1>c. ASSUME NEW t \in Transports, NEW s \in TrStates, tr' = [tr EXCEPT ![t] = s]
      PROVE  TTr'
  BY <1>0, <1>c DEF TTr
<1>d. ASSUME UNCHANGED tr
      PROVE  TTr'
  BY <1>0, <1>d DEF TTr
<1>1. TTr'
  <2>1. ASSUME NEW t \in Transports, Settle(t)
        PROVE  TTr'
    <3>1. PICK s \in {"gone", "stuck"} : tr' = [tr EXCEPT ![t] = s]
      BY <2>1 DEF Settle
    <3>2. QED BY <1>c, <3>1 DEF TrStates
  <2>2. ASSUME NEW kind, BeginRequest(kind)
        PROVE  TTr'
    BY <1>a, <1>b, <2>2 DEF BeginRequest
  <2>3. ASSUME NEW o \in Ops, Finish(o)
        PROVE  TTr'
    BY <1>a, <1>b, <1>d, <2>3 DEF Finish
  <2>4. ASSUME NEW o \in Ops, Fence(o)
        PROVE  TTr'
    <3>1. op[o].client \in Transports \union {None}
      BY <1>0 DEF TOp, OpRecords
    <3>2. QED BY <1>b, <2>4, <3>1 DEF Fence
  <2>5. ASSUME NEW o \in Ops, Dial(o) \/ Serve(o) \/ DialFails(o)
        PROVE  TTr'
    BY <1>0, <1>c, <2>5, TryingType DEF Dial, Serve, DialFails, TrStates
  <2>6. ASSUME NEW o \in Ops, ConnectCancelled(o)
        PROVE  TTr'
    BY <1>0, <1>b, <1>c, <2>6, TryingType DEF ConnectCancelled, TrStates
  <2>7. ASSUME NEW t \in Transports, ReportFence(t)
        PROVE  TTr'
    BY <1>b, <2>7 DEF ReportFence
  <2>8. CASE TakeAll
    BY <1>a, <1>b, <2>8 DEF TakeAll
  <2>9. ASSUME NEW o \in Ops,
               \/ AwaitAttempt(o) \/ Close(o) \/ Lock(o) \/ Read(o) \/ ConfigError(o)
               \/ Check(o) \/ Write(o) \/ TurnOff(o) \/ BeginConnect(o) \/ Listed(o)
               \/ Drain(o) \/ Retry(o) \/ Apply(o)
        PROVE  TTr'
    BY <1>d, <2>9 DEF AwaitAttempt, Close, Lock, Read, ConfigError, Check, Write, TurnOff,
       BeginConnect, Listed, Drain, Retry, Apply
  <2>10. CASE \/ \E t \in Transports : ReportClose(t) \/ ReportFailure(t)
              \/ Refresh \/ WaitAttempt \/ Exit \/ Shutdown \/ UNCHANGED vars
    BY <1>d, <2>10 DEF ReportClose, ReportFailure, Refresh, WaitAttempt, Exit, Shutdown, vars
  <2>11. QED
    BY <2>1, <2>2, <2>3, <2>4, <2>5, <2>6, <2>7, <2>8, <2>9, <2>10 DEF Next, Progress, OpStep
<1>2. TCloser'
  <2>1. ASSUME NEW t \in Transports, ReportFence(t) \/ ReportClose(t)
        PROVE  TCloser'
    BY <1>0, <2>1 DEF ReportFence, ReportClose, TCloser
  <2>2. ASSUME NEW t \in Transports, ReportFailure(t)
        PROVE  TCloser'
    BY <1>0, <2>2 DEF ReportFailure, TCloser, ReportIsCurrent
  <2>3. ASSUME NEW o \in Ops, OpStep(o)
        PROVE  UNCHANGED closer
    <3>1. CASE \/ AwaitAttempt(o) \/ Fence(o) \/ Close(o) \/ Lock(o) \/ Read(o)
               \/ ConfigError(o) \/ Check(o) \/ Write(o) \/ TurnOff(o) \/ BeginConnect(o)
      BY <3>1 DEF AwaitAttempt, Fence, Close, Lock, Read, ConfigError, Check, Write, TurnOff,
         BeginConnect
    <3>2. CASE \/ Dial(o) \/ Serve(o) \/ DialFails(o) \/ Listed(o) \/ ConnectCancelled(o)
               \/ Drain(o) \/ Retry(o) \/ Apply(o) \/ Finish(o)
      BY <3>2 DEF Dial, Serve, DialFails, Listed, ConnectCancelled, Drain, Retry, Apply, Finish
    <3>3. QED BY <2>3, <3>1, <3>2 DEF OpStep
  <2>4. ASSUME \/ \E kind \in {"reconnect", "enable", "disable"} : BeginRequest(kind)
               \/ \E t \in Transports : Settle(t)
               \/ Refresh \/ TakeAll \/ WaitAttempt \/ Exit \/ Shutdown \/ UNCHANGED vars
        PROVE  UNCHANGED closer
    BY <2>4 DEF BeginRequest, Settle, Refresh, TakeAll, WaitAttempt, Exit, Shutdown, vars
  <2>5. QED BY <1>0, <2>1, <2>2, <2>3, <2>4 DEF Next, Progress, TCloser
<1>3. QED BY <1>1, <1>2

LEMMA FaultsNext ==
  ASSUME CTypeOK, [Next]_vars
  PROVE  TFaults'
<1>0. TFaults
  BY TypeParts
<1>1. UNCHANGED faults \/ (MayFail /\ faults' = faults + 1)
  <2>1. ASSUME NEW bad \in BOOLEAN, Fault(bad), bad => MayFail
        PROVE  UNCHANGED faults \/ (MayFail /\ faults' = faults + 1)
    BY <2>1 DEF Fault
  <2>2. ASSUME NEW o \in Ops,
               \/ AwaitAttempt(o) \/ Fence(o) \/ Lock(o) \/ Read(o) \/ Check(o) \/ Write(o)
               \/ TurnOff(o) \/ BeginConnect(o) \/ Dial(o) \/ Serve(o) \/ ConnectCancelled(o)
               \/ Drain(o) \/ Retry(o) \/ Apply(o) \/ Finish(o)
        PROVE  UNCHANGED faults
    BY <2>2 DEF AwaitAttempt, Fence, Lock, Read, Check, Write, TurnOff, BeginConnect, Dial,
       Serve, ConnectCancelled, Drain, Retry, Apply, Finish
  <2>3. ASSUME NEW o \in Ops, Close(o)
        PROVE  UNCHANGED faults \/ (MayFail /\ faults' = faults + 1)
    <3>1. PICK released \in BOOLEAN : (~released => MayFail) /\ Fault(~released)
      BY <2>3 DEF Close
    <3>2. QED BY <3>1 DEF Fault
  <2>4. ASSUME NEW o \in Ops, ConfigError(o) \/ DialFails(o) \/ Listed(o)
        PROVE  UNCHANGED faults \/ (MayFail /\ faults' = faults + 1)
    BY <2>4 DEF ConfigError, DialFails, Listed, Fault
  <2>5. ASSUME NEW t \in Transports, Settle(t) \/ ReportClose(t)
        PROVE  UNCHANGED faults \/ (MayFail /\ faults' = faults + 1)
    <3>1. PICK clean \in BOOLEAN : (~clean => MayFail) /\ Fault(~clean)
      BY <2>5 DEF Settle, ReportClose
    <3>2. QED BY <3>1 DEF Fault
  <2>6. CASE Refresh \/ \E t \in Transports : ReportFailure(t)
    BY <2>6 DEF Refresh, ReportFailure, Fault
  <2>7. CASE \/ \E kind \in {"reconnect", "enable", "disable"} : BeginRequest(kind)
             \/ \E t \in Transports : ReportFence(t)
             \/ TakeAll \/ WaitAttempt \/ Exit \/ Shutdown \/ UNCHANGED vars
    BY <2>7 DEF BeginRequest, ReportFence, TakeAll, WaitAttempt, Exit, Shutdown, vars
  <2>8. QED
    BY <2>2, <2>3, <2>4, <2>5, <2>6, <2>7 DEF Next, Progress, OpStep
<1>2. QED BY <1>0, <1>1, McpAssumption DEF MayFail, TFaults

LEMMA QuitNext ==
  ASSUME CTypeOK, [Next]_vars
  PROVE  TQuit'
<1>0. TQuit /\ TMgr
  BY TypeParts
<1>1. CASE Shutdown \/ WaitAttempt \/ Exit
  BY <1>0, <1>1 DEF TQuit, Shutdown, WaitAttempt, Exit
<1>2. CASE TakeAll
  BY <1>0, <1>2 DEF TQuit, TakeAll, TMgr, MgrRecords
<1>3. ASSUME NEW o \in Ops, OpStep(o)
      PROVE  UNCHANGED quit
  <2>1. CASE \/ AwaitAttempt(o) \/ Fence(o) \/ Close(o) \/ Lock(o) \/ Read(o)
             \/ ConfigError(o) \/ Check(o) \/ Write(o) \/ TurnOff(o) \/ BeginConnect(o)
    BY <2>1 DEF AwaitAttempt, Fence, Close, Lock, Read, ConfigError, Check, Write, TurnOff,
       BeginConnect
  <2>2. CASE \/ Dial(o) \/ Serve(o) \/ DialFails(o) \/ Listed(o) \/ ConnectCancelled(o)
             \/ Drain(o) \/ Retry(o) \/ Apply(o) \/ Finish(o)
    BY <2>2 DEF Dial, Serve, DialFails, Listed, ConnectCancelled, Drain, Retry, Apply, Finish
  <2>3. QED BY <1>3, <2>1, <2>2 DEF OpStep
<1>4. ASSUME \/ \E kind \in {"reconnect", "enable", "disable"} : BeginRequest(kind)
             \/ \E t \in Transports : Settle(t) \/ ReportFence(t) \/ ReportClose(t)
                                      \/ ReportFailure(t)
             \/ Refresh \/ UNCHANGED vars
      PROVE  UNCHANGED quit
  BY <1>4 DEF BeginRequest, Settle, ReportFence, ReportClose, ReportFailure, Refresh, vars
<1>5. QED BY <1>0, <1>1, <1>2, <1>3, <1>4 DEF Next, Progress, TQuit

LEMMA FlagsNext ==
  ASSUME CTypeOK, [Next]_vars
  PROVE  gate' \in BOOLEAN /\ overtaken' \in BOOLEAN
<1>0. TFlags
  BY TypeParts
<1>1. gate' \in BOOLEAN
  <2>1. ASSUME NEW o \in Ops, Close(o)
        PROVE  gate' \in BOOLEAN
    BY <2>1 DEF Close
  <2>2. ASSUME NEW o \in Ops, Drain(o) \/ AwaitAttempt(o) \/ Fence(o)
        PROVE  gate' \in BOOLEAN
    BY <1>0, <2>2 DEF Drain, AwaitAttempt, Fence, TFlags
  <2>3. ASSUME NEW t \in Transports, ReportFence(t) \/ ReportClose(t)
        PROVE  gate' \in BOOLEAN
    BY <2>3 DEF ReportFence, ReportClose
  <2>4. CASE WaitAttempt
    BY <2>4 DEF WaitAttempt
  <2>5. ASSUME NEW o \in Ops,
               \/ Lock(o) \/ Read(o) \/ ConfigError(o) \/ Check(o) \/ Write(o) \/ TurnOff(o)
               \/ BeginConnect(o) \/ Dial(o) \/ Serve(o) \/ DialFails(o) \/ Listed(o)
               \/ ConnectCancelled(o) \/ Retry(o) \/ Apply(o) \/ Finish(o)
        PROVE  UNCHANGED gate
    BY <2>5 DEF Lock, Read, ConfigError, Check, Write, TurnOff, BeginConnect, Dial, Serve,
       DialFails, Listed, ConnectCancelled, Retry, Apply, Finish
  <2>6. ASSUME \/ \E kind \in {"reconnect", "enable", "disable"} : BeginRequest(kind)
               \/ \E t \in Transports : Settle(t) \/ ReportFailure(t)
               \/ Refresh \/ TakeAll \/ Exit \/ Shutdown \/ UNCHANGED vars
        PROVE  UNCHANGED gate
    BY <2>6 DEF BeginRequest, Settle, ReportFailure, Refresh, TakeAll, Exit, Shutdown, vars
  <2>7. QED
    BY <1>0, <2>1, <2>2, <2>3, <2>4, <2>5, <2>6 DEF Next, Progress, OpStep, TFlags
<1>2. overtaken' \in BOOLEAN
  <2>1. ASSUME NEW o \in Ops, Check(o)
        PROVE  overtaken' \in BOOLEAN
    BY <2>1 DEF Check
  <2>2. ASSUME NEW o \in Ops,
               \/ AwaitAttempt(o) \/ Fence(o) \/ Close(o) \/ Lock(o) \/ Read(o)
               \/ ConfigError(o) \/ Write(o) \/ TurnOff(o) \/ BeginConnect(o)
        PROVE  UNCHANGED overtaken
    BY <2>2 DEF AwaitAttempt, Fence, Close, Lock, Read, ConfigError, Write, TurnOff,
       BeginConnect
  <2>3. ASSUME NEW o \in Ops,
               \/ Dial(o) \/ Serve(o) \/ DialFails(o) \/ Listed(o) \/ ConnectCancelled(o)
               \/ Drain(o) \/ Retry(o) \/ Apply(o) \/ Finish(o)
        PROVE  UNCHANGED overtaken
    BY <2>3 DEF Dial, Serve, DialFails, Listed, ConnectCancelled, Drain, Retry, Apply, Finish
  <2>4. ASSUME \/ \E kind \in {"reconnect", "enable", "disable"} : BeginRequest(kind)
               \/ \E t \in Transports : Settle(t) \/ ReportFence(t) \/ ReportClose(t)
                                        \/ ReportFailure(t)
               \/ Refresh \/ TakeAll \/ WaitAttempt \/ Exit \/ Shutdown \/ UNCHANGED vars
        PROVE  UNCHANGED overtaken
    BY <2>4 DEF BeginRequest, Settle, ReportFence, ReportClose, ReportFailure, Refresh, TakeAll,
       WaitAttempt, Exit, Shutdown, vars
  <2>5. QED BY <1>0, <2>1, <2>2, <2>3, <2>4 DEF Next, Progress, OpStep, TFlags
<1>3. QED BY <1>1, <1>2

LEMMA TypesNext ==
  ASSUME CTypeOK, MKinds, MOrder, [Next]_vars
  PROVE  CTypeOK'
<1>0. TOp /\ TMgr /\ TFlags /\ TLock
  BY TypeParts
<1>1. TOp' /\ TMgr' /\ config' \in BOOLEAN /\ TLock'
  <2>1. ASSUME NEW o \in Ops, OpStep(o)
        PROVE  TOp' /\ TMgr' /\ config' \in BOOLEAN /\ TLock'
    <3>1. /\ TMgr' /\ OpFrame(o)
          /\ \/ Waits(o) \/ Connects(o) \/ Locks(o) \/ Reads(o) \/ Errs(o) \/ Checks(o)
             \/ Writes(o) \/ Turns(o) \/ Begins(o) \/ Applies(o) \/ Finishes(o)
      BY <2>1, OpMoves
    <3>2. config' \in BOOLEAN
      BY <1>0, <3>1 DEF TFlags, Calm, Waits, Connects, Locks, Reads, Errs, Checks, Writes, Turns,
         Begins, Applies, Finishes
    <3>3. TLock'
      BY <1>0, <3>1 DEF TLock, Calm, Released, Waits, Connects, Locks, Reads, Errs, Checks,
         Writes, Turns, Begins, Applies, Finishes
    <3>4. QED BY <3>1, <3>2, <3>3 DEF OpFrame
  <2>2. ASSUME NEW kind \in {"reconnect", "enable", "disable"}, BeginRequest(kind)
        PROVE  TOp' /\ TMgr' /\ config' \in BOOLEAN /\ TLock'
    BY <1>0, <2>2, RequestMoves DEF Requests, TFlags, TLock
  <2>3. CASE Refresh
    BY <1>0, <2>3, RefreshMoves DEF Refreshes, GoesTo, OpFrame, TFlags, TLock
  <2>4. CASE OutsideStep
    BY <1>0, <2>4, OutsideMoves DEF Outside, TOp, TFlags, TLock
  <2>5. QED BY <2>1, <2>2, <2>3, <2>4, NextMoves
<1>2. TAtt' /\ TTr' /\ TCloser' /\ TFaults' /\ TQuit' /\ gate' \in BOOLEAN /\ overtaken' \in BOOLEAN
  BY AttNext, TrNext, FaultsNext, QuitNext, FlagsNext
<1>3. QED
  BY <1>1, <1>2 DEF CTypeOK, TOp, TMgr, TAtt, TTr, TFlags, TCloser, TLock, TQuit, TFaults,
     OpRecords, MgrRecords, AttRecords, TrStates

----------------------------------------------------------------------------
\* The invariant

Moving(o) ==
    \/ Waits(o) \/ Connects(o) \/ Locks(o) \/ Reads(o) \/ Errs(o) \/ Checks(o)
    \/ Writes(o) \/ Turns(o) \/ Begins(o) \/ Applies(o) \/ Finishes(o)

\* Who steps has been started and has not ended.
LEMMA OpFacts ==
  ASSUME MInv, NEW o \in Ops, OpStep(o)
  PROVE  /\ OpFrame(o) /\ Moving(o) /\ Started(o) /\ op[o].pc # "end"
         /\ mgr.gen \in Nat /\ mgr'.gen \in Nat /\ mgr'.gen >= mgr.gen
         /\ mgr'.down = mgr.down
         /\ \A p \in Ops : op'[p].kind = op[p].kind /\ op'[p].gen = op[p].gen
<1>0. TMgr
  BY TypeParts DEF MInv
<1>1. TMgr' /\ OpFrame(o) /\ Moving(o)
  BY OpMoves DEF MInv, Moving
<1>2. op[o].pc # "end"
  BY <1>1 DEF Moving, Waits, Connects, Locks, Reads, Errs, Checks, Writes, Turns, Begins,
     Applies, Finishes
<1>3. Started(o)
  BY <1>2 DEF MInv, MOrder, Idle
<1>4. mgr.gen \in Nat
  BY <1>0 DEF TMgr, MgrRecords
<1>5. mgr'.gen \in {mgr.gen, mgr.gen + 1} /\ mgr'.down = mgr.down
  BY <1>1 DEF Moving, Waits, Connects, Locks, Reads, Errs, Checks, Writes, Turns, Begins,
     Applies, Finishes, Calm, Bumps
<1>6. \A p \in Ops : op'[p].kind = op[p].kind /\ op'[p].gen = op[p].gen
  BY <1>1 DEF OpFrame
<1>7. QED BY <1>1, <1>2, <1>3, <1>4, <1>5, <1>6

LEMMA ClientNext ==
  ASSUME MInv, [Next]_vars
  PROVE  ClientIsCurrent'
<1>0. CTypeOK /\ TOp /\ TMgr /\ ClientIsCurrent /\ MKinds /\ MOrder
  BY TypeParts DEF MInv
<1>a. mgr.client \in Transports \union {None} /\ \A t \in Transports : t[1] \in Ops
  BY <1>0 DEF TMgr, MgrRecords, Transports
<1>b. ASSUME mgr'.client = None
      PROVE  ClientIsCurrent'
  BY <1>b DEF ClientIsCurrent, None
<1>c. ASSUME AttStays, mgr'.gen = mgr.gen, mgr'.status = mgr.status, mgr'.enabled = mgr.enabled,
             mgr'.client = mgr.client, mgr'.attempt = mgr.attempt
      PROVE  ClientIsCurrent'
  <2>1. CASE mgr.client = None
    BY <1>b, <1>c, <2>1
  <2>2. CASE mgr.client # None
    <3>1. mgr.client[1] \in Ops
      BY <1>a, <2>2
    <3>2. att'[mgr.client[1]].gen = att[mgr.client[1]].gen
      BY <1>c, <3>1 DEF AttStays
    <3>3. QED BY <1>0, <1>c, <2>2, <3>2 DEF ClientIsCurrent
  <2>3. QED BY <2>1, <2>2
<1>1. ASSUME NEW o \in Ops, BeginConnect(o), GenerationMatches(o)
      PROVE  ClientIsCurrent'
  BY <1>0, <1>1, <1>b DEF BeginConnect, TMgr, MgrRecords
<1>2. CASE Refresh
  <2>1. Refreshes /\ mgr.client = None
    BY <1>0, <1>2, RefreshMoves, Bounds DEF MKinds, Refreshes
  <2>2. mgr'.client = None
    BY <2>1 DEF Refreshes
  <2>3. QED BY <1>b, <2>2
<1>3. CASE AttStays
  <2>1. ASSUME NEW o \in Ops, OpStep(o)
        PROVE  ClientIsCurrent'
    <3>1. CASE UNCHANGED mgr
      BY <1>3, <1>c, <3>1
    <3>2. CASE Bumps
      BY <1>b, <3>2 DEF Bumps
    <3>3. CASE Applies(o) /\ mgr' # mgr
      <4>1. CASE mgr'.client = None
        BY <1>b, <4>1
      <4>2. CASE mgr'.client # None
        <5>1. /\ mgr'.gen = mgr.gen /\ mgr'.enabled = mgr.enabled /\ mgr.enabled
              /\ mgr'.client = Trying(o) /\ mgr'.status = "Ready" /\ mgr'.attempt = NoOp
              /\ mgr.gen = att[o].gen
          BY <3>3, <4>2 DEF Applies
        <5>2. Trying(o)[1] = o
          BY DEF Trying
        <5>3. att'[o].gen = att[o].gen
          BY <1>3 DEF AttStays
        <5>4. QED BY <5>1, <5>2, <5>3 DEF ClientIsCurrent
      <4>3. QED BY <4>1, <4>2
    <3>4. QED
      BY <2>1, <3>1, <3>2, <3>3, OpFacts DEF Moving, Waits, Connects, Locks, Reads, Errs,
         Checks, Writes, Turns, Begins, Applies, Finishes, Calm
  <2>2. ASSUME NEW kind \in {"reconnect", "enable", "disable"}, BeginRequest(kind)
        PROVE  ClientIsCurrent'
    BY <1>0, <1>b, <2>2, RequestMoves DEF Requests, Bumps
  <2>3. CASE OutsideStep
    <3>1. Outside
      BY <1>0, <2>3, OutsideMoves
    <3>2. CASE mgr' = mgr
      BY <1>3, <1>c, <3>2
    <3>3. CASE mgr' # mgr
      BY <1>3, <1>b, <1>c, <3>1, <3>3 DEF Outside, Bumps
    <3>4. QED BY <3>2, <3>3
  <2>4. QED BY <1>2, <2>1, <2>2, <2>3, NextMoves
<1>4. QED BY <1>0, <1>1, <1>2, <1>3, AttNext

LEMMA OrderNext ==
  ASSUME MInv, [Next]_vars
  PROVE  MOrder'
<1>0. CTypeOK /\ TOp /\ TMgr /\ MOrder /\ mgr.gen \in Nat /\ Ops \subseteq Nat /\ 1 \in Ops
  BY TypeParts, Bounds DEF MInv, TMgr, MgrRecords
<1>a. \A o \in Ops : op[o].gen \in Nat
  BY <1>0 DEF TOp, OpRecords
<1>1. ASSUME mgr'.gen \in Nat, mgr'.gen >= mgr.gen, NEW o \in Ops, Started(o),
             \A p \in Ops : p # o => op'[p] = op[p],
             \A p \in Ops : op'[p].kind = op[p].kind /\ op'[p].gen = op[p].gen
      PROVE  MOrder'
  <2>1. \A p \in Ops : Started(p)' <=> Started(p)
    BY <1>1 DEF Started
  <2>2. op'[1].kind = "refresh" /\ op'[1].gen = 0
    BY <1>0, <1>1 DEF MOrder
  <2>3. \A p \in Ops : ~Started(p)' => op'[p] = Idle
    BY <1>0, <1>1, <2>1 DEF MOrder
  <2>4. ASSUME NEW r \in Ops, NEW p \in Ops, p < r, Started(r)'
        PROVE  Started(p)' /\ op'[p].gen < op'[r].gen /\ op'[r].gen <= mgr'.gen
    <3>1. Started(p) /\ op[p].gen < op[r].gen /\ op[r].gen <= mgr.gen
      BY <1>0, <2>1, <2>4 DEF MOrder
    <3>2. op'[p].gen = op[p].gen /\ op'[r].gen = op[r].gen /\ Started(p)'
      BY <1>1, <2>1, <3>1
    <3>3. op[r].gen \in Nat /\ mgr.gen \in Nat /\ mgr'.gen \in Nat /\ mgr'.gen >= mgr.gen
      BY <1>0, <1>1, <1>a
    <3>4. op[r].gen <= mgr'.gen
      BY <3>1, <3>3
    <3>5. QED BY <3>1, <3>2, <3>4
  <2>5. QED BY <2>2, <2>3, <2>4 DEF MOrder
<1>2. ASSUME NEW o \in Ops, OpStep(o)
      PROVE  MOrder'
  BY <1>1, <1>2, OpFacts DEF OpFrame
<1>3. ASSUME UNCHANGED op, mgr'.gen \in {mgr.gen, mgr.gen + 1}
      PROVE  MOrder'
  <2>1. Started(1)
    BY <1>0 DEF MOrder, Started
  <2>2. QED BY <1>0, <1>1, <1>3, <2>1
<1>4. CASE OutsideStep
  <2>1. Outside
    BY <1>0, <1>4, OutsideMoves
  <2>2. QED BY <1>3, <2>1 DEF Outside, Bumps
<1>5. CASE Refresh
  <2>1. Refreshes
    BY <1>0, <1>5, RefreshMoves
  <2>2. OpFrame(1) /\ mgr'.gen \in {mgr.gen, mgr.gen + 1} /\ Started(1)
    BY <1>0, <2>1 DEF Refreshes, GoesTo, MOrder, Started
  <2>3. QED BY <1>0, <1>1, <2>2 DEF OpFrame
<1>6. ASSUME NEW kind \in {"reconnect", "enable", "disable"}, NEW n \in Ops, Requests(kind, n)
      PROVE  MOrder'
  <2>1. /\ \A p \in Ops : p # n => op'[p] = op[p]
        /\ op'[n].kind = kind /\ op'[n].gen = mgr.gen + 1 /\ mgr'.gen = mgr.gen + 1
        /\ ~Started(n) /\ \A p \in Ops : p < n => Started(p)
    BY <1>6 DEF Requests, Bumps, IsNext
  <2>2. n # 1
    BY <1>0, <2>1 DEF MOrder, Started
  <2>3. \A p \in Ops : op[p].gen <= mgr.gen \/ ~Started(p)
    <3>1. SUFFICES ASSUME NEW p \in Ops, Started(p)
                   PROVE  op[p].gen <= mgr.gen
      OBVIOUS
    <3>2. CASE p = 1
      BY <1>0, <3>2 DEF MOrder
    <3>3. CASE p # 1
      <4>1. 1 < p
        BY <3>3 DEF Ops
      <4>2. QED BY <1>0, <3>1, <4>1 DEF MOrder
    <3>4. QED BY <3>2, <3>3
  <2>4. \A p \in Ops : Started(p)' <=> Started(p) \/ p = n
    BY <2>1 DEF Started
  <2>5. \A p \in Ops : p > n => ~Started(p)
    BY <1>0, <2>1 DEF MOrder
  <2>6. op'[1].kind = "refresh" /\ op'[1].gen = 0
    BY <1>0, <2>1, <2>2 DEF MOrder
  <2>7. \A p \in Ops : ~Started(p)' => op'[p] = Idle
    BY <1>0, <2>1, <2>4 DEF MOrder
  <2>8. ASSUME NEW r \in Ops, NEW p \in Ops, p < r, Started(r)'
        PROVE  Started(p)' /\ op'[p].gen < op'[r].gen /\ op'[r].gen <= mgr'.gen
    <3>1. CASE r = n
      <4>1. Started(p) /\ op[p].gen <= mgr.gen /\ op'[p] = op[p]
        BY <1>0, <2>1, <2>3, <2>8, <3>1
      <4>2. QED BY <1>0, <1>a, <2>1, <2>4, <3>1, <4>1
    <3>2. CASE r # n
      <4>1. Started(r) /\ p # n
        BY <1>0, <2>4, <2>5, <2>8, <3>2
      <4>2. Started(p) /\ op[p].gen < op[r].gen /\ op[r].gen <= mgr.gen
        BY <1>0, <2>8, <4>1 DEF MOrder
      <4>3. QED BY <1>0, <1>a, <2>1, <2>4, <3>2, <4>1, <4>2
    <3>3. QED BY <3>1, <3>2
  <2>9. QED BY <2>6, <2>7, <2>8 DEF MOrder
<1>7. QED BY <1>0, <1>2, <1>4, <1>5, <1>6, NextMoves, RequestMoves

\* The part of MKinds that is about one operation alone.
KindOf(r) ==
    /\ r.pc \in {"drain", "backoff"} /\ r.then = "dial" => r.try < MaxRetries
    /\ r.pc = "backoff" => r.then = "dial"
    /\ r.pc = "await" => r.then \notin {"drop", "drain"}
    /\ r.kind = "refresh" =>
         /\ r.pc \in (Connecting \ {"await"}) \union {"read"}
         /\ r.pc \in {"fence", "close"} => r.then \in {"drop", "drain"}
    /\ r.kind = "reconnect" =>
         /\ r.pc \in Connecting \union {"read", "check", "off", "begin"}
         /\ r.then \in {"read", "dial", "drop", "drain", "report"}
    /\ r.kind = "enable" =>
         /\ r.pc \in Connecting \union {"lock", "read", "check", "write", "begin"}
         /\ r.then \in {"lock", "dial", "drop", "drain", "report"}
    /\ r.kind = "disable" =>
         /\ r.pc \in {"lock", "write", "off", "await", "fence", "close", "finish", "end"}
         /\ r.then = "finish"

\* And the part about the startup refresh: it is the first operation, and alone.
FirstAlone ==
    \A o \in Ops : op[o].kind = "refresh" =>
      /\ o = 1
      /\ op[o].pc # "end" => \A p \in Ops : p # o => ~Started(p)
      /\ op[o].pc = "read" => mgr.client = None

LEMMA KindParts == MKinds <=> FirstAlone /\ \A o \in Ops : KindOf(op[o])
  BY DEF MKinds, FirstAlone, KindOf

LEMMA KindMoves ==
  ASSUME MInv, NEW o \in Ops, OpStep(o)
  PROVE  KindOf(op'[o]) /\ (op[o].kind = "refresh" => op'[o].pc # "read")
<1>0. KindOf(op[o]) /\ op[o] \in OpRecords /\ op[o].kind # "none"
  BY KindParts, TypeParts, OpFacts DEF MInv, TOp, Started
<1>a. op'[o].kind = op[o].kind /\ Moving(o)
  BY OpFacts
<1>b. op[o].kind \in {"refresh", "reconnect", "enable", "disable"}
  BY <1>0 DEF OpRecords
<1> USE DEF Connecting
<1>1. CASE Waits(o)
  <2>1. op'[o].then = op[o].then /\ op'[o].try = op[o].try
    BY <1>1 DEF Waits, GoesTo, FailsTo, Sets
  <2>2. op[o].pc \in {"await", "fence", "close"}
        /\ (op[o].kind = "refresh" => op'[o].pc \in {"close", "finish"})
    BY <1>0, <1>1 DEF Waits, GoesTo, FailsTo, Sets, KindOf
  <2>3. \/ op'[o].pc \in {"fence", "close", "finish"}
        \/ op'[o].pc = op[o].then /\ op[o].then \notin {"drop", "drain"}
    BY <1>0, <1>1 DEF Waits, GoesTo, FailsTo, Sets, KindOf
  <2>4. QED BY <1>0, <1>a, <1>b, <2>1, <2>2, <2>3 DEF KindOf
<1>2. CASE Connects(o)
  <2>1. op[o].kind # "disable"
    BY <1>0, <1>2 DEF Connects, KindOf
  <2>2. ASSUME NEW th \in {"dial", "report"}, GoesThen(o, "drain", th),
               th = "dial" => op[o].try < MaxRetries
        PROVE  KindOf(op'[o]) /\ op'[o].pc # "read"
    BY <1>0, <1>a, <1>b, <2>1, <2>2 DEF KindOf, GoesThen, Sets
  <2>3. ASSUME NEW th \in {"drop", "drain"}, GoesThen(o, "fence", th)
        PROVE  KindOf(op'[o]) /\ op'[o].pc # "read"
    BY <1>0, <1>a, <1>b, <2>1, <2>3 DEF KindOf, GoesThen, Sets
  <2>4. ASSUME NEW c \in {"finish", "dialing", "listing", "install", "report"}, GoesTo(o, c)
        PROVE  KindOf(op'[o]) /\ op'[o].pc # "read"
    BY <1>0, <1>a, <1>b, <2>1, <2>4 DEF KindOf, GoesTo, Sets
  <2>5. ASSUME op[o].pc = "drain", op[o].then = "dial", GoesTo(o, "backoff")
        PROVE  KindOf(op'[o]) /\ op'[o].pc # "read"
    BY <1>0, <1>a, <1>b, <2>1, <2>5 DEF KindOf, GoesTo, Sets
  <2>6. ASSUME op[o].pc = "backoff", Sets(o, "dial", op[o].then, op[o].try + 1, op[o].err)
        PROVE  KindOf(op'[o]) /\ op'[o].pc # "read"
    BY <1>0, <1>a, <1>b, <2>1, <2>6 DEF KindOf, Sets
  <2>7. QED BY <1>2, <2>2, <2>3, <2>4, <2>5, <2>6 DEF Connects, Drains
<1>3. CASE Locks(o)
  BY <1>0, <1>3, <1>a, <1>b DEF Locks, KindOf, GoesTo, FailsTo, Sets
<1>4. CASE Reads(o) \/ Errs(o)
  BY <1>0, <1>4, <1>a, <1>b DEF Reads, Errs, KindOf, GoesTo, FailsTo, Sets
<1>5. CASE Checks(o)
  BY <1>0, <1>5, <1>a, <1>b DEF Checks, KindOf, GoesTo, FailsTo, Sets
<1>6. CASE Writes(o) \/ Turns(o)
  BY <1>0, <1>6, <1>a, <1>b DEF Writes, Turns, KindOf, GoesTo, Sets
<1>7. CASE Begins(o)
  BY <1>0, <1>7, <1>a, <1>b DEF Begins, KindOf, GoesTo, GoesThen, Sets
<1>8. CASE Applies(o) \/ Finishes(o)
  BY <1>0, <1>8, <1>a, <1>b DEF Applies, Finishes, KindOf, GoesTo, GoesThen, Sets
<1>9. QED BY <1>1, <1>2, <1>3, <1>4, <1>5, <1>6, <1>7, <1>8, <1>a DEF Moving

LEMMA KindsNext ==
  ASSUME MInv, [Next]_vars
  PROVE  MKinds'
<1>0. CTypeOK /\ TOp /\ MOrder /\ FirstAlone /\ (\A o \in Ops : KindOf(op[o])) /\ 1 \in Ops
  BY KindParts, TypeParts, Bounds DEF MInv
<1>a. \A p \in Ops : Started(p) <=> op[p].kind # "none"
  BY DEF Started
<1>b. ASSUME FirstAlone', \A o \in Ops : KindOf(op'[o])
      PROVE  MKinds'
  BY <1>b DEF MKinds, FirstAlone, KindOf
<1>c. op[1].kind = "refresh"
  BY <1>0 DEF MOrder
<1>1. ASSUME NEW o \in Ops, OpStep(o)
      PROVE  MKinds'
  <2>1. \A p \in Ops : KindOf(op'[p])
    BY <1>0, <1>1, KindMoves, OpFacts DEF OpFrame
  <2>2. ASSUME NEW p \in Ops, op'[p].kind = "refresh"
        PROVE  /\ p = 1
               /\ op'[p].pc # "end" => \A r \in Ops : r # p => ~Started(r)'
               /\ op'[p].pc = "read" => mgr'.client = None
    <3>1. op[p].kind = "refresh" /\ p = 1
      BY <1>0, <1>1, <2>2, OpFacts DEF FirstAlone
    <3>2. op'[p].pc # "end" => op[p].pc # "end"
      BY <1>1, OpFacts DEF OpFrame
    <3>3. \A r \in Ops : Started(r)' <=> Started(r)
      BY <1>1, OpFacts DEF Started
    <3>4. op'[p].pc # "read"
      <4>1. CASE o = p
        BY <1>1, <3>1, <4>1, KindMoves
      <4>2. CASE o # p
        BY <1>0, <1>1, <3>1, <4>2, OpFacts DEF FirstAlone, OpFrame
      <4>3. QED BY <4>1, <4>2
    <3>5. QED BY <1>0, <3>1, <3>2, <3>3, <3>4 DEF FirstAlone
  <2>3. FirstAlone'
    BY <2>2 DEF FirstAlone
  <2>4. QED BY <1>b, <2>1, <2>3
<1>2. ASSUME NEW kind \in {"reconnect", "enable", "disable"}, NEW n \in Ops, Requests(kind, n)
      PROVE  MKinds'
  <2>1. /\ \A p \in Ops : p # n => op'[p] = op[p]
        /\ op'[n].kind = kind /\ ~Started(n) /\ op[1].pc = "end"
    BY <1>2 DEF Requests, IsNext, PanelIsOpen
  <2>2. KindOf(op'[n])
    BY <1>2, <2>1 DEF Requests, Sets, KindOf, Connecting
  <2>3. n # 1
    BY <1>a, <1>c, <2>1
  <2>4. \A p \in Ops : op'[p].kind = "refresh" => p = 1 /\ op'[p].pc = "end"
    BY <1>0, <2>1, <2>3 DEF FirstAlone
  <2>5. FirstAlone'
    BY <2>4 DEF FirstAlone
  <2>6. QED BY <1>0, <1>b, <2>1, <2>2, <2>5
<1>3. CASE Refresh
  <2>1. Refreshes
    BY <1>0, <1>3, RefreshMoves
  <2>2. OpFrame(1) /\ op'[1].pc \in {"finish", "dial"}
    BY <2>1 DEF Refreshes, GoesTo, Sets
  <2>3. KindOf(op'[1])
    BY <1>c, <2>2 DEF KindOf, OpFrame, Connecting
  <2>4. \A p \in Ops : Started(p)' <=> Started(p)
    BY <2>2 DEF OpFrame, Started
  <2>5. op[1].pc # "end"
    BY <2>1 DEF Refreshes
  <2>6. FirstAlone'
    BY <1>0, <1>c, <2>2, <2>4, <2>5 DEF FirstAlone, OpFrame, Started
  <2>7. QED BY <1>0, <1>b, <2>2, <2>3, <2>6 DEF OpFrame
<1>4. CASE OutsideStep
  <2>1. Outside
    BY <1>0, <1>4, OutsideMoves
  <2>2. mgr.client = None => mgr'.client = None
    BY <2>1 DEF Outside, Bumps
  <2>3. FirstAlone'
    BY <1>0, <2>1, <2>2 DEF FirstAlone, Outside, Started
  <2>4. QED BY <1>0, <1>b, <2>1, <2>3 DEF Outside
<1>5. QED BY <1>0, <1>1, <1>2, <1>3, <1>4, NextMoves, RequestMoves

\* Inside the configuration lock.
Inside(r) ==
    \/ r.kind = "enable" /\ r.pc \in {"read", "check", "write"}
    \/ r.kind = "disable" /\ r.pc \in {"write", "off"}

LEMMA LockNext ==
  ASSUME MInv, [Next]_vars
  PROVE  MLock'
<1>0. CTypeOK /\ TOp /\ MOrder /\ FirstAlone /\ (\A o \in Ops : KindOf(op[o])) /\ 1 \in Ops
      /\ NoOp \notin Ops
  BY KindParts, TypeParts, Bounds DEF MInv
<1>a. \A o \in Ops : Inside(op[o]) => cfgLock = o
  BY DEF MInv, MLock, Inside
<1>b. ASSUME \A o \in Ops : Inside(op'[o]) => cfgLock' = o
      PROVE  MLock'
  BY <1>b DEF MLock, Inside
<1>1. ASSUME NEW o \in Ops, OpStep(o)
      PROVE  MLock'
  <2>0. OpFrame(o) /\ Moving(o) /\ op'[o].kind = op[o].kind /\ KindOf(op[o])
    BY <1>0, <1>1, OpFacts
  <2>1. Inside(op'[o]) => cfgLock' = o
    <3>1. CASE Waits(o)
      BY <2>0, <3>1 DEF Waits, GoesTo, FailsTo, Sets, Inside, KindOf
    <3>2. CASE Connects(o)
      BY <2>0, <3>2 DEF Connects, Drains, GoesTo, GoesThen, Sets, Inside, KindOf
    <3>3. CASE Locks(o)
      BY <2>0, <3>3 DEF Locks, GoesTo, FailsTo, Sets, Inside
    <3>4. CASE Reads(o) \/ Errs(o)
      BY <1>a, <2>0, <3>4 DEF Reads, Errs, Calm, GoesTo, FailsTo, Sets, Inside
    <3>5. CASE Checks(o)
      BY <1>a, <2>0, <3>5 DEF Checks, GoesTo, FailsTo, Sets, Inside
    <3>6. CASE Writes(o)
      BY <1>a, <2>0, <3>6 DEF Writes, GoesTo, Sets, Inside
    <3>7. CASE Turns(o) \/ Begins(o) \/ Applies(o) \/ Finishes(o)
      BY <2>0, <3>7 DEF Turns, Begins, Applies, Finishes, GoesTo, GoesThen, Sets, Inside
    <3>8. QED BY <2>0, <3>1, <3>2, <3>3, <3>4, <3>5, <3>6, <3>7 DEF Moving
  <2>2. ASSUME NEW p \in Ops, p # o, cfgLock = p
        PROVE  cfgLock' = p
    <3>1. ~(op[o].kind = "enable" /\ op[o].pc = "write")
      BY <1>a, <2>2 DEF Inside
    <3>2. QED
      BY <1>0, <2>0, <2>2, <3>1 DEF Moving, Waits, Connects, Locks, Reads, Errs, Checks,
         Writes, Turns, Begins, Applies, Finishes, Calm, Released
  <2>3. \A p \in Ops : Inside(op'[p]) => cfgLock' = p
    BY <1>a, <2>0, <2>1, <2>2 DEF OpFrame
  <2>4. QED BY <1>b, <2>3
<1>2. ASSUME NEW kind \in {"reconnect", "enable", "disable"}, NEW n \in Ops, Requests(kind, n)
      PROVE  MLock'
  <2>1. /\ \A p \in Ops : p # n => op'[p] = op[p]
        /\ op'[n].pc \in {"lock", "await"} /\ UNCHANGED cfgLock
    BY <1>2 DEF Requests, Sets
  <2>2. QED BY <1>a, <1>b, <2>1 DEF Inside
<1>3. CASE Refresh
  <2>1. Refreshes
    BY <1>0, <1>3, RefreshMoves
  <2>2. OpFrame(1) /\ op'[1].pc \in {"finish", "dial"} /\ UNCHANGED cfgLock
    BY <2>1 DEF Refreshes, GoesTo, Sets
  <2>3. QED BY <1>a, <1>b, <2>2 DEF Inside, OpFrame
<1>4. CASE OutsideStep
  <2>1. Outside
    BY <1>0, <1>4, OutsideMoves
  <2>2. QED BY <1>a, <1>b, <2>1 DEF Outside
<1>5. QED BY <1>0, <1>1, <1>2, <1>3, <1>4, NextMoves, RequestMoves

\* Only one operation is the current one, and nothing follows the last.
LEMMA Current ==
  ASSUME MInv, NEW o \in Ops, NEW p \in Ops, p # o, Started(o), Started(p)
  PROVE  /\ op[o].gen # op[p].gen
         /\ IsLast(o) => p < o /\ op[p].gen < op[o].gen /\ op[o].gen <= mgr.gen
                         /\ ~GenerationMatches(p)
<1>0. /\ Ops \subseteq Nat /\ MOrder /\ op[o].gen \in Nat /\ op[p].gen \in Nat /\ mgr.gen \in Nat
  BY TypeParts, Bounds DEF MInv, TOp, OpRecords, TMgr, MgrRecords
<1>1. CASE p < o
  <2>1. op[p].gen < op[o].gen /\ op[o].gen <= mgr.gen
    BY <1>0, <1>1 DEF MOrder
  <2>2. QED BY <1>0, <1>1, <2>1 DEF GenerationMatches
<1>2. CASE o < p
  <2>1. op[o].gen < op[p].gen
    BY <1>0, <1>2 DEF MOrder
  <2>2. ~IsLast(o)
    BY <1>0, <1>2 DEF IsLast
  <2>3. QED BY <1>0, <2>1, <2>2
<1>3. QED BY <1>0, <1>1, <1>2

\* What the panel offers while an operation runs.
LEMMA OffersLittle ==
  ASSUME MInv, NEW kind \in {"reconnect", "enable", "disable"}, Offered(kind)
  PROVE  /\ \A o \in Ops : op[o].kind = "disable" => op[o].pc = "end"
         /\ \A o \in Ops : o # 1 /\ IsLast(o) /\ op[o].pc # "end" => kind = "disable"
<1>0. MBusy /\ MOrder /\ NoOp \notin Ops
  BY Bounds DEF MInv
<1>1. ASSUME NEW o \in Ops, o # 1, IsLast(o), op[o].pc # "end"
      PROVE  kind = "disable"
  BY <1>0, <1>1 DEF MBusy, Offered
<1>2. ASSUME NEW o \in Ops, op[o].kind = "disable", op[o].pc # "end"
      PROVE  FALSE
  <2>1. IsLast(o) /\ mgr.status = "Disabled" /\ o # 1
    BY <1>0, <1>2 DEF MBusy, MOrder
  <2>2. kind = "disable"
    BY <1>1, <1>2, <2>1
  <2>3. QED BY <2>1, <2>2 DEF Offered
<1>3. QED BY <1>1, <1>2

LEMMA BusyNext ==
  ASSUME MInv, [Next]_vars
  PROVE  MBusy'
<1>0. CTypeOK /\ TOp /\ MOrder /\ FirstAlone /\ (\A o \in Ops : KindOf(op[o])) /\ 1 \in Ops
      /\ MBusy /\ Ops \subseteq Nat /\ op[1].kind = "refresh"
  BY KindParts, TypeParts, Bounds DEF MInv, MOrder
<1>1. ASSUME NEW o \in Ops, OpStep(o)
      PROVE  MBusy'
  <2>0. /\ OpFrame(o) /\ Moving(o) /\ op'[o].kind = op[o].kind /\ KindOf(op[o])
        /\ Started(o) /\ op[o].pc # "end"
    BY <1>0, <1>1, OpFacts
  <2>1. \A p \in Ops : (Started(p)' <=> Started(p)) /\ (op'[p].pc # "end" => op[p].pc # "end")
    BY <1>1, <2>0, OpFacts DEF OpFrame, Started
  <2>2. \A p \in Ops : IsLast(p)' <=> IsLast(p)
    BY <2>1 DEF IsLast
  <2>3. ASSUME NEW p \in Ops, p # 1, IsLast(p)', op'[p].pc # "end"
        PROVE  busy' = p
    <3>1. busy = p
      BY <1>0, <2>1, <2>2, <2>3 DEF MBusy
    <3>2. CASE Finishes(o)
      BY <2>3, <3>1, <3>2 DEF Finishes, GoesTo, Sets
    <3>3. CASE ~Finishes(o)
      BY <2>0, <3>1, <3>3 DEF Moving, Waits, Connects, Locks, Reads, Errs, Checks, Writes, Turns,
         Begins, Applies, Calm
    <3>4. QED BY <3>2, <3>3
  <2>4. ASSUME mgr.status = "Disabled"
        PROVE  \/ mgr'.status = "Disabled"
               \/ GenerationMatches(o) /\ op[o].kind # "disable"
    <3>1. ~mgr.enabled
      BY <1>0, <2>4 DEF MBusy
    <3>2. CASE Begins(o)
      BY <2>0, <2>4, <3>2 DEF Begins, KindOf
    <3>3. CASE ~Begins(o)
      BY <2>0, <2>4, <3>1, <3>3 DEF Moving, Waits, Connects, Locks, Reads, Errs, Checks, Writes,
         Turns, Applies, Finishes, Calm
    <3>4. QED BY <3>2, <3>3
  <2>5. ASSUME NEW p \in Ops, op'[p].kind = "disable", op'[p].pc # "end"
        PROVE  IsLast(p)' /\ mgr'.status = "Disabled"
    <3>1. op[p].kind = "disable" /\ op[p].pc # "end"
      BY <1>1, <2>1, <2>5, OpFacts
    <3>2. IsLast(p) /\ mgr.status = "Disabled" /\ Started(p)
      BY <1>0, <3>1 DEF MBusy, Started
    <3>3. ~(GenerationMatches(o) /\ op[o].kind # "disable")
      BY <2>0, <3>1, <3>2, Current
    <3>4. QED BY <2>2, <2>4, <3>2, <3>3
  <2>6. mgr'.status = "Disabled" => ~mgr'.enabled /\ mgr'.client = None
    <3>1. CASE UNCHANGED mgr
      BY <1>0, <3>1 DEF MBusy
    <3>2. CASE mgr' # mgr
      BY <2>0, <3>2 DEF Moving, Waits, Connects, Locks, Reads, Errs, Checks, Writes,
         Turns, Begins, Applies, Finishes, Calm, Bumps
    <3>3. QED BY <3>1, <3>2
  <2>7. QED BY <2>3, <2>5, <2>6 DEF MBusy
<1>2. ASSUME NEW kind \in {"reconnect", "enable", "disable"}, NEW n \in Ops, Requests(kind, n)
      PROVE  MBusy'
  <2>1. /\ \A p \in Ops : p # n => op'[p] = op[p]
        /\ op'[n].kind = kind /\ ~Started(n) /\ busy' = n /\ Offered(kind)
        /\ \A p \in Ops : p < n => Started(p)
    BY <1>2 DEF Requests, IsNext
  <2>2. \A p \in Ops : Started(p)' <=> Started(p) \/ p = n
    BY <2>1 DEF Started
  <2>3. \A p \in Ops : p > n => ~Started(p)
    BY <1>0, <2>1 DEF MOrder
  <2>4. \A p \in Ops : IsLast(p)' <=> p = n
    BY <1>0, <2>2, <2>3 DEF IsLast
  <2>5. \A p \in Ops : op'[p].kind = "disable" /\ op'[p].pc # "end" => p = n
    BY <2>1, OffersLittle
  <2>6. /\ mgr'.client = None /\ mgr'.status = (IF kind = "disable" THEN "Disabled" ELSE "Reconnecting")
        /\ mgr'.enabled = (mgr.enabled /\ kind # "disable")
    BY <1>2 DEF Requests, Bumps
  <2>7. QED BY <2>1, <2>4, <2>5, <2>6 DEF MBusy
<1>3. CASE Refresh
  <2>1. Refreshes
    BY <1>0, <1>3, RefreshMoves
  <2>2. OpFrame(1) /\ op[1].pc # "end" /\ op[1].pc = "read"
    BY <2>1 DEF Refreshes, GoesTo
  <2>3. \A p \in Ops : p # 1 => ~Started(p) /\ op'[p] = op[p]
    BY <1>0, <2>2 DEF FirstAlone, OpFrame
  <2>4. \A p \in Ops : (p # 1 => ~IsLast(p)') /\ op'[p].kind # "disable"
    BY <1>0, <2>2, <2>3 DEF IsLast, Started, OpFrame
  <2>5. mgr.client = None
    BY <1>0, <2>2 DEF FirstAlone
  <2>6. mgr'.status = "Disabled" => ~mgr'.enabled /\ mgr'.client = None
    BY <1>0, <2>1, <2>5 DEF Refreshes, MBusy
  <2>7. QED BY <2>4, <2>6 DEF MBusy
<1>4. CASE OutsideStep
  <2>1. Outside
    BY <1>0, <1>4, OutsideMoves
  <2>2. mgr.status = "Disabled" => mgr'.status = "Disabled"
    BY <1>0, <2>1 DEF Outside, MBusy
  <2>3. mgr'.status = "Disabled" => ~mgr'.enabled /\ mgr'.client = None
    BY <1>0, <2>1 DEF Outside, MBusy
  <2>4. \A p \in Ops : IsLast(p)' <=> IsLast(p)
    BY <2>1 DEF Outside, IsLast, Started
  <2>5. UNCHANGED <<op, busy>>
    BY <2>1 DEF Outside
  <2>6. QED BY <1>0, <2>2, <2>3, <2>4, <2>5 DEF MBusy
<1>5. QED BY <1>0, <1>1, <1>2, <1>3, <1>4, NextMoves, RequestMoves

\* The three parts of MToggle.
LeadIsCurrent(o) ==
    Ahead(o) /\ LastToggle(o) =>
      IsLast(o) /\ mgr.gen = op[o].gen /\ ~mgr.enabled /\ mgr.client = None
WriteIsGuarded(o) ==
    op[o].kind = "enable" /\ op[o].pc = "write" =>
      \A p \in Ops : p > o /\ Started(p) => op[p].kind = "disable" /\ op[p].pc = "lock"
FileIsSettled(o) ==
    LastToggle(o) /\ ~op[o].err =>
      /\ op[o].kind = "enable" /\ ~Ahead(o) /\ ~mgr.down => config
      /\ op[o].kind = "disable" /\ op[o].pc \notin {"lock", "write"} => ~config

LEMMA ToggleParts ==
    MToggle <=> \A o \in Ops : LeadIsCurrent(o) /\ WriteIsGuarded(o) /\ FileIsSettled(o)
  BY DEF MToggle, LeadIsCurrent, WriteIsGuarded, FileIsSettled

LEMMA ToggleJoins ==
  ASSUME \A o \in Ops : LeadIsCurrent(o)' /\ WriteIsGuarded(o)' /\ FileIsSettled(o)'
  PROVE  MToggle'
  BY DEF MToggle, LeadIsCurrent, WriteIsGuarded, FileIsSettled

\* What a step of an enable or a disable does before the file is written.
LEMMA AheadMoves ==
  ASSUME MInv, NEW o \in Ops, OpStep(o)
  PROVE  /\ Ahead(o)' => Ahead(o) /\ UNCHANGED mgr
         /\ op[o].err => op'[o].err
         /\ Ahead(o) /\ ~Ahead(o)' /\ ~op'[o].err => Writes(o) \/ ~GenerationMatches(o)
         /\ op[o].kind = "enable" /\ op'[o].pc = "write" => op[o].pc = "check" /\ GenerationMatches(o)
         /\ op[o].kind = "disable" /\ op[o].pc \in {"lock", "write"} /\ ~op'[o].err =>
              op'[o].pc \in {"lock", "write"} \/ Writes(o)
         /\ op[o].pc = "lock" => cfgLock = NoOp
<1>0. /\ Moving(o) /\ op'[o].kind = op[o].kind /\ KindOf(op[o])
  BY OpFacts, KindParts DEF MInv
<1> USE DEF Ahead
<1>1. CASE Waits(o)
  BY <1>0, <1>1 DEF Waits, GoesTo, FailsTo, Sets, KindOf, Calm
<1>2. CASE Connects(o)
  BY <1>0, <1>2 DEF Connects, Drains, GoesTo, GoesThen, Sets, KindOf, Calm
<1>3. CASE Locks(o)
  BY <1>0, <1>3 DEF Locks, GoesTo, FailsTo, Sets
<1>4. CASE Reads(o) \/ Errs(o)
  BY <1>0, <1>4 DEF Reads, Errs, Calm, GoesTo, FailsTo, Sets
<1>5. CASE Checks(o)
  BY <1>0, <1>5 DEF Checks, GoesTo, FailsTo, Sets
<1>6. CASE Writes(o)
  BY <1>0, <1>6 DEF Writes, GoesTo, Sets
<1>7. CASE Turns(o)
  BY <1>0, <1>7 DEF Turns, GoesTo, Sets, KindOf, Connecting
<1>8. CASE Begins(o)
  BY <1>0, <1>8 DEF Begins, GoesTo, GoesThen, Sets, KindOf, Connecting
<1>9. CASE Applies(o) \/ Finishes(o)
  BY <1>0, <1>9 DEF Applies, Finishes, GoesTo, GoesThen, Sets, KindOf, Connecting
<1>10. QED BY <1>0, <1>1, <1>2, <1>3, <1>4, <1>5, <1>6, <1>7, <1>8, <1>9 DEF Moving

\* An operation that is not the last one leaves the manager alone, and only a
\* write changes the file.
LEMMA OthersMoves ==
  ASSUME MInv, NEW q \in Ops, OpStep(q)
  PROVE  /\ ~GenerationMatches(q) /\ op[q].kind # "disable" /\ ~mgr.enabled => UNCHANGED mgr
         /\ Writes(q) \/ UNCHANGED config
<1>0. Moving(q)
  BY OpFacts
<1>1. QED
  BY <1>0 DEF Moving, Waits, Connects, Locks, Reads, Errs, Checks, Writes, Turns, Begins, Applies,
     Finishes, Calm

LEMMA ToggleOfStep ==
  ASSUME MInv, NEW q \in Ops, OpStep(q), NEW o \in Ops
  PROVE  LeadIsCurrent(o)' /\ WriteIsGuarded(o)' /\ FileIsSettled(o)'
<1>0. /\ MOrder /\ MBusy /\ Ops \subseteq Nat /\ NoOp \notin Ops
      /\ \A p \in Ops : LeadIsCurrent(p) /\ WriteIsGuarded(p) /\ FileIsSettled(p)
  BY Bounds, ToggleParts DEF MInv
<1>1. /\ OpFrame(q) /\ Started(q) /\ op[q].pc # "end" /\ mgr'.down = mgr.down
      /\ \A p \in Ops : op'[p].kind = op[p].kind /\ op'[p].gen = op[p].gen
      /\ \A p \in Ops : p # q => op'[p] = op[p]
  BY OpFacts DEF OpFrame
<1>2. /\ \A p \in Ops : Started(p)' <=> Started(p)
      /\ \A p \in Ops : IsLast(p)' <=> IsLast(p)
      /\ \A p \in Ops : LastToggle(p)' <=> LastToggle(p)
  <2>1. \A p \in Ops : Started(p)' <=> Started(p)
    BY <1>1 DEF Started
  <2>2. Toggles' = Toggles
    BY <1>1 DEF Toggles
  <2>3. QED BY <2>1, <2>2 DEF IsLast, LastToggle
<1>3. q # o => (Ahead(o)' <=> Ahead(o))
  BY <1>1 DEF Ahead
<1>4. op[q].kind = "disable" => IsLast(q) /\ (LastToggle(o) => o = q)
  <2>1. SUFFICES ASSUME op[q].kind = "disable", LastToggle(o)
                 PROVE  o = q
    BY <1>0, <1>1 DEF MBusy
  <2>2. IsLast(q) /\ q \in Toggles /\ Started(o)
    BY <1>0, <1>1, <2>1 DEF MBusy, Toggles, LastToggle, Started
  <2>3. q <= o /\ ~(o > q)
    BY <2>1, <2>2 DEF LastToggle, IsLast
  <2>4. QED BY <1>0, <2>3
<1>5. LeadIsCurrent(o)'
  <2>1. SUFFICES ASSUME Ahead(o)', LastToggle(o)'
                 PROVE  IsLast(o)' /\ mgr'.gen = op'[o].gen /\ ~mgr'.enabled /\ mgr'.client = None
    BY DEF LeadIsCurrent
  <2>2. Ahead(o) /\ LastToggle(o)
    BY <1>2, <1>3, <2>1, AheadMoves
  <2>3. IsLast(o) /\ mgr.gen = op[o].gen /\ ~mgr.enabled /\ mgr.client = None
    BY <1>0, <2>2 DEF LeadIsCurrent
  <2>4. UNCHANGED mgr
    <3>1. CASE q = o
      BY <2>1, <3>1, AheadMoves
    <3>2. CASE q # o
      BY <1>1, <1>4, <2>2, <2>3, <3>2, Current, OthersMoves DEF IsLast
    <3>3. QED BY <3>1, <3>2
  <2>5. QED BY <1>1, <1>2, <2>3, <2>4
<1>6. WriteIsGuarded(o)'
  <2>1. SUFFICES ASSUME op'[o].kind = "enable", op'[o].pc = "write",
                        NEW p \in Ops, p > o, Started(p)'
                 PROVE  op'[p].kind = "disable" /\ op'[p].pc = "lock"
    BY DEF WriteIsGuarded
  <2>2. op[o].kind = "enable" /\ Started(p) /\ o < p
    BY <1>0, <1>1, <1>2, <2>1
  <2>3. q # o
    <3>1. SUFFICES ASSUME q = o PROVE FALSE
      OBVIOUS
    <3>2. GenerationMatches(o)
      BY <2>1, <2>2, <3>1, AheadMoves
    <3>3. op[o].gen < op[p].gen /\ op[p].gen <= mgr.gen
      BY <1>0, <2>2 DEF MOrder
    <3>4. op[o].gen \in Nat /\ op[p].gen \in Nat /\ mgr.gen \in Nat
      BY TypeParts DEF MInv, TOp, OpRecords, TMgr, MgrRecords
    <3>5. QED BY <3>2, <3>3, <3>4 DEF GenerationMatches
  <2>4. op[o].pc = "write"
    BY <1>1, <2>1, <2>3
  <2>5. op[p].kind = "disable" /\ op[p].pc = "lock" /\ cfgLock = o
    BY <1>0, <2>1, <2>2, <2>4 DEF WriteIsGuarded, MInv, MLock
  <2>6. q # p
    BY <1>0, <2>5, AheadMoves
  <2>7. QED BY <1>1, <2>5, <2>6
<1>7. FileIsSettled(o)'
  <2>1. SUFFICES ASSUME LastToggle(o)', ~op'[o].err
                 PROVE  /\ op'[o].kind = "enable" /\ ~Ahead(o)' /\ ~mgr'.down => config'
                        /\ op'[o].kind = "disable" /\ op'[o].pc \notin {"lock", "write"} => ~config'
    BY DEF FileIsSettled
  <2>2. LastToggle(o) /\ ~op[o].err
    BY <1>1, <1>2, <2>1, AheadMoves
  <2>3. ASSUME op[o].kind = "enable", ~Ahead(o)', ~mgr.down
        PROVE  config'
    <3>1. CASE Ahead(o)
      <4>1. q = o /\ mgr.gen = op[o].gen
        BY <1>0, <1>3, <2>2, <2>3, <3>1 DEF LeadIsCurrent
      <4>2. Writes(o)
        BY <2>1, <2>3, <3>1, <4>1, AheadMoves DEF GenerationMatches
      <4>3. QED BY <2>3, <4>2 DEF Writes
    <3>2. CASE ~Ahead(o)
      <4>1. config
        BY <1>0, <2>2, <2>3, <3>2 DEF FileIsSettled
      <4>2. ASSUME Writes(q)
            PROVE  op[q].kind = "enable"
        <5>1. op[q].kind # "disable"
          BY <1>4, <2>2, <2>3
        <5>2. op[q].kind \in {"none", "refresh", "reconnect", "enable", "disable"} /\ KindOf(op[q])
          BY TypeParts, KindParts DEF MInv, TOp, OpRecords
        <5>3. QED BY <1>1, <4>2, <5>1, <5>2 DEF Writes, KindOf, Connecting, Started
      <4>3. QED BY <4>1, <4>2, OthersMoves DEF Writes
    <3>3. QED BY <3>1, <3>2
  <2>4. ASSUME op[o].kind = "disable", op'[o].pc \notin {"lock", "write"}
        PROVE  ~config'
    <3>1. ASSUME Writes(q)
          PROVE  op[q].kind # "enable"
      <4>1. SUFFICES ASSUME op[q].kind = "enable" PROVE FALSE
        OBVIOUS
      <4>2. q # o /\ q <= o /\ Started(o)
        BY <2>2, <2>4, <4>1 DEF LastToggle, Toggles, Started
      <4>3. o > q /\ op[q].pc = "write"
        BY <1>0, <3>1, <4>2 DEF Writes
      <4>4. op[o].pc = "lock"
        BY <1>0, <4>1, <4>2, <4>3 DEF WriteIsGuarded
      <4>5. QED BY <1>1, <2>4, <4>2, <4>4
    <3>2. CASE Writes(q)
      BY <3>1, <3>2 DEF Writes
    <3>3. CASE ~Writes(q)
      <4>1. op[o].pc \notin {"lock", "write"}
        BY <1>1, <2>1, <2>4, <3>3, AheadMoves
      <4>2. ~config
        BY <1>0, <2>2, <2>4, <4>1 DEF FileIsSettled
      <4>3. QED BY <3>3, <4>2, OthersMoves
    <3>4. QED BY <3>2, <3>3
  <2>5. QED BY <1>1, <2>3, <2>4
<1>8. QED BY <1>5, <1>6, <1>7

LEMMA ToggleOfRequest ==
  ASSUME MInv, NEW kind \in {"reconnect", "enable", "disable"}, NEW n \in Ops, Requests(kind, n),
         NEW o \in Ops
  PROVE  LeadIsCurrent(o)' /\ WriteIsGuarded(o)' /\ FileIsSettled(o)'
<1>0. /\ MOrder /\ MBusy /\ Ops \subseteq Nat /\ op[1].kind = "refresh"
      /\ \A p \in Ops : LeadIsCurrent(p) /\ WriteIsGuarded(p) /\ FileIsSettled(p)
  BY Bounds, ToggleParts DEF MInv, MOrder
<1>1. /\ \A p \in Ops : p # n => op'[p] = op[p]
      /\ op'[n].kind = kind /\ op'[n].gen = mgr.gen + 1 /\ ~Started(n)
      /\ op'[n].pc = (IF kind = "disable" THEN "lock" ELSE "await")
      /\ kind = "enable" => op'[n].then = "lock"
      /\ \A p \in Ops : p < n => Started(p)
      /\ UNCHANGED config /\ Bumps /\ Offered(kind)
      /\ mgr'.enabled = (mgr.enabled /\ kind # "disable")
  BY DEF Requests, IsNext, Sets
<1>2. \A p \in Ops : p # n /\ Started(p) => p < n
  BY <1>0, <1>1 DEF MOrder
<1>3. \A p \in Ops : IsLast(p)' <=> p = n
  <2>1. \A p \in Ops : Started(p)' <=> Started(p) \/ p = n
    BY <1>1 DEF Started
  <2>2. QED BY <1>0, <1>2, <2>1 DEF IsLast
<1>4. ASSUME o # n, LastToggle(o)'
      PROVE  kind = "reconnect" /\ LastToggle(o)
  <2>1. Started(o)
    BY <1>1, <1>4 DEF LastToggle, Toggles, Started
  <2>2. n \notin Toggles' /\ o < n
    BY <1>0, <1>2, <1>4, <2>1 DEF LastToggle
  <2>3. kind = "reconnect" /\ Toggles' = Toggles
    BY <1>1, <2>2 DEF Toggles, Started
  <2>4. QED BY <1>4, <2>3 DEF LastToggle
<1>5. o # n => (Ahead(o)' <=> Ahead(o))
  BY <1>1 DEF Ahead
<1>6. LeadIsCurrent(o)'
  <2>1. SUFFICES ASSUME Ahead(o)', LastToggle(o)'
                 PROVE  IsLast(o)' /\ mgr'.gen = op'[o].gen /\ ~mgr'.enabled /\ mgr'.client = None
    BY DEF LeadIsCurrent
  <2>2. CASE o = n
    <3>1. kind = "enable"
      BY <1>1, <2>1, <2>2 DEF Ahead
    <3>2. ~mgr.enabled
      BY <1>0, <1>1, <3>1 DEF Offered, MBusy
    <3>3. QED BY <1>1, <1>3, <2>2, <3>2 DEF Bumps
  <2>3. CASE o # n
    <3>1. kind = "reconnect" /\ IsLast(o) /\ op[o].pc # "end" /\ o # 1
      BY <1>0, <1>4, <1>5, <2>1, <2>3 DEF LeadIsCurrent, Ahead
    <3>2. QED BY <1>1, <3>1, OffersLittle
  <2>4. QED BY <2>2, <2>3
<1>7. WriteIsGuarded(o)'
  <2>1. SUFFICES ASSUME op'[o].kind = "enable", op'[o].pc = "write",
                        NEW p \in Ops, p > o, Started(p)'
                 PROVE  op'[p].kind = "disable" /\ op'[p].pc = "lock"
    BY DEF WriteIsGuarded
  <2>2. o # n /\ op[o].kind = "enable" /\ op[o].pc = "write"
    BY <1>1, <2>1
  <2>3. \A r \in Ops : r > o => ~Started(r)
    BY <1>0, <1>1, <2>2, OffersLittle DEF WriteIsGuarded
  <2>4. IsLast(o) /\ o # 1
    BY <1>0, <2>2, <2>3 DEF IsLast, Started
  <2>5. kind = "disable"
    BY <1>1, <2>2, <2>4, OffersLittle
  <2>6. p = n
    BY <1>1, <2>1, <2>3 DEF Started
  <2>7. QED BY <1>1, <2>5, <2>6
<1>8. FileIsSettled(o)'
  <2>1. CASE o = n
    BY <1>1, <2>1 DEF FileIsSettled, Ahead
  <2>2. CASE o # n
    BY <1>0, <1>1, <1>4, <1>5, <2>2 DEF FileIsSettled, Bumps
  <2>3. QED BY <2>1, <2>2
<1>9. QED BY <1>6, <1>7, <1>8

LEMMA ToggleNext ==
  ASSUME MInv, [Next]_vars
  PROVE  MToggle'
<1>0. CTypeOK /\ MOrder /\ FirstAlone /\ 1 \in Ops
      /\ \A p \in Ops : LeadIsCurrent(p) /\ WriteIsGuarded(p) /\ FileIsSettled(p)
  BY Bounds, ToggleParts, KindParts DEF MInv
<1>1. ASSUME NEW q \in Ops, OpStep(q)
      PROVE  MToggle'
  BY <1>1, ToggleOfStep, ToggleJoins
<1>2. ASSUME NEW kind \in {"reconnect", "enable", "disable"}, NEW n \in Ops, Requests(kind, n)
      PROVE  MToggle'
  BY <1>2, ToggleOfRequest, ToggleJoins
<1>3. CASE Refresh
  <2>1. Refreshes
    BY <1>0, <1>3, RefreshMoves
  <2>2. OpFrame(1) /\ op[1].pc # "end" /\ op[1].kind = "refresh"
    BY <2>1 DEF Refreshes, GoesTo
  <2>3. \A p \in Ops : op'[p].kind \in {"none", "refresh"}
    BY <1>0, <2>2 DEF FirstAlone, OpFrame, Started
  <2>4. QED BY <2>3 DEF MToggle, Ahead, LastToggle, Toggles
<1>4. CASE OutsideStep
  <2>1. Outside
    BY <1>0, <1>4, OutsideMoves
  <2>2. /\ UNCHANGED <<op, config>> /\ (mgr.down => mgr'.down)
        /\ \/ UNCHANGED mgr
           \/ mgr.client # None
           \/ mgr'.gen = mgr.gen /\ mgr'.enabled = mgr.enabled /\ (mgr.client = None => mgr'.client = None)
    BY <2>1 DEF Outside, Bumps
  <2>3. ASSUME NEW o \in Ops
        PROVE  LeadIsCurrent(o)' /\ WriteIsGuarded(o)' /\ FileIsSettled(o)'
    <3>1. /\ Ahead(o)' <=> Ahead(o)
          /\ LastToggle(o)' <=> LastToggle(o)
          /\ IsLast(o)' <=> IsLast(o)
          /\ \A p \in Ops : Started(p)' <=> Started(p)
      BY <2>2 DEF Ahead, LastToggle, Toggles, IsLast, Started
    <3>2. LeadIsCurrent(o)'
      BY <1>0, <2>2, <3>1 DEF LeadIsCurrent
    <3>3. WriteIsGuarded(o)'
      BY <1>0, <2>2, <3>1 DEF WriteIsGuarded
    <3>4. FileIsSettled(o)'
      BY <1>0, <2>2, <3>1 DEF FileIsSettled
    <3>5. QED BY <3>2, <3>3, <3>4
  <2>4. QED BY <2>3, ToggleJoins
<1>5. QED BY <1>0, <1>1, <1>2, <1>3, <1>4, NextMoves, RequestMoves

LEMMA InvInit == Init => MInv
<1> SUFFICES ASSUME Init PROVE MInv
  OBVIOUS
<1>0. 0 \in 0 .. MaxRetries /\ 1 \in Ops /\ Ops \subseteq Nat /\ 0 \in 0 .. MaxFaults
  BY Bounds, McpAssumption
<1> DEFINE first == [Idle EXCEPT !.kind = "refresh", !.pc = "read"]
<1>1. /\ first \in OpRecords /\ Idle \in OpRecords
      /\ first.kind = "refresh" /\ first.pc = "read" /\ first.gen = 0
      /\ Idle.kind = "none" /\ Idle.pc = "end"
  BY <1>0 DEF Idle, OpRecords, Pcs
<1>2. op = [o \in Ops |-> IF o = 1 THEN first ELSE Idle]
  BY DEF Init
<1> HIDE DEF first
<1>3. /\ op[1] = first /\ \A o \in Ops : o # 1 => op[o] = Idle
  BY <1>0, <1>2
<1>4. CTypeOK
  <2>1. TOp
    BY <1>1, <1>2 DEF TOp
  <2>2. TMgr /\ mgr.client = None /\ mgr.status # "Disabled"
    BY DEF Init, TMgr, MgrRecords, Statuses
  <2>3. TAtt
    BY DEF Init, TAtt, AttRecords
  <2>4. TTr /\ TCloser /\ TFlags /\ TLock /\ TQuit /\ TFaults
    BY <1>0 DEF Init, TTr, TrStates, TCloser, TFlags, TLock, TQuit, TFaults
  <2>5. QED BY <2>1, <2>2, <2>3, <2>4, TypeParts
<1>5. mgr.client = None /\ mgr.status # "Disabled"
  BY DEF Init
<1>6. ClientIsCurrent
  BY <1>5 DEF ClientIsCurrent
<1>7. \A o \in Ops : (Started(o) <=> o = 1) /\ op[o].kind \in {"none", "refresh"}
  BY <1>1, <1>3 DEF Started
<1>8. MOrder
  BY <1>0, <1>1, <1>3, <1>7 DEF MOrder, Ops
<1>9. MKinds
  BY <1>1, <1>3, <1>5, <1>7 DEF MKinds, Connecting
<1>10. MLock /\ MBusy /\ MToggle
  BY <1>1, <1>3, <1>5, <1>7 DEF MLock, MBusy, MToggle, IsLast, Ahead, LastToggle, Toggles
<1>11. QED BY <1>4, <1>6, <1>8, <1>9, <1>10 DEF MInv

LEMMA Invariance == Spec => []MInv
<1>1. MInv /\ [Next]_vars => MInv'
  BY TypesNext, ClientNext, OrderNext, KindsNext, LockNext, BusyNext, ToggleNext DEF MInv
<1>2. QED BY InvInit, <1>1, PTL DEF Spec

----------------------------------------------------------------------------

\* Every part of the manager, the panel and the operations keeps its type: generations are
\* natural numbers and a client is a transport that some attempt may have opened.
THEOREM McpTypes == Spec => []CTypeOK
<1>1. MInv => CTypeOK
  BY DEF MInv
<1>2. QED BY Invariance, <1>1, PTL

\* The client that the manager serves is the one of its own generation, of a server shown
\* Ready and enabled with no attempt pending, whatever requests, late outcomes and failure
\* reports overlapped (apply_connect_outcome, bump_generation,
\* mark_server_failed_runtime_if_current).
THEOREM ClientsAreCurrent == Spec => []ClientIsCurrent
<1>1. MInv => ClientIsCurrent
  BY DEF MInv
<1>2. QED BY Invariance, <1>1, PTL

\* When the toggles have ended and the last one reported no error, .mcp.json holds its
\* choice, in whatever order the operations took the configuration lock
\* (enable_server_if_current, disable_server).
THEOREM TogglesWin == Spec => []LastToggleWins
<1>1. MInv => LastToggleWins
  <2>1. SUFFICES ASSUME MInv, NEW o \in Toggles, Toggles \intersect Running = {},
                        \A p \in Toggles : p <= o, ~op[o].err, ~mgr.down
                 PROVE  config <=> op[o].kind = "enable"
    BY DEF LastToggleWins
  <2>2. o \in Ops /\ op[o].pc = "end" /\ LastToggle(o) /\ op[o].kind \in {"enable", "disable"}
    BY <2>1 DEF Toggles, Running, LastToggle
  <2>3. ~Ahead(o) /\ FileIsSettled(o)
    BY <2>1, <2>2, ToggleParts DEF MInv, Ahead
  <2>4. QED BY <2>1, <2>2, <2>3 DEF FileIsSettled
<1>2. QED BY Invariance, <1>1, PTL
=============================================================================
