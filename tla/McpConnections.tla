--------------------------- MODULE McpConnections ---------------------------
(***************************************************************************)
(* The life of one MCP server in an agent process: the connection manager  *)
(* (src/src/mcp/connection_manager.rs) with its connect attempts, their    *)
(* release fences (src/src/mcp/client.rs), the quarantine of transports    *)
(* that did not confirm their end, and the lifecycle operations the TUI    *)
(* panel spawns (src/src/session_tui/app.rs, mcp_panel.rs).                *)
(*                                                                         *)
(* Every request of the panel changes the manager's state at once, on the  *)
(* UI thread, and then runs as a task of its own; a superseded task keeps  *)
(* running, so several operations, the connection failure watchers and the *)
(* final shutdown interleave.  Operation 1 is the refresh_all that the     *)
(* process awaits before it opens the panel.                               *)
(*                                                                         *)
(* An operation starts at most one connect attempt, so an attempt has the  *)
(* number of its operation; <<o, k>> is the transport of the k-th try of   *)
(* the attempt o.  The panel's own copy of the status is left out: it lags *)
(* behind the manager only between Ready and Failed, which offer the same  *)
(* requests.                                                               *)
(***************************************************************************)
EXTENDS Integers, FiniteSets

CONSTANTS
    MaxOps,      \* operations of a behaviour, the startup refresh included
    MaxRetries,  \* MCP_RECONNECT_MAX_RETRIES
    MaxFaults    \* failures of the file, the server or a close in a behaviour

ASSUME McpAssumption == MaxOps \in Nat \ {0} /\ MaxRetries \in Nat /\ MaxFaults \in Nat

Ops == 1 .. MaxOps

Transports == Ops \X (0 .. MaxRetries)

NoOp == 0

None == <<0, 0>>

VARIABLES
    config,     \* the server's "enabled" in .mcp.json
    mgr,        \* McpManagerState: generation, status, client, attempt, shutdown flag
    gate,       \* the server is in unreleased_servers
    att,        \* the connect attempts and their release fences
    tr,         \* the state of every transport
    closer,     \* how far a failure report is with the client it removed
    op,         \* the operations
    cfgLock,    \* config_write_lock: NoOp or the operation that holds it
    busy,       \* the panel's busy_servers entry: NoOp or an operation
    quit,       \* the final shutdown: how far, and what it waits for
    faults,     \* failures so far
    overtaken   \* ghost: an operation was let through beside a live transport

vars == <<config, mgr, gate, att, tr, closer, op, cfgLock, busy, quit, faults, overtaken>>

-----------------------------------------------------------------------------

\* A step that is a failure if bad holds.
Fault(bad) == faults' = IF bad THEN faults + 1 ELSE faults

MayFail == faults < MaxFaults

-----------------------------------------------------------------------------
\* Transports and fences

\* A transport is "open" while its connection is made and "up" once a client
\* serves it; "dropped" and "closing" are the two ways its close is running.
\* Still registered with the release fence of its attempt.
Unsettled(ts, t) == ts[t] \in {"open", "up", "dropped", "closing"}

\* Not known to have ended.
Alive(t) == Unsettled(tr, t) \/ tr[t] = "stuck"

Pending(ts, a) == {t \in Transports : t[1] = a /\ Unsettled(ts, t)}

\* Mutant: a cancelled attempt completes without its transports.
CompletesAtOnce(as, ts) == [a \in Ops |-> [as[a] EXCEPT !.done = @ \/ as[a].finished]]

\* try_complete, run after every change of a fence: completion is sticky, and
\* a cancelled attempt completes only when its transports have settled.
TryComplete(as, ts) ==
    [a \in Ops |->
        [as[a] EXCEPT !.done = \/ @
                               \/ as[a].finished /\ (as[a].cancelled => Pending(ts, a) = {})]]

Cancelled(as, a) == IF a = NoOp THEN as ELSE [as EXCEPT ![a].cancelled = TRUE]

Finished(as, a) == [as EXCEPT ![a].finished = TRUE]

\* request_shutdown or shutdown of a client, or its last reference dropped.
Closing(ts, t) == IF t # None /\ ts[t] = "up" THEN [ts EXCEPT ![t] = "closing"] ELSE ts

\* The close of a transport ends, and an error marks the fence.  A dropped one
\* that failed, or that ran out of time, may still be alive; with a served one
\* the driver has ended, which is all that shutdown asks.
Settle(t) ==
    /\ quit.pc # "exit"
    /\ tr[t] \in {"dropped", "closing"}
    /\ \E clean \in BOOLEAN :
        /\ clean \/ MayFail
        /\ Fault(~clean)
        /\ tr' = [tr EXCEPT ![t] = IF clean \/ @ = "closing" THEN "gone" ELSE "stuck"]
        /\ att' = TryComplete([att EXCEPT ![t[1]].failed = @ \/ ~clean], tr')
    /\ UNCHANGED <<config, mgr, gate, closer, op, cfgLock, busy, quit, overtaken>>

-----------------------------------------------------------------------------
\* The initial state: the process starts and awaits refresh_all.

Idle == [kind |-> "none", pc |-> "end", gen |-> 0, stale |-> NoOp, client |-> None,
         then |-> "finish", on |-> FALSE, try |-> 0, err |-> FALSE]

Init ==
    /\ config \in BOOLEAN
    /\ mgr = [gen |-> 0, status |-> "absent", enabled |-> FALSE, client |-> None,
              attempt |-> NoOp, down |-> FALSE]
    /\ gate = FALSE
    /\ att = [o \in Ops |-> [gen |-> 0, cancelled |-> FALSE, finished |-> FALSE,
                             failed |-> FALSE, done |-> FALSE]]
    /\ tr = [t \in Transports |-> "none"]
    /\ closer = [t \in Transports |-> "none"]
    /\ op = [o \in Ops |-> IF o = 1 THEN [Idle EXCEPT !.kind = "refresh", !.pc = "read"]
                                    ELSE Idle]
    /\ cfgLock = NoOp
    /\ busy = NoOp
    /\ quit = [pc |-> "no", attempt |-> NoOp, client |-> None]
    /\ faults = 0
    /\ overtaken = FALSE

At(o, pc) == op[o].pc = pc /\ quit.pc # "exit"

Goto(o, pc) == op' = [op EXCEPT ![o].pc = pc]

Fail(o) == op' = [op EXCEPT ![o].pc = "finish", ![o].err = TRUE]

GenerationMatches(o) == ~mgr.down /\ mgr.gen = op[o].gen

-----------------------------------------------------------------------------
\* The panel (mcp_panel.rs, app.rs start_mcp_panel_request)

Started(o) == op[o].kind # "none"

IsNext(o) == ~Started(o) /\ \A p \in Ops : p < o => Started(p)

\* The panel opens after the startup refresh and closes when the app quits.
PanelIsOpen == op[1].pc = "end" /\ quit.pc = "no" /\ mgr.status # "absent"

\* reconnect_action and toggle_enabled_action: what a key may ask for.
Offered(kind) ==
    CASE kind = "reconnect" -> /\ busy = NoOp
                               /\ mgr.status \notin {"Disabled", "Starting", "Reconnecting"}
      [] kind = "enable"    -> busy = NoOp /\ mgr.status = "Disabled"
      [] kind = "disable"   -> mgr.status # "Disabled"

\* begin_server_reconnecting_runtime and begin_server_disabled_runtime: the
\* generation moves, the client is taken out and asked to stop, the attempt is
\* cancelled but stays registered, and the task is spawned.
BeginRequest(kind) ==
    /\ PanelIsOpen
    /\ Offered(kind)
    /\ \E o \in Ops :
        /\ IsNext(o)
        /\ op' = [op EXCEPT ![o] =
                    [Idle EXCEPT !.kind = kind,
                                 !.gen = mgr.gen + 1,
                                 !.stale = mgr.attempt,
                                 !.client = mgr.client,
                                 !.pc = IF kind = "disable" THEN "lock" ELSE "await",
                                 !.then = CASE kind = "reconnect" -> "read"
                                            [] kind = "enable" -> "lock"
                                            [] kind = "disable" -> "finish"]]
        /\ busy' = o
    /\ mgr' = [mgr EXCEPT !.gen = @ + 1,
                          !.client = None,
                          !.status = IF kind = "disable" THEN "Disabled" ELSE "Reconnecting",
                          !.enabled = @ /\ kind # "disable"]
    /\ tr' = Closing(tr, mgr.client)
    /\ att' = TryComplete(Cancelled(att, mgr.attempt), tr')
    /\ UNCHANGED <<config, gate, closer, cfgLock, quit, faults, overtaken>>

\* The end of the task: an operation that failed marks the server failed if its
\* generation is still the current one; the panel takes the answer of its
\* latest operation only.
Finish(o) ==
    /\ At(o, "finish")
    /\ Goto(o, "end")
    /\ IF op[o].err /\ op[o].kind # "disable" /\ GenerationMatches(o)
       THEN /\ mgr' = [mgr EXCEPT !.gen = @ + 1, !.client = None, !.status = "Failed"]
            /\ tr' = Closing(tr, mgr.client)
            /\ att' = TryComplete(Cancelled(att, mgr.attempt), tr')
       ELSE UNCHANGED <<mgr, tr, att>>
    /\ busy' = IF busy = o THEN NoOp ELSE busy
    /\ UNCHANGED <<config, gate, closer, cfgLock, quit, faults, overtaken>>

-----------------------------------------------------------------------------
\* Waiting for the old transport (wait_for_transport_release and the same two
\* steps after begin_connect_attempt)

\* Where an operation that may not connect goes: its own attempt, if it has
\* one, completes.
Refused(o, as, ts) ==
    /\ att' = TryComplete(IF as[o].gen = 0 THEN as ELSE Finished(as, o), ts)
    /\ Fail(o)

\* stale_connect_attempt_released
AwaitAttempt(o) ==
    /\ At(o, "await")
    /\ op[o].stale # NoOp => att[op[o].stale].done
    /\ IF op[o].stale # NoOp /\ att[op[o].stale].failed
       THEN gate' = TRUE /\ Refused(o, att, tr)
       ELSE Goto(o, IF op[o].client = None THEN op[o].then ELSE "fence")
            /\ UNCHANGED <<gate, att>>
    /\ UNCHANGED <<config, mgr, tr, closer, cfgLock, busy, quit, faults, overtaken>>

\* shutdown_client: the server is quarantined while the client closes.
Fence(o) ==
    /\ At(o, "fence")
    /\ gate' = TRUE
    /\ tr' = Closing(tr, op[o].client)
    /\ Goto(o, "close")
    /\ UNCHANGED <<config, mgr, att, closer, cfgLock, busy, quit, faults, overtaken>>

\* shutdown_client returns: the transport ended and the quarantine is lifted,
\* or the time is up and it stays, which refuses the replacement.  An outcome
\* that was not installed and a client that listed no tools are closed the same
\* way; there the answer decides nothing but the retry.
Close(o) ==
    /\ At(o, "close")
    /\ \E released \in BOOLEAN :
        /\ IF released THEN tr[op[o].client] = "gone" ELSE MayFail
        /\ Fault(~released)
        /\ gate' = (gate /\ ~released)
        /\ CASE op[o].then = "drop" ->
                  Goto(o, "finish") /\ att' = TryComplete(Finished(att, o), tr)
             [] op[o].then = "drain" ->
                  \E retry \in BOOLEAN :
                    /\ retry => released /\ op[o].try < MaxRetries
                    /\ op' = [op EXCEPT ![o].pc = "drain",
                                        ![o].then = IF retry THEN "dial" ELSE "report"]
                    /\ UNCHANGED att
             [] op[o].then \notin {"drop", "drain"} ->
                  IF released THEN Goto(o, op[o].then) /\ UNCHANGED att
                              ELSE Refused(o, att, tr)
    /\ UNCHANGED <<config, mgr, tr, closer, cfgLock, busy, quit, overtaken>>

-----------------------------------------------------------------------------
\* The three lifecycle operations

\* reset_for_refresh_if_current, or set_startup_error when the file is unreadable.
Refresh ==
    /\ At(1, "read") /\ op[1].kind = "refresh"
    /\ \/ /\ MayFail /\ Fault(TRUE)
          /\ Goto(1, "finish")
          /\ UNCHANGED <<mgr, att>>
       \/ /\ Fault(FALSE)
          /\ mgr' = [mgr EXCEPT !.gen = @ + 1, !.enabled = config,
                                !.status = IF config THEN "Starting" ELSE "Disabled",
                                !.attempt = IF config THEN 1 ELSE NoOp]
          /\ att' = IF config THEN [att EXCEPT ![1].gen = mgr.gen + 1] ELSE att
          /\ Goto(1, IF config THEN "dial" ELSE "finish")
    /\ UNCHANGED <<config, gate, tr, closer, cfgLock, busy, quit, overtaken>>

\* enable_server_if_current and disable_server take the configuration lock; a
\* disable that finds the manager shut down still waits for its transport.
Lock(o) ==
    /\ At(o, "lock")
    /\ cfgLock = NoOp
    /\ IF ~mgr.down
       THEN /\ cfgLock' = o
            /\ Goto(o, IF op[o].kind = "enable" THEN "read" ELSE "write")
       ELSE /\ op' = [op EXCEPT ![o].pc = IF op[o].kind = "enable" THEN "finish" ELSE "await",
                                ![o].err = TRUE]
            /\ UNCHANGED cfgLock
    /\ UNCHANGED <<config, mgr, gate, att, tr, closer, busy, quit, faults, overtaken>>

\* read_mcp_json_config of an enable or a reconnect
Read(o) ==
    /\ At(o, "read") /\ op[o].kind \in {"enable", "reconnect"}
    /\ op' = [op EXCEPT ![o].pc = "check", ![o].on = config]
    /\ UNCHANGED <<config, mgr, gate, att, tr, closer, cfgLock, busy, quit, faults, overtaken>>

\* The file lock times out, or the file cannot be read or written.
ConfigError(o) ==
    /\ \/ At(o, "read") /\ op[o].kind \in {"enable", "reconnect"}
       \/ At(o, "write")
    /\ MayFail /\ Fault(TRUE)
    /\ op' = [op EXCEPT ![o].pc = IF op[o].kind = "disable" THEN "await" ELSE "finish",
                        ![o].err = TRUE]
    /\ cfgLock' = IF cfgLock = o THEN NoOp ELSE cfgLock
    /\ UNCHANGED <<config, mgr, gate, att, tr, closer, busy, quit, overtaken>>

\* Mutant: an enable looks at the quarantine only.
CheckGateOnly(o) ==
    /\ At(o, "check")
    /\ IF gate
       THEN Fail(o) /\ cfgLock' = (IF cfgLock = o THEN NoOp ELSE cfgLock)
       ELSE Goto(o, IF op[o].kind = "enable" THEN "write" ELSE "begin") /\ UNCHANGED cfgLock
    /\ UNCHANGED <<config, mgr, gate, att, tr, closer, busy, quit, faults, overtaken>>

\* generation_matches and ensure_replacement_is_allowed; a superseded operation
\* ends without an error.  A reconnect that found the server disabled in the
\* file shows it so.
Check(o) ==
    /\ At(o, "check")
    /\ IF ~GenerationMatches(o)
       THEN Goto(o, "finish") /\ cfgLock' = (IF cfgLock = o THEN NoOp ELSE cfgLock)
       ELSE IF gate
       THEN Fail(o) /\ cfgLock' = (IF cfgLock = o THEN NoOp ELSE cfgLock)
       ELSE /\ Goto(o, CASE op[o].kind = "enable" -> "write"
                          [] op[o].kind = "reconnect" -> IF op[o].on THEN "begin" ELSE "off")
            /\ UNCHANGED cfgLock
    /\ overtaken' = \/ overtaken
                    \/ op'[o].pc \in {"write", "begin"} /\ \E t \in Transports : Alive(t)
    /\ UNCHANGED <<config, mgr, gate, att, tr, closer, busy, quit, faults>>

\* write_mcp_json_config_atomic; an enable gives up the configuration lock.
Write(o) ==
    /\ At(o, "write")
    /\ config' = (op[o].kind = "enable")
    /\ IF op[o].kind = "enable"
       THEN Goto(o, "begin") /\ cfgLock' = NoOp
       ELSE Goto(o, "off") /\ UNCHANGED cfgLock
    /\ UNCHANGED <<mgr, gate, att, tr, closer, busy, quit, faults, overtaken>>

\* The server is off: the second half of disable_server, which then waits for
\* what its panel request took out, and the end of a reconnect to a disabled
\* server.  Neither finds a client (see ClientIsCurrent): its request took it
\* out and no older attempt can install one.
TurnOff(o) ==
    /\ At(o, "off")
    /\ IF op[o].kind = "disable" \/ GenerationMatches(o)
       THEN /\ mgr' = [mgr EXCEPT !.gen = @ + 1, !.status = "Disabled", !.enabled = FALSE,
                                  !.client = None]
            /\ att' = TryComplete(Cancelled(att, mgr.attempt), tr)
       ELSE UNCHANGED <<mgr, att>>
    /\ Goto(o, IF op[o].kind = "disable" THEN "await" ELSE "finish")
    /\ cfgLock' = IF cfgLock = o THEN NoOp ELSE cfgLock
    /\ UNCHANGED <<config, gate, tr, closer, busy, quit, faults, overtaken>>

\* begin_connect_attempt_if_current: a new generation and a new attempt, which
\* first waits for whatever it replaces.
BeginConnect(o) ==
    /\ At(o, "begin")
    /\ IF GenerationMatches(o)
       THEN /\ mgr' = [mgr EXCEPT !.gen = @ + 1, !.status = "Reconnecting", !.enabled = TRUE,
                                  !.client = None, !.attempt = o]
            /\ att' = TryComplete([Cancelled(att, mgr.attempt) EXCEPT ![o].gen = mgr.gen + 1], tr)
            /\ op' = [op EXCEPT ![o].pc = "await", ![o].then = "dial",
                                ![o].stale = mgr.attempt, ![o].client = mgr.client]
       ELSE Goto(o, "finish") /\ UNCHANGED <<mgr, att>>
    /\ UNCHANGED <<config, gate, tr, closer, cfgLock, busy, quit, faults, overtaken>>

-----------------------------------------------------------------------------
\* connect_server and apply_connect_outcome

Trying(o) == <<o, op[o].try>>

\* A try begins unless the attempt was cancelled.
Dial(o) ==
    /\ At(o, "dial") /\ ~att[o].cancelled
    /\ tr' = [tr EXCEPT ![Trying(o)] = "open"]
    /\ Goto(o, "dialing")
    /\ UNCHANGED <<config, mgr, gate, att, closer, cfgLock, busy, quit, faults, overtaken>>

\* McpClient::connect returned; the tools are listed next.
Serve(o) ==
    /\ At(o, "dialing")
    /\ tr' = [tr EXCEPT ![Trying(o)] = "up"]
    /\ Goto(o, "listing")
    /\ UNCHANGED <<config, mgr, gate, att, closer, cfgLock, busy, quit, faults, overtaken>>

\* The connection is not made: the transport is dropped.
DialFails(o) ==
    /\ At(o, "dialing") /\ ~att[o].cancelled
    /\ MayFail /\ Fault(TRUE)
    /\ tr' = [tr EXCEPT ![Trying(o)] = "dropped"]
    /\ \E retry \in BOOLEAN :
        /\ retry => op[o].try < MaxRetries
        /\ op' = [op EXCEPT ![o].pc = "drain", ![o].then = IF retry THEN "dial" ELSE "report"]
    /\ UNCHANGED <<config, mgr, gate, att, closer, cfgLock, busy, quit, overtaken>>

\* The tools are listed: the outcome goes to apply_connect_outcome, unless the
\* attempt was cancelled meanwhile; or listing fails and the client is closed.
Listed(o) ==
    /\ At(o, "listing")
    /\ \/ ~att[o].cancelled /\ Goto(o, "install") /\ Fault(FALSE)
       \/ /\ att[o].cancelled /\ Fault(FALSE)
          /\ op' = [op EXCEPT ![o].pc = "fence", ![o].then = "drop", ![o].client = Trying(o)]
       \/ /\ MayFail /\ Fault(TRUE)
          /\ op' = [op EXCEPT ![o].pc = "fence", ![o].then = "drain", ![o].client = Trying(o)]
    /\ UNCHANGED <<config, mgr, gate, att, tr, closer, cfgLock, busy, quit, overtaken>>

\* Mutant: no guard completes a cancelled attempt.
CancelledWithoutGuard(o) ==
    /\ \E pc \in {"dial", "dialing", "listing", "backoff"} : At(o, pc)
    /\ att[o].cancelled
    /\ tr' = IF tr[Trying(o)] = "open" THEN [tr EXCEPT ![Trying(o)] = "dropped"]
                                       ELSE Closing(tr, Trying(o))
    /\ Goto(o, "finish")
    /\ UNCHANGED <<config, mgr, gate, att, closer, cfgLock, busy, quit, faults, overtaken>>

\* The connect future is dropped where it stands, a running shutdown_client
\* included, whose quarantine then has nobody to lift it.
ConnectCancelled(o) ==
    /\ \/ \E pc \in {"dial", "dialing", "listing"} : At(o, pc)
       \/ (At(o, "fence") \/ At(o, "close")) /\ op[o].then = "drain"
       \/ At(o, "backoff")
    /\ att[o].cancelled
    /\ tr' = IF tr[Trying(o)] = "open" THEN [tr EXCEPT ![Trying(o)] = "dropped"]
                                       ELSE Closing(tr, Trying(o))
    /\ att' = TryComplete(Finished(att, o), tr')
    /\ Goto(o, "finish")
    /\ UNCHANGED <<config, mgr, gate, closer, cfgLock, busy, quit, faults, overtaken>>

\* wait_for_pending_transport_release, before a retry and before a failure is
\* reported.
Drain(o) ==
    /\ At(o, "drain")
    /\ Pending(tr, o) = {}
    /\ gate' = (gate \/ att[o].failed)
    /\ Goto(o, IF ~att[o].failed /\ op[o].then = "dial" THEN "backoff" ELSE "report")
    /\ UNCHANGED <<config, mgr, att, tr, closer, cfgLock, busy, quit, faults, overtaken>>

Retry(o) ==
    /\ At(o, "backoff")
    /\ op' = [op EXCEPT ![o].pc = "dial", ![o].try = @ + 1]
    /\ UNCHANGED <<config, mgr, gate, att, tr, closer, cfgLock, busy, quit, faults, overtaken>>

\* Mutant: an outcome is compared with nothing.
OutcomeAnyway(o) == ~mgr.down

OutcomeIsCurrent(o) == ~mgr.down /\ mgr.gen = att[o].gen /\ mgr.enabled

\* apply_connect_outcome: a current outcome is installed and its attempt leaves
\* the register; the client of any other one is shut down first.
Apply(o) ==
    /\ At(o, "install") \/ At(o, "report")
    /\ IF OutcomeIsCurrent(o)
       THEN mgr' = [mgr EXCEPT !.attempt = NoOp,
                               !.status = IF op[o].pc = "install" THEN "Ready" ELSE "Failed",
                               !.client = IF op[o].pc = "install" THEN Trying(o) ELSE None]
       ELSE UNCHANGED mgr
    /\ IF ~OutcomeIsCurrent(o) /\ op[o].pc = "install"
       THEN /\ op' = [op EXCEPT ![o].pc = "fence", ![o].then = "drop", ![o].client = Trying(o)]
            /\ UNCHANGED att
       ELSE Goto(o, "finish") /\ att' = TryComplete(Finished(att, o), tr)
    /\ UNCHANGED <<config, gate, tr, closer, cfgLock, busy, quit, faults, overtaken>>

-----------------------------------------------------------------------------
\* Failure reports: the watcher of an installed client, and a tool call whose
\* lease ended with a connection error.  Both name the generation and the
\* client they were given, and may come at any time.

ReportIsCurrent(t) == mgr.gen = att[t[1]].gen /\ mgr.client = t

ReportFailure(t) ==
    /\ quit.pc # "exit"
    /\ tr[t] # "none" /\ closer[t] = "none"
    /\ ReportIsCurrent(t)
    /\ MayFail /\ Fault(TRUE)
    /\ mgr' = [mgr EXCEPT !.gen = @ + 1, !.client = None, !.status = "Failed"]
    /\ closer' = [closer EXCEPT ![mgr.client] = "fence"]
    /\ UNCHANGED <<config, gate, att, tr, op, cfgLock, busy, quit, overtaken>>

ReportFence(t) ==
    /\ quit.pc # "exit"
    /\ closer[t] = "fence"
    /\ gate' = TRUE
    /\ tr' = Closing(tr, t)
    /\ closer' = [closer EXCEPT ![t] = "close"]
    /\ UNCHANGED <<config, mgr, att, op, cfgLock, busy, quit, faults, overtaken>>

ReportClose(t) ==
    /\ quit.pc # "exit"
    /\ closer[t] = "close"
    /\ \E released \in BOOLEAN :
        /\ IF released THEN tr[t] = "gone" ELSE MayFail
        /\ Fault(~released)
        /\ gate' = (gate /\ ~released)
    /\ closer' = [closer EXCEPT ![t] = "end"]
    /\ UNCHANGED <<config, mgr, att, tr, op, cfgLock, busy, quit, overtaken>>

-----------------------------------------------------------------------------
\* McpConnectionManager::shutdown, called when the TUI has closed and its
\* operations have ended or were given enough time.

Shutdown ==
    /\ quit.pc = "no" /\ op[1].pc = "end"
    /\ mgr' = [mgr EXCEPT !.down = TRUE]
    /\ quit' = [quit EXCEPT !.pc = "down"]
    /\ UNCHANGED <<config, gate, att, tr, closer, op, cfgLock, busy, faults, overtaken>>

\* Behind the configuration lock: everything is cancelled and taken out.
TakeAll ==
    /\ quit.pc = "down"
    /\ cfgLock = NoOp
    /\ quit' = [pc |-> "wait", attempt |-> mgr.attempt, client |-> mgr.client]
    /\ mgr' = [mgr EXCEPT !.attempt = NoOp, !.client = None]
    /\ tr' = Closing(tr, mgr.client)
    /\ att' = TryComplete(Cancelled(att, mgr.attempt), tr')
    /\ UNCHANGED <<config, gate, closer, op, cfgLock, busy, faults, overtaken>>

WaitAttempt ==
    /\ quit.pc = "wait"
    /\ quit.attempt # NoOp => att[quit.attempt].done
    /\ quit' = [quit EXCEPT !.pc = "close"]
    /\ gate' = (gate \/ quit.client # None)
    /\ UNCHANGED <<config, mgr, att, tr, closer, op, cfgLock, busy, faults, overtaken>>

\* The last client ended or had its time; the operations are aborted and the
\* process ends.
Exit ==
    /\ quit.pc = "close"
    /\ quit' = [quit EXCEPT !.pc = "exit"]
    /\ UNCHANGED <<config, mgr, gate, att, tr, closer, op, cfgLock, busy, faults, overtaken>>

-----------------------------------------------------------------------------

OpStep(o) ==
    \/ AwaitAttempt(o) \/ Fence(o) \/ Close(o) \/ Lock(o) \/ Read(o) \/ ConfigError(o)
    \/ Check(o) \/ Write(o) \/ TurnOff(o) \/ BeginConnect(o)
    \/ Dial(o) \/ Serve(o) \/ DialFails(o) \/ Listed(o) \/ ConnectCancelled(o)
    \/ Drain(o) \/ Retry(o) \/ Apply(o) \/ Finish(o)

\* Tasks run, and every close comes to an end: a dropped transport has a time
\* limit, a served one ends with its driver.  A behaviour has boundedly many
\* steps, so one condition on all of them is as strong as one on each.
Progress ==
    \/ Refresh
    \/ \E o \in Ops : OpStep(o)
    \/ \E t \in Transports : Settle(t) \/ ReportFence(t) \/ ReportClose(t)
    \/ TakeAll \/ WaitAttempt \/ Exit

Next ==
    \/ Progress
    \/ \E kind \in {"reconnect", "enable", "disable"} : BeginRequest(kind)
    \/ \E t \in Transports : ReportFailure(t)
    \/ Shutdown

Spec == Init /\ [][Next]_vars

FairSpec == Spec /\ WF_vars(Progress)

-----------------------------------------------------------------------------

Statuses == {"absent", "Disabled", "Starting", "Reconnecting", "Ready", "Failed"}

Pcs == {"read", "check", "lock", "write", "off", "begin", "await", "fence", "close", "dial",
        "dialing", "listing", "drain", "backoff", "install", "report", "finish", "end"}

CTypeOK ==
    /\ config \in BOOLEAN /\ gate \in BOOLEAN /\ overtaken \in BOOLEAN
    /\ faults \in 0 .. MaxFaults
    /\ mgr \in [gen : Nat, status : Statuses, enabled : BOOLEAN,
                client : Transports \union {None}, attempt : Ops \union {NoOp}, down : BOOLEAN]
    /\ att \in [Ops -> [gen : Nat, cancelled : BOOLEAN, finished : BOOLEAN,
                        failed : BOOLEAN, done : BOOLEAN]]
    /\ tr \in [Transports -> {"none", "open", "up", "dropped", "closing", "gone", "stuck"}]
    /\ closer \in [Transports -> {"none", "fence", "close", "end"}]
    /\ op \in [Ops -> [kind : {"none", "refresh", "reconnect", "enable", "disable"}, pc : Pcs,
                       gen : Nat, stale : Ops \union {NoOp},
                       client : Transports \union {None},
                       then : {"read", "lock", "finish", "dial", "report", "drop", "drain"},
                       on : BOOLEAN, try : 0 .. MaxRetries, err : BOOLEAN]]
    /\ cfgLock \in Ops \union {NoOp} /\ busy \in Ops \union {NoOp}
    /\ quit \in [pc : {"no", "down", "wait", "close", "exit"}, attempt : Ops \union {NoOp},
                 client : Transports \union {None}]

\* The installed client is the one its generation connected, of a server that
\* is shown enabled and ready, however many operations and late failures
\* overlapped (apply_connect_outcome, bump_generation).
ClientIsCurrent ==
    mgr.client # None =>
        /\ att[mgr.client[1]].gen = mgr.gen
        /\ mgr.status = "Ready" /\ mgr.enabled
        /\ mgr.attempt = NoOp

Running == {o \in Ops : op[o].pc # "end"}

\* A status that promises progress has an operation behind it: with every
\* operation ended the server is never left Starting or Reconnecting, from
\* where the panel offers no way to reconnect
\* (mark_server_failed_runtime_if_current).
ProgressIsReal ==
    Running = {} /\ ~mgr.down => mgr.status \notin {"Starting", "Reconnecting"}

Toggles == {o \in Ops : op[o].kind \in {"enable", "disable"}}

\* The file says what the user asked for last: when the enable and disable
\* operations have all ended and the last one reported no error, the file has
\* its choice, whatever order they took the lock in (enable_server_if_current);
\* an enable that the shutdown overtakes may be given up silently.
LastToggleWins ==
    \A o \in Toggles :
        /\ Toggles \intersect Running = {}
        /\ \A p \in Toggles : p <= o
        /\ ~op[o].err /\ ~mgr.down
        => (config <=> op[o].kind = "enable")

\* Clients that were taken out and whose close is not yet behind the gate.
Unfenced ==
    {t \in Transports : closer[t] = "fence"}
        \union {op[o].client : o \in {p \in Ops : op[p].pc \in {"lock", "read", "write", "off",
                                                            "await", "fence"}}}

\* Two sessions with one server never overlap: an operation is let through to
\* connect only when no transport is alive.  The one way around the gate is a
\* client that was taken out but whose close has not come to the gate yet
\* (ensure_replacement_is_allowed, shutdown_client).
AdmittedAlone ==
    [][~overtaken /\ overtaken' => \A t \in Transports : Alive(t) => t \in Unfenced]_vars

\* Nothing is left serving when the process ends: every transport was at least
\* asked to stop (McpConnectionManager::shutdown).
ExitStopsAll ==
    quit.pc = "exit" => \A t \in Transports : tr[t] \in {"open", "up"} => t \in Unfenced

\* Every operation ends, and so does the shutdown, once the user asks for no
\* more: no attempt waits for itself, no lock and no fence is kept
\* (wait_for_completion has no time limit of its own).
OperationsEnd == <>[](quit.pc = "exit" \/ (quit.pc = "no" /\ Running = {}))
=============================================================================
