---------------------------- MODULE InboxAbstract ----------------------------
(***************************************************************************)
(* What the delivery of inbox messages to one agent promises, whatever the *)
(* processes, the network and the crashes do: a message once kept by the   *)
(* agent is never lost, the maintainer counts it as received only when it  *)
(* is kept, and it is done only when its outcome is durable.               *)
(***************************************************************************)
EXTENDS Naturals

CONSTANT Messages

VARIABLES sent,      \* the messages in the outbox
          kept,      \* the messages that are on the agent's disk, in any form
          receipts,  \* the messages the maintainer counts as received
          settled,   \* the messages whose outcome is durable
          done       \* the messages that will not be processed again

vars == <<sent, kept, receipts, settled, done>>

Init == sent = {} /\ kept = {} /\ receipts = {} /\ settled = {} /\ done = {}

Send(m) ==
  /\ m \notin sent /\ sent' = sent \cup {m}
  /\ UNCHANGED <<kept, receipts, settled, done>>

Keep(m) ==
  /\ m \in sent \ kept /\ kept' = kept \cup {m}
  /\ UNCHANGED <<sent, receipts, settled, done>>

\* Receipts come in batches, and a repeated one changes nothing.
Confirm(S) ==
  /\ S \subseteq kept /\ receipts' = receipts \cup S
  /\ UNCHANGED <<sent, kept, settled, done>>

Settle(S) ==
  /\ S \subseteq kept /\ settled' = settled \cup S
  /\ UNCHANGED <<sent, kept, receipts, done>>

Finish(m) ==
  /\ m \in kept \cap settled /\ done' = done \cup {m}
  /\ UNCHANGED <<sent, kept, receipts, settled>>

Next ==
  \/ \E m \in Messages : Send(m) \/ Keep(m) \/ Finish(m)
  \/ \E S \in SUBSET Messages : Confirm(S) \/ Settle(S)

Spec == Init /\ [][Next]_vars
=============================================================================
