-------------------------- MODULE NotificationChannel --------------------------
(***************************************************************************)
(* What webhooks promise their receivers, without dispatches, queue, rows  *)
(* or crashes.  A notice is one event for one receiver.  It is taken up at *)
(* most once, and settled for good: either delivered, which is said only   *)
(* after a call that the receiver acknowledged, or abandoned.  Until then  *)
(* the receiver may be called again, acknowledged or not, but no more than *)
(* a number of times; afterwards never.  A notice taken up is settled.     *)
(***************************************************************************)
EXTENDS Naturals

CONSTANTS
    Notices,        \* one for each event and receiver
    MaxCalls        \* of the receiver, for one notice

VARIABLES
    notice,         \* notice[n]: "none", "pending", "delivered" or "abandoned"
    calls,          \* calls[n]: how often the receiver was called
    acknowledged    \* the notices that the receiver answered with success

channelVars == <<notice, calls, acknowledged>>

Pending == {n \in Notices : notice[n] = "pending"}

ChannelInit ==
    /\ notice = [n \in Notices |-> "none"]
    /\ calls = [n \in Notices |-> 0]
    /\ acknowledged = {}

TakeUp(n) ==
    /\ notice[n] = "none"
    /\ notice' = [notice EXCEPT ![n] = "pending"]
    /\ UNCHANGED <<calls, acknowledged>>

Call(n) ==
    /\ n \in Pending /\ calls[n] < MaxCalls
    /\ calls' = [calls EXCEPT ![n] = @ + 1]
    /\ acknowledged' \in {acknowledged, acknowledged \cup {n}}
    /\ UNCHANGED notice

Confirm(n) ==
    /\ n \in Pending \cap acknowledged
    /\ notice' = [notice EXCEPT ![n] = "delivered"]
    /\ UNCHANGED <<calls, acknowledged>>

\* Of several at a time: what they were waiting for is gone.
Abandon(lost) ==
    /\ notice' = [n \in Notices |-> IF n \in lost THEN "abandoned" ELSE notice[n]]
    /\ UNCHANGED <<calls, acknowledged>>

Settle(n) ==
    \/ Confirm(n)
    \/ \E lost \in SUBSET Pending : n \in lost /\ Abandon(lost)

ChannelNext == \E n \in Notices : TakeUp(n) \/ Call(n) \/ Settle(n)

ChannelSpec ==
    /\ ChannelInit /\ [][ChannelNext]_channelVars
    /\ \A n \in Notices : WF_channelVars(Settle(n))
=============================================================================
