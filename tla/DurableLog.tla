------------------------------- MODULE DurableLog -------------------------------
(***************************************************************************)
(* What a persisted store promises its callers, however many processes     *)
(* share it: changes that reached the disk are never dropped again, a      *)
(* change reported saved is on the disk, and a change reported not         *)
(* committed is not on the disk and never will be.                         *)
(***************************************************************************)
CONSTANT Changes

VARIABLES
    log,       \* the changes contained in the persisted snapshot
    acked,     \* the changes whose caller was told they are saved
    rejected   \* the changes whose caller was told they are not committed

vars == <<log, acked, rejected>>

Init == log = {} /\ acked = {} /\ rejected = {}

\* A write adds changes and drops none.
Write ==
    /\ \E S \in SUBSET (Changes \ rejected) : log' = log \cup S
    /\ UNCHANGED <<acked, rejected>>

Ack ==
    /\ \E c \in log : acked' = acked \cup {c}
    /\ UNCHANGED <<log, rejected>>

Reject ==
    /\ \E c \in Changes \ (log \cup acked) : rejected' = rejected \cup {c}
    /\ UNCHANGED <<log, acked>>

Next == Write \/ Ack \/ Reject

Spec == Init /\ [][Next]_vars
=============================================================================
