---------------------------- MODULE MCTransferQueue ----------------------------
(* Small instances of TransferQueue: one session, tasks t1 and t2. *)
EXTENDS TransferQueue

CONSTANTS s1, t1, t2

\* One session: an SSH file transfer with staged content and a modem transfer.
OneSession == [t \in Tasks |-> s1]
MixedKindOf == [t \in Tasks |-> IF t = t1 THEN "ssh" ELSE "modem"]

\* Two local copies in one session: queue, lane and history only.
LocalKindOf == [t \in Tasks |-> "local"]

\* What distinguishes two states while no restart reads the disk: saves then
\* write it and nothing depends on what they wrote.
WithoutDisk == <<store, linkVars, runnerVars, tokenVars, lanes, cancelling,
                 updateVars, deleteVars, restarts>>
=============================================================================
