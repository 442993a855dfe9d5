----------------------------- MODULE DeviceLink -----------------------------
(***************************************************************************)
(* What the transfers that talk to a device through a terminal session     *)
(* have in common (X/YMODEM, TFTP): the binding of one transfer to the     *)
(* runtime it began on, and the user's cancellation, which runs beside it. *)
(*                                                                         *)
(* cancel_transfer_inner raises the flag under the store's mutex and only  *)
(* then looks for a binding to send CAN to; transfer_modem_binding         *)
(* registers the binding and only then looks at the flag.  Either order    *)
(* must leave the device told.                                             *)
(***************************************************************************)
EXTENDS Integers, Sequences

CONSTANTS
    Protocols,   \* subset of {"xmodem", "ymodem", "tftp"}
    Cancels,     \* BOOLEAN: the user may cancel
    LinkFails    \* BOOLEAN: the runtime may be closed or replaced

ASSUME LinkAssumption ==
    /\ Protocols \subseteq {"xmodem", "ymodem", "tftp"}
    /\ Cancels \in BOOLEAN
    /\ LinkFails \in BOOLEAN

VARIABLES
    proto,       \* request.protocol
    pc,          \* where the transfer is
    outcome,     \* its result
    begun,       \* it has been allowed past the binding
    live,        \* the runtime it is bound to is still the session's, and open
    cancelled,   \* the task's cancel flag
    registered,  \* TransferCancellation::modem_binding is set
    canceller,   \* cancel_transfer_inner and the write it spawns
    aborted      \* CAN, or ^C for TFTP, was written to the bound runtime

progress == <<proto, pc, outcome, begun>>
linkVars == <<proto, pc, outcome, begun, live, cancelled, registered, canceller, aborted>>

LinkInit ==
    /\ proto \in Protocols
    /\ pc = "bind"
    /\ outcome = "none"
    /\ begun = FALSE
    /\ live = TRUE
    /\ cancelled = FALSE
    /\ registered = FALSE
    /\ canceller = "idle"
    /\ aborted = FALSE

Goto(place) == pc' = place /\ UNCHANGED outcome

End(result) == pc' = "ended" /\ outcome' = result

\* What a check of the flag and of the runtime makes of an interruption:
\* check_interrupted, and progress.check_cancelled before ensure_current.
Interrupted == cancelled \/ ~live

InterruptedResult == IF cancelled THEN "cancelled" ELSE "failed"

----------------------------------------------------------------------------
(* transfer_modem_binding. *)

\* The request is validated (which may fail) and the runtime looked up by
\* runtime_modem_binding; X/YMODEM look at the flag first.
Bind ==
    /\ pc = "bind"
    /\ \/ cancelled /\ proto # "tftp" /\ End("cancelled")
       \/ ~(cancelled /\ proto # "tftp") /\ End("failed")
       \/ ~(cancelled /\ proto # "tftp") /\ live /\ Goto("register")
    /\ UNCHANGED <<proto, begun, live, cancelled, registered, canceller, aborted>>

Register ==
    /\ pc = "register"
    /\ registered' = TRUE
    /\ Goto("check")
    /\ UNCHANGED <<proto, begun, live, cancelled, canceller, aborted>>

\* Mutant: a cancellation that came before the registration is noticed by the
\* transfer, but the device is not told.
CheckAfterBindSilently ==
    /\ pc = "check"
    /\ IF Interrupted THEN End(InterruptedResult) ELSE Goto("start")
    /\ begun' = TRUE
    /\ UNCHANGED <<proto, live, cancelled, registered, canceller, aborted>>

\* A cancellation that came before the registration found no binding.
CheckAfterBind ==
    /\ pc = "check"
    /\ IF Interrupted THEN End(InterruptedResult) ELSE Goto("start")
    /\ begun' = TRUE
    /\ aborted' = (aborted \/ (cancelled /\ live))
    /\ UNCHANGED <<proto, live, cancelled, registered, canceller>>

Binding == Bind \/ Register \/ CheckAfterBind

----------------------------------------------------------------------------
(* The user, and the session. *)

\* Only a running X/Y/ZMODEM task has its session told by the canceller; the
\* TFTP transfer sends ^C itself.
CancelTask ==
    /\ Cancels
    /\ canceller = "idle"
    /\ pc # "ended"
    /\ cancelled' = TRUE
    /\ canceller' = IF proto = "tftp" THEN "done" ELSE "flagged"
    /\ UNCHANGED <<proto, pc, outcome, begun, live, registered, aborted>>

CancelLooksUp ==
    /\ canceller = "flagged"
    /\ canceller' = IF registered THEN "abort" ELSE "done"
    /\ UNCHANGED <<proto, pc, outcome, begun, live, cancelled, registered, aborted>>

\* The spawned write: it goes to the bound runtime or nowhere.
CancelWrites ==
    /\ canceller = "abort"
    /\ canceller' = "done"
    /\ aborted' = (aborted \/ live)
    /\ UNCHANGED <<proto, pc, outcome, begun, live, cancelled, registered>>

\* The session is closed, reconnects, or is opened anew.
RuntimeLost ==
    /\ LinkFails
    /\ live
    /\ pc # "ended"
    /\ live' = FALSE
    /\ UNCHANGED <<proto, pc, outcome, begun, cancelled, registered, canceller, aborted>>
============================================================================
