-------------------------- MODULE McpWorkProofs ---------------------------
(***************************************************************************)
(* Proofs about McpWork, for any number of clients, writes, connections and *)
(* desktops and any bounds: that a write runs under the grant it was       *)
(* approved for and a token belongs to its grant (McpControl), and that    *)
(* the replies of the server are true and its endpoint file is current     *)
(* (McpServer).                                                            *)
(***************************************************************************)
EXTENDS McpWork, SequenceTheorems, FiniteSetTheorems, TLAPS

Grants == [active : BOOLEAN, confirm : BOOLEAN]
Tokens == [client : Clients, episode : Nat]

(* The types of the variables that the invariants below speak of. *)
PolicyTypes ==
    /\ budget \in BudgetShape
    /\ grant \in [Clients -> Grants]
    /\ episode \in [Clients -> Nat]
    /\ bound \in Clients
    /\ token = None \/ token \in Tokens

----------------------------------------------------------------------------
(* The token.                                                              *)

PolicyInv == PolicyTypes /\ TokenIsCurrent

LEMMA PolicyInit == Init => PolicyInv
  BY BoundsAssumption DEF Init, PolicyInv, PolicyTypes, TokenIsCurrent, NoGrant, Grants, BudgetShape

LEMMA PolicyStep == PolicyInv /\ [Next]_vars => PolicyInv'
<1> SUFFICES ASSUME PolicyInv, [Next]_vars PROVE PolicyInv'
  OBVIOUS
<1> USE DEF PolicyInv, PolicyTypes, TokenIsCurrent
<1>0. budget.clients \subseteq Clients
  BY DEF BudgetShape
<1>1. ASSUME NEW w \in Writes, NEW c \in budget.clients, Submit(w, c) PROVE PolicyInv'
  BY <1>1 DEF Submit, policy
<1>2. ASSUME NEW w \in Writes, Handles(w) PROVE PolicyInv'
  BY <1>2 DEF Handles, BeginAudit, Ask, Receive, TimeOut, Forget, FinishApproval, Revalidate,
              Commit, FinishApplied, policy
<1>3. ASSUME NEW w \in Writes, DeadlinePasses(w) PROVE PolicyInv'
  BY <1>3 DEF DeadlinePasses, policy
<1>4. ASSUME NEW w \in Writes, NEW a \in BOOLEAN, Respond(w, a) PROVE PolicyInv'
  BY <1>4 DEF Respond, policy
<1>5. CASE EditTarget \/ DeleteScript \/ Crash
  BY <1>5 DEF EditTarget, DeleteScript, Crash, policy
<1>6. CASE DeleteSession
  <2>1. PICK limited \in SUBSET {c \in Clients : grant[c].active} :
          grant' = [c \in Clients |-> IF c \in limited THEN NoGrant ELSE grant[c]]
    BY <1>6 DEF DeleteSession
  <2>2. grant' \in [Clients -> Grants]
    BY <2>1 DEF NoGrant, Grants
  <2>3. grant'[bound].active => grant[bound].active
    BY <2>1 DEF NoGrant
  <2> QED
    BY <1>6, <2>2, <2>3 DEF DeleteSession
<1>7. ASSUME NEW c \in budget.clients, RevokeGrant(c) PROVE PolicyInv'
  <2>1. grant' = [grant EXCEPT ![c] = NoGrant] /\ grant' \in [Clients -> Grants]
    BY <1>0, <1>7 DEF RevokeGrant, NoGrant, Grants
  <2>2. grant'[bound].active => grant[bound].active
    BY <1>0, <2>1 DEF NoGrant
  <2>3. token' = token \/ token' = None
    BY <1>7 DEF RevokeGrant
  <2> QED
    BY <1>7, <2>1, <2>2, <2>3 DEF RevokeGrant
<1>8. ASSUME NEW c \in budget.clients, GrantExpires(c) PROVE PolicyInv'
  <2>1. grant' = [grant EXCEPT ![c] = NoGrant] /\ grant' \in [Clients -> Grants]
    BY <1>0, <1>8 DEF GrantExpires, NoGrant, Grants
  <2>2. grant'[bound].active => grant[bound].active
    BY <1>0, <2>1 DEF NoGrant
  <2> QED
    BY <1>8, <2>1, <2>2 DEF GrantExpires
<1>9. ASSUME NEW c \in budget.clients, NEW confirm \in BOOLEAN, SaveGrant(c, confirm)
      PROVE PolicyInv'
  <2> DEFINE renews == bound = c /\ ~grant[c].active
             given == [active |-> TRUE, confirm |-> confirm]
  <2>0. c \in Clients /\ given \in Grants /\ UNCHANGED <<budget, bound>>
    BY <1>0, <1>9 DEF SaveGrant, Grants
  <2>1. CASE UNCHANGED policy
    <3>1. token' = token \/ token' = None
      BY <1>9 DEF SaveGrant
    <3> QED
      BY <2>0, <2>1, <3>1 DEF policy
  <2>2. CASE /\ grant' = [grant EXCEPT ![c] = given]
             /\ episode' = IF grant[c].active THEN episode ELSE [episode EXCEPT ![c] = @ + 1]
             /\ token' = IF renews THEN None ELSE token
    <3>1. grant' \in [Clients -> Grants] /\ episode' \in [Clients -> Nat]
      BY <2>0, <2>2
    <3>2. ASSUME ~renews, grant'[bound].active
          PROVE grant[bound].active /\ episode'[bound] = episode[bound]
      BY <2>0, <2>2, <3>2
    <3> QED
      BY <2>0, <2>2, <3>1, <3>2
  <2> QED
    BY <1>9, <2>1, <2>2 DEF SaveGrant
<1>10. ASSUME NEW c \in budget.clients, SaveSettings(c) PROVE PolicyInv'
  BY <1>0, <1>10 DEF SaveSettings, policy
<1>11. CASE RotateToken
  BY <1>11 DEF RotateToken, policy, Tokens
<1>12. ASSUME NEW o, WatcherTicks(o) PROVE PolicyInv'
  BY <1>12 DEF WatcherTicks, Retire, policy
<1>13. ASSUME NEW o, StartEnds(o) PROVE PolicyInv'
  BY <1>13 DEF StartEnds, policy
<1>14. CASE KeyringChanges \/ StartBridge \/ BridgeListens \/ BridgeDies \/ StopBridgeByUser
            \/ ProbeBegins \/ ProbeConnects \/ ProbeEnds
  BY <1>14 DEF KeyringChanges, StartBridge, BridgeListens, BridgeDies, StopBridgeByUser,
               ProbeBegins, ProbeConnects, ProbeEnds, policy
<1>15. CASE StatusRetires
  BY <1>15 DEF StatusRetires, Retire, policy
<1>16. CASE UNCHANGED vars
  BY <1>16 DEF vars
<1> QED
  BY <1>1, <1>2, <1>3, <1>4, <1>5, <1>6, <1>7, <1>8, <1>9, <1>10, <1>11, <1>12, <1>13,
     <1>14, <1>15, <1>16 DEF Next, BridgeStep

(* A stored token that could serve belongs to the bound client and to its  *)
(* present grant, for any number of clients and whatever fails: a renewed  *)
(* grant or a changed binding deletes the token before it takes effect     *)
(* (mutate_mcp_grant, save_mcp_http_settings).                             *)
THEOREM TokenBelongsToGrant == Spec => []TokenIsCurrent
<1>1. PolicyInv => TokenIsCurrent
  BY DEF PolicyInv
<1> QED
  BY <1>1, PolicyInit, PolicyStep, PTL DEF Spec
----------------------------------------------------------------------------
(* The writes.                                                             *)

Requests ==
    [at : {"idle", "captured", "ask", "waiting", "expired", "approved", "refused",
           "authorized", "lane", "commit", "finish", "done"},
     client : Clients \cup {None}, version : Nat, asked : BOOLEAN, late : BOOLEAN,
     answer : {"none", "yes", "no"}, said : BOOLEAN]

Outcomes == {"authorized", "succeeded", "failed"}
Decisions == Outcomes \cup {"none", "invalid", "denied", "pending-approval"}

WriteTypes ==
    /\ budget \in BudgetShape
    /\ grant \in [Clients -> Grants]
    /\ target \in Nat
    /\ write \in [Writes -> Requests]
    /\ audit \in [Writes -> Decisions]
    /\ ran \in [Writes -> Nat]

(* What is known of a write on its way: an approval is the user's from the *)
(* answer on, the record says "authorized" from the check before the lane  *)
(* until the outcome, and only the commit runs it.                         *)
Sound(w) ==
    LET r == write[w]
    IN  /\ r.at = "captured" => ~r.asked
        /\ r.at \in {"captured", "ask"} => r.answer # "yes"
        /\ r.at = "waiting" /\ r.answer = "yes" => r.said
        /\ r.at \in {"approved", "authorized", "lane", "commit"} /\ r.asked => r.said
        /\ r.at \in {"authorized", "lane", "commit"} => audit[w] = "authorized"
        /\ r.at = "commit" => ran[w] = r.version
        /\ ran[w] # 0 => r.at \in {"commit", "done"} /\ audit[w] \in Outcomes

WriteInv == WriteTypes /\ \A w \in Writes : Sound(w)

LEMMA WriteInit == Init => WriteInv
  BY BoundsAssumption
  DEF Init, WriteInv, WriteTypes, Sound, NoGrant, Grants, BudgetShape, NoWrite, Requests, Decisions

(* A step of one write leaves the others as they are. *)
LEMMA OneWrite ==
    ASSUME WriteInv, NEW w \in Writes, WriteTypes', Sound(w)',
           \A u \in Writes \ {w} :
              write'[u] = write[u] /\ audit'[u] = audit[u] /\ ran'[u] = ran[u]
    PROVE  WriteInv'
<1> SUFFICES ASSUME NEW u \in Writes PROVE Sound(u)'
  BY DEF WriteInv
<1>1. CASE u = w
  BY <1>1
<1>2. CASE u # w
  BY <1>2 DEF WriteInv, Sound
<1> QED
  BY <1>1, <1>2

(* A step that puts r in the place of write w, and d in that of its record. *)
LEMMA PutWrite ==
    ASSUME WriteInv, NEW w \in Writes, NEW r \in Requests,
           write' = [write EXCEPT ![w] = r],
           audit' = audit \/ \E d \in Decisions : audit' = [audit EXCEPT ![w] = d],
           UNCHANGED <<budget, grant, target, ran>>,
           Sound(w)'
    PROVE  WriteInv'
<1>1. WriteTypes'
  BY DEF WriteInv, WriteTypes
<1>2. \A u \in Writes \ {w} : write'[u] = write[u] /\ audit'[u] = audit[u] /\ ran'[u] = ran[u]
  BY DEF WriteInv, WriteTypes
<1> QED
  BY <1>1, <1>2, OneWrite

(* A write is given up before it has run. *)
LEMMA GiveUp ==
    ASSUME WriteInv, NEW w \in Writes, Done(w), write[w].at # "commit",
           audit' = audit \/ \E d \in Decisions : audit' = [audit EXCEPT ![w] = d],
           UNCHANGED <<budget, grant, target, ran>>,
           ran[w] = 0 \/ audit' = audit
    PROVE  WriteInv'
<1> DEFINE r == [NoWrite EXCEPT !.at = "done"]
<1>1. r \in Requests /\ r.at = "done"
  BY DEF NoWrite, Requests
<1>2. write' = [write EXCEPT ![w] = r]
  BY DEF Done, Put
<1> HIDE DEF r
<1>3. write'[w] = r
  BY <1>2 DEF WriteInv, WriteTypes
<1>4. Sound(w)'
  BY <1>1, <1>3 DEF WriteInv, Sound
<1> QED
  BY <1>1, <1>2, <1>4, PutWrite

(* A write goes on to a step before its commit. *)
LEMMA MoveTo ==
    ASSUME WriteInv, NEW w \in Writes,
           NEW at \in {"waiting", "expired", "approved", "refused", "authorized", "lane", "finish"},
           To(w, at), UNCHANGED <<budget, grant, target, audit, ran>>,
           ran[w] = 0,
           at = "waiting" => write[w].answer # "yes",
           at \in {"approved", "authorized", "lane"} /\ write[w].asked => write[w].said,
           at \in {"authorized", "lane"} => audit[w] = "authorized"
    PROVE  WriteInv'
<1> DEFINE r == [write[w] EXCEPT !.at = at]
<1>1. write[w] \in Requests
  BY DEF WriteInv, WriteTypes
<1>2. /\ r \in Requests /\ r.at = at
      /\ r.asked = write[w].asked /\ r.said = write[w].said /\ r.answer = write[w].answer
  BY <1>1 DEF Requests
<1>3. write' = [write EXCEPT ![w] = r]
  BY DEF To, Put
<1> HIDE DEF r
<1>4. write'[w] = r
  BY <1>3 DEF WriteInv, WriteTypes
<1>5. Sound(w)'
  BY <1>2, <1>4 DEF Sound
<1> QED
  BY <1>2, <1>3, <1>5, PutWrite

LEMMA BeginAuditKeeps == ASSUME WriteInv, NEW w \in Writes, BeginAudit(w) PROVE WriteInv'
<1> USE DEF Put, To, Audited, AuditFails, policy
<1>0. /\ write[w] \in Requests /\ write \in [Writes -> Requests] /\ audit \in [Writes -> Decisions]
      /\ UNCHANGED <<budget, grant, target, ran>> /\ write[w].at = "captured"
      /\ ran[w] = 0 /\ ~write[w].asked /\ write[w].answer # "yes"
  BY DEF WriteInv, WriteTypes, BeginAudit, Sound
<1>1. CASE Audited(w, "pending-approval") /\ Put(w, [write[w] EXCEPT !.at = "ask", !.asked = TRUE])
  <2> DEFINE r == [write[w] EXCEPT !.at = "ask", !.asked = TRUE]
  <2>1. r \in Requests /\ r.at = "ask" /\ r.answer # "yes"
    BY <1>0 DEF Requests
  <2>2. write' = [write EXCEPT ![w] = r]
    BY <1>1
  <2> HIDE DEF r
  <2>3. Sound(w)'
    BY <1>0, <2>1, <2>2 DEF Sound
  <2> QED
    BY <1>0, <1>1, <2>1, <2>2, <2>3, PutWrite DEF Decisions
<1>2. CASE Audited(w, "authorized") /\ To(w, "authorized")
  <2> DEFINE r == [write[w] EXCEPT !.at = "authorized"]
  <2>1. r \in Requests /\ r.at = "authorized" /\ ~r.asked
    BY <1>0 DEF Requests
  <2>2. write' = [write EXCEPT ![w] = r]
    BY <1>2
  <2> HIDE DEF r
  <2>3. Sound(w)'
    BY <1>0, <1>2, <2>1, <2>2 DEF Sound
  <2> QED
    BY <1>0, <1>2, <2>1, <2>2, <2>3, PutWrite DEF Decisions, Outcomes
<1>3. CASE Done(w) /\ (audit' = audit \/ \E d \in Decisions : audit' = [audit EXCEPT ![w] = d])
  BY <1>0, <1>3, GiveUp
<1> QED
  BY <1>1, <1>2, <1>3 DEF BeginAudit, Decisions, Outcomes

LEMMA AnswerKeeps ==
    ASSUME WriteInv, NEW w \in Writes,
           Ask(w) \/ Receive(w) \/ TimeOut(w) \/ Forget(w) \/ Revalidate(w)
    PROVE  WriteInv'
<1>0. UNCHANGED <<budget, grant, target, audit, ran>> /\ ran[w] = 0 /\ Sound(w)
  BY DEF WriteInv, Sound, Ask, Receive, TimeOut, Forget, Revalidate, policy
<1>1. CASE Ask(w)
  <2>1. (To(w, "waiting") \/ To(w, "refused")) /\ write[w].answer # "yes"
    BY <1>0, <1>1 DEF Ask, Sound
  <2> QED
    BY <1>0, <2>1, MoveTo
<1>2. CASE Receive(w)
  <2>1. CASE write[w].answer = "yes" /\ ~write[w].late
    BY <1>0, <1>2, <2>1, MoveTo DEF Receive, Sound
  <2>2. CASE ~(write[w].answer = "yes" /\ ~write[w].late)
    BY <1>0, <1>2, <2>2, MoveTo DEF Receive
  <2> QED
    BY <2>1, <2>2
<1>3. CASE TimeOut(w) \/ Forget(w)
  BY <1>0, <1>3, MoveTo DEF TimeOut, Forget
<1>4. CASE Revalidate(w)
  <2>1. audit[w] = "authorized" /\ (write[w].asked => write[w].said)
    BY <1>0, <1>4 DEF Revalidate, Sound
  <2>2. To(w, "lane") \/ To(w, "finish")
    BY <1>4 DEF Revalidate
  <2> QED
    BY <1>0, <2>1, <2>2, MoveTo
<1> QED
  BY <1>1, <1>2, <1>3, <1>4

LEMMA FinishApprovalKeeps == ASSUME WriteInv, NEW w \in Writes, FinishApproval(w) PROVE WriteInv'
<1>0. /\ write[w] \in Requests /\ write \in [Writes -> Requests] /\ audit \in [Writes -> Decisions]
      /\ UNCHANGED <<budget, grant, target, ran>> /\ write[w].at \in {"approved", "refused"}
      /\ ran[w] = 0 /\ Sound(w)
  BY DEF WriteInv, WriteTypes, FinishApproval, Sound, policy
<1>1. CASE write[w].at = "approved" /\ Audited(w, "authorized") /\ To(w, "authorized")
  <2> DEFINE r == [write[w] EXCEPT !.at = "authorized"]
  <2>1. r \in Requests /\ r.at = "authorized" /\ (r.asked => r.said)
    BY <1>0, <1>1 DEF Requests, Sound
  <2>2. write' = [write EXCEPT ![w] = r] /\ audit' = [audit EXCEPT ![w] = "authorized"]
    BY <1>1 DEF To, Put, Audited
  <2> HIDE DEF r
  <2>3. Sound(w)'
    BY <1>0, <2>1, <2>2 DEF Sound
  <2> QED
    BY <1>0, <2>1, <2>2, <2>3, PutWrite DEF Decisions, Outcomes
<1>2. CASE Done(w) /\ (audit' = audit \/ \E d \in Decisions : audit' = [audit EXCEPT ![w] = d])
  BY <1>0, <1>2, GiveUp
<1> QED
  BY <1>1, <1>2 DEF FinishApproval, Audited, AuditFails, Decisions, Outcomes

LEMMA CommitKeeps == ASSUME WriteInv, NEW w \in Writes, Commit(w) PROVE WriteInv'
<1>0. /\ write[w] \in Requests /\ write \in [Writes -> Requests] /\ ran \in [Writes -> Nat]
      /\ UNCHANGED <<budget, grant, target, audit>> /\ write[w].at = "lane"
      /\ ran[w] = 0 /\ Sound(w) /\ WriteTypes
  BY DEF WriteInv, WriteTypes, Commit, Sound, policy
<1>1. CASE Valid(w) /\ To(w, "commit") /\ ran' = [ran EXCEPT ![w] = target]
  <2> DEFINE r == [write[w] EXCEPT !.at = "commit"]
  <2>1. /\ r \in Requests /\ r.at = "commit" /\ (r.asked => r.said) /\ r.version = target
        /\ audit[w] = "authorized"
    BY <1>0, <1>1 DEF Requests, Sound, Valid
  <2>2. write' = [write EXCEPT ![w] = r]
    BY <1>1 DEF To, Put
  <2> HIDE DEF r
  <2>3. Sound(w)'
    BY <1>0, <1>1, <2>1, <2>2 DEF Sound, Outcomes
  <2>4. WriteTypes'
    BY <1>0, <1>1, <2>1, <2>2 DEF WriteTypes
  <2>5. \A u \in Writes \ {w} : write'[u] = write[u] /\ audit'[u] = audit[u] /\ ran'[u] = ran[u]
    BY <1>0, <1>1, <2>2
  <2> QED
    BY <2>3, <2>4, <2>5, OneWrite
<1>2. CASE To(w, "finish") /\ UNCHANGED ran
  BY <1>0, <1>2, MoveTo
<1> QED
  BY <1>1, <1>2 DEF Commit

LEMMA FinishAppliedKeeps == ASSUME WriteInv, NEW w \in Writes, FinishApplied(w) PROVE WriteInv'
<1>0. /\ write[w] \in Requests /\ write \in [Writes -> Requests] /\ audit \in [Writes -> Decisions]
      /\ UNCHANGED <<budget, grant, target, ran>> /\ write[w].at \in {"commit", "finish"}
      /\ Sound(w) /\ Done(w)
      /\ audit' = audit \/ \E d \in Outcomes : audit' = [audit EXCEPT ![w] = d]
  BY DEF WriteInv, WriteTypes, FinishApplied, AuditFails, Audited, Outcomes, policy
<1> DEFINE r == [NoWrite EXCEPT !.at = "done"]
<1>1. r \in Requests /\ r.at = "done"
  BY DEF NoWrite, Requests
<1>2. write' = [write EXCEPT ![w] = r]
  BY <1>0 DEF Done, Put
<1> HIDE DEF r
<1>3. Sound(w)'
  BY <1>0, <1>1, <1>2 DEF Sound
<1> QED
  BY <1>0, <1>1, <1>2, <1>3, PutWrite DEF Decisions

LEMMA WriteStep == WriteInv /\ [Next]_vars => WriteInv'
<1> SUFFICES ASSUME WriteInv, [Next]_vars PROVE WriteInv'
  OBVIOUS
<1>0. budget.clients \subseteq Clients
  BY DEF WriteInv, WriteTypes, BudgetShape
<1>1. ASSUME NEW w \in Writes, Handles(w) PROVE WriteInv'
  BY <1>1, BeginAuditKeeps, AnswerKeeps, FinishApprovalKeeps, CommitKeeps, FinishAppliedKeeps
     DEF Handles
<1>2. ASSUME NEW w \in Writes, NEW c \in budget.clients, Submit(w, c) PROVE WriteInv'
  <2>0. /\ write \in [Writes -> Requests] /\ c \in Clients
        /\ UNCHANGED <<budget, grant, target, ran>> /\ write[w].at = "idle" /\ Sound(w)
    BY <1>0, <1>2 DEF WriteInv, WriteTypes, Submit, policy
  <2>1. CASE target # 0
    <3> DEFINE r == [NoWrite EXCEPT !.at = "captured", !.client = c, !.version = target]
    <3>1. r \in Requests /\ r.at = "captured" /\ ~r.asked /\ r.answer # "yes"
      BY <2>0 DEF WriteInv, WriteTypes, NoWrite, Requests
    <3>2. write' = [write EXCEPT ![w] = r] /\ audit' = audit
      BY <1>2, <2>1 DEF Submit, Put
    <3> HIDE DEF r
    <3>3. Sound(w)'
      BY <2>0, <3>1, <3>2 DEF Sound
    <3> QED
      BY <2>0, <3>1, <3>2, <3>3, PutWrite
  <2>2. CASE target = 0
    <3>1. /\ Done(w) /\ ran[w] = 0
          /\ audit' = audit \/ \E d \in Decisions : audit' = [audit EXCEPT ![w] = d]
      BY <1>2, <2>0, <2>2 DEF Submit, AuditFails, Audited, Decisions, Sound
    <3> QED
      BY <2>0, <3>1, GiveUp
  <2> QED
    BY <2>1, <2>2
<1>3. ASSUME NEW w \in Writes, DeadlinePasses(w) PROVE WriteInv'
  <2> DEFINE r == [write[w] EXCEPT !.late = TRUE]
  <2>0. write[w] \in Requests /\ write \in [Writes -> Requests] /\ Sound(w)
    BY DEF WriteInv, WriteTypes
  <2>1. /\ r \in Requests /\ r.at = write[w].at /\ r.asked = write[w].asked
        /\ r.said = write[w].said /\ r.answer = write[w].answer /\ r.version = write[w].version
    BY <2>0 DEF Requests
  <2>2. write' = [write EXCEPT ![w] = r] /\ UNCHANGED <<budget, grant, target, audit, ran>>
    BY <1>3 DEF DeadlinePasses, Put, policy
  <2> HIDE DEF r
  <2>3. Sound(w)'
    BY <2>0, <2>1, <2>2 DEF Sound
  <2> QED
    BY <2>1, <2>2, <2>3, PutWrite
<1>4. ASSUME NEW w \in Writes, NEW approved \in BOOLEAN, Respond(w, approved) PROVE WriteInv'
  <2> DEFINE yes == approved /\ ~write[w].late
             r == [write[w] EXCEPT !.answer = IF yes THEN "yes" ELSE "no", !.said = yes]
  <2>0. write[w] \in Requests /\ write \in [Writes -> Requests] /\ Sound(w)
    BY DEF WriteInv, WriteTypes
  <2>1. UNCHANGED <<budget, grant, target, audit, ran>>
    BY <1>4 DEF Respond, policy
  <2>2. CASE write[w].at = "waiting"
    <3>1. yes \in BOOLEAN
      BY <2>0 DEF Requests
    <3>2. write' = [write EXCEPT ![w] = r]
      BY <1>4, <2>2 DEF Respond, Put
    <3> HIDE DEF yes
    <3>3. r \in Requests /\ r.at = "waiting" /\ (r.answer = "yes" => r.said)
      BY <2>0, <2>2, <3>1 DEF Requests
    <3> HIDE DEF r
    <3>4. Sound(w)'
      BY <2>0, <2>1, <2>2, <3>2, <3>3 DEF Sound
    <3> QED
      BY <2>1, <3>2, <3>3, <3>4, PutWrite
  <2>3. CASE write[w].at # "waiting"
    BY <1>4, <2>1, <2>3 DEF Respond, WriteInv, WriteTypes, Sound
  <2> QED
    BY <2>2, <2>3
<1>5. CASE EditTarget \/ DeleteScript
  BY <1>5 DEF EditTarget, DeleteScript, WriteInv, WriteTypes, Sound, policy, writing
<1>6. CASE DeleteSession
  <2>1. PICK limited \in SUBSET {c \in Clients : grant[c].active} :
          grant' = [c \in Clients |-> IF c \in limited THEN NoGrant ELSE grant[c]]
    BY <1>6 DEF DeleteSession
  <2>2. grant' \in [Clients -> Grants]
    BY <2>1 DEF WriteInv, WriteTypes, NoGrant, Grants
  <2>3. target' = 0 /\ UNCHANGED <<budget, audit, ran>>
        /\ write' = [w \in Writes |-> IF w \in pending /\ write[w].at = "waiting"
                                      THEN [write[w] EXCEPT !.answer = "no"] ELSE write[w]]
    BY <1>6 DEF DeleteSession
  <2>4. ASSUME NEW w \in Writes PROVE write'[w] \in Requests /\ Sound(w)'
    <3> DEFINE r == [write[w] EXCEPT !.answer = "no"]
    <3>0. write[w] \in Requests /\ Sound(w)
      BY DEF WriteInv, WriteTypes
    <3>1. r \in Requests /\ r.at = write[w].at /\ r.answer = "no"
      BY <3>0 DEF Requests
    <3>2. (write'[w] = r /\ r.at = "waiting") \/ write'[w] = write[w]
      BY <2>3, <3>1
    <3> HIDE DEF r
    <3> QED
      BY <2>3, <3>0, <3>1, <3>2 DEF Sound
  <2> QED
    BY <2>2, <2>3, <2>4 DEF WriteInv, WriteTypes
<1>7. CASE Crash
  <2> DEFINE r == [NoWrite EXCEPT !.at = "done"]
  <2>1. r \in Requests /\ r.at = "done"
    BY DEF NoWrite, Requests
  <2>2. UNCHANGED <<budget, grant, target, audit, ran>>
        /\ write' = [w \in Writes |-> IF write[w].at \in {"idle", "done"} THEN write[w] ELSE r]
    BY <1>7 DEF Crash, policy
  <2> HIDE DEF r
  <2>3. ASSUME NEW w \in Writes PROVE write'[w] \in Requests /\ Sound(w)'
    <3>1. Sound(w) /\ write[w] \in Requests
      BY DEF WriteInv, WriteTypes
    <3>2. write'[w] = r \/ write'[w] = write[w]
      BY <2>2
    <3> QED
      BY <2>1, <2>2, <3>1, <3>2 DEF Sound
  <2> QED
    BY <2>2, <2>3 DEF WriteInv, WriteTypes
<1>8. ASSUME NEW c \in budget.clients, RevokeGrant(c) \/ GrantExpires(c) PROVE WriteInv'
  <2>1. grant' = [grant EXCEPT ![c] = NoGrant] /\ UNCHANGED <<budget, target, writing>>
    BY <1>8 DEF RevokeGrant, GrantExpires
  <2>2. grant' \in [Clients -> Grants]
    BY <1>0, <2>1 DEF WriteInv, WriteTypes, NoGrant, Grants
  <2> QED
    BY <2>1, <2>2 DEF WriteInv, WriteTypes, Sound, writing
<1>9. ASSUME NEW c \in budget.clients, NEW confirm \in BOOLEAN, SaveGrant(c, confirm)
      PROVE WriteInv'
  <2> DEFINE given == [active |-> TRUE, confirm |-> confirm]
  <2>0. given \in Grants /\ c \in Clients /\ grant \in [Clients -> Grants]
    BY <1>0 DEF WriteInv, WriteTypes, Grants
  <2>1. grant' = grant \/ grant' = [grant EXCEPT ![c] = given]
    BY <1>9 DEF SaveGrant, policy
  <2>2. UNCHANGED <<budget, target, writing>>
    BY <1>9 DEF SaveGrant
  <2>3. grant' \in [Clients -> Grants]
    <3> HIDE DEF given
    <3> QED
      BY <2>0, <2>1
  <2> QED
    BY <2>2, <2>3 DEF WriteInv, WriteTypes, Sound, writing
<1>10. CASE BridgeStep
  <2>1. UNCHANGED <<budget, grant, target, writing>>
    BY <1>10 DEF BridgeStep, KeyringChanges, RotateToken, StartBridge, BridgeListens, BridgeDies,
                 StopBridgeByUser, StatusRetires, SaveSettings, WatcherTicks, StartEnds,
                        ProbeBegins,
                 ProbeConnects, ProbeEnds, policy
  <2> QED
    BY <2>1 DEF WriteInv, WriteTypes, Sound, writing
<1>11. CASE UNCHANGED vars
  BY <1>11 DEF vars, WriteInv, WriteTypes, Sound
<1> QED
  BY <1>1, <1>2, <1>3, <1>4, <1>5, <1>6, <1>7, <1>8, <1>9, <1>10, <1>11 DEF Next

(* A write runs only with its authorization on record and, when its grant  *)
(* asked for it, the user's approval in time, and on what was approved;    *)
(* and the record never says later that it was refused: for any number of  *)
(* clients and requests, whatever is revoked, edited, deleted, answered    *)
(* late or lost (handle_ipc_request).                                      *)
THEOREM WritesRunApproved == Spec => []WritesAreApproved
<1>1. WriteInv => WritesAreApproved
  BY DEF WriteInv, WritesAreApproved, Sound, Outcomes
<1> QED
  BY <1>1, WriteInit, WriteStep, PTL DEF Spec

----------------------------------------------------------------------------
(* The server process. *)

----------------------------------------------------------------------------
(* One connection, with its calls to the desktop and what they ran.        *)

Items    == 1..MaxBatch
Before   == {"idle", "head", "request", "stream", "envelope"}
Working  == {"item", "connect", "send", "wait"}
Says     == {"error", "result", "snapshot", "unexecuted"}
Replies  == Seq((0..MaxBatch) \X Says)
ConnRecs == [at : Before \cup Working \cup {"answer", "done"}, via : {"http", "stdio"},
             request : {"none"} \cup UNION {l.requests : l \in Loads}, envelope : Envelopes,
             next : Nat \ {0}, named : Desktops \cup {NoDesktop}, replies : Replies, status : Nat]
Calls    == [at : {"none", "arrived", "reading", "running", "ok", "error"},
             desktop : Desktops \cup {NoDesktop}, sent : BOOLEAN]

Answers(e, n) == {i \in 1..n - 1 : e[i].id \/ e[i].is = "malformed"}
Trusted(r)    == r.via = "stdio" \/ r.request.token

(* r is the record of the connection, q its calls, n how often each ran. *)
Shape(r, q, n) == r \in ConnRecs /\ q \in [Items -> Calls] /\ n \in [Items -> {0, 1}]

NothingYet(r, q, n) ==
    r.at \in Before => /\ r.replies = <<>> /\ r.next = 1
                       /\ \A i \in Items : q[i].at = "none" /\ n[i] = 0

InOrder(r, q, n) ==
    r.at \in Working =>
        /\ Len(r.envelope) <= MaxBatch /\ r.next <= Len(r.envelope) + 1
        /\ r.at # "item" => r.next <= Len(r.envelope) /\ r.envelope[r.next].is \in {"read", "write"}
        /\ Len(r.replies) = Cardinality(Answers(r.envelope, r.next))
        /\ \A i \in Items :
             i > r.next \/ (i = r.next /\ r.at \in {"item", "connect"}) => q[i].at = "none" /\
                    n[i] = 0

Admits(r, q, n) ==
    /\ r.at \in Working \cup {"envelope"} => Trusted(r)
    /\ \A i \in Items :
        /\ q[i].at \in {"arrived", "reading", "running"} => n[i] = 0
        /\ q[i].at = "ok" /\ r.envelope[i].is = "write" => n[i] = 1
        /\ q[i].at = "running" => q[i].desktop = r.named
        /\ q[i].at # "none" \/ n[i] = 1 => Trusted(r)

(* What the reply p reports. *)
TrueOf(p, r, q, n) ==
    p[1] # 0 =>
        /\ p[1] < r.next
        /\ p[2] = "unexecuted" => q[p[1]].at = "none" /\ n[p[1]] = 0
        /\ p[2] = "result" /\ r.envelope[p[1]].is = "write" => n[p[1]] = 1

Told(r, q, n) == \A k \in 1..Len(r.replies) : TrueOf(r.replies[k], r, q, n)

Fine(r, q, n) ==
    Shape(r, q, n) /\ NothingYet(r, q, n) /\ InOrder(r, q, n) /\ Admits(r, q, n) /\ Told(r, q, n)

(* The number of answers that are due grows with the messages handled. *)
LEMMA AnswersGrow ==
    ASSUME NEW e \in Envelopes, NEW n \in Nat \ {0}, n <= Len(e)
    PROVE  /\ IsFiniteSet(Answers(e, n)) /\ Cardinality(Answers(e, n)) \in Nat
           /\ Cardinality(Answers(e, n + 1)) =
                IF e[n].id \/ e[n].is = "malformed" THEN Cardinality(Answers(e, n)) + 1
                                                     ELSE Cardinality(Answers(e, n))
<1>1. IsFiniteSet(Answers(e, n))
  <2>1. IsFiniteSet(1..n - 1)
    BY FS_Interval
  <2> QED
    BY <2>1, FS_Subset DEF Answers
<1>2. Cardinality(Answers(e, n)) \in Nat
  BY <1>1, FS_CardinalityType
<1>3. n \notin Answers(e, n)
  BY DEF Answers
<1>4. 1..(n + 1) - 1 = (1..n - 1) \cup {n}
  OBVIOUS
<1>5. CASE e[n].id \/ e[n].is = "malformed"
  <2>1. Answers(e, n + 1) = Answers(e, n) \cup {n}
    BY <1>4, <1>5, Zenon DEF Answers
  <2>2. Cardinality(Answers(e, n + 1)) = Cardinality(Answers(e, n)) + 1
    BY <2>1, <1>1, <1>3, FS_AddElement
  <2> QED
    BY <1>1, <1>2, <1>5, <2>2, Zenon
<1>6. CASE ~(e[n].id \/ e[n].is = "malformed")
  <2>1. Answers(e, n + 1) = Answers(e, n)
    BY <1>4, <1>6, Zenon DEF Answers
  <2> QED
    BY <1>1, <1>2, <1>6, <2>1, Zenon
<1> QED
  BY <1>5, <1>6

LEMMA NoAnswers == ASSUME NEW e PROVE Cardinality(Answers(e, 1)) = 0
<1>1. Answers(e, 1) = {}
  BY DEF Answers
<1> QED
  BY <1>1, FS_EmptySet

(* Where a connection is changes nothing that was said or ran. *)
LEMMA ToPlace ==
    ASSUME NEW r, NEW q, NEW n, Fine(r, q, n), NEW at \in Before \cup Working \cup {"answer",
           "done"},
           NEW s \in Nat,
           at \in Before => r.at \in Before,
           at \in Working => r.at \in Working,
           at \in Working /\ r.at \in {"send", "wait"} => at \in {"send", "wait"},
           at \in Working \ {"item"} => r.next <= Len(r.envelope) /\
                  r.envelope[r.next].is \in {"read", "write"},
           at = "envelope" => Trusted(r)
    PROVE  Fine([r EXCEPT !.at = at, !.status = s], q, n)
<1> DEFINE z == [r EXCEPT !.at = at, !.status = s]
<1>1. z \in ConnRecs /\ z.at = at /\ z.via = r.via /\ z.request = r.request /\
       z.envelope = r.envelope
      /\ z.next = r.next /\ z.named = r.named /\ z.replies = r.replies
  BY DEF Fine, Shape, ConnRecs
<1> HIDE DEF z
<1>2. Trusted(z) <=> Trusted(r)
  BY <1>1, Zenon DEF Trusted
<1>3. Shape(z, q, n)
  BY <1>1, Zenon DEF Fine, Shape
<1>4. NothingYet(z, q, n)
  BY <1>1, Zenon DEF Fine, NothingYet
<1>5. InOrder(z, q, n)
  BY <1>1 DEF Fine, InOrder, Working
<1>6. Admits(z, q, n)
  <2>1. ~(at \in Before /\ at \in Working) /\ "envelope" \notin Working
    BY DEF Before, Working
  <2>2. at \in Working \cup {"envelope"} => Trusted(z)
    BY <1>1, <1>2, <2>1, Zenon DEF Fine, Admits
  <2> QED
    BY <1>1, <1>2, <2>2, Zenon DEF Fine, Admits
<1>7. Told(z, q, n)
  BY <1>1, Zenon DEF Fine, Told, TrueOf
<1>8. Fine(z, q, n)
  BY <1>3, <1>4, <1>5, <1>6, <1>7, Zenon DEF Fine
<1> QED
  BY <1>8 DEF z

(* A message is done with: its reply p is appended when one is due. *)
LEMMA AppendFacts ==
    ASSUME NEW S, NEW s \in Seq(S), NEW p \in S
    PROVE  /\ Append(s, p) \in Seq(S) /\ Len(Append(s, p)) = Len(s) + 1 /\ Len(s) \in Nat
           /\ \A k \in 1..Len(s) + 1 : Append(s, p)[k] = IF k = Len(s) + 1 THEN p ELSE s[k]
<1>1. Append(s, p) \in Seq(S) /\ Len(Append(s, p)) = Len(s) + 1 /\ Len(s) \in Nat
  BY AppendProperties, LenProperties
<1>2. ASSUME NEW k \in 1..Len(s) + 1 PROVE Append(s, p)[k] = IF k = Len(s) + 1 THEN p ELSE s[k]
  BY <1>1, <1>2, AppendProperties
<1> QED
  BY <1>1, <1>2

LEMMA MessageDone ==
    ASSUME NEW r, NEW q, NEW n, Fine(r, q, n), r.at \in Working, r.next <= Len(r.envelope),
           NEW p \in (0..MaxBatch) \X Says, p[1] \in {0, r.next},
           p[1] # 0 => /\ p[2] = "unexecuted" => q[r.next].at = "none" /\ n[r.next] = 0
                       /\ p[2] = "result" /\ r.envelope[r.next].is = "write" => n[r.next] = 1,
           NEW z \in ConnRecs, z.at = "item", z.via = r.via, z.request = r.request,
           z.envelope = r.envelope, z.named = r.named, z.next = r.next + 1,
           z.replies = IF r.envelope[r.next].id \/ r.envelope[r.next].is = "malformed"
                       THEN Append(r.replies, p) ELSE r.replies
    PROVE  Fine(z, q, n)
<1> DEFINE due == r.envelope[r.next].id \/ r.envelope[r.next].is = "malformed"
<1>0. /\ r \in ConnRecs /\ r.replies \in Replies /\ r.next \in Nat \ {0} /\ r.envelope \in Envelopes
      /\ Len(r.envelope) \in Nat
  BY LenProperties DEF Fine, Shape, ConnRecs, Envelopes
<1>1. "item" \in Working /\ "item" \notin Before /\ "envelope" \notin Working
  BY DEF Working, Before
<1>2. Trusted(z) <=> Trusted(r)
  BY Zenon DEF Trusted
<1>3. Shape(z, q, n)
  BY Zenon DEF Fine, Shape
<1>4. NothingYet(z, q, n)
  BY <1>1, Zenon DEF NothingYet
<1>5. InOrder(z, q, n)
  <2>1. Len(r.replies) = Cardinality(Answers(r.envelope, r.next))
    BY Zenon DEF Fine, InOrder
  <2>2. Cardinality(Answers(r.envelope, r.next + 1)) =
          IF due THEN Cardinality(Answers(r.envelope, r.next)) + 1
                 ELSE Cardinality(Answers(r.envelope, r.next))
    BY <1>0, AnswersGrow, Zenon
  <2>3. Len(z.replies) = Cardinality(Answers(z.envelope, z.next))
    <3>1. CASE due
      <4>1. z.replies = Append(r.replies, p)
        BY <3>1, Zenon
      <4>2. Len(z.replies) = Len(r.replies) + 1
        BY <4>1, <1>0, AppendFacts DEF Replies
      <4> QED
        BY <3>1, <4>2, <2>1, <2>2, Zenon
    <3>2. CASE ~due
      BY <3>2, <2>1, <2>2, Zenon
    <3> QED
      BY <3>1, <3>2
  <2>4. Len(z.envelope) <= MaxBatch /\ z.next <= Len(z.envelope) + 1
    BY <1>0 DEF Fine, InOrder
  <2>5. ASSUME NEW i \in Items, i > z.next \/ i = z.next PROVE q[i].at = "none" /\ n[i] = 0
    BY <1>0, <2>5, ServerAssumption DEF Fine, InOrder, Items
  <2> QED
    BY <2>3, <2>4, <2>5, Zenon DEF InOrder
<1>6. Admits(z, q, n)
  BY <1>1, <1>2, Zenon DEF Fine, Admits
<1>7. Told(z, q, n)
  <2>1. ASSUME NEW k \in 1..Len(r.replies) PROVE TrueOf(r.replies[k], z, q, n)
    <3>1. TrueOf(r.replies[k], r, q, n)
      BY Zenon DEF Fine, Told
    <3>2. r.replies[k] \in (0..MaxBatch) \X Says
      BY <1>0, ElementOfSeq DEF Replies
    <3>3. r.replies[k][1] \in 0..MaxBatch
      BY <3>2
    <3>4. r.replies[k][1] < r.next => r.replies[k][1] < z.next
      BY <3>3, <1>0, ServerAssumption
    <3> QED
      BY <3>1, <3>4, Zenon DEF TrueOf
  <2>2. TrueOf(p, z, q, n)
    <3>1. p[1] # 0 => p[1] = r.next
      OBVIOUS
    <3>2. r.next < z.next
      BY <1>0
    <3> QED
      BY <3>1, <3>2, Zenon DEF TrueOf
  <2>3. CASE due
    <3>1. z.replies = Append(r.replies, p)
      BY <2>3, Zenon
    <3>2. Len(z.replies) = Len(r.replies) + 1 /\ Len(r.replies) \in Nat
      BY <3>1, <1>0, AppendFacts DEF Replies
    <3>3. \A k \in 1..Len(r.replies) + 1 :
            z.replies[k] = IF k = Len(r.replies) + 1 THEN p ELSE r.replies[k]
      BY <3>1, <1>0, AppendFacts DEF Replies
    <3>4. ASSUME NEW k \in 1..Len(z.replies) PROVE TrueOf(z.replies[k], z, q, n)
      <4>1. CASE k = Len(r.replies) + 1
        <5>1. z.replies[k] = p
          BY <4>1, <3>2, <3>3
        <5> QED
          BY <5>1, <2>2, Zenon
      <4>2. CASE k # Len(r.replies) + 1
        <5>1. k \in 1..Len(r.replies) /\ z.replies[k] = r.replies[k]
          BY <4>2, <3>2, <3>3
        <5> QED
          BY <5>1, <2>1, Zenon
      <4> QED
        BY <4>1, <4>2
    <3> QED
      BY <3>4, Zenon DEF Told
  <2>4. CASE ~due
    <3>1. z.replies = r.replies
      BY <2>4, Zenon
    <3> QED
      BY <3>1, <2>1, Zenon DEF Told
  <2> QED
    BY <2>3, <2>4
<1> QED
  BY <1>3, <1>4, <1>5, <1>6, <1>7, Zenon DEF Fine

(* The record of a connection whose next message and replies change. *)
Moved(r, m, more) == [r EXCEPT !.at = "item", !.next = m, !.replies = more]

MovedFrom(r, m, more) ==
    LET z == Moved(r, m, more)
    IN  /\ z \in ConnRecs /\ z.at = "item" /\ z.via = r.via /\ z.request = r.request
        /\ z.envelope = r.envelope /\ z.named = r.named /\ z.next = m /\ z.replies = more

LEMMA RecordMoves ==
    ASSUME NEW r \in ConnRecs, NEW m \in Nat \ {0}, NEW more \in Replies
    PROVE  MovedFrom(r, m, more)
  BY DEF ConnRecs, Working, Moved, MovedFrom

(* The same for Answered, whose reply is due when the message has an id. *)
AnsweredAs(r, says) ==
    [r EXCEPT !.at = "item", !.next = @ + 1,
        !.replies = IF r.envelope[r.next].id THEN Append(@, Server!Reply(r.next, says)) ELSE @]

LEMMA MessageAnswered ==
    ASSUME NEW r, NEW q, NEW n, Fine(r, q, n), r.at \in Working, r.next <= Len(r.envelope),
           r.envelope[r.next].is # "malformed", NEW says \in Says,
           says = "unexecuted" => q[r.next].at = "none" /\ n[r.next] = 0,
           says = "result" /\ r.envelope[r.next].is = "write" => n[r.next] = 1
    PROVE  Fine(AnsweredAs(r, says), q, n)
<1> DEFINE z == AnsweredAs(r, says)
           p == <<r.next, says>>
           more == IF r.envelope[r.next].id THEN Append(r.replies, p) ELSE r.replies
<1>1. /\ r \in ConnRecs /\ r.replies \in Replies /\ r.next \in Nat \ {0} /\ r.next <= MaxBatch
      /\ Len(r.envelope) \in Nat
  BY ServerAssumption, LenProperties DEF Fine, Shape, ConnRecs, InOrder, Envelopes
<1>2. p \in (0..MaxBatch) \X Says /\ p[1] = r.next /\ p[2] = says
  BY <1>1, ServerAssumption
<1>3. Append(r.replies, p) \in Replies
  BY <1>1, <1>2, AppendFacts DEF Replies
<1>4. Server!Reply(r.next, says) = p
  BY DEF Server!Reply
<1> HIDE DEF p
<1>9. more \in Replies
  BY <1>1, <1>3, Zenon
<1>12. r.next + 1 \in Nat \ {0}
  BY <1>1
<1>10. z = Moved(r, r.next + 1, more)
  BY <1>4, Zenon DEF AnsweredAs, Moved
<1> HIDE DEF z, more
<1>13. MovedFrom(r, r.next + 1, more)
  BY <1>1, <1>9, <1>12, RecordMoves, Zenon
<1>5. /\ z \in ConnRecs /\ z.at = "item" /\ z.via = r.via /\ z.request = r.request
      /\ z.envelope = r.envelope /\ z.named = r.named /\ z.next = r.next + 1
      /\ z.replies = more
  BY <1>13, <1>10, Zenon DEF MovedFrom
<1>6. z.replies = IF r.envelope[r.next].id \/ r.envelope[r.next].is = "malformed"
                  THEN Append(r.replies, p) ELSE r.replies
  BY <1>5, Zenon DEF more
<1>7. p[1] \in {0, r.next}
  BY <1>2
<1>8. Fine(z, q, n)
  BY <1>2, <1>5, <1>6, <1>7, MessageDone, Zenon
<1> QED
  BY <1>8 DEF z

LEMMA MessageRejected ==
    ASSUME NEW r, NEW q, NEW n, Fine(r, q, n), r.at = "item", r.next <= Len(r.envelope),
           r.envelope[r.next].is = "malformed", NEW m \in {0, r.next}
    PROVE  Fine([r EXCEPT !.next = @ + 1, !.replies = Append(@, Server!Reply(m, "error"))], q, n)
<1> DEFINE z == [r EXCEPT !.next = @ + 1, !.replies = Append(@, Server!Reply(m, "error"))]
           p == <<m, "error">>
           more == Append(r.replies, p)
<1>0. r.at \in Working
  BY DEF Working
<1>1. /\ r \in ConnRecs /\ r.replies \in Replies /\ r.next \in Nat \ {0} /\ r.next <= MaxBatch
      /\ Len(r.envelope) \in Nat
  BY <1>0, ServerAssumption, LenProperties DEF Fine, Shape, ConnRecs, InOrder, Envelopes
<1>2. p \in (0..MaxBatch) \X Says /\ p[1] = m /\ p[2] = "error"
  BY <1>1, ServerAssumption DEF Says
<1>3. Append(r.replies, p) \in Replies
  BY <1>1, <1>2, AppendFacts DEF Replies
<1>4. Server!Reply(m, "error") = p
  BY DEF Server!Reply
<1> HIDE DEF p
<1>9. z = [r EXCEPT !.next = r.next + 1, !.replies = more]
  BY <1>4, Zenon
<1>10. more \in Replies
  BY <1>3
<1>11. z = Moved(r, r.next + 1, more)
  BY <1>1, <1>9 DEF ConnRecs, Moved
<1>12. r.next + 1 \in Nat \ {0}
  BY <1>1
<1> HIDE DEF z, more
<1>13. MovedFrom(r, r.next + 1, more)
  BY <1>1, <1>10, <1>12, RecordMoves, Zenon
<1>5. /\ z \in ConnRecs /\ z.at = "item" /\ z.via = r.via /\ z.request = r.request
      /\ z.envelope = r.envelope /\ z.named = r.named /\ z.next = r.next + 1
      /\ z.replies = more
  BY <1>13, <1>11, Zenon DEF MovedFrom
<1>6. z.replies = IF r.envelope[r.next].id \/ r.envelope[r.next].is = "malformed"
                  THEN Append(r.replies, p) ELSE r.replies
  BY <1>5, Zenon DEF more
<1>7. p[1] \in {0, r.next} /\ p[2] # "unexecuted" /\ p[2] # "result"
  BY <1>2
<1>8. Fine(z, q, n)
  BY <1>0, <1>2, <1>5, <1>6, <1>7, MessageDone, Zenon
<1> QED
  BY <1>8 DEF z

(* A call changes, and what ran with it. *)
LEMMA CallMoves ==
    ASSUME NEW r, NEW q, NEW n, Fine(r, q, n), NEW i \in Items, NEW k \in Calls, NEW x \in {0, 1},
           k.at # "none" \/ x = 1 =>
              /\ Trusted(r) /\ r.at \notin Before
              /\ r.at \in Working => i < r.next \/ (i = r.next /\ r.at \in {"send", "wait"}),
           k.at \in {"arrived", "reading", "running"} => x = 0,
           k.at = "ok" /\ r.envelope[i].is = "write" => x = 1,
           k.at = "running" => k.desktop = r.named,
           n[i] = 1 => x = 1,
           k.at # "none" => q[i].at # "none" \/ i = r.next,
           x = 1 => q[i].at # "none" \/ n[i] = 1
    PROVE  Fine(r, [q EXCEPT ![i] = k], [n EXCEPT ![i] = x])
<1> DEFINE q2 == [q EXCEPT ![i] = k]
           n2 == [n EXCEPT ![i] = x]
<1>0. r \in ConnRecs /\ q \in [Items -> Calls] /\ n \in [Items -> {0, 1}] /\ r.next \in Nat /\
       i \in Nat
  BY ServerAssumption DEF Fine, Shape, ConnRecs, Items
<1>1. /\ q2 \in [Items -> Calls] /\ n2 \in [Items -> {0, 1}] /\ q2[i] = k /\ n2[i] = x
      /\ \A j \in Items : j # i => q2[j] = q[j] /\ n2[j] = n[j]
  BY <1>0
<1> HIDE DEF q2, n2
<1>2. Shape(r, q2, n2)
  BY <1>0, <1>1, Zenon DEF Shape
<1>3. NothingYet(r, q2, n2)
  BY <1>0, <1>1 DEF Fine, NothingYet
<1>4. InOrder(r, q2, n2)
  <2>1. ASSUME r.at \in Working, NEW j \in Items,
               j > r.next \/ (j = r.next /\ r.at \in {"item", "connect"})
        PROVE  q2[j].at = "none" /\ n2[j] = 0
    <3>1. q[j].at = "none" /\ n[j] = 0
      BY <2>1, Zenon DEF Fine, InOrder
    <3>2. CASE j = i
      <4>1. ~(i < r.next \/ (i = r.next /\ r.at \in {"send", "wait"}))
        BY <2>1, <3>2, <1>0
      <4>2. k.at = "none" /\ x # 1
        BY <2>1, <4>1, Zenon
      <4> QED
        BY <4>2, <3>2, <1>1
    <3>3. CASE j # i
      BY <3>1, <3>3, <1>1, Zenon
    <3> QED
      BY <3>2, <3>3
  <2> QED
    BY <2>1, Zenon DEF Fine, InOrder
<1>5. Admits(r, q2, n2)
  <2>1. ASSUME NEW j \in Items
        PROVE  /\ q2[j].at \in {"arrived", "reading", "running"} => n2[j] = 0
               /\ q2[j].at = "ok" /\ r.envelope[j].is = "write" => n2[j] = 1
               /\ q2[j].at = "running" => q2[j].desktop = r.named
               /\ q2[j].at # "none" \/ n2[j] = 1 => Trusted(r)
    <3>1. CASE j = i
      BY <3>1, <1>1, Zenon
    <3>2. CASE j # i
      BY <3>2, <1>1, Zenon DEF Fine, Admits
    <3> QED
      BY <3>1, <3>2
  <2> QED
    BY <2>1, Zenon DEF Fine, Admits
<1>6. Told(r, q2, n2)
  <2>1. ASSUME NEW m \in 1..Len(r.replies) PROVE TrueOf(r.replies[m], r, q2, n2)
    <3> DEFINE p == r.replies[m]
    <3>1. TrueOf(p, r, q, n)
      BY Zenon DEF Fine, Told
    <3>2. p \in (0..MaxBatch) \X Says
      BY <1>0, ElementOfSeq DEF Replies, ConnRecs
    <3>3. p[1] # 0 => p[1] \in Items
      BY <3>2, ServerAssumption DEF Items
    <3> HIDE DEF p
    <3>4. CASE p[1] = i
      <4>1. i # 0
        BY ServerAssumption DEF Items
      <4>2. x # 1 => x = 0
        OBVIOUS
      <4>3. i < r.next => i # r.next
        BY <1>0
      <4> QED
        BY <3>1, <3>4, <1>1, <4>1, <4>2, <4>3, Zenon DEF TrueOf, p
    <3>5. CASE p[1] # i
      BY <3>1, <3>3, <3>5, <1>1, Zenon DEF TrueOf, p
    <3> QED
      BY <3>4, <3>5 DEF p
  <2> QED
    BY <2>1, Zenon DEF Told
<1>7. Fine(r, q2, n2)
  BY <1>2, <1>3, <1>4, <1>5, <1>6, Zenon DEF Fine
<1> QED
  BY <1>7 DEF q2, n2

(* A request begins: nothing was said or ran for it yet. *)
LEMMA RequestBegins ==
    ASSUME NEW r, NEW q, NEW n, Fine(r, q, n), r.at \in Before,
           NEW z \in ConnRecs, z.next = 1, z.at \in Before \cup {"item", "answer", "done"},
           z.replies = <<>> \/ (z.replies = <<<<0, "error">>>> /\ z.at = "answer"),
           z.at = "envelope" => Trusted(z),
           z.at = "item" => Trusted(z) /\ Len(z.envelope) <= MaxBatch
    PROVE  Fine(z, q, n)
<1>0. \A i \in Items : q[i].at = "none" /\ n[i] = 0
  BY Zenon DEF Fine, NothingYet
<1>1. Shape(z, q, n)
  BY Zenon DEF Fine, Shape
<1>2. NothingYet(z, q, n)
  <2>1. z.at \in Before => z.replies = <<>>
    BY DEF Before
  <2> QED
    BY <1>0, <2>1, Zenon DEF NothingYet
<1>3. InOrder(z, q, n)
  <2>1. z.at \in Working => z.at = "item" /\ z.replies = <<>>
    BY DEF Before, Working
  <2>2. Cardinality(Answers(z.envelope, 1)) = 0
    BY NoAnswers
  <2>3. Len(<<>>) = 0
    OBVIOUS
  <2>4. z.next <= Len(z.envelope) + 1
    BY LenProperties DEF ConnRecs, Envelopes
  <2> QED
    BY <1>0, <2>1, <2>2, <2>3, <2>4, Zenon DEF InOrder
<1>4. Admits(z, q, n)
  <2>1. z.at \in Working \cup {"envelope"} => z.at \in {"item", "envelope"}
    BY DEF Before, Working
  <2>2. z.at \in Working \cup {"envelope"} => Trusted(z)
    BY <2>1, Zenon
  <2>3. ASSUME NEW i \in Items
        PROVE  /\ q[i].at \notin {"arrived", "reading", "running", "ok"} /\ q[i].at = "none"
               /\ n[i] # 1
    BY <1>0
  <2> QED
    BY <2>2, <2>3, Zenon DEF Admits
<1>5. Told(z, q, n)
  <2>1. CASE z.replies = <<>>
    BY <2>1 DEF Told
  <2>2. CASE z.replies = <<<<0, "error">>>>
    <3>1. \A k \in 1..Len(z.replies) : z.replies[k] = <<0, "error">>
      BY <2>2
    <3>2. <<0, "error">>[1] = 0
      OBVIOUS
    <3> QED
      BY <3>1, <3>2, Zenon DEF Told, TrueOf
  <2> QED
    BY <2>1, <2>2
<1> QED
  BY <1>1, <1>2, <1>3, <1>4, <1>5, Zenon DEF Fine

LEMMA FirstRecord ==
    /\ Server!NoConn \in ConnRecs /\ Server!NoConn.at = "idle" /\ Server!NoConn.next = 1 /\
           Server!NoConn.replies = <<>>
    /\ Server!NoConn.envelope = <<>> /\ Server!NoConn.via = "http" /\
           Server!NoConn.named = NoDesktop
    /\ Server!NoConn.request = "none" /\ Server!NoConn.status = 0
<1>1. <<>> \in Envelopes /\ <<>> \in Replies
  BY EmptySeq DEF Envelopes, Replies
<1> QED
  BY <1>1 DEF Server!NoConn, ConnRecs, Before, Working

LEMMA FirstIsFine ==
    Fine(Server!NoConn, [i \in 1..MaxBatch |-> Server!NoIpc], [i \in 1..MaxBatch |-> 0])
<1> DEFINE q == [i \in 1..MaxBatch |-> Server!NoIpc]
           n == [i \in 1..MaxBatch |-> 0]
<1>1. /\ q \in [Items -> Calls] /\ n \in [Items -> {0, 1}]
      /\ \A i \in Items : q[i].at = "none" /\ n[i] = 0
  BY DEF Items, Calls, Server!NoIpc
<1> HIDE DEF q, n
<1>2. Server!NoConn.at \in Before /\ Server!NoConn.at \notin Working /\
       Server!NoConn.at # "envelope"
  BY FirstRecord DEF Before, Working
<1>3. Shape(Server!NoConn, q, n) /\ NothingYet(Server!NoConn, q, n) /\ InOrder(Server!NoConn, q, n)
  BY <1>1, <1>2, FirstRecord, Zenon DEF Shape, NothingYet, InOrder
<1>4. Admits(Server!NoConn, q, n)
  <2>1. ASSUME NEW i \in Items
        PROVE  /\ q[i].at \notin {"arrived", "reading", "running", "ok"} /\ q[i].at = "none"
               /\ n[i] # 1
    BY <1>1
  <2> QED
    BY <1>2, <2>1 DEF Admits
<1>5. Told(Server!NoConn, q, n)
  BY FirstRecord DEF Told
<1>6. Fine(Server!NoConn, q, n)
  BY <1>3, <1>4, <1>5, Zenon DEF Fine
<1> QED
  BY <1>6 DEF q, n

(* Where a call can be, and the types of what it is made of. *)
LEMMA CallPlace ==
    ASSUME NEW r, NEW q, NEW n, Fine(r, q, n), NEW i \in Items, q[i].at # "none" \/ n[i] = 1
    PROVE  /\ Trusted(r) /\ r.at \notin Before
           /\ r.at \in Working => i < r.next \/ (i = r.next /\ r.at \in {"send", "wait"})
<1>0. n[i] = 1 => n[i] # 0
  OBVIOUS
<1>1. Trusted(r)
  BY Zenon DEF Fine, Admits
<1>2. r.at \notin Before
  BY <1>0, Zenon DEF Fine, NothingYet
<1>3. ASSUME r.at \in Working PROVE i < r.next \/ (i = r.next /\ r.at \in {"send", "wait"})
  <2>1. ~(i > r.next \/ (i = r.next /\ r.at \in {"item", "connect"}))
    BY <1>0, <1>3, Zenon DEF Fine, InOrder
  <2>2. r.next \in Nat /\ i \in Nat
    BY ServerAssumption DEF Fine, Shape, ConnRecs, Items
  <2> QED
    BY <1>3, <2>1, <2>2 DEF Working
<1> QED
  BY <1>1, <1>2, <1>3

LEMMA FineTypes ==
    ASSUME NEW r, NEW q, NEW n, Fine(r, q, n)
    PROVE  /\ r \in ConnRecs /\ q \in [Items -> Calls] /\ n \in [Items -> {0, 1}]
           /\ r.next \in Nat \ {0} /\ r.envelope \in Envelopes /\ Len(r.envelope) \in Nat
           /\ r.status \in Nat
           /\ r.at \in Working =>
                /\ r.next <= Len(r.envelope) + 1 /\ Len(r.envelope) <= MaxBatch
                /\ r.at # "item" => r.next <= Len(r.envelope) /\
                       r.envelope[r.next].is \in {"read", "write"}
                /\ r.next <= Len(r.envelope) => r.next \in Items
<1>1. r \in ConnRecs /\ q \in [Items -> Calls] /\ n \in [Items -> {0, 1}]
  BY Zenon DEF Fine, Shape
<1>2. r.next \in Nat \ {0} /\ r.envelope \in Envelopes /\ Len(r.envelope) \in Nat /\
       r.status \in Nat
  BY <1>1, LenProperties DEF ConnRecs, Envelopes
<1>3. r.at \in Working =>
        /\ r.next <= Len(r.envelope) + 1 /\ Len(r.envelope) <= MaxBatch
        /\ r.at # "item" => r.next <= Len(r.envelope) /\ r.envelope[r.next].is \in {"read", "write"}
  BY Zenon DEF Fine, InOrder
<1>4. r.at \in Working /\ r.next <= Len(r.envelope) => r.next \in Items
  BY <1>2, <1>3, ServerAssumption DEF Items
<1> QED
  BY <1>1, <1>2, <1>3, <1>4, Zenon

LEMMA ToPlaceOnly ==
    ASSUME NEW r, NEW q, NEW n, Fine(r, q, n), NEW at \in Before \cup Working \cup {"answer",
           "done"},
           at \in Before => r.at \in Before,
           at \in Working => r.at \in Working,
           at \in Working /\ r.at \in {"send", "wait"} => at \in {"send", "wait"},
           at \in Working \ {"item"} => r.next <= Len(r.envelope) /\
                  r.envelope[r.next].is \in {"read", "write"},
           at = "envelope" => Trusted(r)
    PROVE  Fine([r EXCEPT !.at = at], q, n)
<1>1. r \in ConnRecs /\ r.status \in Nat
  BY FineTypes
<1>2. Fine([r EXCEPT !.at = at, !.status = r.status], q, n)
  BY <1>1, ToPlace, Zenon
<1>3. [r EXCEPT !.at = at, !.status = r.status] = [r EXCEPT !.at = at]
  BY <1>1 DEF ConnRecs
<1> QED
  BY <1>2, <1>3, Zenon

LEMMA CardMoves ==
    ASSUME NEW S, NEW T, IsFiniteSet(S), NEW c, \A d : d # c => (d \in S <=> d \in T)
    PROVE  /\ IsFiniteSet(T) /\ Cardinality(S) \in Nat
           /\ c \in S /\ c \in T => Cardinality(T) = Cardinality(S)
           /\ c \notin S /\ c \notin T => Cardinality(T) = Cardinality(S)
           /\ c \notin S /\ c \in T => Cardinality(T) = Cardinality(S) + 1
           /\ c \in S /\ c \notin T => Cardinality(T) = Cardinality(S) - 1
<1>1. CASE c \in S /\ c \in T
  <2>1. T = S
    BY <1>1
  <2> QED
    BY <2>1, <1>1, FS_CardinalityType
<1>2. CASE c \notin S /\ c \notin T
  <2>1. T = S
    BY <1>2
  <2> QED
    BY <2>1, <1>2, FS_CardinalityType
<1>3. CASE c \notin S /\ c \in T
  <2>1. T = S \cup {c}
    BY <1>3
  <2> QED
    BY <2>1, <1>3, FS_CardinalityType, FS_AddElement
<1>4. CASE c \in S /\ c \notin T
  <2>1. T = S \ {c}
    BY <1>4
  <2> QED
    BY <2>1, <1>4, FS_CardinalityType, FS_RemoveElement
<1> QED
  BY <1>1, <1>2, <1>3, <1>4

----------------------------------------------------------------------------
(* The endpoint file.                                                      *)

DesktopStates ==
    {"off", "listening", "publishing", "serving", "retiring", "retireLocked", "crashed", "stopped"}
Published == {"serving", "retiring", "retireLocked"}

EndpointInv ==
    /\ load \in Loads
    /\ desktop \in [Desktops -> DesktopStates]
    /\ endpoint \in Desktops \cup {NoDesktop} /\ newest \in Desktops \cup {NoDesktop}
    /\ \A d \in Desktops : desktop[d] \in {"publishing", "retireLocked"} <=> fileLock = d
    /\ endpoint \in {newest, NoDesktop}
    /\ newest # NoDesktop =>
        /\ desktop[newest] \in Published \cup {"crashed", "stopped"}
        /\ desktop[newest] \in Published => endpoint = newest
    /\ \A d \in Desktops : desktop[d] \in Published /\ d # newest => endpoint # d
    /\ endpoint # NoDesktop => desktop[endpoint] # "stopped"

LEMMA EndpointInit == Server!ServerInit => EndpointInv
  BY ServerAssumption DEF Server!ServerInit, EndpointInv, DesktopStates, Published

LEMMA EndpointStep == EndpointInv /\ [Server!ServerNext]_serverVars => EndpointInv'
<1> SUFFICES ASSUME EndpointInv, [Server!ServerNext]_serverVars PROVE EndpointInv'
  OBVIOUS
<1> USE ServerAssumption DEF EndpointInv, DesktopStates, Published
<1>1. CASE UNCHANGED <<load, desktop, endpoint, newest, fileLock>>
  BY <1>1
<1>2. ASSUME NEW d \in Desktops, Server!DesktopStep(d), UNCHANGED load PROVE EndpointInv'
  <2>1. CASE Server!StartDesktop(d)
    BY <2>1, <1>2 DEF Server!StartDesktop, Server!Set
  <2>2. CASE Server!PublishLocks(d)
    BY <2>2, <1>2 DEF Server!PublishLocks, Server!Set
  <2>3. CASE Server!Publish(d)
    BY <2>3, <1>2 DEF Server!Publish, Server!Set
  <2>4. CASE Server!Retire(d)
    BY <2>4, <1>2 DEF Server!Retire, Server!Set
  <2>5. CASE Server!RetireLocks(d)
    BY <2>5, <1>2 DEF Server!RetireLocks, Server!Set
  <2>6. CASE Server!RetireRemoves(d)
    BY <2>6, <1>2 DEF Server!RetireRemoves, Server!Set
  <2>7. CASE Server!DesktopCrashes(d)
    BY <2>7, <1>2 DEF Server!DesktopCrashes, Server!Set
  <2>8. CASE Server!RetireFails(d)
    BY <2>8, <2>7 DEF Server!RetireFails
  <2> QED
    BY <1>2, <2>1, <2>2, <2>3, <2>4, <2>5, <2>6, <2>7, <2>8 DEF Server!DesktopStep
<1>3. ASSUME UNCHANGED load, NEW c \in load.conns,
             \/ Server!Accept(c) \/ Server!ReadLine(c) \/ Server!ServerStep(c)
             \/ \E i \in 1..MaxBatch :
                  \/ Server!TakeCall(c, i) \/ Server!RefuseCall(c, i) \/ Server!AdmitCall(c, i)
                  \/ Server!RunRead(c, i) \/ Server!RunWrite(c, i)
      PROVE  UNCHANGED <<load, desktop, endpoint, newest, fileLock>>
  <2>1. CASE Server!Accept(c) \/ Server!ReadLine(c) \/ Server!ServerStep(c)
    BY <2>1, <1>3, Zenon DEF Server!desktops, Server!Accept, Server!ReadLine, Server!ServerStep,
           Server!ReadRequest, Server!OpenStream, Server!EndStream,
         Server!HandleRequest, Server!OpenEnvelope, Server!HandleItem, Server!RejectItem,
                Server!AnswerItem, Server!ReadTool, Server!WriteTool,
         Server!EndEnvelope, Server!Answer, Server!Connect, Server!Send, Server!GiveUp,
                Server!Receive
  <2>2. ASSUME NEW i \in 1..MaxBatch,
               \/ Server!TakeCall(c, i) \/ Server!RefuseCall(c, i) \/ Server!AdmitCall(c, i)
               \/ Server!RunRead(c, i) \/ Server!RunWrite(c, i)
        PROVE  UNCHANGED <<load, desktop, endpoint, newest, fileLock>>
    BY <2>2, <1>3, Zenon DEF Server!desktops, Server!TakeCall, Server!RefuseCall,
           Server!AdmitCall, Server!RunRead, Server!RunWrite
  <2> QED
    BY <1>3, <2>1, <2>2
<1>4. CASE UNCHANGED serverVars
  BY <1>4, <1>1 DEF serverVars
<1>5. load.desktops \subseteq Desktops
  OBVIOUS
<1> QED
  BY <1>1, <1>2, <1>3, <1>4, <1>5, Zenon DEF Server!ServerNext

LEMMA EndpointHolds == EndpointInv => Server!EndpointIsCurrent
  BY DEF EndpointInv, Server!EndpointIsCurrent, Published

IsStreaming(r) == r.at = "stream"
IsOpen(r) == r.via = "http" /\ r.at \notin {"idle", "done"}

RepliesInv ==
    /\ conn \in [Conns -> ConnRecs]
    /\ ipc \in [Conns -> [Items -> Calls]]
    /\ executed \in [Conns -> [Items -> {0, 1}]]
    /\ \A c \in Conns : Fine(conn[c], ipc[c], executed[c])
    /\ streams = Cardinality({c \in Conns : IsStreaming(conn[c])})
    /\ active = Cardinality({c \in Conns : IsOpen(conn[c])})

(* A step of connection c: its new record, its calls and what they ran, *)
(* and the permits it takes or gives back.                              *)
Taken(was, is, from, to) ==
    /\ (was <=> is) => to = from
    /\ ~was /\ is => to = from + 1
    /\ was /\ ~is => to = from - 1

RowStep(c, r, q, n) ==
    /\ conn' = [conn EXCEPT ![c] = r]
    /\ ipc' = [ipc EXCEPT ![c] = q]
    /\ executed' = [executed EXCEPT ![c] = n]
    /\ Fine(r, q, n)
    /\ Taken(IsStreaming(conn[c]), IsStreaming(r), streams, streams')
    /\ Taken(IsOpen(conn[c]), IsOpen(r), active, active')

LEMMA RowKeeps ==
    ASSUME RepliesInv, NEW c \in Conns, NEW r, NEW q, NEW n, RowStep(c, r, q, n)
    PROVE  RepliesInv'
<1>1. r \in ConnRecs /\ q \in [Items -> Calls] /\ n \in [Items -> {0, 1}]
  BY FineTypes, Zenon DEF RowStep
<1>2. /\ conn' \in [Conns -> ConnRecs] /\ ipc' \in [Conns -> [Items -> Calls]]
      /\ executed' \in [Conns -> [Items -> {0, 1}]]
      /\ conn'[c] = r /\ ipc'[c] = q /\ executed'[c] = n
      /\ \A d \in Conns : d # c => conn'[d] = conn[d] /\ ipc'[d] = ipc[d] /\
             executed'[d] = executed[d]
  BY <1>1, Zenon DEF RepliesInv, RowStep
<1>3. \A d \in Conns : Fine(conn'[d], ipc'[d], executed'[d])
  BY <1>2, Zenon DEF RepliesInv, RowStep
<1>4. streams' = Cardinality({d \in Conns : IsStreaming(conn'[d])})
  <2> DEFINE S == {d \in Conns : IsStreaming(conn[d])}
             T == {d \in Conns : IsStreaming(conn'[d])}
  <2>1. IsFiniteSet(S)
    BY ServerAssumption, FS_Subset
  <2>2. \A d : d # c => (d \in S <=> d \in T)
    BY <1>2, Zenon
  <2>3. (c \in S <=> IsStreaming(conn[c])) /\ (c \in T <=> IsStreaming(r))
    BY <1>2, Zenon
  <2>4. streams = Cardinality(S) /\ Taken(IsStreaming(conn[c]), IsStreaming(r), streams, streams')
    BY Zenon DEF RepliesInv, RowStep
  <2> HIDE DEF S, T
  <2>5. streams' = Cardinality(T)
    BY <2>1, <2>2, <2>3, <2>4, CardMoves, Zenon DEF Taken
  <2> QED
    BY <2>5 DEF T
<1>5. active' = Cardinality({d \in Conns : IsOpen(conn'[d])})
  <2> DEFINE S == {d \in Conns : IsOpen(conn[d])}
             T == {d \in Conns : IsOpen(conn'[d])}
  <2>1. IsFiniteSet(S)
    BY ServerAssumption, FS_Subset
  <2>2. \A d : d # c => (d \in S <=> d \in T)
    BY <1>2, Zenon
  <2>3. (c \in S <=> IsOpen(conn[c])) /\ (c \in T <=> IsOpen(r))
    BY <1>2, Zenon
  <2>4. active = Cardinality(S) /\ Taken(IsOpen(conn[c]), IsOpen(r), active, active')
    BY Zenon DEF RepliesInv, RowStep
  <2> HIDE DEF S, T
  <2>5. active' = Cardinality(T)
    BY <2>1, <2>2, <2>3, <2>4, CardMoves, Zenon DEF Taken
  <2> QED
    BY <2>5 DEF T
<1> QED
  BY <1>2, <1>3, <1>4, <1>5, Zenon DEF RepliesInv

(* A step that only changes the record of c, which stays open. *)
LEMMA RecordStep ==
    ASSUME RepliesInv, NEW c \in Conns, NEW r, conn' = [conn EXCEPT ![c] = r],
           UNCHANGED <<ipc, executed>>, Fine(r, ipc[c], executed[c]),
           Taken(IsStreaming(conn[c]), IsStreaming(r), streams, streams'),
           Taken(IsOpen(conn[c]), IsOpen(r), active, active')
    PROVE  RepliesInv'
<1>1. ipc' = [ipc EXCEPT ![c] = ipc[c]] /\ executed' = [executed EXCEPT ![c] = executed[c]]
  BY DEF RepliesInv
<1>2. RowStep(c, r, ipc[c], executed[c])
  BY <1>1, Zenon DEF RowStep
<1> QED
  BY <1>2, RowKeeps, Zenon

(* A step of the desktop for a call of c. *)
LEMMA CallStep ==
    ASSUME RepliesInv, NEW c \in Conns, NEW i \in Items, NEW k \in Calls, NEW x \in {0, 1},
           UNCHANGED <<conn, streams, active>>,
           ipc' = [ipc EXCEPT ![c] = [ipc[c] EXCEPT ![i] = k]],
           executed' = [executed EXCEPT ![c] = [executed[c] EXCEPT ![i] = x]],
           ipc[c][i].at # "none",
           k.at \in {"arrived", "reading", "running"} => x = 0,
           k.at = "ok" /\ conn[c].envelope[i].is = "write" => x = 1,
           k.at = "running" => k.desktop = conn[c].named,
           executed[c][i] = 1 => x = 1
    PROVE  RepliesInv'
<1>1. Fine(conn[c], ipc[c], executed[c])
  BY Zenon DEF RepliesInv
<1>2. /\ Trusted(conn[c]) /\ conn[c].at \notin Before
      /\ conn[c].at \in Working =>
           i < conn[c].next \/ (i = conn[c].next /\ conn[c].at \in {"send", "wait"})
  BY <1>1, CallPlace, Zenon
<1>3. Fine(conn[c], [ipc[c] EXCEPT ![i] = k], [executed[c] EXCEPT ![i] = x])
  BY <1>1, <1>2, CallMoves, Zenon
<1>4. conn' = [conn EXCEPT ![c] = conn[c]]
  BY DEF RepliesInv
<1>5. RowStep(c, conn[c], [ipc[c] EXCEPT ![i] = k], [executed[c] EXCEPT ![i] = x])
  BY <1>3, <1>4, Zenon DEF RowStep, Taken
<1> QED
  BY <1>5, RowKeeps, Zenon

LEMMA RepliesInit == Server!ServerInit => RepliesInv
<1> SUFFICES ASSUME Server!ServerInit PROVE RepliesInv
  OBVIOUS
<1>1. \A c \in Conns : /\ conn[c] = Server!NoConn /\ ipc[c] = [i \in 1..MaxBatch |-> Server!NoIpc]
                       /\ executed[c] = [i \in 1..MaxBatch |-> 0]
  BY Zenon DEF Server!ServerInit
<1>2. \A c \in Conns : Fine(conn[c], ipc[c], executed[c])
  BY <1>1, FirstIsFine, Zenon
<1>3. /\ conn \in [Conns -> ConnRecs] /\ ipc \in [Conns -> [Items -> Calls]]
      /\ executed \in [Conns -> [Items -> {0, 1}]]
  BY <1>1, <1>2, FineTypes, Zenon DEF Server!ServerInit
<1>4. {c \in Conns : IsStreaming(conn[c])} = {} /\ {c \in Conns : IsOpen(conn[c])} = {}
  BY <1>1, FirstRecord DEF IsStreaming, IsOpen
<1> QED
  BY <1>2, <1>3, <1>4, FS_EmptySet DEF RepliesInv, Server!ServerInit

(* McpServer counts with its own instance of FiniteSets. *)
LEMMA SameCount == \A S : Server!Cardinality(S) = Cardinality(S)
  BY Zenon DEF Server!Cardinality, Cardinality

LEMMA RepliesHold == RepliesInv => Server!RepliesAreTrue
<1> SUFFICES ASSUME RepliesInv PROVE Server!RepliesAreTrue
  OBVIOUS
<1>1. /\ streams = Cardinality({c \in Conns : conn[c].at = "stream"})
      /\ active = Cardinality({c \in Conns : conn[c].via = "http" /\ conn[c].at \notin {"idle",
             "done"}})
  BY Zenon DEF RepliesInv, IsStreaming, IsOpen
<1>2. ASSUME NEW c \in Conns, NEW i \in 1..MaxBatch
      PROVE  /\ executed[c][i] <= 1
             /\ ipc[c][i].at = "running" => ipc[c][i].desktop = conn[c].named
             /\ executed[c][i] = 1 => conn[c].via = "stdio" \/ conn[c].request.token
  <2>1. Fine(conn[c], ipc[c], executed[c]) /\ i \in Items
    BY Zenon DEF RepliesInv, Items
  <2>2. executed[c][i] \in {0, 1}
    BY <2>1, FineTypes, Zenon
  <2>3. /\ ipc[c][i].at = "running" => ipc[c][i].desktop = conn[c].named
        /\ executed[c][i] = 1 => conn[c].via = "stdio" \/ conn[c].request.token
    BY <2>1, Zenon DEF Fine, Admits, Trusted
  <2> QED
    BY <2>2, <2>3
<1>3. ASSUME NEW c \in Conns, NEW k \in 1..Len(conn[c].replies), conn[c].replies[k][1] # 0
      PROVE  /\ conn[c].replies[k][2] = "unexecuted" => executed[c][conn[c].replies[k][1]] = 0
             /\ (conn[c].replies[k][2] = "result"
                 /\ conn[c].envelope[conn[c].replies[k][1]].is = "write") =>
                executed[c][conn[c].replies[k][1]] = 1
  BY <1>3, Zenon DEF RepliesInv, Fine, Told, TrueOf
<1>4. ASSUME NEW c \in Conns, conn[c].at \in {"item", "connect", "send", "wait"}
      PROVE  Len(conn[c].replies) = Cardinality(Server!Due(c))
  BY <1>4, Zenon DEF RepliesInv, Fine, InOrder, Working, Server!Due, Answers
<1>5. ASSUME NEW c \in Conns
      PROVE  /\ \A i \in 1..MaxBatch :
                /\ executed[c][i] <= 1
                /\ ipc[c][i].at = "running" => ipc[c][i].desktop = conn[c].named
                /\ executed[c][i] = 1 => conn[c].via = "stdio" \/ conn[c].request.token
             /\ \A k \in 1..Len(conn[c].replies) :
                LET r == conn[c].replies[k]
                IN  r[1] # 0 =>
                    /\ r[2] = "unexecuted" => executed[c][r[1]] = 0
                    /\ (r[2] = "result" /\ conn[c].envelope[r[1]].is = "write") =>
                           executed[c][r[1]] = 1
             /\ conn[c].at \in {"item", "connect", "send", "wait"} =>
                  Len(conn[c].replies) = Cardinality(Server!Due(c))
  <2>1. \A i \in 1..MaxBatch :
          /\ executed[c][i] <= 1
          /\ ipc[c][i].at = "running" => ipc[c][i].desktop = conn[c].named
          /\ executed[c][i] = 1 => conn[c].via = "stdio" \/ conn[c].request.token
    BY <1>2, Zenon
  <2>2. ASSUME NEW k \in 1..Len(conn[c].replies)
        PROVE  LET r == conn[c].replies[k]
               IN  r[1] # 0 =>
                   /\ r[2] = "unexecuted" => executed[c][r[1]] = 0
                   /\ (r[2] = "result" /\ conn[c].envelope[r[1]].is = "write") =>
                          executed[c][r[1]] = 1
    BY <1>3, Zenon
  <2> QED
    BY <2>1, <2>2, <1>4, Zenon
<1> QED
  BY <1>1, <1>5, SameCount, Zenon DEF Server!RepliesAreTrue

SideSame == UNCHANGED <<ipc, executed>>

(* What a step of the HTTP bridge or the stdio server does to its record.  *)
LEMMA PlaceStep ==
    ASSUME RepliesInv, NEW c \in Conns, SideSame,
           NEW at \in Before \cup Working \cup {"answer", "done"}, Server!To(c, at),
           at \in Before => conn[c].at \in Before,
           at \in Working => conn[c].at \in Working,
           at \in Working /\ conn[c].at \in {"send", "wait"} => at \in {"send", "wait"},
           at \in Working \ {"item"} => conn[c].next <= Len(conn[c].envelope)
                                     /\ conn[c].envelope[conn[c].next].is \in {"read", "write"},
           at = "envelope" => Trusted(conn[c]),
           Taken(conn[c].at = "stream", at = "stream", streams, streams'),
           Taken(IsOpen(conn[c]), conn[c].via = "http" /\ at \notin {"idle", "done"}, active,
                  active')
    PROVE  RepliesInv'
<1> DEFINE z == [conn[c] EXCEPT !.at = at]
<1>1. Fine(conn[c], ipc[c], executed[c])
  BY Zenon DEF RepliesInv
<1>2. Fine(z, ipc[c], executed[c])
  BY <1>1, ToPlaceOnly, Zenon
<1>3. z.at = at /\ z.via = conn[c].via
  BY <1>1, FineTypes DEF ConnRecs
<1>4. conn' = [conn EXCEPT ![c] = z]
  BY Zenon DEF Server!To, Server!Put
<1> HIDE DEF z
<1>5. /\ Taken(IsStreaming(conn[c]), IsStreaming(z), streams, streams')
      /\ Taken(IsOpen(conn[c]), IsOpen(z), active, active')
  BY <1>3, Zenon DEF IsStreaming, IsOpen
<1> QED
  BY <1>2, <1>4, <1>5, RecordStep, Zenon DEF SideSame

LEMMA StatusStep ==
    ASSUME RepliesInv, NEW c \in Conns, SideSame, NEW s \in Nat, Server!Status(c, s),
           conn[c].at \notin {"idle", "done"}, UNCHANGED active,
           Taken(conn[c].at = "stream", FALSE, streams, streams')
    PROVE  RepliesInv'
<1> DEFINE z == [conn[c] EXCEPT !.at = "answer", !.status = s]
<1>1. Fine(conn[c], ipc[c], executed[c])
  BY Zenon DEF RepliesInv
<1>2. "answer" \notin Before /\ "answer" \notin Working /\ "answer" # "envelope"
  BY DEF Before, Working
<1>3. Fine(z, ipc[c], executed[c])
  BY <1>1, <1>2, ToPlace, Zenon
<1>4. z.at = "answer" /\ z.via = conn[c].via
  BY <1>1, FineTypes DEF ConnRecs
<1>5. conn' = [conn EXCEPT ![c] = z]
  BY Zenon DEF Server!Status, Server!Put
<1> HIDE DEF z
<1>6. IsOpen(conn[c]) <=> IsOpen(z)
  BY <1>4 DEF IsOpen
<1>7. ~IsStreaming(z)
  BY <1>4 DEF IsStreaming
<1>8. /\ Taken(IsStreaming(conn[c]), IsStreaming(z), streams, streams')
      /\ Taken(IsOpen(conn[c]), IsOpen(z), active, active')
  BY <1>6, <1>7, Zenon DEF IsStreaming, Taken
<1> QED
  BY <1>3, <1>5, <1>8, RecordStep, Zenon DEF SideSame

LEMMA AnsweredStep ==
    ASSUME RepliesInv, NEW c \in Conns, SideSame, UNCHANGED <<active, streams>>, NEW says \in Says,
           Server!Put(c, Server!Answered(c, says)),
           conn[c].at \in Working, conn[c].next <= Len(conn[c].envelope),
           Server!Item(c).is # "malformed",
           says = "unexecuted" => conn[c].at = "connect",
           says = "result" => Server!Item(c).is # "write"
    PROVE  RepliesInv'
<1> DEFINE z == AnsweredAs(conn[c], says)
<1>1. Fine(conn[c], ipc[c], executed[c])
  BY Zenon DEF RepliesInv
<1>2. conn[c].next \in Items
  BY <1>1, FineTypes, Zenon
<1>3. says = "unexecuted" => ipc[c][conn[c].next].at = "none" /\ executed[c][conn[c].next] = 0
  BY <1>1, <1>2 DEF Fine, InOrder
<1>4. Fine(z, ipc[c], executed[c])
  BY <1>1, <1>3, MessageAnswered, Zenon DEF Server!Item
<1>5. z.at = "item" /\ z.via = conn[c].via
  BY <1>1, FineTypes DEF ConnRecs, AnsweredAs
<1>6. conn' = [conn EXCEPT ![c] = z]
  BY Zenon DEF Server!Put, Server!Answered, AnsweredAs, Server!Item
<1> HIDE DEF z
<1>7. /\ IsOpen(conn[c]) <=> IsOpen(z)
      /\ ~IsStreaming(z) /\ ~IsStreaming(conn[c])
  BY <1>5 DEF IsOpen, IsStreaming, Working
<1>8. /\ Taken(IsStreaming(conn[c]), IsStreaming(z), streams, streams')
      /\ Taken(IsOpen(conn[c]), IsOpen(z), active, active')
  BY <1>7, Zenon DEF Taken
<1> QED
  BY <1>4, <1>6, <1>8, RecordStep, Zenon DEF SideSame

LEMMA BeginStep ==
    ASSUME RepliesInv, NEW c \in Conns, SideSame, UNCHANGED streams, NEW z \in ConnRecs,
           Server!Put(c, z),
           conn[c].at \in Before, conn[c].at # "stream", z.at # "stream",
           z.next = 1, z.at \in Before \cup {"item", "answer", "done"},
           z.replies = <<>> \/ (z.replies = <<<<0, "error">>>> /\ z.at = "answer"),
           z.at = "envelope" => Trusted(z),
           z.at = "item" => Trusted(z) /\ Len(z.envelope) <= MaxBatch,
           Taken(IsOpen(conn[c]), IsOpen(z), active, active')
    PROVE  RepliesInv'
<1>1. Fine(conn[c], ipc[c], executed[c])
  BY Zenon DEF RepliesInv
<1>2. Fine(z, ipc[c], executed[c])
  BY <1>1, RequestBegins, Zenon
<1>3. Taken(IsStreaming(conn[c]), IsStreaming(z), streams, streams')
  BY DEF Taken, IsStreaming
<1>4. conn' = [conn EXCEPT ![c] = z]
  BY Zenon DEF Server!Put
<1> QED
  BY <1>2, <1>3, <1>4, RecordStep, Zenon DEF SideSame

LEMMA LoadFacts ==
    ASSUME load \in Loads
    PROVE  /\ load.conns \subseteq Conns /\ load.envelopes \subseteq Envelopes
           /\ load.requests \subseteq UNION {l.requests : l \in Loads}
  BY ServerAssumption

(* Records that end a request, or open its envelope. *)
Finished(r, at, s, more) == [r EXCEPT !.at = at, !.status = s, !.replies = more]
FinishedFrom(r, at, s, more) ==
    LET z == Finished(r, at, s, more)
    IN  /\ z \in ConnRecs /\ z.at = at /\ z.via = r.via /\ z.next = r.next /\ z.replies = more

LEMMA RecordEnds ==
    ASSUME NEW r \in ConnRecs, NEW at \in {"answer", "done"}, NEW s \in Nat, NEW more \in Replies
    PROVE  FinishedFrom(r, at, s, more)
  BY DEF ConnRecs, Finished, FinishedFrom

Kept(r, at, s) == [r EXCEPT !.at = at, !.status = s]
KeptFrom(r, at, s) ==
    LET z == Kept(r, at, s)
    IN  /\ z \in ConnRecs /\ z.at = at /\ z.via = r.via /\ z.next = r.next /\ z.replies = r.replies

LEMMA RecordKept ==
    ASSUME NEW r \in ConnRecs, NEW at \in {"answer", "done"}, NEW s \in Nat
    PROVE  KeptFrom(r, at, s)
  BY DEF ConnRecs, Kept, KeptFrom

\* A connection over the limit is over at once.
LEMMA FirstKept == KeptFrom(Server!NoConn, "done", 503)
<1>1. Server!NoConn \in ConnRecs
  BY FirstRecord
<1>2. "done" \in {"answer", "done"} /\ 503 \in Nat
  OBVIOUS
<1> QED
  BY ONLY <1>1, <1>2, RecordKept

Opened(r, named, s) == [r EXCEPT !.at = "item", !.named = named, !.status = s]
OpenedFrom(r, named, s) ==
    LET z == Opened(r, named, s)
    IN  /\ z \in ConnRecs /\ z.at = "item" /\ z.via = r.via /\ z.request = r.request
        /\ z.next = r.next /\ z.replies = r.replies /\ z.envelope = r.envelope

LEMMA RecordOpens ==
    ASSUME NEW r \in ConnRecs, NEW named \in Desktops \cup {NoDesktop}, NEW s \in Nat
    PROVE  OpenedFrom(r, named, s)
  BY DEF ConnRecs, Working, Opened, OpenedFrom

LEMMA AcceptKeeps ==
    ASSUME RepliesInv, load \in Loads, NEW c \in Conns, Server!Accept(c) PROVE RepliesInv'
<1>0. Server!NoConn \in ConnRecs /\ Server!NoConn.replies = <<>> /\ Server!NoConn.next = 1 /\
       Server!NoConn.via = "http"
  BY FirstRecord
<1>1. /\ conn[c].at = "idle" /\ conn[c].at \in Before /\ conn[c].at # "stream" /\ ~IsOpen(conn[c])
      /\ SideSame /\ UNCHANGED streams
  BY DEF Server!Accept, Before, IsOpen, SideSame
<1>2. PICK e \in load.envelopes, r \in load.requests :
        IF active < MaxConnections
        THEN /\ active' = active + 1
             /\ Server!Put(c, [Server!NoConn EXCEPT !.at = "head", !.request = r, !.envelope = e])
        ELSE /\ Server!Put(c, [Server!NoConn EXCEPT !.at = "done", !.status = 503])
             /\ UNCHANGED active
  BY Zenon DEF Server!Accept
<1>3. e \in Envelopes /\ r \in UNION {l.requests : l \in Loads}
  BY LoadFacts
<1>4. CASE active < MaxConnections
  <2> DEFINE z == [Server!NoConn EXCEPT !.at = "head", !.request = r, !.envelope = e]
  <2>1. /\ z \in ConnRecs /\ z.at = "head" /\ z.via = "http" /\ z.replies = <<>> /\ z.next = 1
    BY <1>0, <1>3 DEF ConnRecs, Before
  <2>2. Server!Put(c, z) /\ active' = active + 1
    BY <1>2, <1>4, Zenon
  <2> HIDE DEF z
  <2>3. z.at \in Before /\ z.at \notin {"stream", "envelope", "item"} /\ IsOpen(z)
    BY <2>1 DEF Before, IsOpen
  <2>4. Taken(IsOpen(conn[c]), IsOpen(z), active, active')
    BY <1>1, <2>2, <2>3, Zenon DEF Taken
  <2> QED
    BY <1>1, <2>1, <2>2, <2>3, <2>4, BeginStep
<1>5. CASE ~(active < MaxConnections)
  <2> DEFINE z == [Server!NoConn EXCEPT !.at = "done", !.status = 503]
  <2>1. /\ z \in ConnRecs /\ z.at = "done" /\ z.via = "http" /\ z.replies = <<>> /\ z.next = 1
    <3>1. KeptFrom(Server!NoConn, "done", 503)
      BY FirstKept, Zenon
    <3>2. z = Kept(Server!NoConn, "done", 503)
      BY Zenon DEF Kept
    <3> HIDE DEF z
    <3>3. z \in ConnRecs /\ z.at = "done" /\ z.via = Server!NoConn.via /\
           z.replies = Server!NoConn.replies
          /\ z.next = Server!NoConn.next
      BY <3>1, <3>2, Zenon DEF KeptFrom
    <3> QED
      BY <1>0, <3>3, Zenon
  <2>2. Server!Put(c, z) /\ active' = active
    BY <1>2, <1>5, Zenon
  <2> HIDE DEF z
  <2>3. z.at \notin {"stream", "envelope", "item"} /\ ~IsOpen(z)
    BY <2>1 DEF IsOpen
  <2>4. Taken(IsOpen(conn[c]), IsOpen(z), active, active')
    BY <1>1, <2>2, <2>3, Zenon DEF Taken
  <2> QED
    BY <1>1, <2>1, <2>2, <2>3, <2>4, BeginStep
<1> QED
  BY <1>4, <1>5

LEMMA ReadLineKeeps ==
    ASSUME RepliesInv, load \in Loads, NEW c \in Conns, Server!ReadLine(c) PROVE RepliesInv'
<1>0. Server!NoConn \in ConnRecs /\ Server!NoConn.replies = <<>> /\ Server!NoConn.next = 1 /\
       Server!NoConn.via = "http"
  BY FirstRecord
<1>1. /\ conn[c].at = "idle" /\ conn[c].at \in Before /\ conn[c].at # "stream" /\ ~IsOpen(conn[c])
      /\ SideSame /\ UNCHANGED <<streams, active>>
  <2>1. conn[c].at = "idle" /\ UNCHANGED <<ipc, executed, streams, active>>
    BY Zenon DEF Server!ReadLine
  <2> QED
    BY <2>1 DEF Before, IsOpen, SideSame
<1>2. CASE \E e \in load.envelopes :
             Server!Put(c, [Server!NoConn EXCEPT !.at = "envelope", !.via = "stdio",
                    !.envelope = e])
  <2>0. PICK e \in load.envelopes :
          Server!Put(c, [Server!NoConn EXCEPT !.at = "envelope", !.via = "stdio", !.envelope = e])
    BY <1>2, Zenon
  <2> DEFINE z == [Server!NoConn EXCEPT !.at = "envelope", !.via = "stdio", !.envelope = e]
  <2>1. e \in Envelopes
    BY LoadFacts
  <2>2. /\ z \in ConnRecs /\ z.at = "envelope" /\ z.via = "stdio" /\ z.replies = <<>> /\ z.next = 1
    BY <1>0, <2>1 DEF ConnRecs, Before
  <2>3. Server!Put(c, z)
    BY <2>0
  <2> HIDE DEF z
  <2>4. z.at \in Before /\ z.at \notin {"stream", "item"} /\ ~IsOpen(z) /\ Trusted(z)
    BY <2>2 DEF Before, IsOpen, Trusted
  <2>5. Taken(IsOpen(conn[c]), IsOpen(z), active, active')
    BY <1>1, <2>4, Zenon DEF Taken
  <2> QED
    BY <1>1, <2>2, <2>3, <2>4, <2>5, BeginStep
<1>3. CASE Server!Put(c, [Server!NoConn EXCEPT !.at = "answer", !.via = "stdio",
       !.replies = <<Server!Reply(0, "error")>>])
  <2> DEFINE z == [Server!NoConn EXCEPT !.at = "answer", !.via = "stdio",
         !.replies = <<Server!Reply(0, "error")>>]
  <2>1. <<<<0, "error">>>> \in Replies
    BY ServerAssumption DEF Replies, Says
  <2>2. /\ z \in ConnRecs /\ z.at = "answer" /\ z.via = "stdio" /\ z.replies = <<<<0, "error">>>>
        /\ z.next = 1
    BY <1>0, <2>1 DEF ConnRecs, Server!Reply
  <2>3. Server!Put(c, z)
    BY <1>3
  <2> HIDE DEF z
  <2>4. z.at \notin {"stream", "envelope", "item"} /\ ~IsOpen(z)
    BY <2>2 DEF IsOpen
  <2>5. Taken(IsOpen(conn[c]), IsOpen(z), active, active')
    BY <1>1, <2>4, Zenon DEF Taken
  <2> QED
    BY <1>1, <2>2, <2>3, <2>4, <2>5, BeginStep
<1> QED
  BY <1>2, <1>3, Zenon DEF Server!ReadLine

LEMMA OpenEnvelopeKeeps ==
    ASSUME RepliesInv, EndpointInv, NEW c \in Conns, Server!OpenEnvelope(c) PROVE RepliesInv'
<1> DEFINE r == conn[c]
           refused == [conn[c] EXCEPT !.at = "answer", !.status = 200,
                  !.replies = <<Server!Reply(0, "error")>>]
           opened == [conn[c] EXCEPT !.at = "item", !.named = endpoint, !.status = 200]
<1>0. Fine(r, ipc[c], executed[c]) /\ r.at = "envelope"
  BY Zenon DEF RepliesInv, Server!OpenEnvelope
<1>1. r \in ConnRecs /\ r.at \in Before /\ r.at # "stream" /\ SideSame /\ UNCHANGED <<streams,
       active>>
  BY <1>0, FineTypes DEF Server!OpenEnvelope, Before, SideSame
<1>2. Trusted(r) /\ r.next = 1 /\ r.replies = <<>>
  BY <1>0, <1>1, Zenon DEF Fine, Admits, NothingYet
<1>3. <<<<0, "error">>>> \in Replies
  BY ServerAssumption DEF Replies, Says
<1>4. endpoint \in Desktops \cup {NoDesktop}
  BY DEF EndpointInv
<1>5. /\ refused \in ConnRecs /\ refused.at = "answer" /\ refused.via = r.via
      /\ refused.next = r.next /\ refused.replies = <<<<0, "error">>>>
  <2>1. FinishedFrom(r, "answer", 200, <<<<0, "error">>>>)
    BY <1>1, <1>3, RecordEnds, "answer" \in {"answer", "done"}, 200 \in Nat, Zenon
  <2>2. refused = Finished(r, "answer", 200, <<<<0, "error">>>>)
    BY Zenon DEF Finished, Server!Reply
  <2> QED
    BY <2>1, <2>2, Zenon DEF FinishedFrom
<1>6. /\ opened \in ConnRecs /\ opened.at = "item" /\ opened.via = r.via /\
       opened.request = r.request
      /\ opened.next = r.next /\ opened.replies = r.replies /\ opened.envelope = r.envelope
  <2>1. OpenedFrom(r, endpoint, 200)
    BY <1>1, <1>4, RecordOpens, 200 \in Nat, Zenon
  <2>2. opened = Opened(r, endpoint, 200)
    BY Zenon DEF Opened
  <2> QED
    BY <2>1, <2>2, Zenon DEF OpenedFrom
<1>7. Server!Put(c, refused) \/ (Server!Put(c, opened) /\ Len(r.envelope) <= MaxBatch)
  BY Zenon DEF Server!OpenEnvelope
<1> HIDE DEF refused, opened, r
<1>8. (IsOpen(r) <=> IsOpen(refused)) /\ (IsOpen(r) <=> IsOpen(opened))
  BY <1>0, <1>5, <1>6 DEF IsOpen
<1>9. Taken(IsOpen(r), IsOpen(refused), active, active') /\ Taken(IsOpen(r), IsOpen(opened),
       active, active')
  BY <1>1, <1>8, Zenon DEF Taken
<1>10. CASE Server!Put(c, refused)
  BY <1>1, <1>2, <1>5, <1>9, <1>10, BeginStep DEF r
<1>11. CASE Server!Put(c, opened) /\ Len(r.envelope) <= MaxBatch
  <2>1. Trusted(opened)
    BY <1>2, <1>6, Zenon DEF Trusted
  <2>2. opened.at # "stream" /\ opened.at # "envelope" /\ opened.next = 1 /\ opened.replies = <<>>
    BY <1>2, <1>6
  <2> QED
    BY <1>1, <1>6, <1>9, <1>11, <2>1, <2>2, BeginStep DEF r
<1> QED
  BY <1>7, <1>10, <1>11

LEMMA ReadRequestKeeps == ASSUME RepliesInv, NEW c \in Conns, Server!ReadRequest(c)
       PROVE RepliesInv'
<1>1. conn[c].at = "head" /\ SideSame /\ UNCHANGED <<streams, active>>
  BY DEF Server!ReadRequest, SideSame
<1>2. Server!Status(c, 408) \/ Server!Status(c, 400) \/ Server!Status(c, 401) \/ Server!To(c,
       "request")
  BY Zenon DEF Server!ReadRequest
<1>3. ASSUME NEW s \in Nat, Server!Status(c, s) PROVE RepliesInv'
  <2>1. conn[c].at \notin {"idle", "done"} /\ ~(conn[c].at = "stream")
    BY <1>1
  <2>2. Taken(conn[c].at = "stream", FALSE, streams, streams')
    BY <1>1, <2>1, Zenon DEF Taken
  <2> QED
    BY <1>1, <1>3, <2>1, <2>2, StatusStep, Zenon
<1>4. CASE Server!To(c, "request")
  <2>1. "request" \in Before /\ "request" \notin Working /\ conn[c].at \in Before
    BY <1>1 DEF Before, Working
  <2>2. Taken(conn[c].at = "stream", "request" = "stream", streams, streams')
    BY <1>1 DEF Taken
  <2>3. Taken(IsOpen(conn[c]), conn[c].via = "http" /\ "request" \notin {"idle", "done"}, active,
         active')
    BY <1>1 DEF Taken, IsOpen
  <2> QED
    BY <1>1, <1>4, <2>1, <2>2, <2>3, PlaceStep, "request" # "envelope"
<1> QED
  BY <1>2, <1>3, <1>4

LEMMA OpenStreamKeeps == ASSUME RepliesInv, NEW c \in Conns, Server!OpenStream(c) PROVE RepliesInv'
<1>1. conn[c].at = "request" /\ SideSame /\ UNCHANGED active
  BY DEF Server!OpenStream, SideSame
<1>2. CASE streams' = streams + 1 /\ Server!To(c, "stream")
  <2>1. "stream" \in Before /\ "stream" \notin Working /\ conn[c].at \in Before
    BY <1>1 DEF Before, Working
  <2>2. Taken(conn[c].at = "stream", "stream" = "stream", streams, streams')
    BY <1>1, <1>2 DEF Taken
  <2>3. Taken(IsOpen(conn[c]), conn[c].via = "http" /\ "stream" \notin {"idle", "done"}, active,
         active')
    BY <1>1 DEF Taken, IsOpen
  <2> QED
    BY <1>1, <1>2, <2>1, <2>2, <2>3, PlaceStep, "stream" # "envelope"
<1>3. CASE UNCHANGED streams /\ Server!Status(c, 503)
  <2>1. conn[c].at \notin {"idle", "done"} /\ ~(conn[c].at = "stream")
    BY <1>1
  <2>2. Taken(conn[c].at = "stream", FALSE, streams, streams')
    BY <1>3, <2>1, Zenon DEF Taken
  <2> QED
    BY <1>1, <1>3, <2>1, <2>2, StatusStep, 503 \in Nat, Zenon
<1> QED
  BY <1>2, <1>3, Zenon DEF Server!OpenStream

LEMMA StatusType == ASSUME NEW r PROVE Server!HttpStatus(r) \in Nat
  BY DEF Server!HttpStatus

LEMMA EndStreamKeeps == ASSUME RepliesInv, NEW c \in Conns, Server!EndStream(c) PROVE RepliesInv'
<1>1. /\ conn[c].at = "stream" /\ conn[c].at \notin {"idle", "done"} /\ SideSame /\ UNCHANGED active
      /\ streams' = streams - 1 /\ Server!Status(c, Server!HttpStatus(conn[c].request))
  BY DEF Server!EndStream, SideSame
<1>2. Taken(conn[c].at = "stream", FALSE, streams, streams')
  BY <1>1, Zenon DEF Taken
<1> QED
  BY <1>1, <1>2, StatusType, StatusStep, Zenon

LEMMA HandleRequestKeeps == ASSUME RepliesInv, NEW c \in Conns, Server!HandleRequest(c)
       PROVE RepliesInv'
<1> DEFINE status == Server!HttpStatus(conn[c].request)
<1>1. conn[c].at = "request" /\ ~Server!IsStream(conn[c].request) /\ SideSame /\
       UNCHANGED <<active, streams>>
  BY DEF Server!HandleRequest, SideSame
<1>2. CASE status = 200 /\ Server!To(c, "envelope")
  <2>0. conn[c].request.token
    BY <1>1, <1>2 DEF Server!HttpStatus
  <2>1. "envelope" \in Before /\ "envelope" \notin Working /\ conn[c].at \in Before
    BY <1>1 DEF Before, Working
  <2>2. Taken(conn[c].at = "stream", "envelope" = "stream", streams, streams')
    BY <1>1 DEF Taken
  <2>3. Taken(IsOpen(conn[c]), conn[c].via = "http" /\ "envelope" \notin {"idle", "done"}, active,
         active')
    BY <1>1 DEF Taken, IsOpen
  <2>4. Trusted(conn[c])
    BY <2>0 DEF Trusted
  <2> QED
    BY <1>1, <1>2, <2>1, <2>2, <2>3, <2>4, PlaceStep
<1>3. CASE Server!Status(c, status)
  <2>1. conn[c].at \notin {"idle", "done"} /\ ~(conn[c].at = "stream")
    BY <1>1
  <2>2. Taken(conn[c].at = "stream", FALSE, streams, streams')
    BY <1>1, <2>1, Zenon DEF Taken
  <2> QED
    BY <1>1, <1>3, <2>1, <2>2, StatusType, StatusStep, Zenon
<1> QED
  BY <1>2, <1>3, Zenon DEF Server!HandleRequest

LEMMA RejectItemKeeps == ASSUME RepliesInv, NEW c \in Conns, Server!RejectItem(c) PROVE RepliesInv'
<1> DEFINE r == conn[c]
           m == IF Server!Item(c).id THEN r.next ELSE 0
           z == [r EXCEPT !.next = @ + 1, !.replies = Append(@, Server!Reply(m, "error"))]
<1>1. /\ r.at = "item" /\ r.next <= Len(r.envelope) /\ r.envelope[r.next].is = "malformed"
      /\ SideSame /\ UNCHANGED <<active, streams>>
  BY Zenon DEF Server!RejectItem, Server!At, Server!Item, SideSame
<1>2. Fine(r, ipc[c], executed[c])
  BY Zenon DEF RepliesInv
<1>3. m \in {0, r.next}
  BY Zenon
<1>4. conn' = [conn EXCEPT ![c] = z]
  BY Zenon DEF Server!RejectItem, Server!Put
<1> HIDE DEF m
<1>5. Fine(z, ipc[c], executed[c])
  BY <1>1, <1>2, <1>3, MessageRejected, Zenon
<1>6. r \in ConnRecs
  BY <1>2, FineTypes, Zenon
<1>7. z.at = r.at /\ z.via = r.via
  BY <1>6 DEF ConnRecs
<1> HIDE DEF z
<1>8. (IsOpen(r) <=> IsOpen(z)) /\ (IsStreaming(r) <=> IsStreaming(z))
  BY <1>7, Zenon DEF IsOpen, IsStreaming
<1>9. Taken(IsStreaming(r), IsStreaming(z), streams, streams') /\ Taken(IsOpen(r), IsOpen(z),
       active, active')
  BY <1>1, <1>8, Zenon DEF Taken
<1> QED
  BY <1>1, <1>4, <1>5, <1>9, RecordStep, Zenon DEF SideSame

LEMMA AnswerItemKeeps == ASSUME RepliesInv, NEW c \in Conns, Server!AnswerItem(c) PROVE RepliesInv'
<1>1. /\ conn[c].at = "item" /\ conn[c].next <= Len(conn[c].envelope) /\ Server!Item(c).is = "local"
      /\ SideSame /\ UNCHANGED <<active, streams>>
      /\ Server!Put(c, Server!Answered(c, "result")) \/ Server!Put(c, Server!Answered(c, "error"))
  BY Zenon DEF Server!AnswerItem, Server!At, SideSame
<1>2. conn[c].at \in Working /\ "result" \in Says /\ "error" \in Says
      /\ Server!Item(c).is # "malformed" /\ Server!Item(c).is # "write"
  BY <1>1 DEF Working, Says
<1> QED
  BY <1>1, <1>2, AnsweredStep, "result" # "unexecuted", "error" # "unexecuted", Zenon

LEMMA ToolKeeps == ASSUME RepliesInv, NEW c \in Conns,
       Server!ReadTool(c) \/ Server!WriteTool(c) PROVE RepliesInv'
<1>1. /\ conn[c].at = "item" /\ conn[c].next <= Len(conn[c].envelope)
      /\ Server!Item(c).is \in {"read", "write"}
      /\ SideSame /\ UNCHANGED <<active, streams>>
      /\ Server!Put(c, Server!Answered(c, "error")) \/ Server!To(c, "connect")
  BY Zenon DEF Server!ReadTool, Server!WriteTool, Server!At, SideSame
<1>2. conn[c].at \in Working /\ "error" \in Says /\ Server!Item(c).is # "malformed"
  BY <1>1 DEF Working, Says
<1>3. CASE Server!Put(c, Server!Answered(c, "error"))
  BY <1>1, <1>2, <1>3, AnsweredStep, "error" # "result", "error" # "unexecuted", Zenon
<1>4. CASE Server!To(c, "connect")
  <2>1. "connect" \in Working /\ "connect" \notin Before /\ conn[c].at \notin {"send", "wait"}
    BY <1>1 DEF Before, Working
  <2>2. Taken(conn[c].at = "stream", "connect" = "stream", streams, streams')
    BY <1>1 DEF Taken
  <2>3. Taken(IsOpen(conn[c]), conn[c].via = "http" /\ "connect" \notin {"idle", "done"}, active,
         active')
    BY <1>1 DEF Taken, IsOpen
  <2> QED
    BY <1>1, <1>2, <1>4, <2>1, <2>2, <2>3, PlaceStep, "connect" # "envelope" DEF Server!Item
<1> QED
  BY <1>1, <1>3, <1>4

LEMMA EndEnvelopeKeeps == ASSUME RepliesInv, NEW c \in Conns, Server!EndEnvelope(c)
       PROVE RepliesInv'
<1> DEFINE s == IF conn[c].status = 0 THEN 0 ELSE IF conn[c].replies = <<>> THEN 202 ELSE 200
<1>1. /\ conn[c].at = "item" /\ conn[c].at \notin {"idle", "done"} /\ ~(conn[c].at = "stream")
      /\ SideSame /\ UNCHANGED <<active, streams>>
  BY DEF Server!EndEnvelope, SideSame
<1>2. s \in Nat
  OBVIOUS
<1>3. Server!Put(c, [conn[c] EXCEPT !.at = "answer", !.status = s])
  BY Zenon DEF Server!EndEnvelope
<1> HIDE DEF s
<1>4. Server!Status(c, s)
  BY <1>3, Zenon DEF Server!Status
<1>5. Taken(conn[c].at = "stream", FALSE, streams, streams')
  BY <1>1, Zenon DEF Taken
<1> QED
  BY <1>1, <1>2, <1>4, <1>5, StatusStep, Zenon

LEMMA AnswerKeepsReplies == ASSUME RepliesInv, NEW c \in Conns, Server!Answer(c) PROVE RepliesInv'
<1>1. conn[c].at = "answer" /\ Server!To(c, "done") /\ SideSame /\ UNCHANGED streams
      /\ active' = IF conn[c].via = "http" THEN active - 1 ELSE active
  BY Zenon DEF Server!Answer, SideSame
<1>2. "done" \notin Before /\ "done" \notin Working /\ "done" # "envelope"
  BY DEF Before, Working
<1>3. Taken(conn[c].at = "stream", "done" = "stream", streams, streams')
  BY <1>1 DEF Taken
<1>4. Taken(IsOpen(conn[c]), conn[c].via = "http" /\ "done" \notin {"idle", "done"}, active,
       active')
  BY <1>1 DEF Taken, IsOpen
<1> QED
  BY <1>1, <1>2, <1>3, <1>4, PlaceStep, Zenon

LEMMA GiveUpKeeps == ASSUME RepliesInv, NEW c \in Conns, Server!GiveUp(c) PROVE RepliesInv'
<1>1. /\ conn[c].at = "wait" /\ SideSame /\ UNCHANGED <<active, streams>>
      /\ Server!Put(c, Server!Answered(c, "error")) /\ conn[c].at \in Working /\ "error" \in Says
  BY DEF Server!GiveUp, SideSame, Working, Says
<1>2. conn[c].next <= Len(conn[c].envelope) /\ Server!Item(c).is \in {"read", "write"}
  BY <1>1 DEF RepliesInv, Fine, InOrder, Server!Item
<1>3. Server!Item(c).is # "malformed"
  BY <1>2
<1> QED
  BY <1>1, <1>2, <1>3, AnsweredStep, "error" # "result", "error" # "unexecuted", Zenon

(* A call that is made, written or taken back by its connection. *)
LEMMA OwnCallStep ==
    ASSUME RepliesInv, NEW c \in Conns, NEW z, NEW k \in Calls, UNCHANGED <<executed, streams,
           active>>,
           conn' = [conn EXCEPT ![c] = z],
           ipc' = [ipc EXCEPT ![c] = [ipc[c] EXCEPT ![conn[c].next] = k]],
           conn[c].at \in Working, z.at \in Working, z.via = conn[c].via,
           Fine(z, [ipc[c] EXCEPT ![conn[c].next] = k], executed[c])
    PROVE  RepliesInv'
<1>1. executed' = [executed EXCEPT ![c] = executed[c]]
  BY DEF RepliesInv
<1>2. /\ ~IsStreaming(conn[c]) /\ ~IsStreaming(z) /\ (IsOpen(conn[c]) <=> IsOpen(z))
  BY DEF IsStreaming, IsOpen, Working
<1>3. RowStep(c, z, [ipc[c] EXCEPT ![conn[c].next] = k], executed[c])
  BY <1>1, <1>2, Zenon DEF RowStep, Taken
<1> QED
  BY <1>3, RowKeeps, Zenon

LEMMA ConnectKeeps == ASSUME RepliesInv, NEW c \in Conns, Server!Connect(c) PROVE RepliesInv'
<1> DEFINE r == conn[c]
<1>1. r.at = "connect" /\ r.at \in Working /\ UNCHANGED <<executed, active, streams>>
  BY DEF Server!Connect, Working
<1>2. Fine(r, ipc[c], executed[c])
  BY Zenon DEF RepliesInv
<1>3. r.next <= Len(r.envelope) /\ r.envelope[r.next].is \in {"read", "write"}
  BY <1>1, <1>2 DEF Fine, InOrder
<1>4. r.next \in Items /\ r \in ConnRecs /\ executed[c] \in [Items -> {0, 1}]
  BY <1>1, <1>2, <1>3, FineTypes, Zenon
<1>5. CASE Server!Put(c, Server!Answered(c,
       IF Server!Item(c).is = "read" THEN "snapshot" ELSE "unexecuted")) /\ UNCHANGED ipc
  <2>1. ASSUME NEW says \in {"snapshot", "unexecuted"}, Server!Put(c, Server!Answered(c,
         says)) PROVE RepliesInv'
    <3>1. says \in Says /\ says # "result" /\ Server!Item(c).is # "malformed" /\ SideSame
      BY <1>1, <1>3, <1>5 DEF Says, Server!Item, SideSame
    <3> QED
      BY <1>1, <1>3, <2>1, <3>1, AnsweredStep, Zenon
  <2> QED
    BY <1>5, <2>1, Zenon
<1>6. ASSUME NEW d \in Desktops, Server!To(c, "send"),
             ipc' = [ipc EXCEPT ![c][conn[c].next] = [at |-> "arrived", desktop |-> d,
                    sent |-> FALSE]]
      PROVE  RepliesInv'
  <2> DEFINE k == [at |-> "arrived", desktop |-> d, sent |-> FALSE]
             z == [r EXCEPT !.at = "send"]
  <2>1. k \in Calls /\ k.at = "arrived"
    BY DEF Calls
  <2>2. "send" \in Working /\ "send" \notin Before /\ "send" # "envelope"
    BY DEF Working, Before
  <2>3. Fine(z, ipc[c], executed[c])
    BY <1>1, <1>2, <1>3, <2>2, ToPlaceOnly, "connect" \notin {"send", "wait"}, Zenon
  <2>4. z.at = "send" /\ z.next = r.next /\ z.via = r.via /\ z.request = r.request /\
         z.envelope = r.envelope
    BY <1>4 DEF ConnRecs
  <2>5. executed[c][r.next] = 0 /\ ipc[c][r.next].at = "none"
    BY <1>1, <1>2, <1>4, Zenon DEF Fine, InOrder
  <2>6. conn' = [conn EXCEPT ![c] = z] /\ ipc' = [ipc EXCEPT ![c] = [ipc[c] EXCEPT ![r.next] = k]]
    BY <1>6, Zenon DEF Server!To, Server!Put
  <2>7. Trusted(z)
    BY <2>2, <2>3, <2>4, Zenon DEF Fine, Admits
  <2> HIDE DEF z, k
  <2>8. Fine(z, [ipc[c] EXCEPT ![r.next] = k], [executed[c] EXCEPT ![r.next] = 0])
    <3>1. z.at \notin Before /\ z.at \in {"send", "wait"}
      BY <2>2, <2>4
    <3> QED
      BY <2>1, <2>3, <2>4, <2>5, <2>7, <3>1, <1>4, CallMoves
  <2>9. [executed[c] EXCEPT ![r.next] = 0] = executed[c]
    BY <1>4, <2>5
  <2>10. z.at \in Working
    BY <2>2, <2>4
  <2> QED
    BY <1>1, <2>1, <2>4, <2>6, <2>8, <2>9, <2>10, OwnCallStep, Zenon
<1> QED
  BY <1>5, <1>6, Zenon DEF Server!Connect

LEMMA SendKeeps == ASSUME RepliesInv, NEW c \in Conns, Server!Send(c) PROVE RepliesInv'
<1> DEFINE r == conn[c]
           i == conn[c].next
<1>1. r.at = "send" /\ r.at \in Working /\ UNCHANGED <<executed, active, streams>>
  BY DEF Server!Send, Working
<1>2. Fine(r, ipc[c], executed[c])
  BY Zenon DEF RepliesInv
<1>3. r.next <= Len(r.envelope) /\ r.envelope[r.next].is \in {"read", "write"}
  BY <1>1, <1>2 DEF Fine, InOrder
<1>4. i \in Items /\ r \in ConnRecs /\ executed[c] \in [Items -> {0, 1}] /\
       ipc[c] \in [Items -> Calls]
  BY <1>1, <1>2, <1>3, FineTypes, Zenon
<1>5. CASE Server!Put(c, Server!Answered(c, "error")) /\ UNCHANGED ipc
  <2>1. "error" \in Says /\ Server!Item(c).is # "malformed" /\ SideSame
    BY <1>1, <1>3, <1>5 DEF Says, Server!Item, SideSame
  <2> QED
    BY <1>1, <1>3, <1>5, <2>1, AnsweredStep, "error" # "result", "error" # "unexecuted", Zenon
<1>6. CASE ipc' = [ipc EXCEPT ![c][conn[c].next].sent = TRUE] /\ Server!To(c, "wait")
  <2> DEFINE k == [ipc[c][i] EXCEPT !.sent = TRUE]
             z == [r EXCEPT !.at = "wait"]
  <2>1. /\ k \in Calls /\ k.at = ipc[c][i].at /\ k.desktop = ipc[c][i].desktop
        /\ executed[c][i] \in {0, 1}
    BY <1>4 DEF Calls
  <2>2. "wait" \in Working /\ "wait" \notin Before /\ "wait" # "envelope"
    BY DEF Working, Before
  <2>3. Fine(z, ipc[c], executed[c])
    BY <1>1, <1>2, <1>3, <2>2, ToPlaceOnly, "wait" \in {"send", "wait"}, Zenon
  <2>4. z.at = "wait" /\ z.next = r.next /\ z.via = r.via /\ z.request = r.request
        /\ z.envelope = r.envelope /\ z.named = r.named
    BY <1>4 DEF ConnRecs
  <2>6. conn' = [conn EXCEPT ![c] = z] /\ ipc' = [ipc EXCEPT ![c] = [ipc[c] EXCEPT ![i] = k]]
    BY <1>6, Zenon DEF Server!To, Server!Put
  <2> HIDE DEF z, k
  <2>5. /\ k.at # "none" \/ executed[c][i] = 1 =>
             /\ Trusted(z) /\ z.at \notin Before
             /\ z.at \in Working => i < z.next \/ (i = z.next /\ z.at \in {"send", "wait"})
    BY <1>4, <2>1, <2>3, CallPlace, Zenon
  <2>7. /\ k.at \in {"arrived", "reading", "running"} => executed[c][i] = 0
        /\ k.at = "ok" /\ z.envelope[i].is = "write" => executed[c][i] = 1
        /\ k.at = "running" => k.desktop = z.named
    BY <1>2, <1>4, <2>1, <2>4, Zenon DEF Fine, Admits
  <2>8. Fine(z, [ipc[c] EXCEPT ![i] = k], [executed[c] EXCEPT ![i] = executed[c][i]])
    BY <1>4, <2>1, <2>3, <2>5, <2>7, CallMoves
  <2>9. [executed[c] EXCEPT ![i] = executed[c][i]] = executed[c]
    BY <1>4
  <2>10. z.at \in Working
    BY <2>2, <2>4
  <2> QED
    BY <1>1, <2>1, <2>4, <2>6, <2>8, <2>9, <2>10, OwnCallStep, Zenon
<1> QED
  BY <1>5, <1>6, Zenon DEF Server!Send

LEMMA ReceiveKeeps == ASSUME RepliesInv, NEW c \in Conns, Server!Receive(c) PROVE RepliesInv'
<1> DEFINE r == conn[c]
           i == conn[c].next
           says == IF ipc[c][i].at = "ok" THEN "result" ELSE "error"
           q == [ipc[c] EXCEPT ![i] = Server!NoIpc]
           z == AnsweredAs(r, says)
<1>1. r.at = "wait" /\ r.at \in Working /\ UNCHANGED <<executed, active, streams>>
  BY DEF Server!Receive, Working
<1>2. Fine(r, ipc[c], executed[c])
  BY Zenon DEF RepliesInv
<1>3. r.next <= Len(r.envelope) /\ r.envelope[r.next].is \in {"read", "write"}
  BY <1>1, <1>2 DEF Fine, InOrder
<1>4. i \in Items /\ r \in ConnRecs /\ executed[c] \in [Items -> {0, 1}] /\
       ipc[c] \in [Items -> Calls]
  BY <1>1, <1>2, <1>3, FineTypes, Zenon
<1>5. Server!NoIpc \in Calls /\ Server!NoIpc.at = "none" /\ executed[c][i] \in {0, 1}
  BY <1>4 DEF Calls, Server!NoIpc
<1>6. Fine(r, q, executed[c])
  <2>1. executed[c][i] = 1 =>
             /\ Trusted(r) /\ r.at \notin Before
             /\ r.at \in Working => i < r.next \/ (i = r.next /\ r.at \in {"send", "wait"})
    BY <1>2, <1>4, CallPlace, Zenon
  <2>2. Fine(r, q, [executed[c] EXCEPT ![i] = executed[c][i]])
    BY <1>2, <1>4, <1>5, <2>1, CallMoves
  <2>3. [executed[c] EXCEPT ![i] = executed[c][i]] = executed[c]
    BY <1>4
  <2> QED
    BY <2>2, <2>3, Zenon
<1>7. says \in Says /\ says # "unexecuted" /\ (says = "result" => ipc[c][i].at = "ok")
  BY DEF Says
<1>8. conn' = [conn EXCEPT ![c] = z]
  BY Zenon DEF Server!Receive, Server!Put, Server!Answered, AnsweredAs, Server!Item
<1>9. ipc' = [ipc EXCEPT ![c] = q]
  BY Zenon DEF Server!Receive
<1> HIDE DEF says
<1>10. says = "result" /\ r.envelope[i].is = "write" => executed[c][i] = 1
  BY <1>2, <1>4, <1>7, Zenon DEF Fine, Admits
<1>11. r.envelope[i].is # "malformed"
  BY <1>3
<1> HIDE DEF q
<1>12. Fine(z, q, executed[c])
  BY <1>1, <1>3, <1>6, <1>7, <1>10, <1>11, MessageAnswered, Zenon
<1>13. z.at = "item" /\ z.via = r.via
  BY <1>4 DEF ConnRecs, AnsweredAs
<1> HIDE DEF z
<1>14. z.at \in Working
  BY <1>13 DEF Working
<1> QED
  BY <1>1, <1>5, <1>8, <1>9, <1>12, <1>13, <1>14, OwnCallStep, Zenon DEF q

(* A call that the desktop moves. *)
LEMMA ServeStep ==
    ASSUME RepliesInv, NEW c \in Conns, NEW i \in 1..MaxBatch, ipc[c][i].at # "none",
           NEW at \in {"reading", "running", "ok", "error"}, Server!Serve(c, i, at),
           UNCHANGED <<conn, active, streams>>, NEW x \in {0, 1},
           executed' = [executed EXCEPT ![c][i] = x],
           at \in {"reading", "running"} => x = 0,
           at = "ok" /\ conn[c].envelope[i].is = "write" => x = 1,
           at = "running" => ipc[c][i].desktop = conn[c].named,
           executed[c][i] = 1 => x = 1
    PROVE  RepliesInv'
<1> DEFINE k == [ipc[c][i] EXCEPT !.at = at]
<1>1. ipc[c] \in [Items -> Calls] /\ i \in Items
  BY DEF RepliesInv, Items
<1>2. k \in Calls /\ k.at = at /\ k.desktop = ipc[c][i].desktop
  BY <1>1 DEF Calls
<1>3. /\ ipc' = [ipc EXCEPT ![c] = [ipc[c] EXCEPT ![i] = k]]
      /\ executed' = [executed EXCEPT ![c] = [executed[c] EXCEPT ![i] = x]]
  BY Zenon DEF Server!Serve
<1> HIDE DEF k
<1>4. at # "arrived"
  OBVIOUS
<1>5. k.at \in {"arrived", "reading", "running"} => x = 0
  BY <1>2, <1>4
<1> QED
  BY <1>1, <1>2, <1>3, <1>5, CallStep, Zenon

LEMMA RanSame ==
    ASSUME RepliesInv, NEW c \in Conns, NEW i \in 1..MaxBatch
    PROVE  /\ executed = [executed EXCEPT ![c][i] = executed[c][i]] /\ executed[c][i] \in {0, 1}
           /\ ipc[c][i].at \in {"arrived", "reading", "running"} => executed[c][i] = 0
<1>1. executed[c] \in [Items -> {0, 1}] /\ i \in Items /\ executed \in [Conns -> [Items -> {0, 1}]]
  BY DEF RepliesInv, Items
<1>2. executed[c] = [executed[c] EXCEPT ![i] = executed[c][i]]
  BY <1>1
<1>3. executed = [executed EXCEPT ![c] = executed[c]]
  BY <1>1
<1>4. executed = [executed EXCEPT ![c] = [executed[c] EXCEPT ![i] = executed[c][i]]]
  BY <1>2, <1>3, Zenon
<1>5. executed[c][i] \in {0, 1}
  BY <1>1
<1>6. ipc[c][i].at \in {"arrived", "reading", "running"} => executed[c][i] = 0
  BY <1>1, Zenon DEF RepliesInv, Fine, Admits
<1> QED
  BY <1>4, <1>5, <1>6, Zenon

LEMMA DesktopServes ==
    ASSUME RepliesInv, NEW c \in Conns, NEW i \in 1..MaxBatch,
           \/ Server!TakeCall(c, i) \/ Server!RefuseCall(c, i) \/ Server!AdmitCall(c, i)
           \/ Server!RunRead(c, i) \/ Server!RunWrite(c, i)
    PROVE  RepliesInv'
<1>0. /\ executed = [executed EXCEPT ![c][i] = executed[c][i]] /\ executed[c][i] \in {0, 1}
      /\ ipc[c][i].at \in {"arrived", "reading", "running"} => executed[c][i] = 0
  BY RanSame
<1>1. CASE Server!TakeCall(c, i)
  <2>1. /\ ipc[c][i].at = "arrived" /\ UNCHANGED <<conn, active, streams, executed>>
        /\ Server!Serve(c, i, "reading") \/ Server!Serve(c, i, "error")
    BY <1>1, Zenon DEF Server!TakeCall, Server!Serving
  <2>2. executed[c][i] = 0 /\ executed' = [executed EXCEPT ![c][i] = executed[c][i]] /\
         ipc[c][i].at # "none"
    BY <1>0, <2>1
  <2>3. ASSUME NEW at \in {"reading", "error"}, Server!Serve(c, i, at) PROVE RepliesInv'
    <3>1. at \in {"reading", "running", "ok", "error"} /\ at # "ok" /\ at # "running"
      BY <2>3
    <3> QED
      BY <1>0, <2>1, <2>2, <2>3, <3>1, ServeStep, Zenon
  <2> QED
    BY <2>1, <2>3
<1>2. CASE Server!RefuseCall(c, i)
  <2>1. /\ ipc[c][i].at = "reading" /\ UNCHANGED <<conn, active, streams, executed>>
        /\ Server!Serve(c, i, "error")
    BY <1>2, Zenon DEF Server!RefuseCall, Server!Serving
  <2>2. executed' = [executed EXCEPT ![c][i] = executed[c][i]] /\ ipc[c][i].at # "none"
        /\ "error" \in {"reading", "running", "ok", "error"} /\ "error" \notin {"reading",
               "running"}
        /\ "error" # "ok" /\ "error" # "running"
    BY <1>0, <2>1
  <2> QED
    BY <1>0, <2>1, <2>2, ServeStep, Zenon
<1>3. CASE Server!AdmitCall(c, i)
  <2>1. /\ ipc[c][i].at = "reading" /\ UNCHANGED <<conn, active, streams, executed>>
        /\ Server!Serve(c, i, "running") /\ conn[c].named = ipc[c][i].desktop
    BY <1>3, Zenon DEF Server!AdmitCall, Server!Serving, Server!Served
  <2>2. executed[c][i] = 0 /\ executed' = [executed EXCEPT ![c][i] = executed[c][i]] /\
         ipc[c][i].at # "none"
        /\ "running" \in {"reading", "running", "ok", "error"} /\ "running" # "ok"
    BY <1>0, <2>1
  <2> QED
    BY <1>0, <2>1, <2>2, ServeStep, Zenon
<1>4. CASE Server!RunRead(c, i)
  <2>1. /\ ipc[c][i].at = "running" /\ UNCHANGED <<conn, active, streams, executed>>
        /\ Server!Serve(c, i, "ok") \/ Server!Serve(c, i, "error")
        /\ conn[c].envelope[i].is = "read"
    BY <1>4, Zenon DEF Server!RunRead, Server!Serving
  <2>2. executed' = [executed EXCEPT ![c][i] = executed[c][i]] /\ ipc[c][i].at # "none"
        /\ conn[c].envelope[i].is # "write"
    BY <1>0, <2>1
  <2>3. ASSUME NEW at \in {"ok", "error"}, Server!Serve(c, i, at) PROVE RepliesInv'
    <3>1. at \in {"reading", "running", "ok", "error"} /\ at \notin {"reading", "running"} /\
           at # "running"
      BY <2>3
    <3>2. at \in {"reading", "running"} => executed[c][i] = 0
      BY <3>1
    <3>3. at = "ok" /\ conn[c].envelope[i].is = "write" => executed[c][i] = 1
      BY <2>2
    <3> QED
      BY <1>0, <2>1, <2>2, <2>3, <3>1, <3>2, <3>3, ServeStep, ZenonT(60)
  <2> QED
    BY <2>1, <2>3
<1>5. CASE Server!RunWrite(c, i)
  <2>1. /\ ipc[c][i].at = "running" /\ UNCHANGED <<conn, active, streams>>
        /\ \/ Server!Serve(c, i, "ok") /\ executed' = [executed EXCEPT ![c][i] = executed[c][i] + 1]
           \/ Server!Serve(c, i, "error") /\
                  executed' = [executed EXCEPT ![c][i] = executed[c][i] + 1]
           \/ Server!Serve(c, i, "error") /\ UNCHANGED executed
    BY <1>5, Zenon DEF Server!RunWrite, Server!Serving
  <2>2. executed[c][i] = 0 /\ executed[c][i] + 1 = 1 /\ ipc[c][i].at # "none"
    BY <1>0, <2>1
  <2>3. ASSUME NEW at \in {"ok", "error"}, Server!Serve(c, i, at), NEW x \in {0, 1},
               executed' = [executed EXCEPT ![c][i] = x], at = "ok" => x = 1
        PROVE  RepliesInv'
    <3>1. at \in {"reading", "running", "ok", "error"} /\ at \notin {"reading", "running"} /\
           at # "running"
      BY <2>3
    <3>2. executed[c][i] # 1
      BY <2>2
    <3> QED
      BY <2>1, <2>2, <2>3, <3>1, <3>2, ServeStep, Zenon
  <2>4. CASE Server!Serve(c, i, "ok") /\ executed' = [executed EXCEPT ![c][i] = executed[c][i] + 1]
    BY <2>2, <2>3, <2>4, "ok" \in {"ok", "error"}, 1 \in {0, 1}, Zenon
  <2>5. CASE Server!Serve(c, i, "error") /\
         executed' = [executed EXCEPT ![c][i] = executed[c][i] + 1]
    BY <2>2, <2>3, <2>5, "error" \in {"ok", "error"}, 1 \in {0, 1}, Zenon
  <2>6. CASE Server!Serve(c, i, "error") /\ UNCHANGED executed
    <3>1. executed' = [executed EXCEPT ![c][i] = 0]
      BY <1>0, <2>2, <2>6, Zenon
    <3> QED
      BY <2>3, <2>6, <3>1, "error" \in {"ok", "error"}, "error" # "ok", 0 \in {0, 1}, Zenon
  <2> QED
    BY <2>1, <2>4, <2>5, <2>6
<1> QED
  BY <1>1, <1>2, <1>3, <1>4, <1>5

LEMMA RepliesStep == RepliesInv /\ EndpointInv /\ [Server!ServerNext]_serverVars => RepliesInv'
<1> SUFFICES ASSUME RepliesInv, EndpointInv, [Server!ServerNext]_serverVars PROVE RepliesInv'
  OBVIOUS
<1>0. load \in Loads
  BY DEF EndpointInv
<1>1. CASE UNCHANGED <<conn, ipc, executed, active, streams>>
  BY <1>1 DEF RepliesInv
<1>2. ASSUME NEW c \in Conns, Server!Accept(c) \/ Server!ReadLine(c) \/ Server!ServerStep(c)
       PROVE RepliesInv'
  BY <1>0, <1>2, AcceptKeeps, ReadLineKeeps, ReadRequestKeeps, OpenStreamKeeps, EndStreamKeeps,
     HandleRequestKeeps, OpenEnvelopeKeeps, RejectItemKeeps, AnswerItemKeeps, ToolKeeps,
     EndEnvelopeKeeps, AnswerKeepsReplies, ConnectKeeps, SendKeeps, GiveUpKeeps, ReceiveKeeps, Zenon
     DEF Server!ServerStep, Server!HandleItem
<1>3. ASSUME NEW d, Server!DesktopStep(d) PROVE UNCHANGED <<conn, ipc, executed, active, streams>>
  BY <1>3, Zenon DEF Server!DesktopStep, Server!StartDesktop, Server!PublishLocks, Server!Publish,
         Server!Retire, Server!RetireLocks,
       Server!RetireRemoves, Server!RetireFails, Server!DesktopCrashes
<1>4. CASE UNCHANGED serverVars
  BY <1>4, <1>1 DEF serverVars
<1>5. load.conns \subseteq Conns
  BY <1>0, LoadFacts
<1> QED
  BY <1>1, <1>2, <1>3, <1>4, <1>5, DesktopServes, Zenon DEF Server!ServerNext

----------------------------------------------------------------------------
(* The service as a whole. *)

ServerInv == work = "server" => RepliesInv /\ EndpointInv

LEMMA ServerStart == WorkInit => ServerInv
  BY RepliesInit, EndpointInit, Zenon DEF WorkInit, ServerInv

LEMMA ServerKeeps == ServerInv /\ [WorkNext]_workVars => ServerInv'
<1> SUFFICES ASSUME ServerInv, [WorkNext]_workVars, work' = "server" PROVE RepliesInv' /\
       EndpointInv'
  BY DEF ServerInv
<1>1. CASE work = "server" /\ (Server!ServerNext \/ UNCHANGED serverVars)
  <2>1. [Server!ServerNext]_serverVars
    BY <1>1, Zenon
  <2> QED
    BY <1>1, <2>1, RepliesStep, EndpointStep, Zenon DEF ServerInv
<1>2. CASE UNCHANGED workVars
  BY <1>1, <1>2 DEF workVars, serverVars
<1>3. CASE Controls(Next)
  BY <1>3, Zenon DEF Controls, Serves, ServerInv, serverVars, RepliesInv, EndpointInv
<1> QED
  BY <1>1, <1>2, <1>3, Zenon DEF WorkNext, Serves

(* Every reply of the server is true of what the desktop did: a message is  *)
(* executed at most once, by the desktop whose endpoint was read and for a *)
(* caller with the token; what is reported as not executed never is; and   *)
(* the endpoint file leads to the desktop that published last               *)
(* (dispatch_json_rpc_value, call_ipc_value, publish_ipc_endpoint,         *)
(* retire_ipc_publication_with).                                           *)
THEOREM RepliesStayTrue == WorkSpec => []ServerIsTrue
<1>1. ServerInv => ServerIsTrue
  BY RepliesHold, EndpointHolds, Zenon DEF ServerInv, ServerIsTrue
<1> QED
  BY <1>1, ServerStart, ServerKeeps, PTL DEF WorkSpec
============================================================================
