------------------------- MODULE ControlPlaneProofs --------------------------
(* Proofs about ControlPlane, for any sets of proxies, keys and tokens.     *)
EXTENDS ControlPlaneInv, TLAPS

-----------------------------------------------------------------------------
(* The calls keep their types.                                             *)

(* A call begins with a well-formed request.                               *)
LEMMA SendType ==
    ASSUME TypeOK, NEW t \in Tasks, NEW r \in Requests, Send(t, r)
    PROVE  request' \in [Tasks -> Requests] /\ answer' \in [Tasks -> Answers]
<1>1. Bare("waiting") \in Answers
  BY DEF Bare, Answers, Verdicts
<1>2. request \in [Tasks -> Requests] /\ answer \in [Tasks -> Answers]
  BY DEF TypeOK
<1> QED
  BY <1>1, <1>2 DEF Send

(* A call that ends leaves nothing behind.                                 *)
LEMMA FinishType ==
    ASSUME TypeOK, NEW t \in Tasks, Finish(t)
    PROVE  request' \in [Tasks -> Requests] /\ answer' \in [Tasks -> Answers]
<1>1. Bare("idle") \in Answers /\ NoRequest \in Requests
  BY DEF Bare, Answers, Verdicts, NoRequest, Requests
<1>2. request \in [Tasks -> Requests] /\ answer \in [Tasks -> Answers]
  BY DEF TypeOK
<1> QED
  BY <1>1, <1>2 DEF Finish

(* Hecate's answers are well formed.                                       *)
LEMMA AnswerType ==
    ASSUME TypeOK, NEW t \in Tasks, NEW a \in Answers,
           answer' = [answer EXCEPT ![t] = a]
    PROVE  answer' \in [Tasks -> Answers]
  BY DEF TypeOK

(* An exiting process leaves a well-typed empty memory.                    *)
LEMMA ExitType ==
    ASSUME TypeOK, Exit, UNCHANGED <<disk, operator, hecate, issued>>
    PROVE  TypeOK'
<1>1. Bare("idle") \in Answers /\ NoRequest \in Requests
  BY DEF Bare, Answers, Verdicts, NoRequest, Requests
<1>2. "down" \in BootSteps
  BY DEF BootSteps
<1> QED
  BY <1>1, <1>2 DEF TypeOK, Exit, disk, operator, hecate

-----------------------------------------------------------------------------
(* Every step of the start-up keeps the types.                             *)
LEMMA StartUpType == TypeOK /\ StartUp => TypeOK'
<1> SUFFICES ASSUME TypeOK, StartUp PROVE TypeOK'
  OBVIOUS
<1>1. CASE Start
  BY <1>1 DEF Start, TypeOK, BootSteps, disk, operator, memory, calls, hecate
<1>2. CASE LoadKey
  BY <1>2 DEF LoadKey, TypeOK, BootSteps, disk, operator, calls, hecate
<1>3. CASE GenerateKey
  BY <1>3 DEF GenerateKey, Draw, TypeOK, BootSteps, operator, calls, hecate
<1>4. CASE WriteGeneratedKey
  BY <1>4 DEF WriteGeneratedKey, TypeOK, BootSteps, operator, memory, calls, hecate
<1>5. CASE LoadId
  BY <1>5 DEF LoadId, TypeOK, BootSteps, disk, operator, calls, hecate
<1>6. CASE StartupFails
  BY <1>6, ExitType DEF StartupFails
<1> QED
  BY <1>1, <1>2, <1>3, <1>4, <1>5, <1>6 DEF StartUp

(* Where run_once returns to is a step of the bootstrap task.              *)
LEMMA AfterSyncType ==
    ASSUME TypeOK, NEW t, NEW v
    PROVE  AfterSync(t, v) \in BootSteps
  BY DEF AfterSync, TypeOK, BootSteps

(* A signed request is well formed.                                        *)
LEMMA SignedType ==
    ASSUME TypeOK
    PROVE  [id |-> memId, key |-> memKey, token |-> None] \in Requests
  BY DEF TypeOK, Requests

(* Every step of run_once keeps the types.                                 *)
LEMMA SyncType ==
    ASSUME TypeOK, NEW t \in Tasks, SyncReceive(t)
    PROVE  TypeOK'
<1>1. CASE SyncClears(t)
  <2>1. answer' \in [Tasks -> Answers]
    BY <1>1 DEF SyncClears, TypeOK, Answers
  <2> QED
    BY <1>1, <2>1 DEF SyncClears, TypeOK, disk, operator, hecate
<1>2. CASE SyncApplies(t)
  <2>1. answer[t].tokens \subseteq Tokens
    BY DEF TypeOK, Answers
  <2>2. boot' \in BootSteps
    BY <1>2, AfterSyncType DEF SyncApplies
  <2>3. request' \in [Tasks -> Requests] /\ answer' \in [Tasks -> Answers]
    BY <1>2, FinishType DEF SyncApplies
  <2> QED
    BY <1>2, <2>1, <2>2, <2>3 DEF SyncApplies, TypeOK, disk, operator, hecate
<1>3. CASE SyncForbidden(t)
  <2>2. boot' \in BootSteps
    BY <1>3, AfterSyncType DEF SyncForbidden
  <2>3. request' \in [Tasks -> Requests] /\ answer' \in [Tasks -> Answers]
    BY <1>3, FinishType DEF SyncForbidden
  <2> QED
    BY <1>3, <2>2, <2>3 DEF SyncForbidden, TypeOK, disk, operator, hecate
<1>4. CASE SyncFails(t)
  <2>2. boot' \in BootSteps
    BY <1>4, AfterSyncType DEF SyncFails
  <2>3. request' \in [Tasks -> Requests] /\ answer' \in [Tasks -> Answers]
    BY <1>4, FinishType DEF SyncFails
  <2> QED
    BY <1>4, <2>2, <2>3 DEF SyncFails, TypeOK, disk, operator, memory, hecate
<1> QED
  BY <1>1, <1>2, <1>3, <1>4 DEF SyncReceive

(* Every step of the bootstrap task keeps the types.                       *)
LEMMA BootstrapType == TypeOK /\ Bootstrap => TypeOK'
<1> SUFFICES ASSUME TypeOK, Bootstrap PROVE TypeOK'
  OBVIOUS
<1> USE DEF disk, operator, hecate
<1>0. "boot" \in Tasks
  BY DEF Tasks
<1>1. CASE BeginUnenrolled
  BY <1>1 DEF BeginUnenrolled, TypeOK, BootSteps, memory, calls
<1>2. CASE BeginForced
  BY <1>2 DEF BeginForced, TypeOK, BootSteps, memory, calls
<1>3. CASE BeginProbe
  <2>1. request' \in [Tasks -> Requests] /\ answer' \in [Tasks -> Answers]
    BY <1>0, <1>3, SendType, SignedType DEF BeginProbe
  <2> QED
    BY <1>3, <2>1 DEF BeginProbe, TypeOK, BootSteps, memory
<1>4. CASE SyncReceive("boot")
  BY <1>0, <1>4, SyncType
<1>5. CASE Resync
  <2>1. request' \in [Tasks -> Requests] /\ answer' \in [Tasks -> Answers]
    BY <1>0, <1>5, SendType, SignedType DEF Resync
  <2> QED
    BY <1>5, <2>1 DEF Resync, TypeOK, BootSteps, memory
<1>6. CASE Reenroll
  <2>1. CASE BoundElsewhere
    BY <1>6, <2>1 DEF Reenroll, TypeOK, BootSteps, memory, calls
  <2>2. CASE ~BoundElsewhere
    <3>1. PICK k \in Keys :
            /\ Draw(k)
            /\ Send("boot", [id |-> memId, key |-> k, token |-> env.token])
      BY <1>6, <2>2 DEF Reenroll
    <3>2. [id |-> memId, key |-> k, token |-> env.token] \in Requests
      BY IdentityAssumption DEF TypeOK, Requests
    <3>3. request' \in [Tasks -> Requests] /\ answer' \in [Tasks -> Answers]
      BY <1>0, <3>1, <3>2, SendType
    <3>4. issued' \subseteq Keys
      BY <3>1 DEF Draw, TypeOK
    <3> QED
      BY <1>6, <2>2, <3>3, <3>4 DEF Reenroll, TypeOK, BootSteps, memory
  <2> QED
    BY <2>1, <2>2
<1>7. CASE RotateAccepted
  <2>1. request' \in [Tasks -> Requests] /\ answer' \in [Tasks -> Answers]
    BY <1>0, <1>7, FinishType DEF RotateAccepted, calls, TypeOK
  <2> QED
    BY <1>7, <2>1 DEF RotateAccepted, TypeOK, BootSteps, memory
<1>8. CASE RotateRejected
  <2>1. request' \in [Tasks -> Requests] /\ answer' \in [Tasks -> Answers]
    BY <1>0, <1>8, FinishType DEF RotateRejected
  <2> QED
    BY <1>8, <2>1 DEF RotateRejected, TypeOK, BootSteps, memory
<1>9. CASE OpenKey
  BY <1>9 DEF OpenKey, TypeOK, BootSteps, memory, calls
<1>10. CASE WriteKey
  <2>1. request["boot"].key \in Keys \cup {None}
    BY <1>0 DEF TypeOK, Requests
  <2> QED
    BY <1>10, <2>1 DEF WriteKey, TypeOK, BootSteps, memory, calls
<1>11. CASE WipeIdFile
  BY <1>11 DEF WipeIdFile, TypeOK, BootSteps, memory, calls
<1>12. CASE WipeOpen
  BY <1>12 DEF WipeOpen, TypeOK, BootSteps, memory, calls
<1>13. CASE WipeWrite
  BY <1>13 DEF WipeWrite, Draw, TypeOK, BootSteps, memory, calls
<1>14. CASE WipeKey
  BY <1>14 DEF WipeKey, TypeOK, BootSteps, calls
<1>15. CASE WipeId
  BY <1>15 DEF WipeId, TypeOK, BootSteps, calls
<1>16. CASE WipeGate
  BY <1>16 DEF WipeGate, TypeOK, BootSteps, calls
<1>17. CASE Enroll
  <2>1. [id |-> None, key |-> memKey, token |-> env.token] \in Requests
    BY IdentityAssumption DEF TypeOK, Requests
  <2>2. request' \in [Tasks -> Requests] /\ answer' \in [Tasks -> Answers]
    BY <1>0, <1>17, <2>1, SendType DEF Enroll, calls, TypeOK
  <2> QED
    BY <1>17, <2>2 DEF Enroll, TypeOK, BootSteps, memory
<1>18. CASE EnrollAnswered
  <2>1. request' \in [Tasks -> Requests] /\ answer' \in [Tasks -> Answers]
    BY <1>0, <1>18, FinishType DEF EnrollAnswered, calls, TypeOK
  <2> QED
    BY <1>18, <2>1 DEF EnrollAnswered, TypeOK, BootSteps, memory
<1>19. CASE OpenId
  BY <1>19 DEF OpenId, TypeOK, BootSteps, memory, calls
<1>20. CASE WriteId
  <2>1. answer["boot"].id \in Proxies \cup {None}
    BY <1>0 DEF TypeOK, Answers
  <2> QED
    BY <1>20, <2>1 DEF WriteId, TypeOK, BootSteps, memory, calls
<1>21. CASE ClosePending
  BY <1>21 DEF ClosePending, TypeOK, BootSteps, calls
<1>22. CASE BootWriteFails
  <2>1. request' \in [Tasks -> Requests] /\ answer' \in [Tasks -> Answers]
    BY <1>0, <1>22, FinishType DEF BootWriteFails
  <2> QED
    BY <1>22, <2>1 DEF BootWriteFails, TypeOK, BootSteps, memory
<1>23. CASE SwapKey
  <2>1. request' \in [Tasks -> Requests] /\ answer' \in [Tasks -> Answers]
    BY <1>0, <1>23, FinishType DEF SwapKey
  <2>2. request["boot"].key \in Keys \cup {None}
    BY <1>0 DEF TypeOK, Requests
  <2> QED
    BY <1>23, <2>1, <2>2 DEF SwapKey, TypeOK, BootSteps
<1>24. CASE SwapId
  <2>1. request' \in [Tasks -> Requests] /\ answer' \in [Tasks -> Answers]
    BY <1>0, <1>24, FinishType DEF SwapId
  <2>2. answer["boot"].id \in Proxies \cup {None}
    BY <1>0 DEF TypeOK, Answers
  <2> QED
    BY <1>24, <2>1, <2>2 DEF SwapId, TypeOK, BootSteps
<1> QED
  BY <1>1, <1>2, <1>3, <1>4, <1>5, <1>6, <1>7, <1>8, <1>9, <1>10, <1>11, <1>12,
     <1>13, <1>14, <1>15, <1>16, <1>17, <1>18, <1>19, <1>20, <1>21, <1>22, <1>23, <1>24
  DEF Bootstrap

(* The two loops keep the types.                                           *)
LEMMA LoopsType == TypeOK /\ (SyncLoop \/ HeartbeatLoop) => TypeOK'
<1> SUFFICES ASSUME TypeOK, SyncLoop \/ HeartbeatLoop PROVE TypeOK'
  OBVIOUS
<1>0. "sync" \in Tasks /\ "heartbeat" \in Tasks
  BY DEF Tasks
<1>1. CASE SyncSend
  <2>1. request' \in [Tasks -> Requests] /\ answer' \in [Tasks -> Answers]
    BY <1>0, <1>1, SendType, SignedType DEF SyncSend
  <2> QED
    BY <1>1, <2>1 DEF SyncSend, TypeOK, disk, operator, memory, hecate
<1>2. CASE SyncReceive("sync")
  BY <1>0, <1>2, SyncType
<1>3. CASE HeartbeatSend
  <2>1. request' \in [Tasks -> Requests] /\ answer' \in [Tasks -> Answers]
    BY <1>0, <1>3, SendType, SignedType DEF HeartbeatSend
  <2> QED
    BY <1>3, <2>1 DEF HeartbeatSend, TypeOK, disk, operator, memory, hecate
<1>4. CASE HeartbeatReceive
  <2>1. request' \in [Tasks -> Requests] /\ answer' \in [Tasks -> Answers]
    BY <1>0, <1>4, FinishType DEF HeartbeatReceive
  <2>2. forwarding' \in BOOLEAN
    BY <1>4 DEF HeartbeatReceive
  <2> QED
    BY <1>4, <2>1, <2>2 DEF HeartbeatReceive, TypeOK, disk, operator, hecate
<1> QED
  BY <1>1, <1>2, <1>3, <1>4 DEF SyncLoop, HeartbeatLoop

(* The operator keeps the types.                                           *)
LEMMA OperatorType == TypeOK /\ Operator => TypeOK'
<1> SUFFICES ASSUME TypeOK, Operator PROVE TypeOK'
  OBVIOUS
<1>1. CASE SetEnv
  BY <1>1 DEF SetEnv, TypeOK, disk, memory, calls, hecate
<1>2. CASE ForgetId
  BY <1>2 DEF ForgetId, TypeOK, memory, calls, hecate
<1>3. CASE ForgetOpen
  BY <1>3 DEF ForgetOpen, TypeOK, memory, calls, hecate
<1>4. CASE ForgetWrite
  BY <1>4 DEF ForgetWrite, Draw, TypeOK, memory, calls, hecate
<1>5. CASE ForgetCrash
  BY <1>5 DEF ForgetCrash, TypeOK, disk, memory, calls, hecate
<1>7. CASE ForgetDone
  BY <1>7 DEF ForgetDone, TypeOK, disk, memory, calls, hecate
<1>6. ASSUME NEW p \in Proxies, Approve(p) \/ Revoke(p) \/ Delete(p)
      PROVE  TypeOK'
  <2>1. PICK from \in SUBSET ProxyStates, to \in ProxyStates :
            SetState(p, from, to)
    <3>1. CASE Approve(p)
      <4> {"pending"} \in SUBSET ProxyStates /\ "active" \in ProxyStates
        BY DEF ProxyStates
      <4> QED  BY <3>1 DEF Approve
    <3>2. CASE Revoke(p)
      <4> {"pending", "active"} \in SUBSET ProxyStates /\ "revoked" \in ProxyStates
        BY DEF ProxyStates
      <4> QED  BY <3>2 DEF Revoke
    <3>3. CASE Delete(p)
      <4> ProxyStates \ {"unknown"} \in SUBSET ProxyStates /\ "unknown" \in ProxyStates
        BY DEF ProxyStates
      <4> QED  BY <3>3 DEF Delete
    <3> QED
      BY <1>6, <3>1, <3>2, <3>3
  <2>2. registry' \in [Proxies -> [key : Keys \cup {None}, state : ProxyStates]]
    BY <2>1 DEF SetState, TypeOK
  <2>3. approved' \subseteq Proxies
    BY <2>1 DEF SetState, TypeOK
  <2> QED
    BY <2>1, <2>2, <2>3 DEF SetState, TypeOK, disk, operator, memory, calls
<1> QED
  BY <1>1, <1>2, <1>3, <1>4, <1>5, <1>6, <1>7 DEF Operator, Forgetting

(* Hecate judges, fails, enrols and rejects with well-formed answers.      *)
LEMMA HecateType == TypeOK /\ Hecate => TypeOK'
<1> SUFFICES ASSUME TypeOK, Hecate PROVE TypeOK'
  OBVIOUS
<1> USE DEF disk, operator, memory, hecate
<1>0. "boot" \in Tasks
  BY DEF Tasks
<1>a. \A v \in Verdicts : Bare(v) \in Answers
  BY DEF Bare, Answers
<1>1. ASSUME NEW t \in Tasks, HecateAnswers(t) PROVE TypeOK'
  <2>1. Judgement(request[t]) \in Verdicts
    BY DEF Judgement, Verdicts
  <2>2. SignedAnswer(t) \in Answers
    <3> DEFINE ts == IF Judgement(request[t]) = "ok" THEN Tokens \ used ELSE {}
    <3>1. ts \in SUBSET Tokens
      OBVIOUS
    <3>2. SignedAnswer(t) = [Bare(Judgement(request[t])) EXCEPT !.tokens = ts]
      BY DEF SignedAnswer
    <3> HIDE DEF ts
    <3> QED
      BY <1>a, <2>1, <3>1, <3>2 DEF Answers
  <2>3. answer' \in [Tasks -> Answers]
    BY <1>1, <2>2, AnswerType DEF HecateAnswers
  <2> QED
    BY <1>1, <2>3 DEF HecateAnswers, TypeOK
<1>2. ASSUME NEW t \in Tasks, CallFails(t) PROVE TypeOK'
  <2>1. Bare("failed") \in Answers
    BY <1>a DEF Verdicts
  <2>2. answer' \in [Tasks -> Answers]
    BY <1>2, <2>1, AnswerType DEF CallFails
  <2> QED
    BY <1>2, <2>2 DEF CallFails, TypeOK
<1>3. CASE HecateEnrolls
  <2>1. PICK p \in Enrollable(request["boot"]), s \in {"pending", "active"},
             lost \in BOOLEAN :
          /\ registry' = [registry EXCEPT
                            ![p] = [key |-> request["boot"].key, state |-> s]]
          /\ used' = used \cup {request["boot"].token}
          /\ accepted' = accepted \cup {<<p, request["boot"].key>>}
          /\ approved' = IF s = "active" THEN approved \cup {p} ELSE approved
          /\ answer' = [answer EXCEPT !["boot"] =
                  IF lost THEN Bare("failed")
                  ELSE [Bare("ok") EXCEPT !.id = p, !.active = (s = "active")]]
    BY <1>3 DEF HecateEnrolls
  <2>2. /\ request["boot"].key \in Keys \cup {None}
        /\ request["boot"].token \in Tokens \cup {None}
    BY <1>0 DEF TypeOK, Requests
  <2>3. request["boot"].token \in Tokens
    BY <1>3, <2>2 DEF HecateEnrolls
  <2>4. p \in Proxies
    BY <2>3, IdentityAssumption DEF Enrollable
  <2>5. Bare("failed") \in Answers /\ Bare("ok") \in Answers
    BY <1>a DEF Verdicts
  <2>6. [Bare("ok") EXCEPT !.id = p, !.active = (s = "active")] \in Answers
    BY <2>4, <2>5 DEF Answers
  <2>7. answer' \in [Tasks -> Answers]
    <3> DEFINE a == IF lost THEN Bare("failed")
                    ELSE [Bare("ok") EXCEPT !.id = p, !.active = (s = "active")]
    <3>1. a \in Answers
      BY <2>5, <2>6
    <3>2. answer' = [answer EXCEPT !["boot"] = a]
      BY <2>1
    <3> HIDE DEF a
    <3> QED
      BY <1>0, <3>1, <3>2, AnswerType
  <2>8. registry' \in [Proxies -> [key : Keys \cup {None}, state : ProxyStates]]
    BY <2>1, <2>2, <2>4 DEF TypeOK, ProxyStates
  <2>9. used' \subseteq Tokens /\ approved' \subseteq Proxies
    BY <2>1, <2>3, <2>4 DEF TypeOK
  <2>10. accepted' \subseteq Proxies \X (Keys \cup {None})
    BY <2>1, <2>2, <2>4 DEF TypeOK
  <2> QED
    BY <1>3, <2>7, <2>8, <2>9, <2>10 DEF HecateEnrolls, TypeOK
<1>4. CASE HecateRejects
  <2>1. Bare("rejected") \in Answers
    BY <1>a DEF Verdicts
  <2>2. answer' \in [Tasks -> Answers]
    BY <1>0, <1>4, <2>1, AnswerType DEF HecateRejects
  <2> QED
    BY <1>4, <2>2 DEF HecateRejects, TypeOK
<1> QED
  BY <1>1, <1>2, <1>3, <1>4 DEF Hecate

(* Type correctness, whatever the constants.                               *)
LEMMA TypeStep == TypeOK /\ [Next]_vars => TypeOK'
<1> SUFFICES ASSUME TypeOK, [Next]_vars PROVE TypeOK'
  OBVIOUS
<1>1. CASE UNCHANGED vars
  BY <1>1 DEF vars, TypeOK, disk, operator, memory, calls, hecate
<1>2. CASE Crash
  BY <1>2, ExitType DEF Crash
<1> QED
  BY <1>1, <1>2, StartUpType, BootstrapType, LoopsType, OperatorType, HecateType
  DEF Next

(* Every reachable state of the control plane is well typed: the program   *)
(* never stores an unreadable file's content as an id or a key, and every  *)
(* call carries a request and an answer of its kind (state.rs 71-110).     *)
THEOREM TypeCorrect == Spec => []TypeOK
<1>1. Init => TypeOK
  <2> SUFFICES ASSUME Init PROVE TypeOK
    OBVIOUS
  <2>1. Bare("idle") \in Answers /\ NoRequest \in Requests
    BY DEF Bare, Answers, Verdicts, NoRequest, Requests
  <2> QED
    BY <2>1 DEF Init, TypeOK, BootSteps, ProxyStates
<1> QED
  BY <1>1, TypeStep, PTL DEF Spec
=============================================================================
