---------------------- MODULE ControlPlaneIdentity --------------------------
(* The identity on disk: the proof of DiskPairAccepted from the inductive   *)
(* invariant IdentityInv, for a `forget' that is only run beside a stopped  *)
(* process.                                                                 *)
EXTENDS ControlPlaneProofs

-----------------------------------------------------------------------------
(* A step that touches neither files nor what the bootstrap task holds     *)
(* keeps the relations; Hecate's history only grows.                       *)
LEMMA Frame ==
    ASSUME IdentityInv,
           UNCHANGED <<keyFile, idFile, forget, env, boot, memKey, memId>>,
           request'["boot"] = request["boot"],
           answer'["boot"] = answer["boot"],
           accepted \subseteq accepted'
    PROVE  Relations'
  BY DEF IdentityInv, Relations, DiskPairAccepted, ForgetAlone, KeyBeforeId,
         MemoryFollows, WithoutId, Offer, Answered

(* A process that exits leaves the files as they are.                      *)
LEMMA ExitRelations ==
    ASSUME IdentityInv, Exit, UNCHANGED <<disk, operator, hecate, issued>>
    PROVE  Relations'
<1>1. "boot" \in Tasks
  BY DEF Tasks
<1> QED
  BY <1>1 DEF IdentityInv, Relations, DiskPairAccepted, ForgetAlone, KeyBeforeId,
         MemoryFollows, WithoutId, Offer, Answered, Exit, NoRequest, Bare,
         disk, operator, hecate, Running, BootSteps, Wiping, Enrolling, Persisting, Rotating, Unwritten

(* The start-up loads what is on disk, or creates a key where there is     *)
(* neither key nor id.                                                     *)
LEMMA StartUpRelations == IdentityInv /\ ~LiveForget /\ StartUp => Relations'
<1> SUFFICES ASSUME IdentityInv, ~LiveForget, StartUp PROVE Relations'
  OBVIOUS
<1> USE IdentityAssumption DEF IdentityInv, Relations, TypeOK, DiskPairAccepted,
      ForgetAlone, KeyBeforeId, MemoryFollows, WithoutId, Offer, Answered,
      disk, operator, memory, calls, hecate, Running, BootSteps, Starting,
      Wiping, Enrolling, Persisting, Rotating, Unwritten
<1>1. CASE Start
  BY <1>1 DEF Start
<1>2. CASE LoadKey
  BY <1>2 DEF LoadKey
<1>3. CASE GenerateKey
  BY <1>3 DEF GenerateKey, Draw
<1>4. CASE WriteGeneratedKey
  BY <1>4 DEF WriteGeneratedKey
<1>5. CASE LoadId
  BY <1>5 DEF LoadId
<1>6. CASE StartupFails
  BY <1>6, ExitRelations DEF StartupFails
<1> QED
  BY <1>1, <1>2, <1>3, <1>4, <1>5, <1>6 DEF StartUp

(* run_once in the bootstrap task leaves the identity alone; a 401 leads   *)
(* to a re-enrolment only when there is a token.                           *)
LEMMA BootSyncRelations == IdentityInv /\ SyncReceive("boot") => Relations'
<1> SUFFICES ASSUME IdentityInv, SyncReceive("boot") PROVE Relations'
  OBVIOUS
<1>0. "boot" \in Tasks
  BY DEF Tasks
<1>1. boot \in {"probe", "final"} /\ UNCHANGED <<disk, operator, memKey, memId, hecate>>
  BY DEF SyncReceive, SyncClears, SyncApplies, SyncForbidden, SyncFails, Syncing,
         memory
<1>2. CASE SyncClears("boot")
  BY <1>0, <1>1, <1>2
  DEF SyncClears, IdentityInv, Relations, TypeOK, DiskPairAccepted, ForgetAlone,
      KeyBeforeId, MemoryFollows, WithoutId, Offer, Answered, disk, operator,
      hecate, Running, BootSteps, Starting, Wiping, Enrolling, Persisting, Rotating, Unwritten
<1>3. CASE ~SyncClears("boot")
  <2>1. Finish("boot") /\ boot' \in {"reenroll", "done"}
        /\ (boot' = "reenroll" => boot = "probe" /\ env.token # None)
    BY <1>1, <1>3 DEF SyncReceive, SyncApplies, SyncForbidden, SyncFails, AfterSync
  <2> QED
    BY <1>0, <1>1, <2>1
    DEF Finish, NoRequest, Bare, IdentityInv, Relations, TypeOK, DiskPairAccepted,
        ForgetAlone, KeyBeforeId, MemoryFollows, WithoutId, Offer, Answered, disk,
        operator, hecate, Running, BootSteps, Starting, Wiping, Enrolling, Persisting, Rotating, Unwritten
<1> QED
  BY <1>2, <1>3

(* Every step of the bootstrap task keeps the relations.                   *)
LEMMA BootstrapRelations == IdentityInv /\ ~LiveForget /\ Bootstrap => Relations'
<1> SUFFICES ASSUME IdentityInv, ~LiveForget, Bootstrap PROVE Relations'
  OBVIOUS
<1>0. "boot" \in Tasks
  BY DEF Tasks
<1> USE <1>0, IdentityAssumption DEF IdentityInv, Relations, TypeOK, Requests,
      DiskPairAccepted, ForgetAlone, KeyBeforeId, MemoryFollows, WithoutId, Offer,
      Answered, disk, operator, memory, calls, hecate, Running, BootSteps, Starting,
      Wiping, Enrolling, Persisting, Rotating, Unwritten, NoRequest, Bare
<1>1. CASE BeginUnenrolled
  BY <1>1 DEF BeginUnenrolled
<1>2. CASE BeginForced
  BY <1>2 DEF BeginForced
<1>3. CASE BeginProbe
  BY <1>3 DEF BeginProbe, Send
<1>4. CASE SyncReceive("boot")
  BY <1>4, BootSyncRelations
<1>5. CASE Resync
  BY <1>5 DEF Resync, Send
<1>6. CASE Reenroll
  BY <1>6 DEF Reenroll, Send, Draw
<1>7. CASE RotateAccepted
  <2>1. CASE answer["boot"].id = memId
    BY <1>7, <2>1 DEF RotateAccepted
  <2>2. CASE answer["boot"].id # memId
    BY <1>7, <2>2 DEF RotateAccepted, Finish
  <2> QED
    BY <2>1, <2>2
<1>8. CASE RotateRejected
  BY <1>8 DEF RotateRejected, Finish
<1>9. CASE OpenKey
  BY <1>9 DEF OpenKey
<1>10. CASE WriteKey
  BY <1>10 DEF WriteKey
<1>11. CASE WipeIdFile
  BY <1>11 DEF WipeIdFile
<1>12. CASE WipeOpen
  BY <1>12 DEF WipeOpen
<1>13. CASE WipeWrite
  BY <1>13 DEF WipeWrite, Draw
<1>14. CASE WipeKey
  BY <1>14 DEF WipeKey
<1>15. CASE WipeId
  BY <1>15 DEF WipeId
<1>16. CASE WipeGate
  BY <1>16 DEF WipeGate
<1>17. CASE Enroll
  BY <1>17 DEF Enroll, Send
<1>18. CASE EnrollAnswered
  <2>1. CASE Answered("boot", "ok") /\ boot' = "openId" /\ UNCHANGED calls
    BY <1>18, <2>1 DEF EnrollAnswered
  <2>2. CASE boot' = "done" /\ Finish("boot")
    BY <1>18, <2>2 DEF EnrollAnswered, Finish
  <2> QED
    BY <1>18, <2>1, <2>2 DEF EnrollAnswered
<1>19. CASE OpenId
  BY <1>19 DEF OpenId
<1>20. CASE WriteId
  BY <1>20 DEF WriteId
<1>21. CASE ClosePending
  BY <1>21 DEF ClosePending
<1>22. CASE BootWriteFails
  BY <1>22 DEF BootWriteFails, Finish, Writing
<1>23. CASE SwapKey
  BY <1>23 DEF SwapKey, Finish
<1>24. CASE SwapId
  BY <1>24 DEF SwapId, Finish
<1> QED
  BY <1>1, <1>2, <1>3, <1>4, <1>5, <1>6, <1>7, <1>8, <1>9, <1>10, <1>11, <1>12,
     <1>13, <1>14, <1>15, <1>16, <1>17, <1>18, <1>19, <1>20, <1>21, <1>22, <1>23, <1>24
  DEF Bootstrap

(* The loops hold no file and change neither key nor id.                   *)
LEMMA LoopsRelations ==
    IdentityInv /\ (SyncLoop \/ HeartbeatLoop) => Relations'
<1> SUFFICES ASSUME IdentityInv, SyncLoop \/ HeartbeatLoop PROVE Relations'
  OBVIOUS
<1>0. /\ {"boot", "sync", "heartbeat"} = Tasks
      /\ request \in [Tasks -> Requests] /\ answer \in [Tasks -> Answers]
  BY DEF Tasks, IdentityInv, TypeOK
<1>1. /\ UNCHANGED <<keyFile, idFile, forget, env, memKey, memId, accepted>>
      /\ boot' = boot
  BY DEF SyncLoop, HeartbeatLoop, SyncSend, SyncReceive, SyncClears, SyncApplies,
         SyncForbidden, SyncFails, AfterSync, HeartbeatSend, HeartbeatReceive,
         disk, operator, memory, hecate
<1>2. request'["boot"] = request["boot"] /\ answer'["boot"] = answer["boot"]
  BY <1>0
  DEF SyncLoop, HeartbeatLoop, SyncSend, SyncReceive, SyncClears, SyncApplies,
      SyncForbidden, SyncFails, HeartbeatSend, HeartbeatReceive, Send, Finish
<1> QED
  BY <1>1, <1>2, Frame

(* `forget' and the administrator.                                         *)
LEMMA OperatorRelations == IdentityInv /\ ~LiveForget /\ Operator => Relations'
<1> SUFFICES ASSUME IdentityInv, ~LiveForget, Operator PROVE Relations'
  OBVIOUS
<1>a. "boot" \in Tasks
  BY DEF Tasks
<1>b. ASSUME NEW p \in Proxies, Approve(p) \/ Revoke(p) \/ Delete(p)
      PROVE  Relations'
  BY <1>b, Frame DEF Approve, Revoke, Delete, SetState, disk, operator, memory, calls
<1> USE <1>a, IdentityAssumption DEF IdentityInv, Relations, TypeOK,
      DiskPairAccepted, ForgetAlone, KeyBeforeId, MemoryFollows, WithoutId, Offer,
      Answered, disk, operator, memory, calls, hecate, Running, BootSteps, Starting,
      Wiping, Enrolling, Persisting, Rotating, Unwritten
<1>1. CASE SetEnv
  BY <1>1 DEF SetEnv
<1>2. CASE ForgetId
  BY <1>2 DEF ForgetId
<1>3. CASE ForgetOpen
  BY <1>3 DEF ForgetOpen
<1>4. CASE ForgetWrite
  BY <1>4 DEF ForgetWrite, Draw
<1>5. CASE ForgetCrash
  BY <1>5 DEF ForgetCrash
<1>6. CASE ForgetDone
  BY <1>6 DEF ForgetDone
<1> QED
  BY <1>b, <1>1, <1>2, <1>3, <1>4, <1>5, <1>6 DEF Operator, Forgetting

(* Hecate records a pair before the proxy can hear that it was accepted.   *)
LEMMA HecateRelations == IdentityInv /\ Hecate => Relations'
<1> SUFFICES ASSUME IdentityInv, Hecate PROVE Relations'
  OBVIOUS
<1>0. /\ {"boot", "sync", "heartbeat"} = Tasks
      /\ request \in [Tasks -> Requests] /\ answer \in [Tasks -> Answers]
  BY DEF Tasks, IdentityInv, TypeOK
<1> USE <1>0 DEF IdentityInv, Relations, TypeOK, DiskPairAccepted, ForgetAlone,
      KeyBeforeId, MemoryFollows, WithoutId, Offer, Answered, disk, operator, memory,
      hecate, Running, BootSteps, Starting, Wiping, Enrolling, Persisting, Rotating, Unwritten
<1>1. ASSUME NEW t \in Tasks, HecateAnswers(t) \/ CallFails(t) PROVE Relations'
  <2>1. CASE t = "boot"
    BY <1>1, <2>1 DEF HecateAnswers, CallFails, Bare
  <2>2. CASE t # "boot"
    <3>1. answer'["boot"] = answer["boot"]
      BY <1>1, <2>2 DEF HecateAnswers, CallFails
    <3> QED
      BY <1>1, <3>1, Frame DEF HecateAnswers, CallFails
  <2> QED
    BY <2>1, <2>2
<1>2. CASE HecateEnrolls
  <2>1. PICK p \in Enrollable(request["boot"]), s \in {"pending", "active"},
               lost \in BOOLEAN :
          /\ accepted' = accepted \cup {<<p, request["boot"].key>>}
          /\ answer' = [answer EXCEPT !["boot"] =
                  IF lost THEN Bare("failed")
                  ELSE [Bare("ok") EXCEPT !.id = p, !.active = (s = "active")]]
    BY <1>2 DEF HecateEnrolls
  <2>2. answer'["boot"].verdict = "ok" => answer'["boot"].id = p
    BY <2>1 DEF Bare
  <2>3. answer["boot"].verdict = "waiting"
    BY <1>2 DEF HecateEnrolls
  <2> QED
    BY <1>2, <2>1, <2>2, <2>3 DEF HecateEnrolls
<1>3. CASE HecateRejects
  BY <1>3 DEF HecateRejects, Bare
<1> QED
  BY <1>1, <1>2, <1>3 DEF Hecate

-----------------------------------------------------------------------------
LEMMA IdentityStep ==
    ~LiveForget /\ IdentityInv /\ [Next]_vars => IdentityInv'
<1> SUFFICES ASSUME ~LiveForget, IdentityInv, [Next]_vars PROVE IdentityInv'
  OBVIOUS
<1>1. TypeOK'
  BY TypeStep DEF IdentityInv
<1>2. CASE UNCHANGED vars
  BY <1>1, <1>2, Frame DEF vars, disk, operator, memory, calls, hecate, IdentityInv
<1>3. CASE Crash
  BY <1>1, <1>3, ExitRelations DEF Crash, IdentityInv
<1> QED
  BY <1>1, <1>2, <1>3, StartUpRelations, BootstrapRelations, LoopsRelations,
     OperatorRelations, HecateRelations
  DEF Next, IdentityInv

LEMMA IdentityInvariant == ~LiveForget /\ Spec => []IdentityInv
<1>1. Init => TypeOK
  <2> SUFFICES ASSUME Init PROVE TypeOK
    OBVIOUS
  <2>1. Bare("idle") \in Answers /\ NoRequest \in Requests
    BY DEF Bare, Answers, Verdicts, NoRequest, Requests
  <2> QED
    BY <2>1 DEF Init, TypeOK, BootSteps, ProxyStates
<1>2. Init => Relations
  BY IdentityAssumption
  DEF Init, NoRequest, Bare, Tasks, Relations, DiskPairAccepted, ForgetAlone,
      KeyBeforeId, MemoryFollows, WithoutId, Offer, Answered, Running, BootSteps,
      Starting, Wiping, Enrolling, Persisting, Rotating, Unwritten
<1>3. Init => IdentityInv
  BY <1>1, <1>2 DEF IdentityInv
<1> SUFFICES ASSUME ~LiveForget PROVE Spec => []IdentityInv
  OBVIOUS
<1>4. IdentityInv /\ [Next]_vars => IdentityInv'
  BY IdentityStep
<1> QED
  BY <1>3, <1>4, PTL DEF Spec

(* For any number of crashes, lost replies, rejections, wipes and restarts *)
(* the files never hold a pair that Hecate did not accept, provided that   *)
(* `forget' is run beside a stopped process only.                          *)
THEOREM DiskPairIsAccepted == ~LiveForget /\ Spec => []DiskPairAccepted
<1>1. IdentityInv => DiskPairAccepted
  BY DEF IdentityInv, Relations
<1> QED
  BY <1>1, IdentityInvariant, PTL
=============================================================================
