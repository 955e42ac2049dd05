-------------------- MODULE ControlPlaneCredentials -------------------------
(* Working credentials survive a leftover enrolment token, and a restart    *)
(* loads the pair a process works with: the proofs of                       *)
(* WorkingCredentialsKept and WorkingPairOnDisk when `forget' is only run   *)
(* beside a stopped process.                                                *)
EXTENDS ControlPlaneIdentity

Kept == KeysDrawn /\ ReplacedOnlyIfDead /\ NewKeyOnRecord /\ WorkingPairOnDisk

-----------------------------------------------------------------------------
(* Steps of others.                                                        *)
LEMMA CredentialsFrame ==
    ASSUME CredentialsInv,
           UNCHANGED <<keyFile, idFile, env, boot, memKey, memId, registry>>,
           request'["boot"] = request["boot"],
           answer'["boot"] = answer["boot"],
           issued \subseteq issued'
    PROVE  Kept'
  BY DEF CredentialsInv, Kept, KeysDrawn, ReplacedOnlyIfDead, NewKeyOnRecord,
      WorkingPairOnDisk, CredentialsWork, Answered

(* An exit keeps the files.                                                *)
LEMMA ExitKept ==
    ASSUME CredentialsInv, Exit, UNCHANGED <<disk, operator, hecate, issued>>
    PROVE  Kept'
<1>1. "boot" \in Tasks
  BY DEF Tasks
<1> QED
  BY <1>1, IdentityAssumption
  DEF CredentialsInv, Kept, KeysDrawn, ReplacedOnlyIfDead, NewKeyOnRecord,
      WorkingPairOnDisk, CredentialsWork, Answered,
      Exit, NoRequest, Bare, disk, hecate, Replacing, Rotating, Running, Starting

(* Start-up.                                                               *)
LEMMA StartUpKept == CredentialsInv /\ StartUp => Kept'
<1> SUFFICES ASSUME CredentialsInv, StartUp PROVE Kept'
  OBVIOUS
<1>6. CASE StartupFails
  BY <1>6, ExitKept DEF StartupFails
<1> USE IdentityAssumption DEF CredentialsInv, IdentityInv, Relations, TypeOK,
      KeyBeforeId, Kept, KeysDrawn, ReplacedOnlyIfDead, NewKeyOnRecord,
      WorkingPairOnDisk, CredentialsWork, Answered,
      disk, operator, memory, calls, hecate, Replacing, Rotating, Running, BootSteps,
      Starting
<1>1. CASE Start
  BY <1>1 DEF Start
<1>2. CASE LoadKey
  BY <1>2 DEF LoadKey
<1>3. CASE GenerateKey
  BY <1>3 DEF GenerateKey, Draw
<1>4. CASE WriteGeneratedKey
  BY <1>4 DEF WriteGeneratedKey
<1>5. CASE LoadId
  BY <1>5 DEF LoadId
<1> QED
  BY <1>1, <1>2, <1>3, <1>4, <1>5, <1>6 DEF StartUp

(* run_once in the bootstrap task: a re-enrolment follows a 401 only.      *)
LEMMA BootSyncKept == CredentialsInv /\ SyncReceive("boot") => Kept'
<1> SUFFICES ASSUME CredentialsInv, SyncReceive("boot") PROVE Kept'
  OBVIOUS
<1>0. "boot" \in Tasks /\ request \in [Tasks -> Requests]
      /\ answer \in [Tasks -> Answers]
  BY DEF Tasks, CredentialsInv, IdentityInv, TypeOK
<1>1. boot \in {"probe", "final"}
      /\ UNCHANGED <<disk, operator, memKey, memId, hecate, issued>>
  BY DEF SyncReceive, SyncClears, SyncApplies, SyncForbidden, SyncFails, Syncing,
         memory, operator
<1>2. CASE SyncClears("boot")
  BY <1>0, <1>1, <1>2
  DEF SyncClears, CredentialsInv, Kept, KeysDrawn, ReplacedOnlyIfDead,
      NewKeyOnRecord, WorkingPairOnDisk,
      CredentialsWork, Answered, disk, operator, hecate, Replacing, Starting
<1>3. CASE ~SyncClears("boot")
  <2>1. /\ Finish("boot")
        /\ \/ boot' = "done"
           \/ boot = "probe" /\ Answered("boot", "unauthorized") /\ boot' = "reenroll"
    BY <1>1, <1>3 DEF SyncReceive, SyncApplies, SyncForbidden, SyncFails, AfterSync
  <2> QED
    BY <1>0, <1>1, <2>1, IdentityAssumption
    DEF Finish, NoRequest, Bare, CredentialsInv, Kept, KeysDrawn, ReplacedOnlyIfDead,
        NewKeyOnRecord, WorkingPairOnDisk,
        CredentialsWork, Answered, disk, operator, hecate, Replacing, Rotating, Running, BootSteps,
        Starting
<1> QED
  BY <1>2, <1>3

(* The bootstrap task.                                                     *)
LEMMA BootstrapKept == CredentialsInv /\ Bootstrap => Kept'
<1> SUFFICES ASSUME CredentialsInv, Bootstrap PROVE Kept'
  OBVIOUS
<1>0. "boot" \in Tasks
  BY DEF Tasks
<1> USE <1>0, IdentityAssumption DEF CredentialsInv, IdentityInv, Relations, TypeOK,
      Requests, KeyBeforeId, WithoutId, Offer, Kept, KeysDrawn, ReplacedOnlyIfDead,
      NewKeyOnRecord, WorkingPairOnDisk,
      CredentialsWork, Answered, disk, operator, memory, calls, hecate, Replacing,
      NoRequest, Bare, Starting, Running, BootSteps, Enrolling, Wiping, Persisting,
      Rotating, Unwritten, MemoryFollows
<1>1. CASE BeginUnenrolled
  BY <1>1 DEF BeginUnenrolled
<1>2. CASE BeginForced
  <2>1. env.force /\ boot' \in {"done", "reenroll"} /\ request["boot"].token = None
    BY <1>2 DEF BeginForced
  <2> QED
    BY <1>2, <2>1 DEF BeginForced
<1>3. CASE BeginProbe
  BY <1>3 DEF BeginProbe, Send
<1>4. CASE SyncReceive("boot")
  BY <1>4, BootSyncKept
<1>5. CASE Resync
  BY <1>5 DEF Resync, Send
<1>6. CASE Reenroll
  BY <1>6 DEF Reenroll, Send, Draw
<1>7. CASE RotateAccepted
  BY <1>7 DEF RotateAccepted, Finish
<1>8. CASE RotateRejected
  BY <1>8 DEF RotateRejected, Finish
<1>9. CASE OpenKey
  BY <1>9 DEF OpenKey
<1>10. CASE WriteKey
  BY <1>10 DEF WriteKey
<1>11. CASE WipeIdFile
  BY <1>11 DEF WipeIdFile
<1>12. CASE WipeOpen
  BY <1>12 DEF WipeOpen
<1>13. CASE WipeWrite
  BY <1>13 DEF WipeWrite, Draw
<1>14. CASE WipeKey
  BY <1>14 DEF WipeKey
<1>15. CASE WipeId
  BY <1>15 DEF WipeId
<1>16. CASE WipeGate
  BY <1>16 DEF WipeGate
<1>17. CASE Enroll
  BY <1>17 DEF Enroll, Send
<1>18. CASE EnrollAnswered
  BY <1>18 DEF EnrollAnswered, Finish
<1>19. CASE OpenId
  BY <1>19 DEF OpenId
<1>20. CASE WriteId
  BY <1>20 DEF WriteId
<1>21. CASE ClosePending
  BY <1>21 DEF ClosePending
<1>22. CASE BootWriteFails
  BY <1>22 DEF BootWriteFails, Finish, Writing
<1>23. CASE SwapKey
  BY <1>23 DEF SwapKey, Finish
<1>24. CASE SwapId
  BY <1>24 DEF SwapId, Finish
<1> QED
  BY <1>1, <1>2, <1>3, <1>4, <1>5, <1>6, <1>7, <1>8, <1>9, <1>10, <1>11, <1>12,
     <1>13, <1>14, <1>15, <1>16, <1>17, <1>18, <1>19, <1>20, <1>21, <1>22, <1>23, <1>24
  DEF Bootstrap

(* The loops neither draw keys nor change what the bootstrap task holds.   *)
LEMMA LoopsKept == CredentialsInv /\ (SyncLoop \/ HeartbeatLoop) => Kept'
<1> SUFFICES ASSUME CredentialsInv, SyncLoop \/ HeartbeatLoop PROVE Kept'
  OBVIOUS
<1>0. /\ {"boot", "sync", "heartbeat"} = Tasks
      /\ request \in [Tasks -> Requests] /\ answer \in [Tasks -> Answers]
  BY DEF Tasks, CredentialsInv, IdentityInv, TypeOK
<1>1. UNCHANGED <<keyFile, idFile, env, boot, memKey, memId, registry, issued>>
  BY DEF SyncLoop, HeartbeatLoop, SyncSend, SyncReceive, SyncClears, SyncApplies,
         SyncForbidden, SyncFails, AfterSync, HeartbeatSend, HeartbeatReceive,
         disk, memory, hecate, operator
<1>2. request'["boot"] = request["boot"] /\ answer'["boot"] = answer["boot"]
  BY <1>0
  DEF SyncLoop, HeartbeatLoop, SyncSend, SyncReceive, SyncClears, SyncApplies,
      SyncForbidden, SyncFails, HeartbeatSend, HeartbeatReceive, Send, Finish
<1> QED
  BY <1>1, <1>2, CredentialsFrame

(* An administrator's decision revives no dead credentials.                *)
LEMMA OperatorKept == CredentialsInv /\ ~LiveForget /\ Operator => Kept'
<1> SUFFICES ASSUME CredentialsInv, ~LiveForget, Operator PROVE Kept'
  OBVIOUS
<1> USE IdentityAssumption DEF CredentialsInv, IdentityInv, Relations, TypeOK,
      ForgetAlone, Kept, KeysDrawn, ReplacedOnlyIfDead, NewKeyOnRecord,
      WorkingPairOnDisk, CredentialsWork, Answered,
      disk, operator, memory, calls, hecate, Replacing, Starting
<1>1. ASSUME NEW p \in Proxies, Approve(p) \/ Revoke(p) \/ Delete(p)
      PROVE  Kept'
  <2>1. /\ UNCHANGED <<keyFile, idFile, env, boot, memKey, memId, request, answer,
                      issued>>
        /\ \A q \in Proxies :
              /\ registry'[q].key = registry[q].key
              /\ registry[q].state = "unknown" => registry'[q].state = "unknown"
    BY <1>1 DEF Approve, Revoke, Delete, SetState
  <2>2. ~CredentialsWork => ~CredentialsWork'
    BY <2>1
  <2>3. WorkingPairOnDisk'
    BY <2>1
  <2>4. NewKeyOnRecord'
    <3>1. NewKeyOnRecord' <=>
            (boot \in Rotating \/ (boot = "rotate" /\ Answered("boot", "ok"))
               => registry'[answer["boot"].id].key = request["boot"].key)
      BY <2>1 DEF NewKeyOnRecord
    <3>2. boot \in Rotating \/ (boot = "rotate" /\ Answered("boot", "ok"))
            => answer["boot"].id \in Proxies
      BY DEF Offer, Persisting
    <3> QED
      BY <2>1, <3>1, <3>2 DEF NewKeyOnRecord
  <2> HIDE DEF WorkingPairOnDisk, NewKeyOnRecord
  <2> QED
    BY <2>1, <2>2, <2>3, <2>4
<1>2. CASE SetEnv
  BY <1>2 DEF SetEnv
<1>3. CASE ForgetId
  BY <1>3 DEF ForgetId
<1>4. CASE ForgetOpen
  BY <1>4 DEF ForgetOpen
<1>5. CASE ForgetWrite
  BY <1>5 DEF ForgetWrite, Draw
<1>6. CASE ForgetCrash
  BY <1>6 DEF ForgetCrash
<1>7. CASE ForgetDone
  BY <1>7 DEF ForgetDone
<1> QED
  BY <1>1, <1>2, <1>3, <1>4, <1>5, <1>6, <1>7 DEF Operator, Forgetting

(* Hecate says 401 only to dead credentials, and an enrolment revives no   *)
(* key that was in use before it.                                          *)
LEMMA HecateKept == CredentialsInv /\ Hecate => Kept'
<1> SUFFICES ASSUME CredentialsInv, Hecate PROVE Kept'
  OBVIOUS
<1>0. /\ {"boot", "sync", "heartbeat"} = Tasks
      /\ request \in [Tasks -> Requests] /\ answer \in [Tasks -> Answers]
  BY DEF Tasks, CredentialsInv, IdentityInv, TypeOK
<1>1. ASSUME NEW t \in Tasks, HecateAnswers(t) \/ CallFails(t) PROVE Kept'
  <2>0. UNCHANGED <<keyFile, idFile, env, boot, memKey, memId, registry, request,
                      issued>>
    BY <1>1 DEF HecateAnswers, CallFails, disk, operator, memory, hecate
  <2>a. request[t].token = None /\ Answered(t, "waiting") /\ t = "boot"
          => boot \notin Rotating \cup {"rotate"}
    BY DEF CredentialsInv, IdentityInv, Relations, Offer, Persisting, Rotating, Answered
  <2>1. CASE t # "boot"
    BY <1>0, <1>1, <2>0, <2>1, CredentialsFrame DEF HecateAnswers, CallFails
  <2>2. CASE t = "boot" /\ HecateAnswers(t)
    <3>1. answer'["boot"].verdict = Judgement(request["boot"])
      BY <1>0, <2>2 DEF HecateAnswers, SignedAnswer, Bare
    <3>2. boot = "probe" /\ Judgement(request["boot"]) = "unauthorized"
            => ~CredentialsWork
      BY DEF Judgement, CredentialsInv, ReplacedOnlyIfDead, CredentialsWork,
             IdentityInv, Relations, MemoryFollows, Unwritten
    <3>3. NewKeyOnRecord'
      BY <2>0, <2>a, <2>2 DEF HecateAnswers, NewKeyOnRecord
    <3> QED
      BY <2>0, <3>1, <3>2, <3>3
      DEF CredentialsInv, Kept, KeysDrawn, ReplacedOnlyIfDead, WorkingPairOnDisk,
          CredentialsWork, Answered
  <2>3. CASE t = "boot" /\ CallFails(t)
    <3>1. answer'["boot"].verdict = "failed"
      BY <1>0, <2>3 DEF CallFails, Bare
    <3>2. NewKeyOnRecord'
      <4>1. boot \notin Rotating
        BY <2>3 DEF CallFails, CredentialsInv, IdentityInv, Relations, Offer,
           Persisting, Answered
      <4> QED
        BY <2>0, <3>1, <4>1 DEF NewKeyOnRecord, Answered
    <3> QED
      BY <2>0, <3>1, <3>2
      DEF CredentialsInv, Kept, KeysDrawn, ReplacedOnlyIfDead, WorkingPairOnDisk,
          CredentialsWork, Answered
  <2> QED
    BY <1>1, <2>1, <2>2, <2>3
<1>2. CASE HecateEnrolls
  <2>0. /\ UNCHANGED <<keyFile, idFile, env, boot, memKey, memId, request, issued>>
        /\ request["boot"].token # None
        /\ Answered("boot", "waiting")
    BY <1>2 DEF HecateEnrolls, disk, operator, memory
  <2>1. PICK p \in Enrollable(request["boot"]), s \in {"pending", "active"},
               lost \in BOOLEAN :
          /\ registry' = [registry EXCEPT
                            ![p] = [key |-> request["boot"].key, state |-> s]]
          /\ answer' = [answer EXCEPT !["boot"] =
                  IF lost THEN Bare("failed")
                  ELSE [Bare("ok") EXCEPT !.id = p, !.active = (s = "active")]]
    BY <1>2 DEF HecateEnrolls
  <2>2. boot \in {"rotate", "enrolling"} /\ request["boot"].key \in Keys
    BY <2>0 DEF CredentialsInv, IdentityInv, Relations, Offer, Answered
  <2>3. answer'["boot"].verdict = "ok" =>
          registry'[answer'["boot"].id].key = request["boot"].key
    <3>1. TokenBound[request["boot"].token] \in Proxies \cup {None}
      BY <1>0, <2>0, IdentityAssumption DEF Requests
    <3>2. p \in Proxies
      BY <2>1, <3>1 DEF Enrollable
    <3>3. answer'["boot"].verdict = "ok" => answer'["boot"].id = p
      BY <1>0, <2>1 DEF Bare
    <3>4. registry'[p].key = request["boot"].key
      BY <2>1, <3>2 DEF CredentialsInv, IdentityInv, TypeOK
    <3> QED
      BY <3>3, <3>4
  <2>4. CASE boot = "rotate"
    <3>1. request["boot"].key \notin {keyFile, memKey}
      BY <2>4 DEF CredentialsInv, KeysDrawn
    <3>2. env.force \/ ~CredentialsWork'
      BY <2>0, <2>1, <2>4, <3>1
      DEF CredentialsInv, ReplacedOnlyIfDead, Replacing, CredentialsWork,
          IdentityInv, TypeOK
    <3>3. WorkingPairOnDisk'
      BY <2>0, <2>4
      DEF CredentialsInv, IdentityInv, Relations, MemoryFollows, Unwritten,
          WorkingPairOnDisk
    <3>4. NewKeyOnRecord'
      BY <2>0, <2>3, <2>4 DEF NewKeyOnRecord, Answered, Rotating
    <3> QED
      BY <2>0, <2>4, <3>1, <3>2, <3>3, <3>4
      DEF CredentialsInv, Kept, KeysDrawn, ReplacedOnlyIfDead
  <2>5. CASE boot = "enrolling"
    <3>1. WorkingPairOnDisk'
      BY <2>0, <2>5, IdentityAssumption
      DEF CredentialsInv, IdentityInv, Relations, MemoryFollows, Enrolling,
          WorkingPairOnDisk
    <3> QED
      BY <2>0, <2>5, <3>1
      DEF CredentialsInv, Kept, KeysDrawn, ReplacedOnlyIfDead, Replacing,
          NewKeyOnRecord, Rotating
  <2> QED
    BY <2>2, <2>4, <2>5
<1>3. CASE HecateRejects
  <2>1. /\ UNCHANGED <<keyFile, idFile, env, boot, memKey, memId, registry, request,
                       issued>>
        /\ answer["boot"].verdict = "waiting" /\ answer'["boot"].verdict = "rejected"
    BY <1>0, <1>3 DEF HecateRejects, Bare, Answered, disk, operator, memory, hecate
  <2>2. boot \notin Rotating
    BY <2>1 DEF CredentialsInv, IdentityInv, Relations, Offer, Persisting, Answered
  <2> QED
    BY <2>1, <2>2
    DEF CredentialsInv, Kept, KeysDrawn, ReplacedOnlyIfDead, NewKeyOnRecord,
        WorkingPairOnDisk, CredentialsWork, Answered
<1> QED
  BY <1>1, <1>2, <1>3 DEF Hecate

-----------------------------------------------------------------------------
(* Keys are drawn before they are used, a bootstrap task replaces or wipes  *)
(* credentials only if it was forced to or knows that they are dead, and    *)
(* memory is never ahead of the disk (sync.rs 107-191).                     *)
LEMMA CredentialsInvariant ==
    ~LiveForget /\ Spec => []CredentialsInv
<1> SUFFICES ASSUME ~LiveForget PROVE Spec => []CredentialsInv
  OBVIOUS
<1>1. Init => Kept
  BY IdentityAssumption
     DEF Init, NoRequest, Bare, Tasks, Kept, KeysDrawn, ReplacedOnlyIfDead,
         NewKeyOnRecord, WorkingPairOnDisk, Answered,
         Replacing, Rotating, Running, Starting, CredentialsWork
<1>2. Spec => []IdentityInv
  BY IdentityInvariant
<1>3. IdentityInv /\ IdentityInv' /\ Kept /\ [Next]_vars => Kept'
  <2> SUFFICES ASSUME CredentialsInv, [Next]_vars PROVE Kept'
    BY DEF CredentialsInv, Kept
  <2>1. CASE UNCHANGED vars
    BY <2>1, CredentialsFrame DEF vars, disk, operator, memory, calls, hecate
  <2>2. CASE Crash
    BY <2>2, ExitKept DEF Crash
  <2> QED
    BY <2>1, <2>2, StartUpKept, BootstrapKept, LoopsKept, OperatorKept, HecateKept
    DEF Next
<1>4. IdentityInv /\ Kept <=> CredentialsInv
  BY DEF CredentialsInv, Kept
<1> QED
  BY <1>1, <1>2, <1>3, <1>4, PTL DEF Spec

(* A step that leaves the registry alone and is not `forget' writes to the *)
(* credential files only where the credentials are already dead.           *)
LEMMA CredentialsStep ==
    ASSUME CredentialsInv, ~LiveForget, [Next]_vars,
           CredentialsWork, ~env.force, registry' = registry, ~Forgetting
    PROVE  CredentialsWork'
<1> SUFFICES UNCHANGED <<keyFile, idFile>>
  BY DEF CredentialsWork
<1>1. /\ keyFile # None /\ idFile \in Proxies
      /\ boot \notin Replacing \cup {"create"} \cup Wiping \cup {"openId", "writeId"}
  <2>1. None \notin Proxies /\ Torn \notin Proxies /\ None \notin Keys
    BY IdentityAssumption
  <2> QED
    BY <2>1
    DEF CredentialsWork, CredentialsInv, IdentityInv, Relations, KeyBeforeId,
        WithoutId, ReplacedOnlyIfDead, Wiping
<1>2. CASE StartUp
  BY <1>1, <1>2
  DEF StartUp, Start, LoadKey, GenerateKey, WriteGeneratedKey, LoadId, StartupFails,
      disk
<1>3. CASE Bootstrap
  <2>1. ~(\/ OpenKey \/ WriteKey \/ WipeIdFile \/ WipeOpen \/ WipeWrite \/ OpenId
          \/ WriteId)
    BY <1>1 DEF OpenKey, WriteKey, WipeIdFile, WipeOpen, WipeWrite, OpenId, WriteId,
       Replacing, Wiping
  <2> QED
    BY <1>3, <2>1
    DEF Bootstrap, BeginUnenrolled, BeginForced, BeginProbe, SyncReceive, SyncClears,
        SyncApplies, SyncForbidden, SyncFails, Resync, Reenroll, RotateAccepted,
        RotateRejected, WipeKey, WipeId, WipeGate, Enroll, EnrollAnswered,
        ClosePending, BootWriteFails, SwapKey, SwapId, disk
<1>4. CASE SyncLoop \/ HeartbeatLoop
  BY <1>4 DEF SyncLoop, HeartbeatLoop, SyncSend, SyncReceive, SyncClears, SyncApplies,
     SyncForbidden, SyncFails, HeartbeatSend, HeartbeatReceive, disk
<1>5. CASE Operator
  BY <1>5 DEF Operator, SetEnv, Forgetting, ForgetDone, ForgetCrash, Approve, Revoke,
      Delete,
     SetState, disk
<1>6. CASE Hecate
  BY <1>6 DEF Hecate, HecateAnswers, CallFails, HecateEnrolls, HecateRejects, disk
<1>7. CASE Crash
  BY <1>7 DEF Crash, disk
<1>8. CASE UNCHANGED vars
  BY <1>8 DEF vars, disk
<1> QED
  BY <1>2, <1>3, <1>4, <1>5, <1>6, <1>7, <1>8 DEF Next

(* Whatever tokens are left in the environment, whatever Hecate answers    *)
(* and whenever the process crashes: credentials that authenticate go on   *)
(* doing so until Hecate changes its registry, `forget' is run or the      *)
(* process is started with PROXY_FORCE_REENROLL (sync.rs 34-55).           *)
THEOREM CredentialsAreKept ==
    ~LiveForget /\ Spec => WorkingCredentialsKept
<1> SUFFICES ASSUME ~LiveForget PROVE Spec => WorkingCredentialsKept
  OBVIOUS
<1>1. Spec => []CredentialsInv
  BY CredentialsInvariant
<1>2. CredentialsInv /\ [Next]_vars =>
          [CredentialsWork /\ ~env.force /\ registry' = registry /\ ~Forgetting
              => CredentialsWork']_vars
  BY CredentialsStep
<1> QED
  BY <1>1, <1>2, PTL DEF Spec, WorkingCredentialsKept

(* Whichever write, crash or lost reply interrupts a rotation, a wipe or an *)
(* enrolment: the disk may be ahead of a running process, but a process     *)
(* that works with its credentials has the pair that a restart would load   *)
(* (sync.rs 143-144, state.rs 112-178).                                     *)
THEOREM WorkingPairIsOnDisk == ~LiveForget /\ Spec => []WorkingPairOnDisk
<1>1. CredentialsInv => WorkingPairOnDisk
  BY DEF CredentialsInv
<1> QED
  BY <1>1, CredentialsInvariant, PTL
=============================================================================
