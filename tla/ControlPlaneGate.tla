-------------------------- MODULE ControlPlaneGate --------------------------
(* The gate lets through only an approved identity that is on disk: the     *)
(* proof of ForwardingApproved when the process is never forced to re-enrol *)
(* and no proxy is deleted.                                                 *)
EXTENDS ControlPlaneIdentity

LEMMA ThreeTasks == Tasks = {"boot", "sync", "heartbeat"}
  BY DEF Tasks

-----------------------------------------------------------------------------
LEMMA ExitGate ==
    ASSUME GateInv, Exit, UNCHANGED <<disk, operator, hecate, issued>>
    PROVE  GateRelations'
  BY IdentityAssumption, ThreeTasks
  DEF GateInv, GateRelations, NothingReplaced, NeverDead, DiskFollows, CallsCurrent,
      ForwardingApproved, CredentialsWork, Exit, NoRequest, Bare, Idle, Answered, disk,
      hecate, Replacing, Rotating, Wiping, Enrolling, Running, BootSteps, Starting

LEMMA StartUpGate == GateInv /\ ~LiveForget /\ StartUp => GateRelations'
<1> SUFFICES ASSUME GateInv, ~LiveForget, StartUp PROVE GateRelations'
  OBVIOUS
<1> USE IdentityAssumption DEF GateInv, GateRelations, IdentityInv, Relations, TypeOK,
      NothingReplaced, NeverDead, DiskFollows, CallsCurrent, ForwardingApproved,
      CredentialsWork, KeyBeforeId, Idle, Answered, disk, operator, memory, calls,
      hecate, Replacing, Rotating, Wiping, Enrolling, Running, BootSteps, Starting
<1>1. CASE Start
  BY <1>1 DEF Start
<1>2. CASE LoadKey
  BY <1>2 DEF LoadKey
<1>3. CASE GenerateKey
  BY <1>3 DEF GenerateKey, Draw
<1>4. CASE WriteGeneratedKey
  BY <1>4 DEF WriteGeneratedKey
<1>5. CASE LoadId
  BY <1>5 DEF LoadId
<1>6. CASE StartupFails
  BY <1>6, ExitGate DEF StartupFails
<1> QED
  BY <1>1, <1>2, <1>3, <1>4, <1>5, <1>6 DEF StartUp

(* The answer to a sync, in whichever task.                                 *)
LEMMA SyncGate ==
    ASSUME GateInv, Undisturbed, NEW t \in Tasks, SyncReceive(t)
    PROVE  GateRelations'
<1> USE IdentityAssumption, ThreeTasks DEF GateInv, GateRelations, IdentityInv,
      Relations, TypeOK, Requests, Answers, NothingReplaced, NeverDead, DiskFollows,
      CallsCurrent, ForwardingApproved, CredentialsWork, Idle, Answered, disk,
      operator, memory, calls, hecate, Replacing, Rotating, Wiping, Enrolling, Running,
      BootSteps, Starting, NoRequest, Bare, Syncing
<1>1. request[t].token = None /\ UNCHANGED <<disk, operator, memKey, memId, hecate>>
  BY DEF SyncReceive, SyncClears, SyncApplies, SyncForbidden, SyncFails
<1>2. CASE SyncClears(t)
  BY <1>1, <1>2 DEF SyncClears
<1>3. CASE ~SyncClears(t)
  <2>1. Finish(t) /\ boot \in Running
    BY <1>3 DEF SyncReceive, SyncApplies, SyncForbidden, SyncFails
  <2>2. boot' = IF t = "boot" THEN "done" ELSE boot
    BY <1>1, <1>3
    DEF SyncReceive, SyncApplies, SyncForbidden, SyncFails, AfterSync
  <2>3. forwarding' => forwarding \/ memId \in approved
    <3>1. CASE SyncApplies(t)
      BY <1>1, <3>1 DEF SyncApplies
    <3>2. CASE SyncForbidden(t)
      BY <3>2 DEF SyncForbidden
    <3>3. CASE SyncFails(t)
      BY <3>3 DEF SyncFails
    <3> QED
      BY <1>3, <3>1, <3>2, <3>3 DEF SyncReceive
  <2>4. ForwardingApproved'
    BY <1>1, <2>1, <2>3, ~(memId \in approved) \/ idFile = memId
  <2>5. CallsCurrent'
    BY <1>1, <2>1, <2>2 DEF Finish
  <2>6. NothingReplaced' /\ DiskFollows'
    BY <1>1, <2>1, <2>2 DEF Finish
  <2>7. t # "boot" => answer'["boot"] = answer["boot"]
    BY <2>1 DEF Finish
  <2>8. NeverDead'
    BY <1>1, <2>2, <2>7
  <2> QED
    BY <2>4, <2>5, <2>6, <2>8
<1> QED
  BY <1>2, <1>3

LEMMA BootstrapGate == GateInv /\ Undisturbed /\ Bootstrap => GateRelations'
<1> SUFFICES ASSUME GateInv, Undisturbed, Bootstrap PROVE GateRelations'
  OBVIOUS
<1>a. boot \notin {"reenroll", "rotate", "openKey", "writeKey", "swapKey", "wipe",
                   "wipeOpen", "wipeWrite", "wipeKey", "wipeId", "wipeGate"}
  BY DEF GateInv, GateRelations, NothingReplaced, Replacing, Rotating, Wiping
<1>b. CASE SyncReceive("boot")
  BY <1>b, SyncGate, ThreeTasks
<1> USE IdentityAssumption, ThreeTasks DEF GateInv, GateRelations, IdentityInv,
      Relations, TypeOK, Requests, Answers, MemoryFollows, WithoutId, Offer,
      NothingReplaced, NeverDead, DiskFollows, CallsCurrent, ForwardingApproved, CredentialsWork,
      Idle, Answered, disk, operator, memory, calls, hecate, Replacing, Rotating, Wiping,
      Enrolling, Persisting, Running, BootSteps, Starting, NoRequest, Bare
<1>1. CASE BeginUnenrolled
  BY <1>a, <1>1 DEF BeginUnenrolled
<1>2. CASE BeginForced
  BY <1>a, <1>2 DEF BeginForced, Undisturbed
<1>3. CASE BeginProbe
  BY <1>a, <1>3 DEF BeginProbe, Send
<1>4. CASE Resync
  BY <1>a, <1>4 DEF Resync, Send
<1>5. CASE Enroll
  BY <1>a, <1>5 DEF Enroll, Send
<1>6. CASE EnrollAnswered
  BY <1>a, <1>6 DEF EnrollAnswered, Finish
<1>7. CASE OpenId
  BY <1>a, <1>7 DEF OpenId
<1>8. CASE WriteId
  BY <1>a, <1>8 DEF WriteId
<1>12. CASE SwapId
  BY <1>a, <1>12 DEF SwapId, Finish
<1>9. CASE ClosePending
  BY <1>a, <1>9 DEF ClosePending
<1>10. CASE BootWriteFails
  BY <1>a, <1>10 DEF BootWriteFails, Finish, Writing
<1>11. CASE \/ Reenroll \/ RotateAccepted \/ RotateRejected \/ OpenKey \/ WriteKey
             \/ SwapKey \/ WipeIdFile \/ WipeOpen \/ WipeWrite \/ WipeKey \/ WipeId
             \/ WipeGate
  BY <1>a, <1>11
  DEF Reenroll, RotateAccepted, RotateRejected, OpenKey, WriteKey, SwapKey, WipeIdFile,
      WipeOpen, WipeWrite, WipeKey, WipeId, WipeGate
<1> QED
  BY <1>b, <1>1, <1>2, <1>3, <1>4, <1>5, <1>6, <1>7, <1>8, <1>9, <1>10, <1>11, <1>12
  DEF Bootstrap

LEMMA LoopsGate ==
    GateInv /\ Undisturbed /\ (SyncLoop \/ HeartbeatLoop) => GateRelations'
<1> SUFFICES ASSUME GateInv, Undisturbed, SyncLoop \/ HeartbeatLoop
             PROVE  GateRelations'
  OBVIOUS
<1>1. CASE SyncReceive("sync")
  BY <1>1, SyncGate, ThreeTasks
<1> USE IdentityAssumption, ThreeTasks DEF GateInv, GateRelations, IdentityInv,
      TypeOK, Requests, Answers, NothingReplaced, NeverDead, DiskFollows,
      CallsCurrent, ForwardingApproved, CredentialsWork, Idle, Answered, disk,
      operator, memory, hecate, Running, BootSteps, Starting, NoRequest, Bare
<1>2. CASE SyncSend
  BY <1>2 DEF SyncSend, Send
<1>3. CASE HeartbeatSend
  BY <1>3 DEF HeartbeatSend, Send
<1>4. CASE HeartbeatReceive
  BY <1>4 DEF HeartbeatReceive, Finish, Verdicts
<1> QED
  BY <1>1, <1>2, <1>3, <1>4 DEF SyncLoop, HeartbeatLoop

LEMMA OperatorGate == GateInv /\ Undisturbed /\ Operator => GateRelations'
<1> SUFFICES ASSUME GateInv, Undisturbed, Operator PROVE GateRelations'
  OBVIOUS
<1> USE IdentityAssumption DEF Undisturbed, GateInv, GateRelations, IdentityInv,
      Relations, TypeOK, ForgetAlone, NothingReplaced, NeverDead, DiskFollows,
      CallsCurrent, ForwardingApproved, CredentialsWork, Idle, Answered, disk,
      operator, memory, calls, hecate, Running, Enrolling, Starting
<1>1. CASE SetEnv
  BY <1>1 DEF SetEnv
<1>2. CASE ForgetId
  BY <1>2 DEF ForgetId
<1>3. CASE ForgetOpen
  BY <1>3 DEF ForgetOpen
<1>4. CASE ForgetWrite
  BY <1>4 DEF ForgetWrite, Draw
<1>5. CASE ForgetCrash
  BY <1>5 DEF ForgetCrash
<1>7. CASE ForgetDone
  BY <1>7 DEF ForgetDone
<1>6. ASSUME NEW p \in Proxies, Approve(p) \/ Revoke(p) PROVE GateRelations'
  <2>1. PICK to \in {"active", "revoked"} :
          /\ registry[p].state # "unknown"
          /\ registry' = [registry EXCEPT ![p].state = to]
          /\ approved' = IF to = "active" THEN approved \cup {p} ELSE approved
    BY <1>6 DEF Approve, Revoke, SetState
  <2>2. UNCHANGED <<keyFile, idFile, boot, memKey, memId, forwarding, request, answer>>
    BY <1>6 DEF Approve, Revoke, SetState
  <2>3. \A x \in Proxies :
          /\ registry'[x].key = registry[x].key
          /\ registry[x].state # "unknown" => registry'[x].state # "unknown"
          /\ registry'[x].state = "active" => registry[x].state = "active" \/ x \in approved'
    BY <2>1
  <2>4. approved \subseteq approved'
    BY <2>1
  <2> HIDE DEF TypeOK
  <2>5. ForwardingApproved' /\ NothingReplaced' /\ DiskFollows'
    BY <2>2, <2>4
  <2>6. CallsCurrent'
    BY <2>2, <2>3, <2>4
  <2>7. answer["boot"].id \in Proxies \/ ~(boot \in {"openId", "writeId", "swapId"}
          \/ (boot = "enrolling" /\ Answered("boot", "ok")))
    BY DEF TypeOK, Offer, Persisting
  <2>8. NeverDead'
    BY <2>2, <2>3, <2>7
  <2> QED
    BY <2>5, <2>6, <2>8
<1> QED
  BY <1>1, <1>2, <1>3, <1>4, <1>5, <1>6, <1>7 DEF Operator, Forgetting, Delete

LEMMA EnrolsGate == GateInv /\ HecateEnrolls => GateRelations'
<1> SUFFICES ASSUME GateInv, HecateEnrolls PROVE GateRelations'
  OBVIOUS
<1>0. request \in [Tasks -> Requests] /\ answer \in [Tasks -> Answers]
      /\ registry \in [Proxies -> [key : Keys \cup {None}, state : ProxyStates]]
  BY DEF GateInv, IdentityInv, TypeOK
<1>1. PICK p \in Enrollable(request["boot"]), s \in {"pending", "active"},
             lost \in BOOLEAN :
        /\ registry' = [registry EXCEPT
                          ![p] = [key |-> request["boot"].key, state |-> s]]
        /\ approved' = IF s = "active" THEN approved \cup {p} ELSE approved
        /\ answer' = [answer EXCEPT !["boot"] =
                IF lost THEN Bare("failed")
                ELSE [Bare("ok") EXCEPT !.id = p, !.active = (s = "active")]]
  BY DEF HecateEnrolls
<1>2. /\ boot = "enrolling" /\ idFile = None /\ memId = None
      /\ request["boot"].key = memKey /\ answer["boot"].verdict = "waiting"
      /\ UNCHANGED <<keyFile, idFile, boot, memKey, memId, forwarding, request>>
  <2>1. /\ answer["boot"].verdict = "waiting" /\ request["boot"].token # None
        /\ UNCHANGED <<keyFile, idFile, boot, memKey, memId, forwarding, request>>
    BY DEF HecateEnrolls, Answered, disk, memory
  <2>2. boot = "enrolling"
    BY <2>1, ThreeTasks
    DEF GateInv, GateRelations, CallsCurrent, IdentityInv, Relations, Offer,
        Persisting, Answered
  <2>3. request["boot"].key = memKey
    BY <2>2 DEF GateInv, IdentityInv, Relations, Offer
  <2>4. idFile = None
    BY <2>2 DEF GateInv, IdentityInv, Relations, WithoutId, Enrolling
  <2>5. memId = None
    BY <2>2 DEF GateInv, IdentityInv, Relations, MemoryFollows, Enrolling
  <2> QED
    BY <2>1, <2>2, <2>3, <2>4, <2>5
<1>3. p \in Proxies
  <2>1. request["boot"].token \in Tokens
    BY <1>0, ThreeTasks DEF HecateEnrolls, Requests
  <2>2. TokenBound[request["boot"].token] \in Proxies \cup {None}
    BY <2>1, IdentityAssumption
  <2> QED
    BY <1>1, <2>2 DEF Enrollable
<1>4. /\ answer'["boot"].verdict \in {"failed", "ok"}
      /\ answer'["boot"].verdict = "ok" => answer'["boot"].id = p
      /\ \A x \in Tasks \ {"boot"} : answer'[x] = answer[x]
  BY <1>0, <1>1, ThreeTasks DEF Bare
<1>5. registry'[p].key = memKey /\ registry'[p].state # "unknown"
  BY <1>0, <1>1, <1>2, <1>3
<1>6. \A x \in Proxies : registry'[x].state = "active" => x \in approved'
  <2>1. \A x \in Proxies : registry[x].state = "active" => x \in approved
    BY DEF GateInv, GateRelations, CallsCurrent
  <2>2. s = "active" => p \in approved'
    BY <1>1
  <2>3. approved \subseteq approved' /\ registry'[p].state = s
    BY <1>0, <1>1, <1>3
  <2>4. \A x \in Proxies \ {p} : registry'[x] = registry[x]
    BY <1>0, <1>1
  <2>5. registry'[p].state = "active" => p \in approved'
    BY <2>2, <2>3
  <2>6. ASSUME NEW x \in Proxies \ {p}, registry'[x].state = "active"
        PROVE  x \in approved'
    BY <2>1, <2>3, <2>4, <2>6
  <2> QED
    BY <2>5, <2>6, Zenon
<1>7. ForwardingApproved' /\ NothingReplaced' /\ NeverDead' /\ DiskFollows'
  <2>1. boot \in Running
    BY <1>2 DEF Running, BootSteps, Starting
  <2>2. ForwardingApproved' /\ NothingReplaced'
    BY <1>1, <1>2
    DEF GateInv, GateRelations, ForwardingApproved, NothingReplaced
  <2>3. NeverDead'
    BY <1>2, <1>4, <1>5, IdentityAssumption DEF NeverDead, Answered
  <2>4. DiskFollows'
    BY <1>2, <2>1 DEF GateInv, GateRelations, DiskFollows
  <2> QED
    BY <2>2, <2>3, <2>4
<1>8. CallsCurrent'
  BY <1>2, <1>4, <1>6, ThreeTasks DEF GateInv, GateRelations, CallsCurrent, Idle
<1> QED
  BY <1>7, <1>8 DEF GateRelations

LEMMA HecateGate == GateInv /\ Hecate => GateRelations'
<1> SUFFICES ASSUME GateInv, Hecate PROVE GateRelations'
  OBVIOUS
<1>3. CASE HecateEnrolls
  BY <1>3, EnrolsGate
<1> USE IdentityAssumption, ThreeTasks DEF GateInv, GateRelations, IdentityInv,
      Relations, TypeOK, Requests, Answers, Offer, WithoutId, NothingReplaced,
      NeverDead, DiskFollows, CallsCurrent, ForwardingApproved, CredentialsWork,
      Idle, Answered, disk, operator, memory, hecate, Running, Enrolling, Starting
<1>1. ASSUME NEW t \in Tasks, HecateAnswers(t) PROVE GateRelations'
  <2>1. /\ boot \in Running /\ request[t].id = memId /\ request[t].key = memKey
        /\ memId \in Proxies /\ idFile = memId /\ keyFile = memKey
    BY <1>1 DEF HecateAnswers
  <2>2. keyFile \in Keys
    BY <2>1 DEF KeyBeforeId
  <2>3. /\ Judgement(request[t]) \notin {"unauthorized", "idle", "waiting", "apply"}
        /\ Judgement(request[t]) = "ok" => memId \in approved
    BY <2>1, <2>2 DEF Judgement
  <2>4. /\ answer'[t].verdict = Judgement(request[t])
        /\ \A x \in Tasks \ {t} : answer'[x] = answer[x]
    BY <1>1 DEF HecateAnswers, SignedAnswer, Bare
  <2>5. t = "boot" => boot \notin {"enrolling", "openId", "writeId", "swapId"}
    BY <1>1 DEF HecateAnswers, Persisting
  <2>6. UNCHANGED <<keyFile, idFile, boot, memKey, memId, forwarding, request,
                    registry, approved>>
    BY <1>1 DEF HecateAnswers
  <2>7. NeverDead'
    BY <2>4, <2>5, <2>6
  <2>8. CallsCurrent'
    BY <1>1, <2>1, <2>3, <2>4, <2>6
  <2> QED
    BY <1>1, <2>1, <2>4, <2>6, <2>7, <2>8
<1>2. ASSUME NEW t \in Tasks, CallFails(t) \/ (t = "boot" /\ HecateRejects)
      PROVE  GateRelations'
  <2>1. /\ answer[t].verdict = "waiting" /\ answer'[t].verdict \in {"failed", "rejected"}
        /\ \A x \in Tasks \ {t} : answer'[x] = answer[x]
    BY <1>2 DEF CallFails, HecateRejects, Bare
  <2>2. UNCHANGED <<keyFile, idFile, boot, memKey, memId, forwarding, request,
                    registry, approved>>
    BY <1>2 DEF CallFails, HecateRejects
  <2> HIDE DEF IdentityInv
  <2>3. ForwardingApproved' /\ NothingReplaced' /\ DiskFollows'
    BY <2>1, <2>2
  <2>4. answer'["boot"].verdict = "ok" =>
          answer["boot"].verdict = "ok" /\ answer'["boot"] = answer["boot"]
    BY <2>1
  <2>5. boot \in {"openId", "writeId", "swapId"} => answer'["boot"] = answer["boot"]
    BY <2>1 DEF IdentityInv, Persisting
  <2>6. NeverDead'
    BY <2>2, <2>4, <2>5
  <2>7. CallsCurrent'
    BY <2>1, <2>2
  <2> QED
    BY <2>3, <2>6, <2>7
<1> QED
  BY <1>1, <1>2, <1>3 DEF Hecate

-----------------------------------------------------------------------------
LEMMA GateInvariant == Undisturbed /\ Spec => []GateInv
<1> SUFFICES ASSUME Undisturbed PROVE Spec => []GateInv
  OBVIOUS
<1>1. ~LiveForget
  BY DEF Undisturbed
<1>2. Init => GateRelations
  BY IdentityAssumption
  DEF Init, NoRequest, Bare, GateRelations, NothingReplaced, NeverDead, DiskFollows,
      CallsCurrent, ForwardingApproved, Idle, Answered, Replacing, Rotating, Wiping,
      Enrolling,
      Running, BootSteps, Starting
<1>3. Spec => []IdentityInv
  BY <1>1, IdentityInvariant
<1>4. IdentityInv /\ IdentityInv' /\ GateRelations /\ [Next]_vars => GateRelations'
  <2> SUFFICES ASSUME GateInv, [Next]_vars PROVE GateRelations'
    BY DEF GateInv
  <2>1. CASE UNCHANGED vars
    BY <2>1
    DEF vars, disk, operator, memory, calls, hecate, GateInv, GateRelations,
        NothingReplaced, NeverDead, DiskFollows, CallsCurrent, ForwardingApproved,
        CredentialsWork, Idle, Answered
  <2>2. CASE Crash
    BY <2>2, ExitGate DEF Crash
  <2> QED
    BY <1>1, <2>1, <2>2, StartUpGate, BootstrapGate, LoopsGate, OperatorGate, HecateGate
    DEF Next
<1>5. IdentityInv /\ GateRelations <=> GateInv
  BY DEF GateInv
<1> QED
  BY <1>2, <1>3, <1>4, <1>5, PTL DEF Spec

(* However the answers to bootstrap, sync loop and heartbeat overtake each  *)
(* other, and through crashes, revocations, approvals and `forget' with a   *)
(* second enrolment: the gate is open only for an identity that is in       *)
(* memory, on disk and was approved, as long as nothing forces a            *)
(* re-enrolment and no proxy is deleted (sync.rs 180-187, 210-213, 266).    *)
THEOREM GateOpensForApproved == Undisturbed /\ Spec => []ForwardingApproved
<1> SUFFICES ASSUME Undisturbed PROVE Spec => []ForwardingApproved
  OBVIOUS
<1>1. GateInv => ForwardingApproved
  BY DEF GateInv, GateRelations
<1> QED
  BY <1>1, GateInvariant, PTL

-----------------------------------------------------------------------------
(* Steps that touch neither the id in memory nor the id file are those of   *)
(* the gate and of the administrators.                                      *)
LEMMA GateSteps ==
    ASSUME GateInv, GateInv', UNCHANGED <<memId, idFile, approved>>
    PROVE  [Gate!Next]_(Gate!vars)
<1>1. KeptId' = KeptId
  BY DEF KeptId
<1>2. CASE forwarding' = forwarding
  BY <1>1, <1>2 DEF Gate!vars
<1>3. CASE forwarding' = TRUE
  <2>1. memId \in approved
    BY <1>3 DEF GateInv, GateRelations, ForwardingApproved
  <2> QED
    BY <1>1, <1>3, <2>1 DEF Gate!Next, Gate!Open
<1>4. CASE forwarding' = FALSE
  BY <1>1, <1>4 DEF Gate!Next, Gate!Close
<1> QED
  BY <1>2, <1>3, <1>4 DEF GateInv, IdentityInv, TypeOK

LEMMA ApprovalSteps ==
    ASSUME UNCHANGED <<memId, idFile, forwarding>>,
           approved' = approved \/ \E p \in Proxies : approved' = approved \cup {p}
    PROVE  [Gate!Next]_(Gate!vars)
<1>1. KeptId' = KeptId
  BY DEF KeptId
<1> QED
  BY <1>1 DEF Gate!vars, Gate!Next, Gate!Approve

LEMMA ExitSteps ==
    ASSUME Exit, UNCHANGED <<disk, operator, hecate, issued>>
    PROVE  [Gate!Next]_(Gate!vars)
  BY DEF Exit, KeptId, disk, hecate, Gate!Next, Gate!Stop

LEMMA StartUpSteps ==
    ASSUME GateInv, GateInv', StartUp
    PROVE  [Gate!Next]_(Gate!vars)
<1>1. CASE StartupFails
  BY <1>1, ExitSteps DEF StartupFails
<1>2. CASE LoadId
  <2>1. idFile \in Proxies \cup {None}
    BY <1>2 DEF LoadId, GateInv, IdentityInv, TypeOK
  <2>2. memId = None /\ memId' = KeptId /\ UNCHANGED <<idFile, forwarding, approved>>
    BY <1>2, <2>1
    DEF LoadId, KeptId, disk, hecate, GateInv, GateRelations, DiskFollows, Starting
  <2> QED
    BY <2>2 DEF KeptId, Gate!Next, Gate!Load
<1>3. CASE Start \/ LoadKey \/ GenerateKey \/ WriteGeneratedKey
  <2>1. UNCHANGED <<memId, idFile, approved>>
    BY <1>3 DEF Start, LoadKey, GenerateKey, WriteGeneratedKey, disk, memory, hecate
  <2> QED
    BY <2>1, GateSteps
<1> QED
  BY <1>1, <1>2, <1>3 DEF StartUp

(* The bootstrap task changes the identity in enrolling only, since nothing *)
(* is wiped: the id is kept once its file is whole, and taken up later.     *)
LEMMA BootstrapSteps ==
    ASSUME GateInv, GateInv', Bootstrap
    PROVE  [Gate!Next]_(Gate!vars)
<1>1. CASE OpenId
  <2>1. idFile = None
    BY <1>1 DEF OpenId, GateInv, IdentityInv, Relations, WithoutId
  <2>2. KeptId' = KeptId
    BY <1>1, <2>1, IdentityAssumption DEF OpenId, KeptId
  <2> QED
    BY <1>1, <2>2 DEF OpenId, memory, hecate, Gate!vars
<1>2. CASE WriteId
  <2>1. idFile = Torn /\ memId = None
    BY <1>2
    DEF WriteId, GateInv, IdentityInv, Relations, MemoryFollows, WithoutId, Enrolling
  <2>2. answer["boot"].id \in Proxies
    BY <1>2 DEF WriteId, GateInv, IdentityInv, TypeOK, Relations, Offer, Persisting
  <2>3. KeptId = None /\ KeptId' = answer["boot"].id
    BY <1>2, <2>1, <2>2, IdentityAssumption DEF WriteId, KeptId
  <2> QED
    BY <1>2, <2>1, <2>2, <2>3 DEF WriteId, memory, hecate, Gate!Next, Gate!Keep
<1>3. CASE SwapId
  <2>1. idFile = answer["boot"].id /\ memId = None
    BY <1>3
    DEF SwapId, GateInv, IdentityInv, Relations, MemoryFollows, WithoutId, Enrolling
  <2>2. answer["boot"].id \in Proxies
    BY <1>3 DEF SwapId, GateInv, IdentityInv, TypeOK, Relations, Offer, Persisting
  <2>3. memId' = KeptId /\ KeptId' = KeptId
    BY <1>3, <2>1, <2>2 DEF SwapId, KeptId, disk
  <2> QED
    BY <1>3, <2>1, <2>3 DEF SwapId, hecate, Gate!Next, Gate!Load
<1>4. ~WipeIdFile /\ ~WipeId
  BY DEF WipeIdFile, WipeId, GateInv, GateRelations, NothingReplaced, Replacing, Wiping
<1>5. CASE ~OpenId /\ ~WriteId /\ ~SwapId
  <2>1. UNCHANGED <<memId, idFile, approved>>
    BY <1>4, <1>5
    DEF Bootstrap, BeginUnenrolled, BeginForced, BeginProbe, SyncReceive, SyncClears,
        SyncApplies, SyncForbidden, SyncFails, Resync, Reenroll, RotateAccepted,
        RotateRejected, OpenKey, WriteKey, SwapKey, WipeOpen, WipeWrite, WipeKey,
        WipeGate, Enroll, EnrollAnswered, ClosePending, BootWriteFails, disk, memory,
        hecate
  <2> QED
    BY <2>1, GateSteps
<1> QED
  BY <1>1, <1>2, <1>3, <1>5

LEMMA LoopSteps ==
    ASSUME GateInv, GateInv', SyncLoop \/ HeartbeatLoop
    PROVE  [Gate!Next]_(Gate!vars)
<1>1. UNCHANGED <<memId, idFile, approved>>
  BY DEF SyncLoop, HeartbeatLoop, SyncSend, SyncReceive, SyncClears, SyncApplies,
         SyncForbidden, SyncFails, HeartbeatSend, HeartbeatReceive, disk, memory, hecate
<1> QED
  BY <1>1, GateSteps

LEMMA OperatorSteps ==
    ASSUME ~LiveForget, GateInv, GateInv', Operator
    PROVE  [Gate!Next]_(Gate!vars)
<1>1. CASE ForgetId
  <2>1. memId = None /\ UNCHANGED <<memId, forwarding, approved>>
    BY <1>1 DEF ForgetId, memory, hecate, GateInv, GateRelations, DiskFollows
  <2>2. KeptId' = None
    BY <1>1 DEF ForgetId, KeptId
  <2> QED
    BY <2>1, <2>2 DEF Gate!Next, Gate!Forget
<1>2. CASE SetEnv \/ ForgetOpen \/ ForgetWrite \/ ForgetDone \/ ForgetCrash
  <2>1. UNCHANGED <<memId, idFile, approved>>
    BY <1>2 DEF SetEnv, ForgetOpen, ForgetWrite, ForgetDone, ForgetCrash, disk, memory,
        hecate
  <2> QED
    BY <2>1, GateSteps
<1>3. ASSUME NEW p \in Proxies, Approve(p) \/ Revoke(p) \/ Delete(p)
      PROVE  [Gate!Next]_(Gate!vars)
  <2>1. /\ UNCHANGED <<memId, idFile, forwarding>>
        /\ approved' = approved \/ approved' = approved \cup {p}
    BY <1>3 DEF Approve, Revoke, Delete, SetState, disk, memory
  <2> QED
    BY <2>1, ApprovalSteps
<1> QED
  BY <1>1, <1>2, <1>3 DEF Operator, Forgetting

LEMMA HecateSteps ==
    ASSUME GateInv, Hecate
    PROVE  [Gate!Next]_(Gate!vars)
<1>1. UNCHANGED <<memId, idFile, forwarding>>
  BY DEF Hecate, HecateAnswers, CallFails, HecateEnrolls, HecateRejects, disk, memory
<1>2. ASSUME HecateEnrolls PROVE Enrollable(request["boot"]) \subseteq Proxies
  <2>1. request["boot"] \in Requests
    BY DEF GateInv, IdentityInv, TypeOK, Tasks
  <2>2. request["boot"].token \in Tokens
    BY <1>2, <2>1 DEF HecateEnrolls, Requests
  <2>3. TokenBound[request["boot"].token] \in Proxies \cup {None}
    BY <2>2, IdentityAssumption
  <2> QED
    BY <2>3 DEF Enrollable
<1>3. approved' = approved \/ \E p \in Proxies : approved' = approved \cup {p}
  BY <1>2 DEF Hecate, HecateAnswers, CallFails, HecateEnrolls, HecateRejects, hecate
<1> QED
  BY <1>1, <1>3, ApprovalSteps

(* A proxy that is never forced to re-enrol and never deleted is a          *)
(* ProxyGate: it keeps the identity it took up, in memory and on disk,      *)
(* through crashes, lost answers and leftover tokens, and opens its gate    *)
(* under this identity only, once it was approved (sync.rs 34-55, 180-187,  *)
(* 210-213).                                                                *)
THEOREM IdentityIsKept == Undisturbed /\ Spec => KeepsIdentity
<1> SUFFICES ASSUME Undisturbed PROVE Spec => KeepsIdentity
  OBVIOUS
<1>1. Init => Gate!Init
  BY IdentityAssumption DEF Init, KeptId, Gate!Init
<1>2. GateInv /\ GateInv' /\ [Next]_vars => [Gate!Next]_(Gate!vars)
  <2> SUFFICES ASSUME GateInv, GateInv', [Next]_vars PROVE [Gate!Next]_(Gate!vars)
    OBVIOUS
  <2>1. CASE UNCHANGED vars
    BY <2>1, GateSteps DEF vars, disk, memory, hecate
  <2>2. CASE Crash
    BY <2>2, ExitSteps DEF Crash
  <2> QED
    BY <2>1, <2>2, StartUpSteps, BootstrapSteps, LoopSteps, OperatorSteps, HecateSteps
    DEF Next, Undisturbed
<1> QED
  BY <1>1, <1>2, GateInvariant, PTL DEF Spec, KeepsIdentity, Gate!Spec
=============================================================================
