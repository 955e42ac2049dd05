---------------------------- MODULE ControlPlane ----------------------------
(***************************************************************************)
(* The life of a Propylaea proxy's identity: the two files that persist it *)
(* (proxy.key, proxy_id), the process that loads, enrols, re-enrols and    *)
(* wipes it, the gate (`forwarding') that lets agent traffic through, and  *)
(* the tasks that talk to Hecate about it.                                 *)
(*                                                                         *)
(* Three tasks of the process share the in-memory state (main.rs 65-101):  *)
(* the bootstrap task, the sync loop and the heartbeat loop.  Each has at  *)
(* most one HTTP request outstanding; what a task read before it sent the  *)
(* request is in request[t], what Hecate made of it in answer[t].  Every   *)
(* await is a point where the other tasks move.                            *)
(*                                                                         *)
(* Hecate and the operator are not part of the repository: they are        *)
(* modelled from how the code uses them.                                   *)
(***************************************************************************)
EXTENDS Naturals

CONSTANTS
    Proxies,     \* proxy ids that Hecate may assign
    Keys,        \* signing keys that may be generated; each is drawn once
    Tokens,      \* one-shot enrolment tokens (penr_...) that the operator holds
    TokenBound,  \* the proxy a re-enrolment token is bound to, None if generic
    Settings,    \* the environments the operator starts the process with
    LiveForget,  \* may `hecate-propylaea forget' run beside a live process?
    MayDelete,   \* may the operator delete a proxy from Hecate?
    None,        \* an absent file, value or token
    Torn         \* a file that was created or truncated but not yet written

ASSUME IdentityAssumption ==
    /\ None \notin Proxies \cup Keys \cup Tokens \cup {Torn}
    /\ Torn \notin Proxies \cup Keys
    /\ TokenBound \in [Tokens -> Proxies \cup {None}]
    /\ Settings \subseteq [token : Tokens \cup {None}, force : BOOLEAN]
    /\ LiveForget \in BOOLEAN
    /\ MayDelete \in BOOLEAN

VARIABLES
    keyFile, idFile,          \* the data volume
    forget,                   \* progress of the `forget' command
    env,                      \* the environment of the next or current start
    boot,                     \* program counter: main() up to and with bootstrap()
    memKey, memId,            \* AppState.keypair, AppState.proxy_id
    forwarding,               \* AppState.forwarding
    cachedTokens,             \* AppState.proxy_enrollment_tokens
    request, answer,          \* one HTTP call per task
    registry, used,           \* Hecate: its proxies, its spent tokens
    issued, accepted, approved  \* history: keys drawn, pairs Hecate took, ids approved

disk     == <<keyFile, idFile>>
memory   == <<memKey, memId, forwarding, cachedTokens>>
calls    == <<request, answer>>
hecate   == <<registry, used, accepted, approved>>
operator == <<forget, env>>
vars     == <<disk, operator, boot, memory, calls, hecate, issued>>

Tasks == {"boot", "sync", "heartbeat"}

BootSteps ==
    {"down",                                        \* the process is not running
     "load", "create", "id",                        \* AppState::new
     "begin", "probe",                              \* bootstrap, its first run_once
     "reenroll", "rotate",                          \* reenroll_if_needed,
     "openKey", "writeKey", "swapKey",              \* its persist_at and replace_keypair
     "wipe", "wipeOpen", "wipeWrite",               \* forget_proxy_identity
     "wipeKey", "wipeId", "wipeGate",               \* rest of clear_proxy_identity
     "enroll", "enrolling",                         \* enroll_if_needed
     "openId", "writeId", "swapId", "gate",         \* set_proxy_id, forwarding off
     "resync", "final", "done"}                     \* closing run_once

Starting == {"load", "create", "id"}
Running  == BootSteps \ (Starting \cup {"down"})    \* the tasks exist

(* Steps with a file operation ahead that may fail; where memory is about   *)
(* to follow a whole file (swapKey, wipeKey, swapId) it is its sync_all.    *)
Writing  == {"openKey", "writeKey", "swapKey",
             "wipe", "wipeOpen", "wipeWrite", "wipeKey",
             "openId", "writeId", "swapId"}

ProxyStates == {"unknown", "pending", "active", "revoked"}
Verdicts    == {"ok", "unauthorized", "forbidden", "rejected", "failed"}

Requests == [id : Proxies \cup {None}, key : Keys \cup {None},
             token : Tokens \cup {None}]
Answers  == [verdict : {"idle", "waiting", "apply"} \cup Verdicts,
             id : Proxies \cup {None}, active : BOOLEAN, tokens : SUBSET Tokens]

NoRequest == [id |-> None, key |-> None, token |-> None]
Bare(v)   == [verdict |-> v, id |-> None, active |-> FALSE, tokens |-> {}]

TypeOK ==
    /\ keyFile \in Keys \cup {None, Torn}
    /\ idFile \in Proxies \cup {None, Torn}
    /\ forget \in {"idle", "open", "write", "sync"}
    /\ env \in Settings
    /\ boot \in BootSteps
    /\ memKey \in Keys \cup {None}
    /\ memId \in Proxies \cup {None}
    /\ forwarding \in BOOLEAN
    /\ cachedTokens \subseteq Tokens
    /\ request \in [Tasks -> Requests]
    /\ answer \in [Tasks -> Answers]
    /\ registry \in [Proxies -> [key : Keys \cup {None}, state : ProxyStates]]
    /\ used \subseteq Tokens
    /\ issued \subseteq Keys
    /\ accepted \subseteq Proxies \X (Keys \cup {None})
    /\ approved \subseteq Proxies

Init ==
    /\ keyFile = None /\ idFile = None
    /\ forget = "idle"
    /\ env \in Settings
    /\ boot = "down"
    /\ memKey = None /\ memId = None
    /\ forwarding = FALSE
    /\ cachedTokens = {}
    /\ request = [t \in Tasks |-> NoRequest]
    /\ answer = [t \in Tasks |-> Bare("idle")]
    /\ registry = [p \in Proxies |-> [key |-> None, state |-> "unknown"]]
    /\ used = {} /\ issued = {} /\ accepted = {} /\ approved = {}

-----------------------------------------------------------------------------
(* Calls.  A task sends when it has no call outstanding, and goes on when   *)
(* there is an answer.                                                     *)

Idle(t)        == answer[t].verdict = "idle"
Answered(t, v) == answer[t].verdict = v

Send(t, r) ==
    /\ Idle(t)
    /\ request' = [request EXCEPT ![t] = r]
    /\ answer' = [answer EXCEPT ![t] = Bare("waiting")]

Finish(t) ==
    /\ request' = [request EXCEPT ![t] = NoRequest]
    /\ answer' = [answer EXCEPT ![t] = Bare("idle")]

Draw(k) == k \notin issued /\ issued' = issued \cup {k}

(* Process exit, whatever the reason: memory and sockets are gone.         *)
Exit ==
    /\ boot' = "down"
    /\ memKey' = None /\ memId' = None
    /\ forwarding' = FALSE
    /\ cachedTokens' = {}
    /\ request' = [t \in Tasks |-> NoRequest]
    /\ answer' = [t \in Tasks |-> Bare("idle")]

-----------------------------------------------------------------------------
(* Start-up: AppState::new.  A file that cannot be parsed ends main().     *)

Start ==
    /\ boot = "down"
    /\ forget = "idle" \/ LiveForget
    /\ boot' = "load"
    /\ UNCHANGED <<disk, operator, memory, calls, hecate, issued>>

LoadKey ==
    /\ boot = "load"
    /\ keyFile \in Keys
    /\ memKey' = keyFile
    /\ boot' = "id"
    /\ UNCHANGED <<disk, operator, memId, forwarding, cachedTokens, calls,
                   hecate, issued>>

GenerateKey ==
    /\ boot = "load"
    /\ keyFile = None
    /\ \E k \in Keys : Draw(k) /\ memKey' = k
    /\ keyFile' = Torn
    /\ boot' = "create"
    /\ UNCHANGED <<idFile, operator, memId, forwarding, cachedTokens, calls,
                   hecate>>

WriteGeneratedKey ==
    /\ boot = "create"
    /\ keyFile' = memKey
    /\ boot' = "id"
    /\ UNCHANGED <<idFile, operator, memory, calls, hecate, issued>>

(* Mutation: an unwritten proxy_id file is taken as it is.                 *)
LoadIdUnparsed ==
    /\ boot = "id"
    /\ memId' = idFile
    /\ boot' = "begin"
    /\ UNCHANGED <<disk, operator, memKey, forwarding, cachedTokens, calls,
                   hecate, issued>>

LoadId ==
    /\ boot = "id"
    /\ idFile # Torn
    /\ memId' = idFile
    /\ boot' = "begin"
    /\ UNCHANGED <<disk, operator, memKey, forwarding, cachedTokens, calls,
                   hecate, issued>>

StartupFails ==
    /\ boot \in Starting
    /\ Exit
    /\ UNCHANGED <<disk, operator, hecate, issued>>

-----------------------------------------------------------------------------
(* bootstrap(): which of its three branches is taken.                      *)

BeginUnenrolled ==
    /\ boot = "begin"
    /\ memId = None
    /\ boot' = "enroll"
    /\ UNCHANGED <<disk, operator, memory, calls, hecate, issued>>

BeginForced ==
    /\ boot = "begin"
    /\ memId # None
    /\ env.force
    /\ boot' = IF env.token = None THEN "done" ELSE "reenroll"
    /\ UNCHANGED <<disk, operator, memory, calls, hecate, issued>>

BeginProbe ==
    /\ boot = "begin"
    /\ memId # None
    /\ ~env.force
    /\ Send("boot", [id |-> memId, key |-> memKey, token |-> None])
    /\ boot' = "probe"
    /\ UNCHANGED <<disk, operator, memory, hecate, issued>>

-----------------------------------------------------------------------------
(* run_once(): one signed sync.  The bootstrap task runs it as its probe   *)
(* and as its last step, the sync loop on every tick.                      *)

(* Mutation: only a proxy that forwards syncs, as only it heartbeats.      *)
SyncSendGated ==
    /\ boot \in Running
    /\ memId # None
    /\ forwarding
    /\ Send("sync", [id |-> memId, key |-> memKey, token |-> None])
    /\ UNCHANGED <<disk, operator, boot, memory, hecate, issued>>

SyncSend ==
    /\ boot \in Running
    /\ memId # None
    /\ Send("sync", [id |-> memId, key |-> memKey, token |-> None])
    /\ UNCHANGED <<disk, operator, boot, memory, hecate, issued>>

(* The closing run_once of bootstrap().                                    *)
Resync ==
    /\ boot = "resync"
    /\ Send("boot", [id |-> memId, key |-> memKey, token |-> None])
    /\ boot' = "final"
    /\ UNCHANGED <<disk, operator, memory, hecate, issued>>

Syncing(t) == t = "sync" \/ (t = "boot" /\ boot \in {"probe", "final"})

(* Mutation: any failed sync, not only a 401, starts a re-enrolment.       *)
AfterSyncAnyError(t, v) ==
    IF t # "boot" THEN boot
    ELSE IF boot = "probe" /\ v # "ok" /\ env.token # None
         THEN "reenroll"
         ELSE "done"

(* Where bootstrap() goes once a run_once of its own has returned v.       *)
AfterSync(t, v) ==
    IF t # "boot" THEN boot
    ELSE IF boot = "probe" /\ v = "unauthorized" /\ env.token # None
         THEN "reenroll"
         ELSE "done"

(* A 200: the cached tables are emptied, then refilled from the payload,   *)
(* and only then is forwarding enabled; two run_once calls may interleave. *)
SyncClears(t) ==
    /\ Syncing(t)
    /\ Answered(t, "ok")
    /\ cachedTokens' = {}
    /\ answer' = [answer EXCEPT ![t].verdict = "apply"]
    /\ UNCHANGED <<disk, operator, boot, memKey, memId, forwarding, request,
                   hecate, issued>>

SyncApplies(t) ==
    /\ Syncing(t)
    /\ Answered(t, "apply")
    /\ cachedTokens' = cachedTokens \cup answer[t].tokens
    /\ forwarding' = TRUE
    /\ boot' = AfterSync(t, "ok")
    /\ Finish(t)
    /\ UNCHANGED <<disk, operator, memKey, memId, hecate, issued>>

(* Mutation: a 403 is an error like any other.                             *)
SyncForbiddenIgnored(t) ==
    /\ Syncing(t)
    /\ Answered(t, "forbidden")
    /\ boot' = AfterSync(t, "forbidden")
    /\ Finish(t)
    /\ UNCHANGED <<disk, operator, memory, hecate, issued>>

SyncForbidden(t) ==
    /\ Syncing(t)
    /\ Answered(t, "forbidden")
    /\ forwarding' = FALSE
    /\ boot' = AfterSync(t, "forbidden")
    /\ Finish(t)
    /\ UNCHANGED <<disk, operator, memKey, memId, cachedTokens, hecate, issued>>

SyncFails(t) ==
    /\ Syncing(t)
    /\ \E v \in {"unauthorized", "failed"} :
        Answered(t, v) /\ boot' = AfterSync(t, v)
    /\ Finish(t)
    /\ UNCHANGED <<disk, operator, memory, hecate, issued>>

SyncReceive(t) ==
    SyncClears(t) \/ SyncApplies(t) \/ SyncForbidden(t) \/ SyncFails(t)

-----------------------------------------------------------------------------
(* heartbeat_once(): only an enrolled proxy that forwards sends one.       *)

HeartbeatSend ==
    /\ boot \in Running
    /\ memId # None
    /\ forwarding
    /\ Send("heartbeat", [id |-> memId, key |-> memKey, token |-> None])
    /\ UNCHANGED <<disk, operator, boot, memory, hecate, issued>>

HeartbeatReceive ==
    /\ answer["heartbeat"].verdict \in Verdicts
    /\ forwarding' = (forwarding /\ ~Answered("heartbeat", "forbidden"))
    /\ Finish("heartbeat")
    /\ UNCHANGED <<disk, operator, boot, memKey, memId, cachedTokens, hecate,
                   issued>>

-----------------------------------------------------------------------------
(* reenroll_if_needed() and try_reenroll(): a fresh key is offered under   *)
(* the current proxy_id; only an accepted key goes to disk and memory.     *)

BoundElsewhere ==
    /\ env.token \in cachedTokens
    /\ TokenBound[env.token] \notin {None, memId}

(* Mutation: the new key is persisted before Hecate has accepted it.       *)
ReenrollPersistsFirst ==
    /\ boot = "reenroll"
    /\ ~BoundElsewhere
    /\ \E k \in Keys :
        /\ Draw(k)
        /\ Send("boot", [id |-> memId, key |-> k, token |-> env.token])
        /\ keyFile' = k
    /\ boot' = "rotate"
    /\ UNCHANGED <<idFile, operator, memory, hecate>>

Reenroll ==
    /\ boot = "reenroll"
    /\ IF BoundElsewhere
       THEN boot' = "done" /\ UNCHANGED <<calls, issued>>
       ELSE /\ \E k \in Keys :
                /\ Draw(k)
                /\ Send("boot", [id |-> memId, key |-> k, token |-> env.token])
            /\ boot' = "rotate"
    /\ UNCHANGED <<disk, operator, memory, hecate>>

(* Mutation: the process signs with the new key before it is on disk.      *)
RotateSwapsFirst ==
    /\ boot = "rotate"
    /\ Answered("boot", "ok")
    /\ IF answer["boot"].id = memId
       THEN boot' = "openKey" /\ memKey' = request["boot"].key /\ UNCHANGED calls
       ELSE boot' = "done" /\ Finish("boot") /\ UNCHANGED memKey
    /\ UNCHANGED <<disk, operator, memId, forwarding, cachedTokens, hecate, issued>>

(* Accepted: the call record keeps new_keypair until memory has it.        *)
RotateAccepted ==
    /\ boot = "rotate"
    /\ Answered("boot", "ok")
    /\ IF answer["boot"].id = memId
       THEN boot' = "openKey" /\ UNCHANGED calls
       ELSE boot' = "done" /\ Finish("boot")
    /\ UNCHANGED <<disk, operator, memory, hecate, issued>>

RotateRejected ==
    /\ boot = "rotate"
    /\ \/ Answered("boot", "rejected") /\ boot' = "wipe"
       \/ Answered("boot", "failed") /\ boot' = "done"
    /\ Finish("boot")
    /\ UNCHANGED <<disk, operator, memory, hecate, issued>>

(* persist_at truncates, writes and syncs; only then does memory follow,    *)
(* once replace_keypair has the lock.                                      *)
OpenKey ==
    /\ boot = "openKey"
    /\ keyFile' = Torn
    /\ boot' = "writeKey"
    /\ UNCHANGED <<idFile, operator, memory, calls, hecate, issued>>

WriteKey ==
    /\ boot = "writeKey"
    /\ keyFile' = request["boot"].key
    /\ boot' = "swapKey"
    /\ UNCHANGED <<idFile, operator, memory, calls, hecate, issued>>

SwapKey ==
    /\ boot = "swapKey"
    /\ memKey' = request["boot"].key
    /\ boot' = "resync"
    /\ Finish("boot")
    /\ UNCHANGED <<disk, operator, memId, forwarding, cachedTokens, hecate, issued>>

-----------------------------------------------------------------------------
(* clear_proxy_identity(): forget_proxy_identity on the files, then the    *)
(* key is read back, then memory follows, then the gate closes.            *)

WipeIdFile ==
    /\ boot = "wipe"
    /\ idFile' = None
    /\ boot' = IF idFile = None /\ keyFile = None THEN "wipeId" ELSE "wipeOpen"
    /\ UNCHANGED <<keyFile, operator, memory, calls, hecate, issued>>

WipeOpen ==
    /\ boot = "wipeOpen"
    /\ keyFile' = Torn
    /\ boot' = "wipeWrite"
    /\ UNCHANGED <<idFile, operator, memory, calls, hecate, issued>>

WipeWrite ==
    /\ boot = "wipeWrite"
    /\ \E k \in Keys : Draw(k) /\ keyFile' = k
    /\ boot' = "wipeKey"
    /\ UNCHANGED <<idFile, operator, memory, calls, hecate>>

WipeKey ==
    /\ boot = "wipeKey"
    /\ keyFile \in Keys
    /\ memKey' = keyFile
    /\ boot' = "wipeId"
    /\ UNCHANGED <<disk, operator, memId, forwarding, cachedTokens, calls,
                   hecate, issued>>

WipeId ==
    /\ boot = "wipeId"
    /\ memId' = None
    /\ boot' = "wipeGate"
    /\ UNCHANGED <<disk, operator, memKey, forwarding, cachedTokens, calls,
                   hecate, issued>>

WipeGate ==
    /\ boot = "wipeGate"
    /\ forwarding' = FALSE
    /\ boot' = "enroll"
    /\ UNCHANGED <<disk, operator, memKey, memId, cachedTokens, calls, hecate,
                   issued>>

-----------------------------------------------------------------------------
(* enroll_if_needed() and set_proxy_id(): the key in memory is offered     *)
(* without a proxy_id; the id Hecate assigns goes to disk, then to memory. *)

Enroll ==
    /\ boot = "enroll"
    /\ IF env.token = None
       THEN boot' = "done" /\ UNCHANGED calls
       ELSE /\ Send("boot", [id |-> None, key |-> memKey, token |-> env.token])
            /\ boot' = "enrolling"
    /\ UNCHANGED <<disk, operator, memory, hecate, issued>>

EnrollAnswered ==
    /\ boot = "enrolling"
    /\ \/ Answered("boot", "ok") /\ boot' = "openId" /\ UNCHANGED calls
       \/ /\ answer["boot"].verdict \in {"rejected", "failed"}
          /\ boot' = "done"
          /\ Finish("boot")
    /\ UNCHANGED <<disk, operator, memory, hecate, issued>>

OpenId ==
    /\ boot = "openId"
    /\ idFile' = Torn
    /\ boot' = "writeId"
    /\ UNCHANGED <<keyFile, operator, memory, calls, hecate, issued>>

(* A file that `forget' unlinked meanwhile stays unlinked.                 *)
WriteId ==
    /\ boot = "writeId"
    /\ idFile' = IF idFile = Torn THEN answer["boot"].id ELSE idFile
    /\ boot' = "swapId"
    /\ UNCHANGED <<keyFile, operator, memory, calls, hecate, issued>>

(* Mutation: enrolment opens the gate without looking at the state.        *)
SwapIdForwards ==
    /\ boot = "swapId"
    /\ memId' = answer["boot"].id
    /\ forwarding' = TRUE
    /\ boot' = "resync"
    /\ Finish("boot")
    /\ UNCHANGED <<disk, operator, memKey, cachedTokens, hecate, issued>>

SwapId ==
    /\ boot = "swapId"
    /\ memId' = answer["boot"].id
    /\ boot' = IF answer["boot"].active THEN "resync" ELSE "gate"
    /\ Finish("boot")
    /\ UNCHANGED <<disk, operator, memKey, forwarding, cachedTokens, hecate, issued>>

ClosePending ==
    /\ boot = "gate"
    /\ forwarding' = FALSE
    /\ boot' = "resync"
    /\ UNCHANGED <<disk, operator, memKey, memId, cachedTokens, calls, hecate,
                   issued>>

(* Any file operation may fail where it stands, a sync_all also after the   *)
(* whole file was written; bootstrap gives up there, and memory with it.    *)
BootWriteFails ==
    /\ boot \in Writing
    /\ boot' = "done"
    /\ Finish("boot")
    /\ UNCHANGED <<disk, operator, memory, hecate, issued>>

Crash ==
    /\ boot # "down"
    /\ Exit
    /\ UNCHANGED <<disk, operator, hecate, issued>>

-----------------------------------------------------------------------------
(* Operator and `hecate-propylaea forget', a process of its own.           *)

SetEnv ==
    /\ boot = "down"
    /\ \E e \in Settings : e # env /\ env' = e
    /\ UNCHANGED <<disk, forget, boot, memory, calls, hecate, issued>>

ForgetId ==
    /\ forget = "idle"
    /\ boot = "down" \/ LiveForget
    /\ idFile # None \/ keyFile # None
    /\ idFile' = None
    /\ forget' = "open"
    /\ UNCHANGED <<keyFile, env, boot, memory, calls, hecate, issued>>

ForgetOpen ==
    /\ forget = "open"
    /\ keyFile' = Torn
    /\ forget' = "write"
    /\ UNCHANGED <<idFile, env, boot, memory, calls, hecate, issued>>

ForgetWrite ==
    /\ forget = "write"
    /\ \E k \in Keys : Draw(k) /\ keyFile' = k
    /\ forget' = "sync"
    /\ UNCHANGED <<idFile, env, boot, memory, calls, hecate>>

(* The key is synced and the command reports success.                      *)
ForgetDone ==
    /\ forget = "sync"
    /\ forget' = "idle"
    /\ UNCHANGED <<disk, env, boot, memory, calls, hecate, issued>>

(* It fails or is interrupted, wherever it stands.                         *)
ForgetCrash ==
    /\ forget # "idle"
    /\ forget' = "idle"
    /\ UNCHANGED <<disk, env, boot, memory, calls, hecate, issued>>

Forgetting == ForgetId \/ ForgetOpen \/ ForgetWrite

SetState(p, from, to) ==
    /\ registry[p].state \in from
    /\ registry' = [registry EXCEPT ![p].state = to]
    /\ approved' = IF to = "active" THEN approved \cup {p} ELSE approved
    /\ UNCHANGED <<disk, operator, boot, memory, calls, used, accepted, issued>>

Approve(p) == SetState(p, {"pending"}, "active")
Revoke(p)  == SetState(p, {"pending", "active"}, "revoked")
Delete(p)  == MayDelete /\ SetState(p, ProxyStates \ {"unknown"}, "unknown")

-----------------------------------------------------------------------------
(* Hecate.                                                                 *)

(* A signed request authenticates under the key registered for its id.     *)
Judgement(r) ==
    IF registry[r.id].state = "unknown" \/ registry[r.id].key # r.key
    THEN "unauthorized"
    ELSE IF registry[r.id].state = "active" THEN "ok" ELSE "forbidden"

SignedAnswer(t) ==
    [Bare(Judgement(request[t])) EXCEPT
        !.tokens = IF Judgement(request[t]) = "ok" THEN Tokens \ used ELSE {}]

HecateAnswers(t) ==
    /\ Answered(t, "waiting")
    /\ request[t].token = None
    /\ answer' = [answer EXCEPT ![t] = SignedAnswer(t)]
    /\ UNCHANGED <<disk, operator, boot, memory, request, hecate, issued>>

(* Transport error, timeout, 5xx or unusable body: Hecate did not act.     *)
CallFails(t) ==
    /\ Answered(t, "waiting")
    /\ answer' = [answer EXCEPT ![t] = Bare("failed")]
    /\ UNCHANGED <<disk, operator, boot, memory, request, hecate, issued>>

(* The proxies a token may enrol: its own, or a new one.                   *)
Enrollable(r) ==
    IF TokenBound[r.token] = None
    THEN {p \in Proxies : r.id = None /\ registry[p].state = "unknown"
                                      /\ registry[p].key = None}
    ELSE {p \in {TokenBound[r.token]} : r.id \in {None, p} /\
                    registry[p].state \in {"pending", "active"}}

(* The token is spent and the key registered even if the answer is lost.   *)
HecateEnrolls ==
    /\ Answered("boot", "waiting")
    /\ request["boot"].token \notin used \cup {None}
    /\ \E p \in Enrollable(request["boot"]), s \in {"pending", "active"},
          lost \in BOOLEAN :
        /\ registry[p].state # "unknown" => s = registry[p].state
        /\ registry' = [registry EXCEPT
                          ![p] = [key |-> request["boot"].key, state |-> s]]
        /\ used' = used \cup {request["boot"].token}
        /\ accepted' = accepted \cup {<<p, request["boot"].key>>}
        /\ approved' = IF s = "active" THEN approved \cup {p} ELSE approved
        /\ answer' = [answer EXCEPT !["boot"] =
                IF lost THEN Bare("failed")
                ELSE [Bare("ok") EXCEPT !.id = p, !.active = (s = "active")]]
    /\ UNCHANGED <<disk, operator, boot, memory, request, issued>>

(* A token that is spent, expired, or of the wrong kind: 400, 401 or 404.  *)
HecateRejects ==
    /\ Answered("boot", "waiting")
    /\ request["boot"].token # None
    /\ answer' = [answer EXCEPT !["boot"] = Bare("rejected")]
    /\ UNCHANGED <<disk, operator, boot, memory, request, hecate, issued>>

-----------------------------------------------------------------------------
StartUp == Start \/ LoadKey \/ GenerateKey \/ WriteGeneratedKey \/ LoadId
           \/ StartupFails

Bootstrap ==
    \/ BeginUnenrolled \/ BeginForced \/ BeginProbe \/ SyncReceive("boot")
    \/ Resync
    \/ Reenroll \/ RotateAccepted \/ RotateRejected
    \/ OpenKey \/ WriteKey \/ SwapKey
    \/ WipeIdFile \/ WipeOpen \/ WipeWrite \/ WipeKey \/ WipeId \/ WipeGate
    \/ Enroll \/ EnrollAnswered \/ OpenId \/ WriteId \/ SwapId \/ ClosePending
    \/ BootWriteFails

SyncLoop      == SyncSend \/ SyncReceive("sync")
HeartbeatLoop == HeartbeatSend \/ HeartbeatReceive

Operator ==
    \/ SetEnv \/ Forgetting \/ ForgetDone \/ ForgetCrash
    \/ \E p \in Proxies : Approve(p) \/ Revoke(p) \/ Delete(p)

Hecate ==
    \/ \E t \in Tasks : HecateAnswers(t) \/ CallFails(t)
    \/ HecateEnrolls \/ HecateRejects

Next == StartUp \/ Bootstrap \/ SyncLoop \/ HeartbeatLoop \/ Crash \/ Operator
        \/ Hecate

Spec == Init /\ [][Next]_vars

(* The sync loop never ends (main.rs 77-86) and a request ends with its    *)
(* answer or its timeout; a proxy that keeps asking is at times answered.  *)
Fairness ==
    /\ WF_vars(SyncSend)
    /\ WF_vars(SyncReceive("sync"))
    /\ SF_vars(HecateAnswers("sync"))

FairSpec == Spec /\ Fairness

-----------------------------------------------------------------------------
(* Properties.                                                             *)

(* What is on disk, whenever both files are whole, is an id and a key that *)
(* Hecate accepted together: no crash, lost reply, rejection or wipe mixes *)
(* the id of one enrolment with the key of another (sync.rs 107-191).      *)
DiskPairAccepted ==
    idFile \in Proxies /\ keyFile \in Keys => <<idFile, keyFile>> \in accepted

(* A restart never goes back: when a running process signs with credentials *)
(* that Hecate has on record, a whole pair on disk is that very pair.  Only *)
(* the disk may be ahead of memory, after a sync_all that failed or while   *)
(* memory has still to follow (sync.rs 143-144, state.rs 112-178).          *)
WorkingPairOnDisk ==
    boot \in Running /\ memId \in Proxies /\ idFile \in Proxies /\ keyFile \in Keys
        => (registry[memId].key = memKey => memId = idFile /\ memKey = keyFile)

(* Credentials that authenticate with Hecate.                              *)
CredentialsWork ==
    /\ idFile \in Proxies /\ keyFile \in Keys
    /\ registry[idFile].key = keyFile
    /\ registry[idFile].state # "unknown"

(* Unless the operator forces a re-enrolment, working credentials stop     *)
(* working only because Hecate changed its mind about them or the operator *)
(* ran `forget', never because of a leftover token (sync.rs 34-55).        *)
WorkingCredentialsKept ==
    [][CredentialsWork /\ ~env.force /\ registry' = registry /\ ~Forgetting
        => CredentialsWork']_vars

(* "[...] otherwise a rejected leftover token would orphan the previous    *)
(* working credentials" (sync.rs 126-127, CHANGELOG 10): the same whether  *)
(* a re-enrolment is forced or not.  An accepted rotation changes the      *)
(* registry first, so it is no exception.                                  *)
RejectedTokenHarmless ==
    [][CredentialsWork /\ registry' = registry /\ ~Forgetting
        => CredentialsWork']_vars

(* Traffic is let through only for an identity that is in memory, on disk, *)
(* and was approved by an administrator at some time (sync.rs 180-187,     *)
(* 210-213, 266).                                                          *)
ForwardingApproved ==
    forwarding => memId \in approved /\ idFile = memId

(* A proxy that Hecate has revoked for good stops forwarding for good:     *)
(* late 200s of other tasks do not keep the gate open (architecture.md 20, *)
(* sync.rs 210-213, 309-312).                                              *)
RevocationStops ==
    \A p \in Proxies :
        <>[](memId = p /\ registry[p].state = "revoked") => <>[]~forwarding

(* A proxy whose credentials work and who is approved ends up forwarding:  *)
(* no stale 403 of another task closes the gate for good (sync.rs 210-213, *)
(* 309-312).                                                               *)
Ready == /\ boot = "done"
         /\ memId \in Proxies
         /\ registry[memId] = [key |-> memKey, state |-> "active"]

ReadyForwards == <>[]Ready => <>[]forwarding

(* What a ProxyGate keeps is a whole id file.                               *)
KeptId == IF idFile \in Proxies THEN idFile ELSE None

Gate == INSTANCE ProxyGate WITH id <- memId, kept <- KeptId, open <- forwarding

(* A proxy is one identity behind a gate: no crash, lost answer, rejection  *)
(* or leftover token replaces or drops the identity or opens the gate for   *)
(* another; only `forget' does, and only while no process has it (sync.rs   *)
(* 34-55, 180-187, 210-213, state.rs 128-178).                              *)
KeepsIdentity == Gate!Spec

(* `forget' disables forwarding until a new enrolment (install.md 26): when *)
(* the command has rotated the key and ends, and no enrolment has brought a *)
(* proxy_id back, nothing is forwarded.                                     *)
ForgetStopsForwarding == [][ForgetDone /\ idFile = None => ~forwarding]_vars
=============================================================================
