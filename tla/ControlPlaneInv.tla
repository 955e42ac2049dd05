-------------------------- MODULE ControlPlaneInv ---------------------------
(* The inductive invariant behind DiskPairAccepted.                         *)
(* It says, for each stretch of the bootstrap task, how disk, memory and    *)
(* the outstanding enrolment are related.  It holds when `forget' is only   *)
(* run beside a stopped process (LiveForget = FALSE).                       *)
EXTENDS ControlPlane

Enrolling == {"enroll", "enrolling", "openId", "writeId", "swapId"}
Wiping    == {"wipeOpen", "wipeWrite", "wipeKey", "wipeId", "wipeGate"}
Rotating  == {"openKey", "writeKey", "swapKey"}
Persisting == Rotating \cup {"openId", "writeId", "swapId"}

(* The bootstrap task has written no credential yet.                       *)
Unwritten == {"begin", "probe", "reenroll", "rotate", "openKey", "writeKey", "wipe"}

(* `forget' and the process exclude each other, and `forget' takes the id  *)
(* away before it touches the key.                                         *)
ForgetAlone == forget # "idle" => boot = "down" /\ idFile = None

(* A key file exists from the first start on; an id never without one.     *)
KeyBeforeId ==
    /\ keyFile = None => idFile = None
    /\ boot \in Running \cup {"id", "create"} => keyFile # None /\ memKey \in Keys
    /\ boot = "create" => idFile = None
    /\ boot \in {"id", "begin"} => memKey = keyFile
    /\ boot = "begin" => memId = idFile

(* While the process runs, a whole id file is the id in memory, or memory  *)
(* has none: it may never follow, as when a sync_all fails.  Until the     *)
(* bootstrap task writes, memory has what is on disk.                      *)
MemoryFollows ==
    /\ boot \in Running /\ idFile \in Proxies => memId \in {None, idFile}
    /\ boot \in Unwritten \cup {"swapKey"} /\ idFile \in Proxies => memId = idFile
    /\ boot \in Unwritten /\ idFile \in Proxies /\ keyFile \in Keys => memKey = keyFile
    /\ boot \in {"wipeGate"} \cup Enrolling => memId = None

(* A wipe and the enrolment after it run without an id file until the      *)
(* assigned id is written, and offer the key that is on disk.              *)
WithoutId ==
    /\ boot \in Wiping \cup {"enroll", "enrolling", "openId"} => idFile = None
    /\ boot = "writeId" => idFile = Torn
    /\ boot = "swapId" => idFile = answer["boot"].id
    /\ boot \in {"wipeId", "wipeGate"} \cup Enrolling => memKey = keyFile
    /\ boot = "swapKey" => keyFile = request["boot"].key

(* What the outstanding enrolment call offers, and what an acceptance of   *)
(* it means.                                                               *)
Offer ==
    /\ boot = "reenroll" => env.token # None
    /\ boot \in {"rotate", "enrolling"} \cup Persisting =>
        /\ request["boot"].token # None
        /\ Answered("boot", "ok") =>
              <<answer["boot"].id, request["boot"].key>> \in accepted
    /\ boot \in {"enrolling", "openId", "writeId", "swapId"} =>
        request["boot"].key = memKey
    /\ boot \in Persisting => Answered("boot", "ok")
    /\ boot \in Rotating => answer["boot"].id = memId
    /\ request["boot"].token # None =>
        request["boot"].key \in Keys /\ boot \in {"rotate", "enrolling"} \cup Persisting

Relations ==
    /\ DiskPairAccepted
    /\ ForgetAlone
    /\ KeyBeforeId
    /\ MemoryFollows
    /\ WithoutId
    /\ Offer

IdentityInv == TypeOK /\ Relations

-----------------------------------------------------------------------------
(* The inductive invariant behind WorkingCredentialsKept and               *)
(* WorkingPairOnDisk.                                                       *)

(* Steps that go on to replace or wipe the credentials.                    *)
Replacing == {"reenroll", "rotate", "openKey", "writeKey", "wipe"}

(* Keys on disk, in memory and in an enrolment were all drawn, so a new    *)
(* one is none of them.                                                    *)
KeysDrawn ==
    /\ {keyFile, memKey, request["boot"].key} \cap Keys \subseteq issued
    /\ boot \in {"rotate", "openKey", "writeKey"} => request["boot"].key # keyFile
    /\ boot \in {"rotate"} \cup Rotating => request["boot"].key # memKey

(* The probe asks about the credentials in memory; whoever goes on to      *)
(* replace them was forced to, or knows that they do not work.             *)
ReplacedOnlyIfDead ==
    /\ boot = "probe" =>
        /\ request["boot"] = [id |-> memId, key |-> memKey, token |-> None]
        /\ Answered("boot", "unauthorized") => ~CredentialsWork
    /\ boot \in Replacing => env.force \/ ~CredentialsWork

(* From the acceptance of a new key on, Hecate has it on record.           *)
NewKeyOnRecord ==
    boot \in Rotating \/ (boot = "rotate" /\ Answered("boot", "ok"))
        => registry[answer["boot"].id].key = request["boot"].key

CredentialsInv ==
    IdentityInv /\ KeysDrawn /\ ReplacedOnlyIfDead /\ NewKeyOnRecord
    /\ WorkingPairOnDisk

-----------------------------------------------------------------------------
(* The inductive invariant behind ForwardingApproved, for a process that is *)
(* never forced to re-enrol and proxies that are not deleted.               *)
Undisturbed == ~LiveForget /\ ~MayDelete /\ \A e \in Settings : ~e.force

(* Nothing replaces or wipes credentials, as none of them is ever dead: an  *)
(* id is on disk only with the key that Hecate has for it.                  *)
NothingReplaced == boot \notin Replacing \cup Rotating \cup Wiping

NeverDead ==
    /\ idFile \in Proxies /\ keyFile \in Keys => CredentialsWork
    /\ boot \in {"openId", "writeId", "swapId"}
       \/ (boot = "enrolling" /\ Answered("boot", "ok")) =>
        /\ registry[answer["boot"].id].key = memKey
        /\ registry[answer["boot"].id].state # "unknown"

(* What a running process has in memory is on disk; without a process there *)
(* is neither gate nor call.                                                *)
DiskFollows ==
    /\ boot \in Running => keyFile = memKey
    /\ boot \in Running /\ memId # None => idFile = memId
    /\ boot \in {"gate", "resync"} => memId # None
    /\ boot \notin Running => ~forwarding /\ \A t \in Tasks : Idle(t)
    /\ boot \in Starting \cup {"down"} => memId = None

(* A signed call in progress is about the id and key in memory, and a 200   *)
(* is for a proxy that was approved.                                        *)
CallsCurrent ==
    /\ \A t \in Tasks : request[t].token # None =>
        t = "boot" /\ boot \in {"enrolling", "openId", "writeId", "swapId"}
    /\ \A t \in Tasks : ~Idle(t) /\ request[t].token = None =>
        /\ memId # None /\ request[t].id = memId /\ request[t].key = memKey
        /\ answer[t].verdict # "unauthorized"
        /\ answer[t].verdict \in {"ok", "apply"} => memId \in approved
    /\ \A p \in Proxies : registry[p].state = "active" => p \in approved

GateRelations == NothingReplaced /\ NeverDead /\ DiskFollows /\ CallsCurrent
                 /\ ForwardingApproved

GateInv == IdentityInv /\ GateRelations
=============================================================================
