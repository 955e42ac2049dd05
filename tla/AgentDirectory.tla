--------------------------- MODULE AgentDirectory ---------------------------
(* The tables of agents and of enrolment tokens that the proxy keeps of     *)
(* Hecate's, and what runs on them side by side: the two tasks that refresh *)
(* them entry by entry from a sync (sync.rs 190-256), the handlers that     *)
(* enrol an agent (main.rs 185-222), and those that verify agents' requests *)
(* (AgentRequests).  Hecate's registry moves on meanwhile.                  *)
(*                                                                          *)
(* A handler that found the gate open may go on for any time after it was   *)
(* closed, so what counts here is whether it has been open at all.  Left    *)
(* out are the expiry of tokens, which only refuses more, and the tokens    *)
(* for proxies, which only an enrolment of the proxy itself looks at.       *)
EXTENDS Integers

CONSTANTS
    Agents, Nonces, Keys, Entries, Workers,     \* as in AgentRequests
    Skew, Ttl, Pause, MaxTime, Absent,
    Tokens,
    Bound,      \* bound_machine_id of a token, Absent without one
    Handlers,   \* handler tasks that may enrol at the same time
    MaxChanges, \* bound: changes of Hecate's registry
    MaxRestarts \* bound: restarts of the proxy

VARIABLES
    now, agents, nonces, verifying, accepted,   \* as in AgentRequests
    opened,     \* has this process opened its gate?
    tokens,     \* AppState.enrollment_tokens: those cached as unused
    task,       \* bootstrap and the sync loop: what each applies or waits for
    enrolling,  \* the enrolment each handler is in
    registry,   \* Hecate: the agents,
    issued,     \* the enrolment tokens
    registered, \* and, as history, all it ever had on record for an agent
    changes, restarts

requests  == <<now, agents, nonces, verifying, accepted>>
hecate    == <<registry, issued, registered, changes>>
directory == <<opened, tokens, task, enrolling>>
vars      == <<requests, directory, hecate, restarts>>

Requests == INSTANCE AgentRequests

(* What an enrolment caches (upsert_agent_from_enroll) and Hecate records.  *)
Enrolled(k) == [state |-> "active", key |-> k, previous |-> Absent, until |-> 0]

ASSUME DirectoryAssumption ==
    /\ Skew \in Nat /\ Ttl \in Nat /\ Pause \in Nat /\ MaxTime \in Nat
    /\ 0 < Ttl /\ Skew <= Ttl
    /\ Entries \subseteq [state : {"active", "revoked"}, key : Keys,
                          previous : Keys \cup {Absent}, until : 0..MaxTime]
    /\ Absent \notin Agents \cup Keys \cup Entries
    /\ \A k \in Keys : Enrolled(k) \in Entries
    /\ Bound \in [Tokens -> Agents \cup {Absent}]
    /\ MaxChanges \in Nat /\ MaxRestarts \in Nat

Tasks      == {"boot", "sync"}
TokenState == {"none", "unused", "used"}
Tables     == [Agents -> Entries \cup {Absent}]
Stages     == {"due", "sent", "apply", "tokens", "over"}
NoEnrolment == [stage |-> "idle", token |-> Absent, agent |-> Absent, key |-> Absent]
Enrolments  == [stage : {"asked", "claimed", "upsert", "remove"},
                token : Tokens, agent : Agents \cup {Absent}, key : Keys]

TypeOK ==
    /\ Requests!TypeOK
    /\ opened \in BOOLEAN /\ tokens \subseteq Tokens
    /\ task \in [Tasks -> [stage : Stages, agents : Tables, tokens : SUBSET Tokens,
                           clear : SUBSET Agents, fill : SUBSET Agents]]
    /\ enrolling \in [Handlers -> Enrolments \cup {NoEnrolment}]
    /\ registry \in Tables /\ issued \in [Tokens -> TokenState]
    /\ registered \in [Agents -> SUBSET Entries]
    /\ changes \in 0..MaxChanges /\ restarts \in 0..MaxRestarts

NoAgents == [a \in Agents |-> Absent]
Stage(s) == [stage |-> s, agents |-> NoAgents, tokens |-> {},
             clear |-> {}, fill |-> {}]

Init ==
    /\ Requests!Init
    /\ opened = FALSE /\ tokens = {}
    /\ task = [t \in Tasks |-> Stage("due")]
    /\ enrolling = [h \in Handlers |-> NoEnrolment]
    /\ registry = NoAgents /\ issued = [x \in Tokens |-> "none"]
    /\ registered = [a \in Agents |-> {}]
    /\ changes = 0 /\ restarts = 0

-----------------------------------------------------------------------------
(* Hecate (external).  An agent enrols elsewhere, rotates its credential,   *)
(* is revoked or removed; a token is issued.                                *)
Record(a, e) ==
    /\ changes < MaxChanges /\ changes' = changes + 1
    /\ registry' = [registry EXCEPT ![a] = e]
    /\ registered' = [registered EXCEPT ![a] = @ \cup ({e} \ {Absent})]

RegistryChanges(a, e) ==
    /\ Record(a, e)
    /\ UNCHANGED <<requests, directory, issued, restarts>>

TokenIssued(x) ==
    /\ issued[x] = "none"
    /\ issued' = [issued EXCEPT ![x] = "unused"]
    /\ UNCHANGED <<requests, directory, registry, registered, changes, restarts>>

-----------------------------------------------------------------------------
(* A sync.  bootstrap runs it at most once in a process, the loop forever.  *)
Ended(t)     == Stage(IF t = "boot" THEN "over" ELSE "due")
Goto(t, s)   == task' = [task EXCEPT ![t].stage = s]
At(t, s)     == task[t].stage = s
TaskOnly     == UNCHANGED <<requests, opened, tokens, enrolling, hecate, restarts>>
TaskAgents   == UNCHANGED <<now, nonces, verifying, accepted, opened, tokens,
                            enrolling, hecate, restarts>>
TaskTokens   == UNCHANGED <<requests, opened, enrolling, hecate, restarts>>

SyncSend(t) == At(t, "due") /\ Goto(t, "sent") /\ TaskOnly

(* An answer other than 2xx, no answer, or a bootstrap that never syncs.    *)
SyncFails(t) ==
    /\ At(t, "sent") \/ (t = "boot" /\ At(t, "due"))
    /\ task' = [task EXCEPT ![t] = Ended(t)]
    /\ TaskOnly

(* Hecate lists its agents and its tokens.                                  *)
SyncAnswered(t) ==
    /\ At(t, "sent")
    /\ task' = [task EXCEPT ![t] =
                   [stage |-> "apply", agents |-> registry,
                    tokens |-> {x \in Tokens : issued[x] = "unused"},
                    clear |-> Agents,
                    fill |-> {a \in Agents : registry[a] # Absent}]]
    /\ TaskOnly

(* A writer waits for the handlers that hold a reference to the entry.      *)
Unread(a) == \A c \in verifying : c.msg.agent # a

(* Mutation: entries that the answer does not mention are left alone.       *)
ClearMentioned(t, a) ==
    /\ a \in task[t].clear /\ Unread(a)
    /\ agents' = IF a \in task[t].fill THEN [agents EXCEPT ![a] = Absent] ELSE agents
    /\ task' = [task EXCEPT ![t].clear = @ \ {a}]
    /\ TaskAgents

(* Mutation: the entry is dropped under the handlers that read it.          *)
ClearUnlocked(t, a) ==
    /\ a \in task[t].clear
    /\ agents' = [agents EXCEPT ![a] = Absent]
    /\ task' = [task EXCEPT ![t].clear = @ \ {a}]
    /\ TaskAgents

(* agents.clear() goes on shard by shard, before the inserts.               *)
Clear(t, a) ==
    /\ a \in task[t].clear /\ Unread(a)
    /\ agents' = [agents EXCEPT ![a] = Absent]
    /\ task' = [task EXCEPT ![t].clear = @ \ {a}]
    /\ TaskAgents

Fill(t, a) ==
    /\ task[t].clear = {} /\ a \in task[t].fill /\ Unread(a)
    /\ agents' = [agents EXCEPT ![a] = task[t].agents[a]]
    /\ task' = [task EXCEPT ![t].fill = @ \ {a}, ![t].agents[a] = Absent]
    /\ TaskAgents

Filled(t) == At(t, "apply") /\ task[t].clear = {} /\ task[t].fill = {}

(* Mutation: the tokens are not cleared.                                    *)
KeepTokens(t) ==
    /\ Filled(t)
    /\ Goto(t, "tokens")
    /\ TaskOnly

ClearTokens(t) ==
    /\ Filled(t)
    /\ tokens' = {}
    /\ Goto(t, "tokens")
    /\ TaskTokens

LearnToken(t, x) ==
    /\ At(t, "tokens") /\ x \in task[t].tokens
    /\ tokens' = tokens \cup {x}
    /\ task' = [task EXCEPT ![t].tokens = @ \ {x}]
    /\ TaskTokens

(* The unbans are the rate limiter's; then the gate opens.                  *)
Open(t) ==
    /\ At(t, "tokens") /\ task[t].tokens = {}
    /\ opened' = TRUE
    /\ task' = [task EXCEPT ![t] = Ended(t)]
    /\ UNCHANGED <<requests, tokens, enrolling, hecate, restarts>>

Apply(t) ==
    \/ \E a \in Agents : Clear(t, a) \/ Fill(t, a)
    \/ \E x \in Tokens : LearnToken(t, x)
    \/ ClearTokens(t) \/ Open(t)

-----------------------------------------------------------------------------
(* An enrolment.  It takes up a token that is cached unused; an agent id    *)
(* that comes with it must be the one the token is bound to.                *)
Stands(h, s) == enrolling[h].stage = s
Leave(h)     == enrolling' = [enrolling EXCEPT ![h] = NoEnrolment]
HandlerOnly  == UNCHANGED <<requests, opened, tokens, task, hecate, restarts>>

PrecheckEnroll(h, x, id, k) ==
    /\ opened /\ Stands(h, "idle")
    /\ x \in tokens
    /\ id # Absent => Bound[x] = id
    /\ enrolling' = [enrolling EXCEPT ![h] =
                        [stage |-> "asked", token |-> x, agent |-> Absent, key |-> k]]
    /\ HandlerOnly

(* Hecate (external) takes up an unused token: for the machine it is bound  *)
(* to, or for a new one.                                                    *)
EnrolmentClaimed(h, a) ==
    LET x == enrolling[h].token IN
    /\ Stands(h, "asked")
    /\ issued[x] = "unused"
    /\ Bound[x] = a \/ (Bound[x] = Absent /\ registry[a] = Absent)
    /\ Record(a, Enrolled(enrolling[h].key))
    /\ issued' = [issued EXCEPT ![x] = "used"]
    /\ enrolling' = [enrolling EXCEPT ![h].stage = "claimed", ![h].agent = a]
    /\ UNCHANGED <<requests, opened, tokens, task, restarts>>

(* Mutation: the status of Hecate's answer is not looked at.                *)
EnrolmentRefusedUnseen(h) ==
    /\ Stands(h, "asked")
    /\ \E a \in Agents :
        enrolling' = [enrolling EXCEPT ![h].stage = "upsert", ![h].agent = a]
    /\ HandlerOnly

(* No answer, or not a 2xx: nothing changes here.                           *)
EnrolmentRefused(h) == Stands(h, "asked") /\ Leave(h) /\ HandlerOnly

(* The answer or its body is lost, or the client has gone and the handler   *)
(* with it, after Hecate enrolled the agent.                                *)
EnrolmentLost(h) == Stands(h, "claimed") /\ Leave(h) /\ HandlerOnly

(* A 2xx answer is read, as an EnrollResponse or not.                       *)
EnrolmentAnswered(h) ==
    /\ Stands(h, "claimed")
    /\ \E s \in {"upsert", "remove"} : enrolling' = [enrolling EXCEPT ![h].stage = s]
    /\ HandlerOnly

(* Mutation: the new credential is also kept as the previous one.           *)
UpsertPrevious(h) ==
    LET e == Enrolled(enrolling[h].key) IN
    /\ Stands(h, "upsert")
    /\ Unread(enrolling[h].agent)
    /\ agents' = [agents EXCEPT ![enrolling[h].agent] = [e EXCEPT !.previous = e.key]]
    /\ enrolling' = [enrolling EXCEPT ![h].stage = "remove"]
    /\ UNCHANGED <<now, nonces, verifying, accepted, opened, tokens, task, hecate, restarts>>

UpsertAgentFromEnroll(h) ==
    /\ Stands(h, "upsert")
    /\ Unread(enrolling[h].agent)
    /\ agents' = [agents EXCEPT ![enrolling[h].agent] = Enrolled(enrolling[h].key)]
    /\ enrolling' = [enrolling EXCEPT ![h].stage = "remove"]
    /\ UNCHANGED <<now, nonces, verifying, accepted, opened, tokens, task, hecate, restarts>>

RemoveToken(h) ==
    /\ Stands(h, "remove")
    /\ tokens' = tokens \ {enrolling[h].token}
    /\ Leave(h)
    /\ UNCHANGED <<requests, opened, task, hecate, restarts>>

(* A handler never hangs: the request to Hecate times out.                  *)
Handle(h) ==
    \/ EnrolmentRefused(h) \/ EnrolmentLost(h) \/ EnrolmentAnswered(h)
    \/ UpsertAgentFromEnroll(h) \/ RemoveToken(h)

-----------------------------------------------------------------------------
Verify(w, m) == opened /\ Requests!Check(w, m) /\ UNCHANGED <<directory, hecate, restarts>>

Decide(c) ==
    (Requests!Accept(c) \/ Requests!Replay(c)) /\ UNCHANGED <<directory, hecate, restarts>>

Tick == Requests!Tick /\ UNCHANGED <<directory, hecate, restarts>>

Restart ==
    /\ restarts < MaxRestarts /\ restarts' = restarts + 1
    /\ Requests!Restart
    /\ opened' = FALSE /\ tokens' = {}
    /\ task' = [t \in Tasks |-> Stage("due")]
    /\ enrolling' = [h \in Handlers |-> NoEnrolment]
    /\ UNCHANGED hecate

Next ==
    \/ \E a \in Agents, e \in Entries \cup {Absent} : RegistryChanges(a, e)
    \/ \E x \in Tokens : TokenIssued(x)
    \/ \E t \in Tasks : SyncSend(t) \/ SyncFails(t) \/ SyncAnswered(t) \/ Apply(t)
    \/ \E h \in Handlers, x \in Tokens, id \in Agents \cup {Absent}, k \in Keys :
        PrecheckEnroll(h, x, id, k)
    \/ \E h \in Handlers, a \in Agents : EnrolmentClaimed(h, a)
    \/ \E h \in Handlers : Handle(h)
    \/ \E w \in Workers, m \in Requests!Messages : Verify(w, m)
    \/ \E c \in verifying : Decide(c)
    \/ Tick
    \/ Restart

Spec == Init /\ [][Next]_vars

(* The tasks and the handlers go on; a lock that is free again and again is *)
(* taken; of the syncs that are sent again and again some succeed.          *)
Fairness ==
    /\ WF_vars(SyncSend("sync")) /\ SF_vars(SyncAnswered("sync"))
    /\ \A t \in Tasks : SF_vars(Apply(t))
    /\ \A h \in Handlers : SF_vars(Handle(h))
    /\ WF_vars(\E c \in verifying : Decide(c))

FairSpec == Spec /\ Fairness

-----------------------------------------------------------------------------
(* Properties.                                                              *)

(* For the verification of requests, the refreshes and the enrolments are   *)
(* what it takes them for: an entry replaced or removed at a time, never    *)
(* under a handler that reads it (state.rs 180-195, sync.rs 222-238).       *)
VerifiesRequests == Requests!Spec

(* Whatever refreshes, enrolments, restarts and lost answers came between,  *)
(* a request is accepted only under a key that Hecate had on record for its *)
(* agent (sync.rs 222-238, main.rs 200-215, validate.rs 39-63).             *)
AcceptedWasRegistered ==
    \A r \in accepted : \E e \in registered[r.msg.agent] :
        r.msg.key \in {e.key, e.previous}

(* Once Hecate's record of an agent stays as it is, the cached entry comes  *)
(* to be that record again and again, and nothing else, although late       *)
(* refreshes and enrolments bring back old entries for a while, and every   *)
(* refresh leaves a moment without any (sync.rs 222-238, main.rs 206-210).  *)
Converges ==
    \A a \in Agents, e \in Entries \cup {Absent} :
        <>[](registry[a] = e) =>
            <>[](agents[a] \in {e, Absent}) /\ []<>(agents[a] = e)

(* A token that Hecate has seen used ends up refused here, also when the    *)
(* answer to the enrolment was lost and an older sync listed it unused      *)
(* (sync.rs 240-245, main.rs 212-214, validate.rs 89-102).                  *)
SpentTokensRefused ==
    \A x \in Tokens : [](issued[x] = "used" => <>[](x \notin tokens))
=============================================================================
