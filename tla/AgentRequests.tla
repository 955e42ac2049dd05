--------------------------- MODULE AgentRequests ----------------------------
(* The verification of signed agent requests (validate.rs) with its nonce  *)
(* cache (nonce.rs), as handler tasks run it side by side.  A task reads   *)
(* the clock, checks skew, credential and signature, and only later takes  *)
(* the nonce cache's lock, so time passes and other tasks move in between. *)
(* The cached agent's entry stays read-locked until the handler returns.   *)
(*                                                                         *)
(* A request that is refused before the nonce cache changes nothing, so    *)
(* only requests that pass the first half are taken up.  Wall clock and    *)
(* monotonic clock are one clock here, in units of a tick.                 *)
EXTENDS Integers

CONSTANTS
    Agents, Nonces, Keys,
    Entries,    \* what a sync or an enrolment may cache for an agent
    Workers,    \* handler tasks that may verify at the same time
    Skew,       \* MAX_CLOCK_SKEW_MS
    Ttl,        \* TTL of a nonce
    Pause,      \* bound: longest delay between the two halves of a check
    MaxTime,    \* bound: last tick of the clock
    Absent      \* an agent that is not cached; no previous credential

ASSUME RequestsAssumption ==
    /\ Skew \in Nat /\ Ttl \in Nat /\ Pause \in Nat /\ MaxTime \in Nat
    /\ 0 < Ttl /\ Skew <= Ttl
    /\ Absent \notin Keys \cup Entries
    /\ Entries \subseteq [state : {"active", "revoked"}, key : Keys,
                          previous : Keys \cup {Absent}, until : 0..MaxTime]

VARIABLES
    now,        \* the clock
    agents,     \* AppState.agents
    nonces,     \* NonceCache.inner
    verifying,  \* the checks in progress, at most one per handler task
    accepted    \* history: requests accepted since the process started

vars == <<now, agents, nonces, verifying, accepted>>

Clock    == 0..MaxTime
Messages == [agent : Agents, stamp : 0..(MaxTime + Skew), nonce : Nonces, key : Keys]
Checks   == [by : Workers, msg : Messages, since : Clock]

TypeOK ==
    /\ now \in Clock
    /\ agents \in [Agents -> Entries \cup {Absent}]
    /\ nonces \subseteq [agent : Agents, nonce : Nonces, expires : 0..(MaxTime + Ttl)]
    /\ verifying \subseteq Checks
    /\ accepted \subseteq [msg : Messages, at : Clock]

Init ==
    /\ now = 0
    /\ agents = [a \in Agents |-> Absent]
    /\ nonces = {} /\ verifying = {} /\ accepted = {}

-----------------------------------------------------------------------------
(* The signature verifies under the current credential, or under the       *)
(* previous one while that has not expired.                                *)
Verifies(e, m) ==
    \/ m.key = e.key
    \/ m.key = e.previous /\ e.until > now

(* Mutation: nothing is too old.                                           *)
CheckFutureOnly(w, m) ==
    /\ \A c \in verifying : c.by # w
    /\ m.stamp - now <= Skew
    /\ agents[m.agent] # Absent
    /\ agents[m.agent].state # "revoked"
    /\ Verifies(agents[m.agent], m)
    /\ verifying' = verifying \cup {[by |-> w, msg |-> m, since |-> now]}
    /\ UNCHANGED <<now, agents, nonces, accepted>>

(* First half of verify_signed_agent_request: skew, entry, signature.      *)
Check(w, m) ==
    /\ \A c \in verifying : c.by # w
    /\ now - m.stamp <= Skew /\ m.stamp - now <= Skew
    /\ agents[m.agent] # Absent
    /\ agents[m.agent].state # "revoked"
    /\ Verifies(agents[m.agent], m)
    /\ verifying' = verifying \cup {[by |-> w, msg |-> m, since |-> now]}
    /\ UNCHANGED <<now, agents, nonces, accepted>>

(* NonceCache::insert, under its mutex: expired nonces are dropped, then   *)
(* the nonce is looked up, then recorded.                                  *)
LiveEarly == {n \in nonces : n.expires > now + 1}  \* mutation: dropped a tick early

Live == {n \in nonces : n.expires > now}

Recorded(m) == \E n \in Live : n.agent = m.agent /\ n.nonce = m.nonce

(* Mutation: a nonce is kept for the whole window of valid timestamps.     *)
AcceptLong(c) ==
    /\ ~Recorded(c.msg)
    /\ nonces' = Live \cup {[agent |-> c.msg.agent, nonce |-> c.msg.nonce,
                             expires |-> now + Skew + Ttl]}
    /\ accepted' = accepted \cup {[msg |-> c.msg, at |-> now]}
    /\ verifying' = verifying \ {c}
    /\ UNCHANGED <<now, agents>>

Accept(c) ==
    /\ ~Recorded(c.msg)
    /\ nonces' = Live \cup {[agent |-> c.msg.agent, nonce |-> c.msg.nonce,
                             expires |-> now + Ttl]}
    /\ accepted' = accepted \cup {[msg |-> c.msg, at |-> now]}
    /\ verifying' = verifying \ {c}
    /\ UNCHANGED <<now, agents>>

Replay(c) ==
    /\ Recorded(c.msg)
    /\ nonces' = Live
    /\ verifying' = verifying \ {c}
    /\ UNCHANGED <<now, agents, accepted>>

(* Mutation: the entry is not kept locked while a handler verifies.        *)
PutUnlocked(a, e) ==
    /\ agents' = [agents EXCEPT ![a] = e]
    /\ UNCHANGED <<now, nonces, verifying, accepted>>

(* A sync or an enrolment replaces or removes a cached agent; it waits for *)
(* the handlers that hold a reference to the entry.                        *)
Put(a, e) ==
    /\ \A c \in verifying : c.msg.agent # a
    /\ agents' = [agents EXCEPT ![a] = e]
    /\ UNCHANGED <<now, nonces, verifying, accepted>>

Tick ==
    /\ now < MaxTime
    /\ \A c \in verifying : now - c.since < Pause
    /\ now' = now + 1
    /\ UNCHANGED <<agents, nonces, verifying, accepted>>

Restart ==
    /\ now > 0
    /\ agents' = [a \in Agents |-> Absent]
    /\ nonces' = {} /\ verifying' = {} /\ accepted' = {}
    /\ UNCHANGED now

Next ==
    \/ \E w \in Workers, m \in Messages : Check(w, m)
    \/ \E c \in verifying : Accept(c) \/ Replay(c)
    \/ \E a \in Agents, e \in Entries \cup {Absent} : Put(a, e)
    \/ Tick
    \/ Restart

Spec == Init /\ [][Next]_vars

-----------------------------------------------------------------------------
(* Properties.                                                             *)

(* Two requests of one agent with one nonce are accepted at least Ttl      *)
(* apart, whichever tasks verify them and however they interleave          *)
(* (nonce.rs 24-33).                                                       *)
SpacedByTtl ==
    [][\A c \in verifying : Accept(c) =>
        \A r \in accepted :
            r.msg.agent = c.msg.agent /\ r.msg.nonce = c.msg.nonce
                => now >= r.at + Ttl]_vars

(* Skew check and nonce cache together: the very same request is accepted  *)
(* a second time only if its timestamp was not in the past, by more than   *)
(* the pause between skew check and nonce check, when it was first         *)
(* accepted (validate.rs 30-33 and 65-67, nonce.rs 10: Skew = Ttl).        *)
AcceptedOnce ==
    [][\A c \in verifying : Accept(c) =>
        \A r \in accepted : r.msg = c.msg => r.msg.stamp + Pause >= r.at]_vars

(* What is accepted is signed by an agent that the cache holds unrevoked   *)
(* at that moment, under its current credential or a previous one that has *)
(* not been expired for longer than the pause (validate.rs 39-63).         *)
AcceptedUnderCurrentEntry ==
    [][\A c \in verifying : Accept(c) =>
        LET e == agents[c.msg.agent] IN
        /\ e # Absent
        /\ e.state # "revoked"
        /\ \/ c.msg.key = e.key
           \/ c.msg.key = e.previous /\ now < e.until + Pause]_vars
=============================================================================
