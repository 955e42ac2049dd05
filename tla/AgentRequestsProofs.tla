------------------------ MODULE AgentRequestsProofs -------------------------
(* Proofs about AgentRequests, for any agents, nonces, keys, handler tasks, *)
(* clock range, skew and pause, and any nonce lifetime that covers the skew.*)
EXTENDS AgentRequests, TLAPS

(* Every acceptance younger than Ttl is still in the nonce cache.           *)
Remembered ==
    \A r \in accepted :
        /\ r.at <= now
        /\ now < r.at + Ttl =>
              [agent |-> r.msg.agent, nonce |-> r.msg.nonce,
               expires |-> r.at + Ttl] \in nonces

(* A check in progress began at most Pause ago, on a timestamp within skew. *)
ChecksFresh ==
    \A c \in verifying :
        /\ c.since <= now /\ now <= c.since + Pause
        /\ c.since - c.msg.stamp <= Skew

(* The entry a check in progress has looked at is still the cached one.     *)
ChecksCurrent ==
    \A c \in verifying :
        LET e == agents[c.msg.agent] IN
        /\ e # Absent
        /\ e.state # "revoked"
        /\ \/ c.msg.key = e.key
           \/ c.msg.key = e.previous /\ e.until > c.since

RequestsInv == TypeOK /\ Remembered /\ ChecksFresh /\ ChecksCurrent

-----------------------------------------------------------------------------
LEMMA TypeStep == TypeOK /\ [Next]_vars => TypeOK'
<1> SUFFICES ASSUME TypeOK, [Next]_vars PROVE TypeOK'
  OBVIOUS
<1> USE RequestsAssumption DEF TypeOK, Clock
<1>1. ASSUME NEW w \in Workers, NEW m \in Messages, Check(w, m) PROVE TypeOK'
  BY <1>1 DEF Check, Checks
<1>2. ASSUME NEW c \in verifying, Accept(c) PROVE TypeOK'
  <2>1. c.msg \in Messages /\ c.msg.agent \in Agents /\ c.msg.nonce \in Nonces
    BY DEF Checks, Messages
  <2>2. now + Ttl \in 0..(MaxTime + Ttl)
    OBVIOUS
  <2> QED
    BY <1>2, <2>1, <2>2 DEF Accept, Live
<1>3. ASSUME NEW c \in verifying, Replay(c) PROVE TypeOK'
  BY <1>3 DEF Replay, Live
<1>4. ASSUME NEW a \in Agents, NEW e \in Entries \cup {Absent}, Put(a, e)
      PROVE  TypeOK'
  BY <1>4 DEF Put
<1>5. CASE Tick
  BY <1>5 DEF Tick
<1>6. CASE Restart
  BY <1>6 DEF Restart
<1>7. CASE UNCHANGED vars
  BY <1>7 DEF vars
<1> QED
  BY <1>1, <1>2, <1>3, <1>4, <1>5, <1>6, <1>7 DEF Next

(* The nonce cache forgets an acceptance only once it is Ttl old.           *)
LEMMA RememberedStep == RequestsInv /\ [Next]_vars => Remembered'
<1> SUFFICES ASSUME RequestsInv, [Next]_vars PROVE Remembered'
  OBVIOUS
<1> USE RequestsAssumption DEF RequestsInv, TypeOK, Clock, Remembered
<1>0. \A r \in accepted : r.at \in Nat
  OBVIOUS
<1>1. ASSUME NEW w \in Workers, NEW m \in Messages, Check(w, m) PROVE Remembered'
  BY <1>1 DEF Check
<1>2. ASSUME NEW c \in verifying, Accept(c) PROVE Remembered'
  <2> SUFFICES ASSUME NEW r \in accepted'
               PROVE  /\ r.at <= now'
                      /\ now' < r.at + Ttl =>
                            [agent |-> r.msg.agent, nonce |-> r.msg.nonce,
                             expires |-> r.at + Ttl] \in nonces'
    OBVIOUS
  <2>1. CASE r \in accepted
    BY <1>0, <1>2, <2>1 DEF Accept, Live
  <2>2. CASE r = [msg |-> c.msg, at |-> now]
    BY <1>2, <2>2 DEF Accept
  <2> QED
    BY <1>2, <2>1, <2>2 DEF Accept
<1>3. ASSUME NEW c \in verifying, Replay(c) PROVE Remembered'
  BY <1>0, <1>3 DEF Replay, Live
<1>4. ASSUME NEW a \in Agents, NEW e \in Entries \cup {Absent}, Put(a, e)
      PROVE  Remembered'
  BY <1>4 DEF Put
<1>5. CASE Tick
  BY <1>0, <1>5 DEF Tick
<1>6. CASE Restart
  BY <1>6 DEF Restart
<1>7. CASE UNCHANGED vars
  BY <1>7 DEF vars
<1> QED
  BY <1>1, <1>2, <1>3, <1>4, <1>5, <1>6, <1>7 DEF Next

(* The clock waits for checks in progress, and the lock on the entry keeps  *)
(* syncs away from it.                                                      *)
LEMMA ChecksStep == RequestsInv /\ [Next]_vars => ChecksFresh' /\ ChecksCurrent'
<1> SUFFICES ASSUME RequestsInv, [Next]_vars PROVE ChecksFresh' /\ ChecksCurrent'
  OBVIOUS
<1> USE RequestsAssumption
    DEF RequestsInv, TypeOK, Clock, Checks, Messages, ChecksFresh, ChecksCurrent
<1>1. ASSUME NEW w \in Workers, NEW m \in Messages, Check(w, m)
      PROVE  ChecksFresh' /\ ChecksCurrent'
  BY <1>1 DEF Check, Verifies
<1>2. ASSUME NEW c \in verifying, Accept(c) PROVE ChecksFresh' /\ ChecksCurrent'
  BY <1>2 DEF Accept
<1>3. ASSUME NEW c \in verifying, Replay(c) PROVE ChecksFresh' /\ ChecksCurrent'
  BY <1>3 DEF Replay
<1>4. ASSUME NEW a \in Agents, NEW e \in Entries \cup {Absent}, Put(a, e)
      PROVE  ChecksFresh' /\ ChecksCurrent'
  BY <1>4 DEF Put
<1>5. CASE Tick
  BY <1>5 DEF Tick
<1>6. CASE Restart
  BY <1>6 DEF Restart
<1>7. CASE UNCHANGED vars
  BY <1>7 DEF vars
<1> QED
  BY <1>1, <1>2, <1>3, <1>4, <1>5, <1>6, <1>7 DEF Next

LEMMA RequestsInvariant == Spec => []RequestsInv
<1>1. Init => RequestsInv
  BY RequestsAssumption
  DEF Init, RequestsInv, TypeOK, Clock, Remembered, ChecksFresh, ChecksCurrent
<1>2. RequestsInv /\ [Next]_vars => RequestsInv'
  BY TypeStep, RememberedStep, ChecksStep DEF RequestsInv
<1> QED
  BY <1>1, <1>2, PTL DEF Spec

-----------------------------------------------------------------------------
(* No interleaving of checks, syncs and restarts takes a variable out of    *)
(* its type (validate.rs 16-66, nonce.rs).                                  *)
THEOREM TypeCorrect == Spec => []TypeOK
<1>1. RequestsInv => TypeOK
  BY DEF RequestsInv
<1> QED
  BY <1>1, RequestsInvariant, PTL

(* One agent's nonce is accepted at most once in any Ttl, however many      *)
(* handler tasks race for it.                                               *)
THEOREM NoncesAreSpaced == Spec => SpacedByTtl
<1> DEFINE Spaced == \A c \in verifying : Accept(c) =>
        \A r \in accepted :
            r.msg.agent = c.msg.agent /\ r.msg.nonce = c.msg.nonce
                => now >= r.at + Ttl
<1>1. RequestsInv => Spaced
  <2> SUFFICES ASSUME RequestsInv, NEW c \in verifying, Accept(c),
                      NEW r \in accepted,
                      r.msg.agent = c.msg.agent, r.msg.nonce = c.msg.nonce
               PROVE  now >= r.at + Ttl
    OBVIOUS
  <2>1. now \in Nat /\ r.at \in Nat /\ Ttl \in Nat
    BY RequestsAssumption DEF RequestsInv, TypeOK, Clock
  <2> SUFFICES ASSUME now < r.at + Ttl PROVE FALSE
    BY <2>1
  <2>2. [agent |-> r.msg.agent, nonce |-> r.msg.nonce, expires |-> r.at + Ttl]
          \in Live
    BY <2>1 DEF RequestsInv, Remembered, Live
  <2> QED
    BY <2>2 DEF Accept, Recorded
<1>2. RequestsInv => [Spaced]_vars
  BY <1>1
<1> QED
  BY <1>2, RequestsInvariant, PTL DEF SpacedByTtl

(* A request whose timestamp lies in the past by more than the pause when   *)
(* it is accepted is never accepted again: before its nonce is forgotten    *)
(* its timestamp is out of skew, because the nonce lives as long as the     *)
(* skew window is wide.                                                     *)
THEOREM RequestsAcceptedOnce == Spec => AcceptedOnce
<1> DEFINE Once == \A c \in verifying : Accept(c) =>
        \A r \in accepted : r.msg = c.msg => r.msg.stamp + Pause >= r.at
<1>1. RequestsInv => Once
  <2> SUFFICES ASSUME RequestsInv, NEW c \in verifying, Accept(c),
                      NEW r \in accepted, r.msg = c.msg
               PROVE  r.msg.stamp + Pause >= r.at
    OBVIOUS
  <2>1. /\ now \in Nat /\ r.at \in Nat /\ c.since \in Nat /\ c.msg.stamp \in Nat
        /\ Ttl \in Nat /\ Skew \in Nat /\ Pause \in Nat /\ Skew <= Ttl
    BY RequestsAssumption DEF RequestsInv, TypeOK, Clock, Checks, Messages
  <2>2. now >= r.at + Ttl
    <3> SUFFICES ASSUME now < r.at + Ttl PROVE FALSE
      BY <2>1
    <3>1. [agent |-> r.msg.agent, nonce |-> r.msg.nonce, expires |-> r.at + Ttl]
            \in Live
      BY <2>1 DEF RequestsInv, Remembered, Live
    <3> QED
      BY <3>1 DEF Accept, Recorded
  <2>3. now <= c.since + Pause /\ c.since - c.msg.stamp <= Skew
    BY DEF RequestsInv, ChecksFresh
  <2> QED
    BY <2>1, <2>2, <2>3
<1>2. RequestsInv => [Once]_vars
  BY <1>1
<1> QED
  BY <1>2, RequestsInvariant, PTL DEF AcceptedOnce

(* No request is accepted under an entry that a sync has meanwhile removed, *)
(* revoked or rotated away.                                                 *)
THEOREM AcceptedUnderCurrent == Spec => AcceptedUnderCurrentEntry
<1> DEFINE Current == \A c \in verifying : Accept(c) =>
        LET e == agents[c.msg.agent] IN
        /\ e # Absent
        /\ e.state # "revoked"
        /\ \/ c.msg.key = e.key
           \/ c.msg.key = e.previous /\ now < e.until + Pause
<1>1. RequestsInv => Current
  <2> SUFFICES ASSUME RequestsInv, NEW c \in verifying
               PROVE  LET e == agents[c.msg.agent] IN
                      /\ e # Absent
                      /\ e.state # "revoked"
                      /\ \/ c.msg.key = e.key
                         \/ c.msg.key = e.previous /\ now < e.until + Pause
    OBVIOUS
  <2>1. agents[c.msg.agent] \in Entries
    BY DEF RequestsInv, TypeOK, ChecksCurrent, Checks, Messages
  <2>2. agents[c.msg.agent].until \in Nat /\ now \in Nat /\ c.since \in Nat
        /\ Pause \in Nat
    BY <2>1, RequestsAssumption DEF RequestsInv, TypeOK, Clock, Checks
  <2> QED
    BY <2>2 DEF RequestsInv, ChecksFresh, ChecksCurrent
<1>2. RequestsInv => [Current]_vars
  BY <1>1
<1> QED
  BY <1>2, RequestsInvariant, PTL DEF AcceptedUnderCurrentEntry
=============================================================================
