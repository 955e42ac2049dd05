------------------------ MODULE AgentDirectoryProofs ------------------------
(* Proofs about AgentDirectory, for any agents, keys, entries, tokens,      *)
(* handler tasks and bounds: its types, that the verification of requests   *)
(* sees only steps it reckons with, and that what is accepted was           *)
(* registered.                                                              *)
EXTENDS AgentDirectory, TLAPS

TaskStates == [stage : Stages, agents : Tables, tokens : SUBSET Tokens,
               clear : SUBSET Agents, fill : SUBSET Agents]

Threads ==
    /\ opened \in BOOLEAN /\ tokens \subseteq Tokens
    /\ task \in [Tasks -> TaskStates]
    /\ enrolling \in [Handlers -> Enrolments \cup {NoEnrolment}]

Books ==
    /\ registry \in Tables /\ issued \in [Tokens -> TokenState]
    /\ registered \in [Agents -> SUBSET Entries]
    /\ changes \in 0..MaxChanges /\ restarts \in 0..MaxRestarts

(* Once Hecate has enrolled it, the agent of an enrolment is known.         *)
AgentNamed ==
    \A h \in Handlers : enrolling[h].stage \in {"claimed", "upsert"} =>
        enrolling[h].agent \in Agents

(* Every entry on its way to the table, or in it, was once on record.       *)
OnRecord(a, e) == e # Absent => e \in registered[a]

EntriesOnRecord ==
    \A a \in Agents :
        /\ OnRecord(a, registry[a]) /\ OnRecord(a, agents[a])
        /\ \A t \in Tasks : OnRecord(a, task[t].agents[a])

EnrolmentsOnRecord ==
    \A h \in Handlers : enrolling[h].stage \in {"claimed", "upsert"} =>
        Enrolled(enrolling[h].key) \in registered[enrolling[h].agent]

(* A key that some entry on record for the agent has.                       *)
KeyOnRecord(m) == \E e \in registered[m.agent] : m.key \in {e.key, e.previous}

ChecksOnRecord ==
    /\ \A c \in verifying : KeyOnRecord(c.msg)
    /\ \A r \in accepted : KeyOnRecord(r.msg)

DirectoryTypes == Requests!TypeOK /\ Threads /\ Books /\ AgentNamed
DirectoryInv   == DirectoryTypes /\ EntriesOnRecord /\ EnrolmentsOnRecord /\ ChecksOnRecord

-----------------------------------------------------------------------------
(* A step of the verification of requests keeps its types.                  *)
LEMMA RequestTypes ==
  Requests!TypeOK /\ [Requests!Next]_(Requests!vars) => Requests!TypeOK'
<1> SUFFICES ASSUME Requests!TypeOK, [Requests!Next]_(Requests!vars)
             PROVE  Requests!TypeOK'
  OBVIOUS
<1> USE DirectoryAssumption DEF Requests!TypeOK, Requests!Clock
<1>1. ASSUME NEW w \in Workers, NEW m \in Requests!Messages, Requests!Check(w, m)
      PROVE  Requests!TypeOK'
  BY <1>1 DEF Requests!Check, Requests!Checks
<1>2. ASSUME NEW c \in verifying, Requests!Accept(c) PROVE Requests!TypeOK'
  <2>1. c.msg \in Requests!Messages /\ c.msg.agent \in Agents /\ c.msg.nonce \in Nonces
    BY DEF Requests!Checks, Requests!Messages
  <2>2. now + Ttl \in 0..(MaxTime + Ttl)
    OBVIOUS
  <2> QED
    BY <1>2, <2>1, <2>2 DEF Requests!Accept, Requests!Live
<1>3. ASSUME NEW c \in verifying, Requests!Replay(c) PROVE Requests!TypeOK'
  BY <1>3 DEF Requests!Replay, Requests!Live
<1>4. ASSUME NEW a \in Agents, NEW e \in Entries \cup {Absent}, Requests!Put(a, e)
      PROVE  Requests!TypeOK'
  BY <1>4 DEF Requests!Put
<1>5. CASE Requests!Tick
  BY <1>5 DEF Requests!Tick
<1>6. CASE Requests!Restart
  BY <1>6 DEF Requests!Restart
<1>7. CASE UNCHANGED Requests!vars
  BY <1>7 DEF Requests!vars
<1> QED
  BY <1>1, <1>2, <1>3, <1>4, <1>5, <1>6, <1>7 DEF Requests!Next

(* What a step of the directory is for the verification of requests: an     *)
(* entry replaced or removed, a step of a check, or nothing.                *)
LEMMA ClearPuts ==
  ASSUME NEW t \in Tasks, NEW a \in Agents, Clear(t, a)
  PROVE  Requests!Put(a, Absent)
BY DEF Clear, Unread, TaskAgents, Requests!Put

LEMMA FillPuts ==
  ASSUME Threads, NEW t \in Tasks, NEW a \in Agents, Fill(t, a)
  PROVE  /\ task[t].agents[a] \in Entries \cup {Absent}
         /\ Requests!Put(a, task[t].agents[a])
BY DEF Threads, TaskStates, Tables, Fill, Unread, TaskAgents, Requests!Put

LEMMA UpsertPuts ==
  ASSUME Threads, AgentNamed, NEW h \in Handlers, UpsertAgentFromEnroll(h)
  PROVE  /\ enrolling[h].agent \in Agents
         /\ Enrolled(enrolling[h].key) \in Entries
         /\ Requests!Put(enrolling[h].agent, Enrolled(enrolling[h].key))
<1>1. enrolling[h] \in Enrolments
  BY DEF Threads, UpsertAgentFromEnroll, Stands, NoEnrolment
<1> QED
  BY <1>1, DirectoryAssumption
     DEF AgentNamed, UpsertAgentFromEnroll, Stands, Unread, Enrolments, Requests!Put

LEMMA RequestStep ==
  ASSUME Threads, AgentNamed, [Next]_vars
  PROVE  [Requests!Next]_(Requests!vars)
<1> USE DEF Requests!vars, requests
<1>1. ASSUME NEW t \in Tasks, Apply(t) PROVE [Requests!Next]_(Requests!vars)
  <2>1. ASSUME NEW a \in Agents, Clear(t, a) \/ Fill(t, a) PROVE Requests!Next
    BY <2>1, ClearPuts, FillPuts DEF Requests!Next
  <2>2. CASE ClearTokens(t) \/ Open(t) \/ \E x \in Tokens : LearnToken(t, x)
    BY <2>2 DEF ClearTokens, LearnToken, Open, TaskTokens
  <2> QED
    BY <1>1, <2>1, <2>2 DEF Apply
<1>2. ASSUME NEW t \in Tasks, SyncSend(t) \/ SyncFails(t) \/ SyncAnswered(t)
      PROVE  UNCHANGED Requests!vars
  BY <1>2 DEF SyncSend, SyncFails, SyncAnswered, TaskOnly
<1>3. ASSUME NEW h \in Handlers, Handle(h) PROVE [Requests!Next]_(Requests!vars)
  <2>1. CASE UpsertAgentFromEnroll(h)
    BY <2>1, UpsertPuts DEF Requests!Next
  <2> QED
    BY <1>3, <2>1
       DEF Handle, EnrolmentRefused, EnrolmentLost, EnrolmentAnswered, RemoveToken,
           HandlerOnly
<1>4. ASSUME NEW h \in Handlers, NEW x \in Tokens, NEW id \in Agents \cup {Absent},
             NEW k \in Keys, PrecheckEnroll(h, x, id, k)
      PROVE  UNCHANGED Requests!vars
  BY <1>4 DEF PrecheckEnroll, HandlerOnly
<1>5. ASSUME NEW h \in Handlers, NEW a \in Agents, EnrolmentClaimed(h, a)
      PROVE  UNCHANGED Requests!vars
  BY <1>5 DEF EnrolmentClaimed
<1>6. ASSUME NEW a \in Agents, NEW e \in Entries \cup {Absent}, RegistryChanges(a, e)
      PROVE  UNCHANGED Requests!vars
  BY <1>6 DEF RegistryChanges
<1>7. ASSUME NEW x \in Tokens, TokenIssued(x) PROVE UNCHANGED Requests!vars
  BY <1>7 DEF TokenIssued
<1>8. ASSUME NEW w \in Workers, NEW m \in Requests!Messages, Verify(w, m)
      PROVE  Requests!Next
  BY <1>8 DEF Verify, Requests!Next
<1>9. ASSUME NEW c \in verifying, Decide(c) PROVE Requests!Next
  BY <1>9 DEF Decide, Requests!Next
<1>10. CASE Tick \/ Restart
  BY <1>10 DEF Tick, Restart, Requests!Next
<1>11. CASE UNCHANGED vars
  BY <1>11 DEF vars
<1> QED
  BY <1>1, <1>2, <1>3, <1>4, <1>5, <1>6, <1>7, <1>8, <1>9, <1>10, <1>11 DEF Next

-----------------------------------------------------------------------------
(* The types of the directory, and the agents of enrolments.                *)
Directory == Threads /\ Books /\ AgentNamed

LEMMA StagesTyped == ASSUME NEW s \in Stages
                     PROVE  Stage(s) \in TaskStates
BY DEF Stage, NoAgents, Tables, TaskStates

LEMMA SetFill == ASSUME NEW r \in TaskStates, NEW x
                 PROVE  [r EXCEPT !.fill = x] =
                            [stage |-> r.stage, agents |-> r.agents, tokens |-> r.tokens,
                             clear |-> r.clear, fill |-> x]
BY DEF TaskStates

LEMMA SetAgents == ASSUME NEW r \in TaskStates, NEW x
                   PROVE  [r EXCEPT !.agents = x] =
                              [stage |-> r.stage, agents |-> x, tokens |-> r.tokens,
                               clear |-> r.clear, fill |-> r.fill]
BY DEF TaskStates

(* What is left of a task's answer once an entry of it is in the table.     *)
LEMMA FillLeaves ==
  ASSUME Threads, NEW t \in Tasks, NEW a \in Agents, Fill(t, a)
  PROVE  /\ task' = [u \in Tasks |-> task'[u]]
         /\ \A u \in Tasks : u # t => task'[u] = task[u]
         /\ task'[t] = [stage |-> task[t].stage,
                        agents |-> [task[t].agents EXCEPT ![a] = Absent],
                        tokens |-> task[t].tokens, clear |-> task[t].clear,
                        fill |-> task[t].fill \ {a}]
<1> DEFINE Left == [stage |-> task[t].stage,
                    agents |-> [task[t].agents EXCEPT ![a] = Absent],
                    tokens |-> task[t].tokens, clear |-> task[t].clear,
                    fill |-> task[t].fill \ {a}]
<1>1. task[t] \in TaskStates
  BY DEF Threads
<1> DEFINE First == [task[t] EXCEPT !.fill = @ \ {a}]
<1>2. [First EXCEPT !.agents = [First.agents EXCEPT ![a] = Absent]] = Left
  <2>1. First = [stage |-> task[t].stage, agents |-> task[t].agents,
                 tokens |-> task[t].tokens, clear |-> task[t].clear,
                 fill |-> task[t].fill \ {a}]
    BY <1>1, SetFill
  <2>2. First \in TaskStates
    BY <1>1, <2>1 DEF TaskStates
  <2> HIDE DEF First
  <2>3. [First EXCEPT !.agents = [First.agents EXCEPT ![a] = Absent]] =
            [stage |-> First.stage, agents |-> [First.agents EXCEPT ![a] = Absent],
             tokens |-> First.tokens, clear |-> First.clear, fill |-> First.fill]
    BY <2>2, SetAgents
  <2> QED
    BY <2>1, <2>3
<1>3. task' = [[task EXCEPT ![t].fill = @ \ {a}] EXCEPT ![t].agents[a] = Absent]
  BY DEF Fill
<1>4. [task EXCEPT ![t].fill = @ \ {a}][t] = First
  BY DEF Threads
<1>5. task'[t] = Left
  BY <1>2, <1>3, <1>4 DEF Threads
<1>6. /\ task' = [u \in Tasks |-> task'[u]]
      /\ \A u \in Tasks : u # t => task'[u] = task[u]
  BY <1>3 DEF Threads
<1> QED
  BY <1>5, <1>6

LEMMA DirectoryTypesStep == DirectoryTypes /\ [Next]_vars => Directory'
<1> SUFFICES ASSUME DirectoryTypes, [Next]_vars PROVE Directory'
  OBVIOUS
<1> USE DirectoryAssumption
    DEF DirectoryTypes, Directory, Threads, Books, AgentNamed, TaskOnly, TaskAgents,
        TaskTokens, HandlerOnly, hecate, directory
<1>1. ASSUME NEW t \in Tasks, Apply(t) PROVE Directory'
  <2>1. ASSUME NEW a \in Agents, Clear(t, a) PROVE Directory'
    BY <2>1 DEF Clear, TaskStates
  <2>2. ASSUME NEW a \in Agents, Fill(t, a) PROVE Directory'
    <3>1. task'[t] \in TaskStates
      <4>1. task[t] \in TaskStates
        OBVIOUS
      <4>2. [task[t].agents EXCEPT ![a] = Absent] \in Tables
        BY <4>1 DEF Tables, TaskStates
      <4>3. task'[t] = [stage |-> task[t].stage,
                        agents |-> [task[t].agents EXCEPT ![a] = Absent],
                        tokens |-> task[t].tokens, clear |-> task[t].clear,
                        fill |-> task[t].fill \ {a}]
        BY <2>2, FillLeaves
      <4> QED
        BY <4>1, <4>2, <4>3 DEF TaskStates
    <3>2. task' \in [Tasks -> TaskStates]
      BY <2>2, <3>1, FillLeaves
    <3> QED
      BY <2>2, <3>2 DEF Fill
  <2>3. CASE ClearTokens(t)
    BY <2>3 DEF ClearTokens, Goto, Stages, TaskStates
  <2>4. CASE Open(t)
    BY <2>4, StagesTyped DEF Open, Ended, Stages
  <2>5. ASSUME NEW x \in Tokens, LearnToken(t, x) PROVE Directory'
    BY <2>5 DEF LearnToken, TaskStates
  <2> QED
    BY <1>1, <2>1, <2>2, <2>3, <2>4, <2>5 DEF Apply
<1>2. ASSUME NEW t \in Tasks, SyncSend(t) \/ SyncFails(t) \/ SyncAnswered(t)
      PROVE  Directory'
  <2>1. CASE SyncSend(t)
    BY <2>1 DEF SyncSend, Goto, Stages, TaskStates
  <2>2. CASE SyncFails(t)
    BY <2>2, StagesTyped DEF SyncFails, Ended, Stages
  <2>3. CASE SyncAnswered(t)
    BY <2>3 DEF SyncAnswered, Stages, TaskStates
  <2> QED
    BY <1>2, <2>1, <2>2, <2>3
<1>3. ASSUME NEW h \in Handlers, Handle(h) PROVE Directory'
  <2>1. CASE UpsertAgentFromEnroll(h)
    BY <2>1 DEF UpsertAgentFromEnroll, Stands, Enrolments, NoEnrolment
  <2>2. CASE RemoveToken(h)
    BY <2>2 DEF RemoveToken, Leave, NoEnrolment
  <2>3. CASE EnrolmentRefused(h) \/ EnrolmentLost(h)
    BY <2>3 DEF EnrolmentRefused, EnrolmentLost, Leave, NoEnrolment
  <2>4. CASE EnrolmentAnswered(h)
    BY <2>4 DEF EnrolmentAnswered, Stands, Enrolments, NoEnrolment
  <2> QED
    BY <1>3, <2>1, <2>2, <2>3, <2>4 DEF Handle
<1>4. ASSUME NEW h \in Handlers, NEW x \in Tokens, NEW id \in Agents \cup {Absent},
             NEW k \in Keys, PrecheckEnroll(h, x, id, k)
      PROVE  Directory'
  BY <1>4 DEF PrecheckEnroll, Enrolments
<1>5. ASSUME NEW h \in Handlers, NEW a \in Agents, EnrolmentClaimed(h, a)
      PROVE  Directory'
  <2>1. enrolling[h] \in Enrolments
    BY <1>5 DEF EnrolmentClaimed, Stands, NoEnrolment
  <2>2. Enrolled(enrolling[h].key) \in Entries /\ enrolling[h].token \in Tokens
    BY <2>1 DEF Enrolments
  <2>3. Books'
    BY <1>5, <2>2 DEF EnrolmentClaimed, Record, Tables, TokenState
  <2>4. enrolling' \in [Handlers -> Enrolments \cup {NoEnrolment}]
    BY <1>5, <2>1 DEF EnrolmentClaimed, Enrolments
  <2>5. AgentNamed'
    BY <1>5 DEF EnrolmentClaimed
  <2> QED
    BY <1>5, <2>3, <2>4, <2>5 DEF EnrolmentClaimed
<1>6. ASSUME NEW a \in Agents, NEW e \in Entries \cup {Absent}, RegistryChanges(a, e)
      PROVE  Directory'
  BY <1>6 DEF RegistryChanges, Record, Tables
<1>7. ASSUME NEW x \in Tokens, TokenIssued(x) PROVE Directory'
  BY <1>7 DEF TokenIssued, TokenState
<1>8. ASSUME NEW w \in Workers, NEW m \in Requests!Messages, Verify(w, m)
      PROVE  Directory'
  BY <1>8 DEF Verify
<1>9. ASSUME NEW c \in verifying, Decide(c) PROVE Directory'
  BY <1>9 DEF Decide
<1>10. CASE Tick
  BY <1>10 DEF Tick
<1>11. CASE Restart
  <2>1. enrolling' \in [Handlers -> {NoEnrolment}] /\ AgentNamed'
    BY <1>11 DEF Restart, NoEnrolment
  <2>2. Stage("due") \in TaskStates
    BY StagesTyped DEF Stages
  <2>3. Threads'
    BY <1>11, <2>1, <2>2 DEF Restart
  <2>4. Books'
    BY <1>11 DEF Restart
  <2> QED
    BY <2>1, <2>3, <2>4
<1>12. CASE UNCHANGED vars
  BY <1>12 DEF vars
<1> QED
  BY <1>1, <1>2, <1>3, <1>4, <1>5, <1>6, <1>7, <1>8, <1>9, <1>10, <1>11, <1>12 DEF Next

LEMMA DirectoryInit == Init => DirectoryTypes
<1> SUFFICES ASSUME Init PROVE DirectoryTypes
  OBVIOUS
<1> USE DirectoryAssumption DEF Init
<1>1. Requests!TypeOK
  BY DEF Requests!Init, Requests!TypeOK, Requests!Clock
<1>2. Stage("due") \in TaskStates
  BY StagesTyped DEF Stages
<1>3. Threads
  BY <1>2 DEF Threads
<1>4. Books
  BY DEF Books, Tables, NoAgents, TokenState
<1>5. AgentNamed
  BY DEF AgentNamed, NoEnrolment
<1> QED
  BY <1>1, <1>3, <1>4, <1>5 DEF DirectoryTypes

LEMMA DirectoryStep == DirectoryTypes /\ [Next]_vars => DirectoryTypes'
BY RequestStep, RequestTypes, DirectoryTypesStep DEF DirectoryTypes, Directory

LEMMA DirectoryTyped == Spec => []DirectoryTypes
BY DirectoryInit, DirectoryStep, PTL DEF Spec

(* Tables, tasks, enrolments and Hecate's books stay of their types.        *)
THEOREM TypeCorrect == Spec => []TypeOK
<1>1. DirectoryTypes => TypeOK
  BY DEF DirectoryTypes, Threads, TaskStates, Books, TypeOK
<1> QED
  BY <1>1, DirectoryTyped, PTL

(* Refreshes, enrolments and restarts are steps that the verification of    *)
(* requests reckons with, so what is proved of AgentRequests holds beside   *)
(* them.                                                                    *)
THEOREM VerificationUndisturbed == Spec => VerifiesRequests
<1>1. Init => Requests!Init
  BY DEF Init
<1>2. DirectoryTypes /\ [Next]_vars => [Requests!Next]_(Requests!vars)
  BY RequestStep DEF DirectoryTypes
<1> QED
  BY <1>1, <1>2, DirectoryTyped, PTL DEF Spec, VerifiesRequests, Requests!Spec

-----------------------------------------------------------------------------
(* Hecate's records of an agent are only added to.                          *)
LEMMA RecordsGrow ==
  ASSUME DirectoryTypes, [Next]_vars, NEW a \in Agents
  PROVE  registered[a] \subseteq registered'[a]
<1> USE DEF DirectoryTypes, Books, hecate
<1>1. ASSUME NEW b \in Agents, NEW e, Record(b, e)
      PROVE  registered[a] \subseteq registered'[a]
  BY <1>1 DEF Record
<1>2. ASSUME NEW b \in Agents, NEW e \in Entries \cup {Absent}, RegistryChanges(b, e)
      PROVE  registered[a] \subseteq registered'[a]
  BY <1>1, <1>2 DEF RegistryChanges
<1>3. ASSUME NEW h \in Handlers, NEW b \in Agents, EnrolmentClaimed(h, b)
      PROVE  registered[a] \subseteq registered'[a]
  BY <1>1, <1>3 DEF EnrolmentClaimed
<1>4. ASSUME NEW t \in Tasks, Apply(t) PROVE registered' = registered
  BY <1>4 DEF Apply, Clear, Fill, ClearTokens, LearnToken, Open, TaskAgents, TaskTokens
<1>5. ASSUME NEW t \in Tasks, SyncSend(t) \/ SyncFails(t) \/ SyncAnswered(t)
      PROVE  registered' = registered
  BY <1>5 DEF SyncSend, SyncFails, SyncAnswered, TaskOnly
<1>6. ASSUME NEW h \in Handlers, Handle(h) PROVE registered' = registered
  BY <1>6 DEF Handle, EnrolmentRefused, EnrolmentLost, EnrolmentAnswered,
              UpsertAgentFromEnroll, RemoveToken, HandlerOnly
<1>7. ASSUME NEW h \in Handlers, NEW x \in Tokens, NEW id \in Agents \cup {Absent},
             NEW k \in Keys, PrecheckEnroll(h, x, id, k)
      PROVE  registered' = registered
  BY <1>7 DEF PrecheckEnroll, HandlerOnly
<1>8. ASSUME NEW x \in Tokens, TokenIssued(x) PROVE registered' = registered
  BY <1>8 DEF TokenIssued
<1>9. ASSUME NEW w \in Workers, NEW m \in Requests!Messages, Verify(w, m)
      PROVE  registered' = registered
  BY <1>9 DEF Verify
<1>10. ASSUME NEW c \in verifying, Decide(c) PROVE registered' = registered
  BY <1>10 DEF Decide
<1>11. CASE Tick \/ Restart \/ UNCHANGED vars
  BY <1>11 DEF Tick, Restart, vars
<1> QED
  BY <1>2, <1>3, <1>4, <1>5, <1>6, <1>7, <1>8, <1>9, <1>10, <1>11 DEF Next

(* What a task took from Hecate's registry was on record, and so is what it *)
(* puts into the table.                                                     *)
LEMMA EntriesStep == DirectoryInv /\ [Next]_vars => EntriesOnRecord'
<1> SUFFICES ASSUME DirectoryInv, [Next]_vars, NEW a \in Agents
             PROVE  /\ OnRecord(a, registry[a])' /\ OnRecord(a, agents[a])'
                    /\ \A t \in Tasks : OnRecord(a, task[t].agents[a])'
  BY DEF EntriesOnRecord
<1> DEFINE Goal == /\ OnRecord(a, registry[a])' /\ OnRecord(a, agents[a])'
                   /\ \A t \in Tasks : OnRecord(a, task[t].agents[a])'
<1>0. registered[a] \subseteq registered'[a]
  BY RecordsGrow DEF DirectoryInv
<1> USE DirectoryAssumption
    DEF DirectoryInv, DirectoryTypes, Threads, Books, Requests!TypeOK, EntriesOnRecord,
        OnRecord, Tables, TaskOnly, TaskAgents, TaskTokens, HandlerOnly, hecate,
        directory, requests
<1>1. ASSUME NEW t \in Tasks, NEW b \in Agents, Clear(t, b) PROVE Goal
  BY <1>1 DEF Clear
<1>2. ASSUME NEW t \in Tasks, NEW b \in Agents, Fill(t, b) PROVE Goal
  <2>1. agents'[a] \in {agents[a], task[t].agents[a]}
    BY <1>2 DEF Fill
  <2>2. \A u \in Tasks : task'[u].agents[a] \in {task[u].agents[a], Absent}
    <3> SUFFICES ASSUME NEW u \in Tasks
                 PROVE  task'[u].agents[a] \in {task[u].agents[a], Absent}
      OBVIOUS
    <3>1. CASE u # t
      BY <1>2, <3>1, FillLeaves
    <3>2. CASE u = t
      <4>0. task'[t] = [stage |-> task[t].stage,
                        agents |-> [task[t].agents EXCEPT ![b] = Absent],
                        tokens |-> task[t].tokens, clear |-> task[t].clear,
                        fill |-> task[t].fill \ {b}]
        BY <1>2, FillLeaves
      <4>1. task'[t].agents = [task[t].agents EXCEPT ![b] = Absent]
        BY <4>0
      <4>2. task[t].agents \in Tables
        BY DEF TaskStates
      <4> QED
        BY <3>2, <4>1, <4>2
    <3> QED
      BY <3>1, <3>2
  <2> QED
    BY <1>2, <2>1, <2>2 DEF Fill
<1>3. ASSUME NEW t \in Tasks, Open(t) \/ SyncFails(t) PROVE Goal
  BY <1>3 DEF Open, SyncFails, Ended, Stage, NoAgents
<1>4. ASSUME NEW t \in Tasks, SyncSend(t) PROVE Goal
  BY <1>4 DEF SyncSend, Goto
<1>5. ASSUME NEW t \in Tasks, SyncAnswered(t) PROVE Goal
  BY <1>5 DEF SyncAnswered
<1>6. ASSUME NEW h \in Handlers, UpsertAgentFromEnroll(h) PROVE Goal
  <2>1. agents'[a] = agents[a] \/ agents'[a] \in registered[a]
    BY <1>6 DEF UpsertAgentFromEnroll, Stands, EnrolmentsOnRecord
  <2> QED
    BY <1>6, <2>1 DEF UpsertAgentFromEnroll
<1>7. ASSUME NEW h \in Handlers,
             EnrolmentRefused(h) \/ EnrolmentLost(h) \/ EnrolmentAnswered(h) \/ RemoveToken(h)
      PROVE  Goal
  BY <1>7 DEF EnrolmentRefused, EnrolmentLost, EnrolmentAnswered, RemoveToken
<1>8. ASSUME NEW h \in Handlers, NEW x \in Tokens, NEW id \in Agents \cup {Absent},
             NEW k \in Keys, PrecheckEnroll(h, x, id, k)
      PROVE  Goal
  BY <1>8 DEF PrecheckEnroll
<1>9. ASSUME NEW b \in Agents, NEW e, Record(b, e), UNCHANGED <<agents, task>> PROVE Goal
  <2>1. registry'[a] = registry[a] \/ registry'[a] \in registered'[a] \cup {Absent}
    BY <1>9 DEF Record
  <2> QED
    BY <1>0, <1>9, <2>1
<1>10. ASSUME NEW x \in Tokens, TokenIssued(x) PROVE Goal
  BY <1>10 DEF TokenIssued
<1>11. ASSUME NEW w \in Workers, NEW m \in Requests!Messages, Verify(w, m) PROVE Goal
  BY <1>11 DEF Verify, Requests!Check
<1>12. ASSUME NEW c \in verifying, Decide(c) PROVE Goal
  BY <1>12 DEF Decide, Requests!Accept, Requests!Replay
<1>13. CASE Tick \/ UNCHANGED vars
  BY <1>13 DEF Tick, Requests!Tick, vars
<1>14. CASE Restart
  BY <1>14 DEF Restart, Requests!Restart, Stage, NoAgents
<1>15. ASSUME NEW b \in Agents, NEW e \in Entries \cup {Absent}, RegistryChanges(b, e)
       PROVE  Goal
  BY <1>9, <1>15 DEF RegistryChanges
<1>16. ASSUME NEW h \in Handlers, NEW b \in Agents, EnrolmentClaimed(h, b) PROVE Goal
  BY <1>9, <1>16 DEF EnrolmentClaimed
<1>17. ASSUME NEW t \in Tasks, ClearTokens(t) PROVE Goal
  BY <1>17 DEF ClearTokens, Goto
<1>18. ASSUME NEW t \in Tasks, NEW x \in Tokens, LearnToken(t, x) PROVE Goal
  BY <1>18 DEF LearnToken, TaskStates
<1> QED
  BY <1>1, <1>2, <1>3, <1>4, <1>5, <1>6, <1>7, <1>8, <1>10, <1>11, <1>12, <1>13,
     <1>14, <1>15, <1>16, <1>17, <1>18 DEF Next, Apply, Handle

-----------------------------------------------------------------------------
(* An enrolment is on record from the moment Hecate answers it.             *)
LEMMA EnrolmentsStep == DirectoryInv /\ [Next]_vars => EnrolmentsOnRecord'
<1> SUFFICES ASSUME DirectoryInv, [Next]_vars, NEW h \in Handlers,
                    enrolling'[h].stage \in {"claimed", "upsert"}
             PROVE  Enrolled(enrolling'[h].key) \in registered'[enrolling'[h].agent]
  BY DEF EnrolmentsOnRecord, Enrolled
<1> DEFINE Kept == /\ enrolling[h].stage \in {"claimed", "upsert"}
                   /\ enrolling'[h].key = enrolling[h].key
                   /\ enrolling'[h].agent = enrolling[h].agent
<1> DEFINE Goal == Enrolled(enrolling'[h].key) \in registered'[enrolling'[h].agent]
<1>0. Kept => Goal
  BY RecordsGrow DEF DirectoryInv, DirectoryTypes, AgentNamed, EnrolmentsOnRecord
<1> USE DEF DirectoryInv, DirectoryTypes, Threads, hecate, directory
<1>1. ASSUME NEW t \in Tasks, Apply(t) PROVE Kept
  BY <1>1 DEF Apply, Clear, Fill, ClearTokens, LearnToken, Open, TaskAgents, TaskTokens
<1>2. ASSUME NEW t \in Tasks, SyncSend(t) \/ SyncFails(t) \/ SyncAnswered(t) PROVE Kept
  BY <1>2 DEF SyncSend, SyncFails, SyncAnswered, TaskOnly
<1>3. ASSUME NEW g \in Handlers, Handle(g) PROVE Kept
  <2>1. CASE EnrolmentAnswered(g)
    BY <2>1 DEF EnrolmentAnswered, Stands, Enrolments, NoEnrolment
  <2>2. CASE UpsertAgentFromEnroll(g)
    BY <2>2 DEF UpsertAgentFromEnroll, Stands, Enrolments, NoEnrolment
  <2>3. CASE RemoveToken(g) \/ EnrolmentRefused(g) \/ EnrolmentLost(g)
    BY <2>3 DEF RemoveToken, EnrolmentRefused, EnrolmentLost, Leave, NoEnrolment
  <2> QED
    BY <1>3, <2>1, <2>2, <2>3 DEF Handle
<1>4. ASSUME NEW g \in Handlers, NEW x \in Tokens, NEW id \in Agents \cup {Absent},
             NEW k \in Keys, PrecheckEnroll(g, x, id, k)
      PROVE  Kept
  BY <1>4 DEF PrecheckEnroll
<1>5. ASSUME NEW g \in Handlers, NEW a \in Agents, EnrolmentClaimed(g, a) PROVE Goal
  <2>1. CASE g = h
    <3>1. enrolling[h] \in Enrolments
      BY <1>5, <2>1 DEF EnrolmentClaimed, Stands, NoEnrolment
    <3>2. enrolling'[h].key = enrolling[h].key /\ enrolling'[h].agent = a
      BY <1>5, <2>1, <3>1 DEF EnrolmentClaimed, Enrolments
    <3>3. Enrolled(enrolling[h].key) # Absent
      BY <3>1, DirectoryAssumption DEF Enrolments
    <3>4. Enrolled(enrolling[h].key) \in registered'[a]
      BY <1>5, <2>1, <3>3 DEF EnrolmentClaimed, Record, Books
    <3> QED
      BY <3>2, <3>4
  <2>2. CASE g # h
    <3>1. Kept
      BY <1>5, <2>2 DEF EnrolmentClaimed
    <3> QED
      BY <1>0, <3>1
  <2> QED
    BY <2>1, <2>2
<1>6. ASSUME NEW a \in Agents, NEW e \in Entries \cup {Absent}, RegistryChanges(a, e)
      PROVE  Kept
  BY <1>6 DEF RegistryChanges
<1>7. ASSUME NEW x \in Tokens, TokenIssued(x) PROVE Kept
  BY <1>7 DEF TokenIssued
<1>8. ASSUME NEW w \in Workers, NEW m \in Requests!Messages, Verify(w, m) PROVE Kept
  BY <1>8 DEF Verify
<1>9. ASSUME NEW c \in verifying, Decide(c) PROVE Kept
  BY <1>9 DEF Decide
<1>10. ASSUME Tick \/ UNCHANGED vars PROVE Kept
  BY <1>10 DEF Tick, vars
<1>11. CASE Restart
  BY <1>11 DEF Restart, NoEnrolment
<1> HIDE DEF Kept, Goal
<1> QED
  BY <1>0, <1>1, <1>2, <1>3, <1>4, <1>5, <1>6, <1>7, <1>8, <1>9, <1>10, <1>11
     DEF Next, Goal

(* A check finds its key in a cached entry, which was on record.            *)
LEMMA ChecksStep == DirectoryInv /\ [Next]_vars => ChecksOnRecord'
<1> SUFFICES ASSUME DirectoryInv, [Next]_vars PROVE ChecksOnRecord'
  OBVIOUS
<1>1. ASSUME NEW m \in Requests!Messages, KeyOnRecord(m) PROVE KeyOnRecord(m)'
  <2>1. registered[m.agent] \subseteq registered'[m.agent]
    BY RecordsGrow DEF Requests!Messages, DirectoryInv
  <2> QED
    BY <1>1, <2>1 DEF KeyOnRecord
<1>2. [Requests!Next]_(Requests!vars)
  BY RequestStep DEF DirectoryInv, DirectoryTypes
<1>3. /\ \A c \in verifying : c.msg \in Requests!Messages /\ KeyOnRecord(c.msg)
      /\ \A r \in accepted : r.msg \in Requests!Messages /\ KeyOnRecord(r.msg)
  BY DEF DirectoryInv, DirectoryTypes, Requests!TypeOK, Requests!Checks, ChecksOnRecord
<1>4. ASSUME NEW w \in Workers, NEW m \in Requests!Messages, Requests!Check(w, m)
      PROVE  ChecksOnRecord'
  <2>1. agents[m.agent] \in registered[m.agent]
    BY <1>4 DEF Requests!Check, Requests!Messages, DirectoryInv, EntriesOnRecord, OnRecord
  <2>2. KeyOnRecord(m)
    BY <1>4, <2>1 DEF Requests!Check, Requests!Verifies, KeyOnRecord
  <2> QED
    BY <1>1, <1>3, <1>4, <2>2 DEF Requests!Check, ChecksOnRecord
<1>5. ASSUME NEW c \in verifying, Requests!Accept(c) \/ Requests!Replay(c)
      PROVE  ChecksOnRecord'
  BY <1>1, <1>3, <1>5 DEF Requests!Accept, Requests!Replay, ChecksOnRecord
<1>6. ASSUME UNCHANGED <<verifying, accepted>> PROVE ChecksOnRecord'
  BY <1>1, <1>3, <1>6 DEF ChecksOnRecord
<1>7. CASE Requests!Restart
  BY <1>7 DEF Requests!Restart, ChecksOnRecord
<1> QED
  BY <1>2, <1>4, <1>5, <1>6, <1>7 DEF Requests!Next, Requests!Put, Requests!Tick, Requests!vars

(* Through every refresh, enrolment, lost answer and restart, a request is  *)
(* accepted only under a key that Hecate had on record for its agent.       *)
THEOREM OnlyRegisteredAccepted == Spec => []AcceptedWasRegistered
<1>1. ASSUME Init PROVE DirectoryInv
  <2>1. DirectoryTypes
    BY <1>1, DirectoryInit
  <2>2. EntriesOnRecord
    BY <1>1 DEF Init, Requests!Init, NoAgents, Stage, EntriesOnRecord, OnRecord
  <2>3. EnrolmentsOnRecord /\ ChecksOnRecord
    BY <1>1 DEF Init, Requests!Init, NoEnrolment, EnrolmentsOnRecord, ChecksOnRecord
  <2> QED
    BY <2>1, <2>2, <2>3 DEF DirectoryInv
<1>2. DirectoryInv /\ [Next]_vars => DirectoryInv'
  <2>1. DirectoryInv /\ [Next]_vars => DirectoryTypes'
    BY DirectoryStep DEF DirectoryInv
  <2> QED
    BY <2>1, EntriesStep, EnrolmentsStep, ChecksStep DEF DirectoryInv
<1>3. DirectoryInv => AcceptedWasRegistered
  BY DEF DirectoryInv, ChecksOnRecord, KeyOnRecord, AcceptedWasRegistered
<1> QED
  BY <1>1, <1>2, <1>3, PTL DEF Spec
=============================================================================
