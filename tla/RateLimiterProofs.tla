------------------------- MODULE RateLimiterProofs --------------------------
(* Proofs about RateLimiter, for any clients, classes, limits, cap, window, *)
(* finite set of handler tasks and pause.                                   *)
EXTENDS RateLimiter, FiniteSetTheorems, TLAPS

(* The clients that a check is about to enter, or to count.                 *)
Counting == {w \in Workers : At(w, "count")}
Entering == {check[w].client : w \in Counting}

(* The bound on the entries holds with those about to be made.              *)
EntriesBounded ==
    /\ IsFiniteSet(Known \cup Entering)
    /\ Cardinality(Known \cup Entering) < MaxEntries + Cardinality(Workers)

-----------------------------------------------------------------------------
LEMMA NoneIsNoWindow == \A x \in Windows : x # None
  BY NoneAssumption

LEMMA BusyTyped ==
  ASSUME TypeOK, NEW w \in Workers, check[w].stage \in Busy
  PROVE  check[w] \in Checks
<1>1. \A s \in Done : s \notin Busy
  BY DEF Done, Busy
<1>2. check[w] \in Checks \/ \E s \in Done : check[w] = NoCheck(s)
  BY DEF TypeOK
<1>3. ASSUME NEW s \in Done, check[w] = NoCheck(s) PROVE FALSE
  <2>1. check[w].stage = s
    BY <1>3 DEF NoCheck
  <2> QED
    BY <1>1, <2>1
<1> QED
  BY <1>2, <1>3

LEMMA CurrentTyped ==
  ASSUME TypeOK, NEW w \in Workers, At(w, "count")
  PROVE  /\ Current(w) \in Windows
         /\ CountedUpTo(w, MaxCount) \in Windows
<1> USE LimiterAssumption DEF MaxAge
<1>1. check[w] \in Checks
  BY BusyTyped DEF At, Busy
<1> DEFINE c == check[w].client
           k == check[w].class
<1>2. c \in Clients /\ k \in Classes /\ check[w].lag \in 0..Pause
  BY <1>1 DEF Checks
<1>3. Current(w) \in Windows
  <2>1. check[w].lag \in 0..MaxAge /\ Zero \in Counts
    BY <1>2 DEF Zero, Counts
  <2>2. CASE c \notin Known \/ Expired(c, check[w].lag)
    BY <2>1, <2>2 DEF Current, Windows
  <2>3. CASE c \in Known /\ ~Expired(c, check[w].lag)
    BY <1>2, <2>3 DEF Current, Known, TypeOK
  <2> QED
    BY <2>2, <2>3
<1>4. CountedUpTo(w, MaxCount) \in Windows
  <2>1. Current(w).count \in [Classes -> 0..MaxCount] /\ Current(w).age \in 0..MaxAge
    BY <1>3 DEF Windows, Counts
  <2>2. (IF Current(w).count[k] < MaxCount THEN Current(w).count[k] + 1
         ELSE Current(w).count[k]) \in 0..MaxCount
    BY <1>2, <2>1
  <2> QED
    BY <1>2, <1>3, <2>1, <2>2 DEF CountedUpTo, Windows, Counts
<1> QED
  BY <1>3, <1>4

-----------------------------------------------------------------------------
(* Type correctness.                                                        *)
LEMMA GotoTyped ==
  ASSUME TypeOK, NEW w \in Workers, check[w].stage \in Busy,
         NEW s \in Busy, Goto(w, s)
  PROVE  check' \in [Workers -> Checks \cup {NoCheck(t) : t \in Done}]
<1>1. check[w] \in Checks
  BY BusyTyped
<1>2. [check[w] EXCEPT !.stage = s] \in Checks
  BY <1>1 DEF Checks
<1> QED
  BY <1>2 DEF TypeOK, Goto

LEMMA AnswerTyped ==
  ASSUME TypeOK, NEW w \in Workers, NEW ok \in BOOLEAN, Answer(w, ok)
  PROVE  check' \in [Workers -> Checks \cup {NoCheck(t) : t \in Done}]
  BY DEF TypeOK, Answer, Done

LEMMA TypeStep == TypeOK /\ [Next]_vars => TypeOK'
<1> SUFFICES ASSUME TypeOK, [Next]_vars PROVE TypeOK'
  OBVIOUS
<1>1. ASSUME NEW w \in Workers, NEW c \in Clients, NEW k \in Classes, Begin(w, c, k)
      PROVE  TypeOK'
  <2>1. [stage |-> "cleanup?", client |-> c, class |-> k, lag |-> 0] \in Checks
    BY LimiterAssumption DEF Checks, Busy
  <2> QED
    BY <1>1, <2>1 DEF Begin, TypeOK
<1>2. ASSUME NEW w \in Workers, Step(w) PROVE TypeOK'
  <2> USE DEF At, Busy
  <2>1. CASE FindFull(w)
    BY <2>1, GotoTyped DEF FindFull, TypeOK
  <2>2. CASE Cleanup(w)
    BY <2>2, GotoTyped DEF Cleanup, TypeOK
  <2>3. CASE FindRoom(w)
    BY <2>3, GotoTyped DEF FindRoom, TypeOK
  <2>4. CASE FindClient(w)
    BY <2>4, GotoTyped, AnswerTyped DEF FindClient, TypeOK
  <2>5. CASE Count(w)
    <3>1. CountedUpTo(w, MaxCount) \in Windows
      BY <2>5, CurrentTyped DEF Count
    <3>2. windows' \in [Clients -> Windows \cup {None}]
      BY <2>5, <3>1 DEF Count, TypeOK
    <3>3. (CountedUpTo(w, MaxCount).count[check[w].class]
              <= Limit[check[w].class]) \in BOOLEAN
      OBVIOUS
    <3>4. check' \in [Workers -> Checks \cup {NoCheck(t) : t \in Done}]
      BY <2>5, <3>3, AnswerTyped DEF Count
    <3> QED
      BY <3>2, <3>4 DEF TypeOK
  <2> QED
    BY <1>2, <2>1, <2>2, <2>3, <2>4, <2>5 DEF Step
<1>3. ASSUME NEW c \in Clients, NEW k \in Classes, Unban(c, k) PROVE TypeOK'
  <2>1. windows[c] \in Windows
    BY <1>3 DEF Unban, Known, TypeOK
  <2>2. [windows[c] EXCEPT !.count[k] = 0] \in Windows
    BY <2>1, LimiterAssumption DEF Windows, Counts
  <2> QED
    BY <1>3, <2>2 DEF Unban, TypeOK
<1>4. CASE Tick
  <2>1. ASSUME NEW c \in Known, windows[c].age # MaxAge
        PROVE  [windows[c] EXCEPT !.age = @ + 1] \in Windows
    <3>1. windows[c] \in Windows
      BY <2>1 DEF Known, TypeOK
    <3> QED
      BY <2>1, <3>1, LimiterAssumption DEF Windows, MaxAge
  <2>2. windows' \in [Clients -> Windows \cup {None}]
    BY <1>4, <2>1 DEF Tick, TypeOK, Known
  <2>3. ASSUME NEW w \in Workers, check[w].stage \in Busy
        PROVE  [check[w] EXCEPT !.lag = @ + 1] \in Checks
    <3>1. check[w] \in Checks /\ check[w].lag < Pause
      BY <1>4, <2>3, BusyTyped DEF Tick
    <3> QED
      BY <3>1, LimiterAssumption DEF Checks
  <2>4. check' \in [Workers -> Checks \cup {NoCheck(s) : s \in Done}]
    BY <1>4, <2>3 DEF Tick, TypeOK
  <2> QED
    BY <2>2, <2>4 DEF TypeOK
<1>5. CASE UNCHANGED vars
  BY <1>5 DEF vars, TypeOK
<1> QED
  BY <1>1, <1>2, <1>3, <1>4, <1>5 DEF Next

LEMMA TypeInit == Init => TypeOK
  BY DEF Init, TypeOK, Done

(* The limiter's state has its type.                                        *)
THEOREM TypeCorrect == Spec => []TypeOK
  BY TypeInit, TypeStep, PTL DEF Spec

-----------------------------------------------------------------------------
(* The bound on the entries.                                                *)
LEMMA FewClients ==
  ASSUME NEW g, NEW S \in SUBSET Workers
  PROVE  LET T == {g[w].client : w \in S} IN
         IsFiniteSet(T) /\ Cardinality(T) <= Cardinality(Workers)
<1> DEFINE T == {g[w].client : w \in S}
           f == [w \in S |-> g[w].client]
<1>1. IsFiniteSet(S) /\ Cardinality(S) <= Cardinality(Workers)
  BY LimiterAssumption, FS_Subset
<1>2. f \in Surjection(S, T)
  BY DEF Surjection
<1>3. IsFiniteSet(T) /\ Cardinality(T) <= Cardinality(S)
  BY <1>1, <1>2, FS_Surjection
<1>4. Cardinality(T) \in Nat /\ Cardinality(S) \in Nat /\ Cardinality(Workers) \in Nat
  BY <1>1, <1>3, FS_CardinalityType, LimiterAssumption
<1> QED
  BY <1>1, <1>3, <1>4

(* A step that enters nobody new keeps the bound.                           *)
LEMMA FewerEntries ==
  ASSUME EntriesBounded, (Known \cup Entering)' \subseteq Known \cup Entering
  PROVE  EntriesBounded'
<1> DEFINE S == Known \cup Entering
           T == (Known \cup Entering)'
<1>1. IsFiniteSet(T) /\ Cardinality(T) <= Cardinality(S)
  BY FS_Subset DEF EntriesBounded
<1>2. Cardinality(S) \in Nat /\ Cardinality(T) \in Nat /\ Cardinality(Workers) \in Nat
  BY <1>1, FS_CardinalityType, LimiterAssumption DEF EntriesBounded
<1>3. Cardinality(T) < MaxEntries + Cardinality(Workers)
  BY <1>1, <1>2, LimiterAssumption DEF EntriesBounded
<1> QED
  BY <1>1, <1>3 DEF EntriesBounded

(* So does a check that has found room, since no more than all of the other *)
(* handler tasks can be about to enter a client as well.                    *)
LEMMA RoomFound ==
  ASSUME EntriesBounded, ~Full, UNCHANGED windows
  PROVE  EntriesBounded'
<1> DEFINE E == Entering'
<1>1. IsFiniteSet(E) /\ Cardinality(E) <= Cardinality(Workers)
  BY FewClients DEF Entering, Counting, At
<1>2. Known' = Known
  BY DEF Known
<1>3. IsFiniteSet(Known)
  BY FS_Subset DEF EntriesBounded
<1>4. IsFiniteSet(Known \cup E)
      /\ Cardinality(Known \cup E)
            = Cardinality(Known) + Cardinality(E) - Cardinality(Known \cap E)
  BY <1>1, <1>3, FS_Union
<1>5. /\ Cardinality(Known) \in Nat /\ Cardinality(E) \in Nat
      /\ Cardinality(Known \cap E) \in Nat /\ Cardinality(Workers) \in Nat
  BY <1>1, <1>3, FS_Intersection, FS_CardinalityType, LimiterAssumption
<1>6. Cardinality(Known) < MaxEntries
  BY <1>5, LimiterAssumption DEF Full
<1>7. Cardinality(Known \cup E) < MaxEntries + Cardinality(Workers)
  BY <1>1, <1>4, <1>5, <1>6, LimiterAssumption
<1>8. (Known \cup Entering)' = Known \cup E
  BY <1>2
<1> QED
  BY <1>4, <1>7, <1>8 DEF EntriesBounded

LEMMA BoundStep == TypeOK /\ EntriesBounded /\ [Next]_vars => EntriesBounded'
<1> SUFFICES ASSUME TypeOK, EntriesBounded, [Next]_vars PROVE EntriesBounded'
  OBVIOUS
<1> TypeOK'
  BY TypeStep
<1> DEFINE Fewer == (Known \cup Entering)' \subseteq Known \cup Entering
<1>1. ASSUME NEW w \in Workers, NEW c \in Clients, NEW k \in Classes, Begin(w, c, k)
      PROVE  Fewer
  BY <1>1 DEF Begin, TypeOK, Known, Entering, Counting, At
<1>2. ASSUME NEW w \in Workers, Step(w) PROVE EntriesBounded'
  <2> USE DEF Known, Entering, Counting, At, Goto
  <2>1. CASE FindFull(w)
    <3>1. Fewer
      BY <2>1 DEF FindFull, TypeOK
    <3> QED
      BY <3>1, FewerEntries
  <2>2. CASE Cleanup(w)
    <3>1. Fewer
      BY <2>2 DEF Cleanup, TypeOK
    <3> QED
      BY <3>1, FewerEntries
  <2>3. CASE FindRoom(w)
    <3>1. CASE Full
      <4>1. Fewer
        BY <2>3, <3>1 DEF FindRoom, TypeOK
      <4> QED
        BY <4>1, FewerEntries
    <3>2. CASE ~Full
      BY <2>3, <3>2, RoomFound DEF FindRoom
    <3> QED
      BY <3>1, <3>2
  <2>4. CASE FindClient(w)
    <3>1. ASSUME check[w].client \in Known PROVE Fewer
      <4>1. check' = [check EXCEPT ![w].stage = "count"] /\ Known' = Known
        BY <2>4, <3>1 DEF FindClient
      <4>2. \A v \in Workers : /\ check'[v].client = check[v].client
                               /\ v # w => check'[v].stage = check[v].stage
        <5>1. check[w] \in Checks
          BY <2>4, BusyTyped DEF FindClient, Busy
        <5> QED
          BY <4>1, <5>1 DEF TypeOK, Checks
      <4>3. Entering' \subseteq Entering \cup {check[w].client}
        BY <4>2
      <4> QED
        BY <3>1, <4>1, <4>3
    <3>2. ASSUME check[w].client \notin Known PROVE Fewer
      <4>1. check' = [check EXCEPT ![w] = NoCheck("refused")]
        BY <2>4, <3>2 DEF FindClient, Answer
      <4>2. Entering' \subseteq Entering
        BY <4>1 DEF TypeOK, NoCheck
      <4> QED
        BY <2>4, <4>2 DEF FindClient
    <3> QED
      BY <3>1, <3>2, FewerEntries
  <2>5. CASE Count(w)
    <3>1. Fewer
      BY <2>5 DEF Count, TypeOK, Answer, NoCheck
    <3> QED
      BY <3>1, FewerEntries
  <2> QED
    BY <1>2, <2>1, <2>2, <2>3, <2>4, <2>5 DEF Step
<1>3. ASSUME NEW c \in Clients, NEW k \in Classes, Unban(c, k) PROVE Fewer
  BY <1>3 DEF Unban, TypeOK, Known, Entering, Counting, At
<1>4. CASE Tick
  <2>1. Known' \subseteq Known
    BY <1>4 DEF Tick, Known
  <2>2. ASSUME NEW w \in Workers
        PROVE  check'[w].stage = check[w].stage /\ check'[w].client = check[w].client
    <3>1. CASE check[w].stage \in Busy
      <4>1. check[w] \in Checks /\ check'[w] = [check[w] EXCEPT !.lag = @ + 1]
        BY <1>4, <3>1, BusyTyped DEF Tick
      <4> QED
        BY <4>1 DEF Checks
    <3>2. CASE check[w].stage \notin Busy
      BY <1>4, <3>2 DEF Tick
    <3> QED
      BY <3>1, <3>2
  <2>3. Entering' = Entering
    BY <2>2 DEF Entering, Counting, At
  <2> QED
    BY <2>1, <2>3, FewerEntries
<1>5. CASE UNCHANGED vars
  BY <1>5, FewerEntries DEF vars, Known, Entering, Counting, At
<1> QED
  BY <1>1, <1>2, <1>3, <1>4, <1>5, FewerEntries DEF Next

LEMMA BoundInit == Init => EntriesBounded
<1> SUFFICES ASSUME Init PROVE EntriesBounded
  OBVIOUS
<1>1. Known \cup Entering = {}
  BY DEF Init, Known, Entering, Counting, At, NoCheck
<1>2. Cardinality(Workers) \in Nat
  BY FS_CardinalityType, LimiterAssumption
<1> QED
  BY <1>1, <1>2, FS_EmptySet, LimiterAssumption DEF EntriesBounded

LEMMA BoundHolds == EntriesBounded => CapOvershoot
<1> SUFFICES ASSUME EntriesBounded PROVE CapOvershoot
  OBVIOUS
<1>1. IsFiniteSet(Known) /\ Cardinality(Known) <= Cardinality(Known \cup Entering)
  BY FS_Subset DEF EntriesBounded
<1>2. /\ Cardinality(Known) \in Nat /\ Cardinality(Known \cup Entering) \in Nat
      /\ Cardinality(Workers) \in Nat
  BY <1>1, FS_CardinalityType, LimiterAssumption DEF EntriesBounded
<1> QED
  BY <1>1, <1>2, LimiterAssumption DEF EntriesBounded, CapOvershoot

(* However many checks run side by side, the entries overshoot their cap by *)
(* fewer than there are handler tasks.                                      *)
THEOREM CapHolds == Spec => []CapOvershoot
<1>1. Init => TypeOK /\ EntriesBounded
  BY TypeInit, BoundInit
<1>2. TypeOK /\ EntriesBounded /\ [Next]_vars => (TypeOK /\ EntriesBounded)'
  BY TypeStep, BoundStep
<1> QED
  BY <1>1, <1>2, BoundHolds, PTL DEF Spec

-----------------------------------------------------------------------------
(* The refinement of Quotas, action by action.                              *)
LEMMA DoneTyped ==
  ASSUME TypeOK, NEW w \in Workers, check[w].stage \in Done
  PROVE  \E s \in Done : check[w] = NoCheck(s)
<1>1. check[w] \in Checks => check[w].stage \in Busy
  BY DEF Checks
<1> QED
  BY <1>1 DEF TypeOK, Done, Busy

LEMMA GotoStutters ==
  ASSUME TypeOK, NEW w \in Workers, check[w].stage \in Busy,
         NEW s \in Busy, Goto(w, s)
  PROVE  Told' = Told
<1>1. check[w] \in Checks
  BY BusyTyped
<1>2. ASSUME NEW v \in Workers
      PROVE  /\ check'[v].client = check[v].client /\ check'[v].class = check[v].class
             /\ (check'[v].stage = "admitted") <=> (check[v].stage = "admitted")
             /\ (check'[v].stage = "refused") <=> (check[v].stage = "refused")
  <2>1. CASE v = w
    BY <1>1, <2>1 DEF Checks, Goto, TypeOK, Busy
  <2>2. CASE v # w
    BY <2>2 DEF Goto, TypeOK
  <2> QED
    BY <2>1, <2>2
<1> QED
  BY <1>2 DEF Told, At

LEMMA AnswerTells ==
  ASSUME TypeOK, NEW w \in Workers, check[w].stage \in Busy,
         NEW ok \in BOOLEAN, Answer(w, ok)
  PROVE  /\ Told[w].client = check[w].client /\ Told[w].class = check[w].class
         /\ check[w].client \in Clients /\ check[w].class \in Classes
         /\ Quota!Answer(w, IF ok THEN "admitted" ELSE "refused")
<1> DEFINE s == IF ok THEN "admitted" ELSE "refused"
<1>1. check[w] \in Checks
  BY BusyTyped
<1>2. check[w].client \in Clients /\ check[w].class \in Classes
  BY <1>1 DEF Checks
<1>3. Told[w].client = check[w].client /\ Told[w].class = check[w].class
  BY DEF Told
<1>4. check' = [check EXCEPT ![w] = NoCheck(s)]
  BY DEF Answer
<1>5. Told'[w] = [client |-> None, class |-> None, told |-> s]
  BY <1>4 DEF TypeOK, Told, NoCheck
<1>6. \A v \in Workers : v # w => Told'[v] = Told[v]
  BY <1>4 DEF TypeOK, Told
<1>7. Told' = [Told EXCEPT ![w] = [client |-> None, class |-> None, told |-> s]]
  BY <1>5, <1>6 DEF Told
<1> QED
  BY <1>2, <1>3, <1>7, NoneAssumption DEF Quota!Answer, Quota!Asking, Quota!Told

LEMMA BeginAsks ==
  ASSUME TypeOK, NEW w \in Workers, NEW c \in Clients, NEW k \in Classes,
         Begin(w, c, k)
  PROVE  Quota!Ask(w)
<1>1. check[w].client = None
  <2>1. PICK s \in Done : check[w] = NoCheck(s)
    BY DoneTyped DEF Begin
  <2> QED
    BY <2>1 DEF NoCheck
<1>2. Told[w].client = None
  BY <1>1 DEF Told
<1>3. Told' = [Told EXCEPT ![w] = [client |-> c, class |-> k, told |-> None]]
  BY DEF Begin, TypeOK, Told
<1>4. Ages' = Ages /\ Spent' = Spent
  BY DEF Begin, Ages, Spent, Known
<1> QED
  BY <1>2, <1>3, <1>4 DEF Quota!Ask, Quota!Asking

LEMMA CleanupForgets ==
  ASSUME TypeOK, NEW w \in Workers, Cleanup(w)
  PROVE  Quota!Forget \/ UNCHANGED <<Ages, Spent, Told>>
<1> DEFINE C == {c \in Clients : c \in Known /\ Expired(c, check[w].lag)}
<1>1. Told' = Told
  BY GotoStutters DEF Cleanup, At, Busy
<1>2. check[w].lag \in Nat
  BY BusyTyped, LimiterAssumption DEF Cleanup, At, Busy, Checks
<1>3. C \subseteq Quota!Over
  <2> SUFFICES ASSUME NEW c \in C PROVE c \in Quota!Over
    OBVIOUS
  <2>1. windows[c] \in Windows
    BY DEF TypeOK, Known
  <2>2. windows[c].age \in Nat
    BY <2>1, LimiterAssumption DEF Windows, MaxAge
  <2>3. Ages[c] = windows[c].age
    BY DEF Ages
  <2> QED
    BY <1>2, <2>2, <2>3, LimiterAssumption, NoneAssumption DEF Quota!Over, Expired
<1>4. Ages' = [c \in Clients |-> IF c \in C THEN None ELSE Ages[c]]
  BY DEF Cleanup, Ages, Known, TypeOK
<1>5. Spent' = [c \in Clients |-> IF c \in C THEN Quota!Nothing ELSE Spent[c]]
  BY DEF Cleanup, Spent, Known, TypeOK, Quota!Nothing
<1>6. CASE C = {}
  <2>1. windows' = windows
    BY <1>6 DEF Cleanup, TypeOK
  <2> QED
    BY <1>1, <2>1 DEF Ages, Spent, Known
<1>7. CASE C # {}
  <2>1. C \in (SUBSET Quota!Over) \ {{}}
    BY <1>3, <1>7
  <2> QED
    BY <1>1, <1>4, <1>5, <2>1 DEF Quota!Forget
<1> QED
  BY <1>6, <1>7

LEMMA FindClientRefuses ==
  ASSUME TypeOK, NEW w \in Workers, FindClient(w)
  PROVE  Quota!Refuse(w) \/ UNCHANGED <<Ages, Spent, Told>>
<1>1. Ages' = Ages /\ Spent' = Spent
  BY DEF FindClient, Ages, Spent, Known
<1>2. CASE check[w].client \in Known
  BY <1>1, <1>2, GotoStutters DEF FindClient, At, Busy
<1>3. CASE check[w].client \notin Known
  <2>1. Answer(w, FALSE) /\ check[w].stage \in Busy
    BY <1>3 DEF FindClient, At, Busy
  <2>2. Ages[check[w].client] = None
    BY <1>3, <2>1, AnswerTells DEF Ages
  <2> QED
    BY <1>1, <2>1, <2>2, AnswerTells
       DEF Quota!Refuse
<1> QED
  BY <1>2, <1>3

(* Counting up to MaxCount, seen from the limits.                           *)
Capped(n) == [j \in Classes |-> IF n[j] < Limit[j] THEN n[j] ELSE Limit[j]]

LEMMA CountedCapped ==
  ASSUME NEW n \in [Classes -> Nat], NEW k \in Classes, NEW m \in [Classes -> Nat],
         n[k] < MaxCount => m[k] = n[k] + 1,
         ~(n[k] < MaxCount) => m[k] = n[k],
         \A j \in Classes : j # k => m[j] = n[j]
  PROVE  /\ n[k] < Limit[k] =>
              /\ m[k] <= Limit[k]
              /\ Capped(n)[k] < Limit[k]
              /\ Capped(m) = [Capped(n) EXCEPT ![k] = Capped(n)[k] + 1]
         /\ ~(n[k] < Limit[k]) =>
              /\ ~(m[k] <= Limit[k])
              /\ Capped(n)[k] = Limit[k]
              /\ Capped(m) = Capped(n)
<1>1. /\ Limit[k] \in Nat /\ Limit[k] < MaxCount /\ MaxCount \in Nat
      /\ n[k] \in Nat
  BY LimiterAssumption
<1>3. CASE n[k] < Limit[k]
  <2>1. m[k] = n[k] + 1
    BY <1>1, <1>3
  <2>2. Capped(n)[k] = n[k] /\ Capped(m)[k] = n[k] + 1
    BY <1>1, <1>3, <2>1 DEF Capped
  <2>3. \A j \in Classes : j # k => Capped(m)[j] = Capped(n)[j]
    BY DEF Capped
  <2>4. Capped(m) = [Capped(n) EXCEPT ![k] = Capped(n)[k] + 1]
    BY <2>2, <2>3 DEF Capped
  <2> QED
    BY <1>1, <1>3, <2>1, <2>2, <2>4
<1>4. CASE ~(n[k] < Limit[k])
  <2>1. m[k] > Limit[k] /\ m[k] \in Nat
    BY <1>1, <1>4
  <2>2. Capped(n)[k] = Limit[k] /\ Capped(m)[k] = Limit[k]
    BY <1>1, <1>4, <2>1 DEF Capped
  <2>3. \A j \in Classes : j # k => Capped(m)[j] = Capped(n)[j]
    BY DEF Capped
  <2>4. Capped(m) = Capped(n)
    BY <2>2, <2>3 DEF Capped
  <2> QED
    BY <1>1, <2>1, <2>2, <2>4
<1> QED
  BY <1>3, <1>4

(* A check that counts answers as the quota says: it opens a window, or is  *)
(* admitted to the current one, or refused.                                 *)
LEMMA CountDecides ==
  ASSUME TypeOK, NEW w \in Workers, Count(w)
  PROVE  Quota!Admit(w) \/ Quota!AdmitFirst(w) \/ Quota!Refuse(w)
<1> DEFINE c == check[w].client
           k == check[w].class
           n == Current(w).count
           e == CountedUpTo(w, MaxCount)
           ok == e.count[k] <= Limit[k]
<1>1. ok \in BOOLEAN /\ Answer(w, ok) /\ check[w].stage \in Busy
  BY DEF Count, At, Busy
<1>2. /\ c \in Clients /\ k \in Classes
      /\ Told[w].client = c /\ Told[w].class = k
      /\ Quota!Answer(w, IF ok THEN "admitted" ELSE "refused")
  BY <1>1, AnswerTells
<1>3. windows' = [windows EXCEPT ![c] = e] /\ e \in Windows /\ Current(w) \in Windows
  BY CurrentTyped DEF Count
<1>4. Known' = Known \cup {c}
  BY <1>2, <1>3, NoneIsNoWindow DEF Known, TypeOK
<1>5. Ages' = [Ages EXCEPT ![c] = e.age]
  BY <1>2, <1>3, <1>4 DEF Ages, Known, TypeOK
<1>6. Spent' = [Spent EXCEPT ![c] = Capped(e.count)]
  BY <1>2, <1>3, <1>4 DEF Spent, Known, TypeOK, Capped
<1>7. /\ n \in [Classes -> 0..MaxCount] /\ e.age = Current(w).age
      /\ e.count = [n EXCEPT ![k] = IF n[k] < MaxCount THEN n[k] + 1 ELSE n[k]]
  BY <1>3 DEF Windows, Counts, CountedUpTo
<1>8. /\ n[k] < Limit[k] =>
           /\ ok /\ Capped(n)[k] < Limit[k]
           /\ Capped(e.count) = [Capped(n) EXCEPT ![k] = Capped(n)[k] + 1]
      /\ ~(n[k] < Limit[k]) =>
           ~ok /\ Capped(n)[k] = Limit[k] /\ Capped(e.count) = Capped(n)
  <2> DEFINE m == e.count
  <2>1. /\ n \in [Classes -> Nat] /\ m \in [Classes -> Nat]
        /\ n[k] < MaxCount => m[k] = n[k] + 1
        /\ ~(n[k] < MaxCount) => m[k] = n[k]
        /\ \A j \in Classes : j # k => m[j] = n[j]
    BY <1>2, <1>3, <1>7, LimiterAssumption DEF Windows, Counts
  <2> HIDE DEF m, n, k
  <2>2. /\ n[k] < Limit[k] =>
              /\ m[k] <= Limit[k]
              /\ Capped(n)[k] < Limit[k]
              /\ Capped(m) = [Capped(n) EXCEPT ![k] = Capped(n)[k] + 1]
        /\ ~(n[k] < Limit[k]) =>
              /\ ~(m[k] <= Limit[k])
              /\ Capped(n)[k] = Limit[k]
              /\ Capped(m) = Capped(n)
    BY <1>2, <2>1, CountedCapped
  <2> QED
    BY <2>2 DEF m
<1>9. CASE c \notin Known \/ Expired(c, check[w].lag)
  <2>1. n = Quota!Nothing /\ e.age = check[w].lag
    BY <1>7, <1>9 DEF Current, Zero, Quota!Nothing
  <2>2. n[k] < Limit[k] /\ Capped(n) = Quota!Nothing /\ Capped(n)[k] = 0
    <3>1. \A j \in Classes : 0 < Limit[j]
      BY LimiterAssumption
    <3>2. \A j \in Classes : n[j] = 0
      BY <2>1 DEF Quota!Nothing
    <3>3. Capped(n) = [j \in Classes |-> 0]
      BY <3>1, <3>2 DEF Capped
    <3> QED
      BY <1>2, <3>1, <3>2, <3>3 DEF Quota!Nothing
  <2>3. Spent' = [Spent EXCEPT ![c] = [Quota!Nothing EXCEPT ![k] = 1]]
    <3>1. Capped(e.count) = [Quota!Nothing EXCEPT ![k] = 1]
      BY <1>8, <2>2
    <3> QED
      BY <1>6, <3>1
  <2>4. Ages' = [Ages EXCEPT ![c] = check[w].lag]
    BY <1>5, <2>1
  <2>5. check[w].lag \in 0..Pause
    BY <1>1, BusyTyped DEF Checks
  <2>6. Ages[c] # None => Ages[c] >= Window
    <3>1. ASSUME c \in Known, Expired(c, check[w].lag)
          PROVE  windows[c].age >= Window
      <4>1. windows[c] \in Windows
        BY <3>1 DEF Known, TypeOK
      <4> QED
        BY <2>5, <3>1, <4>1, LimiterAssumption DEF Windows, MaxAge, Expired
    <3> QED
      BY <1>2, <1>9, <3>1 DEF Ages
  <2>7. Quota!Answer(w, "admitted")
    BY <1>2, <1>8, <2>2
  <2> QED
    BY <1>2, <2>3, <2>4, <2>5, <2>6, <2>7 DEF Quota!AdmitFirst
<1>10. CASE c \in Known /\ ~Expired(c, check[w].lag)
  <2>1. Current(w) = windows[c]
    BY <1>10 DEF Current
  <2>2. Ages' = Ages /\ Ages[c] # None
    <3>1. e.age = windows[c].age /\ e.age \in Nat
      BY <1>3, <1>7, <2>1, LimiterAssumption DEF Windows, MaxAge
    <3>2. Ages[c] = e.age
      BY <1>2, <1>10, <3>1 DEF Ages
    <3> QED
      BY <1>5, <3>1, <3>2, NoneAssumption DEF Ages
  <2>3. Spent[c] = Capped(n)
    BY <1>2, <1>10, <2>1 DEF Spent, Capped
  <2>4. CASE n[k] < Limit[k]
    <3>1. Spent[c][k] < Limit[k]
      BY <1>8, <2>3, <2>4
    <3>2. Spent' = [Spent EXCEPT ![c][k] = @ + 1]
      BY <1>6, <1>8, <2>3, <2>4
    <3>3. Quota!Answer(w, "admitted")
      BY <1>2, <1>8, <2>4
    <3> QED
      BY <1>2, <2>2, <3>1, <3>2, <3>3 DEF Quota!Admit
  <2>5. CASE ~(n[k] < Limit[k])
    <3>1. Spent[c][k] = Limit[k]
      BY <1>8, <2>3, <2>5
    <3>2. Spent' = Spent
      BY <1>6, <1>8, <2>3, <2>5 DEF Spent
    <3>3. Quota!Answer(w, "refused")
      BY <1>2, <1>8, <2>5
    <3> QED
      BY <1>2, <2>2, <3>1, <3>2, <3>3 DEF Quota!Refuse
  <2> QED
    BY <2>4, <2>5
<1> QED
  BY <1>9, <1>10

LEMMA UnbanLifts ==
  ASSUME TypeOK, NEW c \in Clients, NEW k \in Classes, Unban(c, k)
  PROVE  Quota!Unban \/ UNCHANGED <<Ages, Spent, Told>>
<1> USE LimiterAssumption
<1>1. windows[c] \in Windows /\ c \in Known
  BY DEF Unban, Known, TypeOK
<1>2. windows' = [windows EXCEPT ![c] = [windows[c] EXCEPT !.count[k] = 0]]
  BY DEF Unban, TypeOK
<1>3. [windows[c] EXCEPT !.count[k] = 0] \in Windows
  BY <1>1 DEF Windows, Counts
<1>4. Known' = Known
  BY <1>1, <1>2, <1>3, NoneIsNoWindow DEF Known, TypeOK
<1>5. Ages' = Ages
  BY <1>1, <1>2, <1>4 DEF Ages, Known, TypeOK, Windows
<1>6. Told' = Told
  BY DEF Unban, Told
<1>7. Spent' = [Spent EXCEPT ![c][k] = 0]
  BY <1>1, <1>2, <1>4 DEF Spent, Known, TypeOK, Windows, Counts
<1>8. CASE Spent[c][k] = 0
  <2>1. [Spent[c] EXCEPT ![k] = 0] = Spent[c]
    BY <1>8 DEF Spent
  <2>2. Spent' = Spent
    BY <1>7, <2>1 DEF Spent
  <2> QED
    BY <1>5, <1>6, <2>2
<1>9. CASE Spent[c][k] # 0
  <2>1. Spent[c][k] \in Nat
    BY <1>1 DEF Spent, Windows, Counts
  <2>2. Spent[c][k] > 0
    BY <1>9, <2>1
  <2> QED
    BY <1>5, <1>6, <1>7, <2>2 DEF Quota!Unban
<1> QED
  BY <1>8, <1>9

LEMMA TickAges ==
  ASSUME TypeOK, Tick
  PROVE  Quota!Tick
<1> USE LimiterAssumption DEF MaxAge
<1>1. ASSUME NEW c \in Known
      PROVE  /\ windows'[c] # None
             /\ windows'[c].age = Quota!Older(windows[c].age)
             /\ windows'[c].count = windows[c].count
  <2>1. windows[c] \in Windows
    BY DEF Known, TypeOK
  <2>2. windows'[c] = IF windows[c].age = MaxAge THEN windows[c]
                      ELSE [windows[c] EXCEPT !.age = @ + 1]
    BY DEF Tick, Known
  <2>3. windows'[c] \in Windows
    BY <2>1, <2>2 DEF Windows
  <2> QED
    BY <2>1, <2>2, <2>3, NoneIsNoWindow DEF Windows, Quota!Older
<1>2. \A c \in Clients : c \notin Known => windows'[c] = None
  BY DEF Tick, Known
<1>3. Known' = Known
  BY <1>1, <1>2 DEF Known
<1>4. \A c \in Known : windows[c].age \in Nat
  BY DEF Known, TypeOK, Windows
<1>5. Ages' = [c \in Clients |-> IF Ages[c] = None THEN None ELSE Quota!Older(Ages[c])]
  BY <1>1, <1>3, <1>4, NoneAssumption DEF Ages
<1>6. Spent' = Spent
  BY <1>1, <1>3 DEF Spent
<1>7. \A w \in Workers : /\ check'[w].client = check[w].client
                         /\ check'[w].class = check[w].class
                         /\ check'[w].stage = check[w].stage
  <2> SUFFICES ASSUME NEW w \in Workers
               PROVE  /\ check'[w].client = check[w].client
                      /\ check'[w].class = check[w].class
                      /\ check'[w].stage = check[w].stage
    OBVIOUS
  <2>1. CASE check[w].stage \in Busy
    <3>1. check[w] \in Checks /\ check'[w] = [check[w] EXCEPT !.lag = @ + 1]
      BY <2>1, BusyTyped DEF Tick
    <3> QED
      BY <3>1 DEF Checks
  <2>2. CASE check[w].stage \notin Busy
    BY <2>2 DEF Tick
  <2> QED
    BY <2>1, <2>2
<1>8. Told' = Told
  BY <1>7 DEF Told
<1> QED
  BY <1>5, <1>6, <1>8 DEF Quota!Tick

LEMMA QuotaInit == Init => Quota!Init
  BY DEF Init, Quota!Init, Ages, Spent, Told, Known, NoCheck, Quota!Told, Quota!Nothing

LEMMA QuotaStep ==
  TypeOK /\ [Next]_vars => [Quota!Next]_<<Ages, Spent, Told>>
<1> SUFFICES ASSUME TypeOK, [Next]_vars
             PROVE  [Quota!Next]_<<Ages, Spent, Told>>
  OBVIOUS
<1>1. ASSUME NEW w \in Workers, NEW c \in Clients, NEW k \in Classes, Begin(w, c, k)
      PROVE  Quota!Next
  BY <1>1, BeginAsks DEF Quota!Next
<1>2. ASSUME NEW w \in Workers, Step(w) PROVE [Quota!Next]_<<Ages, Spent, Told>>
  <2>1. ASSUME FindFull(w) \/ FindRoom(w)
        PROVE  UNCHANGED <<Ages, Spent, Told>> \/ Quota!Next
    <3>1. UNCHANGED windows
      BY <2>1 DEF FindFull, FindRoom
    <3>2. \E s \in Busy : Goto(w, s) /\ check[w].stage \in Busy
      BY <2>1 DEF FindFull, FindRoom, At, Busy
    <3>3. Told' = Told
      BY <3>2, GotoStutters
    <3> QED
      BY <3>1, <3>3 DEF Ages, Spent, Known
  <2>2. CASE Cleanup(w)
    BY <2>2, CleanupForgets DEF Quota!Next
  <2>3. CASE FindClient(w)
    BY <2>3, FindClientRefuses DEF Quota!Next
  <2>4. CASE Count(w)
    BY <2>4, CountDecides DEF Quota!Next
  <2> QED
    BY <1>2, <2>1, <2>2, <2>3, <2>4 DEF Step
<1>3. ASSUME NEW c \in Clients, NEW k \in Classes, Unban(c, k)
      PROVE  [Quota!Next]_<<Ages, Spent, Told>>
  BY <1>3, UnbanLifts DEF Quota!Next
<1>4. CASE Tick
  BY <1>4, TickAges DEF Quota!Next
<1>5. CASE UNCHANGED vars
  BY <1>5 DEF vars, Ages, Spent, Told, Known, At
<1> QED
  BY <1>1, <1>2, <1>3, <1>4, <1>5 DEF Next

(* The limiter, with its checks cut at every access to the map, implements  *)
(* the quotas that it promises.                                             *)
THEOREM QuotasKept == Spec => KeepsQuotas
  BY TypeInit, TypeStep, QuotaInit, QuotaStep, PTL
     DEF Spec, KeepsQuotas, Quota!Spec, Quota!vars

-----------------------------------------------------------------------------
(* The reports.                                                             *)
LEMMA CountReports ==
  ASSUME TypeOK, NEW w \in Workers, Count(w), windows'[check[w].client].age < Window
  PROVE  check'[w].stage = "refused" <=> <<check[w].client, check[w].class>> \in Limited'
<1> DEFINE c == check[w].client
           k == check[w].class
           e == CountedUpTo(w, MaxCount)
<1>1. c \in Clients /\ k \in Classes
  BY BusyTyped DEF Count, At, Busy, Checks
<1>2. e \in Windows /\ e.count[k] \in Nat /\ e.age \in Nat /\ Limit[k] \in Nat
  <2>1. e \in Windows
    BY CurrentTyped DEF Count
  <2> QED
    BY <1>1, <2>1, LimiterAssumption DEF Windows, Counts, MaxAge
<1> HIDE DEF e
<1>3. windows'[c] = e /\ c \in Known'
  BY <1>1, <1>2, NoneIsNoWindow DEF Count, Known, TypeOK, e
<1>4. check'[w].stage = IF e.count[k] <= Limit[k] THEN "admitted" ELSE "refused"
  BY DEF Count, Answer, NoCheck, TypeOK, e
<1>5. <<c, k>> \in Limited' <=> e.count[k] > Limit[k]
  <2>1. ~(windows'[c].age - 0 >= Window)
    BY <1>2, <1>3, LimiterAssumption
  <2>2. \A p : p \in Limited' <=> /\ p \in Known' \X Classes
                                  /\ ~(windows'[p[1]].age - 0 >= Window)
                                  /\ windows'[p[1]].count[p[2]] > Limit[p[2]]
    BY DEF Limited, Expired
  <2>3. <<c, k>> \in Known' \X Classes
    BY <1>1, <1>3
  <2> HIDE DEF c, k
  <2> QED
    BY <1>3, <2>1, <2>2, <2>3
<1> QED
  BY <1>2, <1>4, <1>5

(* Whoever is refused for its quota while its window lasts is in what the   *)
(* next heartbeat reports, and whoever is reported is refused, whatever     *)
(* other checks, unbans and ticks come between the steps of a check         *)
(* (state.rs 229-231, 241-271).                                             *)
THEOREM RefusedAreReported == Spec => RefusedIsReported
<1>1. TypeOK /\ [Next]_vars =>
        [\A w \in Workers : Count(w) /\ windows'[check[w].client].age < Window =>
            (check'[w].stage = "refused"
                <=> <<check[w].client, check[w].class>> \in Limited')]_vars
  BY CountReports
<1> QED
  BY <1>1, TypeInit, TypeStep, PTL DEF Spec, RefusedIsReported
=============================================================================
