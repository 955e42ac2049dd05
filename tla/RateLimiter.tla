----------------------------- MODULE RateLimiter ----------------------------
(* The rate limiter (state.rs 44-68, 198-272): one window per client with a *)
(* counter for each class of request, in a concurrent map with a cap on its *)
(* entries.  Handler tasks run check_rate_limit side by side: a check reads *)
(* the clock once, then accesses the map several times, and other checks,   *)
(* unbans and time move in between.                                         *)
(*                                                                          *)
(* A window's start is kept as its age in ticks, and a check's clock as its *)
(* lag behind the time: what the code compares is now.duration_since(start),*)
(* which is zero for a start that lies ahead of the check's clock.  An      *)
(* access to the map is one step.                                           *)
EXTENDS Integers, FiniteSets

CONSTANTS
    Clients, Classes,
    Limit,      \* RateLimitClass::limit
    MaxCount,   \* where a counter saturates (u32::MAX)
    MaxEntries, \* MAX_RATE_ENTRIES
    Window,     \* the window of 60 s
    Workers,    \* handler tasks that may check at the same time
    Pause,      \* bound: longest time from a check's clock to its end
    None

ASSUME LimiterAssumption ==
    /\ MaxCount \in Nat
    /\ Limit \in [Classes -> Nat]
    /\ \A k \in Classes : 0 < Limit[k] /\ Limit[k] < MaxCount
    /\ MaxEntries \in Nat \ {0} /\ Window \in Nat \ {0} /\ Pause \in Nat
    /\ IsFiniteSet(Workers) /\ Workers # {}

VARIABLES
    windows,    \* AppState.rate_limits
    check       \* the check each handler task is in, or the answer it gave

vars == <<windows, check>>

MaxAge == Window + Pause
Busy   == {"cleanup?", "cleanup", "room?", "known?", "count"}
Done   == {"idle", "admitted", "refused"}

Counts  == [Classes -> 0..MaxCount]
Windows == [age : 0..MaxAge, count : Counts]
Checks  == [stage : Busy, client : Clients, class : Classes, lag : 0..Pause]
NoCheck(s) == [stage |-> s, client |-> None, class |-> None, lag |-> 0]

ASSUME NoneAssumption ==
    None \notin Clients /\ None \notin Windows /\ None \notin Nat

TypeOK ==
    /\ windows \in [Clients -> Windows \cup {None}]
    /\ check \in [Workers -> Checks \cup {NoCheck(s) : s \in Done}]

Init ==
    /\ windows = [c \in Clients |-> None]
    /\ check = [w \in Workers |-> NoCheck("idle")]

-----------------------------------------------------------------------------
Known == {c \in Clients : windows[c] # None}
Full  == Cardinality(Known) >= MaxEntries
Zero  == [k \in Classes |-> 0]

At(w, s)   == check[w].stage = s
Goto(w, s) == check' = [check EXCEPT ![w].stage = s]
Answer(w, ok) ==
    check' = [check EXCEPT ![w] = NoCheck(IF ok THEN "admitted" ELSE "refused")]

(* duration_since, with the clock of a check that lags behind.              *)
Expired(c, lag) == windows[c].age - lag >= Window

(* check_rate_limit reads the clock.                                        *)
Begin(w, c, k) ==
    /\ check[w].stage \in Done
    /\ check' = [check EXCEPT ![w] = [stage |-> "cleanup?", client |-> c,
                                      class |-> k, lag |-> 0]]
    /\ UNCHANGED windows

FindFull(w) ==
    /\ At(w, "cleanup?")
    /\ Goto(w, IF Full THEN "cleanup" ELSE "room?")
    /\ UNCHANGED windows

Cleanup(w) ==
    /\ At(w, "cleanup")
    /\ windows' = [c \in Clients |->
                      IF c \in Known /\ Expired(c, check[w].lag)
                      THEN None ELSE windows[c]]
    /\ Goto(w, "room?")

(* Mutation: one entry more than the cap is let in.                         *)
FindRoomOffByOne(w) ==
    /\ At(w, "room?")
    /\ Goto(w, IF Cardinality(Known) > MaxEntries THEN "known?" ELSE "count")
    /\ UNCHANGED windows

FindRoom(w) ==
    /\ At(w, "room?")
    /\ Goto(w, IF Full THEN "known?" ELSE "count")
    /\ UNCHANGED windows

FindClient(w) ==
    /\ At(w, "known?")
    /\ IF check[w].client \in Known THEN Goto(w, "count") ELSE Answer(w, FALSE)
    /\ UNCHANGED windows

CurrentUncleared(w) ==  \* mutation: a window that is over keeps its counts
    LET c == check[w].client IN
    IF c \notin Known THEN [age |-> check[w].lag, count |-> Zero]
    ELSE IF Expired(c, check[w].lag) THEN [windows[c] EXCEPT !.age = check[w].lag]
    ELSE windows[c]

(* entry().or_insert_with(), the reset of a window that is over, and the    *)
(* count, all under the entry's lock.                                       *)
Current(w) ==
    LET c == check[w].client IN
    IF c \notin Known \/ Expired(c, check[w].lag)
    THEN [age |-> check[w].lag, count |-> Zero]
    ELSE windows[c]

(* Mutation: the counter is not kept from running over.                     *)
CountedUnbounded(w, n) ==
    LET k == check[w].class IN [Current(w) EXCEPT !.count[k] = @ + 1]

CountedUpTo(w, n) ==
    LET k == check[w].class IN
    [Current(w) EXCEPT !.count[k] = IF @ < n THEN @ + 1 ELSE @]

(* Mutation: a refused request is not counted.                              *)
CountAdmitted(w) ==
    LET k == check[w].class IN
    /\ At(w, "count")
    /\ windows' = [windows EXCEPT ![check[w].client] = CountedUpTo(w, Limit[k])]
    /\ Answer(w, Current(w).count[k] < Limit[k])

Count(w) ==
    LET e == CountedUpTo(w, MaxCount)
        k == check[w].class
    IN
    /\ At(w, "count")
    /\ windows' = [windows EXCEPT ![check[w].client] = e]
    /\ Answer(w, e.count[k] <= Limit[k])

(* clear_rate_limit: an operator's unban, applied by a sync.                *)
Unban(c, k) ==
    /\ c \in Known
    /\ windows' = [windows EXCEPT ![c].count[k] = 0]
    /\ UNCHANGED check

(* list_limited_rate_limits: what a heartbeat reports now.                  *)
Limited ==
    {p \in Known \X Classes :
        /\ ~Expired(p[1], 0)
        /\ windows[p[1]].count[p[2]] > Limit[p[2]]}

Tick ==
    /\ \A w \in Workers : check[w].stage \in Busy => check[w].lag < Pause
    /\ windows' = [c \in Clients |->
                      IF c \notin Known \/ windows[c].age = MaxAge THEN windows[c]
                      ELSE [windows[c] EXCEPT !.age = @ + 1]]
    /\ check' = [w \in Workers |->
                    IF check[w].stage \in Busy
                    THEN [check[w] EXCEPT !.lag = @ + 1] ELSE check[w]]

Step(w) ==
    \/ FindFull(w) \/ Cleanup(w) \/ FindRoom(w) \/ FindClient(w) \/ Count(w)

Next ==
    \/ \E w \in Workers, c \in Clients, k \in Classes : Begin(w, c, k)
    \/ \E w \in Workers : Step(w)
    \/ \E c \in Clients, k \in Classes : Unban(c, k)
    \/ Tick

Spec == Init /\ [][Next]_vars

-----------------------------------------------------------------------------
(* Properties.                                                              *)

(* The cap on entries is checked before the entry is made, so checks that   *)
(* run side by side overshoot it, by one entry for each other handler task  *)
(* at most, also when a cleanup takes an entry from under a check that has  *)
(* found it (state.rs 204-220).                                             *)
CapOvershoot == Cardinality(Known) < MaxEntries + Cardinality(Workers)

(* Whoever is refused for its quota, while its window lasts, is in what the *)
(* next heartbeat reports, so that an operator can lift it, and whoever is  *)
(* reported is refused (state.rs 229-231, 241-271).                         *)
RefusedIsReported ==
    [][\A w \in Workers : Count(w) /\ windows'[check[w].client].age < Window =>
        (check'[w].stage = "refused"
            <=> <<check[w].client, check[w].class>> \in Limited')]_vars

(* The limiter keeps the quotas that it promises: per client and class, at  *)
(* most Limit in a window; windows begin Window apart but for the lag of a  *)
(* clock; only an exhausted quota, never traffic of another class, refuses  *)
(* a client that has a window (state.rs 213-231, CHANGELOG 22-24).          *)
Ages  == [c \in Clients |-> IF c \in Known THEN windows[c].age ELSE None]
Spent == [c \in Clients |-> [k \in Classes |->
            IF c \notin Known THEN 0
            ELSE IF windows[c].count[k] < Limit[k] THEN windows[c].count[k]
            ELSE Limit[k]]]
Told  == [w \in Workers |->
            [client |-> check[w].client, class |-> check[w].class,
             told   |-> IF check[w].stage \in {"admitted", "refused"}
                        THEN check[w].stage ELSE None]]

Quota == INSTANCE Quotas WITH
    Late <- Pause, age <- Ages, spent <- Spent, check <- Told

KeepsQuotas == Quota!Spec
=============================================================================
