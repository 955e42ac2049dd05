------------------------------- MODULE Quotas -------------------------------
(* What the rate limiter promises (CHANGELOG, 1.1.0): per client and class  *)
(* of request a quota in every fixed window, the classes independent of     *)
(* each other.  A window lasts Window ticks.  A check may act on a clock it *)
(* read up to Late ticks ago, so a window may begin that much in the past.  *)
EXTENDS Naturals

CONSTANTS
    Workers, Clients, Classes,
    Limit,      \* quota of a class
    Window, Late,
    None        \* no window, no check

VARIABLES
    age,        \* ticks since the client's window began
    spent,      \* requests of a class admitted in that window
    check       \* what each handler task asks or was told

vars == <<age, spent, check>>

Nothing    == [k \in Classes |-> 0]
Told(told) == [client |-> None, class |-> None, told |-> told]

Init ==
    /\ age = [c \in Clients |-> None]
    /\ spent = [c \in Clients |-> Nothing]
    /\ check = [w \in Workers |-> Told(None)]

Asking(w)       == check[w].client # None
Answer(w, told) == Asking(w) /\ check' = [check EXCEPT ![w] = Told(told)]

Ask(w) ==
    /\ ~Asking(w)
    /\ \E c \in Clients, k \in Classes :
        check' = [check EXCEPT ![w] = [client |-> c, class |-> k, told |-> None]]
    /\ UNCHANGED <<age, spent>>

Admit(w) ==
    LET c == check[w].client
        k == check[w].class
    IN
    /\ Answer(w, "admitted")
    /\ age[c] # None
    /\ spent[c][k] < Limit[k]
    /\ spent' = [spent EXCEPT ![c][k] = @ + 1]
    /\ UNCHANGED age

(* The first request of a new window is admitted, whatever its class.       *)
AdmitFirst(w) ==
    LET c == check[w].client
        k == check[w].class
    IN
    /\ Answer(w, "admitted")
    /\ age[c] # None => age[c] >= Window
    /\ \E late \in 0..Late : age' = [age EXCEPT ![c] = late]
    /\ spent' = [spent EXCEPT ![c] = [Nothing EXCEPT ![k] = 1]]

(* Refused are only a client that has used up its quota and a client that   *)
(* has no window, for want of room for one.                                 *)
Refuse(w) ==
    LET c == check[w].client
        k == check[w].class
    IN
    /\ Answer(w, "refused")
    /\ age[c] # None => spent[c][k] = Limit[k]
    /\ UNCHANGED <<age, spent>>

Unban ==
    /\ \E c \in Clients, k \in Classes :
        /\ spent[c][k] > 0
        /\ spent' = [spent EXCEPT ![c][k] = 0]
    /\ UNCHANGED <<age, check>>

(* Windows that are over may be forgotten, any number at a time.            *)
Over == {c \in Clients : age[c] # None /\ age[c] >= Window}

Forget ==
    /\ UNCHANGED check
    /\ \E C \in (SUBSET Over) \ {{}} :
        /\ age' = [c \in Clients |-> IF c \in C THEN None ELSE age[c]]
        /\ spent' = [c \in Clients |-> IF c \in C THEN Nothing ELSE spent[c]]

(* Ages beyond Window + Late tell nothing apart.                            *)
Older(n) == IF n < Window + Late THEN n + 1 ELSE n

Tick ==
    /\ age' = [c \in Clients |-> IF age[c] = None THEN None ELSE Older(age[c])]
    /\ UNCHANGED <<spent, check>>

Next ==
    \/ \E w \in Workers : Ask(w) \/ Admit(w) \/ AdmitFirst(w) \/ Refuse(w)
    \/ Unban
    \/ Forget
    \/ Tick

Spec == Init /\ [][Next]_vars
=============================================================================
