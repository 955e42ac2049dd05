----------------------------- MODULE ProxyGate ------------------------------
(* What a proxy promises about its identity and its gate: it keeps an       *)
(* identity before it takes it up, takes up none but the one it keeps, over *)
(* restarts, until it is told to forget it, and opens its gate only under   *)
(* an identity that was approved.                                           *)

CONSTANTS Proxies, None

VARIABLES
    id,         \* the identity of the running process
    kept,       \* the identity a restart would take up
    open,       \* does the process let traffic through?
    approved    \* the identities an administrator ever approved

vars == <<id, kept, open, approved>>

Init == id = None /\ kept = None /\ open = FALSE /\ approved = {}

Approve(p) == approved' = approved \cup {p} /\ UNCHANGED <<id, kept, open>>

Keep(p) ==
    /\ id = None /\ kept = None
    /\ kept' = p
    /\ UNCHANGED <<id, open, approved>>

Load == id = None /\ id' = kept /\ UNCHANGED <<kept, open, approved>>

Open  == id \in approved /\ open' = TRUE /\ UNCHANGED <<id, kept, approved>>
Close == open' = FALSE /\ UNCHANGED <<id, kept, approved>>

Stop   == id' = None /\ open' = FALSE /\ UNCHANGED <<kept, approved>>
Forget == id = None /\ kept' = None /\ UNCHANGED <<id, open, approved>>

Next ==
    \/ \E p \in Proxies : Approve(p) \/ Keep(p)
    \/ Load \/ Open \/ Close \/ Stop \/ Forget

Spec == Init /\ [][Next]_vars
=============================================================================
