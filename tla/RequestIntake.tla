---------------------------- MODULE RequestIntake ---------------------------
(* How requests reach the rate limiter (main.rs 139-171): a request is      *)
(* counted under the address that client_ip.rs resolves and in the class of *)
(* its route (allowlist.rs).                                                *)
(*                                                                          *)
(* A route stands for method and path: the row of the table in              *)
(* is_allowed_agent_route it matches, and whether the path is canonical.    *)
EXTENDS RateLimiter, ClientAddress

CONSTANT
    Requests    \* what arrives: peer, X-Forwarded-For split at the commas, route

Routes == [row : {"enroll", "agent", "other"}, canonical : BOOLEAN]

ASSUME IntakeAssumption ==
    /\ Clients \subseteq Addresses
    /\ Classes \subseteq {"Enroll", "Allowed", "Unrecognized"}
    /\ \A r \in Requests : r.peer \in Addresses /\ r.route \in Routes

IsAllowed(route) == route.canonical /\ route.row # "other"

RateLimitClass(route) ==
    IF ~IsAllowed(route) THEN "Unrecognized"
    ELSE IF route.row = "enroll" THEN "Enroll"
    ELSE "Allowed"

(* handle_request up to check_rate_limit.  A request of a known class that  *)
(* finds the gate closed is answered 503 before this, and changes nothing.  *)
Arrive(w, r) ==
    Begin(w, ResolveClientIp(r.peer, r.hops), RateLimitClass(r.route))

IntakeNext ==
    \/ \E w \in Workers, r \in Requests : Arrive(w, r)
    \/ \E w \in Workers : Step(w)
    \/ \E c \in Clients, k \in Classes : Unban(c, k)
    \/ Tick

IntakeSpec == Init /\ [][IntakeNext]_vars

-----------------------------------------------------------------------------
(* Properties.                                                              *)

(* A peer outside the trusted networks spends its own quota whatever header *)
(* it sends, and a peer inside them that of the first hop, when that is an  *)
(* address, or else its own (client_ip.rs 13-34, the tests there).          *)
CountedUnderPeer ==
    [][\A w \in Workers, r \in Requests : Arrive(w, r) =>
        LET trusted == \E cidr \in Trusted : SamePrefix(cidr, r.peer)
            named   == r.hops \notin {NoAddress, <<>>} /\ r.hops[1] # NoAddress
        IN  check'[w].client = IF trusted /\ named THEN r.hops[1] ELSE r.peer]_vars
=============================================================================
