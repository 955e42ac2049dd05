---------------------------- MODULE MCRateLimiter ---------------------------
(* A small instance: two handler tasks, room for one client, three clients, *)
(* one request a window in each class.  One of the clients asks for routes  *)
(* of two classes, the others for one.  Trusted are half of the addresses   *)
(* of one family and one more and, by a /0, all of the other.               *)
EXTENDS RequestIntake, TLC

MCWidth == [v4 |-> 3, v6 |-> 2]
V4(n) == [family |-> "v4", bits |-> n]
V6(n) == [family |-> "v6", bits |-> n]

MCClients == {V4(0), V4(1), V6(1)}
MCClasses == {"Enroll", "Unrecognized"}
MCLimit   == [k \in MCClasses |-> 1]

MCTrusted == {[family |-> "v4", bits |-> 7, prefix |-> 1],
              [family |-> "v4", bits |-> 1, prefix |-> 3],
              [family |-> "v6", bits |-> 0, prefix |-> 0]}

(* Mask and compare decide what a comparison bit by bit would, for every    *)
(* CIDR and address of these widths, /0 and the full length among them.     *)
ASSUME CidrMatches ==
    \A cidr \in Cidrs, ip \in Addresses : Contains(cidr, ip) <=> SamePrefix(cidr, ip)

Enroll(c)  == [row |-> "enroll", canonical |-> c]
MCRequests ==
    {[peer |-> V4(0), hops |-> <<V4(1), V4(2)>>, route |-> Enroll(TRUE)],
     [peer |-> V6(1), hops |-> <<NoAddress, V4(2)>>, route |-> Enroll(FALSE)],
     [peer |-> V6(1), hops |-> NoAddress, route |-> Enroll(FALSE)]}
    \cup {[peer |-> V6(1), hops |-> <<V4(1), V4(2)>>, route |-> Enroll(c)] :
              c \in BOOLEAN}

Sym == Permutations(Workers)
=============================================================================
