---------------------------- MODULE ClientAddress ---------------------------
(* Under which address a request is counted (client_ip.rs), and the match   *)
(* of an address against a CIDR it rests on (config.rs 43-76).  Addresses   *)
(* are numbers of as many bits as their family has (32 and 128 in the       *)
(* code), with the machine's shift.                                         *)
EXTENDS Integers, Sequences, Bitwise

CONSTANTS
    Width,      \* bits of an address of a family: [v4 |-> 32, v6 |-> 128]
    Trusted,    \* trusted_proxy_cidrs
    NoAddress   \* a header that is absent; a hop that is no address

Families  == DOMAIN Width
Addresses == UNION {[family : {f}, bits : 0..(2^Width[f] - 1)] : f \in Families}

(* IpCidr::parse refuses a prefix longer than the address.                  *)
Cidrs == UNION {[family : {f}, bits : 0..(2^Width[f] - 1), prefix : 0..Width[f]] :
                    f \in Families}

ASSUME AddressAssumption ==
    /\ Width \in [Families -> Nat \ {0}]
    /\ Trusted \subseteq Cidrs
    /\ NoAddress \notin Addresses

(* x << n on w bits: the machine takes the shift modulo w.                  *)
Shl(x, n, w) == (x * 2^(n % w)) % 2^w

(* ipv4_in_prefix, ipv6_in_prefix: for /0 the shift would be the whole      *)
(* width and overflow.                                                      *)
InPrefix(network, addr, prefix, w) ==
    LET mask == IF prefix >= w THEN 2^w - 1 ELSE Shl(2^w - 1, w - prefix, w) IN
    prefix = 0 \/ (network & mask) = (addr & mask)

Contains(cidr, ip) ==
    /\ cidr.family = ip.family
    /\ InPrefix(cidr.bits, ip.bits, cidr.prefix, Width[ip.family])

IsTrusted(peer) == \E cidr \in Trusted : Contains(cidr, peer)

(* parse_forwarded_for: the leftmost hop, if it is an address.              *)
ForwardedFor(hops) ==
    IF hops = NoAddress \/ hops = <<>> THEN NoAddress ELSE Head(hops)

(* Mutation: the header is believed whoever sent it.                        *)
ResolveAnyPeer(peer, hops) ==
    IF ForwardedFor(hops) # NoAddress THEN ForwardedFor(hops) ELSE peer

ResolveClientIp(peer, hops) ==
    IF IsTrusted(peer) /\ ForwardedFor(hops) # NoAddress
    THEN ForwardedFor(hops)
    ELSE peer

-----------------------------------------------------------------------------
(* Reference: two addresses share a prefix when its bits agree one by one.  *)
Bit(x, i) == (x \div 2^i) % 2

SamePrefix(cidr, ip) ==
    /\ cidr.family = ip.family
    /\ \A i \in 1..cidr.prefix :
        Bit(cidr.bits, Width[ip.family] - i) = Bit(ip.bits, Width[ip.family] - i)
=============================================================================
