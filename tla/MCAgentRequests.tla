-------------------------- MODULE MCAgentRequests ---------------------------
(* Small instances of AgentRequests: one agent whose credential is rotated *)
(* from `old' to `new'.                                                    *)
EXTENDS AgentRequests, TLC

CONSTANTS old, new

MCKeys == {old, new}

Fresh(until) == [state |-> "active", key |-> new, previous |-> old, until |-> until]

Rotation == {[state |-> "active", key |-> old, previous |-> Absent, until |-> 0],
             Fresh(3),
             [Fresh(3) EXCEPT !.state = "revoked"]}
=============================================================================
