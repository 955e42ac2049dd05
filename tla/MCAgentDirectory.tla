-------------------------- MODULE MCAgentDirectory --------------------------
(* A small instance: an agent that enrols by an unbound token, is revoked   *)
(* or removed, or has enrolled elsewhere.                                   *)
EXTENDS AgentDirectory, TLC

CONSTANT k1

MCBound   == [x \in Tokens |-> Absent]
MCEntries == {Enrolled(k1), [Enrolled(k1) EXCEPT !.state = "revoked"]}
=============================================================================
