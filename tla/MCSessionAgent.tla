-------------------------- MODULE MCSessionAgent --------------------------
(***************************************************************************)
(* The session agent with two prompts and two concurrent requests.         *)
(***************************************************************************)
EXTENDS SessionAgent

CONSTANTS p1, p2, c1, c2

MCPrompts == {p1, p2}
MCCallers == {c1, c2}
=============================================================================
