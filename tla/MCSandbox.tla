----------------------------- MODULE MCSandbox -----------------------------
(***************************************************************************)
(* The Sandbox object with one or two concurrent requests.                 *)
(***************************************************************************)
EXTENDS SandboxRuntime

CONSTANTS c1, c2

OneCaller == {c1}
TwoCallers == {c1, c2}
=============================================================================
