-------------------------- MODULE DurableWorkspace --------------------------
(***************************************************************************)
(* What a Sandbox promises about a session's workspace, whatever becomes   *)
(* of the containers it lives in: the session works in one workspace; an   *)
(* archive is a copy of it at one moment; the archive that counts is       *)
(* replaced only by a newer one; and a workspace that has vanished comes   *)
(* back as that archive, or empty when there never was one.                *)
(*                                                                         *)
(* A workspace is known by the last piece of work it contains, a number.   *)
(***************************************************************************)
EXTENDS Integers

VARIABLES
    live,    \* the workspace the session works in, or None
    taken,   \* the archive being made, or None
    saved    \* the archive that counts, or None

None == -1
Empty == 0

vars == <<live, taken, saved>>

Init == live = None /\ taken = None /\ saved = None

\* The session works on.
Work == live # None /\ live' > live /\ UNCHANGED <<taken, saved>>

\* The container is stopped, dies, or is found gone.
Vanish == live' = None /\ UNCHANGED <<taken, saved>>

\* A new container is given the workspace back, or the session starts afresh.
Resume ==
    /\ live = None
    /\ IF saved = None THEN live' >= Empty ELSE live' = saved
    /\ UNCHANGED <<taken, saved>>

\* The workspace is archived; the archive counts once it is recorded.
Take == live # None /\ taken' = live /\ UNCHANGED <<live, saved>>
Drop == taken' = None /\ UNCHANGED <<live, saved>>
Save ==
    /\ taken # None
    /\ saved' = taken
    /\ taken' \in {taken, None}
    /\ saved' >= saved
    /\ UNCHANGED live

\* The session is deleted.
Forget == saved' = None /\ UNCHANGED <<live, taken>>

Next == Work \/ Vanish \/ Resume \/ Take \/ Drop \/ Save \/ Forget

Spec == Init /\ [][Next]_vars

=============================================================================
