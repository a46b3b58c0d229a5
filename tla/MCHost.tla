------------------------------- MODULE MCHost -------------------------------
(***************************************************************************)
(* The hosts for TLC.  A behaviour is about one of two things, whose state *)
(* is disjoint: the Docker host with one session and one proxied request   *)
(* at a time (nothing on the host is shared between sessions but the CLI), *)
(* or one exchange of the wire protocol with either host.                  *)
(***************************************************************************)
EXTENDS HostAgent, MCProtocol

VARIABLE topic

MCSessions == {"s"}
MCRequests == {"r"}
MCImages == {"old", "new"}

MCInit ==
    /\ Init /\ ProtocolInit
    /\ \/ topic = "agent" /\ exchange = Exchange("state", "s1", Undefined, Box, "clean")
       \/ topic = "protocol"

MCNext ==
    /\ UNCHANGED topic
    /\ \/ topic = "agent" /\ Next /\ UNCHANGED protocolVars
       \/ topic = "protocol" /\ ProtocolNext /\ UNCHANGED vars

MCSpec == MCInit /\ [][MCNext]_<<topic, vars, protocolVars>> /\ Fairness
=============================================================================
