------------------------------ MODULE HostAgent ------------------------------
(***************************************************************************)
(* The Docker sandbox host (src/agent/server.mjs, src/agent/docker.mjs):   *)
(* one container and one named volume per session.                         *)
(*                                                                         *)
(* The calls that change a container (ensure, stop, remove, opencode       *)
(* start) queue behind a lock per session; the proxy does not.  Each       *)
(* action is one run of the docker CLI or the step between two of them.    *)
(* The daemon's own restarts, crashes of the server and commands that fail *)
(* happen at any moment.                                                   *)
(*                                                                         *)
(* A container is published on a port of its own at every start, and ports *)
(* are not reused: a port number stands for one start.                     *)
(***************************************************************************)
EXTENDS Integers, Sequences

CONSTANTS
    Sessions,    \* sessions on this host
    Requests,    \* concurrent proxied requests
    Images,      \* images the site may ask for
    PortTtl,     \* PORT_CACHE_TTL_MS
    MaxTime,     \* bound: clock
    MaxCalls,    \* bound: lifecycle calls
    MaxProxied,  \* bound: proxied requests
    MaxFaults    \* bound: failed commands, crashes, servers that die

ASSUME HostAssumption ==
    /\ Sessions # {} /\ Images # {}
    /\ PortTtl \in Nat \ {0}
    /\ {MaxTime, MaxCalls, MaxProxied, MaxFaults} \subseteq Nat

VARIABLES
    box,      \* the daemon's containers
    volume,   \* the daemon's volumes
    queue,    \* context.locks: the calls of a session in their order; the first runs
    ports,    \* context.ports
    proxied,  \* requests in the proxy
    removed,  \* history: sessions whose removal was answered and that were not ensured since
    served,   \* history: whether every start answered 'started' found its server ready
    now,      \* the clock
    used      \* the bounded counters

vars == <<box, volume, queue, ports, proxied, removed, served, now, used>>

-----------------------------------------------------------------------------
\* State

NoPort == 0
MaxPorts == MaxCalls + MaxFaults     \* no more starts than calls and crashes
Ops == {"ensure", "stop", "remove", "start"}
Container == [exists : BOOLEAN, running : BOOLEAN, image : Images \cup {"none"}, port : 0..MaxPorts,
              servers : 0..2, ready : BOOLEAN]
NoContainer == [exists |-> FALSE, running |-> FALSE, image |-> "none", port |-> NoPort,
                servers |-> 0, ready |-> FALSE]
Steps == {"begin", "container", "check", "stop", "rm", "volume", "spawn", "wait"}
Call == [op : Ops, at : Steps, image : Images \cup {"none"}]
NoEntry == [port |-> NoPort, at |-> 0]
Idle == [at |-> "idle", session |-> "none", port |-> NoPort]

Spend(counter) == used' = [used EXCEPT ![counter] = @ + 1]
Fault == used.faults < MaxFaults /\ Spend("faults")

\* docker run and docker start: a new published port, no server yet.
StartedOn(image, port) == [exists |-> TRUE, running |-> TRUE, image |-> image, port |-> port,
                           servers |-> 0, ready |-> FALSE]
Down(b) == [b EXCEPT !.running = FALSE, !.port = NoPort, !.servers = 0, !.ready = FALSE]

\* forgetPorts
ForgetPorts(s) == ports' = [ports EXCEPT ![s] = NoEntry]

-----------------------------------------------------------------------------
\* The lock

Called(s, op, image) ==
    /\ used.calls < MaxCalls
    /\ Spend("calls")
    /\ queue' = [queue EXCEPT ![s] = Append(@, [op |-> op, at |-> "begin", image |-> image])]
    /\ UNCHANGED <<box, volume, ports, proxied, removed, served, now>>

\* Mutant: calls of one session run side by side.
HoldsLockAny(s, i) == i \in DOMAIN queue[s]

\* withSessionLock: a call runs when every call before it has settled.
HoldsLock(s, i) == i \in DOMAIN queue[s] /\ i = 1

At(s, i, op, step) == HoldsLock(s, i) /\ queue[s][i].op = op /\ queue[s][i].at = step
Goes(s, i, step) == queue' = [queue EXCEPT ![s][i].at = step]

\* The call has answered or thrown; either lets the next one run.
Settles(s, i) == queue' = [queue EXCEPT ![s] = SubSeq(@, 1, i - 1) \o SubSeq(@, i + 1, Len(@))]

\* Mutant: a call that throws keeps the lock.
ThrowsLocked(s, i) == queue' = queue

Throws(s, i) == Settles(s, i)

-----------------------------------------------------------------------------
\* ensureSession

\* The volume is created apart from the container, if it is not there.
EnsureVolume(s, i) ==
    /\ At(s, i, "ensure", "begin")
    /\ removed' = removed \ {s}
    /\ \/ /\ volume' = [volume EXCEPT ![s] = TRUE]
          /\ Goes(s, i, "container")
          /\ UNCHANGED used
       \/ /\ ~volume[s] /\ Fault
          /\ Throws(s, i)
          /\ UNCHANGED volume
    /\ UNCHANGED <<box, ports, proxied, served, now>>

\* A stopped container with another image is replaced, a running one kept.
EnsureContainer(s, i) ==
    /\ At(s, i, "ensure", "container")
    /\ LET image == queue[s][i].image
           existing == box[s].exists /\ (box[s].running \/ box[s].image = image)
       IN IF box[s].running
          THEN Settles(s, i) /\ UNCHANGED <<box, used>>
          ELSE \/ /\ Spend("ports")
                  /\ box' = [box EXCEPT ![s] = StartedOn(IF existing THEN @.image ELSE image, used.ports + 1)]
                  /\ Goes(s, i, "check")
               \/ /\ Fault
                  /\ box' = IF existing THEN box ELSE [box EXCEPT ![s] = NoContainer]
                  /\ Throws(s, i)
    /\ UNCHANGED <<volume, ports, proxied, removed, served, now>>

\* The ports of the last start are forgotten; the container has to have stayed.
EnsureChecks(s, i) ==
    /\ At(s, i, "ensure", "check")
    /\ ForgetPorts(s)
    /\ IF box[s].running THEN Settles(s, i) ELSE Throws(s, i)
    /\ UNCHANGED <<box, volume, proxied, removed, served, now, used>>

-----------------------------------------------------------------------------
\* stopSession and removeSession

StopInspects(s, i) ==
    /\ At(s, i, "stop", "begin")
    /\ IF box[s].running
       THEN Goes(s, i, "stop") /\ UNCHANGED ports
       ELSE Settles(s, i) /\ ForgetPorts(s)
    /\ UNCHANGED <<box, volume, proxied, removed, served, now, used>>

\* docker stop; one that fails is answered 'stopped: false'.
StopStops(s, i) ==
    /\ At(s, i, "stop", "stop")
    /\ \/ box' = [box EXCEPT ![s] = Down(@)] /\ UNCHANGED used
       \/ Fault /\ UNCHANGED box
    /\ ForgetPorts(s)
    /\ Settles(s, i)
    /\ UNCHANGED <<volume, proxied, removed, served, now>>

RemoveForgets(s, i) ==
    /\ At(s, i, "remove", "begin")
    /\ ForgetPorts(s)
    /\ Goes(s, i, "rm")
    /\ UNCHANGED <<box, volume, proxied, removed, served, now, used>>

\* docker rm --force: one that times out is answered 'removed: false'.
RemoveContainer(s, i) ==
    /\ At(s, i, "remove", "rm")
    /\ \/ /\ box' = [box EXCEPT ![s] = NoContainer]
          /\ Goes(s, i, "volume")
          /\ UNCHANGED used
       \/ /\ Fault
          /\ Throws(s, i)
          /\ UNCHANGED box
    /\ UNCHANGED <<volume, ports, proxied, removed, served, now>>

RemoveVolume(s, i) ==
    /\ At(s, i, "remove", "volume")
    /\ \/ /\ volume' = [volume EXCEPT ![s] = FALSE]
          /\ removed' = removed \cup {s}
          /\ Settles(s, i)
          /\ UNCHANGED used
       \/ /\ Fault
          /\ Throws(s, i)
          /\ UNCHANGED <<volume, removed>>
    /\ UNCHANGED <<box, ports, proxied, served, now>>

-----------------------------------------------------------------------------
\* startOpencode

\* Mutant: a server is started without looking for one.
ServerAliveNever(s) == FALSE

\* serverAlive: a process serves the port.
ServerAlive(s) == box[s].servers > 0

StartLooks(s, i) ==
    /\ At(s, i, "start", "begin")
    /\ IF ~box[s].running THEN Throws(s, i)
       ELSE Goes(s, i, IF ServerAlive(s) THEN "wait" ELSE "spawn")
    /\ UNCHANGED <<box, volume, ports, proxied, removed, served, now, used>>

\* writeContainerFile and the detached exec.
StartSpawns(s, i) ==
    /\ At(s, i, "start", "spawn")
    /\ \/ /\ box[s].running
          /\ box' = [box EXCEPT ![s].servers = IF @ < 2 THEN @ + 1 ELSE @]
          /\ Goes(s, i, "wait")
          /\ UNCHANGED used
       \/ /\ IF box[s].running THEN Fault ELSE UNCHANGED used
          /\ Throws(s, i)
          /\ UNCHANGED box
    /\ UNCHANGED <<volume, ports, proxied, removed, served, now>>

\* The port is remembered for a short while only.
Fresh(s) == ports[s] # NoEntry /\ now - ports[s].at < PortTtl

\* probeReady: GET /path on the port that is remembered or looked up.
ProbeReady(s) == box[s].ready /\ (Fresh(s) => ports[s].port = box[s].port)

\* awaitServerReady: until the server answers, or its process is found gone
\* or the budget spent.
StartWaits(s, i) ==
    /\ At(s, i, "start", "wait")
    /\ \/ /\ ProbeReady(s)
          /\ ports' = [ports EXCEPT ![s] = [port |-> box[s].port, at |-> now]]
          /\ served' = (served /\ box[s].ready)
          /\ Settles(s, i)
          /\ UNCHANGED used
       \/ /\ Throws(s, i)
          /\ UNCHANGED <<ports, served, used>>
    /\ UNCHANGED <<box, volume, proxied, removed, now>>

-----------------------------------------------------------------------------
\* The proxy

ProxyBegins(r, s) ==
    /\ proxied[r].at = "idle"
    /\ used.proxied < MaxProxied
    /\ Spend("proxied")
    /\ proxied' = [proxied EXCEPT ![r] =
           IF Fresh(s) THEN [at |-> "send", session |-> s, port |-> ports[s].port]
                       ELSE [at |-> "lookup", session |-> s, port |-> NoPort]]
    /\ UNCHANGED <<box, volume, queue, ports, removed, served, now>>

\* resolvePublishedPort: docker port answers for the container of this moment.
ProxyLooksUp(r) ==
    /\ proxied[r].at = "lookup"
    /\ LET s == proxied[r].session IN
       IF box[s].running
       THEN proxied' = [proxied EXCEPT ![r].at = "found", ![r].port = box[s].port] /\ UNCHANGED ports
       ELSE proxied' = [proxied EXCEPT ![r] = Idle] /\ ForgetPorts(s)
    /\ UNCHANGED <<box, volume, queue, removed, served, now, used>>

\* The answer is kept, whatever has happened since.
ProxyRemembers(r) ==
    /\ proxied[r].at = "found"
    /\ ports' = [ports EXCEPT ![proxied[r].session] = [port |-> proxied[r].port, at |-> now]]
    /\ proxied' = [proxied EXCEPT ![r].at = "send"]
    /\ UNCHANGED <<box, volume, queue, removed, served, now, used>>

\* The request is answered by the server on that port, or by a 503.
ProxySends(r) ==
    /\ proxied[r].at = "send"
    /\ LET s == proxied[r].session IN
       IF box[s].ready /\ box[s].port = proxied[r].port THEN UNCHANGED ports ELSE ForgetPorts(s)
    /\ proxied' = [proxied EXCEPT ![r] = Idle]
    /\ UNCHANGED <<box, volume, queue, removed, served, now, used>>

-----------------------------------------------------------------------------
\* The daemon and the containers

ServerAnswers(s) ==
    /\ box[s].servers > 0 /\ ~box[s].ready
    /\ box' = [box EXCEPT ![s].ready = TRUE]
    /\ UNCHANGED <<volume, queue, ports, proxied, removed, served, now, used>>

ServerDies(s) ==
    /\ box[s].servers > 0
    /\ Fault
    /\ box' = [box EXCEPT ![s].servers = 0, ![s].ready = FALSE]
    /\ UNCHANGED <<volume, queue, ports, proxied, removed, served, now>>

\* A container that goes down on its own is brought back by its restart
\* policy, on another port and without a server.
ContainerCrashes(s) ==
    /\ box[s].running
    /\ used.faults < MaxFaults
    /\ used' = [used EXCEPT !.faults = @ + 1, !.ports = @ + 1]
    /\ box' = [box EXCEPT ![s] = StartedOn(@.image, used.ports + 1)]
    /\ UNCHANGED <<volume, queue, ports, proxied, removed, served, now>>

Tick ==
    /\ now < MaxTime
    /\ now' = now + 1
    /\ UNCHANGED <<box, volume, queue, ports, proxied, removed, served, used>>

-----------------------------------------------------------------------------
Init ==
    /\ box = [s \in Sessions |-> NoContainer]
    /\ volume = [s \in Sessions |-> FALSE]
    /\ queue = [s \in Sessions |-> <<>>]
    /\ ports = [s \in Sessions |-> NoEntry]
    /\ proxied = [r \in Requests |-> Idle]
    /\ removed = {}
    /\ served = TRUE
    /\ now = 0
    /\ used = [calls |-> 0, proxied |-> 0, ports |-> 0, faults |-> 0]

Step(s, i) ==
    \/ EnsureVolume(s, i) \/ EnsureContainer(s, i) \/ EnsureChecks(s, i)
    \/ StopInspects(s, i) \/ StopStops(s, i)
    \/ RemoveForgets(s, i) \/ RemoveContainer(s, i) \/ RemoveVolume(s, i)
    \/ StartLooks(s, i) \/ StartSpawns(s, i) \/ StartWaits(s, i)

Proxy(r) == ProxyLooksUp(r) \/ ProxyRemembers(r) \/ ProxySends(r)

Next ==
    \/ \E s \in Sessions, image \in Images : Called(s, "ensure", image)
    \/ \E s \in Sessions, op \in Ops \ {"ensure"} : Called(s, op, "none")
    \/ \E s \in Sessions, i \in 1..MaxCalls : Step(s, i)
    \/ \E r \in Requests, s \in Sessions : ProxyBegins(r, s)
    \/ \E r \in Requests : Proxy(r)
    \/ \E s \in Sessions : ServerAnswers(s) \/ ServerDies(s) \/ ContainerCrashes(s)
    \/ Tick

\* Every docker command ends, if only by its timeout, and a started server
\* answers or dies.
Fairness ==
    /\ \A s \in Sessions : WF_vars(Step(s, 1)) /\ WF_vars(ServerAnswers(s))
    /\ \A r \in Requests : WF_vars(Proxy(r))

Spec == Init /\ [][Next]_vars /\ Fairness

-----------------------------------------------------------------------------
\* Properties

TypeOK ==
    /\ box \in [Sessions -> Container]
    /\ volume \in [Sessions -> BOOLEAN]
    /\ \A s \in Sessions : queue[s] \in Seq(Call)
    /\ ports \in [Sessions -> [port : 0..MaxPorts, at : 0..MaxTime]]
    /\ removed \subseteq Sessions
    /\ served \in BOOLEAN

\* A session whose removal was answered has neither a container nor a volume
\* on this host until somebody ensures it again: no stop, start or older
\* ensure that was queued before brings anything back.
RemovedStaysRemoved ==
    \A s \in removed : ~box[s].exists /\ ~volume[s]

\* A container never runs two OpenCode servers, however often a start is
\* repeated after a timeout: a server that is already there is adopted.  And a
\* start was answered 'started' only when the session's own server answered, not
\* when its process merely existed or another start of the container held the
\* port.
OneServer == served /\ \A s \in Sessions : box[s].servers <= 1

\* Every call and every proxied request is answered in the end: a call that
\* throws lets the next one run, and a container that is not running is a
\* 503, never a hang.
EverythingIsAnswered ==
    /\ \A s \in Sessions : (queue[s] # <<>>) ~> (queue[s] = <<>>)
    /\ \A r \in Requests : (proxied[r].at # "idle") ~> (proxied[r].at = "idle")
=============================================================================
