---------------------------- MODULE HostProtocol ----------------------------
(***************************************************************************)
(* The Sandbox Host protocol: one HTTP contract, two servers that were     *)
(* written apart, and one client.                                          *)
(*                                                                         *)
(*   - the Cloudflare host (src/host/host.ts, src/host/support.ts), whose  *)
(*     container calls are the sandbox SDK's (external);                   *)
(*   - the Docker agent (src/agent/server.mjs, src/agent/docker.mjs),      *)
(*     whose container calls are runs of the docker CLI (external);        *)
(*   - the site's client (src/src/host-client.ts, src/protocol/routes.ts). *)
(*                                                                         *)
(* An exchange is one request, the answer either host would give it for    *)
(* the same container, and what the client makes of each answer.  A path   *)
(* is the sequence of its segments, a JSON value is its type and the part  *)
(* of its value a check looks at, and a container is what the primitives   *)
(* can tell of it.  HostAgent models the containers' life.                 *)
(***************************************************************************)
EXTENDS Integers, Sequences, FiniteSets

CONSTANTS
    Exchanges    \* the requests, with the container they meet (see Exchange)

VARIABLES
    exchange,    \* the request and the container
    answers,     \* the answer of each host, or "none" before it
    seen         \* what the client makes of each answer

protocolVars == <<exchange, answers, seen>>

Hosts == {"cloudflare", "docker"}

\* What happens to an answer on its way: a proxy in between may put a page of
\* its own in its place, cut its body, or drop it.
Wires == {"clean", "page503", "page502", "cut", "dropped"}

-----------------------------------------------------------------------------
\* JSON values: one field, named for the type of the value.

Undefined == [undefined |-> ""]
Null == [null |-> ""]
Str(text) == [string |-> text]
Num(n) == [number |-> n]                     \* 1e999 parses as "Infinity"
Bool(b) == [boolean |-> b]
List(items) == [array |-> items]
Obj(entries) == [object |-> entries]
Malformed == [malformed |-> ""]              \* a body that is not JSON

IsA(value, type) == type \in DOMAIN value
IsAny(value, types) == DOMAIN value \subseteq types

JsonTypes == {"undefined", "null", "string", "number", "boolean", "array", "object", "malformed"}
IsValue(value) == \E type \in JsonTypes : DOMAIN value = {type}
Parts(value) ==
    IF IsA(value, "object") THEN {value.object[f] : f \in DOMAIN value.object}
    ELSE IF IsA(value, "array") THEN {value.array[i] : i \in DOMAIN value.array} ELSE {}

\* A value as deep as a batch of files: fields, items and the fields of those.
IsJson(body) ==
    IsValue(body) /\ \A field \in Parts(body) :
        IsValue(field) /\ \A item \in Parts(field) :
            IsValue(item) /\ \A part \in Parts(item) : IsValue(part)

Field(body, f) ==
    IF IsA(body, "object") /\ f \in DOMAIN body.object THEN body.object[f] ELSE Undefined

\* An answer: "OK" with what the client reads of it, or an error code.
Ok(result) == [code |-> "OK", result |-> result]
Err(code) == [code |-> code]
Invalid == Err("INVALID_REQUEST")

-----------------------------------------------------------------------------
\* Routes

Ids == {"s1", "S_2"}          \* match SESSION_ID_PATTERN; other segments do not
NoMatch == [id |-> "none", route |-> "none", proxyPath |-> <<>>]
Matched(id, route) == [id |-> id, route |-> route, proxyPath |-> <<>>]

\* protocol/routes.ts: the path a client method asks for.
SessionRoute(id, method) ==
    <<"sessions", id>> \o
    CASE method \in {"state", "remove"} -> <<>>
      [] method \in {"ensure", "stop", "exec", "snapshot"} -> <<method>>
      [] method = "writeBatch" -> <<"files", "write-batch">>
      [] method = "readFile" -> <<"files", "read">>
      [] method = "exists" -> <<"files", "exists">>
      [] method = "listFiles" -> <<"files", "list">>
      [] method = "opencodeStart" -> <<"opencode", "start">>
      [] method = "snapshotRestore" -> <<"snapshot", "restore">>
      [] method = "proxy" -> <<"proxy", "session", "list">>

\* The methods of HostClient: the verb each is sent with and the route meant.
ClientMethods == [state |-> <<"GET", "state">>, remove |-> <<"DELETE", "remove">>,
    ensure |-> <<"POST", "ensure">>, stop |-> <<"POST", "stop">>, exec |-> <<"POST", "exec">>,
    writeBatch |-> <<"POST", "write-batch">>, readFile |-> <<"POST", "read">>,
    exists |-> <<"POST", "exists">>, listFiles |-> <<"POST", "list">>,
    opencodeStart |-> <<"POST", "opencode-start">>, proxy |-> <<"GET", "proxy">>,
    snapshot |-> <<"POST", "snapshot">>, snapshotRestore |-> <<"POST", "snapshot-restore">>]

\* The segments that are not empty, in their order.
NonEmpty(path) ==
    LET kept == {i \in DOMAIN path : path[i] # ""}
        Nth(k) == CHOOSE i \in kept : Cardinality({j \in kept : j <= i}) = k
    IN [k \in 1 .. Cardinality(kept) |-> path[Nth(k)]]

\* protocol/routes.ts, used by the Cloudflare host.
MatchSessionRoute(verb, path) ==
    LET parts == NonEmpty(path)
        id == parts[2]
        rest == SubSeq(parts, 3, Len(parts))
        Tail2(a, b) == rest = <<a, b>>
    IN IF Len(parts) < 2 \/ parts[1] # "sessions" THEN NoMatch
       ELSE IF id \notin Ids THEN NoMatch
       ELSE IF rest = <<>> THEN
            CASE verb = "GET" -> Matched(id, "state")
              [] verb = "DELETE" -> Matched(id, "remove")
              [] OTHER -> NoMatch
       ELSE IF rest[1] = "proxy" THEN
            [id |-> id, route |-> "proxy", proxyPath |-> SubSeq(rest, 2, Len(rest))]
       ELSE IF verb # "POST" THEN NoMatch
       ELSE CASE rest \in {<<"ensure">>, <<"stop">>, <<"exec">>, <<"snapshot">>} -> Matched(id, rest[1])
              [] Tail2("files", "write-batch") -> Matched(id, "write-batch")
              [] Tail2("files", "read") -> Matched(id, "read")
              [] Tail2("files", "exists") -> Matched(id, "exists")
              [] Tail2("files", "list") -> Matched(id, "list")
              [] Tail2("opencode", "start") -> Matched(id, "opencode-start")
              [] Tail2("snapshot", "restore") -> Matched(id, "snapshot-restore")
              [] OTHER -> NoMatch

\* The agent's own table: a route is looked up by the rest of its path.
AgentRoutes == {<<<<"ensure">>, "ensure">>, <<<<"stop">>, "stop">>, <<<<"exec">>, "exec">>,
    <<<<"files", "write-batch">>, "write-batch">>, <<<<"files", "read">>, "read">>,
    <<<<"files", "exists">>, "exists">>, <<<<"files", "list">>, "list">>,
    <<<<"opencode", "start">>, "opencode-start">>, <<<<"snapshot">>, "snapshot">>,
    <<<<"snapshot", "restore">>, "snapshot-restore">>}

\* agent/server.mjs
AgentMatch(verb, path) ==
    LET parts == NonEmpty(path)
        rest == SubSeq(parts, 3, Len(parts))
        rows == {r \in AgentRoutes : verb = "POST" /\ r[1] = rest}
    IN IF ~(Len(parts) >= 2 /\ parts[1] = "sessions" /\ parts[2] \in Ids) THEN NoMatch
       ELSE IF rest # <<>> /\ rest[1] = "proxy"
       THEN [id |-> parts[2], route |-> "proxy", proxyPath |-> Tail(rest)]
       ELSE IF rest = <<>> /\ verb \in {"GET", "DELETE"}
       THEN Matched(parts[2], IF verb = "GET" THEN "state" ELSE "remove")
       ELSE IF rows # {} THEN Matched(parts[2], (CHOOSE r \in rows : TRUE)[2]) ELSE NoMatch

-----------------------------------------------------------------------------
\* Body checks: host/support.ts.  Each says whether the field is accepted.

ReadJsonBody(body) == IsAny(body, {"undefined", "object"})

RequiredString(body, f) == IsA(Field(body, f), "string") /\ Field(body, f).string # ""

\* Absent, null, or of the type.
OptionalOf(body, f, type) == IsAny(Field(body, f), {"undefined", "null", type})
OptionalString(body, f) == OptionalOf(body, f, "string")
OptionalNumber(body, f) ==
    OptionalOf(body, f, "number")
    /\ (IsA(Field(body, f), "number") => Field(body, f).number # "Infinity")
OptionalBoolean(body, f) == OptionalOf(body, f, "boolean")

StringMap(body, f) ==
    LET map == Field(body, f) IN
    \/ IsAny(map, {"undefined", "null"})
    \/ IsA(map, "object") /\ \A k \in DOMAIN map.object : IsA(map.object[k], "string")

AbsolutePaths == {"/a", "/b"}
OctalModes == {"600"}
Encodings == {"utf-8", "base64"}

ParseWriteBatch(body) ==
    LET files == Field(body, "files") IN
    /\ IsA(files, "array") /\ files.array # <<>>
    /\ \A i \in DOMAIN files.array : LET file == files.array[i] IN
          /\ IsA(file, "object")
          /\ RequiredString(file, "path") /\ Field(file, "path").string \in AbsolutePaths
          /\ IsA(Field(file, "content"), "string")
          /\ OptionalString(file, "encoding") /\ OptionalString(file, "mode")
          /\ IsA(Field(file, "encoding"), "string") => Field(file, "encoding").string \in Encodings
          /\ IsA(Field(file, "mode"), "string") => Field(file, "mode").string \in OctalModes

-----------------------------------------------------------------------------
\* Body checks: agent/server.mjs says what is wrong with a field.

AgentReadJsonBody(body) ==
    ~IsAny(body, {"malformed", "array", "null", "string", "number", "boolean"})

AgentBadString(body, f) == ~IsA(Field(body, f), "string") \/ Field(body, f).string = ""

Given(body, f) == ~IsAny(Field(body, f), {"undefined", "null"})
AgentBadOptional(body, f, type) == Given(body, f) /\ ~IsA(Field(body, f), type)

AgentBadNumber(body, f) ==
    AgentBadOptional(body, f, "number") \/ (Given(body, f) /\ Field(body, f).number = "Infinity")

AgentBadMap(body, f) ==
    /\ Given(body, f)
    /\ \/ ~IsA(Field(body, f), "object")
       \/ \E k \in DOMAIN Field(body, f).object : ~IsA(Field(body, f).object[k], "string")

AgentBadFile(file) ==
    \/ ~IsA(file, "object")
    \/ AgentBadString(file, "path")
    \/ Field(file, "path").string \notin AbsolutePaths
    \/ ~IsA(Field(file, "content"), "string")
    \/ \E f \in {"encoding", "mode"} : AgentBadOptional(file, f, "string")
    \/ Given(file, "encoding") /\ Field(file, "encoding").string \notin Encodings
    \/ Given(file, "mode") /\ Field(file, "mode").string \notin OctalModes

AgentBadBatch(body) ==
    \/ ~IsA(Field(body, "files"), "array")
    \/ Field(body, "files").array = <<>>
    \/ \E i \in DOMAIN Field(body, "files").array : AgentBadFile(Field(body, "files").array[i])

\* A variable a shell cannot assign is refused by the agent alone.
ShellIdentifiers == {"KEY", "OTHER"}
AgentBadEnv(body) ==
    \/ AgentBadMap(body, "env")
    \/ Given(body, "env") /\ ~(DOMAIN Field(body, "env").object \subseteq ShellIdentifiers)

-----------------------------------------------------------------------------
\* The container a request meets.  cmd is what the command does in it: its
\* exit code, whether it outlives its budget and how it is then ended, how
\* much it prints and what its stderr looks like.

OutputLimit == 2              \* EXEC_OUTPUT_LIMIT_BYTES

Commands == [exit : {0, 1, 124, 127, 137}, late : {"no", "term", "kill", "stuck"},
             out : {1, OutputLimit + 1}, err : {"plain", "missing", "daemon"}]
Boxes == [exists : BOOLEAN, running : BOOLEAN, volume : BOOLEAN, cmd : Commands,
          file : {"none", "text", "binary", "unreadable"}, size : {1, OutputLimit + 1},
          dir : {"none", "file", "dir"}, entries : SUBSET {"a", ".b"}, writable : BOOLEAN,
          server : {"none", "alive"}, boots : BOOLEAN, dies : {"term", "kill", "never"},
          archive : BOOLEAN]

\* The requests there are: a client method's, or any other, with a body of the
\* depth the routes look at, for a container that can be.
IsExchange(x) ==
    /\ \/ x.method = "raw"
       \/ /\ x.method \in DOMAIN ClientMethods /\ x.verb = ClientMethods[x.method][1]
          /\ \E id \in Ids : x.path = SessionRoute(id, x.method)
    /\ x.path \in Seq(STRING) /\ IsJson(x.body) /\ x.wire \in Wires
    /\ x.box \in Boxes /\ (x.box.running => x.box.exists)

ASSUME ExchangesAssumption == \A x \in Exchanges : IsExchange(x)

CapOutput(bytes) == [bytes |-> IF bytes <= OutputLimit THEN bytes ELSE OutputLimit,
                     truncated |-> bytes > OutputLimit]

Hidden(name) == name = ".b"
IncludeHidden(body) == Field(body, "includeHidden") # Bool(FALSE)

-----------------------------------------------------------------------------
\* The Cloudflare host.  The SDK's errors (external) carry a code of their
\* own, which errorToResponse translates.

SdkErrorCodes == [FILE_NOT_FOUND |-> "FILE_NOT_FOUND", NOT_DIRECTORY |-> "DIR_NOT_FOUND",
    CONTAINER_UNAVAILABLE |-> "CONTAINER_NOT_RUNNING", OPENCODE_STARTUP_FAILED |-> "OPENCODE_START_FAILED",
    PROCESS_READY_TIMEOUT |-> "OPENCODE_START_FAILED",
    PROCESS_EXITED_BEFORE_READY |-> "OPENCODE_START_FAILED",
    BACKUP_NOT_FOUND |-> "SNAPSHOT_NOT_FOUND", BACKUP_EXPIRED |-> "SNAPSHOT_NOT_FOUND"]

\* Listing a path that is not there is a missing directory, not a file.
RouteErrorCodes(route) ==
    IF route = "list" THEN [FILE_NOT_FOUND |-> "DIR_NOT_FOUND"] ELSE <<>>

ErrorToResponse(sdk, route) ==
    Err(IF sdk \in DOMAIN RouteErrorCodes(route) THEN RouteErrorCodes(route)[sdk]
        ELSE IF sdk \in DOMAIN SdkErrorCodes THEN SdkErrorCodes[sdk] ELSE "HOST_ERROR")

\* The SDK says of an exec that ran out of time only that it was aborted.
IsExecTimeout(cmd) == cmd.late # "no"

CfExecCommand(body, box) ==
    IF ~(RequiredString(body, "command") /\ OptionalString(body, "cwd") /\ StringMap(body, "env")
           /\ OptionalNumber(body, "timeoutMs")) THEN Invalid
    ELSE IF ~box.running THEN Err("CONTAINER_NOT_RUNNING")
    ELSE IF IsExecTimeout(box.cmd) THEN Err("EXEC_TIMEOUT")
    ELSE Ok([exit |-> box.cmd.exit, out |-> CapOutput(box.cmd.out)])

CfWriteBatch(body, box) ==
    IF ~ParseWriteBatch(body) THEN Invalid
    ELSE IF ~box.running THEN Err("CONTAINER_NOT_RUNNING")
    ELSE IF ~box.writable THEN ErrorToResponse("mkdir", "write-batch")
    ELSE Ok(Len(Field(body, "files").array))

CfReadSessionFile(body, box) ==
    IF ~RequiredString(body, "path") THEN Invalid
    ELSE IF ~box.running THEN Err("CONTAINER_NOT_RUNNING")
    ELSE IF box.file = "none" THEN ErrorToResponse("FILE_NOT_FOUND", "read")
    ELSE IF box.file = "unreadable" THEN ErrorToResponse("PERMISSION_DENIED", "read")
    ELSE Ok([size |-> box.size, encoding |-> IF box.file = "binary" THEN "base64" ELSE "utf-8"])

CfFileExists(body, box) ==
    IF ~RequiredString(body, "path") THEN Invalid
    ELSE IF ~box.running THEN Err("CONTAINER_NOT_RUNNING")
    ELSE Ok(box.file # "none")

CfListSessionFiles(body, box) ==
    IF ~(RequiredString(body, "path") /\ OptionalBoolean(body, "includeHidden")) THEN Invalid
    ELSE IF ~box.running THEN Err("CONTAINER_NOT_RUNNING")
    ELSE IF box.dir = "none" THEN ErrorToResponse("FILE_NOT_FOUND", "list")
    ELSE IF box.dir = "file" THEN ErrorToResponse("NOT_DIRECTORY", "list")
    ELSE Ok({n \in box.entries : IncludeHidden(body) \/ ~Hidden(n)})

CfStartOpencode(body, box) ==
    IF ~(OptionalNumber(body, "port") /\ OptionalString(body, "directory") /\ StringMap(body, "env"))
    THEN Invalid
    ELSE IF ~box.running THEN Err("CONTAINER_NOT_RUNNING")
    ELSE IF ~box.boots THEN Err("OPENCODE_START_FAILED")
    ELSE Ok(box.server = "alive")

CfEnsureSession(box) == Ok([created |-> ~box.running])
CfSessionState(box) == Ok([exists |-> box.exists \/ box.running, running |-> box.running])

\* signalAndWait: TERM within the grace period, then KILL.
CfSignalAndWait(box, signal) ==
    ~box.running \/ box.dies = "term" \/ (signal = 9 /\ box.dies = "kill")

CfStopSession(body, box) ==
    IF ~OptionalNumber(body, "timeoutSec") THEN Invalid
    ELSE Ok(CfSignalAndWait(box, 15) \/ CfSignalAndWait(box, 9))

CfRemoveSession(box) == Ok(CfSignalAndWait(box, 9))

CfProxy(box) ==
    IF ~box.running THEN Err("CONTAINER_NOT_RUNNING")
    ELSE IF box.server = "none" THEN ErrorToResponse("connect", "proxy") ELSE Ok("forwarded")

CfSnapshot(body, box) ==
    IF ~(RequiredString(body, "dir") /\ OptionalString(body, "name") /\ OptionalNumber(body, "ttlSeconds"))
    THEN Invalid
    ELSE IF ~box.running THEN Err("CONTAINER_NOT_RUNNING") ELSE Ok("handle")

CfRestoreSnapshot(body, box) ==
    IF ~IsA(Field(body, "handle"), "object") THEN Invalid
    ELSE IF ~box.archive THEN ErrorToResponse("BACKUP_NOT_FOUND", "snapshot-restore") ELSE Ok("restored")

CfDispatch(route, body, box) ==
    IF route \notin {"state", "remove", "proxy"} /\ ~ReadJsonBody(body) THEN Invalid
    ELSE CASE route = "state" -> CfSessionState(box)
      [] route = "remove" -> CfRemoveSession(box)
      [] route = "proxy" -> CfProxy(box)
      [] route = "ensure" -> CfEnsureSession(box)
      [] route = "stop" -> CfStopSession(body, box)
      [] route = "exec" -> CfExecCommand(body, box)
      [] route = "write-batch" -> CfWriteBatch(body, box)
      [] route = "read" -> CfReadSessionFile(body, box)
      [] route = "exists" -> CfFileExists(body, box)
      [] route = "list" -> CfListSessionFiles(body, box)
      [] route = "opencode-start" -> CfStartOpencode(body, box)
      [] route = "snapshot" -> CfSnapshot(body, box)
      [] route = "snapshot-restore" -> CfRestoreSnapshot(body, box)

CfFetch(x) ==
    LET match == MatchSessionRoute(x.verb, x.path) IN
    IF match = NoMatch THEN Invalid ELSE CfDispatch(match.route, x.body, x.box)

-----------------------------------------------------------------------------
\* The Docker agent.  A run of the docker CLI (external) ends with the exit
\* code of the command in the container, or with the daemon's complaint.

Collect(bytes) == IF bytes <= OutputLimit THEN bytes ELSE OutputLimit

RunDockerExec(box, exit, late, out, err) ==
    IF ~box.running
    THEN [code |-> IF box.exists THEN 1 ELSE 125, stderr |-> "daemon", late |-> FALSE,
          timedOut |-> FALSE, out |-> 0]
    ELSE [code |-> CASE late = "no" -> exit [] late = "term" -> 124 [] late = "kill" -> 137
                    [] late = "stuck" -> -1,
          stderr |-> err, late |-> late # "no", timedOut |-> late = "stuck", out |-> Collect(out)]

\* A script of the agent's own in the container.
RunScript(box, exit) == RunDockerExec(box, exit, "no", 1, "plain")

\* The CLI prefixes the daemon's complaint.
IsNoSuchObject(stderr) == stderr = "daemon"

\* Mutant: the exit code alone decides.
AssertContainerReachedByCode(result) ==
    IF result.code \in {1, 125} THEN "CONTAINER_NOT_RUNNING" ELSE "OK"

AssertContainerReached(result) ==
    IF result.code \in {1, 125} /\ IsNoSuchObject(result.stderr) THEN "CONTAINER_NOT_RUNNING"
    ELSE IF result.code \in {126, 127} /\ result.stderr = "missing" THEN "HOST_ERROR"
    ELSE "OK"

Reached(result, answer) ==
    IF AssertContainerReached(result) # "OK" THEN Err(AssertContainerReached(result)) ELSE answer

\* Mutant: exit code 124 is taken for a timeout whenever it came.
ExecTimedOutByCode(result) == result.timedOut \/ result.code \in {124, 137}

\* 124 and 137 are timeouts only if the command used up its budget; the
\* backstop around the CLI (timedOut) is one whatever the code.
ExecTimedOut(result) == result.timedOut \/ (result.code \in {124, 137} /\ result.late)

AgentExecCommand(body, box) ==
    IF AgentBadString(body, "command") \/ AgentBadOptional(body, "cwd", "string") \/ AgentBadMap(body, "env")
         \/ AgentBadNumber(body, "timeoutMs") THEN Invalid
    ELSE LET result == RunDockerExec(box, box.cmd.exit, box.cmd.late, box.cmd.out, box.cmd.err)
         IN Reached(result, IF ExecTimedOut(result) THEN Err("EXEC_TIMEOUT")
                            ELSE Ok([exit |-> result.code, out |-> CapOutput(result.out)]))

\* writeContainerFile, for every file of the batch.
AgentWriteBatch(body, box) ==
    IF AgentBadBatch(body) THEN Invalid
    ELSE LET result == RunScript(box, IF box.writable THEN 0 ELSE 1)
         IN Reached(result, IF result.code # 0 THEN Err("HOST_ERROR")
                            ELSE Ok(Len(Field(body, "files").array)))

\* readFileScript: exit 3 for a file that is not there.
AgentReadSessionFile(body, box) ==
    IF AgentBadString(body, "path") THEN Invalid
    ELSE LET result == RunDockerExec(box, CASE box.file = "none" -> 3 [] box.file = "unreadable" -> 1
                                            [] OTHER -> 0, "no", box.size, "plain")
         IN Reached(result,
              IF result.code = 3 THEN Err("FILE_NOT_FOUND")
              ELSE IF result.code # 0 THEN Err("HOST_ERROR")
              ELSE Ok([size |-> result.out,
                       encoding |-> IF box.file = "binary" THEN "base64" ELSE "utf-8"]))

AgentFileExists(body, box) ==
    IF AgentBadString(body, "path") THEN Invalid
    ELSE LET result == RunScript(box, IF box.file = "none" THEN 1 ELSE 0)
         IN Reached(result, Ok(result.code = 0))

\* parseListing drops the hidden names unless they were asked for.
ParseListing(names, includeHidden) == {n \in names : includeHidden \/ ~Hidden(n)}

AgentListSessionFiles(body, box) ==
    IF AgentBadString(body, "path") \/ AgentBadOptional(body, "includeHidden", "boolean") THEN Invalid
    ELSE LET result == RunScript(box, IF box.dir = "dir" THEN 0 ELSE 3)
         IN Reached(result, IF result.code = 3 THEN Err("DIR_NOT_FOUND")
                            ELSE Ok(ParseListing(box.entries, IncludeHidden(body))))

AgentStartOpencode(body, box) ==
    IF AgentBadNumber(body, "port") \/ AgentBadOptional(body, "directory", "string") \/ AgentBadEnv(body)
    THEN Invalid
    ELSE LET alive == RunScript(box, IF box.server = "alive" THEN 0 ELSE 1)
         IN Reached(alive, IF box.boots THEN Ok(alive.code = 0) ELSE Err("OPENCODE_START_FAILED"))

AgentEnsureSession(body, box) ==
    IF AgentBadOptional(body, "image", "string") THEN Invalid ELSE Ok([created |-> ~box.running])

AgentSessionState(box) == Ok([exists |-> box.exists, running |-> box.running])

\* docker stop escalates by itself; one that fails is looked at once more.
AgentStopSession(body, box) ==
    IF AgentBadNumber(body, "timeoutSec") THEN Invalid ELSE Ok(~box.running \/ box.dies # "never")

AgentRemoveSession(box) == Ok(~box.running \/ box.dies # "never")

\* A container that does not answer on its published port counts as gone.
AgentProxy(box) ==
    IF box.running /\ box.server = "alive" THEN Ok("forwarded") ELSE Err("CONTAINER_NOT_RUNNING")

AgentDispatch(route, body, box) ==
    IF route # "proxy" /\ ~AgentReadJsonBody(body) THEN Invalid
    ELSE CASE route = "proxy" -> AgentProxy(box)
      [] route = "state" -> AgentSessionState(box)
      [] route = "ensure" -> AgentEnsureSession(body, box)
      [] route = "stop" -> AgentStopSession(body, box)
      [] route = "remove" -> AgentRemoveSession(box)
      [] route = "exec" -> AgentExecCommand(body, box)
      [] route = "write-batch" -> AgentWriteBatch(body, box)
      [] route = "read" -> AgentReadSessionFile(body, box)
      [] route = "exists" -> AgentFileExists(body, box)
      [] route = "list" -> AgentListSessionFiles(body, box)
      [] route = "opencode-start" -> AgentStartOpencode(body, box)
      [] route \in {"snapshot", "snapshot-restore"} -> Err("SNAPSHOT_UNSUPPORTED")

AgentHandle(x) ==
    LET match == AgentMatch(x.verb, x.path) IN
    IF match = NoMatch THEN Invalid ELSE AgentDispatch(match.route, x.body, x.box)

-----------------------------------------------------------------------------
\* The wire and the client

ErrorStatus == [OK |-> 200, UNAUTHORIZED |-> 401, INVALID_REQUEST |-> 400, SESSION_NOT_FOUND |-> 404,
    FILE_NOT_FOUND |-> 404, DIR_NOT_FOUND |-> 404, CONTAINER_NOT_RUNNING |-> 503, EXEC_TIMEOUT |-> 408,
    OPENCODE_START_FAILED |-> 502, SNAPSHOT_UNSUPPORTED |-> 501, SNAPSHOT_NOT_FOUND |-> 404,
    HOST_ERROR |-> 500]

Page(wire) == IF wire = "page503" THEN 503 ELSE 502

\* hostErrorFrom: the host's own code if the body has one.
HostErrorFrom(status, code) ==
    IF code # "none" THEN code ELSE IF status = 503 THEN "CONTAINER_NOT_RUNNING" ELSE "HOST_ERROR"

\* HostClient.json; proxyFetch hands the response on as it is.
ClientReads(answer, wire, route) ==
    IF wire = "dropped" THEN "transport"
    ELSE IF route = "proxy" THEN "response"
    ELSE IF wire \in {"page503", "page502"} THEN HostErrorFrom(Page(wire), "none")
    ELSE IF wire = "cut"
    THEN IF answer.code = "OK" THEN "HOST_ERROR" ELSE HostErrorFrom(ErrorStatus[answer.code], "none")
    ELSE IF answer.code = "OK" THEN "OK"
    ELSE HostErrorFrom(ErrorStatus[answer.code], answer.code)

IsContainerNotRunning(code) == code = "CONTAINER_NOT_RUNNING"

-----------------------------------------------------------------------------
Route == MatchSessionRoute(exchange.verb, exchange.path).route
NoAnswers == [h \in Hosts |-> Err("none")]
Unseen == [h \in Hosts |-> "none"]

ProtocolInit == exchange \in Exchanges /\ answers = NoAnswers /\ seen = Unseen

HostsAnswer ==
    /\ answers = NoAnswers
    /\ answers' = [h \in Hosts |-> IF h = "cloudflare" THEN CfFetch(exchange) ELSE AgentHandle(exchange)]
    /\ UNCHANGED <<exchange, seen>>

ClientSees ==
    /\ answers # NoAnswers /\ seen = Unseen
    /\ seen' = [h \in Hosts |-> ClientReads(answers[h], exchange.wire, Route)]
    /\ UNCHANGED <<exchange, answers>>

ProtocolNext == HostsAnswer \/ ClientSees

ProtocolSpec == ProtocolInit /\ [][ProtocolNext]_protocolVars

-----------------------------------------------------------------------------
\* Properties

Answered == answers # NoAnswers

\* Where the agent is known to answer otherwise (see the README): a command
\* whose stderr reads like the daemon's complaint or like a missing binary,
\* a variable name a shell cannot assign, an image that is not a string, a
\* body on a route that takes none, output or a file beyond the cap, which it
\* cuts without saying so, and a proxied request to a container whose server
\* is not there.
Misread(box) == box.cmd.late = "no" /\ ((box.cmd.exit = 1 /\ box.cmd.err = "daemon")
                                          \/ (box.cmd.exit = 127 /\ box.cmd.err = "missing"))
KnownDifference ==
    \/ Route \in {"snapshot", "snapshot-restore"}
    \/ Route \in {"state", "remove"} /\ ~AgentReadJsonBody(exchange.body)
    \/ Route = "exec" /\ (Misread(exchange.box) \/ exchange.box.cmd.out > OutputLimit)
    \/ Route = "read" /\ exchange.box.size > OutputLimit
    \/ Route = "proxy" /\ exchange.box.running /\ exchange.box.server = "none"
    \/ Route = "ensure" /\ AgentBadOptional(exchange.body, "image", "string")
    \/ Route = "opencode-start" /\ AgentBadEnv(exchange.body)

\* Both hosts answer a request alike: the same route table, the same refusals
\* of a body, the same code for the same trouble in the container and the
\* same result, apart from the differences named above.  The site has one
\* client and does not know which host it talks to.
HostsAgree == Answered /\ ~KnownDifference => answers["cloudflare"] = answers["docker"]

\* A path the client builds reaches, on both hosts, the operation it means.
ClientReachesItsRoute ==
    Answered /\ exchange.method # "raw" =>
        /\ Route = ClientMethods[exchange.method][2]
        /\ AgentMatch(exchange.verb, exchange.path) = MatchSessionRoute(exchange.verb, exchange.path)

\* The Sandbox marks its container as gone when the client says so (onHost):
\* then it is gone, or somebody between the two answered 503, or a command
\* printed the daemon's words.
GoneIsGone ==
    \A h \in Hosts : IsContainerNotRunning(seen[h]) =>
        \/ ~exchange.box.running
        \/ exchange.wire = "page503"
        \/ h = "docker" /\ Route = "exec" /\ Misread(exchange.box)

\* An error the host reports arrives as that error; one that was mangled on
\* the way is never taken for a missing file, a timeout or a success.
ErrorsArrive ==
    \A h \in Hosts : seen[h] # "none" /\ Route # "proxy" =>
        IF exchange.wire = "clean" THEN seen[h] = answers[h].code
        ELSE seen[h] \in {"transport", "HOST_ERROR", "CONTAINER_NOT_RUNNING"}

\* The site's one client understands either host: its paths reach the operation
\* they mean, a container is given up only if it is gone, and an error arrives
\* as the error it was.
ClientUnderstands == ClientReachesItsRoute /\ GoneIsGone /\ ErrorsArrive
=============================================================================
