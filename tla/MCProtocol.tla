----------------------------- MODULE MCProtocol -----------------------------
(* Exchanges for TLC: per route, every shape of each field of its body, and  *)
(* every state of the container that the route can tell apart.               *)
EXTENDS HostProtocol

Quiet == [exit |-> 0, late |-> "no", out |-> 1, err |-> "plain"]
Box == [exists |-> TRUE, running |-> TRUE, volume |-> TRUE, cmd |-> Quiet, file |-> "text", size |-> 1,
        dir |-> "dir", entries |-> {"a", ".b"}, writable |-> TRUE, server |-> "alive", boots |-> TRUE,
        dies |-> "term", archive |-> TRUE]
Absent == {[Box EXCEPT !.exists = e, !.running = FALSE] : e \in BOOLEAN}

\* The shapes of a field: nothing, null, a good value, one of the wrong type.
Strings == {Undefined, Null, Str("s"), Str(""), Num("2")}
Numbers == {Undefined, Null, Num("2"), Num("Infinity"), Str("s")}
Booleans == {Undefined, Null, Bool(TRUE), Bool(FALSE), Str("s")}
Maps == {Undefined, Null, List(<<>>), Str("s"), Obj([KEY |-> Str("s")]), Obj([KEY |-> Num("2")]),
         Obj([k \in {"9K"} |-> Str("s")])}
Paths == {Undefined, Null, Str(""), Str("/a"), Num("2")}

Good == [path |-> Str("/a"), content |-> Str("s")]
Files == {Obj(Good), Str("s"), Null, Obj([content |-> Str("s")]), Obj([path |-> Str("/a")]),
          Obj([Good EXCEPT !.path = Str("a")]), Obj([Good EXCEPT !.path = Str("")]),
          Obj([Good EXCEPT !.content = Num("2")])}
         \cup {Obj([path |-> Str("/b"), content |-> Str(""), encoding |-> e]) : e \in Strings \cup {Str("base64")}}
         \cup {Obj([path |-> Str("/b"), content |-> Str("s"), mode |-> m]) : m \in Strings \cup {Str("600")}}
Batches == {Undefined, Null, Str("s"), List(<<>>)} \cup {List(<<f>>) : f \in Files}
           \cup {List(<<f, g>>) : f, g \in Files}

Bodies(method) ==
    CASE method \in {"state", "remove", "proxy"} -> {Undefined}
      [] method = "ensure" -> {Obj([image |-> i]) : i \in Strings}
      [] method = "stop" -> {Obj([timeoutSec |-> n]) : n \in Numbers}
      [] method = "exec" -> {Obj([command |-> c, cwd |-> d, env |-> e, timeoutMs |-> n]) :
                                c, d \in Strings, e \in Maps, n \in Numbers}
      [] method = "writeBatch" -> {Obj([files |-> b]) : b \in Batches}
      [] method \in {"readFile", "exists"} -> {Obj([path |-> p]) : p \in Paths}
      [] method = "listFiles" -> {Obj([path |-> p, includeHidden |-> b]) : p \in Paths, b \in Booleans}
      [] method = "opencodeStart" -> {Obj([port |-> n, directory |-> d, env |-> e]) :
                                         n \in Numbers, d \in Strings, e \in Maps}
      [] method = "snapshot" -> {Obj([dir |-> d, name |-> s, ttlSeconds |-> n]) :
                                    d, s \in Strings, n \in Numbers}
      [] method = "snapshotRestore" -> {Obj([handle |-> h]) : h \in Maps}

\* A body every check accepts.
Accepted(method) ==
    CASE method \in {"state", "remove", "proxy", "ensure", "stop"} -> Undefined
      [] method = "exec" -> Obj([command |-> Str("s")])
      [] method = "writeBatch" -> Obj([files |-> List(<<Obj(Good)>>)])
      [] method \in {"readFile", "exists", "listFiles"} -> Obj([path |-> Str("/a")])
      [] method = "opencodeStart" -> Obj([env |-> Obj([KEY |-> Str("s")])])
      [] method = "snapshot" -> Obj([dir |-> Str("/a")])
      [] method = "snapshotRestore" -> Obj([handle |-> Obj([id |-> Str("s")])])

BoxesOf(method) == Absent \cup
    CASE method = "exec" -> {[Box EXCEPT !.cmd = c] : c \in Commands}
      [] method = "writeBatch" -> {[Box EXCEPT !.writable = w] : w \in BOOLEAN}
      [] method \in {"readFile", "exists"} ->
            {[Box EXCEPT !.file = f, !.size = n] : f \in {"none", "text", "binary", "unreadable"},
                                                   n \in {1, OutputLimit + 1}}
      [] method = "listFiles" -> {[Box EXCEPT !.dir = d, !.entries = es] :
                                     d \in {"none", "file", "dir"}, es \in SUBSET {"a", ".b"}}
      [] method \in {"opencodeStart", "proxy"} ->
            {[Box EXCEPT !.server = s, !.boots = b] : s \in {"none", "alive"}, b \in BOOLEAN}
      [] method \in {"stop", "remove"} -> {[Box EXCEPT !.dies = d] : d \in {"term", "kill", "never"}}
      [] OTHER -> {[Box EXCEPT !.archive = a] : a \in BOOLEAN}

Exchange(method, id, body, box, wire) ==
    [method |-> method, verb |-> ClientMethods[method][1], path |-> SessionRoute(id, method),
     body |-> body, box |-> box, wire |-> wire]

Methods == DOMAIN ClientMethods
Verbs == {"GET", "POST", "PUT", "DELETE"}

\* Requests no client method sends.
RawPaths == {<<>>, <<"sessions">>, <<"sessions", "a b">>, <<"other", "s1">>, <<"sessions", "s1", "">>,
             <<"sessions", "s1", "nothing">>, <<"sessions", "s1", "files">>, <<"sessions", "s1", "ensure", "x">>,
             <<"sessions", "s1", "proxy">>, <<"sessions", "s1", "", "stop">>}
            \cup {SessionRoute("s1", m) : m \in Methods}

MCExchanges ==
    UNION {
      UNION {{Exchange(m, "s1", body, box, "clean") :
                 body \in Bodies(m), box \in {Box} \cup Absent} : m \in Methods},
      UNION {{Exchange(m, id, Accepted(m), box, wire) :
                 id \in Ids, box \in BoxesOf(m), wire \in Wires} : m \in Methods},
      {Exchange(m, "s1", body, Box, "clean") :
          m \in Methods,
          body \in {Undefined, Malformed, Null, List(<<>>), Str("s"), Num("2"), Bool(TRUE)}},
      {[method |-> "raw", verb |-> v, path |-> p, body |-> Undefined, box |-> Box, wire |-> "clean"] :
          v \in Verbs, p \in RawPaths}}
=============================================================================
