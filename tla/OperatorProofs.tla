--------------------------- MODULE OperatorProofs ---------------------------
(***************************************************************************)
(* Proofs about what an operator does: the front door (AdminAccess), the   *)
(* settings (OperatorSettings) and what a wake makes of them               *)
(* (Provisioning), for any number of browsers, passwords, pages, saves,    *)
(* sessions and wakes and for any lists, configs and skills.               *)
(*                                                                         *)
(* Each of the three is a row of queries or calls with others between      *)
(* them.  The argument is about what a request, a save or a wake remembers *)
(* of what it read, compared with what is stored now.                      *)
(***************************************************************************)
EXTENDS AdminAccess, OperatorSettings, Provisioning, SequenceTheorems, FiniteSetTheorems, TLAPS

-----------------------------------------------------------------------------
\* The front door.


Request == [op : {"none", "login", "setup", "change"},
            at : {"idle", "read", "write", "revoke", "sweep", "insert"},
            pw : Passwords \cup {"", "short"}, next : Passwords \cup {"", "short"},
            seen : 0 .. MaxRecords]

\* What a request in flight remembers: a password that is about to be stored
\* is long enough, a first setup has seen no record, only a change signs
\* everybody out, and whoever inserts a session row has seen a record.
RequestSound(r) ==
    /\ r.at = "write" => \/ r.op = "setup" /\ r.pw \in Passwords /\ r.seen = 0
                         \/ r.op = "change" /\ r.next \in Passwords
    /\ r.op = "setup" /\ r.at = "read" => r.pw \in Passwords /\ r.seen = 0
    /\ r.op = "change" /\ r.at = "read" => r.next \in Passwords
    /\ r.at = "revoke" => r.op = "change" /\ r.seen > 0
    /\ r.at \in {"sweep", "insert"} => r.seen > 0

\* The stored record is the newest that was written, and no row names a later one.
RecordSound ==
    /\ record.no = records
    /\ record # NoRecord <=> record.no > 0
    /\ \A row \in adminSessions : row.no <= records

\* Nobody has seen a record that was not written.
SeenSound == \A b \in Browsers : request[b].seen <= records

\* The inductive invariant.
AccessInv ==
    /\ AccessTypeOK
    /\ RecordSound
    /\ SeenSound
    /\ \A b \in Browsers : RequestSound(request[b])
    /\ ChangeSignsEveryoneOut

-----------------------------------------------------------------------------
\* The bounds are numbers.
LEMMA Bounds == MaxRecords \in Nat /\ MaxTokens \in Nat
  BY AccessAssumption, Zenon

\* The request type of AccessTypeOK, by its name here.
LEMMA RequestType == AccessTypeOK => request \in [Browsers -> Request]
  BY DEF AccessTypeOK, Request

\* A request that has not begun remembers nothing.
LEMMA NoRequestSound == NoRequest \in Request /\ RequestSound(NoRequest) 
                       /\ NoRequest.at = "idle" /\ NoRequest.seen = 0
<1>1. 0 \in 0 .. MaxRecords
  BY Bounds
<1> QED
  BY <1>1 DEF NoRequest, Request, RequestSound

\* The number of the stored record is one a request can have seen.
LEMMA RecordNumber ==
  ASSUME AccessInv
  PROVE  /\ record.no \in 0 .. MaxRecords
         /\ record # NoRecord => record.no > 0
         /\ record.no = records /\ record.no <= records /\ records \in Nat /\ 0 <= records
<1>1. records \in 0 .. MaxRecords /\ record.no = records
  BY DEF AccessInv, AccessTypeOK, RecordSound
<1>2. record # NoRecord => record.no > 0
  BY DEF AccessInv, RecordSound
<1> QED
  BY <1>1, <1>2, Bounds

\* A request that ends (Refuse), or goes on without having been at the
\* sign-out, disturbs no stored state.
LEMMA RequestMoves ==
  ASSUME AccessInv, NEW b \in Browsers, NEW r \in Request, RequestSound(r), r.seen <= records,
         request' = [request EXCEPT ![b] = r],
         request[b].at # "revoke",
         UNCHANGED <<record, records, adminSessions, expired, tokens, cookie, broken, raced>>
  PROVE  AccessInv'
<1>1. request \in [Browsers -> Request]
  BY RequestType DEF AccessInv
<1>2. AccessTypeOK'
  BY <1>1 DEF AccessInv, AccessTypeOK, Request
<1>3. RecordSound'
  BY DEF AccessInv, RecordSound
<1>4. \A c \in Browsers : RequestSound(request'[c])
  BY <1>1 DEF AccessInv
<1>5. ChangeSignsEveryoneOut'
  <2>1. \A c \in Browsers : Step(c, "change", "revoke") => Step(c, "change", "revoke")'
    BY <1>1 DEF Step
  <2> QED
    BY <2>1 DEF AccessInv, ChangeSignsEveryoneOut
<1>6. SeenSound'
  BY <1>1 DEF AccessInv, SeenSound
<1> QED
  BY <1>2, <1>3, <1>4, <1>5, <1>6 DEF AccessInv

-----------------------------------------------------------------------------
\* Asking

\* A sign-in starts without having seen a record.
LEMMA AskLoginInv ==
  ASSUME AccessInv, NEW b \in Browsers, NEW pw \in Passwords, AskLogin(b, pw)
  PROVE  AccessInv'
<1> DEFINE r == [NoRequest EXCEPT !.op = "login", !.at = "read", !.pw = pw]
<1>1. r \in Request /\ RequestSound(r) /\ r.seen <= records
  BY NoRequestSound, RecordNumber DEF Request, RequestSound, NoRequest
<1>2. request[b] = NoRequest /\ request' = [request EXCEPT ![b] = r]
  BY Zenon DEF AskLogin, Ask
<1>3. request[b].at # "revoke"
  BY <1>2, NoRequestSound
<1> QED
  BY <1>1, <1>2, <1>3, RequestMoves DEF AskLogin

\* A setup starts with a password that is long enough.
LEMMA AskSetupInv ==
  ASSUME AccessInv, NEW b \in Browsers, NEW pw \in Passwords \cup {"short"}, AskSetup(b, pw)
  PROVE  AccessInv'
<1> DEFINE r == [NoRequest EXCEPT !.op = "setup", !.at = "read", !.pw = pw]
<1>1. r \in Request /\ RequestSound(r) /\ r.seen <= records
  BY NoRequestSound, RecordNumber DEF Request, RequestSound, NoRequest, AskSetup, LongEnough
<1>2. request[b] = NoRequest /\ request' = [request EXCEPT ![b] = r]
  BY Zenon DEF AskSetup, Ask
<1>3. request[b].at # "revoke"
  BY <1>2, NoRequestSound
<1> QED
  BY <1>1, <1>2, <1>3, RequestMoves DEF AskSetup

\* A change starts with a new password that is long enough.
LEMMA AskChangeInv ==
  ASSUME AccessInv, NEW b \in Browsers, NEW pw \in Passwords, NEW next \in Passwords,
         AskChange(b, pw, next)
  PROVE  AccessInv'
<1> DEFINE r == [NoRequest EXCEPT !.op = "change", !.at = "read", !.pw = pw, !.next = next]
<1>1. r \in Request /\ RequestSound(r) /\ r.seen <= records
  BY NoRequestSound, RecordNumber DEF Request, RequestSound, NoRequest
<1>2. request[b] = NoRequest /\ request' = [request EXCEPT ![b] = r]
  BY Zenon DEF AskChange, Ask
<1>3. request[b].at # "revoke"
  BY <1>2, NoRequestSound
<1> QED
  BY <1>1, <1>2, <1>3, RequestMoves DEF AskChange

-----------------------------------------------------------------------------
\* Reading the record

\* Every session was opened with a stored record (isSignedIn reads such rows only).
LEMMA RowNumbers ==
  ASSUME AccessInv
  PROVE  \A row \in adminSessions : row.no \in Nat /\ row.no > 0
<1>1. \A row \in adminSessions : row.no \in 1 .. MaxRecords
  BY Zenon DEF AccessInv, AccessTypeOK
<1> QED
  BY <1>1, Bounds

\* A verified sign-in remembers the record that verified it.
LEMMA ReadForLoginInv ==
  ASSUME AccessInv, NEW b \in Browsers, ReadForLogin(b)
  PROVE  AccessInv'
<1> DEFINE r == [request[b] EXCEPT !.at = "sweep", !.seen = record.no]
<1>1. request[b] \in Request
  BY RequestType DEF AccessInv
<1>2. CASE VerifyPassword(record, request[b].pw)
  <2>1. r \in Request /\ r.at = "sweep" /\ r.seen = record.no
    BY <1>1, RecordNumber DEF Request
  <2>2. r.seen > 0 /\ r.seen <= records
    BY <1>2, <2>1, RecordNumber DEF VerifyPassword
  <2> QED
    BY <1>2, <2>1, <2>2, RequestMoves DEF ReadForLogin, Move, Step, RequestSound
<1>3. CASE ~VerifyPassword(record, request[b].pw)
  BY <1>3, NoRequestSound, RecordNumber, RequestMoves DEF ReadForLogin, Refuse, Step
<1> QED
  BY <1>2, <1>3

\* A setup goes on only from an empty table.
LEMMA ReadForSetupInv ==
  ASSUME AccessInv, NEW b \in Browsers, ReadForSetup(b)
  PROVE  AccessInv'
<1> DEFINE r == [request[b] EXCEPT !.at = "write"]
<1>1. request[b] \in Request /\ RequestSound(request[b])
  BY RequestType DEF AccessInv
<1>2. CASE record = NoRecord
  <2>1. r \in Request /\ r.at = "write" /\ r.op = "setup" /\ r.pw \in Passwords /\ r.seen = 0
        /\ r.seen <= records
    BY <1>1, RecordNumber DEF Request, RequestSound, ReadForSetup, Step
  <2> QED
    BY <1>2, <2>1, RequestMoves DEF ReadForSetup, Move, Step, RequestSound
<1>3. CASE record # NoRecord
  BY <1>3, NoRequestSound, RecordNumber, RequestMoves DEF ReadForSetup, Refuse, Step
<1> QED
  BY <1>2, <1>3

\* A verified change remembers the record that verified it.
LEMMA ReadForChangeInv ==
  ASSUME AccessInv, NEW b \in Browsers, ReadForChange(b)
  PROVE  AccessInv'
<1> DEFINE r == [request[b] EXCEPT !.at = "write", !.seen = record.no]
<1>1. request[b] \in Request /\ RequestSound(request[b])
  BY RequestType DEF AccessInv
<1>2. CASE VerifyPassword(record, request[b].pw)
  <2>1. r \in Request /\ r.at = "write" /\ r.op = "change" /\ r.next \in Passwords
        /\ r.seen = record.no
    BY <1>1, RecordNumber DEF Request, RequestSound, ReadForChange, Step
  <2> QED
    BY <1>2, <2>1, RecordNumber, RequestMoves DEF ReadForChange, Move, Step, RequestSound
<1>3. CASE ~VerifyPassword(record, request[b].pw)
  BY <1>3, NoRequestSound, RecordNumber, RequestMoves DEF ReadForChange, Refuse, Step
<1> QED
  BY <1>2, <1>3

-----------------------------------------------------------------------------
\* Writing

\* A new record: a change is on its way to the sign-out; a first setup finds
\* no session; a second one races.
LEMMA WriteRecordInv ==
  ASSUME AccessInv, NEW b \in Browsers, WriteRecord(b)
  PROVE  AccessInv'
<1> DEFINE r == [request[b] EXCEPT !.at = IF request[b].op = "change" THEN "revoke" ELSE "sweep",
                                   !.seen = records']
<1>1. request \in [Browsers -> Request] /\ request[b] \in Request /\ RequestSound(request[b])
  BY RequestType DEF AccessInv
<1>2. /\ request[b].at = "write" /\ records' = records + 1
      /\ records' \in 0 .. MaxRecords /\ records' > 0 /\ records \in Nat
      /\ request' = [request EXCEPT ![b] = r]
      /\ UNCHANGED <<adminSessions, expired, tokens, cookie, broken>>
  <2>1. /\ request[b].at = "write" /\ records' = records + 1 /\ records < MaxRecords
        /\ request' = [request EXCEPT ![b] = r]
        /\ UNCHANGED <<adminSessions, expired, tokens, cookie, broken>>
    BY Zenon DEF WriteRecord, Move
  <2>2. records \in 0 .. MaxRecords
    BY DEF AccessInv, AccessTypeOK
  <2> HIDE DEF r
  <2> QED
    BY <2>1, <2>2, Bounds
<1>3. /\ request[b].op = "change" \/ (request[b].op = "setup" /\ request[b].seen = 0)
      /\ record' = [no |-> records', pw |-> IF request[b].op = "setup" THEN request[b].pw ELSE request[b].next]
      /\ record'.no = records' /\ record'.pw \in Passwords
  BY <1>1, <1>2 DEF WriteRecord, RequestSound
<1>4. /\ r \in Request /\ r.op = request[b].op /\ r.seen = records'
      /\ r.at = IF request[b].op = "change" THEN "revoke" ELSE "sweep"
  BY <1>1, <1>2 DEF Request
<1>5. RequestSound(r)
  BY <1>2, <1>3, <1>4 DEF RequestSound
<1> HIDE DEF r
<1>6. /\ request' \in [Browsers -> Request] /\ request'[b] = r
      /\ \A c \in Browsers \ {b} : request'[c] = request[c]
  BY <1>1, <1>2, <1>4
<1>7. raced' \in BOOLEAN /\ raced' = (raced \/ (request[b].op = "setup" /\ record.no # request[b].seen))
  BY DEF WriteRecord, AccessInv, AccessTypeOK
<1>8. AccessTypeOK'
  <2>1. record' \in Records
    BY <1>2, <1>3 DEF Records
  <2> QED
    BY <1>2, <1>6, <1>7, <2>1 DEF AccessInv, AccessTypeOK, Request
<1>9. RecordSound'
  <2>1. \A row \in adminSessions : row.no \in Nat /\ row.no <= records
    BY RowNumbers DEF AccessInv, RecordSound
  <2>2. \A row \in adminSessions : row.no <= records + 1
    BY <1>2, <2>1
  <2>3. record' # NoRecord
    <3>1. NoRecord.no = 0
      BY DEF NoRecord
    <3> QED
      BY <1>2, <1>3, <3>1
  <2> QED
    BY <1>2, <1>3, <2>2, <2>3 DEF RecordSound
<1>10. \A c \in Browsers : RequestSound(request'[c])
  BY <1>5, <1>6 DEF AccessInv
<1>11. ChangeSignsEveryoneOut'
  <2>1. CASE request[b].op = "change"
    BY <1>4, <1>6, <2>1 DEF ChangeSignsEveryoneOut, Step
  <2>2. CASE request[b].op = "setup" /\ record.no # request[b].seen
    BY <1>7, <2>2 DEF ChangeSignsEveryoneOut
  <2>3. CASE request[b].op = "setup" /\ record.no = request[b].seen
    <3>1. records = 0
      BY <1>3, <2>3 DEF AccessInv, RecordSound
    <3>2. adminSessions = {}
      <4>1. \A row \in adminSessions : row.no > 0 /\ row.no <= 0
        BY <3>1, RowNumbers DEF AccessInv, RecordSound
      <4> QED
        BY <4>1, RowNumbers
    <3> QED
      BY <1>2, <3>2 DEF ChangeSignsEveryoneOut
  <2> QED
    BY <1>3, <2>1, <2>2, <2>3
<1>12. SeenSound'
  <2>1. \A c \in Browsers : request[c].seen \in 0 .. MaxRecords /\ request[c].seen <= records
    BY <1>1 DEF AccessInv, SeenSound, Request
  <2>2. \A c \in Browsers : request[c].seen <= records + 1
    BY <1>2, <2>1, Bounds
  <2>3. records' <= records'
    BY <1>2
  <2> QED
    BY <1>2, <1>4, <1>6, <2>2, <2>3 DEF SeenSound
<1> QED
  BY <1>8, <1>9, <1>10, <1>11, <1>12 DEF AccessInv

\* Signing everybody out settles what the new record left open.
LEMMA RevokeAllInv ==
  ASSUME AccessInv, NEW b \in Browsers, RevokeAll(b)
  PROVE  AccessInv'
<1> DEFINE r == [request[b] EXCEPT !.at = "sweep"]
<1>1. request \in [Browsers -> Request] /\ request[b] \in Request /\ RequestSound(request[b])
  BY RequestType DEF AccessInv
<1>2. /\ request[b].at = "revoke" /\ adminSessions' = {} /\ request' = [request EXCEPT ![b] = r]
      /\ UNCHANGED <<record, records, expired, tokens, cookie, broken, raced>>
  BY Zenon DEF RevokeAll, Move, Step
<1>3. r \in Request /\ r.at = "sweep" /\ r.seen = request[b].seen
  BY <1>1 DEF Request
<1>4. RequestSound(r)
  BY <1>1, <1>2, <1>3 DEF RequestSound
<1> HIDE DEF r
<1>5. request' \in [Browsers -> Request] /\ \A c \in Browsers : RequestSound(request'[c])
  BY <1>1, <1>2, <1>3, <1>4 DEF AccessInv
<1>6. AccessTypeOK'
  BY <1>2, <1>5 DEF AccessInv, AccessTypeOK, Request
<1>7. RecordSound' /\ ChangeSignsEveryoneOut'
  BY <1>2 DEF AccessInv, RecordSound, ChangeSignsEveryoneOut
<1>8. SeenSound'
  BY <1>1, <1>2, <1>3 DEF AccessInv, SeenSound
<1> QED
  BY <1>5, <1>6, <1>7, <1>8 DEF AccessInv

\* Rows that go (a sweep, a sign-out) leave nothing unsound behind, as long as
\* no request leaves the sign-out.
LEMMA RowsGo ==
  ASSUME AccessInv, adminSessions' \subseteq adminSessions,
         request' \in [Browsers -> Request], \A c \in Browsers : RequestSound(request'[c]),
         \A c \in Browsers : Step(c, "change", "revoke") => Step(c, "change", "revoke")',
         \A c \in Browsers : request'[c].seen = request[c].seen,
         cookie' \in [Browsers -> 0 .. MaxTokens], expired' \subseteq 1 .. MaxTokens,
         UNCHANGED <<record, records, tokens, broken, raced>>
  PROVE  AccessInv'
<1>1. AccessTypeOK'
  BY DEF AccessInv, AccessTypeOK, Request
<1>2. RecordSound'
  BY DEF AccessInv, RecordSound
<1>3. ChangeSignsEveryoneOut'
  BY DEF AccessInv, ChangeSignsEveryoneOut
<1>4. SeenSound'
  BY DEF AccessInv, SeenSound
<1> QED
  BY <1>1, <1>2, <1>3, <1>4 DEF AccessInv

\* createAdminSession drops expired rows first.
LEMMA SweepExpiredInv ==
  ASSUME AccessInv, NEW b \in Browsers, SweepExpired(b)
  PROVE  AccessInv'
<1> DEFINE r == [request[b] EXCEPT !.at = "insert"]
<1>1. request \in [Browsers -> Request] /\ request[b] \in Request /\ RequestSound(request[b])
  BY RequestType DEF AccessInv
<1>2. /\ request[b].at = "sweep" /\ adminSessions' \subseteq adminSessions
      /\ request' = [request EXCEPT ![b] = r]
      /\ UNCHANGED <<record, records, expired, tokens, cookie, broken, raced>>
  BY Zenon DEF SweepExpired, Move
<1>3. r \in Request /\ r.at = "insert" /\ r.seen = request[b].seen
  BY <1>1 DEF Request
<1>4. RequestSound(r)
  BY <1>1, <1>2, <1>3 DEF RequestSound
<1> HIDE DEF r
<1>5. request' \in [Browsers -> Request] /\ \A c \in Browsers : RequestSound(request'[c])
  BY <1>1, <1>2, <1>3, <1>4 DEF AccessInv
<1>6. \A c \in Browsers : Step(c, "change", "revoke") => Step(c, "change", "revoke")'
  BY <1>1, <1>2 DEF Step
<1>7. cookie' \in [Browsers -> 0 .. MaxTokens] /\ expired' \subseteq 1 .. MaxTokens
  BY <1>2 DEF AccessInv, AccessTypeOK
<1>8. \A c \in Browsers : request'[c].seen = request[c].seen
  BY <1>1, <1>2, <1>3
<1> QED
  BY <1>2, <1>5, <1>6, <1>7, <1>8, RowsGo

\* The new row names the record its request saw, and says if that was overtaken.
LEMMA InsertSessionInv ==
  ASSUME AccessInv, NEW b \in Browsers, NEW arrives \in BOOLEAN, InsertSession(b, arrives)
  PROVE  AccessInv'
<1> DEFINE row == [token |-> tokens', no |-> request[b].seen, late |-> request[b].seen # record.no]
<1>1. request \in [Browsers -> Request] /\ request[b] \in Request /\ RequestSound(request[b])
  BY RequestType DEF AccessInv
<1>2. /\ request[b].at = "insert" /\ tokens < MaxTokens /\ tokens' = tokens + 1
      /\ adminSessions' = adminSessions \cup {row}
      /\ cookie' = IF arrives THEN [cookie EXCEPT ![b] = tokens'] ELSE cookie
      /\ request' = [request EXCEPT ![b] = NoRequest]
      /\ UNCHANGED <<record, records, expired, broken, raced>>
  BY Zenon DEF InsertSession, Refuse
<1>3. tokens' \in 1 .. MaxTokens /\ tokens' \in 0 .. MaxTokens
  <2>1. tokens \in 0 .. MaxTokens
    BY DEF AccessInv, AccessTypeOK
  <2> QED
    BY <1>2, <2>1, Bounds
<1>4. request[b].seen \in 1 .. MaxRecords /\ request[b].seen <= records
  <2>1. request[b].seen \in 0 .. MaxRecords
    BY <1>1 DEF Request
  <2> QED
    BY <1>1, <1>2, <2>1, Bounds DEF RequestSound, AccessInv, SeenSound
<1>5. row \in [token : 1 .. MaxTokens, no : 1 .. MaxRecords, late : BOOLEAN]
  BY <1>3, <1>4
<1>6. row.no = request[b].seen /\ row.late = (request[b].seen # record.no)
  OBVIOUS
<1> HIDE DEF row
<1>7. request' \in [Browsers -> Request] /\ \A c \in Browsers : RequestSound(request'[c])
  BY <1>1, <1>2, NoRequestSound DEF AccessInv
<1>8. cookie' \in [Browsers -> 0 .. MaxTokens]
  BY <1>2, <1>3 DEF AccessInv, AccessTypeOK
<1>9. AccessTypeOK'
  BY <1>2, <1>3, <1>5, <1>7, <1>8 DEF AccessInv, AccessTypeOK, Request
<1>10. RecordSound'
  BY <1>2, <1>4, <1>6 DEF AccessInv, RecordSound
<1>11. SeenSound'
  BY <1>1, <1>2, NoRequestSound, RecordNumber DEF AccessInv, SeenSound
<1>12. ChangeSignsEveryoneOut'
  <2>1. \A c \in Browsers : Step(c, "change", "revoke") => Step(c, "change", "revoke")'
    BY <1>1, <1>2 DEF Step
  <2>2. row.no = record.no \/ row.late
    BY <1>6
  <2> QED
    BY <1>2, <2>1, <2>2 DEF AccessInv, ChangeSignsEveryoneOut
<1> QED
  BY <1>7, <1>9, <1>10, <1>11, <1>12 DEF AccessInv

\* Signing out deletes the caller's own row.
LEMMA LogoutInv ==
  ASSUME AccessInv, NEW b \in Browsers, Logout(b)
  PROVE  AccessInv'
<1>1. /\ adminSessions' \subseteq adminSessions /\ cookie' = [cookie EXCEPT ![b] = 0]
      /\ UNCHANGED <<record, records, expired, tokens, request, broken, raced>>
  BY Zenon DEF Logout
<1>2. request \in [Browsers -> Request]
  BY RequestType DEF AccessInv
<1>3. cookie' \in [Browsers -> 0 .. MaxTokens] /\ expired' \subseteq 1 .. MaxTokens
  <2>1. 0 \in 0 .. MaxTokens
    BY Bounds
  <2> QED
    BY <1>1, <2>1 DEF AccessInv, AccessTypeOK
<1>4. \A c \in Browsers : Step(c, "change", "revoke") => Step(c, "change", "revoke")'
  BY <1>1 DEF Step
<1> QED
  BY <1>1, <1>2, <1>3, <1>4, RowsGo DEF AccessInv

\* A row that expires is still there until a sweep.
LEMMA ExpireInv ==
  ASSUME AccessInv, NEW row \in adminSessions, Expire(row)
  PROVE  AccessInv'
<1>1. /\ expired' = expired \cup {row.token}
      /\ UNCHANGED <<record, records, adminSessions, tokens, cookie, request, broken, raced>>
  BY Zenon DEF Expire
<1>2. request \in [Browsers -> Request]
  BY RequestType DEF AccessInv
<1>3. cookie' \in [Browsers -> 0 .. MaxTokens] /\ expired' \subseteq 1 .. MaxTokens
  <2>1. row.token \in 1 .. MaxTokens
    BY Zenon DEF AccessInv, AccessTypeOK
  <2> QED
    BY <1>1, <2>1 DEF AccessInv, AccessTypeOK
<1>4. \A c \in Browsers : Step(c, "change", "revoke") => Step(c, "change", "revoke")'
  BY <1>1 DEF Step
<1> QED
  BY <1>1, <1>2, <1>3, <1>4, RowsGo DEF AccessInv

\* A request that dies at the sign-out is remembered as broken.
LEMMA RequestDiesInv ==
  ASSUME AccessInv, NEW b \in Browsers, RequestDies(b)
  PROVE  AccessInv'
<1>1. /\ request' = [request EXCEPT ![b] = NoRequest]
      /\ broken' = (broken \/ request[b].at = "revoke")
      /\ UNCHANGED <<record, records, adminSessions, expired, tokens, cookie, raced>>
  BY Zenon DEF RequestDies, Refuse
<1>2. request \in [Browsers -> Request] /\ broken \in BOOLEAN
  BY RequestType DEF AccessInv, AccessTypeOK
<1>3. CASE request[b].at = "revoke"
  <2>1. request' \in [Browsers -> Request] /\ broken' = TRUE
    BY <1>1, <1>2, <1>3, NoRequestSound
  <2>2. AccessTypeOK'
    BY <1>1, <2>1 DEF AccessInv, AccessTypeOK, Request
  <2>3. RecordSound' /\ SeenSound'
    BY <1>1, <1>2, NoRequestSound, RecordNumber DEF AccessInv, RecordSound, SeenSound
  <2>4. \A c \in Browsers : RequestSound(request'[c])
    BY <1>1, <1>2, NoRequestSound DEF AccessInv
  <2> QED
    BY <2>1, <2>2, <2>3, <2>4 DEF AccessInv, ChangeSignsEveryoneOut
<1>4. CASE request[b].at # "revoke"
  <2>1. broken' = broken
    BY <1>1, <1>2, <1>4
  <2> QED
    BY <1>1, <1>4, <2>1, NoRequestSound, RecordNumber, RequestMoves
<1> QED
  BY <1>3, <1>4

-----------------------------------------------------------------------------
\* The whole

\* There is no record, no session and no request at first.
LEMMA InitInv == AccessInit => AccessInv
<1> SUFFICES ASSUME AccessInit PROVE AccessInv
  OBVIOUS
<1>1. 0 \in 0 .. MaxRecords /\ 0 \in 0 .. MaxTokens
  BY Bounds
<1>2. /\ record = NoRecord /\ records = 0 /\ adminSessions = {} /\ expired = {} /\ tokens = 0
      /\ cookie = [b \in Browsers |-> 0] /\ request = [b \in Browsers |-> NoRequest]
      /\ broken = FALSE /\ raced = FALSE
  BY Zenon DEF AccessInit
<1>3. NoRecord \in Records /\ NoRecord.no = 0
  BY <1>1 DEF Records, NoRecord
<1>4. AccessTypeOK
  BY <1>1, <1>2, <1>3, NoRequestSound DEF AccessTypeOK, Request
<1>5. RecordSound /\ SeenSound /\ ChangeSignsEveryoneOut
  BY <1>2, <1>3, NoRequestSound DEF RecordSound, SeenSound, ChangeSignsEveryoneOut
<1>6. \A b \in Browsers : RequestSound(request[b])
  BY <1>2, NoRequestSound
<1> QED
  BY <1>4, <1>5, <1>6 DEF AccessInv

\* Every query of every request preserves the invariant.
LEMMA NextInv == AccessInv /\ [AccessNext]_accessVars => AccessInv'
<1> SUFFICES ASSUME AccessInv, [AccessNext]_accessVars PROVE AccessInv'
  OBVIOUS
<1>1. CASE \E b \in Browsers, pw \in Passwords : AskLogin(b, pw)
  BY <1>1, AskLoginInv
<1>2. CASE \E b \in Browsers, pw \in Passwords \cup {"short"} : AskSetup(b, pw)
  BY <1>2, AskSetupInv
<1>3. CASE \E b \in Browsers, pw \in Passwords, next \in Passwords : AskChange(b, pw, next)
  BY <1>3, AskChangeInv
<1>4. ASSUME NEW b \in Browsers,
             \/ ReadForLogin(b) \/ ReadForSetup(b) \/ ReadForChange(b)
             \/ WriteRecord(b) \/ RevokeAll(b) \/ SweepExpired(b)
             \/ Logout(b) \/ RequestDies(b)
      PROVE  AccessInv'
  BY <1>4, ReadForLoginInv, ReadForSetupInv, ReadForChangeInv, WriteRecordInv, RevokeAllInv,
     SweepExpiredInv, LogoutInv, RequestDiesInv
<1>5. CASE \E b \in Browsers, arrives \in BOOLEAN : InsertSession(b, arrives)
  BY <1>5, InsertSessionInv
<1>6. CASE \E row \in adminSessions : Expire(row)
  BY <1>6, ExpireInv
<1>7. CASE UNCHANGED accessVars
  BY <1>7 DEF accessVars, AccessInv, AccessTypeOK, RecordSound, SeenSound, RequestSound,
              ChangeSignsEveryoneOut, Step
<1> QED
  BY <1>1, <1>2, <1>3, <1>4, <1>5, <1>6, <1>7, Zenon DEF AccessNext

\* The invariant holds in every reachable state.
THEOREM AccessInvHolds == AccessSpec => []AccessInv
  BY InitInv, NextInv, PTL DEF AccessSpec

\* The tables and the requests keep their types.
THEOREM AccessTypeCorrect == AccessSpec => []AccessTypeOK
<1>1. AccessInv => AccessTypeOK
  BY DEF AccessInv
<1> QED
  BY <1>1, AccessInvHolds, PTL

\* A changed password leaves no session of an earlier one behind (changePassword
\* deletes every row), save those the property names, for any number of
\* browsers and any order of their queries.
THEOREM ChangeSignsEveryoneOutHolds == AccessSpec => []ChangeSignsEveryoneOut
<1>1. AccessInv => ChangeSignsEveryoneOut
  BY DEF AccessInv
<1> QED
  BY <1>1, AccessInvHolds, PTL

-----------------------------------------------------------------------------
\* What a wake puts into a container: the shape of the state

Files == [name : STRING, content : STRING \cup {"builtin"}]
Settings == [skills : SkillLists \cup {<<>>}, identity : 0..1, mcp : Nat]
Stores == [rev : Nat, fresh : Nat]
Workspaces == [store : Stores, marker : Nat, git : {"none", "partial", "whole"}]
WakeSteps ==
    {"asleep", "failed", "load", "lead", "batch", "seed", "mark", "provision", "start", "running"}
Wakes == [at : WakeSteps, read : Settings, serverUp : BOOLEAN, cloned : BOOLEAN]

ProvisioningShape ==
    /\ kind \in {"cloudflare", "docker"}
    /\ setting \in Settings /\ pastes \in Nat
    /\ wake \in Wakes /\ wakes \in Nat
    /\ up \in BOOLEAN /\ server \in BOOLEAN /\ torn \in BOOLEAN /\ left \in BOOLEAN
    /\ root \in [skills : SUBSET Files, identity : 0..1, staged : Nat]
    /\ ws \in Workspaces /\ backup \in Workspaces
    /\ clone \in {"none", "mine", "left"}

\* The skills a container is to have.
WantedSkills(list) ==
    LET own == {[name |-> list[i].name, content |-> list[i].content] : i \in ResolveSkills(list)}
    IN own \cup {[name |-> b, content |-> "builtin"] : b \in {n \in BuiltinSkills : \A f \in own : f.name # n}}

\* Stored skills are valid, and so are those a wake has read; once it has put
\* them in place they are there.
SkillsSound ==
    /\ ValidateSkills(setting.skills) /\ ValidateSkills(wake.read.skills)
    /\ wake.at = "batch" => root.skills = {}
    /\ wake.at \in {"seed", "mark", "provision", "start", "running"} =>
          root.skills = WantedSkills(wake.read.skills)

\* A store is of the revision its marker names, in the workspace and in its
\* backup, but between the seed and the marker.
StoreSound ==
    /\ wake.at = "seed" => wake.read.mcp # 0 /\ root.staged = wake.read.mcp
    /\ wake.at = "mark" => wake.read.mcp # 0
    /\ wake.at \in {"batch", "provision", "start", "running"} /\ wake.read.mcp = 0 => ws.marker = 0
    /\ ~torn =>
          /\ backup.store.rev = backup.marker
          /\ ws.store.rev = IF wake.at = "mark" THEN wake.read.mcp ELSE ws.marker

\* A checkout that is not whole has its clone under way, unless one was given up.
CheckoutSound ==
    /\ clone = "mine" => wake.at = "start" /\ ~wake.cloned
    /\ clone = "left" => left
    /\ ~left =>
          /\ backup.git # "partial"
          /\ ws.git = "partial" => clone = "mine"
          /\ HasRepo /\ wake.cloned => ws.git = "whole"
    /\ wake.cloned => wake.at \in {"start", "running"}
    /\ wake.at = "running" => wake.cloned

\* The inductive invariant.
ProvisioningInv == ProvisioningShape /\ SkillsSound /\ StoreSound /\ CheckoutSound

\* Nothing is written yet.
LEMMA ProvisioningInitInv == ProvisioningInit => ProvisioningInv
<1> SUFFICES ASSUME ProvisioningInit  PROVE ProvisioningInv
  OBVIOUS
<1>1. NoSettings \in Settings /\ NoSettings.skills = <<>> /\ ValidateSkills(<<>>)
  BY DEF NoSettings, Settings, ValidateSkills
<1>2. EmptyWs \in Workspaces /\ EmptyWs.store.rev = EmptyWs.marker /\ EmptyWs.git = "none"
  BY DEF EmptyWs, Workspaces, NoStore, Stores
<1>3. EmptyRoot \in [skills : SUBSET Files, identity : 0..1, staged : Nat]
  BY DEF EmptyRoot
<1>4. Asleep \in Wakes /\ Asleep.read = NoSettings /\ Asleep.at = "asleep" /\ ~Asleep.cloned
  BY <1>1 DEF Asleep, Wakes, WakeSteps
<1>5. ProvisioningShape
  BY <1>1, <1>2, <1>3, <1>4 DEF ProvisioningInit, ProvisioningShape
<1>6. SkillsSound
  BY <1>1, <1>4 DEF ProvisioningInit, SkillsSound
<1>7. StoreSound
  BY <1>2, <1>4 DEF ProvisioningInit, StoreSound
<1>8. CheckoutSound
  BY <1>2, <1>4 DEF ProvisioningInit, CheckoutSound
<1> QED
  BY <1>5, <1>6, <1>7, <1>8 DEF ProvisioningInv

\* A wake that gave up, or a session asleep, keeps what was read.
LEMMA GiveUpType ==
  ASSUME ProvisioningInv
  PROVE  /\ GiveUp(wake) \in Wakes /\ GiveUp(wake).at = "failed" /\ GiveUp(wake).read = wake.read
         /\ ~GiveUp(wake).cloned
         /\ [Asleep EXCEPT !.read = wake.read] \in Wakes
         /\ [Asleep EXCEPT !.read = wake.read].at = "asleep"
         /\ [Asleep EXCEPT !.read = wake.read].read = wake.read
         /\ ~[Asleep EXCEPT !.read = wake.read].cloned
         /\ [Asleep EXCEPT !.at = "load"] \in Wakes
         /\ [Asleep EXCEPT !.at = "load"].at = "load"
         /\ [Asleep EXCEPT !.at = "load"].read.skills = <<>>
         /\ ~[Asleep EXCEPT !.at = "load"].cloned
         /\ ValidateSkills(<<>>)
<1>1. NoSettings \in Settings /\ NoSettings.skills = <<>> /\ ValidateSkills(<<>>)
  BY DEF NoSettings, Settings, ValidateSkills
<1>2. wake.read \in Settings
  BY DEF ProvisioningInv, ProvisioningShape, Wakes
<1> QED
  BY <1>1, <1>2 DEF GiveUp, Asleep, Wakes, WakeSteps

\* Of a list in which no name applies twice, each applicable skill goes under
\* its own name.
LEMMA FilesAreWanted ==
  ASSUME NEW list \in SkillLists \cup {<<>>}, ValidateSkills(list)
  PROVE  /\ CredentialFiles(list) = WantedSkills(list)
         /\ CredentialFiles(list) \subseteq Files
<1> DEFINE named(n) == {i \in ResolveSkills(list) : list[i].name = n}
           last(n) == CHOOSE i \in named(n) : \A j \in named(n) : j <= i
           own == {[name |-> list[i].name, content |-> list[i].content] : i \in ResolveSkills(list)}
<1>1. list \in Seq([name : STRING, repo : STRING, content : STRING]) /\ DOMAIN list \subseteq Nat
  <2> DEFINE Skills == [name : STRING, repo : STRING, content : STRING]
  <2>1. list \in Seq(Skills)
    BY ProvisioningAssumption, EmptySeq DEF ProvisioningAssumption
  <2> HIDE DEF Skills
  <2>2. DOMAIN list = 1..Len(list) /\ Len(list) \in Nat
    BY <2>1
  <2> QED
    BY <2>1, <2>2 DEF Skills
<1>2. ASSUME NEW i \in ResolveSkills(list)  PROVE last(list[i].name) = i
  <2>1. named(list[i].name) = {i}
    BY <1>2 DEF ResolveSkills, ValidateSkills
  <2>2. i \in Nat
    BY <1>1, <1>2 DEF ResolveSkills
  <2> QED
    BY <2>1, <2>2
<1>3. {[name |-> list[i].name, content |-> list[last(list[i].name)].content] : i \in ResolveSkills(list)} = own
  BY <1>2
<1>4. {b \in BuiltinSkills : named(b) = {}} = {n \in BuiltinSkills : \A f \in own : f.name # n}
  <2>1. ASSUME NEW b \in BuiltinSkills
        PROVE  named(b) = {} <=> \A f \in own : f.name # b
    <3>1. ASSUME named(b) = {}, NEW f \in own  PROVE f.name # b
      BY <3>1
    <3>2. ASSUME NEW i \in named(b)  PROVE \E f \in own : f.name = b
      <4>1. [name |-> list[i].name, content |-> list[i].content] \in own
        BY <3>2
      <4> QED
        BY <4>1
    <3> QED
      BY <3>1, <3>2
  <2> QED
    BY <2>1
<1>5. CredentialFiles(list) = WantedSkills(list)
  BY <1>3, <1>4 DEF CredentialFiles, WantedSkills
<1>6. own \subseteq Files
  <2>1. ASSUME NEW i \in ResolveSkills(list)  PROVE [name |-> list[i].name, content |-> list[i].content] \in Files
    <3> DEFINE Skills == [name : STRING, repo : STRING, content : STRING]
    <3>0. list \in Seq(Skills) /\ i \in DOMAIN list
      BY <1>1 DEF ResolveSkills
    <3> HIDE DEF Skills
    <3>00. list[i] \in Skills
      BY <3>0
    <3>1. list[i] \in [name : STRING, repo : STRING, content : STRING]
      BY <3>00 DEF Skills
    <3> QED
      BY <3>1 DEF Files
  <2> QED
    BY <2>1
<1>7. WantedSkills(list) \subseteq Files
  <2>1. ASSUME NEW b \in BuiltinSkills  PROVE [name |-> b, content |-> "builtin"] \in Files
    <3>1. BuiltinSkills \subseteq STRING
      BY ProvisioningAssumption, Zenon DEF ProvisioningAssumption
    <3> QED
      BY <3>1 DEF Files
  <2> HIDE DEF own
  <2>2. WantedSkills(list) =
          own \cup {[name |-> b, content |-> "builtin"] : b \in {n \in BuiltinSkills : \A f \in own : f.name # n}}
    BY DEF WantedSkills, own
  <2> QED
    BY <1>6, <2>1, <2>2
<1> QED
  BY <1>5, <1>7

\* A step of a wake moves it on and keeps what it has read.
LEMMA WakeMoves ==
  ASSUME ProvisioningShape, NEW step \in WakeSteps
  PROVE  /\ [wake EXCEPT !.at = step] \in Wakes
         /\ [wake EXCEPT !.at = step].at = step
         /\ [wake EXCEPT !.at = step].read = wake.read
         /\ [wake EXCEPT !.at = step].cloned = wake.cloned
  BY DEF ProvisioningShape, Wakes

\* A workspace whose store is replaced.
LEMMA StoreChanges ==
  ASSUME NEW w \in Workspaces, NEW store \in Stores
  PROVE  /\ [w EXCEPT !.store = store] \in Workspaces
         /\ [w EXCEPT !.store = store].store = store
         /\ [w EXCEPT !.store = store].marker = w.marker /\ [w EXCEPT !.store = store].git = w.git
  BY DEF Workspaces

\* The settings: valid lists only are stored, and no wake looks at them twice.
LEMMA SettingsStep ==
  ASSUME ProvisioningInv,
         \/ \E list \in SkillLists : PutSkills(list)
         \/ \E id \in 0 .. 1 : PutIdentity(id)
         \/ PasteMcpAuth \/ ClearMcpAuth
  PROVE  ProvisioningInv'
<1>1. setting' \in Settings /\ pastes' \in Nat /\ ValidateSkills(setting'.skills)
  <2>0. setting \in Settings /\ ValidateSkills(setting.skills) /\ pastes \in Nat
    BY DEF ProvisioningInv, ProvisioningShape, SkillsSound
  <2>1. CASE \E list \in SkillLists : PutSkills(list)
    BY <2>0, <2>1 DEF PutSkills, Settings
  <2>2. CASE \E id \in 0 .. 1 : PutIdentity(id)
    BY <2>0, <2>2 DEF PutIdentity, Settings
  <2>3. CASE PasteMcpAuth
    BY <2>0, <2>3 DEF PasteMcpAuth, Settings
  <2>4. CASE ClearMcpAuth
    BY <2>0, <2>4 DEF ClearMcpAuth, Settings
  <2> QED
    BY <2>1, <2>2, <2>3, <2>4
<1>2. UNCHANGED <<kind, wake, wakes, up, root, ws, backup, clone, server, torn, left>>
  BY DEF PutSkills, PutIdentity, PasteMcpAuth, ClearMcpAuth
<1> QED
  BY <1>1, <1>2 DEF ProvisioningInv, ProvisioningShape, SkillsSound, StoreSound, CheckoutSound

\* A wake begins over the backup or over the container that is there.
LEMMA WakeBeginsStep ==
  ASSUME ProvisioningInv, WakeBegins
  PROVE  ProvisioningInv'
<1>0. EmptyRoot \in [skills : SUBSET Files, identity : 0..1, staged : Nat]
  BY DEF EmptyRoot
<1>1. ProvisioningShape'
  BY <1>0, GiveUpType DEF WakeBegins, ProvisioningInv, ProvisioningShape
<1>2. SkillsSound'
  BY GiveUpType DEF WakeBegins, ProvisioningInv, SkillsSound
<1>3. StoreSound'
  BY GiveUpType DEF WakeBegins, ProvisioningInv, StoreSound, Sleeping
<1>4. CheckoutSound'
  BY GiveUpType DEF WakeBegins, ProvisioningInv, CheckoutSound, Sleeping
<1> QED
  BY <1>1, <1>2, <1>3, <1>4 DEF ProvisioningInv

\* What was read is what was stored; then the leading script clears the way.
LEMMA InjectStep ==
  ASSUME ProvisioningInv, LoadContainerCredentials \/ InjectLeading \/ InjectBatch
  PROVE  ProvisioningInv'
<1>0. /\ ProvisioningShape /\ SkillsSound /\ StoreSound /\ CheckoutSound
      /\ wake.read \in Settings /\ wake \in Wakes /\ ws \in Workspaces
      /\ root \in [skills : SUBSET Files, identity : 0..1, staged : Nat]
  BY DEF ProvisioningInv, ProvisioningShape, Wakes
<1>1. CASE LoadContainerCredentials
  <2>1. wake' \in Wakes /\ wake'.at = "lead" /\ wake'.read = setting /\ wake'.cloned = wake.cloned
    BY <1>0, <1>1 DEF LoadContainerCredentials, Wakes, WakeSteps, ProvisioningShape
  <2> QED
    BY <1>0, <1>1, <2>1
    DEF LoadContainerCredentials, ProvisioningInv, ProvisioningShape, SkillsSound, StoreSound, CheckoutSound
<1>2. CASE InjectLeading
  <2>1. wake' \in Wakes /\ wake'.at = "batch" /\ wake'.read = wake.read /\ wake'.cloned = wake.cloned
    BY <1>0, <1>2, WakeMoves DEF InjectLeading, WakeSteps
  <2>2. /\ root' \in [skills : SUBSET Files, identity : 0..1, staged : Nat] /\ root'.skills = {}
    BY <1>0, <1>2 DEF InjectLeading, ToldIdentity, Settings
  <2>3. /\ ws' \in Workspaces /\ ws'.git = ws.git
        /\ wake.read.mcp = 0 => ws'.marker = 0
        /\ ws.store.rev = ws.marker => ws'.store.rev = ws'.marker
    BY <1>0, <1>2 DEF InjectLeading, McpAuthClear, Workspaces, NoStore, Stores
  <2> QED
    BY <1>0, <1>2, <2>1, <2>2, <2>3
    DEF InjectLeading, ProvisioningInv, ProvisioningShape, SkillsSound, StoreSound, CheckoutSound
<1>3. CASE InjectBatch
  <2> DEFINE files == CredentialFiles(wake.read.skills)
  <2>1. /\ wake' \in Wakes /\ wake'.at = (IF wake.read.mcp # 0 THEN "seed" ELSE "provision")
        /\ wake'.read = wake.read /\ wake'.cloned = wake.cloned
    BY <1>0, <1>3, WakeMoves DEF InjectBatch, WakeSteps
  <2>2. files \subseteq Files /\ files = WantedSkills(wake.read.skills)
    BY <1>0, FilesAreWanted DEF Settings, SkillsSound
  <2> HIDE DEF files
  <2>3. /\ root' = [root EXCEPT !.skills = {f \in @ : \A g \in files : f.name # g.name} \cup files,
                                !.staged = IF wake.read.mcp # 0 THEN wake.read.mcp ELSE @]
        /\ root.skills = {}
    BY <1>0, <1>3 DEF InjectBatch, files, SkillsSound
  <2>4. /\ root' \in [skills : SUBSET Files, identity : 0..1, staged : Nat] /\ root'.skills = files
        /\ wake.read.mcp # 0 => root'.staged = wake.read.mcp
    BY <1>0, <2>2, <2>3 DEF Settings
  <2>5. wake.at = "batch" /\ UNCHANGED <<kind, setting, pastes, wakes, up, ws, backup, clone, server, torn, left>>
    BY <1>3 DEF InjectBatch
  <2>6. ProvisioningShape'
    BY <1>0, <2>1, <2>4, <2>5 DEF ProvisioningShape
  <2>7. SkillsSound'
    BY <1>0, <2>1, <2>2, <2>4, <2>5 DEF SkillsSound
  <2>8. StoreSound'
    BY <1>0, <2>1, <2>4, <2>5 DEF StoreSound
  <2>9. CheckoutSound'
    BY <1>0, <2>1, <2>5 DEF CheckoutSound
  <2> QED
    BY <2>6, <2>7, <2>8, <2>9 DEF ProvisioningInv
<1> QED
  BY <1>1, <1>2, <1>3

\* The seed installs what was staged, unless its marker is there; the marker
\* follows.
LEMMA SeedStep ==
  ASSUME ProvisioningInv, McpAuthSeed \/ McpAuthMark
  PROVE  ProvisioningInv'
<1>0. /\ ProvisioningShape /\ SkillsSound /\ StoreSound /\ CheckoutSound
      /\ wake.read \in Settings /\ wake \in Wakes /\ ws \in Workspaces /\ wake.read.mcp \in Nat
      /\ root \in [skills : SUBSET Files, identity : 0..1, staged : Nat]
  BY DEF ProvisioningInv, ProvisioningShape, Wakes, Settings
<1>1. CASE McpAuthSeed
  <2>0. wake.at = "seed" /\ UNCHANGED <<kind, setting, pastes, wakes, up, backup, clone, server, torn, left>>
    BY <1>1 DEF McpAuthSeed
  <2>1. /\ root' \in [skills : SUBSET Files, identity : 0..1, staged : Nat] /\ root'.skills = root.skills
    BY <1>0, <1>1 DEF McpAuthSeed
  <2>2. wake' \in Wakes /\ wake'.read = wake.read /\ wake'.cloned = wake.cloned
    BY <1>0, <1>1, WakeMoves DEF McpAuthSeed, WakeSteps
  <2>3. /\ ws' \in Workspaces /\ ws'.git = ws.git
        /\ \/ wake'.at = "provision" /\ ws' = ws /\ ws.marker = wake.read.mcp
           \/ wake'.at = "mark" /\ ws'.store.rev = root.staged /\ ws'.marker = ws.marker
    <3> DEFINE store == [rev |-> root.staged, fresh |-> 0]
    <3>1. store \in Stores /\ store.rev = root.staged
      BY <1>0 DEF Stores
    <3>2. CASE ws.marker = wake.read.mcp
      BY <1>0, <1>1, <3>2, WakeMoves DEF McpAuthSeed, WakeSteps
    <3>3. CASE ws.marker # wake.read.mcp
      <4>1. ws' = [ws EXCEPT !.store = store] /\ wake' = [wake EXCEPT !.at = "mark"]
        BY <1>1, <3>3 DEF McpAuthSeed
      <4> HIDE DEF store
      <4> QED
        BY <1>0, <3>1, <4>1, StoreChanges, WakeMoves DEF WakeSteps
    <3> QED
      BY <3>2, <3>3
  <2>6. ProvisioningShape'
    BY <1>0, <2>0, <2>1, <2>2, <2>3 DEF ProvisioningShape
  <2>7. SkillsSound'
    BY <1>0, <2>0, <2>1, <2>2, <2>3 DEF SkillsSound
  <2>8. StoreSound'
    BY <1>0, <2>0, <2>2, <2>3 DEF StoreSound
  <2>9. CheckoutSound'
    BY <1>0, <2>0, <2>2, <2>3 DEF CheckoutSound
  <2> QED
    BY <2>6, <2>7, <2>8, <2>9 DEF ProvisioningInv
<1>2. CASE McpAuthMark
  <2>0. /\ wake.at = "mark"
        /\ UNCHANGED <<kind, setting, pastes, wakes, up, root, backup, clone, server, torn, left>>
    BY <1>2 DEF McpAuthMark
  <2>2. wake' \in Wakes /\ wake'.at = "provision" /\ wake'.read = wake.read /\ wake'.cloned = wake.cloned
    BY <1>0, <1>2, WakeMoves DEF McpAuthMark, WakeSteps
  <2>3. ws' \in Workspaces /\ ws'.git = ws.git /\ ws'.store = ws.store /\ ws'.marker = wake.read.mcp
    BY <1>0, <1>2 DEF McpAuthMark, Workspaces
  <2>6. ProvisioningShape'
    BY <1>0, <2>0, <2>2, <2>3 DEF ProvisioningShape
  <2>7. SkillsSound'
    BY <1>0, <2>0, <2>2 DEF SkillsSound
  <2>8. StoreSound'
    BY <1>0, <2>0, <2>2, <2>3 DEF StoreSound
  <2>9. CheckoutSound'
    BY <1>0, <2>0, <2>2, <2>3 DEF CheckoutSound
  <2> QED
    BY <2>6, <2>7, <2>8, <2>9 DEF ProvisioningInv
<1> QED
  BY <1>1, <1>2

\* The clone starts, or the checkout is there; the server starts beside it; both
\* are waited for.
LEMMA StartStep ==
  ASSUME ProvisioningInv, ProvisionRepository \/ OpencodeStart \/ WakeEnds
  PROVE  ProvisioningInv'
<1>0. /\ ProvisioningShape /\ SkillsSound /\ StoreSound /\ CheckoutSound
      /\ wake \in Wakes /\ ws \in Workspaces
  BY DEF ProvisioningInv, ProvisioningShape
<1>1. CASE ProvisionRepository
  <2>0. /\ wake.at = "provision"
        /\ UNCHANGED <<kind, setting, pastes, wakes, up, root, backup, server, torn, left>>
    BY <1>1 DEF ProvisionRepository
  <2>1. wake' \in Wakes /\ wake'.at = "start" /\ wake'.read = wake.read
    BY <1>0, <1>1 DEF ProvisionRepository, Wakes, WakeSteps
  <2>2. ws' \in Workspaces /\ ws'.store = ws.store /\ ws'.marker = ws.marker
    BY <1>0, <1>1 DEF ProvisionRepository, Workspaces
  <2>3. \/ clone' = "mine" /\ ~wake'.cloned
        \/ clone' = clone /\ ws' = ws /\ wake'.cloned /\ (HasRepo => ws.git # "none")
    <3>1. ~wake.cloned
      BY <1>0, <2>0 DEF CheckoutSound
    <3> QED
      BY <1>0, <1>1, <3>1 DEF ProvisionRepository, Wakes
  <2>6. ProvisioningShape'
    BY <1>0, <2>0, <2>1, <2>2, <2>3 DEF ProvisioningShape
  <2>7. SkillsSound'
    BY <1>0, <2>0, <2>1 DEF SkillsSound
  <2>8. StoreSound'
    BY <1>0, <2>0, <2>1, <2>2 DEF StoreSound
  <2>9. CheckoutSound'
    BY <1>0, <2>0, <2>1, <2>2, <2>3 DEF CheckoutSound, Workspaces
  <2> QED
    BY <2>6, <2>7, <2>8, <2>9 DEF ProvisioningInv
<1>2. CASE OpencodeStart
  <2>1. /\ wake' \in Wakes /\ wake'.at = wake.at /\ wake'.read = wake.read /\ wake'.cloned = wake.cloned
        /\ server' \in BOOLEAN
        /\ UNCHANGED <<kind, setting, pastes, wakes, up, root, ws, backup, clone, torn, left>>
    BY <1>0, <1>2 DEF OpencodeStart, Wakes
  <2> QED
    BY <1>0, <2>1 DEF ProvisioningInv, ProvisioningShape, SkillsSound, StoreSound, CheckoutSound
<1>3. CASE WakeEnds
  <2>1. /\ wake' \in Wakes /\ wake'.at = "running" /\ wake'.read = wake.read /\ wake'.cloned = wake.cloned
        /\ wake.at = "start" /\ wake.cloned
        /\ UNCHANGED <<kind, setting, pastes, wakes, up, root, ws, backup, clone, server, torn, left>>
    BY <1>0, <1>3, WakeMoves DEF WakeEnds, WakeSteps
  <2> QED
    BY <1>0, <2>1 DEF ProvisioningInv, ProvisioningShape, SkillsSound, StoreSound, CheckoutSound
<1> QED
  BY <1>1, <1>2, <1>3

\* A clone ends, or a wake gives up and leaves it behind.
LEMMA EndStep ==
  ASSUME ProvisioningInv,
         \/ \E outcome \in {"done", "failed", "killed"} : CloneEnds(outcome)
         \/ WakeFails \/ ContainerDies \/ SleepSession
  PROVE  ProvisioningInv'
<1>0. /\ ProvisioningShape /\ SkillsSound /\ StoreSound /\ CheckoutSound
      /\ wake \in Wakes /\ ws \in Workspaces
  BY DEF ProvisioningInv, ProvisioningShape
<1>1. ASSUME NEW outcome \in {"done", "failed", "killed"}, CloneEnds(outcome)
      PROVE  ProvisioningInv'
  <2>0. /\ clone # "none" /\ clone' = "none" /\ left' = (left \/ outcome = "killed")
        /\ UNCHANGED <<kind, setting, pastes, wakes, up, root, backup, server, torn>>
    BY <1>1 DEF CloneEnds
  <2>1. /\ wake' \in Wakes /\ wake'.read = wake.read
        /\ \/ clone = "left" /\ wake' = wake
           \/ clone = "mine" /\ outcome = "done" /\ wake'.at = wake.at
           \/ clone = "mine" /\ outcome # "done" /\ wake'.at = "failed" /\ ~wake'.cloned
    BY <1>0, <1>1, GiveUpType DEF CloneEnds, Wakes, ProvisioningShape
  <2>2. /\ ws' \in Workspaces /\ ws'.store = ws.store /\ ws'.marker = ws.marker
        /\ outcome = "done" => ws'.git = "whole"
        /\ outcome = "failed" => ws'.git = "none"
    <3>1. CASE outcome = "done"
      BY <1>0, <1>1, <3>1 DEF CloneEnds, Workspaces
    <3>2. CASE outcome = "failed"
      BY <1>0, <1>1, <3>2 DEF CloneEnds, Workspaces
    <3>3. CASE outcome = "killed"
      BY <1>0, <1>1, <3>3 DEF CloneEnds, Workspaces
    <3> QED
      BY <1>1, <3>1, <3>2, <3>3
  <2>3. clone = "mine" => wake.at = "start"
    BY <1>0 DEF CheckoutSound
  <2>6. ProvisioningShape'
    BY <1>0, <2>0, <2>1, <2>2 DEF ProvisioningShape
  <2>7. SkillsSound'
    BY <1>0, <2>0, <2>1, <2>3 DEF SkillsSound
  <2>8. StoreSound'
    BY <1>0, <2>0, <2>1, <2>2, <2>3 DEF StoreSound
  <2>9. CheckoutSound'
    BY <1>0, <2>0, <2>1, <2>2, <2>3 DEF CheckoutSound
  <2> QED
    BY <2>6, <2>7, <2>8, <2>9 DEF ProvisioningInv
<1>2. CASE WakeFails \/ ContainerDies
  <2>0. /\ wake' = GiveUp(wake) /\ torn' = (torn \/ wake.at = "mark") /\ left' = (left \/ clone # "none")
        /\ clone' \in {"none", "left"} /\ (clone = "none" => clone' = "none")
        /\ up' \in BOOLEAN /\ server' \in BOOLEAN
        /\ UNCHANGED <<kind, setting, pastes, wakes, root, ws, backup>>
    BY <1>0, <1>2 DEF WakeFails, ContainerDies, ProvisioningShape
  <2>6. ProvisioningShape'
    BY <1>0, <2>0, GiveUpType DEF ProvisioningShape
  <2>7. SkillsSound'
    BY <1>0, <2>0, GiveUpType DEF SkillsSound
  <2>8. StoreSound'
    BY <1>0, <2>0, GiveUpType DEF StoreSound
  <2>9. CheckoutSound'
    BY <1>0, <2>0, GiveUpType DEF CheckoutSound
  <2> QED
    BY <2>6, <2>7, <2>8, <2>9 DEF ProvisioningInv
<1>3. CASE SleepSession
  <2>0. /\ wake.at = "running" /\ wake' = [Asleep EXCEPT !.read = wake.read]
        /\ backup' = backup \/ backup' = ws
        /\ up' = FALSE /\ server' = FALSE /\ clone' = "none" /\ left' = (left \/ clone # "none")
        /\ UNCHANGED <<kind, setting, pastes, wakes, root, ws, torn>>
    BY <1>3 DEF SleepSession
  <2>6. ProvisioningShape'
    BY <1>0, <2>0, GiveUpType DEF ProvisioningShape
  <2>7. SkillsSound'
    BY <1>0, <2>0, GiveUpType DEF SkillsSound
  <2>8. StoreSound'
    BY <1>0, <2>0, GiveUpType DEF StoreSound
  <2>9. CheckoutSound'
    BY <1>0, <2>0, GiveUpType DEF CheckoutSound
  <2> QED
    BY <2>6, <2>7, <2>8, <2>9 DEF ProvisioningInv
<1> QED
  BY <1>1, <1>2, <1>3

\* OpenCode's refreshes keep the revision.
LEMMA RefreshStep ==
  ASSUME ProvisioningInv, OpenCodeRefreshes
  PROVE  /\ ProvisioningInv'
         /\ ws'.store.fresh >= ws.store.fresh
<1>1. /\ ws' \in Workspaces /\ ws'.store.rev = ws.store.rev /\ ws'.marker = ws.marker /\ ws'.git = ws.git
      /\ ws'.store.fresh >= ws.store.fresh
      /\ UNCHANGED <<kind, setting, pastes, wake, wakes, up, root, backup, clone, server, torn, left>>
  BY DEF OpenCodeRefreshes, ProvisioningInv, ProvisioningShape, Workspaces, Stores
<1> QED
  BY <1>1 DEF ProvisioningInv, ProvisioningShape, SkillsSound, StoreSound, CheckoutSound

\* The invariant of a wake holds whichever settings are saved, whatever breaks
\* off and on which host (injectContainerCredentials, provisionRepository).
THEOREM ProvisioningInvHolds == ProvisioningSpec => []ProvisioningInv
<1>1. ASSUME ProvisioningInv, [ProvisioningNext]_provisioningVars  PROVE ProvisioningInv'
  <2>1. CASE UNCHANGED provisioningVars
    BY <1>1, <2>1
    DEF provisioningVars, ProvisioningInv, ProvisioningShape, SkillsSound, StoreSound, CheckoutSound
  <2> QED
    BY <1>1, <2>1, SettingsStep, WakeBeginsStep, InjectStep, SeedStep, StartStep, EndStep, RefreshStep
    DEF ProvisioningNext
<1> QED
  BY <1>1, ProvisioningInitInv, PTL DEF ProvisioningSpec

\* A session is let in only over a container that is as the settings read by
\* its wake want it, for any lists of skills, any revisions of the token store
\* and wakes that break off anywhere.
THEOREM ContainerAsConfiguredHolds == ProvisioningSpec => []ContainerAsConfigured
<1>1. ProvisioningInv => ContainerAsConfigured
  <2> SUFFICES ASSUME ProvisioningInv  PROVE ContainerAsConfigured
    OBVIOUS
  <2>1. SkillsMatchSettings
    BY DEF ProvisioningInv, SkillsSound, SkillsMatchSettings, WantedSkills
  <2>2. ClearedStoreIsGone
    BY DEF ProvisioningInv, StoreSound, ClearedStoreIsGone
  <2>3. CheckoutIsWhole
    BY DEF ProvisioningInv, CheckoutSound, CheckoutIsWhole
  <2> QED
    BY <2>1, <2>2, <2>3 DEF ContainerAsConfigured
<1> QED
  BY <1>1, ProvisioningInvHolds, PTL

\* Refreshed tokens are never replaced by the paste they came from: a store in
\* a container that runs on is replaced only by one of another revision
\* (mcpAuthSeedCommand and its marker).
THEOREM RefreshedTokensKeptHolds == ProvisioningSpec => RefreshedTokensKept
<1>1. ASSUME ProvisioningInv, [ProvisioningNext]_provisioningVars
      PROVE  [up /\ up' /\ ws'.store.rev = ws.store.rev /\ ~torn =>
                ws'.store.fresh >= ws.store.fresh]_provisioningVars
  <2> SUFFICES ASSUME up, up', ws'.store.rev = ws.store.rev, ~torn
               PROVE  ws'.store.fresh >= ws.store.fresh
    OBVIOUS
  <2>0. ws \in Workspaces /\ ws.store.fresh \in Nat /\ StoreSound
    BY <1>1 DEF ProvisioningInv, ProvisioningShape, Workspaces, Stores
  <2>1. CASE ws'.store = ws.store
    BY <2>0, <2>1
  <2>2. CASE InjectLeading
    <3>1. ws.marker # 0 => ws.store.rev # 0
      BY <2>0, <2>2 DEF InjectLeading, StoreSound
    <3>2. ws' = ws \/ (ws.marker # 0 /\ ws'.store = NoStore)
      BY <2>0, <2>2 DEF InjectLeading, McpAuthClear, Workspaces
    <3> QED
      BY <2>1, <3>1, <3>2 DEF NoStore
  <2>3. CASE McpAuthSeed
    <3>1. ws.store.rev = ws.marker /\ root.staged = wake.read.mcp
      BY <2>0, <2>3 DEF McpAuthSeed, StoreSound
    <3>2. ws' = ws \/ (ws.marker # wake.read.mcp /\ ws'.store.rev = root.staged)
      BY <2>0, <2>3 DEF McpAuthSeed, Workspaces
    <3> QED
      BY <2>1, <3>1, <3>2
  <2>4. CASE OpenCodeRefreshes
    BY <1>1, <2>4, RefreshStep
  <2>5. ASSUME ~InjectLeading, ~McpAuthSeed, ~OpenCodeRefreshes  PROVE ws'.store = ws.store
    BY <1>1, <2>0, <2>5
    DEF ProvisioningNext, provisioningVars, PutSkills, PutIdentity, PasteMcpAuth, ClearMcpAuth, WakeBegins,
        LoadContainerCredentials, InjectBatch, McpAuthMark, ProvisionRepository, OpencodeStart, WakeEnds,
        WakeFails, CloneEnds, SleepSession, ContainerDies, Workspaces
  <2> QED
    BY <2>1, <2>2, <2>3, <2>4, <2>5
<1> QED
  BY <1>1, ProvisioningInvHolds, PTL DEF ProvisioningSpec, RefreshedTokensKept

-----------------------------------------------------------------------------
\* The settings: the shape of the state

Rows == [name : Names, secret : Secrets \cup {""}]
ConfigsSeen == Configs \cup {NoConfig}
Models == {s.model : s \in Selections} \cup {""}
Variants == {s.variant : s \in Selections} \cup {""}
Views == [env : Seq(Names), hosts : Seq(Names), config : ConfigsSeen]
Puts == [key : Lists \cup {"none", "config"}, at : {"idle", "clear", "merge", "write", "pinned"},
         list : Seq(Rows), blank : SUBSET Names, config : ConfigsSeen, force : BOOLEAN,
         pinned : SUBSET Models, stale : BOOLEAN]
SessionRows == [model : Models, variant : Variants, forced : BOOLEAN, raced : BOOLEAN]

SettingsShape ==
    /\ env \in Seq(Rows) /\ hosts \in Seq(Rows) /\ config \in ConfigsSeen
    /\ view \in [Pages -> Views] /\ put \in [Pages -> Puts]
    /\ creating \in [model : Models, variant : Variants, at : {"idle", "insert"}]
    /\ sessions \in Seq(SessionRows) /\ saves \in Nat

\* What a save remembers: a list about to be written is valid, and what it
\* filled in for blank secrets is what is stored, unless another save came
\* between; the sessions it has looked up have their models, unless forced.
PutSound(p) ==
    /\ put[p].at = "clear" => put[p].key \in Lists
    /\ put[p].at = "merge" => put[p].key \in Lists /\ ~put[p].stale
    /\ put[p].at = "pinned" => put[p].key = "config" /\ put[p].config \in Configs
    /\ put[p].key \in Lists /\ put[p].at = "write" =>
          /\ ValidateEnvVars(put[p].list)
          /\ ~put[p].stale =>
                \A n \in put[p].blank \cap NamesOf(Stored(put[p].key)) :
                    SecretOf(put[p].list, n) = SecretOf(Stored(put[p].key), n)
    /\ put[p].key = "config" /\ put[p].at = "write" =>
          /\ ValidateOpencodeConfig(put[p].config) /\ put[p].config \in Configs
          /\ put[p].force \/ put[p].pinned \subseteq DOMAIN put[p].config.models

\* The inductive invariant.
SettingsInv ==
    /\ SettingsShape
    /\ ValidateEnvVars(env) /\ ValidateEnvVars(hosts)
    /\ config # NoConfig => config.default \in DOMAIN config.models
    /\ \A p \in Pages : PutSound(p)
    /\ PinnedModelsDefined

-----------------------------------------------------------------------------
\* Lists

\* A list in its places, and the places of a list.
LEMMA RowsAre ==
  ASSUME NEW list \in Seq(Rows)
  PROVE  /\ DOMAIN list = 1 .. Len(list) /\ Len(list) \in Nat
         /\ \A i \in DOMAIN list : list[i] \in Rows /\ list[i].name \in Names /\ list[i].name # ""
         /\ NamesOf(list) \subseteq Names
<1>1. DOMAIN list = 1 .. Len(list) /\ Len(list) \in Nat /\ \A i \in DOMAIN list : list[i] \in Rows
  <2> QED
    OBVIOUS
<1>2. \A i \in DOMAIN list : list[i].name \in Names
  BY <1>1 DEF Rows
<1>3. "" \notin Names
  BY SettingsAssumption, Zenon DEF SettingsAssumption
<1> QED
  BY <1>1, <1>2, <1>3 DEF NamesOf

\* A blank row takes the stored secret of its name: the rows keep their names.
LEMMA MergedRows ==
  ASSUME NEW list \in Seq(Rows), NEW stored \in Seq(Rows)
  PROVE  /\ Merged(list, stored) \in Seq(Rows)
         /\ DOMAIN Merged(list, stored) = DOMAIN list
         /\ \A i \in DOMAIN list :
               /\ Merged(list, stored)[i].name = list[i].name
               /\ list[i].secret = "" /\ list[i].name \in NamesOf(stored) =>
                     Merged(list, stored)[i].secret = SecretOf(stored, list[i].name)
<1>1. ASSUME NEW n \in NamesOf(stored)  PROVE SecretOf(stored, n) \in Secrets \cup {""}
  <2>1. PICK k \in DOMAIN stored : stored[k].name = n
    BY <1>1 DEF NamesOf
  <2>2. (CHOOSE i \in DOMAIN stored : stored[i].name = n) \in DOMAIN stored
    BY <2>1
  <2>3. \A i \in DOMAIN stored : stored[i].secret \in Secrets \cup {""}
    BY RowsAre DEF Rows
  <2> QED
    BY <2>2, <2>3 DEF SecretOf
<1> DEFINE merged == Merged(list, stored)
           row(i) == IF list[i].secret = "" /\ list[i].name \in NamesOf(stored)
                     THEN [list[i] EXCEPT !.secret = SecretOf(stored, list[i].name)] ELSE list[i]
<1>2. DOMAIN merged = DOMAIN list /\ \A i \in DOMAIN list : merged[i] = row(i)
  BY DEF Merged
<1>3. \A i \in DOMAIN list :
         /\ row(i) \in Rows /\ row(i).name = list[i].name
         /\ list[i].secret = "" /\ list[i].name \in NamesOf(stored) =>
               row(i).secret = SecretOf(stored, list[i].name)
  BY <1>1, RowsAre DEF Rows
<1>4. merged \in Seq(Rows)
  <2>1. DOMAIN merged = 1 .. Len(list) /\ Len(list) \in Nat /\ merged = [i \in 1 .. Len(list) |-> merged[i]]
    BY <1>2, RowsAre DEF Merged
  <2>2. \A i \in 1 .. Len(list) : merged[i] \in Rows
    BY <1>2, <1>3, <2>1
  <2> HIDE DEF merged
  <2> QED
    BY <2>1, <2>2
<1> QED
  BY <1>2, <1>3, <1>4

\* A page is shown the names of the rows.
LEMMA ExposedNames ==
  ASSUME NEW list \in Seq(Rows)
  PROVE  ExposedValue(list) \in Seq(Names)
<1>1. ExposedValue(list) \in [1 .. Len(list) -> Names] /\ Len(list) \in Nat
  BY RowsAre DEF ExposedValue
<1> QED
  BY <1>1, SeqDef

\* Where names are unique, the secret of a name is that of its row.
LEMMA SecretIs ==
  ASSUME NEW list \in Seq(Rows), ValidateEnvVars(list), NEW i \in DOMAIN list
  PROVE  SecretOf(list, list[i].name) = list[i].secret
<1>1. \A k \in DOMAIN list : list[k].name = list[i].name => k = i
  BY DEF ValidateEnvVars
<1>2. (CHOOSE k \in DOMAIN list : list[k].name = list[i].name) = i
  BY <1>1
<1> QED
  BY <1>2 DEF SecretOf

\* The rows of a section with one removed are rows.
LEMMA RemovedRows ==
  ASSUME NEW list \in Seq(Rows), NEW i \in DOMAIN list
  PROVE  RemoveAt(list, i) \in Seq(Rows)
<1>1. DOMAIN list = 1 .. Len(list) /\ Len(list) \in Nat
  BY RowsAre
<1>2. SubSeq(list, 1, i - 1) \in Seq(Rows) /\ SubSeq(list, i + 1, Len(list)) \in Seq(Rows)
  BY <1>1
<1> QED
  BY <1>2 DEF RemoveAt

\* Whatever an operator does on a page, what it sends is a list of rows.
LEMMA SectionRows ==
  ASSUME NEW names \in Seq(Names)
  PROVE  EnvRows(names) \subseteq Seq(Rows) /\ HostRows(names) \subseteq Seq(Rows)
<1> DEFINE rows == Blank(names)
<1>1. rows \in Seq(Rows)
  <2>1. DOMAIN names = 1 .. Len(names) /\ Len(names) \in Nat /\ \A i \in DOMAIN names : names[i] \in Names
    OBVIOUS
  <2>2. \A i \in 1 .. Len(names) : [name |-> names[i], secret |-> ""] \in Rows
    BY <2>1 DEF Rows
  <2>3. rows = [i \in 1 .. Len(names) |-> [name |-> names[i], secret |-> ""]]
    BY <2>1 DEF Blank
  <2>4. rows \in [1 .. Len(names) -> Rows]
    BY <2>2, <2>3
  <2> QED
    BY <2>1, <2>4, SeqDef
<1> HIDE DEF rows
<1>2. DOMAIN rows = 1 .. Len(rows) /\ Len(rows) \in Nat /\ \A i \in DOMAIN rows : rows[i] \in Rows
  BY <1>1, RowsAre
<1>3. ASSUME NEW i \in DOMAIN rows, NEW s \in Secrets
      PROVE  [rows EXCEPT ![i].secret = s] \in Seq(Rows)
  <2> DEFINE row == [rows[i] EXCEPT !.secret = s]
  <2>1. row \in Rows
    BY <1>2 DEF Rows
  <2>2. [rows EXCEPT ![i].secret = s] = [rows EXCEPT ![i] = row]
    OBVIOUS
  <2> HIDE DEF row
  <2> QED
    BY <1>1, <1>2, <2>1, <2>2
<1>4. ASSUME NEW n \in Names, NEW s \in Secrets
      PROVE  Append(rows, [name |-> n, secret |-> s]) \in Seq(Rows)
  <2>1. [name |-> n, secret |-> s] \in Rows
    BY DEF Rows
  <2> QED
    BY <1>1, <2>1
<1>5. EnvRows(names) \subseteq Seq(Rows)
  <2> DEFINE fewer(i) == RemoveAt(rows, i)
             typed(i, s) == [rows EXCEPT ![i].secret = s]
             added(n, s) == Append(rows, [name |-> n, secret |-> s])
  <2>1. EnvRows(names) = {fewer(i) : i \in DOMAIN rows} \cup {typed(i, s) : i \in DOMAIN rows, s \in Secrets}
                           \cup {added(n, s) : n \in Names, s \in Secrets}
    BY DEF EnvRows, rows
  <2>2. \A i \in DOMAIN rows : fewer(i) \in Seq(Rows)
    BY <1>1, RemovedRows
  <2>3. \A i \in DOMAIN rows, s \in Secrets : typed(i, s) \in Seq(Rows)
    BY <1>3
  <2>4. \A n \in Names, s \in Secrets : added(n, s) \in Seq(Rows)
    BY <1>4
  <2> HIDE DEF fewer, typed, added
  <2> QED
    BY <2>1, <2>2, <2>3, <2>4
<1>6. ASSUME NEW i \in 1 .. Len(rows) - 1
      PROVE  [rows EXCEPT ![i] = rows[i + 1], ![i + 1] = rows[i]] \in Seq(Rows)
  <2> QED
    BY <1>1, <1>2
<1> QED
  BY <1>5, <1>6 DEF HostRows, rows

-----------------------------------------------------------------------------
\* The settings: the steps of a save

\* A save that is over remembers nothing.
LEMMA NoPutType == NoPut \in Puts /\ NoPut.key = "none" /\ NoPut.at = "idle"
<1>1. <<>> \in Seq(Rows)
  OBVIOUS
<1>2. NoConfig \in ConfigsSeen
  BY DEF ConfigsSeen
<1> QED
  BY <1>1, <1>2 DEF NoPut, Puts

\* Steps of one page that change nothing stored.
LEMMA OnePut ==
  ASSUME SettingsInv, NEW p \in Pages, NEW r \in Puts, put' = [put EXCEPT ![p] = r], PutSound(p)',
         view' \in [Pages -> Views], saves' \in Nat,
         UNCHANGED <<env, hosts, config, creating, sessions>>
  PROVE  SettingsInv'
<1>1. put \in [Pages -> Puts]
  BY DEF SettingsInv, SettingsShape
<1>2. SettingsShape'
  BY <1>1 DEF SettingsInv, SettingsShape
<1>3. \A q \in Pages : PutSound(q)'
  <2> TAKE q \in Pages
  <2>1. CASE q # p
    <3>1. put'[q] = put[q] /\ PutSound(q)
      BY <1>1, <2>1 DEF SettingsInv
    <3> QED
      BY <3>1 DEF PutSound, Stored
  <2> QED
    BY <2>1
<1> QED
  BY <1>2, <1>3 DEF SettingsInv, PinnedModelsDefined

\* A page is loaded.
LEMMA LoadInv ==
  ASSUME SettingsInv, NEW p \in Pages, Load(p)
  PROVE  SettingsInv'
<1>1. Exposed \in Views
  <2>2. ExposedValue(env) \in Seq(Names) /\ ExposedValue(hosts) \in Seq(Names) /\ config \in ConfigsSeen
    BY ExposedNames DEF SettingsInv, SettingsShape
  <2> QED
    BY <2>2 DEF Exposed, Views
<1>2. view' \in [Pages -> Views]
  BY <1>1 DEF SettingsInv, SettingsShape, Load
<1>3. UNCHANGED <<env, hosts, config, put, creating, sessions, saves>>
  BY DEF Load
<1>4. \A q \in Pages : PutSound(q)'
  BY <1>3 DEF SettingsInv, PutSound, Stored
<1> QED
  BY <1>2, <1>3, <1>4 DEF SettingsInv, SettingsShape, PinnedModelsDefined

\* A request that is answered without a write, or dies.
LEMMA AnswerInv ==
  ASSUME SettingsInv, NEW p \in Pages, Answer(p),
         UNCHANGED <<env, hosts, config, view, creating, sessions, saves>>
  PROVE  SettingsInv'
<1>1. put'[p] = NoPut
  BY DEF Answer, SettingsInv, SettingsShape
<1>2. PutSound(p)'
  BY <1>1, NoPutType DEF PutSound, Lists
<1>3. view' \in [Pages -> Views] /\ saves' \in Nat
  BY DEF SettingsInv, SettingsShape
<1> QED
  BY <1>2, <1>3, NoPutType, OnePut DEF Answer

\* A section is saved.
LEMMA SaveListInv ==
  ASSUME SettingsInv, NEW p \in Pages, NEW key \in Lists, NEW rows \in Seq(Rows), SaveList(p, key, rows)
  PROVE  SettingsInv'
<1> DEFINE r == [NoPut EXCEPT !.key = key, !.list = rows, !.at = IF rows = <<>> THEN "clear" ELSE "merge"]
<1>1. r \in Puts /\ r.key = key /\ r.at \in {"clear", "merge"} /\ ~r.stale
  BY NoPutType DEF Puts, NoPut
<1>2. put' = [put EXCEPT ![p] = r] /\ UNCHANGED <<env, hosts, config, view, creating, sessions>>
  BY DEF SaveList
<1> HIDE DEF r
<1>3. put'[p] = r
  BY <1>2 DEF SettingsInv, SettingsShape
<1>4. PutSound(p)'
  BY <1>1, <1>3 DEF PutSound, Lists
<1>5. view' \in [Pages -> Views] /\ saves' \in Nat
  BY <1>2 DEF SettingsInv, SettingsShape, SaveList
<1> QED
  BY <1>1, <1>2, <1>4, <1>5, OnePut

\* A config is saved.
LEMMA SaveConfigInv ==
  ASSUME SettingsInv, NEW p \in Pages, NEW c \in Configs, NEW force \in BOOLEAN, SaveConfig(p, c, force)
  PROVE  SettingsInv'
<1> DEFINE r == [NoPut EXCEPT !.key = "config", !.config = c, !.force = force, !.at = "pinned"]
<1>1. r \in Puts /\ r.key = "config" /\ r.at = "pinned" /\ r.config = c
  BY NoPutType DEF Puts, ConfigsSeen
<1>2. put' = [put EXCEPT ![p] = r] /\ UNCHANGED <<env, hosts, config, view, creating, sessions>>
  BY DEF SaveConfig
<1> HIDE DEF r
<1>3. put'[p] = r
  BY <1>2 DEF SettingsInv, SettingsShape
<1>4. PutSound(p)'
  BY <1>1, <1>3 DEF PutSound, Lists
<1>5. view' \in [Pages -> Views] /\ saves' \in Nat
  BY <1>2 DEF SettingsInv, SettingsShape, SaveConfig
<1> QED
  BY <1>1, <1>2, <1>4, <1>5, OnePut

\* The blank secrets are filled in from what is stored, and the result is
\* valid or refused (mergeEnvValues, mergeDockerHostTokens).
LEMMA MergeInv ==
  ASSUME SettingsInv, NEW p \in Pages, Merge(p)
  PROVE  SettingsInv'
<1> DEFINE list == put[p].list
           stored == Stored(put[p].key)
           merged == Merged(list, stored)
           r == [put[p] EXCEPT !.at = "write", !.list = merged, !.blank = BlankNames(list)]
<1>0. /\ put \in [Pages -> Puts] /\ put[p] \in Puts /\ list \in Seq(Rows) /\ stored \in Seq(Rows)
      /\ put[p].at = "merge" /\ put[p].key \in Lists
      /\ UNCHANGED <<env, hosts, config, view, creating, sessions, saves>>
  BY DEF Merge, SettingsInv, SettingsShape, PutSound, Puts, Stored
<1>1. CASE ~Validate(put[p].key, merged)
  <2>1. Answer(p)
    BY <1>1 DEF Merge
  <2> QED
    BY <1>0, <2>1, AnswerInv
<1>2. CASE Validate(put[p].key, merged)
  <2>0. put' = [put EXCEPT ![p].at = "write", ![p].list = merged, ![p].blank = BlankNames(list)]
    BY <1>2 DEF Merge
  <2>1. put' = [put EXCEPT ![p] = r]
    BY <1>0, <2>0
  <2>2. merged \in Seq(Rows) /\ BlankNames(list) \subseteq Names
    <3>1. BlankNames(list) \subseteq NamesOf(list)
      BY DEF BlankNames, NamesOf
    <3> QED
      BY <1>0, <3>1, MergedRows, RowsAre
  <2>3. /\ r \in Puts /\ r.at = "write" /\ r.key = put[p].key /\ r.list = merged
        /\ r.blank = BlankNames(list)
    BY <1>0, <2>2 DEF Puts
  <2>4. ValidateEnvVars(merged)
    BY <1>2 DEF Validate, ValidateDockerHosts
  <2>5. ASSUME NEW n \in BlankNames(list) \cap NamesOf(stored)
        PROVE  SecretOf(merged, n) = SecretOf(stored, n)
    <3>1. PICK i \in DOMAIN list : list[i].secret = "" /\ list[i].name = n
      BY <2>5 DEF BlankNames
    <3>2. /\ i \in DOMAIN merged /\ merged[i].name = n
          /\ merged[i].secret = SecretOf(stored, n)
      BY <1>0, <2>5, <3>1, MergedRows
    <3> HIDE DEF merged
    <3> QED
      BY <2>2, <2>4, <3>2, SecretIs
  <2> HIDE DEF r, merged, list, stored
  <2>6. put'[p] = r
    BY <1>0, <2>1
  <2>7. PICK key \in Lists : key = put[p].key
    BY <1>0
  <2>10. Stored(key)' = stored
    BY <1>0, <2>7 DEF Stored, stored
  <2>8. PutSound(p)'
    BY <2>3, <2>4, <2>5, <2>6, <2>7, <2>10 DEF PutSound, Lists
  <2>9. view' \in [Pages -> Views] /\ saves' \in Nat
    BY <1>0 DEF SettingsInv, SettingsShape
  <2> QED
    BY <1>0, <2>1, <2>3, <2>8, <2>9, OnePut
<1> QED
  BY <1>1, <1>2

\* What a write leaves of the saves: its own is over, those for the same key
\* that were about to write are stale.
LEMMA OvertakeIs ==
  ASSUME SettingsInv, NEW p \in Pages, NEW key \in Lists \cup {"config"}, put' = Overtake(p, key)
  PROVE  /\ put' \in [Pages -> Puts] /\ put'[p] = NoPut
         /\ \A q \in Pages \ {p} :
               /\ put'[q].key = put[q].key /\ put'[q].at = put[q].at /\ put'[q].list = put[q].list
               /\ put'[q].blank = put[q].blank /\ put'[q].config = put[q].config
               /\ put'[q].force = put[q].force /\ put'[q].pinned = put[q].pinned
               /\ put'[q].stale <=> put[q].stale \/ (put[q].key = key /\ put[q].at = "write")
<1>0. put \in [Pages -> Puts] /\ NoPut \in Puts
  BY NoPutType DEF SettingsInv, SettingsShape
<1> DEFINE then(q) == IF put[q].key = key THEN [put[q] EXCEPT !.stale = @ \/ put[q].at = "write"] ELSE put[q]
<1>1. \A q \in Pages : put'[q] = IF q = p THEN NoPut ELSE then(q)
  BY DEF Overtake
<1>2. ASSUME NEW q \in Pages
      PROVE  /\ then(q) \in Puts
             /\ then(q).key = put[q].key /\ then(q).at = put[q].at /\ then(q).list = put[q].list
             /\ then(q).blank = put[q].blank /\ then(q).config = put[q].config
             /\ then(q).force = put[q].force /\ then(q).pinned = put[q].pinned
             /\ then(q).stale <=> put[q].stale \/ (put[q].key = key /\ put[q].at = "write")
  <2>1. put[q] \in Puts /\ put[q].stale \in BOOLEAN
    BY <1>0 DEF Puts
  <2>2. (put[q].stale \/ put[q].at = "write") \in BOOLEAN
    OBVIOUS
  <2>3. CASE put[q].key = key
    <3> DEFINE s == (put[q].stale \/ put[q].at = "write")
    <3>1. then(q) = [put[q] EXCEPT !.stale = s]
      BY <2>3
    <3> HIDE DEF then
    <3>2. s \in BOOLEAN /\ (s <=> put[q].stale \/ (put[q].key = key /\ put[q].at = "write"))
      BY <2>3
    <3> HIDE DEF s
    <3> QED
      BY <2>1, <3>1, <3>2 DEF Puts
  <2>4. CASE put[q].key # key
    BY <2>1, <2>4
  <2> QED
    BY <2>3, <2>4
<1>3. put' \in [Pages -> Puts]
  <2>1. put' = [q \in Pages |-> put'[q]]
    BY DEF Overtake
  <2>2. \A q \in Pages : put'[q] \in Puts
    BY <1>0, <1>1, <1>2
  <2> QED
    BY <2>1, <2>2
<1> HIDE DEF then
<1> QED
  BY <1>1, <1>2, <1>3

\* A list is stored: it is valid, and the saves it overtakes know.
LEMMA ListStored ==
  ASSUME SettingsInv, NEW p \in Pages, NEW key \in Lists, NEW list \in Seq(Rows), ValidateEnvVars(list),
         SetList(key, list), put' = Overtake(p, key), UNCHANGED <<config, view, creating, sessions, saves>>
  PROVE  SettingsInv'
<1>1. /\ Stored(key)' = list
      /\ \A k \in Lists \ {key} : Stored(k)' = Stored(k)
      /\ env' \in Seq(Rows) /\ hosts' \in Seq(Rows)
      /\ ValidateEnvVars(env') /\ ValidateEnvVars(hosts')
  BY DEF SetList, Stored, Lists, SettingsInv, SettingsShape
<1>2. SettingsShape'
  BY <1>1, OvertakeIs DEF SettingsInv, SettingsShape
<1>3. \A q \in Pages : PutSound(q)'
  <2> TAKE q \in Pages
  <2>1. CASE q = p
    BY <2>1, OvertakeIs, NoPutType DEF PutSound, Lists
  <2>2. CASE q # p
    <3>1. PutSound(q)
      BY DEF SettingsInv
    <3>2. /\ put'[q].key = put[q].key /\ put'[q].at = put[q].at /\ put'[q].list = put[q].list
          /\ put'[q].blank = put[q].blank /\ put'[q].config = put[q].config
          /\ put'[q].force = put[q].force /\ put'[q].pinned = put[q].pinned
          /\ put'[q].stale <=> put[q].stale \/ (put[q].key = key /\ put[q].at = "write")
      BY <2>2, OvertakeIs
    <3>3. PICK k : k = put[q].key
      OBVIOUS
    <3>4. CASE k = key
      BY <3>1, <3>2, <3>3, <3>4 DEF PutSound, Lists
    <3>5. CASE k \in Lists \ {key}
      <4>1. Stored(k)' = Stored(k)
        BY <1>1, <3>5
      <4> QED
        BY <3>1, <3>2, <3>3, <3>5, <4>1 DEF PutSound, Lists
    <3>6. CASE k \notin Lists
      BY <3>1, <3>2, <3>3, <3>6 DEF PutSound, Lists
    <3> QED
      BY <3>4, <3>5, <3>6
  <2> QED
    BY <2>1, <2>2
<1> QED
  BY <1>1, <1>2, <1>3 DEF SettingsInv, PinnedModelsDefined

\* A setting is cleared or written.
LEMMA StoreListInv ==
  ASSUME SettingsInv, NEW p \in Pages, ClearSetting(p) \/ WriteList(p)
  PROVE  SettingsInv'
<1>0. put[p] \in Puts /\ put[p].list \in Seq(Rows) /\ PutSound(p)
  BY DEF SettingsInv, SettingsShape, Puts
<1>1. PICK key, list : key = put[p].key /\ list = put[p].list
  OBVIOUS
<1>2. CASE ClearSetting(p)
  <2>1. <<>> \in Seq(Rows) /\ ValidateEnvVars(<<>>)
    BY DEF ValidateEnvVars
  <2>2. key \in Lists /\ SetList(key, <<>>) /\ put' = Overtake(p, key)
        /\ UNCHANGED <<config, view, creating, sessions, saves>>
    BY <1>0, <1>1, <1>2 DEF ClearSetting, PutSound
  <2> QED
    BY <2>1, <2>2, ListStored
<1>3. CASE WriteList(p)
  <2>1. key \in Lists /\ SetList(key, list) /\ put' = Overtake(p, key)
        /\ UNCHANGED <<config, view, creating, sessions, saves>>
    BY <1>1, <1>3 DEF WriteList
  <2>2. list \in Seq(Rows) /\ ValidateEnvVars(list)
    BY <1>0, <1>1, <1>3 DEF WriteList, PutSound
  <2> QED
    BY <2>1, <2>2, ListStored
<1> QED
  BY <1>2, <1>3

\* The sessions' models are looked up (orphanedPinnedModels).
LEMMA CheckPinnedInv ==
  ASSUME SettingsInv, NEW p \in Pages, CheckPinned(p)
  PROVE  SettingsInv'
<1> DEFINE r == [put[p] EXCEPT !.at = "write", !.pinned = Pinned]
<1>0. /\ put \in [Pages -> Puts] /\ put[p] \in Puts /\ PutSound(p) /\ put[p].at = "pinned"
      /\ view \in [Pages -> Views] /\ saves \in Nat
      /\ UNCHANGED <<env, hosts, config, view, creating, sessions, saves>>
  BY DEF SettingsInv, SettingsShape, CheckPinned
<1>1. CASE Answer(p)
  BY <1>0, <1>1, AnswerInv
<1>2. CASE ~Answer(p)
  <2>0. /\ ValidateOpencodeConfig(put[p].config)
        /\ put[p].force \/ Pinned \subseteq DOMAIN put[p].config.models
        /\ put' = [put EXCEPT ![p] = r]
    BY <1>0, <1>2 DEF CheckPinned
  <2>1. Pinned \subseteq Models
    <3>1. sessions \in Seq(SessionRows)
      BY DEF SettingsInv, SettingsShape
    <3>2. \A i \in DOMAIN sessions : sessions[i] \in SessionRows
      BY <3>1
    <3> QED
      BY <3>2 DEF Pinned, SessionRows
  <2>2. /\ r \in Puts /\ r.at = "write" /\ r.key = put[p].key /\ r.config = put[p].config
        /\ r.force = put[p].force /\ r.pinned = Pinned
    BY <1>0, <2>1 DEF Puts
  <2> HIDE DEF r
  <2>3. put'[p] = r
    BY <1>0, <2>0
  <2>4. PutSound(p)'
    BY <1>0, <2>0, <2>2, <2>3 DEF PutSound, Lists
  <2> QED
    BY <1>0, <2>0, <2>2, <2>4, OnePut
<1> QED
  BY <1>1, <1>2

\* A config is stored: what it drops was forced, or chosen after the lookup.
LEMMA WriteConfigInv ==
  ASSUME SettingsInv, NEW p \in Pages, WriteConfig(p)
  PROVE  SettingsInv'
<1>0. /\ put[p] \in Puts /\ PutSound(p) /\ put[p].key = "config" /\ put[p].at = "write"
      /\ config' = put[p].config /\ put' = Overtake(p, "config")
      /\ UNCHANGED <<env, hosts, view, creating, saves>>
  BY DEF SettingsInv, SettingsShape, WriteConfig
<1>1. /\ config' \in ConfigsSeen /\ config'.default \in DOMAIN config'.models
      /\ put[p].force \/ put[p].pinned \subseteq DOMAIN config'.models
      /\ put[p].force \in BOOLEAN
  BY <1>0 DEF PutSound, ValidateOpencodeConfig, ConfigsSeen, Puts
<1> DEFINE kept(i) ==
      IF sessions[i].model \in DOMAIN config'.models THEN sessions[i]
      ELSE [sessions[i] EXCEPT !.forced = @ \/ put[p].force,
                               !.raced = @ \/ sessions[i].model \notin put[p].pinned]
<1>2. /\ sessions \in Seq(SessionRows) /\ Len(sessions) \in Nat /\ DOMAIN sessions = 1 .. Len(sessions)
      /\ \A i \in DOMAIN sessions : sessions[i] \in SessionRows
  BY DEF SettingsInv, SettingsShape
<1>3. ASSUME NEW i \in DOMAIN sessions
      PROVE  /\ kept(i) \in SessionRows
             /\ kept(i).model \in DOMAIN config'.models \/ kept(i).forced \/ kept(i).raced
  <2>1. CASE sessions[i].model \in DOMAIN config'.models
    BY <1>2, <2>1
  <2>2. CASE sessions[i].model \notin DOMAIN config'.models
    <3> DEFINE f == (sessions[i].forced \/ put[p].force)
               c == (sessions[i].raced \/ sessions[i].model \notin put[p].pinned)
    <3>1. kept(i) = [sessions[i] EXCEPT !.forced = f, !.raced = c]
      BY <2>2
    <3>2. f \in BOOLEAN /\ c \in BOOLEAN /\ (f \/ c)
      BY <1>1, <2>2
    <3> HIDE DEF f, c, kept
    <3>3. sessions[i] \in SessionRows
      BY <1>2
    <3>4. kept(i) \in SessionRows /\ kept(i).forced = f /\ kept(i).raced = c
      BY <3>1, <3>2, <3>3 DEF SessionRows
    <3> QED
      BY <3>2, <3>4
  <2> QED
    BY <2>1, <2>2
<1>4. sessions' = [i \in DOMAIN sessions |-> kept(i)]
  BY <1>0 DEF WriteConfig
<1> HIDE DEF kept
<1>5. sessions' \in Seq(SessionRows) /\ DOMAIN sessions' = DOMAIN sessions
  <2>1. sessions' \in [1 .. Len(sessions) -> SessionRows]
    BY <1>2, <1>3, <1>4
  <2> QED
    BY <1>2, <1>4, <2>1, SeqDef
<1>6. PinnedModelsDefined'
  BY <1>3, <1>4, <1>5 DEF PinnedModelsDefined
<1>7. SettingsShape'
  BY <1>0, <1>1, <1>5, OvertakeIs DEF SettingsInv, SettingsShape
<1>8. \A q \in Pages : PutSound(q)'
  <2> TAKE q \in Pages
  <2>1. CASE q = p
    BY <1>0, <2>1, OvertakeIs, NoPutType DEF PutSound, Lists
  <2>2. CASE q # p
    <3>1. PutSound(q)
      BY DEF SettingsInv
    <3>2. /\ put'[q].key = put[q].key /\ put'[q].at = put[q].at /\ put'[q].list = put[q].list
          /\ put'[q].blank = put[q].blank /\ put'[q].config = put[q].config
          /\ put'[q].force = put[q].force /\ put'[q].pinned = put[q].pinned
          /\ put'[q].stale <=> put[q].stale \/ (put[q].key = "config" /\ put[q].at = "write")
      BY <1>0, <2>2, OvertakeIs
    <3>3. \A k : Stored(k)' = Stored(k)
      BY <1>0 DEF Stored
    <3> QED
      BY <3>1, <3>2, <3>3 DEF PutSound, Lists
  <2> QED
    BY <2>1, <2>2
<1> QED
  BY <1>0, <1>1, <1>6, <1>7, <1>8 DEF SettingsInv

\* A session is created: its row says whether its model was dropped meanwhile.
LEMMA SessionInv ==
  ASSUME SettingsInv, (\E s \in Selections : CreateSession(s)) \/ InsertSessionRow
  PROVE  SettingsInv'
<1>0. UNCHANGED <<env, hosts, config, view, put, saves>>
  BY DEF CreateSession, InsertSessionRow
<1>1. \A q \in Pages : PutSound(q)'
  BY <1>0 DEF SettingsInv, PutSound, Stored
<1>2. /\ creating' \in [model : Models, variant : Variants, at : {"idle", "insert"}]
      /\ sessions' \in Seq(SessionRows)
      /\ PinnedModelsDefined'
  <2>1. ASSUME NEW s \in Selections, CreateSession(s)
        PROVE  /\ creating' \in [model : Models, variant : Variants, at : {"idle", "insert"}]
               /\ sessions' = sessions
    BY <2>1 DEF CreateSession, Models, Variants
  <2>2. CASE InsertSessionRow
    <3> DEFINE row == [model |-> creating.model, variant |-> creating.variant, forced |-> FALSE,
                       raced |-> creating.model \notin DOMAIN config.models]
    <3>1. row \in SessionRows /\ (row.model \in DOMAIN config.models \/ row.raced)
      BY DEF SettingsInv, SettingsShape, SessionRows
    <3>2. sessions' = Append(sessions, row) /\ creating' = NotCreating
      BY <2>2 DEF InsertSessionRow
    <3> HIDE DEF row
    <3>3. /\ sessions \in Seq(SessionRows) /\ sessions' \in Seq(SessionRows)
          /\ Len(sessions') = Len(sessions) + 1 /\ Len(sessions) \in Nat
          /\ \A i \in 1 .. Len(sessions) : sessions'[i] = sessions[i]
          /\ sessions'[Len(sessions) + 1] = row
      BY <3>1, <3>2 DEF SettingsInv, SettingsShape
    <3>4. /\ DOMAIN sessions = 1 .. Len(sessions) /\ DOMAIN sessions' = 1 .. Len(sessions) + 1
      BY <3>3
    <3>5. \A i \in DOMAIN sessions' : i \in DOMAIN sessions \/ i = Len(sessions) + 1
      BY <3>3, <3>4
    <3>6. PinnedModelsDefined'
      BY <1>0, <3>1, <3>3, <3>4, <3>5 DEF SettingsInv, PinnedModelsDefined
    <3>7. NotCreating \in [model : Models, variant : Variants, at : {"idle", "insert"}]
      BY DEF NotCreating, Models, Variants
    <3> QED
      BY <3>2, <3>3, <3>6, <3>7
  <2>3. PinnedModelsDefined /\ sessions \in Seq(SessionRows)
    BY DEF SettingsInv, SettingsShape
  <2>4. sessions' = sessions => PinnedModelsDefined'
    BY <1>0, <2>3 DEF PinnedModelsDefined
  <2> QED
    BY <2>1, <2>2, <2>3, <2>4
<1> QED
  BY <1>0, <1>1, <1>2 DEF SettingsInv, SettingsShape

\* What was stored before is valid, and nothing is in flight.
LEMMA SettingsInitInv == SettingsInit => SettingsInv
<1> SUFFICES ASSUME SettingsInit  PROVE SettingsInv
  OBVIOUS
<1>0. /\ Earlier \subseteq Seq([name : Names, secret : Secrets])
      /\ \A list \in Earlier : ValidateEnvVars(list)
  BY SettingsAssumption DEF SettingsAssumption
<1>1. Seq([name : Names, secret : Secrets]) \subseteq Seq(Rows)
  BY SeqMonotonic DEF Rows
<1>2. env \in Seq(Rows) /\ hosts \in Seq(Rows) /\ ValidateEnvVars(env) /\ ValidateEnvVars(hosts)
  BY <1>0, <1>1 DEF SettingsInit
<1>3. Exposed \in Views
  <2>2. ExposedValue(env) \in Seq(Names) /\ ExposedValue(hosts) \in Seq(Names)
    BY <1>2, ExposedNames
  <2> QED
    BY <2>2 DEF Exposed, Views, SettingsInit, ConfigsSeen
<1>4. NotCreating \in [model : Models, variant : Variants, at : {"idle", "insert"}]
  BY DEF NotCreating, Models, Variants
<1>5. SettingsShape
  BY <1>2, <1>3, <1>4, NoPutType DEF SettingsInit, SettingsShape, ConfigsSeen
<1>6. \A p \in Pages : PutSound(p)
  BY NoPutType DEF SettingsInit, PutSound, Lists
<1>7. PinnedModelsDefined
  BY DEF SettingsInit, PinnedModelsDefined
<1> QED
  BY <1>2, <1>5, <1>6, <1>7 DEF SettingsInv, SettingsInit

\* The invariant of the settings holds whichever pages save in whichever order.
THEOREM SettingsInvHolds == SettingsSpec => []SettingsInv
<1>1. ASSUME SettingsInv, [SettingsNext]_settingsVars  PROVE SettingsInv'
  <2>1. CASE UNCHANGED settingsVars
    <3>1. \A p \in Pages : PutSound(p)'
      BY <1>1, <2>1 DEF SettingsInv, PutSound, Stored, settingsVars
    <3> QED
      BY <1>1, <2>1, <3>1 DEF settingsVars, SettingsInv, SettingsShape, PinnedModelsDefined
  <2>2. CASE PageNext
    <3>1. ASSUME NEW p \in Pages, PutDies(p)  PROVE SettingsInv'
      BY <1>1, <3>1, AnswerInv DEF PutDies
    <3> QED
      BY <1>1, <2>2, <3>1, LoadInv DEF PageNext
  <2>3. CASE ListNext
    <3>1. ASSUME NEW p \in Pages
          PROVE  EnvRows(view[p].env) \subseteq Seq(Rows) /\ HostRows(view[p].hosts) \subseteq Seq(Rows)
      <4>1. view[p].env \in Seq(Names) /\ view[p].hosts \in Seq(Names)
        BY <1>1 DEF SettingsInv, SettingsShape, Views
      <4> QED
        BY <4>1, SectionRows
    <3>2. "env" \in Lists /\ "hosts" \in Lists
      BY DEF Lists
    <3>3. ASSUME NEW p \in Pages, NEW rows \in EnvRows(view[p].env), SaveList(p, "env", rows)  PROVE SettingsInv'
      BY <1>1, <3>1, <3>2, <3>3, SaveListInv
    <3>4. ASSUME NEW p \in Pages, NEW rows \in HostRows(view[p].hosts), SaveList(p, "hosts", rows)
          PROVE  SettingsInv'
      BY <1>1, <3>1, <3>2, <3>4, SaveListInv
    <3> QED
      BY <1>1, <2>3, <3>3, <3>4, StoreListInv, MergeInv DEF ListNext
  <2>4. CASE ConfigNext
    BY <1>1, <2>4, SaveConfigInv, CheckPinnedInv, WriteConfigInv, SessionInv DEF ConfigNext
  <2> QED
    BY <1>1, <2>1, <2>2, <2>3, <2>4 DEF SettingsNext
<1> QED
  BY <1>1, SettingsInitInv, PTL DEF SettingsSpec

-----------------------------------------------------------------------------
\* The settings: what a reader of them finds

\* Of a list whose names are unique and whose secrets are there, every host is
\* offered, in its place.
LEMMA HostsAreOffered ==
  ASSUME hosts \in Seq(Rows), ValidateEnvVars(hosts)
  PROVE  ListDockerHosts = hosts
<1> DEFINE usable == {i \in DOMAIN hosts : hosts[i].name # "" /\ hosts[i].secret # ""}
           firsts == {i \in usable : \A j \in usable : j < i => hosts[j].name # hosts[i].name}
           upTo(i) == {j \in firsts : j <= i}
           n == Len(hosts)
<1>0. DOMAIN hosts = 1 .. n /\ n \in Nat
  BY RowsAre
<1>1. usable = 1 .. n
  BY <1>0, RowsAre DEF ValidateEnvVars
<1> HIDE DEF usable
<1>2. firsts = 1 .. n
  <2>1. ASSUME NEW i \in 1 .. n, NEW j \in 1 .. n, j < i  PROVE hosts[j].name # hosts[i].name
    <3>1. hosts[j].name = hosts[i].name => j = i
      BY <1>0, Zenon DEF ValidateEnvVars
    <3> QED
      BY <1>0, <2>1, <3>1
  <2> QED
    BY <1>1, <2>1
<1> HIDE DEF firsts
<1>3. Cardinality(firsts) = n
  BY <1>0, <1>2, FS_Interval
<1>4. ASSUME NEW i \in 1 .. n  PROVE Cardinality(upTo(i)) = i
  <2>1. upTo(i) = 1 .. i
    BY <1>0, <1>2
  <2> HIDE DEF upTo
  <2> QED
    BY <1>0, <2>1, FS_Interval
<1> HIDE DEF upTo
<1>5. ASSUME NEW k \in 1 .. n  PROVE (CHOOSE i \in firsts : Cardinality(upTo(i)) = k) = k
  BY <1>2, <1>4
<1>6. ListDockerHosts =
        [k \in 1 .. Cardinality(firsts) |-> hosts[CHOOSE i \in firsts : Cardinality(upTo(i)) = k]]
  BY DEF ListDockerHosts, firsts, usable, upTo
<1>7. ListDockerHosts = [k \in 1 .. n |-> hosts[k]]
  <2> DEFINE place(k) == CHOOSE i \in firsts : Cardinality(upTo(i)) = k
  <2>1. ListDockerHosts = [k \in 1 .. n |-> hosts[place(k)]] /\ \A k \in 1 .. n : place(k) = k
    BY <1>3, <1>5, <1>6
  <2> HIDE DEF place
  <2> QED
    BY <2>1
<1>8. hosts = [k \in 1 .. n |-> hosts[k]]
  BY <1>0
<1> QED
  BY <1>7, <1>8

\* The fields of a selection.
LEMMA SelectionFields ==
  ASSUME NEW s, NEW m, NEW v, s = [model |-> m, variant |-> v]
  PROVE  s.model = m /\ s.variant = v
  OBVIOUS

\* The first of a list is on it.
LEMMA FirstIsIn ==
  ASSUME NEW S, NEW list \in Seq(S), list # <<>>
  PROVE  list[1] \in ToSet(list)
<1>1. 1 \in DOMAIN list
  BY EmptySeq, LenProperties
<1> QED
  BY <1>1 DEF ToSet

\* A default selection is one the create route takes, where no variant of a
\* model has the empty name.
LEMMA SelectionIsOffered ==
  ASSUME NEW c, NEW recent, c.default \in DOMAIN c.models,
         \A m \in DOMAIN c.models : c.models[m] \in Seq(STRING) /\ "" \notin ToSet(c.models[m])
  PROVE  LET s == ResolveDefaultModelSelection(c, recent) IN IsValidVariant(c, s.model, s.variant)
<1> DEFINE model == IF recent.model \in DOMAIN c.models THEN recent.model
                    ELSE IF c.default \in DOMAIN c.models THEN c.default
                    ELSE IF DOMAIN c.models = {} THEN "" ELSE CHOOSE m \in DOMAIN c.models : TRUE
           preferred == IF recent.model = model THEN recent.variant ELSE ""
<1>1. model \in DOMAIN c.models
  OBVIOUS
<1> HIDE DEF model
<1>2. IsValidVariant(c, model, DefaultVariantForModel(c, model))
  <2> DEFINE variants == c.models[model]
  <2>1. variants \in Seq(STRING) /\ "" \notin ToSet(variants)
    BY <1>1
  <2>2. variants # <<>> => variants[1] \in ToSet(variants)
    BY <2>1, FirstIsIn
  <2> HIDE DEF variants
  <2>3. DefaultVariantForModel(c, model) =
          IF variants = <<>> THEN ""
          ELSE IF "medium" \in ToSet(variants) THEN "medium"
          ELSE IF "high" \in ToSet(variants) THEN "high" ELSE variants[1]
    BY <1>1 DEF DefaultVariantForModel, variants
  <2>4. IsValidVariant(c, model, DefaultVariantForModel(c, model)) <=>
          IF DefaultVariantForModel(c, model) = "" THEN variants = <<>>
          ELSE DefaultVariantForModel(c, model) \in ToSet(variants)
    BY <1>1 DEF IsValidVariant, variants
  <2> QED
    BY <2>1, <2>2, <2>3, <2>4
<1>3. IsValidVariant(c, model, ResolveVariant(c, model, preferred))
  BY <1>2 DEF ResolveVariant
<1>4. ResolveDefaultModelSelection(c, recent) =
        [model |-> model, variant |-> ResolveVariant(c, model, preferred)]
  BY DEF ResolveDefaultModelSelection, model, preferred
<1> HIDE DEF preferred
<1>5. /\ ResolveDefaultModelSelection(c, recent).model = model
      /\ ResolveDefaultModelSelection(c, recent).variant = ResolveVariant(c, model, preferred)
  BY <1>4, SelectionFields
<1> QED
  BY <1>3, <1>5

\* What is stored can be used, whichever pages saved it in whichever order and
\* with whichever lists and configs, where the variants of the configs have
\* names (putSetting, listDockerHosts, orphanedPinnedModels,
\* resolveDefaultModelSelection).
THEOREM SettingsAreUsableHolds ==
  ASSUME \A c \in Configs : \A m \in DOMAIN c.models : c.models[m] \in Seq(STRING) /\ "" \notin ToSet(c.models[m])
  PROVE  SettingsSpec => []SettingsAreUsable
<1>1. SettingsInv => SettingsAreUsable
  <2> SUFFICES ASSUME SettingsInv  PROVE SettingsAreUsable
    OBVIOUS
  <2>1. StoredIsUsable
    BY HostsAreOffered DEF SettingsInv, SettingsShape, StoredIsUsable, ValidateEnvVars
  <2>2. DefaultSelectionIsOffered
    <3> SUFFICES ASSUME config # NoConfig
                 PROVE  LET s == ResolveDefaultModelSelection(config, LastModelSelection)
                        IN IsValidVariant(config, s.model, s.variant)
      BY DEF DefaultSelectionIsOffered
    <3>1. config \in Configs /\ config.default \in DOMAIN config.models
      BY DEF SettingsInv, SettingsShape, ConfigsSeen
    <3> QED
      BY <3>1, SelectionIsOffered
  <2> QED
    BY <2>1, <2>2 DEF SettingsInv, SettingsAreUsable
<1> QED
  BY <1>1, SettingsInvHolds, PTL

\* A secret that was not retyped survives the save, unless another save of the
\* same setting was written between its merge and its write (mergeEnvValues,
\* mergeDockerHostTokens), for any pages and lists.
THEOREM BlankKeepsStoredHolds == SettingsSpec => BlankKeepsStored
<1>1. ASSUME SettingsInv
      PROVE  [\A p \in Pages, key \in Lists :
                put[p].key = key /\ put[p].at = "write" /\ put'[p] = NoPut /\ Stored(key)' = put[p].list
                    /\ ~put[p].stale =>
                  \A n \in put[p].blank \cap NamesOf(Stored(key)) :
                      SecretOf(Stored(key)', n) = SecretOf(Stored(key), n)]_settingsVars
  <2> SUFFICES ASSUME NEW p \in Pages, NEW key \in Lists,
                      put[p].key = key, put[p].at = "write", Stored(key)' = put[p].list, ~put[p].stale,
                      NEW n \in put[p].blank \cap NamesOf(Stored(key))
               PROVE  SecretOf(Stored(key)', n) = SecretOf(Stored(key), n)
    OBVIOUS
  <2>1. PutSound(p)
    BY <1>1 DEF SettingsInv
  <2>2. SecretOf(put[p].list, n) = SecretOf(Stored(key), n)
    BY <2>1 DEF PutSound
  <2> QED
    BY <2>2
<1> QED
  BY <1>1, SettingsInvHolds, PTL DEF SettingsSpec, BlankKeepsStored
=============================================================================
