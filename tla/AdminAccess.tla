----------------------------- MODULE AdminAccess -----------------------------
(***************************************************************************)
(* The front door (src/src/access.ts, src/src/password.ts, changePassword  *)
(* of src/src/api-settings.ts): one password record in the settings table, *)
(* one row of admin_sessions per signed-in browser, and requests that meet *)
(* both tables one query at a time.                                        *)
(*                                                                         *)
(* A query is atomic; between two queries of a request any other request   *)
(* may run, and a request may die there.  Hashing is a fresh number per    *)
(* record: a password verifies against a record exactly if the record was  *)
(* made from it.                                                           *)
(***************************************************************************)
EXTENDS Naturals, FiniteSets

CONSTANTS
    Browsers,
    Passwords,       \* long enough ones; "short" is shorter than MIN_PASSWORD_LENGTH
    MaxRecords,      \* bound: password records written
    MaxTokens        \* bound: sign-ins

ASSUME AccessAssumption ==
    /\ "short" \notin Passwords /\ "" \notin Passwords
    /\ MaxRecords \in Nat /\ MaxTokens \in Nat

VARIABLES
    record,          \* the stored record: [no, pw]; no = 0 before the first
    records,         \* records written so far
    adminSessions,   \* rows [token, no, late]
    expired,         \* tokens of rows past their expiresAt
    tokens,          \* tokens issued so far
    cookie,          \* per browser: its token, 0 without one
    request,         \* per browser: its request in flight
    broken,          \* a change died between its new record and its sign-out
    raced            \* a setup wrote its record over one it had not read

accessVars == <<record, records, adminSessions, expired, tokens, cookie, request, broken, raced>>

NoRecord == [no |-> 0, pw |-> ""]
NoRequest == [op |-> "none", at |-> "idle", pw |-> "", next |-> "", seen |-> 0]

Records == [no : 0 .. MaxRecords, pw : Passwords \cup {""}]

\* Types; in particular every session was opened with a stored record.
AccessTypeOK ==
    /\ record \in Records /\ records \in 0 .. MaxRecords
    /\ adminSessions \subseteq [token : 1 .. MaxTokens, no : 1 .. MaxRecords, late : BOOLEAN]
    /\ expired \subseteq 1 .. MaxTokens /\ tokens \in 0 .. MaxTokens
    /\ cookie \in [Browsers -> 0 .. MaxTokens]
    /\ request \in [Browsers -> [op : {"none", "login", "setup", "change"},
                                 at : {"idle", "read", "write", "revoke", "sweep", "insert"},
                                 pw : Passwords \cup {"", "short"}, next : Passwords \cup {"", "short"},
                                 seen : 0 .. MaxRecords]]
    /\ broken \in BOOLEAN /\ raced \in BOOLEAN

AccessInit ==
    /\ record = NoRecord /\ records = 0 /\ adminSessions = {} /\ expired = {} /\ tokens = 0
    /\ cookie = [b \in Browsers |-> 0] /\ request = [b \in Browsers |-> NoRequest]
    /\ broken = FALSE /\ raced = FALSE

-----------------------------------------------------------------------------
\* isSignedIn: the cookie's hash names a row that has not expired.
IsSignedIn(b) ==
    \E row \in adminSessions : row.token = cookie[b] /\ row.token \notin expired

LongEnough(pw) == pw \in Passwords

Ask(b, r) == request[b] = NoRequest /\ request' = [request EXCEPT ![b] = r]
Step(b, op, at) == request[b].op = op /\ request[b].at = at
Move(b, r) == request' = [request EXCEPT ![b] = r]
Refuse(b) == request' = [request EXCEPT ![b] = NoRequest]

\* POST /api/auth.
AskLogin(b, pw) ==
    /\ Ask(b, [NoRequest EXCEPT !.op = "login", !.at = "read", !.pw = pw])
    /\ UNCHANGED <<record, records, adminSessions, expired, tokens, cookie, broken, raced>>

\* POST /api/setup: a short password is refused before anything is read.
AskSetup(b, pw) ==
    /\ LongEnough(pw)
    /\ Ask(b, [NoRequest EXCEPT !.op = "setup", !.at = "read", !.pw = pw])
    /\ UNCHANGED <<record, records, adminSessions, expired, tokens, cookie, broken, raced>>

\* POST /api/settings/password, behind requireAdmin.
AskChange(b, pw, next) ==
    /\ IsSignedIn(b) /\ LongEnough(next)
    /\ Ask(b, [NoRequest EXCEPT !.op = "change", !.at = "read", !.pw = pw, !.next = next])
    /\ UNCHANGED <<record, records, adminSessions, expired, tokens, cookie, broken, raced>>

\* verifyPassword; without a record there is nothing to verify against.
VerifyPassword(rec, pw) == rec # NoRecord /\ rec.pw = pw

ReadForLogin(b) ==
    /\ Step(b, "login", "read")
    /\ IF VerifyPassword(record, request[b].pw)
       THEN Move(b, [request[b] EXCEPT !.at = "sweep", !.seen = record.no]) ELSE Refuse(b)
    /\ UNCHANGED <<record, records, adminSessions, expired, tokens, cookie, broken, raced>>

\* Only the first password is set here: a record refuses the request.
ReadForSetup(b) ==
    /\ Step(b, "setup", "read")
    /\ IF record = NoRecord THEN Move(b, [request[b] EXCEPT !.at = "write"]) ELSE Refuse(b)
    /\ UNCHANGED <<record, records, adminSessions, expired, tokens, cookie, broken, raced>>

ReadForChange(b) ==
    /\ Step(b, "change", "read")
    /\ IF VerifyPassword(record, request[b].pw)
       THEN Move(b, [request[b] EXCEPT !.at = "write", !.seen = record.no]) ELSE Refuse(b)
    /\ UNCHANGED <<record, records, adminSessions, expired, tokens, cookie, broken, raced>>

\* writeSetting of the new record, which is then the one the request knows.
WriteRecord(b) ==
    /\ request[b].at = "write" /\ records < MaxRecords
    /\ records' = records + 1
    /\ record' = [no |-> records', pw |-> IF request[b].op = "setup" THEN request[b].pw ELSE request[b].next]
    /\ Move(b, [request[b] EXCEPT !.at = IF request[b].op = "change" THEN "revoke" ELSE "sweep",
                                  !.seen = records'])
    /\ raced' = (raced \/ (request[b].op = "setup" /\ record.no # request[b].seen))
    /\ UNCHANGED <<adminSessions, expired, tokens, cookie, broken>>

\* Mutant: the change revokes the caller's own session only.
RevokeAllOwn(b) ==
    /\ Step(b, "change", "revoke")
    /\ adminSessions' = {row \in adminSessions : row.token # cookie[b]}
    /\ Move(b, [request[b] EXCEPT !.at = "sweep"])
    /\ UNCHANGED <<record, records, expired, tokens, cookie, broken, raced>>

\* changePassword deletes every row, the caller's too.
RevokeAll(b) ==
    /\ Step(b, "change", "revoke")
    /\ adminSessions' = {}
    /\ Move(b, [request[b] EXCEPT !.at = "sweep"])
    /\ UNCHANGED <<record, records, expired, tokens, cookie, broken, raced>>

\* createAdminSession: expired rows go, then the new row is inserted.
SweepExpired(b) ==
    /\ request[b].at = "sweep"
    /\ adminSessions' = {row \in adminSessions : row.token \notin expired}
    /\ Move(b, [request[b] EXCEPT !.at = "insert"])
    /\ UNCHANGED <<record, records, expired, tokens, cookie, broken, raced>>

\* The answer carries the cookie; it may not arrive.
InsertSession(b, arrives) ==
    /\ request[b].at = "insert" /\ tokens < MaxTokens
    /\ tokens' = tokens + 1
    /\ adminSessions' = adminSessions \cup
          {[token |-> tokens', no |-> request[b].seen, late |-> request[b].seen # record.no]}
    /\ cookie' = IF arrives THEN [cookie EXCEPT ![b] = tokens'] ELSE cookie
    /\ Refuse(b)
    /\ UNCHANGED <<record, records, expired, broken, raced>>

\* DELETE /api/auth.
Logout(b) ==
    /\ request[b] = NoRequest /\ cookie[b] # 0
    /\ adminSessions' = {row \in adminSessions : row.token # cookie[b]}
    /\ cookie' = [cookie EXCEPT ![b] = 0]
    /\ UNCHANGED <<record, records, expired, tokens, request, broken, raced>>

\* A year passes.
Expire(row) ==
    /\ row.token \notin expired
    /\ expired' = expired \cup {row.token}
    /\ UNCHANGED <<record, records, adminSessions, tokens, cookie, request, broken, raced>>

\* A request dies between two of its queries.
RequestDies(b) ==
    /\ request[b] # NoRequest
    /\ Refuse(b)
    /\ broken' = (broken \/ request[b].at = "revoke")
    /\ UNCHANGED <<record, records, adminSessions, expired, tokens, cookie, raced>>

AccessNext ==
    \/ \E b \in Browsers, pw \in Passwords : AskLogin(b, pw)
    \/ \E b \in Browsers, pw \in Passwords \cup {"short"} : AskSetup(b, pw)
    \/ \E b \in Browsers, pw \in Passwords, next \in Passwords : AskChange(b, pw, next)
    \/ \E b \in Browsers : \/ ReadForLogin(b) \/ ReadForSetup(b) \/ ReadForChange(b)
                           \/ WriteRecord(b) \/ RevokeAll(b) \/ SweepExpired(b)
                           \/ Logout(b) \/ RequestDies(b)
    \/ \E b \in Browsers, arrives \in BOOLEAN : InsertSession(b, arrives)
    \/ \E row \in adminSessions : Expire(row)

AccessSpec == AccessInit /\ [][AccessNext]_accessVars

-----------------------------------------------------------------------------
\* Properties

\* A new password signs every browser out (changePassword): a session that
\* was opened with an earlier record is gone, unless the change is still on
\* its way to the sign-out or died before it, the sign-in had verified the
\* earlier record and inserted its row only after the new one was stored, or
\* the new record is that of a second setup, which signs nobody out: both had
\* found the table empty.
ChangeSignsEveryoneOut ==
    \A row \in adminSessions :
        \/ row.no = record.no
        \/ row.late
        \/ broken \/ raced
        \/ \E b \in Browsers : Step(b, "change", "revoke")

=============================================================================
