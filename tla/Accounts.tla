------------------------------- MODULE Accounts -------------------------------
(***************************************************************************)
(* The server's accounts: users, their sessions, the login limiter and the *)
(* handlers that work on them.  Handlers run concurrently; the database    *)
(* has one connection, so each statement is a step and other handlers run  *)
(* between two statements of one handler.                                  *)
(***************************************************************************)
EXTENDS Naturals, FiniteSets

CONSTANTS
    User,          \* accounts, existing or still to be created
    Password,      \* passwords that are given and tried
    Sid,           \* session identifiers
    Request,       \* places for requests being served
    FirstRole,     \* roles of the accounts there are at first, None for the others
    FirstPassword,
    FirstSession,  \* the sessions there are at first, None for the others
    MaxAttempts,   \* failed logins before the lock (maxLoginAttempts)
    MaxFaults,     \* bound: statements that fail, sessions that time out
    None

Role == {"admin", "operator", "viewer"}

AdminOp == {"updateUser", "suspend", "activate", "reset", "create"}
SelfOp == {"me", "poll", "logout", "updateMe", "password"}
Op == {"login", "users"} \cup AdminOp \cup SelfOp

ASSUME AttemptsAssumption == MaxAttempts \in Nat \ {0}
ASSUME NoneAssumption == None \notin User \cup Password \cup Sid \cup Role \cup Op
ASSUME FirstAssumption ==
    /\ FirstRole \in [User -> Role \cup {None}] /\ FirstPassword \in Password
    /\ IsFiniteSet(User) /\ \E u \in User : FirstRole[u] = "admin"
    /\ FirstSession \in [Sid -> {u \in User : FirstRole[u] # None} \cup {None}]

VARIABLES
    role,       \* users.role
    status,     \* users.status, "absent" before the account is created
    password,   \* users.password_hash
    owner,      \* sessions.user_id; None before the session and after it
    opened,     \* history: the password a session is held on
    issued,     \* session identifiers given out so far
    expired,    \* sessions past expires_at
    record,     \* loginLimiter.attempts of the username
    call,       \* the requests being served
    raced,      \* history: a write went ahead on an overtaken decision
    late,       \* history: sessions of logins a revocation overtook
    spared,     \* history: sessions a failed statement left alive
    faults

accountVars == <<role, status, password>>
sessionVars == <<owner, opened, issued, expired, late, spared>>
accountsVars == <<accountVars, sessionVars, record, call, raced, faults>>

Free == [pc |-> "free", op |-> None, sid |-> None, user |-> None, target |-> None,
         give |-> None, guess |-> None, seen |-> None, stale |-> FALSE, code |-> 0]

\* A username without a record in the limiter.
Clear == [count |-> 0, window |-> "none", locked |-> FALSE]

ActiveAdmins == {u \in User : role[u] = "admin" /\ status[u] = "active"}
Working(pcs) == {r \in Request : call[r].pc \in pcs}

AccountsInit ==
    /\ role = FirstRole
    /\ status = [u \in User |-> IF FirstRole[u] = None THEN "absent" ELSE "active"]
    /\ password = [u \in User |-> FirstPassword]
    /\ owner = FirstSession
    /\ opened = [s \in Sid |-> IF FirstSession[s] = None THEN None ELSE FirstPassword]
    /\ issued = {s \in Sid : FirstSession[s] # None}
    /\ expired = {} /\ late = {} /\ spared = {}
    /\ record = [u \in User |-> Clear]
    /\ call = [r \in Request |-> Free]
    /\ raced = FALSE
    /\ faults = 0
-----------------------------------------------------------------------------
(* A request comes in, is answered, and its place is free again. *)

\* give is the role or password asked for, guess the password offered as proof.
Arriving(op, sid, target, give, guess) ==
    [Free EXCEPT !.pc = IF op = "login" THEN "allow" ELSE "session", !.op = op,
                 !.sid = sid, !.target = target, !.give = give, !.guess = guess]

Answered(r, code) == [call[r] EXCEPT !.pc = "answered", !.code = code]
Reply(r, code) == call' = [call EXCEPT ![r] = Answered(r, code)]
Goto(r, pc) == call' = [call EXCEPT ![r].pc = pc]

Snapshot(u) == [role |-> role[u], status |-> status[u], password |-> password[u]]

\* The sessions a revocation has to end: all of the user's, except the one its
\* owner changes the password from.
Doomed(r) ==
    {s \in Sid : owner[s] = call[r].target
                 /\ ~(call[r].op = "password" /\ s = call[r].sid)}

\* A statement fails: 401 while the session is looked up, a failed attempt during
\* a login, 500 later; creating a user goes on to the insertion, and a failure to
\* delete sessions is only logged.
Fault(r) ==
    /\ faults < MaxFaults
    /\ faults' = faults + 1
    /\ \/ call[r].pc \in {"session", "user"} /\ Reply(r, 401) /\ UNCHANGED spared
       \/ call[r].pc = "read" /\ call[r].op = "create" /\ Goto(r, "write") /\ UNCHANGED spared
       \/ /\ call[r].pc \in {"read", "count", "write"}
          /\ ~(call[r].pc = "read" /\ call[r].op = "create")
          /\ Reply(r, 500) /\ UNCHANGED spared
       \/ call[r].pc \in {"lookup", "open"} /\ Goto(r, "failed") /\ UNCHANGED spared
       \/ /\ call[r].pc = "kill"
          /\ Reply(r, 200)
          /\ spared' = spared \cup Doomed(r)
    /\ UNCHANGED <<accountVars, owner, opened, issued, expired, late, record, raced>>
-----------------------------------------------------------------------------
(* Login.  The limiter of usernames is modelled; that of addresses is the same
   code with another key. *)

Allow(r) ==
    /\ call[r].pc = "allow"
    /\ LET u == call[r].target IN
       \/ /\ ~record[u].locked /\ record[u].window = "over"
          /\ record' = [record EXCEPT ![u] = Clear]
          /\ Goto(r, "lookup")
       \/ /\ ~record[u].locked /\ record[u].window # "over"
          /\ record[u].count < MaxAttempts
          /\ Goto(r, "lookup")
          /\ UNCHANGED record
       \/ /\ \/ record[u].locked
             \/ record[u].window # "over" /\ record[u].count >= MaxAttempts
          /\ Reply(r, 429)
          /\ UNCHANGED record
    /\ UNCHANGED <<accountVars, sessionVars, raced, faults>>

\* The password is compared with the row read here.
Lookup(r) ==
    /\ call[r].pc = "lookup"
    /\ LET u == call[r].target
           welcome == status[u] = "active" /\ call[r].guess = password[u]
       IN call' = [call EXCEPT ![r].pc = IF welcome THEN "open" ELSE "failed",
                               ![r].seen = Snapshot(u)]
    /\ UNCHANGED <<accountVars, sessionVars, record, raced, faults>>

\* The record as it was when it is looked at, not as it was when the attempt was let in.
RecordFailure(r) ==
    /\ call[r].pc = "failed"
    /\ LET u == call[r].target
           count == IF record[u].window = "open" THEN record[u].count + 1 ELSE 1
       IN record' = [record EXCEPT ![u] =
               [count |-> count, window |-> "open",
                locked |-> record[u].window = "open" /\ count >= MaxAttempts]]
    /\ Reply(r, 401)
    /\ UNCHANGED <<accountVars, sessionVars, raced, faults>>

\* Nothing was revoked since the password was looked up.
Unrevoked(r) ==
    LET u == call[r].target
    IN status[u] = call[r].seen.status /\ password[u] = call[r].seen.password

CreateSession(r) ==
    /\ call[r].pc = "open"
    /\ \E s \in Sid \ issued :
          /\ owner' = [owner EXCEPT ![s] = call[r].target]
          /\ opened' = [opened EXCEPT ![s] = call[r].guess]
          /\ issued' = issued \cup {s}
          /\ late' = IF Unrevoked(r) THEN late ELSE late \cup {s}
          /\ call' = [call EXCEPT ![r].pc = "succeed", ![r].sid = s]
    /\ UNCHANGED <<accountVars, expired, spared, record, raced, faults>>

ResetSuccess(r) ==
    /\ call[r].pc = "succeed"
    /\ record' = [record EXCEPT ![call[r].target] = Clear]
    /\ Reply(r, 200)
    /\ UNCHANGED <<accountVars, sessionVars, raced, faults>>

\* The window (5 min) ends before the lock (15 min from the last failure) does.
WindowOver(u) ==
    /\ record[u].window = "open"
    /\ record' = [record EXCEPT ![u].window = "over"]
    /\ UNCHANGED <<accountVars, sessionVars, call, raced, faults>>

LockOver(u) ==
    /\ record[u].locked /\ record[u].window = "over"
    /\ record' = [record EXCEPT ![u].locked = FALSE]
    /\ UNCHANGED <<accountVars, sessionVars, call, raced, faults>>

Cleanup(u) ==
    /\ record[u].window = "over" /\ ~record[u].locked
    /\ record' = [record EXCEPT ![u] = Clear]
    /\ UNCHANGED <<accountVars, sessionVars, call, raced, faults>>
-----------------------------------------------------------------------------
(* requireAuth and requireRole, two statements before every other handler. *)

ValidateToken(r) ==
    /\ call[r].pc = "session"
    /\ LET s == call[r].sid
           known == s # None /\ owner[s] # None
       IN \/ /\ known /\ s \notin expired
             /\ call' = [call EXCEPT ![r].pc = "user", ![r].user = owner[s]]
             /\ UNCHANGED owner
          \/ /\ known /\ s \in expired
             /\ owner' = [owner EXCEPT ![s] = None]
             /\ Reply(r, 401)
          \/ ~known /\ Reply(r, 401) /\ UNCHANGED owner
    /\ UNCHANGED <<accountVars, opened, issued, expired, late, spared, record, raced, faults>>

\* The role is read again, so that a change of role does not wait for a new login.
Permitted(r, ro) ==
    /\ call[r].op \in AdminOp => ro = "admin"
    /\ call[r].op = "users" => ro # "viewer"

requireAuth(r) ==
    /\ call[r].pc = "user"
    /\ LET u == call[r].user
           on == [call[r] EXCEPT !.target = IF call[r].op \in SelfOp THEN u ELSE @]
       IN call' = [call EXCEPT ![r] =
            IF status[u] # "active" THEN Answered(r, 401)
            ELSE IF ~Permitted(r, role[u]) THEN Answered(r, 403)
            ELSE IF call[r].op = "poll" THEN Answered(r, 200)
            ELSE IF call[r].op = "logout" THEN [on EXCEPT !.pc = "write"]
            ELSE [on EXCEPT !.pc = "read"]]
    /\ UNCHANGED <<accountVars, sessionVars, record, raced, faults>>

Expire(s) ==
    /\ owner[s] # None /\ s \notin expired
    /\ faults < MaxFaults /\ faults' = faults + 1
    /\ expired' = expired \cup {s}
    /\ UNCHANGED <<accountVars, owner, opened, issued, late, spared, record, call, raced>>

PurgeExpiredSessions ==
    /\ \E s \in expired : owner[s] # None
    /\ owner' = [s \in Sid |-> IF s \in expired THEN None ELSE owner[s]]
    /\ UNCHANGED <<accountVars, opened, issued, expired, late, spared, record, call, raced, faults>>
-----------------------------------------------------------------------------
(* The handlers. *)

\* Only the change of role is guarded, not the suspension.
GuardedRole(r) ==
    /\ call[r].op = "updateUser"
    /\ role[call[r].target] = "admin" /\ call[r].give # "admin"

\* An admin loses the role or the account only if another one is left.
Guarded(r) ==
    /\ call[r].op \in {"updateUser", "suspend"}
    /\ role[call[r].target] = "admin"
    /\ call[r].op = "updateUser" => call[r].give # "admin"

GetUser(r) ==
    /\ call[r].pc = "read" /\ call[r].op # "users"
    /\ LET u == call[r].target
           absent == status[u] = "absent"
           op == call[r].op
           next == [call[r] EXCEPT !.seen = Snapshot(u),
                                   !.pc = IF Guarded(r) THEN "count" ELSE "write"]
       IN call' = [call EXCEPT ![r] =
            IF op = "create" THEN IF absent THEN next ELSE Answered(r, 409)
            ELSE IF absent THEN Answered(r, 404)
            ELSE IF op = "me" THEN [Answered(r, 200) EXCEPT !.seen = Snapshot(u)]
            ELSE IF op = "password" /\ call[r].guess # password[u] THEN Answered(r, 401)
            ELSE next]
    /\ UNCHANGED <<accountVars, sessionVars, record, raced, faults>>

ListUsers(r) ==
    /\ call[r].pc = "read" /\ call[r].op = "users"
    /\ call' = [call EXCEPT ![r] = [Answered(r, 200) EXCEPT !.seen =
            [u \in User |-> [role |-> role[u], status |-> status[u]]]]]
    /\ UNCHANGED <<accountVars, sessionVars, record, raced, faults>>

CountActiveAdmins(r) ==
    /\ call[r].pc = "count"
    /\ IF Cardinality(ActiveAdmins) <= 1 THEN Reply(r, 409) ELSE Goto(r, "write")
    /\ UNCHANGED <<accountVars, sessionVars, record, raced, faults>>

\* Decisions on roles that are not written yet; a write overtakes the others.
Deciding == {r \in Working({"count", "write"}) : call[r].op \in {"updateUser", "suspend", "updateMe"}}

Overtaking(r, next) ==
    /\ raced' = (raced \/ call[r].stale)
    /\ call' = [q \in Request |->
          IF q = r THEN next
          ELSE IF q \in Deciding /\ <<role, status>>' # <<role, status>>
               THEN [call[q] EXCEPT !.stale = TRUE] ELSE call[q]]

\* A profile update writes the whole row, with the role read before.
WriteRole(r) ==
    /\ call[r].pc = "write" /\ call[r].op \in {"updateUser", "updateMe"}
    /\ role' = [role EXCEPT ![call[r].target] =
                   IF call[r].op = "updateMe" THEN call[r].seen.role ELSE call[r].give]
    /\ UNCHANGED <<status, password, sessionVars, record, faults>>
    /\ Overtaking(r, Answered(r, 200))

SuspendUser(r) ==
    /\ call[r].pc = "write" /\ call[r].op \in {"suspend", "activate"}
    /\ status' = [status EXCEPT ![call[r].target] =
                     IF call[r].op = "suspend" THEN "suspended" ELSE "active"]
    /\ UNCHANGED <<role, password, sessionVars, record, faults>>
    /\ Overtaking(r, IF call[r].op = "suspend" THEN [call[r] EXCEPT !.pc = "kill"]
                     ELSE Answered(r, 200))

CreateUser(r) ==
    /\ call[r].pc = "write" /\ call[r].op = "create"
    /\ LET u == call[r].target IN
       IF status[u] # "absent"
       THEN Reply(r, 500) /\ UNCHANGED <<accountVars, raced>>
       ELSE /\ status' = [status EXCEPT ![u] = "active"]
            /\ role' = [role EXCEPT ![u] = call[r].give]
            /\ password' = [password EXCEPT ![u] = call[r].guess]
            /\ Overtaking(r, Answered(r, 200))
    /\ UNCHANGED <<sessionVars, record, faults>>

\* A reset that leaves the sessions alone.
UpdateUserPasswordOnly(r) ==
    /\ call[r].pc = "write" /\ call[r].op \in {"password", "reset"}
    /\ password' = [password EXCEPT ![call[r].target] = call[r].give]
    /\ opened' = IF call[r].op = "password"
                 THEN [opened EXCEPT ![call[r].sid] = call[r].give] ELSE opened
    /\ IF call[r].op = "password" THEN Goto(r, "kill") ELSE Reply(r, 200)
    /\ UNCHANGED <<role, status, owner, issued, expired, late, spared, record, raced, faults>>

UpdateUserPassword(r) ==
    /\ call[r].pc = "write" /\ call[r].op \in {"password", "reset"}
    /\ password' = [password EXCEPT ![call[r].target] = call[r].give]
    /\ opened' = IF call[r].op = "password"
                 THEN [opened EXCEPT ![call[r].sid] = call[r].give] ELSE opened
    /\ Goto(r, "kill")
    /\ UNCHANGED <<role, status, owner, issued, expired, late, spared, record, raced, faults>>

DeleteUserSessions(r) ==
    /\ call[r].pc = "kill"
    /\ owner' = [s \in Sid |-> IF s \in Doomed(r) THEN None ELSE owner[s]]
    /\ Reply(r, 200)
    /\ UNCHANGED <<accountVars, opened, issued, expired, late, spared, record, raced, faults>>

DeleteSession(r) ==
    /\ call[r].pc = "write" /\ call[r].op = "logout"
    /\ owner' = [owner EXCEPT ![call[r].sid] = None]
    /\ Reply(r, 200)
    /\ UNCHANGED <<accountVars, opened, issued, expired, late, spared, record, raced, faults>>

Serve(r) ==
    \/ Allow(r) \/ Lookup(r) \/ RecordFailure(r) \/ CreateSession(r) \/ ResetSuccess(r)
    \/ ValidateToken(r) \/ requireAuth(r) \/ GetUser(r) \/ ListUsers(r) \/ CountActiveAdmins(r)
    \/ WriteRole(r) \/ SuspendUser(r) \/ CreateUser(r) \/ UpdateUserPassword(r)
    \/ DeleteUserSessions(r) \/ DeleteSession(r)

Passing ==
    \/ \E r \in Request : Fault(r)
    \/ \E s \in Sid : Expire(s)
    \/ PurgeExpiredSessions
    \/ \E u \in User : WindowOver(u) \/ LockOver(u) \/ Cleanup(u)

(* On its own the server serves any requests, with any cookie it has set. *)

Arrivals ==
    [op: {"login"}, sid: {None}, target: User, give: {None}, guess: Password]
    \cup [op: SelfOp \cup {"users"}, sid: issued \cup {None}, target: {None},
          give: Password, guess: Password]
    \cup [op: AdminOp, sid: issued \cup {None}, target: User,
          give: Role \cup Password, guess: Password]

Ask(r) ==
    /\ call[r].pc \in {"free", "answered"}
    /\ \E a \in Arrivals :
          /\ a.op \in {"updateUser", "create"} => a.give \in Role
          /\ a.op = "reset" => a.give \in Password
          /\ call' = [call EXCEPT ![r] = Arriving(a.op, a.sid, a.target, a.give, a.guess)]
    /\ UNCHANGED <<accountVars, sessionVars, record, raced, faults>>

\* The answer is with the client, and the place may serve the next request.
Take(r) ==
    /\ call[r].pc = "answered"
    /\ call' = [call EXCEPT ![r] = Free]
    /\ UNCHANGED <<accountVars, sessionVars, record, raced, faults>>

AccountsNext == Passing \/ \E r \in Request : Serve(r) \/ Ask(r) \/ Take(r)

AccountsSpec == AccountsInit /\ [][AccountsNext]_accountsVars
-----------------------------------------------------------------------------
(* Properties. *)

\* The types of the accounts.
AccountsTypeOK ==
    /\ role \in [User -> Role \cup {None}]
    /\ status \in [User -> {"absent", "active", "suspended"}]
    /\ password \in [User -> Password]
    /\ owner \in [Sid -> User \cup {None}]
    /\ opened \in [Sid -> Password \cup {None}]
    /\ issued \subseteq Sid /\ expired \subseteq issued
    /\ late \subseteq issued /\ spared \subseteq issued
    /\ record \in [User -> [count: Nat, window: {"none", "open", "over"}, locked: BOOLEAN]]
    /\ \A r \in Request : call[r].pc = "free" \/ call[r].op \in Op
    /\ raced \in BOOLEAN
    /\ faults \in 0 .. MaxFaults

\* The guards against demoting or suspending the last admin leave an active admin,
\* as long as no write goes ahead on a count or a row that another write has
\* made outdated since it was read.
AdminUnlessOvertaken == raced \/ ActiveAdmins # {}

\* The same without that condition, which is what the documentation says.
AdminRemains == ActiveAdmins # {}

\* Suspending a user, resetting or changing a password ends the sessions the user
\* had: whatever session there is belongs to an active account and to its present
\* password, unless its ending is under way or has failed, or the login that
\* opened it had looked at the account before.
RevocationEndsSessions ==
    \A s \in Sid : (owner[s] # None /\ s \notin late \cup spared) =>
        \/ status[owner[s]] = "active" /\ opened[s] = password[owner[s]]
        \/ \E r \in Working({"kill"}) : s \in Doomed(r)

===============================================================================
