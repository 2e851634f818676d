------------------------------ MODULE WebSession ------------------------------
(***************************************************************************)
(* The web client's idea of who is logged in: the auth store, the router's *)
(* guard, the interceptor of the API client, and the pages that change     *)
(* accounts (login, profile, users).  Each tab is a browser of its own;    *)
(* its requests are served by Accounts and answered in any order.          *)
(***************************************************************************)
EXTENDS Accounts

CONSTANTS
    Tab,
    Slot,         \* requests a tab can have on the way
    Visited,      \* pages opened in each tab
    Granted,      \* roles an administrator gives
    Chosen,       \* passwords that are set
    FirstCookie,  \* the sessions the browsers remember
    MaxActions    \* bound: what users do

Page == {"Login", "Dashboard", "Search", "SLA", "Targets", "Users", "Settings",
         "Profile", "SOC", "Alerts", "AuditLog"}
Public == {"Login", "SOC"}
RequiresAdmin == {"Users", "Settings"}
RequiresOperator == {"Search", "AuditLog"}

ASSUME RequestAssumption == Request = Tab \X Slot
ASSUME CookieAssumption == FirstCookie \in [Tab -> {s \in Sid : FirstSession[s] # None} \cup {None}]
ASSUME FormsAssumption ==
    /\ Granted \subseteq Role /\ Chosen \subseteq Password
    /\ Visited \in [Tab -> SUBSET Page]
    /\ None \notin Page /\ None \notin [id: User, role: Role \cup {None}]

VARIABLES
    cookie,     \* the session the browser holds
    me,         \* auth.user
    route,      \* the page shown; "blank" before the application is mounted
    going,      \* the page the first navigation waits to open
    fetched,    \* initialFetchDone
    list,       \* users, as the settings page last read them
    form,       \* the user being edited or about to be suspended, from list
    dropped,    \* requests the page that sent them does not wait for any more
    actions

clientVars == <<cookie, me, route, going, fetched, list, form, dropped>>
vars == <<accountsVars, clientVars, actions>>

isLoggedIn(u) == u # None
isAdmin(u) == u # None /\ u.role = "admin"
isOperator(u) == u # None /\ u.role \in {"admin", "operator"}

\* The guard sends a navigation elsewhere, and looks at it again there.
Guard(to, u) ==
    IF to \notin Public /\ ~isLoggedIn(u) THEN "Login"
    ELSE IF to \in RequiresAdmin /\ ~isAdmin(u) THEN "Dashboard"
    ELSE IF to \in RequiresOperator /\ ~isOperator(u) THEN "Dashboard"
    ELSE IF to = "Login" /\ isLoggedIn(u) THEN "Dashboard"
    ELSE to
Resolve(to, u) == Guard(Guard(to, u), u)

Init ==
    /\ AccountsInit
    /\ cookie = FirstCookie
    /\ me = [t \in Tab |-> None]
    /\ route = [t \in Tab |-> "blank"]
    /\ going = [t \in Tab |-> None]
    /\ fetched = [t \in Tab |-> FALSE]
    /\ list = [t \in Tab |-> None]
    /\ form = [t \in Tab |-> None]
    /\ dropped = {}
    /\ actions = 0
-----------------------------------------------------------------------------
(* Requests of a tab. *)

OnTheWay(t) == {n \in Slot : call[<<t, n>>].pc # "free"}
InFlight(t, op) ==
    \E n \in OnTheWay(t) : call[<<t, n>>].op = op /\ <<t, n>> \notin dropped

Send(t, op, target, give, guess) ==
    \E n \in Slot \ OnTheWay(t) :
        call' = [call EXCEPT ![<<t, n>>] =
            Arriving(op, IF op = "login" THEN None ELSE cookie[t], target, give, guess)]

Serverside == UNCHANGED <<accountVars, sessionVars, record, raced, faults>>
Act == actions < MaxActions /\ actions' = actions + 1

\* The application is loaded: the first navigation asks who the user is.
Open(t, to) ==
    /\ route[t] = "blank" /\ ~fetched[t]
    /\ Send(t, "me", None, None, None)
    /\ fetched' = [fetched EXCEPT ![t] = TRUE]
    /\ going' = [going EXCEPT ![t] = to]
    /\ UNCHANGED <<cookie, me, route, list, form, dropped, actions>>
    /\ Serverside

\* The application is mounted when the first navigation is over.
Mounted(t) == route[t] # "blank"

\* A later navigation, by a link or the browser's buttons, waits for nothing.
Navigate(t, to) ==
    /\ Mounted(t) /\ route[t] # to
    /\ Act
    /\ route' = [route EXCEPT ![t] = Resolve(to, me[t])]
    /\ going' = [going EXCEPT ![t] = None]
    /\ list' = [list EXCEPT ![t] = None]
    /\ form' = [form EXCEPT ![t] = None]
    /\ UNCHANGED <<cookie, me, fetched, dropped, call>>
    /\ Serverside

\* A reload forgets everything but the cookie; nobody waits for the answers any more.
Reload(t) ==
    /\ fetched[t] /\ Act
    /\ me' = [me EXCEPT ![t] = None]
    /\ route' = [route EXCEPT ![t] = "blank"]
    /\ going' = [going EXCEPT ![t] = None]
    /\ fetched' = [fetched EXCEPT ![t] = FALSE]
    /\ list' = [list EXCEPT ![t] = None]
    /\ form' = [form EXCEPT ![t] = None]
    /\ dropped' = dropped \cup {<<t, n>> : n \in OnTheWay(t)}
    /\ UNCHANGED <<cookie, call>>
    /\ Serverside
-----------------------------------------------------------------------------
(* What a page sends.  A user works on one page at a time. *)

Submit(t, page, op, target, give, guess) ==
    /\ route[t] = page
    /\ Act
    /\ Send(t, op, target, give, guess)
    /\ UNCHANGED clientVars
    /\ Serverside

handleLogin(t) ==
    /\ ~InFlight(t, "login")
    /\ \E u \in User, p \in Password : Submit(t, "Login", "login", u, None, p)

handleLogout(t) ==
    /\ route[t] \notin Public \cup {"blank"} /\ me[t] # None
    /\ Submit(t, route[t], "logout", None, None, None)

updateProfile(t) == Submit(t, "Profile", "updateMe", None, None, None)

\* The form asks for the new password twice.
changePassword(t) ==
    \E p \in Chosen, current \in Password :
        Submit(t, "Profile", "password", None, p, current)

\* The dashboard asks for its data every 30 s, whatever the last answer was.
loadDashboard(t) ==
    /\ route[t] = "Dashboard" /\ ~InFlight(t, "poll")
    /\ Send(t, "poll", None, None, None)
    /\ UNCHANGED <<clientVars, actions>>
    /\ Serverside

loadUsers(t) ==
    /\ route[t] = "Users" /\ isAdmin(me[t])
    /\ list[t] = None /\ ~InFlight(t, "users")
    /\ Send(t, "users", None, None, None)
    /\ UNCHANGED <<clientVars, actions>>
    /\ Serverside

\* The form takes the role, the confirmation the status, from the list as read.
openEditUser(t) ==
    /\ route[t] = "Users" /\ isAdmin(me[t])
    /\ list[t] # None /\ form[t] = None
    /\ \E u \in User :
          /\ list[t][u].status # "absent"
          /\ form' = [form EXCEPT ![t] = [user |-> u, suspend |-> list[t][u].status = "active"]]
    /\ UNCHANGED <<call, cookie, me, route, going, fetched, list, dropped, actions>>
    /\ Serverside

saveEditUser(t) ==
    /\ form[t] # None
    /\ \E ro \in Granted : Submit(t, "Users", "updateUser", form[t].user, ro, None)

toggleSuspend(t) ==
    /\ form[t] # None
    /\ Submit(t, "Users", IF form[t].suspend THEN "suspend" ELSE "activate",
              form[t].user, None, None)

resetPassword(t) ==
    /\ form[t] # None
    /\ \E p \in Chosen : Submit(t, "Users", "reset", form[t].user, p, None)

createUser(t) ==
    /\ isAdmin(me[t])
    /\ \E u \in User, ro \in Granted :
          Submit(t, "Users", "create", u, ro, FirstPassword)
-----------------------------------------------------------------------------
(* Answers. *)

\* A 401 ends the session in the store, except of the requests for the own profile.
Evicts(c) == c.code = 401 /\ c.op \notin {"me", "updateMe"}

\* auth.user once the interceptor and the caller have seen the answer.
UserAfter(t, c) ==
    IF c.op = "login" /\ c.code = 200 THEN [id |-> c.target, role |-> c.seen.role]
    ELSE IF c.op = "me" /\ c.code = 200 THEN [id |-> c.user, role |-> c.seen.role]
    ELSE IF c.op \in {"me", "logout"} \/ Evicts(c) THEN None
    ELSE me[t]

\* A session that has ended is cleared from the store, and the page stays.
DestinationStaying(t, c) ==
    IF c.op = "login" /\ c.code = 200 THEN "Dashboard"
    ELSE IF c.op = "logout" THEN "Login"
    ELSE IF c.op = "me" /\ going[t] # None THEN going[t]
    ELSE route[t]

\* Where the caller, or the interceptor, sends the tab.
Destination(t, c) ==
    IF c.op = "login" /\ c.code = 200 THEN "Dashboard"
    ELSE IF c.op = "logout" \/ Evicts(c) THEN "Login"
    ELSE IF c.op = "me" /\ going[t] # None THEN going[t]
    ELSE route[t]

Follows(c) == c.code = 200 /\ c.op \in {"updateUser", "suspend", "activate", "create"}

\* The confirmation closes in any case, the form when it was saved.
Closes(c) == c.op \in {"suspend", "activate"} \/ (c.op = "updateUser" /\ c.code = 200)

\* code 0 is an answer that never arrives.
Deliver(t, n, code) ==
    LET r == <<t, n>>
        c == [call[r] EXCEPT !.code = code]
        user == UserAfter(t, c)
        page == IF Destination(t, c) = route[t] THEN route[t]
                ELSE Resolve(Destination(t, c), user)
    IN
    /\ me' = [me EXCEPT ![t] = user]
    /\ route' = [route EXCEPT ![t] = page]
    /\ going' = [going EXCEPT ![t] = IF page = route[t] THEN @ ELSE None]
    /\ cookie' = [cookie EXCEPT ![t] =
           IF code # 200 THEN @ ELSE IF c.op = "login" THEN c.sid
           ELSE IF c.op = "logout" THEN None ELSE @]
    /\ list' = [list EXCEPT ![t] =
           IF page # "Users" THEN None
           ELSE IF c.op = "users" /\ code = 200 THEN c.seen ELSE @]
    /\ form' = [form EXCEPT ![t] =
           IF page # "Users" \/ Closes(c) THEN None ELSE @]
    /\ call' = [call EXCEPT ![r] =
           IF Follows(c) THEN Arriving("users", cookie[t], None, None, None) ELSE Free]
    /\ UNCHANGED <<accountVars, sessionVars, record, raced, fetched, dropped>>

Arrive(t, n) ==
    /\ call[<<t, n>>].pc = "answered" /\ <<t, n>> \notin dropped
    /\ Deliver(t, n, call[<<t, n>>].code)
    /\ UNCHANGED <<faults, actions>>

LoseAnswer(t, n) ==
    /\ call[<<t, n>>].pc = "answered" /\ <<t, n>> \notin dropped
    /\ faults < MaxFaults /\ faults' = faults + 1
    /\ Deliver(t, n, 0)
    /\ UNCHANGED actions

Drop(t, n) ==
    /\ call[<<t, n>>].pc = "answered" /\ <<t, n>> \in dropped
    /\ call' = [call EXCEPT ![<<t, n>>] = Free]
    /\ dropped' = dropped \ {<<t, n>>}
    /\ UNCHANGED <<cookie, me, route, going, fetched, list, form, actions>>
    /\ Serverside
-----------------------------------------------------------------------------
Client(t) ==
    \/ \E to \in Visited[t] : Open(t, to) \/ Navigate(t, to)
    \/ Reload(t) \/ handleLogin(t) \/ handleLogout(t) \/ updateProfile(t)
    \/ changePassword(t) \/ loadDashboard(t) \/ loadUsers(t) \/ openEditUser(t)
    \/ saveEditUser(t) \/ toggleSuspend(t) \/ resetPassword(t) \/ createUser(t)
    \/ \E n \in Slot : Arrive(t, n) \/ LoseAnswer(t, n) \/ Drop(t, n)

Next ==
    \/ Passing /\ UNCHANGED <<clientVars, actions>>
    \/ \E r \in Request : Serve(r) /\ UNCHANGED <<clientVars, actions>>
    \/ \E t \in Tab : Client(t)

Spec == Init /\ [][Next]_vars
-----------------------------------------------------------------------------
(* Properties. *)

\* A page that is not public is shown only to somebody who is logged in, in the store and
\* by the cookie, and who has the role the page asks for, whatever ended the session, in
\* this tab or another, and in whatever order its answers come.
ShownToUser ==
    \A t \in Tab :
        route[t] \notin Public \cup {"blank"} =>
            /\ me[t] # None /\ cookie[t] # None
            /\ route[t] \in RequiresAdmin => isAdmin(me[t])
            /\ route[t] \in RequiresOperator => isOperator(me[t])

===============================================================================
